------------------------ MODULE SkillAssessment_proofs ------------------------
(***************************************************************************)
(* Proofs about SkillAssessment, for any number of concurrent requests,    *)
(* attempts and questions, with or without Redis.                          *)
(***************************************************************************)
EXTENDS SkillAssessment, FiniteSetTheorems, TLAPS

(***************************************************************************)
(* Types.  The sessions that requests in progress hold have been started.  *)
(***************************************************************************)
SlotsStarted ==
  /\ \A s \in Starters :
       start[s].pc = "insert" => start[s].drops \subseteq started
  /\ \A s \in Submitters :
       submit[s].pc # "idle" => submit[s].attempt \in started

TypeInv == TypeOK /\ SlotsStarted

(* Sets of attempts are finite.                                            *)
LEMMA AttemptsFinite ==
  ASSUME NEW S \in SUBSET Attempts
  PROVE  IsFiniteSet(S) /\ Cardinality(S) \in Nat
BY SetsAssumption, FS_Subset, FS_CardinalityType

(* At first nothing has been started and no request is in progress.        *)
LEMMA TypeInit == Init => TypeInv
<1> SUFFICES ASSUME Init PROVE TypeInv
  OBVIOUS
<1>1. profile \in Profile
  BY DEF Init, Profile, ProfileStatus
<1>2. /\ Idle \in StartRequest /\ Idle \in SubmitRequest
      /\ Idle \in EditRequest /\ Idle.pc = "idle"
  BY DEF Idle, StartRequest, SubmitRequest, EditRequest
<1>3. TypeOK
  BY <1>1, <1>2 DEF Init, TypeOK
<1>4. SlotsStarted
  BY <1>2 DEF Init, SlotsStarted
<1> QED BY <1>3, <1>4 DEF TypeInv

(* Starting keeps the types: what it drops is open, hence started.         *)
LEMMA StartTyped == TypeInv /\ StartNext => TypeInv'
<1> SUFFICES ASSUME TypeInv, NEW s \in Starters,
                    \/ StartLock(s) \/ StartFind(s) \/ StartInsert(s)
                    \/ StartRollback(s)
             PROVE  TypeInv'
  BY DEF StartNext
<1> USE DEF profiles, attempts, queue, history, Idle, TypeInv
<1>0. start[s] \in StartRequest
  BY DEF TypeOK
<1>1. ASSUME StartLock(s) PROVE TypeInv'
  <2>1. Cardinality(completed) \in Nat
    BY AttemptsFinite DEF TypeOK
  <2>2. start' \in [Starters -> StartRequest] /\ claimed' \in Nat
    BY <1>1, <2>1 DEF StartLock, ClaimUsed, TypeOK, StartRequest
  <2>3. TypeOK'
    BY <1>1, <2>2 DEF StartLock, TypeOK
  <2>4. ASSUME NEW t \in Starters, start'[t].pc = "insert"
        PROVE  start'[t].drops \subseteq started
    <3>1. start'[t] = start[t] \/ start'[t] = [pc |-> "insert", drops |-> {}]
            \/ start'[t] = [pc |-> "find"]
      BY <1>1 DEF StartLock, TypeOK
    <3> QED BY <2>4, <3>1 DEF SlotsStarted
  <2>5. SlotsStarted'
    BY <1>1, <2>4 DEF StartLock, SlotsStarted
  <2> QED BY <2>3, <2>5
<1>2. ASSUME StartFind(s) PROVE TypeInv'
  <2>1. Open \subseteq started /\ started \subseteq Attempts
    BY DEF Open, TypeOK
  <2>2. ASSUME NEW a \in Open PROVE Cardinality(completed \cup {a}) \in Nat
    BY <2>1, AttemptsFinite DEF TypeOK
  <2>3. claimed' \in Nat
    BY <1>2, <2>2 DEF StartFind, ClaimUsed, TypeOK
  <2>4. PICK r \in {Idle} \cup [pc : {"insert"}, drops : SUBSET started] :
          start' = [start EXCEPT ![s] = r]
    <3>1. ASSUME NEW d \in SUBSET started
          PROVE  [pc |-> "insert", drops |-> d]
                   \in [pc : {"insert"}, drops : SUBSET started]
      OBVIOUS
    <3>2. \/ start' = [start EXCEPT ![s] = Idle]
          \/ \E d \in SUBSET started :
               start' = [start EXCEPT ![s] = [pc |-> "insert", drops |-> d]]
      BY <1>2, <2>1 DEF StartFind
    <3> QED BY <3>1, <3>2
  <2>5. r \in StartRequest
    BY <2>1 DEF StartRequest
  <2>6. TypeOK'
    BY <1>2, <2>3, <2>4, <2>5 DEF StartFind, TypeOK
  <2>7. SlotsStarted'
    <3>1. r.pc = "insert" => r.drops \subseteq started
      OBVIOUS
    <3>2. \A t \in Starters : start'[t] = start[t] \/ start'[t] = r
      BY <2>4 DEF TypeOK
    <3> QED BY <1>2, <3>1, <3>2 DEF StartFind, SlotsStarted
  <2> QED BY <2>6, <2>7
<1>3. ASSUME StartInsert(s) PROVE TypeInv'
  <2>1. PICK a \in Attempts \ started, mix \in SUBSET Bank :
          \/ /\ started' = started \cup {a}
             /\ completed' = completed \cup start[s].drops
             /\ forced' = forced \cup start[s].drops
             /\ served' = served \cup ({a} \X mix)
             /\ UNCHANGED conflict
          \/ /\ conflict' = TRUE
             /\ UNCHANGED <<started, completed, forced, served>>
    BY <1>3 DEF StartInsert
  <2>2. start[s].drops \subseteq started
    BY <1>3 DEF StartInsert, SlotsStarted
  <2>3. mix \subseteq Questions
    BY DEF Bank
  <2>4. start' \in [Starters -> StartRequest]
    BY <1>3 DEF StartInsert, TypeOK, StartRequest
  <2>5. /\ started' \subseteq Attempts /\ completed' \subseteq started'
        /\ forced' \subseteq completed' /\ stale' \subseteq started'
        /\ started \subseteq started' /\ conflict' \in BOOLEAN
    BY <1>3, <2>1, <2>2 DEF StartInsert, TypeOK
  <2>6. served' \subseteq started' \X Questions
    BY <2>1, <2>3 DEF TypeOK
  <2>7. TypeOK'
    BY <1>3, <2>4, <2>5, <2>6 DEF StartInsert, TypeOK
  <2>8. SlotsStarted'
    BY <1>3, <2>5 DEF StartInsert, SlotsStarted, TypeOK
  <2> QED BY <2>7, <2>8
<1>4. ASSUME StartRollback(s) PROVE TypeInv'
  <2>1. start' \in [Starters -> StartRequest]
    BY <1>4 DEF StartRollback, TypeOK, StartRequest
  <2> QED BY <1>4, <2>1 DEF StartRollback, TypeOK, SlotsStarted
<1> QED BY <1>1, <1>2, <1>3, <1>4

(* Submitting keeps the types: the session it completes has been started.  *)
LEMMA SubmitTyped == TypeInv /\ SubmitNext => TypeInv'
<1> SUFFICES ASSUME TypeInv, NEW s \in Submitters,
                    \/ \E a \in Attempts, passed \in BOOLEAN :
                         SubmitLoad(s, a, passed)
                    \/ SubmitScore(s) \/ SubmitSave(s) \/ SubmitRollback(s)
             PROVE  TypeInv'
  BY DEF SubmitNext, SubmitStep
<1> USE DEF profiles, attempts, queue, history, Idle, TypeInv
<1>0. submit[s] \in SubmitRequest
  BY DEF TypeOK
<1>1. ASSUME NEW a \in Attempts, NEW passed \in BOOLEAN,
             SubmitLoad(s, a, passed)
      PROVE  TypeInv'
  <2>1. submit' \in [Submitters -> SubmitRequest]
    BY <1>1 DEF SubmitLoad, TypeOK, SubmitRequest
  <2> QED BY <1>1, <2>1 DEF SubmitLoad, TypeOK, SlotsStarted
<1>2. ASSUME SubmitScore(s) PROVE TypeInv'
  <2>1. submit[s].attempt \in Attempts /\ submit[s].passed \in BOOLEAN
    BY <1>0, <1>2 DEF SubmitScore, SubmitRequest
  <2>2. submit' \in [Submitters -> SubmitRequest]
    BY <1>2, <2>1 DEF SubmitScore, TypeOK, SubmitRequest
  <2>3. adding' \in [Attempts -> Nat] /\ waiting' \in [Attempts -> Nat]
    BY <1>2, <2>1 DEF SubmitScore, TypeOK
  <2> QED BY <1>2, <2>2, <2>3 DEF SubmitScore, TypeOK, SlotsStarted
<1>3. ASSUME SubmitSave(s) PROVE TypeInv'
  <2>1. /\ submit[s].attempt \in started
        /\ submit[s].passed \in BOOLEAN
    BY <1>0, <1>3 DEF SubmitSave, SubmitRequest, SlotsStarted
  <2>2. submit' \in [Submitters -> SubmitRequest]
    BY <1>3 DEF SubmitSave, TypeOK, SubmitRequest
  <2>3. profile' \in Profile
    BY <1>3, <2>1 DEF SubmitSave, ProfileAfter, TypeOK, Profile, ProfileStatus
  <2>4. result' \in [Attempts -> {"none", "passed", "failed"}]
    BY <1>3, <2>1 DEF SubmitSave, TypeOK
  <2>5. completed' \subseteq started' /\ forced' \subseteq completed'
    BY <1>3, <2>1 DEF SubmitSave, TypeOK
  <2>6. setBack' \in BOOLEAN
    BY <1>3 DEF SubmitSave
  <2>7. TypeOK'
    BY <1>3, <2>2, <2>3, <2>4, <2>5, <2>6 DEF SubmitSave, TypeOK
  <2> QED BY <1>3, <2>7 DEF SubmitSave, SlotsStarted, TypeOK
<1>4. ASSUME SubmitRollback(s) PROVE TypeInv'
  <2>1. submit' \in [Submitters -> SubmitRequest]
    BY <1>4 DEF SubmitRollback, TypeOK, SubmitRequest
  <2> QED BY <1>4, <2>1 DEF SubmitRollback, TypeOK, SlotsStarted
<1> QED BY <1>1, <1>2, <1>3, <1>4

(* A profile is what its columns are.                                      *)
LEMMA ProfileColumns ==
  ASSUME NEW f \in [Columns -> ProfileStatus \cup BOOLEAN],
         f["status"] \in ProfileStatus, f["skillDone"] \in BOOLEAN,
         f["advancedDone"] \in BOOLEAN
  PROVE  f \in Profile
BY DEF Columns, Profile

(* Saving a profile keeps the types.                                       *)
LEMMA EditTyped == TypeInv /\ EditNext => TypeInv'
<1> SUFFICES ASSUME TypeInv, NEW w \in Editors,
                    EditLoad(w) \/ EditCompare(w) \/ EditWrite(w)
             PROVE  TypeInv'
  BY DEF EditNext
<1> USE DEF attempts, queue, history, Idle, TypeInv
<1>0. edit[w] \in EditRequest /\ profile \in Profile
  BY DEF TypeOK
<1>1. ASSUME EditLoad(w) PROVE TypeInv'
  <2>1. edit' \in [Editors -> EditRequest]
    BY <1>0, <1>1 DEF EditLoad, TypeOK, EditRequest
  <2> QED BY <1>1, <2>1 DEF EditLoad, TypeOK, SlotsStarted
<1>2. ASSUME EditCompare(w) PROVE TypeInv'
  <2>1. edit[w].copy \in Profile
    BY <1>0, <1>2 DEF EditCompare, EditRequest
  <2>2. edit' \in [Editors -> EditRequest]
    BY <1>2, <2>1 DEF EditCompare, TypeOK, EditRequest
  <2> QED BY <1>2, <2>2 DEF EditCompare, TypeOK, SlotsStarted
<1>3. ASSUME EditWrite(w) PROVE TypeInv'
  <2>1. edit[w].copy \in Profile
    BY <1>0, <1>3 DEF EditWrite, EditRequest
  <2>2. profile' \in Profile
    <3> DEFINE f == [c \in Columns |-> IF c \in edit[w].columns
                                         THEN edit[w].copy[c] ELSE profile[c]]
    <3>1. /\ f["status"] \in ProfileStatus /\ f["skillDone"] \in BOOLEAN
          /\ f["advancedDone"] \in BOOLEAN
      BY <1>0, <2>1 DEF Columns, Profile
    <3>2. f \in [Columns -> ProfileStatus \cup BOOLEAN]
      BY <3>1 DEF Columns
    <3>3. profile' = f
      BY <1>3 DEF EditWrite
    <3> HIDE DEF f
    <3> QED BY <3>1, <3>2, <3>3, ProfileColumns
  <2>3. setBack' \in BOOLEAN
    BY <1>3 DEF EditWrite
  <2>4. edit' \in [Editors -> EditRequest]
    BY <1>3 DEF EditWrite, TypeOK, EditRequest
  <2> QED BY <1>3, <2>2, <2>3, <2>4 DEF EditWrite, TypeOK, SlotsStarted
<1> QED BY <1>1, <1>2, <1>3

(* The jobs and the world keep the types.                                  *)
LEMMA WorldTyped == TypeInv /\ (GuidanceNext \/ WorldNext) => TypeInv'
<1> SUFFICES ASSUME TypeInv, GuidanceNext \/ WorldNext PROVE TypeInv'
  OBVIOUS
<1> USE DEF profiles, attempts, queue, history, Idle, TypeInv, JobTaken, JobFails
<1>0. ASSUME NEW a \in Attempts, AddEnds(a) PROVE TypeInv'
  <2>1. adding' \in [Attempts -> Nat] /\ waiting' \in [Attempts -> Nat]
    BY <1>0 DEF AddEnds, QueueAdds, QueueRefuses, AddAnswers, TypeOK
  <2> QED BY <1>0, <2>1 DEF AddEnds, QueueAdds, QueueRefuses, TypeOK, SlotsStarted
<1>1. ASSUME NEW a \in Attempts, GuidanceRun(a) PROVE TypeInv'
  <2>1. waiting' \in [Attempts -> Nat]
    BY <1>1 DEF GuidanceRun, TypeOK
  <2> QED BY <1>1, <2>1 DEF GuidanceRun, TypeOK, SlotsStarted
<1>2. ASSUME NEW a \in Attempts, GuidanceFails(a) PROVE TypeInv'
  <2>1. waiting' \in [Attempts -> Nat]
    BY <1>2 DEF GuidanceFails, TypeOK
  <2> QED BY <1>2, <2>1 DEF GuidanceFails, TypeOK, SlotsStarted
<1>3. ASSUME NEW a \in Attempts, Flag(a) PROVE TypeInv'
  BY <1>3 DEF Flag, Open, TypeOK, SlotsStarted
<1>4. ASSUME NEW a \in Attempts, SessionTimesOut(a) PROVE TypeInv'
  BY <1>4 DEF SessionTimesOut, Open, TypeOK, SlotsStarted
<1>5. ASSUME NEW t \in {"emerging", "job_ready"}, AdvancedCompletes(t)
      PROVE  TypeInv'
  BY <1>5 DEF AdvancedCompletes, TypeOK, Profile, ProfileStatus, SlotsStarted
<1>6. ASSUME Crash PROVE TypeInv'
  <2>1. /\ start' \in [Starters -> StartRequest]
        /\ submit' \in [Submitters -> SubmitRequest]
        /\ edit' \in [Editors -> EditRequest]
    BY <1>6 DEF Crash, StartRequest, SubmitRequest, EditRequest
  <2>2. /\ adding' \in [Attempts -> Nat] /\ waiting' \in [Attempts -> Nat]
        /\ dropped' \subseteq Attempts
    BY <1>6 DEF Crash, TypeOK
  <2> QED BY <1>6, <2>1, <2>2 DEF Crash, TypeOK, SlotsStarted
<1> QED BY <1>0, <1>1, <1>2, <1>3, <1>4, <1>5, <1>6 DEF GuidanceNext, WorldNext

LEMMA TypeStep == TypeInv /\ [Next]_vars => TypeInv'
<1> SUFFICES ASSUME TypeInv, [Next]_vars PROVE TypeInv'
  OBVIOUS
<1>1. ASSUME UNCHANGED vars PROVE TypeInv'
  BY <1>1 DEF vars, profiles, attempts, queue, history, TypeInv, TypeOK,
              SlotsStarted
<1> QED BY <1>1, StartTyped, SubmitTyped, EditTyped, WorldTyped DEF Next

LEMMA TypeAlways == Spec => []TypeInv
BY TypeInit, TypeStep, PTL DEF Spec

(* Every variable keeps its type; a session is forced only when completed  *)
(* and completed only when started.                                        *)
THEOREM TypeCorrect == Spec => []TypeOK
<1>1. TypeInv => TypeOK
  BY DEF TypeInv
<1> QED BY <1>1, TypeAlways, PTL

(***************************************************************************)
(* Results and the profile.  A save of a loaded profile writes what the    *)
(* profile once was: the two dates it knows of were once set.              *)
(***************************************************************************)

(* What a step does to the results and to the two completion dates.        *)
LEMMA ResultStep ==
  TypeInv /\ [Next]_vars =>
    \/ /\ UNCHANGED <<result, setBack>>
       /\ profile'.skillDone = profile.skillDone
    \/ \E s \in Submitters : SubmitSave(s)
    \/ (UNCHANGED result /\ \E w \in Editors : EditWrite(w))
<1> SUFFICES ASSUME TypeInv, [Next]_vars
             PROVE  \/ /\ UNCHANGED <<result, setBack>>
                       /\ profile'.skillDone = profile.skillDone
                    \/ \E s \in Submitters : SubmitSave(s)
                    \/ (UNCHANGED result /\ \E w \in Editors : EditWrite(w))
  OBVIOUS
<1> USE DEF profiles, attempts, queue, history
<1>1. ASSUME NEW t \in {"emerging", "job_ready"}, AdvancedCompletes(t)
      PROVE  UNCHANGED <<result, setBack>> /\ profile'.skillDone = profile.skillDone
  BY <1>1 DEF AdvancedCompletes, TypeInv, TypeOK, Profile
<1>2. StartNext => UNCHANGED <<result, profile, setBack>>
  BY DEF StartNext, StartLock, StartFind, StartInsert, StartRollback
<1>3. SubmitNext => UNCHANGED <<result, profile, setBack>>
                      \/ \E s \in Submitters : SubmitSave(s)
  BY DEF SubmitNext, SubmitStep, SubmitLoad, SubmitScore, SubmitRollback
<1>4. EditNext => UNCHANGED <<result, profile, setBack>>
                    \/ (UNCHANGED result /\ \E w \in Editors : EditWrite(w))
  BY DEF EditNext, EditLoad, EditCompare, EditWrite
<1>5. GuidanceNext => UNCHANGED <<result, profile, setBack>>
  BY DEF GuidanceNext, AddEnds, QueueAdds, QueueRefuses, GuidanceRun, GuidanceFails
<1>6. WorldNext => \/ UNCHANGED <<result, profile, setBack>>
                   \/ \E t \in {"emerging", "job_ready"} : AdvancedCompletes(t)
  BY DEF WorldNext, Flag, SessionTimesOut, Crash
<1>7. UNCHANGED vars => UNCHANGED <<result, profile, setBack>>
  BY DEF vars
<1> QED BY <1>1, <1>2, <1>3, <1>4, <1>5, <1>6, <1>7 DEF Next

LEMMA ResultStays ==
  TypeInv /\ [Next]_vars =>
    \A a \in Attempts : result[a] # "none" => result'[a] = result[a]
<1>1. ASSUME TypeInv, NEW s \in Submitters, SubmitSave(s),
             NEW a \in Attempts, result[a] # "none"
      PROVE  result'[a] = result[a]
  BY <1>1 DEF SubmitSave, ResultAllows, TypeInv, TypeOK
<1> QED BY <1>1, ResultStep

Passed == \E a \in Attempts : result[a] = "passed"

(* The row and every copy of it that a request still holds.                *)
Loaded == {edit[w].copy : w \in {v \in Editors : edit[v].pc # "idle"}}

CopiesInv ==
  \A p \in {profile} \cup Loaded :
    (p.advancedDone => advanced) /\ (p.skillDone => Passed)

(* Steps that load nothing and write a date only when it is due.           *)
LEMMA CopiesKept ==
  ASSUME TypeInv, [Next]_vars, CopiesInv,
         Loaded' \subseteq Loaded \cup {profile},
         profile' \in Loaded \cup {profile}
           \/ /\ profile'.advancedDone => advanced'
              /\ profile'.skillDone => Passed',
         advanced => advanced'
  PROVE  CopiesInv'
<1>1. Passed => Passed'
  BY ResultStays DEF Passed
<1>2. \A p \in Loaded \cup {profile} :
        (p.advancedDone => advanced') /\ (p.skillDone => Passed')
  BY <1>1 DEF CopiesInv
<1> QED BY <1>2 DEF CopiesInv

LEMMA CopiesStep == TypeInv /\ CopiesInv /\ [Next]_vars => CopiesInv'
<1> SUFFICES ASSUME TypeInv, CopiesInv, [Next]_vars PROVE CopiesInv'
  OBVIOUS
<1> USE DEF profiles, attempts, queue, history
<1>0. edit \in [Editors -> EditRequest] /\ profile \in Profile
  BY DEF TypeInv, TypeOK
<1>1. ASSUME UNCHANGED <<profile, edit, advanced>> PROVE CopiesInv'
  BY <1>1, CopiesKept DEF Loaded
<1>2. ASSUME NEW s \in Submitters, SubmitSave(s) PROVE CopiesInv'
  <2>1. /\ submit[s].attempt \in Attempts /\ submit[s].passed \in BOOLEAN
    <3>1. submit[s] \in SubmitRequest
      BY DEF TypeInv, TypeOK
    <3> QED BY <1>2, <3>1 DEF SubmitSave, SubmitRequest, Idle
  <2>2. UNCHANGED <<edit, advanced>> /\ profile'.advancedDone = profile.advancedDone
    BY <1>0, <1>2 DEF SubmitSave, ProfileAfter, Profile
  <2>3. CASE submit[s].passed
    <3>1. result'[submit[s].attempt] = "passed"
      BY <1>2, <2>1, <2>3 DEF SubmitSave, TypeInv, TypeOK
    <3>2. Passed'
      BY <2>1, <3>1 DEF Passed
    <3>3. profile.advancedDone => advanced
      BY DEF CopiesInv
    <3> QED BY <2>2, <3>2, <3>3, CopiesKept DEF Loaded
  <2>4. CASE ~ submit[s].passed
    <3>1. profile'.skillDone = profile.skillDone
      BY <1>0, <1>2, <2>4 DEF SubmitSave, ProfileAfter, Profile
    <3>2. Passed => Passed'
      BY ResultStays DEF Passed
    <3>3. (profile.advancedDone => advanced) /\ (profile.skillDone => Passed)
      BY DEF CopiesInv
    <3> QED BY <2>2, <3>1, <3>2, <3>3, CopiesKept DEF Loaded
  <2> QED BY <2>1, <2>3, <2>4
<1>3. ASSUME NEW w \in Editors, EditLoad(w) PROVE CopiesInv'
  <2>1. /\ UNCHANGED <<profile, advanced>> /\ edit'[w].copy = profile
        /\ \A v \in Editors \ {w} : edit'[v] = edit[v]
    BY <1>0, <1>3 DEF EditLoad
  <2>2. Loaded' \subseteq Loaded \cup {profile}
    BY <2>1 DEF Loaded
  <2> QED BY <2>1, <2>2, CopiesKept
<1>4. ASSUME NEW w \in Editors, EditCompare(w) PROVE CopiesInv'
  <2>1. /\ UNCHANGED <<profile, advanced>> /\ edit'[w].copy = edit[w].copy
        /\ edit[w].pc # "idle"
        /\ \A v \in Editors \ {w} : edit'[v] = edit[v]
    BY <1>0, <1>4 DEF EditCompare
  <2>2. Loaded' \subseteq Loaded
    BY <2>1 DEF Loaded
  <2> QED BY <2>1, <2>2, CopiesKept
<1>5. ASSUME NEW w \in Editors, EditWrite(w) PROVE CopiesInv'
  <2>1. /\ advanced' = advanced /\ edit'[w] = Idle /\ edit[w].pc # "idle"
        /\ \A v \in Editors \ {w} : edit'[v] = edit[v]
    BY <1>0, <1>5 DEF EditWrite
  <2>2. Loaded' \subseteq Loaded
    BY <2>1 DEF Loaded, Idle
  <2>3. edit[w].copy \in Loaded
    BY <2>1 DEF Loaded
  <2>4. /\ profile'.skillDone \in {profile.skillDone, edit[w].copy.skillDone}
        /\ profile'.advancedDone \in {profile.advancedDone, edit[w].copy.advancedDone}
    BY <1>5 DEF EditWrite, Columns
  <2>5. /\ (profile.advancedDone => advanced) /\ (profile.skillDone => Passed)
        /\ edit[w].copy.advancedDone => advanced
        /\ edit[w].copy.skillDone => Passed
    BY <2>3 DEF CopiesInv
  <2>6. Passed => Passed'
    BY ResultStays DEF Passed
  <2> QED BY <2>1, <2>2, <2>4, <2>5, <2>6, CopiesKept
<1>6. ASSUME NEW t \in {"emerging", "job_ready"}, AdvancedCompletes(t)
      PROVE  CopiesInv'
  <2>1. advanced' /\ UNCHANGED <<edit, result>> /\ profile'.skillDone = profile.skillDone
    BY <1>0, <1>6 DEF AdvancedCompletes, Profile
  <2>2. profile.skillDone => Passed
    BY DEF CopiesInv
  <2> QED BY <2>1, <2>2, CopiesKept DEF Loaded, Passed
<1>7. ASSUME Crash PROVE CopiesInv'
  <2>1. UNCHANGED <<profile, advanced>> /\ Loaded' = {}
    BY <1>7 DEF Crash, Loaded, Idle
  <2> QED BY <2>1, CopiesKept
<1>8. StartNext => UNCHANGED <<profile, edit, advanced>>
  BY DEF StartNext, StartLock, StartFind, StartInsert, StartRollback
<1>9. SubmitNext => UNCHANGED <<profile, edit, advanced>>
                      \/ \E s \in Submitters : SubmitSave(s)
  BY DEF SubmitNext, SubmitStep, SubmitLoad, SubmitScore, SubmitRollback
<1>10. GuidanceNext => UNCHANGED <<profile, edit, advanced>>
  BY DEF GuidanceNext, AddEnds, QueueAdds, QueueRefuses, GuidanceRun, GuidanceFails
<1>11. WorldNext => \/ UNCHANGED <<profile, edit, advanced>> \/ Crash
                    \/ \E t \in {"emerging", "job_ready"} : AdvancedCompletes(t)
  BY DEF WorldNext, Flag, SessionTimesOut
<1>12. UNCHANGED vars => UNCHANGED <<profile, edit, advanced>>
  BY DEF vars
<1> QED BY <1>1, <1>2, <1>3, <1>4, <1>5, <1>6, <1>7, <1>8, <1>9, <1>10, <1>11, <1>12
        DEF Next, EditNext

LEMMA CopiesInit == Init => CopiesInv
<1> SUFFICES ASSUME Init PROVE CopiesInv
  OBVIOUS
<1>1. Loaded = {} /\ ~ profile.skillDone /\ ~ profile.advancedDone
  BY DEF Init, Loaded, Idle
<1> QED BY <1>1 DEF CopiesInv

LEMMA CopiesAlways == Spec => [](TypeInv /\ CopiesInv)
BY TypeInit, TypeStep, CopiesInit, CopiesStep, PTL DEF Spec

(***************************************************************************)
(* The attempt limits.  While a start holds the profile's lock, nobody     *)
(* else inserts an attempt: what it has counted and found only shrinks.    *)
(***************************************************************************)
Holds(s) == start[s].pc \in {"find", "insert"}

LimitInv ==
  /\ \A s, t \in Starters : Holds(s) /\ Holds(t) => s = t
  /\ ~ advanced =>
       /\ \A a, b \in Open : a = b
       /\ Cardinality(started) <= MaxAttempts + 1
       /\ \A s \in Starters : Holds(s) => Cardinality(started) <= MaxAttempts
       /\ \A s \in Starters :
            start[s].pc = "insert" => Open \subseteq start[s].drops

(* A request is idle or holds the lock.                                    *)
LEMMA FreeOrHeld ==
  ASSUME TypeOK, NEW s \in Starters
  PROVE  start[s].pc = "idle" <=> ~ Holds(s)
<1>1. start[s] \in StartRequest
  BY DEF TypeOK
<1> QED BY <1>1 DEF StartRequest, Idle, Holds

LEMMA LimitInit == Init => LimitInv
<1> SUFFICES ASSUME Init PROVE LimitInv
  OBVIOUS
<1>1. Open = {} /\ started = {}
  BY DEF Init, Open
<1>2. Cardinality(started) <= MaxAttempts + 1
  BY <1>1, FS_EmptySet, LimitsAssumption
<1>3. \A s \in Starters : ~ Holds(s) /\ start[s].pc = "idle"
  BY DEF Init, Holds, Idle
<1> QED BY <1>1, <1>2, <1>3 DEF LimitInv

(* Steps that insert nothing, reopen nothing and take no lock.             *)
LEMMA QuietStep ==
  ASSUME LimitInv, UNCHANGED started, Open' \subseteq Open,
         \A t \in Starters : start'[t] \in {start[t], Idle},
         advanced => advanced'
  PROVE  LimitInv'
<1>1. \A t \in Starters : /\ Holds(t)' => Holds(t)
                          /\ start'[t].pc = "insert" => start'[t] = start[t]
  BY DEF Holds, Idle
<1> QED BY <1>1 DEF LimitInv

(* Finishing, voiding or abandoning a session never reopens another.       *)
LEMMA OpenShrinks ==
  ASSUME UNCHANGED started, completed \subseteq completed',
         forced \subseteq forced' \cup completed'
  PROVE  Open' \subseteq Open
BY DEF Open

(* StartLock admits a request only below the limit, with one open session  *)
(* at most on top of those completed.                                      *)
LEMMA LockLimit ==
  ASSUME TypeInv, CopiesInv, LimitInv, NEW s \in Starters, StartLock(s)
  PROVE  LimitInv'
<1> USE DEF profiles, attempts
<1>1. CASE start' = start
  BY <1>1, QuietStep DEF StartLock, Open
<1>2. CASE start' # start
  <2>1. /\ \A t \in Starters : ~ Holds(t)
        /\ \A t \in Starters \ {s} : start'[t] = start[t]
    BY <1>2, FreeOrHeld DEF StartLock, LockFree, TypeInv, TypeOK
  <2>2. \A t \in Starters \ {s} : ~ Holds(t)' /\ start'[t].pc # "insert"
    BY <2>1 DEF Holds
  <2>3. CASE advanced
    <3>1. advanced'
      BY <2>3 DEF StartLock
    <3> QED BY <2>2, <3>1 DEF LimitInv
  <2>4. CASE ~ advanced
    <3>0. ~ profile.advancedDone
      BY <2>4 DEF CopiesInv
    <3>1. Cardinality(completed) < MaxAttempts /\ start'[s] = [pc |-> "find"]
      <4>1. Cardinality(completed) \in Nat
        BY AttemptsFinite DEF TypeInv, TypeOK
      <4> QED BY <1>2, <3>0, <4>1, LimitsAssumption
              DEF StartLock, UsedUp, TypeInv, TypeOK
    <3>2. \A a, b \in Open : a = b
      BY <2>4 DEF LimitInv
    <3>3. Cardinality(started) <= MaxAttempts
      <4>1. IsFiniteSet(completed) /\ Cardinality(completed) \in Nat
        BY AttemptsFinite DEF TypeInv, TypeOK
      <4>2. started = completed \cup Open
        BY DEF TypeInv, TypeOK, Open
      <4>3. CASE Open = {}
        BY <3>1, <4>1, <4>2, <4>3, LimitsAssumption
      <4>4. CASE Open # {}
        <5>1. PICK a \in Open : TRUE
          BY <4>4
        <5>2. started = completed \cup {a}
          BY <3>2, <4>2, <5>1
        <5>3. Cardinality(started) <= Cardinality(completed) + 1
          BY <4>1, <5>2, FS_AddElement
        <5>4. Cardinality(started) \in Nat
          BY AttemptsFinite DEF TypeInv, TypeOK
        <5> QED BY <3>1, <4>1, <5>3, <5>4, LimitsAssumption
      <4> QED BY <4>3, <4>4
    <3>4. Cardinality(started) \in Nat
      BY AttemptsFinite DEF TypeInv, TypeOK
    <3>5. Open' = Open /\ started' = started /\ advanced' = advanced
      BY DEF StartLock, Open
    <3>6. ~ (start'[s].pc = "insert")
      BY <3>1
    <3> QED BY <2>2, <2>4, <3>2, <3>3, <3>4, <3>5, <3>6, LimitsAssumption
            DEF LimitInv
  <2> QED BY <2>3, <2>4
<1> QED BY <1>1, <1>2

(* StartFind goes on without an open session, or with the one it drops.    *)
LEMMA FindLimit ==
  ASSUME TypeInv, LimitInv, NEW s \in Starters, StartFind(s)
  PROVE  LimitInv'
<1> USE DEF profiles, attempts
<1>1. Open' = Open /\ started' = started /\ advanced' = advanced
  BY DEF StartFind, Open
<1>2. start \in [Starters -> StartRequest] /\ Holds(s)
  BY DEF TypeInv, TypeOK, StartFind, Holds
<1>3. CASE start' = [start EXCEPT ![s] = Idle]
  <2>1. \A t \in Starters : start'[t] \in {start[t], Idle}
    BY <1>2, <1>3
  <2> QED BY <1>1, <2>1, QuietStep
<1>4. ASSUME NEW d,
             start' = [start EXCEPT ![s] = [pc |-> "insert", drops |-> d]],
             d = Open \/ \E a \in Open : d = {a}
      PROVE  LimitInv'
  <2>1. \A t \in Starters \ {s} : start'[t] = start[t]
    BY <1>2, <1>4
  <2>2. start'[s].pc = "insert" /\ start'[s].drops = d
    BY <1>2, <1>4
  <2>3. \A t \in Starters : Holds(t)' => Holds(t)
    BY <1>2, <2>1 DEF Holds
  <2>4. ~ advanced => Open \subseteq d
    BY <1>4 DEF LimitInv
  <2> QED BY <1>1, <2>1, <2>2, <2>3, <2>4 DEF LimitInv
<1>5. \/ start' = [start EXCEPT ![s] = Idle]
      \/ /\ Open = {}
         /\ start' = [start EXCEPT ![s] = [pc |-> "insert", drops |-> {}]]
      \/ \E a \in Open :
           start' = [start EXCEPT ![s] = [pc |-> "insert", drops |-> {a}]]
  BY DEF StartFind
<1> QED BY <1>3, <1>4, <1>5

(* StartInsert opens one session, having dropped the one that was open.    *)
LEMMA InsertLimit ==
  ASSUME TypeInv, LimitInv, NEW s \in Starters, StartInsert(s)
  PROVE  LimitInv'
<1> USE DEF profiles, attempts
<1>1. start' = [start EXCEPT ![s] = Idle] /\ start[s].pc = "insert"
  BY DEF StartInsert
<1>2. /\ start'[s] = Idle
      /\ \A t \in Starters \ {s} : start'[t] = start[t]
  BY <1>1 DEF TypeInv, TypeOK
<1>3. Holds(s)
  BY <1>1 DEF Holds
<1>4. \A t \in Starters : ~ Holds(t)' /\ start'[t].pc # "insert"
  BY <1>2, <1>3 DEF LimitInv, Holds, Idle
<1>5. advanced' = advanced
  BY DEF StartInsert
<1>6. CASE started' = started
  <2>1. UNCHANGED <<started, completed, forced>>
    BY <1>6 DEF StartInsert
  <2>2. Open' = Open
    BY <2>1 DEF Open
  <2> QED BY <1>4, <1>5, <1>6, <2>2 DEF LimitInv
<1>7. ASSUME NEW a \in Attempts \ started,
             started' = started \cup {a},
             completed' = completed \cup start[s].drops
      PROVE  LimitInv'
  <2>1. ~ advanced => Open' \subseteq {a}
    <3>1. ~ advanced => Open \subseteq start[s].drops
      BY <1>1 DEF LimitInv
    <3> QED BY <1>7, <3>1 DEF Open, TypeInv, TypeOK
  <2>2. IsFiniteSet(started) /\ Cardinality(started) \in Nat
    BY AttemptsFinite DEF TypeInv, TypeOK
  <2>3. Cardinality(started') = Cardinality(started) + 1
    BY <1>7, <2>2, FS_AddElement
  <2>4. ~ advanced => Cardinality(started) <= MaxAttempts
    BY <1>3 DEF LimitInv
  <2> QED BY <1>4, <1>5, <2>1, <2>2, <2>3, <2>4, LimitsAssumption DEF LimitInv
<1> QED BY <1>6, <1>7 DEF StartInsert

LEMMA LimitStep ==
  TypeInv /\ CopiesInv /\ LimitInv /\ [Next]_vars => LimitInv'
<1> SUFFICES ASSUME TypeInv, CopiesInv, LimitInv, [Next]_vars PROVE LimitInv'
  OBVIOUS
<1> USE DEF profiles, attempts, queue, history
<1>0. start \in [Starters -> StartRequest] /\ profile \in Profile
  BY DEF TypeInv, TypeOK
<1>1. ASSUME NEW s \in Starters, StartRollback(s) PROVE LimitInv'
  <2>1. \A t \in Starters : start'[t] \in {start[t], Idle}
    BY <1>0, <1>1 DEF StartRollback
  <2> QED BY <1>1, <2>1, QuietStep DEF StartRollback, Open
<1>2. ASSUME UNCHANGED <<start, started, completed, forced, advanced>>
      PROVE  LimitInv'
  BY <1>2, QuietStep DEF Open
<1>3. ASSUME NEW s \in Submitters, SubmitSave(s) PROVE LimitInv'
  <2>1. Open' \subseteq Open
    BY <1>3, OpenShrinks DEF SubmitSave
  <2> QED BY <1>3, <2>1, QuietStep DEF SubmitSave
<1>4. ASSUME NEW a \in Attempts, Flag(a) PROVE LimitInv'
  <2>1. Open' \subseteq Open
    BY <1>4, OpenShrinks DEF Flag
  <2> QED BY <1>4, <2>1, QuietStep DEF Flag
<1>5. ASSUME NEW t \in {"emerging", "job_ready"}, AdvancedCompletes(t)
      PROVE  LimitInv'
  <2>1. UNCHANGED <<start, started>> /\ Open' = Open
    BY <1>5 DEF AdvancedCompletes, Open
  <2> QED BY <1>5, <2>1, QuietStep DEF AdvancedCompletes
<1>6. ASSUME Crash PROVE LimitInv'
  BY <1>6, QuietStep DEF Crash, Open
<1>7. ASSUME SubmitNext PROVE LimitInv'
  BY <1>2, <1>3, <1>7
     DEF SubmitNext, SubmitStep, SubmitLoad, SubmitScore, SubmitRollback
<1>8. ASSUME GuidanceNext PROVE LimitInv'
  BY <1>2, <1>8 DEF GuidanceNext, AddEnds, QueueAdds, QueueRefuses,
         GuidanceRun, GuidanceFails
<1>9. ASSUME WorldNext PROVE LimitInv'
  BY <1>2, <1>4, <1>5, <1>6, <1>9 DEF WorldNext, SessionTimesOut
<1>10. ASSUME StartNext PROVE LimitInv'
  BY <1>1, <1>10, LockLimit, FindLimit, InsertLimit DEF StartNext
<1>11. ASSUME UNCHANGED vars PROVE LimitInv'
  BY <1>2, <1>11 DEF vars
<1>12. ASSUME EditNext PROVE LimitInv'
  BY <1>2, <1>12 DEF EditNext, EditLoad, EditCompare, EditWrite
<1> QED BY <1>7, <1>8, <1>9, <1>10, <1>11, <1>12 DEF Next

LEMMA LimitAlways == Spec => [](TypeInv /\ CopiesInv /\ LimitInv)
BY CopiesAlways, LimitInit, LimitStep, PTL DEF Spec

(* However many starts race, a candidate has at most one open session      *)
(* until the advanced assessment is done.                                  *)
THEOREM OneOpenSessionHolds == Spec => []OneOpenSession
<1>1. TypeInv /\ LimitInv => OneOpenSession
  <2> SUFFICES ASSUME TypeInv, LimitInv, ~ advanced, Open # {}
               PROVE  Cardinality(Open) <= 1
    <3>1. Open = {} => Cardinality(Open) <= 1
      BY FS_EmptySet
    <3> QED BY <3>1 DEF OneOpenSession
  <2>1. PICK a \in Open : Open = {a}
    BY DEF LimitInv
  <2>2. Cardinality({a}) = 1
    BY FS_Singleton
  <2> QED BY <2>1, <2>2
<1> QED BY <1>1, LimitAlways, PTL

(* The limit is overrun by one session at most, whatever flags and starts  *)
(* interleave.                                                             *)
THEOREM AttemptsBoundedHolds == Spec => []AttemptsBounded
<1>1. LimitInv => AttemptsBounded
  BY DEF LimitInv, AttemptsBounded
<1> QED BY <1>1, LimitAlways, PTL

(***************************************************************************)
(* Questions and results.                                                  *)
(***************************************************************************)

(* The questions an insert adds to the history are new to it and all of    *)
(* one attempt.                                                            *)
LEMMA ServedStep == TypeInv /\ NoQuestionTwice /\ [Next]_vars => NoQuestionTwice'
<1> SUFFICES ASSUME TypeInv, NoQuestionTwice, [Next]_vars
             PROVE  NoQuestionTwice'
  OBVIOUS
<1> USE DEF profiles, attempts, queue, history
<1>1. ASSUME NEW s \in Starters, StartInsert(s) PROVE NoQuestionTwice'
  <2>1. CASE UNCHANGED served
    BY <2>1 DEF NoQuestionTwice
  <2>2. ASSUME NEW c \in Attempts \ started, NEW mix \in SUBSET Bank,
               HistoryAllows(mix), served' = served \cup ({c} \X mix)
        PROVE  NoQuestionTwice'
    <3> SUFFICES ASSUME NEW a \in Attempts, NEW b \in Attempts,
                        NEW q \in Questions,
                        <<a, q>> \in served', <<b, q>> \in served'
                 PROVE  a = b
      BY DEF NoQuestionTwice
    <3>1. \A x \in Attempts : <<x, q>> \in served => q \notin mix
      BY <2>2 DEF HistoryAllows, Seen
    <3>2. \A x \in Attempts : <<x, q>> \in served' =>
             <<x, q>> \in served \/ (x = c /\ q \in mix)
      BY <2>2
    <3> QED BY <3>1, <3>2 DEF NoQuestionTwice
  <2> QED BY <1>1, <2>1, <2>2 DEF StartInsert
<1>2. CASE UNCHANGED served
  BY <1>2 DEF NoQuestionTwice
<1>3. StartNext => UNCHANGED served \/ \E s \in Starters : StartInsert(s)
  BY DEF StartNext, StartLock, StartFind, StartRollback
<1>4. SubmitNext \/ EditNext \/ GuidanceNext => UNCHANGED served
  BY DEF EditNext, EditLoad, EditCompare, EditWrite, SubmitNext, SubmitStep, SubmitLoad, SubmitScore, SubmitSave,
         SubmitRollback, GuidanceNext, AddEnds, QueueAdds, QueueRefuses,
         GuidanceRun, GuidanceFails
<1>5. WorldNext \/ UNCHANGED vars => UNCHANGED served
  BY DEF WorldNext, Flag, SessionTimesOut, AdvancedCompletes, Crash, vars
<1> QED BY <1>1, <1>2, <1>3, <1>4, <1>5 DEF Next

(* No question is ever served to the candidate twice.                      *)
THEOREM NoQuestionTwiceHolds == Spec => []NoQuestionTwice
<1>1. Init => NoQuestionTwice
  BY DEF Init, NoQuestionTwice
<1> QED BY <1>1, ServedStep, TypeAlways, PTL DEF Spec

(* A result, once written, stays: of several submits the first wins.       *)
THEOREM ScoredOnceHolds == Spec => ScoredOnce
<1>1. TypeInv /\ [Next]_vars =>
        [\A a \in Attempts : result[a] # "none" => result'[a] = result[a]]_vars
  BY ResultStays
<1> QED BY <1>1, TypeAlways, PTL DEF Spec, ScoredOnce

(* The profile says the skill assessment is done exactly when an attempt   *)
(* has passed, at every moment, unless the save of a profile loaded before *)
(* the pass has put the date back.                                         *)
THEOREM ResultsReachProfileHolds == Spec => []ResultsReachProfile
<1>1. Init => ResultsReachProfile
  BY DEF Init, ResultsReachProfile
<1>2. TypeInv /\ CopiesInv /\ ResultsReachProfile /\ [Next]_vars
        => ResultsReachProfile'
  <2> SUFFICES ASSUME TypeInv, CopiesInv, ResultsReachProfile, [Next]_vars
               PROVE  ResultsReachProfile'
    OBVIOUS
  <2>0. profile \in Profile
    BY DEF TypeInv, TypeOK
  <2>1. CASE /\ UNCHANGED <<result, setBack>>
             /\ profile'.skillDone = profile.skillDone
    BY <2>1 DEF ResultsReachProfile
  <2>2. ASSUME NEW s \in Submitters, SubmitSave(s)
        PROVE  ResultsReachProfile'
    <3>1. submit[s] \in SubmitRequest
      BY DEF TypeInv, TypeOK
    <3>2. /\ submit[s].attempt \in Attempts /\ submit[s].passed \in BOOLEAN
          /\ result[submit[s].attempt] = "none"
      BY <2>2, <3>1 DEF SubmitSave, SubmitRequest, Idle, ResultAllows
    <3>3. \A a \in Attempts \ {submit[s].attempt} : result'[a] = result[a]
      BY <2>2 DEF SubmitSave, TypeInv, TypeOK
    <3>4. CASE submit[s].passed
      <4>1. profile'.skillDone = TRUE /\ ~ setBack'
        BY <2>0, <2>2, <3>4 DEF SubmitSave, ProfileAfter, Profile
      <4>2. result'[submit[s].attempt] = "passed"
        BY <2>2, <3>2, <3>4 DEF SubmitSave, TypeInv, TypeOK
      <4> QED BY <3>2, <4>1, <4>2 DEF ResultsReachProfile
    <3>5. CASE ~ submit[s].passed
      <4>1. profile'.skillDone = profile.skillDone /\ (setBack' <=> setBack)
        BY <2>0, <2>2, <3>5 DEF SubmitSave, ProfileAfter, Profile
      <4>2. result'[submit[s].attempt] = "failed"
        BY <2>2, <3>2, <3>5 DEF SubmitSave, TypeInv, TypeOK
      <4>3. Passed' <=> Passed
        BY <3>2, <3>3, <4>2 DEF Passed
      <4> QED BY <4>1, <4>3 DEF ResultsReachProfile, Passed
    <3> QED BY <3>2, <3>4, <3>5
  <2>3. ASSUME UNCHANGED result, NEW w \in Editors, EditWrite(w)
        PROVE  ResultsReachProfile'
    <3>1. setBack' <=> (setBack \/ profile.skillDone) /\ ~ profile'.skillDone
      BY <2>3 DEF EditWrite
    <3>2. CopiesInv'
      BY CopiesStep
    <3>3. profile'.skillDone => Passed'
      BY <3>2 DEF CopiesInv
    <3>4. Passed' <=> Passed
      BY <2>3 DEF Passed
    <3>5. profile.skillDone <=> ~ setBack /\ Passed
      BY DEF ResultsReachProfile, Passed
    <3>6. profile'.skillDone <=> ~ setBack' /\ Passed'
      BY <3>1, <3>3, <3>4, <3>5
    <3> QED BY <3>6 DEF ResultsReachProfile, Passed
  <2> QED BY <2>1, <2>2, <2>3, ResultStep
<1> QED BY <1>1, <1>2, CopiesAlways, PTL DEF Spec

(***************************************************************************)
(* ThreeAttempts does not hold: a flag between the count and the search    *)
(* for an open session completes one that was not counted.  Nothing else   *)
(* lets a start in above the limit.                                        *)
(***************************************************************************)

(* While no session was voided, what a start has counted stays true.       *)
CountedInv ==
  ~ advanced /\ voided = {} =>
    /\ Cardinality(started) <= MaxAttempts
    /\ \A s \in Starters :
         /\ start[s].pc = "find" => Cardinality(completed) < MaxAttempts
         /\ start[s].pc = "insert" => Cardinality(started) < MaxAttempts

(* Steps that neither take the lock nor change what is counted under it.   *)
LEMMA CountedQuiet ==
  ASSUME CountedInv, UNCHANGED started, voided' = {} => voided = {},
         advanced => advanced',
         \A t \in Starters : start'[t] \in {start[t], Idle},
         completed' = completed \/ \A t \in Starters : start'[t].pc = "idle"
  PROVE  CountedInv'
<1>1. \A t \in Starters : start'[t].pc \in {"find", "insert"} =>
                            start'[t] = start[t] /\ completed' = completed
  BY DEF Idle
<1> QED BY <1>1 DEF CountedInv

LEMMA CountedStart ==
  ASSUME TypeInv, CopiesInv, LimitInv, CountedInv, StartNext
  PROVE  CountedInv'
<1> USE DEF profiles, attempts, history
<1>0. /\ start \in [Starters -> StartRequest]
      /\ IsFiniteSet(started) /\ Cardinality(started) \in Nat
      /\ IsFiniteSet(completed) /\ Cardinality(completed) \in Nat
  BY AttemptsFinite DEF TypeInv, TypeOK
<1>1. ASSUME NEW s \in Starters, StartLock(s) PROVE CountedInv'
  <2>1. CASE advanced
    <3>1. advanced'
      BY <1>1, <2>1 DEF StartLock
    <3> QED BY <3>1 DEF CountedInv
  <2>2. CASE ~ advanced
    <3>0. ~ profile.advancedDone
      BY <2>2 DEF CopiesInv
    <3>1. /\ UNCHANGED <<started, completed, voided, advanced>>
          /\ \/ start' = start
             \/ /\ start' = [start EXCEPT ![s] = [pc |-> "find"]]
                /\ Cardinality(completed) < MaxAttempts
      BY <1>0, <1>1, <3>0, LimitsAssumption DEF StartLock, UsedUp
    <3>2. CASE start' = start
      BY <3>1, <3>2 DEF CountedInv
    <3>3. CASE /\ start' = [start EXCEPT ![s] = [pc |-> "find"]]
               /\ Cardinality(completed) < MaxAttempts
      BY <1>0, <3>1, <3>3 DEF CountedInv
    <3> QED BY <3>1, <3>2, <3>3
  <2> QED BY <2>1, <2>2
<1>2. ASSUME NEW s \in Starters, StartFind(s) PROVE CountedInv'
  <2>1. UNCHANGED <<started, completed, voided, advanced>> /\ start[s].pc = "find"
    BY <1>2 DEF StartFind
  <2>2. CASE start' = [start EXCEPT ![s] = Idle]
    <3>1. \A t \in Starters : start'[t] \in {start[t], Idle}
      BY <1>0, <2>2
    <3> QED BY <2>1, <3>1, CountedQuiet
  <2>3. ASSUME NEW d, start' = [start EXCEPT ![s] = [pc |-> "insert", drops |-> d]],
               Cardinality(completed \cup d) < MaxAttempts \/ d = {},
               Open \subseteq d
                 \/ \E a \in Open : d = {a},
               d \subseteq Open
        PROVE  CountedInv'
    <3>1. ASSUME ~ advanced, voided = {}
          PROVE  Cardinality(started) < MaxAttempts
      <4>1. Open = d
        BY <2>3, <3>1 DEF LimitInv
      <4>2. started = completed \cup d
        BY <4>1 DEF Open, TypeInv, TypeOK
      <4>3. Cardinality(completed) < MaxAttempts
        BY <2>1, <3>1 DEF CountedInv
      <4>4. d = {} => started = completed
        BY <4>2
      <4> QED BY <2>3, <4>2, <4>3, <4>4
    <3>2. \A t \in Starters \ {s} : start'[t] = start[t]
      BY <1>0, <2>3
    <3>3. start'[s].pc = "insert"
      BY <1>0, <2>3
    <3> QED BY <2>1, <3>1, <3>2, <3>3 DEF CountedInv
  <2>4. \/ start' = [start EXCEPT ![s] = Idle]
        \/ /\ Open = {}
           /\ start' = [start EXCEPT ![s] = [pc |-> "insert", drops |-> {}]]
        \/ \E a \in Open :
             /\ ~ UsedUp(Cardinality(completed \cup {a}))
             /\ start' = [start EXCEPT ![s] = [pc |-> "insert", drops |-> {a}]]
    BY <1>2 DEF StartFind
  <2>5. ASSUME NEW a \in Open, ~ UsedUp(Cardinality(completed \cup {a}))
        PROVE  Cardinality(completed \cup {a}) < MaxAttempts
    <3>1. Cardinality(completed \cup {a}) \in Nat
      BY <1>0, FS_AddElement, FS_CardinalityType
    <3> QED BY <2>5, <3>1, LimitsAssumption DEF UsedUp
  <2> QED BY <2>2, <2>3, <2>4, <2>5
<1>3. ASSUME NEW s \in Starters, StartInsert(s) PROVE CountedInv'
  <2>1. /\ start' = [start EXCEPT ![s] = Idle] /\ start[s].pc = "insert"
        /\ UNCHANGED <<advanced, voided>>
        /\ \/ started' = started
           \/ \E a \in Attempts \ started : started' = started \cup {a}
    BY <1>3 DEF StartInsert
  <2>2. \A t \in Starters : start'[t].pc \notin {"find", "insert"}
    <3>1. \A t \in Starters \ {s} : start'[t] = start[t] /\ ~ Holds(t)
      BY <1>0, <2>1 DEF LimitInv, Holds
    <3>2. start'[s] = Idle
      BY <1>0, <2>1
    <3> QED BY <3>1, <3>2 DEF Holds, Idle
  <2>3. ASSUME ~ advanced, voided = {}
        PROVE  Cardinality(started') <= MaxAttempts
    <3>1. Cardinality(started) < MaxAttempts
      BY <2>1, <2>3 DEF CountedInv
    <3>2. CASE started' = started
      BY <1>0, <3>1, <3>2, LimitsAssumption
    <3>3. ASSUME NEW a \in Attempts \ started, started' = started \cup {a}
          PROVE  Cardinality(started') <= MaxAttempts
      <4>1. Cardinality(started') = Cardinality(started) + 1
        BY <1>0, <3>3, FS_AddElement
      <4> QED BY <1>0, <3>1, <4>1, LimitsAssumption
    <3> QED BY <2>1, <3>2, <3>3
  <2> QED BY <2>1, <2>2, <2>3 DEF CountedInv
<1>4. ASSUME NEW s \in Starters, StartRollback(s) PROVE CountedInv'
  <2>1. \A t \in Starters : start'[t] \in {start[t], Idle}
    BY <1>0, <1>4 DEF StartRollback
  <2> QED BY <1>4, <2>1, CountedQuiet DEF StartRollback
<1> QED BY <1>1, <1>2, <1>3, <1>4 DEF StartNext

LEMMA CountedStep ==
  TypeInv /\ CopiesInv /\ LimitInv /\ CountedInv /\ [Next]_vars => CountedInv'
<1> SUFFICES ASSUME TypeInv, CopiesInv, LimitInv, CountedInv, [Next]_vars
             PROVE  CountedInv'
  OBVIOUS
<1> USE DEF profiles, attempts, queue, history
<1>1. ASSUME UNCHANGED <<start, started, completed, voided, advanced>>
      PROVE  CountedInv'
  BY <1>1, CountedQuiet
<1>2. ASSUME NEW s \in Submitters, SubmitSave(s) PROVE CountedInv'
  <2>1. \A t \in Starters : start'[t].pc = "idle" /\ start'[t] = start[t]
    BY <1>2 DEF SubmitSave, LockFree
  <2> QED BY <1>2, <2>1, CountedQuiet DEF SubmitSave
<1>3. ASSUME NEW a \in Attempts, Flag(a) PROVE CountedInv'
  <2>1. voided' # {}
    BY <1>3 DEF Flag
  <2> QED BY <2>1 DEF CountedInv
<1>4. ASSUME NEW t \in {"emerging", "job_ready"}, AdvancedCompletes(t)
      PROVE  CountedInv'
  <2>1. advanced'
    BY <1>4 DEF AdvancedCompletes
  <2> QED BY <2>1 DEF CountedInv
<1>5. ASSUME Crash PROVE CountedInv'
  BY <1>5, CountedQuiet DEF Crash
<1>6. ASSUME SubmitNext PROVE CountedInv'
  BY <1>1, <1>2, <1>6
     DEF SubmitNext, SubmitStep, SubmitLoad, SubmitScore, SubmitRollback
<1>7. ASSUME GuidanceNext PROVE CountedInv'
  BY <1>1, <1>7 DEF GuidanceNext, AddEnds, QueueAdds, QueueRefuses,
         GuidanceRun, GuidanceFails
<1>8. ASSUME WorldNext PROVE CountedInv'
  BY <1>1, <1>3, <1>4, <1>5, <1>8 DEF WorldNext, SessionTimesOut
<1>9. ASSUME UNCHANGED vars PROVE CountedInv'
  BY <1>1, <1>9 DEF vars
<1>10. ASSUME EditNext PROVE CountedInv'
  BY <1>1, <1>10 DEF EditNext, EditLoad, EditCompare, EditWrite
<1> QED BY <1>6, <1>7, <1>8, <1>9, <1>10, CountedStart DEF Next

(* A session above the limit is begun only after one was voided: the limit *)
(* holds for every candidate who was never flagged.                        *)
UnflaggedKeepTheLimit == voided = {} => ThreeAttempts

THEOREM UnflaggedKeepTheLimitHolds == Spec => []UnflaggedKeepTheLimit
<1>1. Init => CountedInv
  <2> SUFFICES ASSUME Init PROVE CountedInv
    OBVIOUS
  <2>1. Cardinality(started) = 0
    BY FS_EmptySet DEF Init
  <2> QED BY <2>1, LimitsAssumption DEF Init, CountedInv, Idle
<1>2. CountedInv => UnflaggedKeepTheLimit
  BY DEF CountedInv, UnflaggedKeepTheLimit, ThreeAttempts
<1> QED BY <1>1, <1>2, CountedStep, LimitAlways, PTL DEF Spec

(***************************************************************************)
(* VoidedStaysVoid does not hold: a submit that loaded the attempt before  *)
(* the flag saves a result for it.  None that begins later does.           *)
(***************************************************************************)

Scoring(a) == {s \in Submitters : submit[s].pc # "idle" /\ submit[s].attempt = a}

VoidedCompleted == voided \subseteq completed

LEMMA VoidedStep == TypeInv /\ VoidedCompleted /\ [Next]_vars => VoidedCompleted'
<1> SUFFICES ASSUME TypeInv, VoidedCompleted, [Next]_vars PROVE VoidedCompleted'
  OBVIOUS
<1> USE DEF profiles, attempts, queue, history, VoidedCompleted
<1>1. StartNext => VoidedCompleted'
  BY DEF StartNext, StartLock, StartFind, StartInsert, StartRollback
<1>2. SubmitNext => VoidedCompleted'
  BY DEF SubmitNext, SubmitStep, SubmitLoad, SubmitScore, SubmitSave, SubmitRollback
<1>3. EditNext \/ GuidanceNext \/ WorldNext \/ UNCHANGED vars => VoidedCompleted'
  BY DEF EditNext, EditLoad, EditCompare, EditWrite, GuidanceNext, AddEnds, QueueAdds, QueueRefuses,
         GuidanceRun, GuidanceFails, WorldNext, Flag, SessionTimesOut,
         AdvancedCompletes, Crash, vars
<1> QED BY <1>1, <1>2, <1>3 DEF Next

(* The submits that can still score a voided session only get fewer, and   *)
(* when there are none it is void for good: no result and still forced.    *)
VoidSettles ==
  [][\A a \in voided :
       /\ Scoring(a)' \subseteq Scoring(a)
       /\ Scoring(a) = {} => /\ result'[a] = result[a]
                             /\ a \in forced => a \in forced']_vars

THEOREM VoidSettlesHolds == Spec => VoidSettles
<1> DEFINE Settles(a) == /\ Scoring(a)' \subseteq Scoring(a)
                         /\ Scoring(a) = {} => /\ result'[a] = result[a]
                                               /\ a \in forced => a \in forced'
<1>1. ASSUME TypeInv, VoidedCompleted, [Next]_vars, NEW a \in voided
      PROVE  Settles(a)
  <2> USE DEF profiles, attempts, queue, history
  <2>0. a \in completed /\ a \in Attempts /\ submit \in [Submitters -> SubmitRequest]
    BY <1>1 DEF VoidedCompleted, TypeInv, TypeOK
  <2>1. ASSUME UNCHANGED <<submit, result>>, forced \subseteq forced' PROVE Settles(a)
    BY <2>1 DEF Scoring
  <2>2. ASSUME NEW s \in Submitters, NEW b \in Attempts, NEW passed \in BOOLEAN,
               SubmitLoad(s, b, passed)
        PROVE  Settles(a)
    <3>1. b # a
      BY <2>0, <2>2 DEF SubmitLoad
    <3> QED BY <2>0, <2>2, <3>1 DEF SubmitLoad, Scoring
  <2>3. ASSUME NEW s \in Submitters, SubmitScore(s) PROVE Settles(a)
    <3>1. /\ submit'[s].attempt = submit[s].attempt /\ submit[s].pc # "idle"
          /\ \A t \in Submitters \ {s} : submit'[t] = submit[t]
          /\ UNCHANGED <<result, forced>>
      BY <2>0, <2>3 DEF SubmitScore
    <3> QED BY <3>1 DEF Scoring
  <2>4. ASSUME NEW s \in Submitters, SubmitSave(s) PROVE Settles(a)
    <3>1. /\ submit'[s] = Idle /\ submit[s].pc # "idle"
          /\ \A t \in Submitters \ {s} : submit'[t] = submit[t]
      BY <2>0, <2>4 DEF SubmitSave
    <3>2. submit[s].attempt # a => result'[a] = result[a] /\ (a \in forced => a \in forced')
      BY <2>0, <2>4 DEF SubmitSave, TypeInv, TypeOK
    <3> QED BY <3>1, <3>2 DEF Scoring, Idle
  <2>5. ASSUME NEW s \in Submitters, SubmitRollback(s) PROVE Settles(a)
    BY <2>0, <2>5 DEF SubmitRollback, Scoring, Idle
  <2>6. ASSUME Crash PROVE Settles(a)
    BY <2>6 DEF Crash, Scoring, Idle
  <2>7. ASSUME StartNext PROVE Settles(a)
    BY <2>1, <2>7 DEF StartNext, StartLock, StartFind, StartInsert, StartRollback
  <2>8. ASSUME GuidanceNext PROVE Settles(a)
    BY <2>1, <2>8 DEF GuidanceNext, AddEnds, QueueAdds, QueueRefuses,
         GuidanceRun, GuidanceFails
  <2>9. ASSUME NEW b \in Attempts, Flag(b) \/ SessionTimesOut(b) PROVE Settles(a)
    BY <2>1, <2>9 DEF Flag, SessionTimesOut
  <2>10. ASSUME NEW t \in {"emerging", "job_ready"}, AdvancedCompletes(t)
         PROVE  Settles(a)
    BY <2>1, <2>10 DEF AdvancedCompletes
  <2>11. ASSUME UNCHANGED vars PROVE Settles(a)
    BY <2>1, <2>11 DEF vars
  <2>12. ASSUME EditNext PROVE Settles(a)
    BY <2>1, <2>12 DEF EditNext, EditLoad, EditCompare, EditWrite
  <2> HIDE DEF Settles
  <2> QED
    BY <1>1, <2>2, <2>3, <2>4, <2>5, <2>6, <2>7, <2>8, <2>9, <2>10, <2>11,
       <2>12
       DEF Next, SubmitNext, SubmitStep, WorldNext
<1>2. Init => VoidedCompleted
  BY DEF Init, VoidedCompleted
<1>3. TypeInv /\ VoidedCompleted /\ [Next]_vars => [\A a \in voided : Settles(a)]_vars
  BY <1>1
<1> QED BY <1>2, <1>3, VoidedStep, TypeAlways, PTL DEF Spec, VoidSettles
=============================================================================
