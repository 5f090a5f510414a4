--------------------- MODULE AdvancedAssessment_proofs ---------------------
(***************************************************************************)
(* Theorems about AdvancedAssessment, for every set of attempts and of     *)
(* concurrent submits: types, one active session, results that stay and    *)
(* reach the profile, and submissions that are not forgotten.              *)
(***************************************************************************)
EXTENDS AdvancedAssessment, FiniteSetTheorems, TLAPS

(***************************************************************************)
(* Types.                                                                  *)
(***************************************************************************)

(* Requests and jobs work on sessions that have been started, and a voided *)
(* session is loaded as completed, which the types of the rows rest on.    *)
SlotsSound ==
  \A s \in Submitters :
    /\ submit[s] # Idle => submit[s].attempt \in started
    /\ submit[s].pc = "restore" /\ submit[s].void => submit[s].done
JobsStarted == \A a \in Attempts : job[a] # NoJob => a \in started

TypeInv == TypeOK /\ SlotsSound /\ JobsStarted

(* The requests and the jobs a step makes are of their types.              *)
LEMMA RequestTypes ==
  /\ Idle \in SubmitRequest /\ Idle.pc = "idle"
  /\ \A pc \in {"lock", "commit", "enqueue", "clear", "unlock"},
        a \in Attempts :
       /\ [pc |-> pc, attempt |-> a] \in SubmitRequest
       /\ [pc |-> pc, attempt |-> a] # Idle
  /\ \A r \in SubmitRequest : r.pc = "idle" <=> r = Idle
  /\ \A r \in SubmitRequest : r # Idle => r.attempt \in Attempts
  /\ \A r \in SubmitRequest :
       r.pc = "restore" => r.done \in BOOLEAN /\ r.void \in BOOLEAN
BY DEF SubmitRequest, Idle

LEMMA JobTypes ==
  /\ {NoJob, Waiting, Failed} \subseteq Job
  /\ NoJob # Waiting /\ NoJob # Failed
  /\ \A j \in Job : j.pc \in {"save", "report", "pool"} => j.tier \in Tier
  /\ \A j \in Job : j.pc = "save" => j.clears \in BOOLEAN
  /\ \A j \in Job : j.pc \in {"report", "pool"} => j.tier \in Passing
  /\ \A j \in Job : j.pc = "none" <=> j = NoJob
  /\ \A j \in Job : j.pc = "waiting" <=> j = Waiting
BY DEF Job, NoJob, Waiting, Failed, Tier, Passing

(* A submit's step that changes nothing but the request and the history    *)
(* keeps the invariant when the new request is sound.                      *)
LEMMA SlotChanged ==
  ASSUME TypeInv, NEW s \in Submitters, NEW r \in SubmitRequest,
         r # Idle => r.attempt \in started,
         r.pc = "restore" /\ r.void => r.done,
         SubmitGoes(s, r)
  PROVE  /\ submit' \in [Submitters -> SubmitRequest]
         /\ \A t \in Submitters :
              /\ submit'[t] # Idle => submit'[t].attempt \in started
              /\ submit'[t].pc = "restore" /\ submit'[t].void
                   => submit'[t].done
<1>1. /\ submit' \in [Submitters -> SubmitRequest]
      /\ submit'[s] = r
      /\ \A t \in Submitters \ {s} : submit'[t] = submit[t]
  BY DEF TypeInv, TypeOK, SubmitGoes
<1>2. ASSUME NEW t \in Submitters
      PROVE  /\ submit'[t] # Idle => submit'[t].attempt \in started
             /\ submit'[t].pc = "restore" /\ submit'[t].void
                  => submit'[t].done
  BY <1>1 DEF TypeInv, SlotsSound
<1> QED BY <1>1, <1>2

(* Whatever a submit works on has been started.                            *)
LEMMA OpensStarted ==
  ASSUME TypeInv, NEW slots \in SUBSET Submitters, OpensUnder(slots)
  PROVE  unguarded' \subseteq started
<1>1. \A t \in Submitters : submit[t].pc \in Undoing => submit[t].attempt \in started
  BY DEF TypeInv, SlotsSound, Undoing, Idle
<1> QED BY <1>1 DEF OpensUnder, TypeInv, TypeOK

LEMMA TypeInit == Init => TypeInv
<1> SUFFICES ASSUME Init PROVE TypeInv
  OBVIOUS
<1>1. TypeOK
  BY RequestTypes, JobTypes
     DEF Init, TypeOK, Profile, ProfileStatus, Tier, EditRequest
<1>2. SlotsSound /\ JobsStarted
  BY RequestTypes DEF Init, SlotsSound, JobsStarted
<1> QED BY <1>1, <1>2 DEF TypeInv

(* Submitting keeps the types.                                             *)
LEMMA SubmitTyped ==
  ASSUME TypeInv, NEW s \in Submitters,
         SubmitStep(s) \/ \E a \in Attempts : SubmitValidate(s, a)
  PROVE  TypeInv'
<1> USE DEF attempts, profiles, outcome
<1> DEFINE a == submit[s].attempt
<1>0. /\ submit[s] \in SubmitRequest
      /\ submit[s].pc # "idle" => a \in started /\ a \in Attempts
  BY RequestTypes DEF TypeInv, TypeOK, SlotsSound
<1>1. ASSUME NEW b \in Attempts, SubmitValidate(s, b) PROVE TypeInv'
  <2>1. [pc |-> "lock", attempt |-> b] \in SubmitRequest /\ b \in started
    BY <1>1, RequestTypes DEF SubmitValidate, Active, Open
  <2> QED
    BY <1>1, <2>1, SlotChanged DEF SubmitValidate, TypeInv, TypeOK, SlotsSound,
       JobsStarted
<1>2. ASSUME NEW pc \in {"lock", "commit", "enqueue", "clear", "unlock"},
             a \in started, a \in Attempts
      PROVE  /\ [pc |-> pc, attempt |-> a] \in SubmitRequest
             /\ [pc |-> pc, attempt |-> a].attempt \in started
  BY <1>2, RequestTypes
<1>3. ASSUME SubmitLock(s) PROVE TypeInv'
  <2>1. PICK r \in SubmitRequest :
          SubmitGoes(s, r) /\ (r # Idle => r.attempt \in started)
                           /\ r.pc # "restore"
    BY <1>0, <1>2, <1>3, RequestTypes DEF SubmitLock, SubmitAt
  <2>2. SlotsSound' /\ submit' \in [Submitters -> SubmitRequest]
    BY <1>3, <2>1, SlotChanged DEF SubmitLock, SlotsSound
  <2> QED BY <1>3, <2>2 DEF SubmitLock, TypeInv, TypeOK, JobsStarted
<1>4. ASSUME SubmitCommit(s) PROVE TypeInv'
  <2>1. SlotsSound' /\ submit' \in [Submitters -> SubmitRequest]
    BY <1>0, <1>2, <1>4, SlotChanged DEF SubmitCommit, SubmitAt, SlotsSound
  <2> QED
    BY <1>0, <1>4, <2>1 DEF SubmitCommit, TypeInv, TypeOK, JobsStarted
<1>5. ASSUME SubmitRollback(s) \/ UndoFails(s) \/ Unlock(s) PROVE TypeInv'
  <2>1. SubmitGoes(s, Idle) /\ UNCHANGED started
    BY <1>5 DEF SubmitRollback, UndoFails, Unlock
  <2>2. SlotsSound' /\ submit' \in [Submitters -> SubmitRequest]
    BY <2>1, RequestTypes, SlotChanged DEF SlotsSound
  <2>3. CASE Unlock(s)
    <3>1. unguarded' \subseteq started
      BY <2>3, OpensStarted DEF Unlock
    <3> QED BY <2>2, <2>3, <3>1 DEF Unlock, TypeInv, TypeOK, JobsStarted
  <2>4. CASE SubmitRollback(s) \/ UndoFails(s)
    BY <2>2, <2>4 DEF SubmitRollback, UndoFails, Strike, TypeInv, TypeOK,
       JobsStarted
  <2> QED BY <1>5, <2>3, <2>4
<1>6. ASSUME Enqueued(a), a \in started, a \in Attempts
      PROVE  /\ job' \in [Attempts -> Job]
             /\ \A b \in Attempts : job'[b] # NoJob => b \in started
  BY <1>6, JobTypes DEF Enqueued, JobGoes, TypeInv, TypeOK, JobsStarted
<1>7. ASSUME Enqueue(s) PROVE TypeInv'
  <2>1. SlotsSound' /\ submit' \in [Submitters -> SubmitRequest]
    BY <1>7, RequestTypes, SlotChanged DEF Enqueue, SlotsSound
  <2> QED
    BY <1>0, <1>6, <1>7, <2>1 DEF Enqueue, TypeInv, TypeOK, JobsStarted
<1>8. ASSUME EnqueueRefused(s) PROVE TypeInv'
  <2>1. SlotsSound' /\ submit' \in [Submitters -> SubmitRequest]
    BY <1>0, <1>2, <1>8, SlotChanged DEF EnqueueRefused, SubmitAt, SlotsSound
  <2>2. /\ job' \in [Attempts -> Job]
        /\ \A b \in Attempts : job'[b] # NoJob => b \in started
    BY <1>8, JobTypes DEF EnqueueRefused, JobGoes, TypeInv, TypeOK, JobsStarted
  <2> QED
    BY <1>8, <2>1, <2>2 DEF EnqueueRefused, TypeInv, TypeOK, JobsStarted
<1>9. ASSUME EnqueueReplyLost(s) PROVE TypeInv'
  <2>1. SlotsSound' /\ submit' \in [Submitters -> SubmitRequest]
    BY <1>0, <1>2, <1>9, SlotChanged DEF EnqueueReplyLost, SubmitAt, SlotsSound
  <2> QED
    BY <1>0, <1>6, <1>9, <2>1 DEF EnqueueReplyLost, Strike, TypeInv, TypeOK,
       JobsStarted
<1>10. ASSUME ClearLoad(s) PROVE TypeInv'
  <2> DEFINE r == [pc |-> "restore", attempt |-> a, done |-> a \in completed,
                   void |-> a \in forced]
  <2>1. r \in SubmitRequest /\ (r.void => r.done) /\ r.attempt \in started
    <3>1. a \in Attempts /\ a \in started
      BY <1>0, <1>10 DEF ClearLoad
    <3>2. r \in SubmitRequest
      BY <3>1 DEF SubmitRequest
    <3> QED BY <3>1, <3>2 DEF TypeInv, TypeOK
  <2>2. SubmitGoes(s, r)
    BY <1>10 DEF ClearLoad
  <2>3. SlotsSound' /\ submit' \in [Submitters -> SubmitRequest]
    <3> HIDE DEF r
    <3> QED BY <1>10, <2>1, <2>2, SlotChanged DEF ClearLoad, SlotsSound
  <2> QED BY <1>10, <2>3 DEF ClearLoad, TypeInv, TypeOK, JobsStarted
<1>11. ASSUME ClearSave(s) PROVE TypeInv'
  <2>1. /\ submit[s].void => submit[s].done
        /\ a \in started
    BY <1>0, <1>11 DEF ClearSave, TypeInv, SlotsSound
  <2>2. /\ completed' \subseteq started /\ forced' \subseteq completed'
        /\ enqueued' \subseteq started
    BY <1>11, <2>1 DEF ClearSave, Restored, TypeInv, TypeOK
  <2>3. SlotsSound' /\ submit' \in [Submitters -> SubmitRequest]
    BY <1>0, <1>2, <1>11, SlotChanged DEF ClearSave, SubmitAt, SlotsSound
  <2> QED BY <1>11, <2>2, <2>3 DEF ClearSave, TypeInv, TypeOK, JobsStarted
<1> QED
  BY <1>1, <1>3, <1>4, <1>5, <1>7, <1>8, <1>9, <1>10, <1>11 DEF SubmitStep

(* Jobs keep the types.                                                    *)
LEMMA JobTyped ==
  ASSUME TypeInv, NEW a \in Attempts, JobStep(a)
  PROVE  TypeInv'
<1> USE DEF attempts, profiles, outcome
<1>0. /\ job[a] \in Job
      /\ job[a].pc # "none" => a \in started
  BY JobTypes DEF TypeInv, TypeOK, JobsStarted
<1>1. ASSUME NEW j \in Job, JobGoes(a, j), a \in started
      PROVE  /\ job' \in [Attempts -> Job]
             /\ \A b \in Attempts : job'[b] # NoJob => b \in started
  BY <1>1 DEF JobGoes, TypeInv, TypeOK, JobsStarted
<1>2. ASSUME JobEnds(a) \/ JobFails(a), a \in started
      PROVE  /\ job' \in [Attempts -> Job]
             /\ \A b \in Attempts : job'[b] # NoJob => b \in started
  BY <1>1, <1>2, JobTypes DEF JobEnds, JobFails
<1>3. ASSUME JobTake(a) PROVE TypeInv'
  <2>1. a \in started
    BY <1>0, <1>3 DEF JobTake, Waiting
  <2>2. [pc |-> "score"] \in Job /\ [pc |-> "backfill"] \in Job
    BY DEF Job
  <2>3. /\ job' \in [Attempts -> Job]
        /\ \A b \in Attempts : job'[b] # NoJob => b \in started
    BY <1>1, <1>2, <1>3, <2>1, <2>2 DEF JobTake
  <2> QED
    BY <1>3, <2>3 DEF JobTake, TypeInv, TypeOK, SlotsSound, JobsStarted
<1>4. ASSUME JobBackfill(a) PROVE TypeInv'
  BY <1>0, <1>2, <1>4 DEF JobBackfill, TypeInv, TypeOK, SlotsSound, JobsStarted
<1>5. ASSUME NEW tier \in Tier, JobScore(a, tier) PROVE TypeInv'
  <2>1. [pc |-> "save", tier |-> tier, clears |-> a \in forced] \in Job
    BY DEF Job
  <2> QED
    BY <1>0, <1>1, <1>5, <2>1 DEF JobScore, TypeInv, TypeOK, SlotsSound,
       JobsStarted
<1>6. ASSUME JobGivesUp(a) PROVE TypeInv'
  BY <1>0, <1>2, <1>6 DEF JobGivesUp, Strike, TypeInv, TypeOK, SlotsSound,
     JobsStarted
<1>7. ASSUME JobCommit(a) PROVE TypeInv'
  <2>1. a \in started /\ job[a].tier \in Tier
    BY <1>0, <1>7, JobTypes DEF JobCommit, JobWrites
  <2>2. /\ job' \in [Attempts -> Job]
        /\ \A b \in Attempts : job'[b] # NoJob => b \in started
    <3>1. job[a].tier \in Passing
            => [pc |-> "report", tier |-> job[a].tier] \in Job
      BY DEF Job
    <3> QED BY <1>1, <1>2, <1>7, <2>1, <3>1 DEF JobCommit, JobWrites
  <2>3. /\ result' \in [Attempts -> Tier \cup {"none"}]
        /\ completed' \subseteq started /\ forced' \subseteq completed'
    BY <1>7, <2>1 DEF JobCommit, JobWrites, TypeInv, TypeOK
  <2>4. profile' \in Profile /\ locked' \in BOOLEAN /\ setBack' \in BOOLEAN
    BY <1>7, <2>1 DEF JobCommit, JobWrites, ProfileAfter, Passing, Profile,
       ProfileStatus, TypeInv, TypeOK
  <2> QED
    BY <1>7, <2>2, <2>3, <2>4 DEF JobCommit, JobWrites, TypeInv, TypeOK,
       SlotsSound, JobsStarted
<1>8. ASSUME JobRollback(a) PROVE TypeInv'
  BY <1>0, <1>2, <1>8 DEF JobRollback, Strike, TypeInv, TypeOK, SlotsSound,
     JobsStarted
<1>9. ASSUME JobReport(a) PROVE TypeInv'
  <2>1. [pc |-> "pool", tier |-> "job_ready"] \in Job
    BY DEF Job, Passing
  <2>2. /\ job' \in [Attempts -> Job]
        /\ \A b \in Attempts : job'[b] # NoJob => b \in started
    BY <1>0, <1>1, <1>2, <1>9, <2>1 DEF JobReport, JobAfterReport
  <2> QED
    BY <1>9, <2>2 DEF JobReport, Strike, TypeInv, TypeOK, SlotsSound,
       JobsStarted
<1>10. ASSUME JobPool(a) PROVE TypeInv'
  BY <1>0, <1>2, <1>10 DEF JobPool, Strike, TypeInv, TypeOK, SlotsSound,
     JobsStarted
<1> QED
  BY <1>3, <1>4, <1>5, <1>6, <1>7, <1>8, <1>9, <1>10 DEF JobStep

(* Saving a profile keeps the types.                                       *)
LEMMA EditTyped == ASSUME TypeInv, EditNext PROVE TypeInv'
<1> USE DEF attempts, profiles, outcome
<1>0. /\ Row \in Copy
      /\ \A w \in Editors : edit[w] \in EditRequest
  BY DEF Row, Copy, Profile, TypeInv, TypeOK
<1>1. ASSUME NEW w \in Editors, EditLoad(w) PROVE TypeInv'
  <2>1. edit' \in [Editors -> EditRequest]
    BY <1>0, <1>1 DEF EditLoad, EditRequest, TypeInv, TypeOK
  <2> QED
    BY <1>1, <2>1 DEF EditLoad, TypeInv, TypeOK, SlotsSound, JobsStarted
<1>2. ASSUME NEW w \in Editors, EditCompare(w) PROVE TypeInv'
  <2>1. edit[w].copy \in Copy
    BY <1>0, <1>2 DEF EditCompare, EditRequest, Idle
  <2>2. edit' \in [Editors -> EditRequest]
    BY <1>2, <2>1 DEF EditCompare, EditRequest, TypeInv, TypeOK
  <2> QED
    BY <1>2, <2>2 DEF EditCompare, TypeInv, TypeOK, SlotsSound, JobsStarted
<1>3. ASSUME NEW w \in Editors, EditWrite(w) PROVE TypeInv'
  <2>1. edit[w].copy \in Copy
    BY <1>0, <1>3 DEF EditWrite, EditRequest, Idle
  <2>2. /\ Saved(w, "status") \in ProfileStatus
        /\ Saved(w, "advancedDone") \in BOOLEAN
        /\ Saved(w, "locked") \in BOOLEAN
    BY <1>0, <2>1 DEF Saved, Copy
  <2>3. profile' \in Profile /\ locked' \in BOOLEAN /\ setBack' \in BOOLEAN
    BY <1>3, <2>2 DEF EditWrite, Profile
  <2>4. unguarded' \subseteq started
    BY <1>3, OpensStarted DEF EditWrite, TypeInv, TypeOK
  <2>5. edit' \in [Editors -> EditRequest]
    BY <1>3 DEF EditWrite, EditRequest, TypeInv, TypeOK
  <2> QED
    BY <1>3, <2>3, <2>4, <2>5 DEF EditWrite, TypeInv, TypeOK, SlotsSound,
       JobsStarted
<1> QED BY <1>1, <1>2, <1>3 DEF EditNext

(* Starts, flags and the world keep the types.                             *)
LEMMA WorldTyped ==
  ASSUME TypeInv, WorldNext \/ \E a \in Attempts : Start(a) \/ Flag(a)
  PROVE  TypeInv'
<1> USE DEF attempts, profiles, outcome
<1>1. ASSUME NEW a \in Attempts, Start(a) PROVE TypeInv'
  BY <1>1 DEF Start, TypeInv, TypeOK, SlotsSound, JobsStarted
<1>2. ASSUME NEW a \in Attempts, Flag(a) PROVE TypeInv'
  BY <1>2 DEF Flag, Active, Open, TypeInv, TypeOK, SlotsSound, JobsStarted
<1>3. ASSUME NEW a \in Attempts, SessionExpires(a) PROVE TypeInv'
  BY <1>3 DEF SessionExpires, Active, Open, TypeInv, TypeOK, SlotsSound,
     JobsStarted
<1>4. ASSUME GateOpens PROVE TypeInv'
  BY <1>4 DEF GateOpens, TypeInv, TypeOK, SlotsSound, JobsStarted
<1>5. ASSUME Crash PROVE TypeInv'
  <2>1. job' \in [Attempts -> Job]
    BY <1>5, JobTypes DEF Crash
  <2>2. \A b \in Attempts : job'[b] # NoJob => job[b] # NoJob
    BY <1>5 DEF Crash, Working, NoJob
  <2>3. submit' \in [Submitters -> SubmitRequest]
    BY <1>5, RequestTypes DEF Crash
  <2>4. SlotsSound'
    BY <1>5, RequestTypes DEF Crash, SlotsSound
  <2>5. edit' \in [Editors -> EditRequest]
    BY <1>5 DEF Crash, EditRequest
  <2> QED
    BY <1>5, <2>1, <2>2, <2>3, <2>4, <2>5 DEF Crash, Strike, TypeInv, TypeOK,
       JobsStarted
<1> QED BY <1>1, <1>2, <1>3, <1>4, <1>5 DEF WorldNext

LEMMA TypeStep == TypeInv /\ [Next]_vars => TypeInv'
<1> SUFFICES ASSUME TypeInv, [Next]_vars PROVE TypeInv'
  OBVIOUS
<1>1. ASSUME UNCHANGED vars PROVE TypeInv'
  BY <1>1 DEF vars, attempts, profiles, TypeInv, TypeOK, SlotsSound, JobsStarted
<1> QED BY <1>1, SubmitTyped, JobTyped, EditTyped, WorldTyped DEF Next

LEMMA TypeInvariant == Spec => []TypeInv
BY TypeInit, TypeStep, PTL DEF Spec

(* Every variable keeps its type; voided sessions are completed ones and   *)
(* completed sessions have been started, whatever is saved over them.      *)
THEOREM TypeCorrect == Spec => []TypeOK
BY TypeInvariant, PTL DEF TypeInv

(***************************************************************************)
(* Results.                                                                *)
(***************************************************************************)

(* Only the job's transaction writes a result, and the profile with it;    *)
(* a saved profile is the other writer of the date.                        *)
LEMMA OnlyCommitScores ==
  ASSUME TypeInv, [Next]_vars,
         \A a \in Attempts : ~ JobCommit(a)
  PROVE  /\ UNCHANGED result
         /\ UNCHANGED <<profile, setBack>> \/ \E w \in Editors : EditWrite(w)
<1> USE DEF profiles, outcome, vars
<1>1. ASSUME NEW s \in Submitters,
             SubmitStep(s) \/ \E a \in Attempts : SubmitValidate(s, a)
      PROVE  UNCHANGED <<result, profile, setBack>>
  BY <1>1 DEF SubmitStep, SubmitValidate, SubmitLock, SubmitCommit,
     SubmitRollback, Enqueue, EnqueueRefused, EnqueueReplyLost, ClearLoad,
     ClearSave, Unlock, UndoFails
<1>2. ASSUME NEW a \in Attempts, JobStep(a)
      PROVE  UNCHANGED <<result, profile, setBack>>
  BY <1>2 DEF JobStep, JobTake, JobBackfill, JobScore, JobGivesUp,
     JobRollback, JobReport, JobPool
<1>3. ASSUME WorldNext \/ \E a \in Attempts : Start(a) \/ Flag(a)
      PROVE  UNCHANGED <<result, profile, setBack>>
  BY <1>3 DEF WorldNext, SessionExpires, GateOpens, Crash, Start, Flag
<1>4. ASSUME EditNext
      PROVE  /\ UNCHANGED result
             /\ UNCHANGED <<profile, setBack>> \/ \E w \in Editors : EditWrite(w)
  BY <1>4 DEF EditNext, EditLoad, EditCompare, EditWrite
<1>5. CASE UNCHANGED vars
  BY <1>5
<1> QED BY <1>1, <1>2, <1>3, <1>4, <1>5 DEF Next

LEMMA ResultStays ==
  TypeInv /\ [Next]_vars =>
    \A a \in Attempts : result[a] # "none" => result'[a] = result[a]
<1> DEFINE Kept == \A a \in Attempts :
                     result[a] # "none" => result'[a] = result[a]
<1> SUFFICES ASSUME TypeInv, [Next]_vars PROVE Kept
  OBVIOUS
<1>1. ASSUME NEW a \in Attempts, JobCommit(a) PROVE Kept
  BY <1>1 DEF JobCommit, JobWrites, ResultAllows, TypeInv, TypeOK
<1>2. ASSUME UNCHANGED result PROVE Kept
  BY <1>2
<1> QED BY <1>1, <1>2, OnlyCommitScores

(* UNIQUE (attempt_id) keeps the first result, whoever brings the session  *)
(* back and scores it again.                                               *)
THEOREM ScoredOnceHolds == Spec => ScoredOnce
<1>1. TypeInv /\ [Next]_vars =>
        [\A a \in Attempts : result[a] # "none" => result'[a] = result[a]]_vars
  BY ResultStays
<1> QED BY <1>1, TypeInvariant, PTL DEF Spec, ScoredOnce

Passed == \E a \in Attempts : result[a] \in Passing

(* A date that a request has loaded was set by a pass.                     *)
CopiesInv ==
  \A w \in Editors :
    edit[w].pc # "idle" /\ edit[w].copy.advancedDone => Passed

DatesInv == ResultsReachProfile /\ CopiesInv

LEMMA DatesStep == TypeInv /\ DatesInv /\ [Next]_vars => DatesInv'
<1> SUFFICES ASSUME TypeInv, DatesInv, [Next]_vars PROVE DatesInv'
  OBVIOUS
<1> USE DEF attempts, profiles, outcome
<1>0. /\ profile.advancedDone <=> ~ setBack /\ Passed
      /\ Passed => Passed'
  BY ResultStays DEF DatesInv, ResultsReachProfile, Passed, Passing
<1>1. ASSUME \/ UNCHANGED edit
             \/ \E w \in Editors : EditLoad(w) \/ EditCompare(w) \/ EditWrite(w)
             \/ Crash
      PROVE  CopiesInv'
  <2>1. \A w \in Editors :
          edit'[w].pc # "idle" /\ edit'[w].copy.advancedDone =>
            \/ edit[w].pc # "idle" /\ edit[w].copy.advancedDone
            \/ profile.advancedDone
    <3>1. CASE UNCHANGED edit
      BY <3>1
    <3>2. ASSUME NEW v \in Editors, EditLoad(v)
          PROVE  \A w \in Editors : \/ edit'[w] = edit[w]
                                    \/ edit'[w].copy.advancedDone
                                          = profile.advancedDone
      BY <3>2 DEF EditLoad, Row, TypeInv, TypeOK
    <3>3. ASSUME NEW v \in Editors, EditCompare(v)
          PROVE  \A w \in Editors :
                   \/ edit'[w] = edit[w]
                   \/ edit[w].pc # "idle" /\ edit'[w].copy = edit[w].copy
      BY <3>3 DEF EditCompare, TypeInv, TypeOK
    <3>4. ASSUME NEW v \in Editors, EditWrite(v)
          PROVE  \A w \in Editors : edit'[w] = edit[w] \/ edit'[w].pc = "idle"
      BY <3>4 DEF EditWrite, Idle, TypeInv, TypeOK
    <3>5. CASE Crash
      BY <3>5 DEF Crash, Idle
    <3> QED BY <1>1, <3>1, <3>2, <3>3, <3>4, <3>5
  <2> QED BY <1>0, <2>1 DEF DatesInv, CopiesInv
<1>2. ASSUME NEW a \in Attempts, JobCommit(a) PROVE DatesInv'
  <2>1. /\ result[a] = "none" /\ UNCHANGED edit
        /\ result'[a] = job[a].tier
        /\ \A b \in Attempts \ {a} : result'[b] = result[b]
        /\ profile' = ProfileAfter(job[a].tier)
        /\ setBack' = (setBack /\ job[a].tier \notin Passing)
    BY <1>2 DEF JobCommit, JobWrites, ResultAllows, TypeInv, TypeOK
  <2>2. CASE job[a].tier \in Passing
    <3>1. Passed' /\ ~ setBack' /\ profile'.advancedDone
      BY <2>1, <2>2 DEF Passed, ProfileAfter
    <3> QED BY <1>1, <2>1, <3>1 DEF DatesInv, ResultsReachProfile, Passed
  <2>3. CASE job[a].tier \notin Passing
    <3>1. Passed' <=> Passed
      BY <2>1, <2>3 DEF Passed, Passing
    <3>2. profile' = profile /\ (setBack' <=> setBack)
      BY <2>1, <2>3 DEF ProfileAfter
    <3> QED BY <1>0, <1>1, <2>1, <3>1, <3>2
            DEF DatesInv, ResultsReachProfile, Passed
  <2> QED BY <2>2, <2>3
<1>3. ASSUME UNCHANGED result, NEW w \in Editors, EditWrite(w) PROVE DatesInv'
  <2>1. /\ profile'.advancedDone <=> Saved(w, "advancedDone")
        /\ setBack' <=> (setBack \/ profile.advancedDone)
                           /\ ~ Saved(w, "advancedDone")
    BY <1>3 DEF EditWrite
  <2>2. Passed' <=> Passed
    BY <1>3 DEF Passed
  <2>3. Saved(w, "advancedDone") => Passed
    <3>1. edit[w].pc # "idle"
      BY <1>3 DEF EditWrite
    <3>2. Saved(w, "advancedDone")
            \in {profile.advancedDone, edit[w].copy.advancedDone}
      BY DEF Saved, Row
    <3> QED BY <1>0, <3>1, <3>2 DEF DatesInv, CopiesInv
  <2>4. profile'.advancedDone <=> ~ setBack' /\ Passed'
    BY <1>0, <2>1, <2>2, <2>3
  <2> QED BY <1>1, <1>3, <2>4 DEF DatesInv, ResultsReachProfile, Passed
<1>4. ASSUME UNCHANGED <<result, profile, setBack>>, CopiesInv' PROVE DatesInv'
  BY <1>4 DEF DatesInv, ResultsReachProfile
<1>5. \/ UNCHANGED edit \/ Crash
      \/ \E w \in Editors : EditLoad(w) \/ EditCompare(w) \/ EditWrite(w)
  <2>1. ASSUME NEW s \in Submitters,
               SubmitStep(s) \/ \E a \in Attempts : SubmitValidate(s, a)
        PROVE  UNCHANGED edit
    BY <2>1 DEF SubmitStep, SubmitValidate, SubmitLock, SubmitCommit,
       SubmitRollback, Enqueue, EnqueueRefused, EnqueueReplyLost, ClearLoad,
       ClearSave, Unlock, UndoFails
  <2>2. ASSUME NEW a \in Attempts, JobStep(a) PROVE UNCHANGED edit
    BY <2>2 DEF JobStep, JobTake, JobBackfill, JobScore, JobGivesUp, JobCommit,
       JobWrites, JobRollback, JobReport, JobPool
  <2>3. ASSUME WorldNext \/ \E a \in Attempts : Start(a) \/ Flag(a)
        PROVE  UNCHANGED edit \/ Crash
    BY <2>3 DEF WorldNext, SessionExpires, GateOpens, Start, Flag
  <2>4. UNCHANGED vars => UNCHANGED edit
    BY DEF vars
  <2> QED BY <2>1, <2>2, <2>3, <2>4 DEF Next, EditNext
<1> QED BY <1>1, <1>2, <1>3, <1>4, <1>5, OnlyCommitScores

(* The profile's completion date is set exactly when a session has passed: *)
(* result and profile are written in one transaction, or not at all, and   *)
(* only the save of a profile loaded before puts the date back.            *)
THEOREM ResultsReachProfileHolds == Spec => []ResultsReachProfile
<1>1. Init => DatesInv
  BY DEF Init, DatesInv, CopiesInv, ResultsReachProfile, Passing, Idle
<1>2. DatesInv => ResultsReachProfile
  BY DEF DatesInv
<1> QED BY <1>1, <1>2, DatesStep, TypeInvariant, PTL DEF Spec

(***************************************************************************)
(* One active session that is guarded, however submits and saves overlap.  *)
(***************************************************************************)

(* The sessions that are active, or that a submit may yet bring back, and  *)
(* of which no gate was opened while a submit was under way.               *)
MayReturn(a) ==
  \E s \in Submitters :
    submit[s].pc \in {"commit"} \cup Undoing /\ submit[s].attempt = a
Guarded == {a \in started : /\ a \notin expired \cup unguarded
                            /\ a \in Active \/ MayReturn(a)}

(* While a submit can still bring a guarded session back the gate is       *)
(* locked, so no other session is started; before, the session is open.    *)
ActiveInv ==
  /\ \A a, b \in Guarded : a = b
  /\ \A s \in Submitters :
       submit[s].pc = "commit" => submit[s].attempt \in Open
  /\ \A s \in Submitters :
       submit[s].pc \in Undoing /\ submit[s].attempt \notin unguarded => locked

(* What a submit's step leaves of the other requests.                      *)
LEMMA OtherSlots ==
  ASSUME TypeInv, NEW s \in Submitters, NEW r, SubmitGoes(s, r)
  PROVE  submit'[s] = r /\ \A t \in Submitters \ {s} : submit'[t] = submit[t]
BY DEF TypeInv, TypeOK, SubmitGoes

(* A submit that goes on with its session, or ends, makes none guarded.    *)
LEMMA SlotGoesOn ==
  ASSUME TypeInv, NEW s \in Submitters, NEW r, SubmitGoes(s, r),
         r.pc \in {"commit"} \cup Undoing =>
           /\ r.attempt = submit[s].attempt
           /\ \/ submit[s].pc \in {"commit"} \cup Undoing
              \/ r.attempt \in Open
  PROVE  \A a \in started : a \notin expired =>
           (MayReturn(a)' => a \in Active \/ MayReturn(a))
<1>1. submit'[s] = r /\ \A t \in Submitters \ {s} : submit'[t] = submit[t]
  BY OtherSlots
<1>2. ASSUME NEW a \in started, a \notin expired, NEW t \in Submitters,
             submit'[t].pc \in {"commit"} \cup Undoing, submit'[t].attempt = a
      PROVE  a \in Active \/ MayReturn(a)
  <2>1. CASE t # s
    BY <1>1, <1>2, <2>1 DEF MayReturn
  <2>2. CASE t = s
    BY <1>1, <1>2, <2>2 DEF MayReturn, Active
  <2> QED BY <2>1, <2>2
<1> QED BY <1>2 DEF MayReturn, Undoing

LEMMA ActiveSubmit ==
  ASSUME TypeInv, ActiveInv, NEW s \in Submitters,
         SubmitStep(s) \/ \E b \in Attempts : SubmitValidate(s, b)
  PROVE  ActiveInv'
<1> USE DEF attempts, profiles, outcome
<1> DEFINE a == submit[s].attempt
<1>0. submit[s].pc # "idle" => a \in started
  BY DEF TypeInv, SlotsSound, Idle
<1>1. ASSUME NEW r, SubmitGoes(s, r), UNCHANGED <<attempts, locked>>,
             r.pc \in {"commit"} \cup Undoing =>
               /\ r.attempt = a
               /\ \/ submit[s].pc \in {"commit"} \cup Undoing
                  \/ a \in Open,
             r.pc = "commit" => a \in Open,
             r.pc \in Undoing => submit[s].pc \in Undoing
      PROVE  ActiveInv'
  <2>1. submit'[s] = r /\ \A t \in Submitters \ {s} : submit'[t] = submit[t]
    BY <1>1, OtherSlots
  <2>2. Open' = Open /\ Active' = Active
    BY <1>1 DEF Open, Active
  <2>3. Guarded' \subseteq Guarded
    BY <1>1, <2>2, SlotGoesOn DEF Guarded
  <2> QED BY <1>1, <2>1, <2>2, <2>3 DEF ActiveInv, Undoing
<1>2. ASSUME NEW b \in Attempts, SubmitValidate(s, b) PROVE ActiveInv'
  BY <1>1, <1>2 DEF SubmitValidate, Undoing
<1>3. ASSUME SubmitLock(s) PROVE ActiveInv'
  <2>1. CASE a \in Open /\ InFlight = {}
    BY <1>1, <1>3, <2>1 DEF SubmitLock, SubmitAt, Undoing
  <2>2. CASE ~ (a \in Open /\ InFlight = {})
    BY <1>1, <1>3, <2>2 DEF SubmitLock, Idle, Undoing
  <2> QED BY <2>1, <2>2
<1>4. ASSUME SubmitCommit(s) PROVE ActiveInv'
  <2> DEFINE r == [pc |-> "enqueue", attempt |-> a]
  <2>1. /\ SubmitGoes(s, r) /\ submit[s].pc = "commit" /\ locked'
        /\ UNCHANGED <<started, completed, forced, expired, unguarded>>
    BY <1>4 DEF SubmitCommit, SubmitAt
  <2>2. /\ submit'[s] = r /\ r.pc = "enqueue" /\ r.attempt = a
        /\ \A t \in Submitters \ {s} : submit'[t] = submit[t]
    BY <2>1, OtherSlots
  <2>3. Open' = Open /\ Active' = Active
    BY <2>1 DEF Open, Active
  <2>4. Guarded' \subseteq Guarded
    <3> HIDE DEF r
    <3> QED BY <2>1, <2>2, <2>3, SlotGoesOn DEF Guarded
  <2> QED BY <2>1, <2>2, <2>3, <2>4 DEF ActiveInv
<1>5. ASSUME SubmitRollback(s) \/ UndoFails(s) \/ Enqueue(s) PROVE ActiveInv'
  BY <1>1, <1>5 DEF SubmitRollback, UndoFails, Enqueue, Idle, Undoing
<1>6. ASSUME EnqueueRefused(s) \/ EnqueueReplyLost(s) PROVE ActiveInv'
  BY <1>1, <1>6 DEF EnqueueRefused, EnqueueReplyLost, SubmitAt, Undoing
<1>7. ASSUME ClearLoad(s) PROVE ActiveInv'
  <2> DEFINE r == [pc |-> "restore", attempt |-> a, done |-> a \in completed,
                   void |-> a \in forced]
  <2>1. /\ SubmitGoes(s, r) /\ r.pc = "restore" /\ r.attempt = a
        /\ submit[s].pc \in Undoing /\ UNCHANGED <<attempts, locked>>
    BY <1>7 DEF ClearLoad, Undoing
  <2> HIDE DEF r
  <2> QED BY <1>1, <2>1 DEF Undoing
<1>8. ASSUME ClearSave(s) PROVE ActiveInv'
  <2> DEFINE r == [pc |-> "unlock", attempt |-> a]
  <2>1. /\ SubmitGoes(s, r) /\ submit[s].pc = "restore" /\ RowFree(a)
        /\ UNCHANGED <<started, expired, unguarded, locked>>
    BY <1>8 DEF ClearSave, SubmitAt
  <2>2. /\ submit'[s] = r /\ r.pc = "unlock"
        /\ \A t \in Submitters \ {s} : submit'[t] = submit[t]
    BY <2>1, OtherSlots
  <2>3. Open \ {a} \subseteq Open' /\ Active' \subseteq Active \cup {a}
    BY <1>8 DEF ClearSave, Restored, Active, Open
  <2>4. MayReturn(a)
    BY <2>1 DEF MayReturn, Undoing
  <2>5. \A b \in started : MayReturn(b)' => MayReturn(b)
    BY <2>2 DEF MayReturn, Undoing
  <2>6. Guarded' \subseteq Guarded
    BY <2>1, <2>3, <2>4, <2>5 DEF Guarded
  <2>7. \A t \in Submitters \ {s} :
          submit[t].pc = "commit" => submit[t].attempt \in Open'
    BY <2>1, <2>3 DEF RowFree, ActiveInv
  <2> QED BY <2>1, <2>2, <2>6, <2>7 DEF ActiveInv, Undoing
<1>9. ASSUME Unlock(s) PROVE ActiveInv'
  <2>1. /\ SubmitGoes(s, Idle) /\ OpensUnder(Submitters \ {s})
        /\ UNCHANGED <<started, completed, forced, expired>>
    BY <1>9 DEF Unlock
  <2>2. /\ submit'[s] = Idle /\ Idle.pc = "idle"
        /\ \A t \in Submitters \ {s} : submit'[t] = submit[t]
    BY <2>1, OtherSlots DEF Idle
  <2>3. Open' = Open /\ Active' = Active /\ unguarded \subseteq unguarded'
    BY <2>1 DEF Open, Active, OpensUnder
  <2>4. \A b \in started : MayReturn(b)' => MayReturn(b)
    BY <2>2 DEF MayReturn, Undoing
  <2>5. Guarded' \subseteq Guarded
    BY <2>1, <2>3, <2>4 DEF Guarded
  <2>6. \A t \in Submitters \ {s} :
          submit[t].pc \in Undoing => submit[t].attempt \in unguarded'
    BY <2>1 DEF OpensUnder
  <2> QED BY <2>2, <2>3, <2>5, <2>6 DEF ActiveInv, Undoing
<1> QED
  BY <1>2, <1>3, <1>4, <1>5, <1>6, <1>7, <1>8, <1>9 DEF SubmitStep

LEMMA ActiveStep ==
  ASSUME TypeInv, ActiveInv, [Next]_vars
  PROVE  ActiveInv'
<1> USE DEF attempts, profiles, outcome
<1>1. ASSUME UNCHANGED <<submit, started, expired>>, Active' \subseteq Active,
             unguarded \subseteq unguarded',
             \A s \in Submitters :
               submit[s].pc = "commit" => submit[s].attempt \in Open',
             \A s \in Submitters :
               submit[s].pc \in Undoing /\ submit[s].attempt \notin unguarded'
                 => locked'
      PROVE  ActiveInv'
  <2>1. Guarded' \subseteq Guarded
    BY <1>1 DEF Guarded, MayReturn
  <2> QED BY <1>1, <2>1 DEF ActiveInv
<1>2. ASSUME NEW b \in Attempts, Start(b) PROVE ActiveInv'
  <2>1. Active = {} /\ ~ locked /\ started' = started \cup {b}
        /\ UNCHANGED <<submit, locked, completed, forced, expired, unguarded>>
    BY <1>2 DEF Start, MayStart
  <2>2. Active' \subseteq {b} /\ Open \subseteq Open'
    BY <2>1 DEF Active, Open
  <2>3. ASSUME NEW s \in Submitters,
               submit[s].pc \in {"commit"} \cup Undoing,
               submit[s].attempt \notin expired \cup unguarded
        PROVE  FALSE
    BY <2>1, <2>3 DEF Active, ActiveInv
  <2>4. Guarded' \subseteq {b}
    BY <2>1, <2>2, <2>3 DEF Guarded, MayReturn
  <2> QED BY <2>1, <2>2, <2>4 DEF ActiveInv
<1>3. ASSUME NEW b \in Attempts, Flag(b) PROVE ActiveInv'
  <2>1. Active' \subseteq Active /\ Open' = Open \ {b} /\ locked'
        /\ UNCHANGED <<submit, started, expired, unguarded>> /\ RowFree(b)
    BY <1>3 DEF Flag, Active, Open
  <2>2. \A s \in Submitters :
          submit[s].pc = "commit" => submit[s].attempt \in Open'
    BY <2>1 DEF RowFree, ActiveInv
  <2> QED BY <1>1, <2>1, <2>2
<1>4. ASSUME NEW b \in Attempts, JobStep(b) PROVE ActiveInv'
  <2>1. CASE JobCommit(b)
    <3>1. Active' \subseteq Active /\ Open' = Open \ {b} /\ (locked => locked')
          /\ UNCHANGED <<submit, started, expired, unguarded>> /\ RowFree(b)
      BY <2>1 DEF JobCommit, JobWrites, Active, Open
    <3>2. \A s \in Submitters :
            submit[s].pc = "commit" => submit[s].attempt \in Open'
      BY <3>1 DEF RowFree, ActiveInv
    <3> QED BY <1>1, <3>1, <3>2 DEF ActiveInv
  <2>2. CASE ~ JobCommit(b)
    <3>1. UNCHANGED <<submit, locked, attempts>>
      BY <1>4, <2>2 DEF JobStep, JobTake, JobBackfill, JobScore, JobGivesUp,
         JobRollback, JobReport, JobPool
    <3> QED BY <1>1, <3>1 DEF Active, Open, ActiveInv
  <2> QED BY <2>1, <2>2
<1>5. ASSUME NEW b \in Attempts, SessionExpires(b) PROVE ActiveInv'
  <2>1. Open' = Open /\ Active' \subseteq Active /\ expired \subseteq expired'
        /\ UNCHANGED <<submit, started, unguarded, locked>>
    BY <1>5 DEF SessionExpires, Active, Open
  <2>2. Guarded' \subseteq Guarded
    BY <2>1 DEF Guarded, MayReturn
  <2> QED BY <2>1, <2>2 DEF ActiveInv
<1>6. ASSUME GateOpens PROVE ActiveInv'
  <2>1. \A s \in Submitters : submit'[s] = Idle /\ Idle.pc = "idle"
    BY <1>6 DEF GateOpens, Idle
  <2>2. Guarded' = {}
    BY <1>6, <2>1 DEF GateOpens, Guarded, Active, Open, MayReturn, Undoing
  <2> QED BY <2>1, <2>2 DEF ActiveInv, Undoing
<1>7. ASSUME Crash PROVE ActiveInv'
  <2>1. \A s \in Submitters : submit'[s] = Idle /\ Idle.pc = "idle"
    BY <1>7 DEF Crash, Idle
  <2>2. Guarded' \subseteq Guarded
    BY <1>7, <2>1 DEF Crash, Guarded, Active, Open, MayReturn, Undoing
  <2> QED BY <2>1, <2>2 DEF ActiveInv, Undoing
<1>8. ASSUME NEW w \in Editors, EditLoad(w) \/ EditCompare(w) PROVE ActiveInv'
  BY <1>1, <1>8 DEF EditLoad, EditCompare, Active, Open, ActiveInv
<1>9. ASSUME NEW w \in Editors, EditWrite(w) PROVE ActiveInv'
  <2>1. /\ UNCHANGED <<submit, started, completed, forced, expired>>
        /\ locked' = Saved(w, "locked")
        /\ IF Saved(w, "locked") THEN UNCHANGED unguarded
                                 ELSE OpensUnder(Submitters)
    BY <1>9 DEF EditWrite
  <2>2. /\ unguarded \subseteq unguarded'
        /\ \A s \in Submitters :
             submit[s].pc \in Undoing /\ submit[s].attempt \notin unguarded'
               => locked'
    BY <2>1 DEF OpensUnder
  <2>3. Open' = Open /\ Active' = Active
    BY <2>1 DEF Active, Open
  <2> QED BY <1>1, <2>1, <2>2, <2>3 DEF ActiveInv
<1>10. ASSUME UNCHANGED vars PROVE ActiveInv'
  BY <1>1, <1>10 DEF vars, Active, Open, ActiveInv
<1> QED
  BY <1>2, <1>3, <1>4, <1>5, <1>6, <1>7, <1>8, <1>9, <1>10, ActiveSubmit
     DEF Next, WorldNext, EditNext

(* At most one active session is guarded, for any number of overlapping    *)
(* submits and saves: a failing submit brings completed and voided         *)
(* sessions back before it opens the gate, so a second one takes another   *)
(* request that opens the gate meanwhile.                                  *)
THEOREM OneActiveSessionHolds == Spec => []OneActiveSession
<1>1. Init => ActiveInv
  BY DEF Init, ActiveInv, Guarded, Undoing, Idle
<1>2. TypeInv /\ ActiveInv /\ [Next]_vars => ActiveInv'
  BY ActiveStep
<1>3. ActiveInv => OneActiveSession
  <2> SUFFICES ASSUME ActiveInv PROVE Cardinality(Active \ unguarded) <= 1
    BY DEF OneActiveSession
  <2>1. \A a, b \in Active \ unguarded : a = b
    BY DEF ActiveInv, Guarded, Active, Open
  <2>2. CASE Active \ unguarded = {}
    BY <2>2, FS_EmptySet
  <2>3. CASE Active \ unguarded # {}
    <3>1. PICK a : Active \ unguarded = {a}
      BY <2>1, <2>3
    <3>2. Cardinality({a}) = 1
      BY FS_Singleton
    <3> QED BY <3>1, <3>2
  <2> QED BY <2>2, <2>3
<1> QED BY <1>1, <1>2, <1>3, TypeInvariant, PTL DEF Spec

(***************************************************************************)
(* Submissions are not forgotten, whatever overlaps.                       *)
(***************************************************************************)
NothingLost == Redis /\ "lost" \notin struck

Holding == {"commit", "enqueue", "clear", "restore"}
Holds(s, a) == submit[s].pc \in Holding /\ submit[s].attempt = a

(* A session is in one hand: that of one request, from the check under its *)
(* row lock until the mark is taken back, or else that of its job.  So the *)
(* mark is never taken back from a session whose job is there.             *)
OneHolder ==
  \A s, t \in Submitters, a \in Attempts : Holds(s, a) /\ Holds(t, a) => s = t
HolderMarked ==
  \A s \in Submitters :
    /\ submit[s].pc = "commit" => submit[s].attempt \in Open \ enqueued
    /\ submit[s].pc \in Holding \ {"commit"} => submit[s].attempt \in enqueued
JobAlone ==
  \A a \in Attempts :
    job[a] # NoJob => a \in enqueued /\ \A s \in Submitters : ~ Holds(s, a)
DoneJobs ==
  \A a \in Attempts :
    job[a].pc \in {"backfill", "report", "pool"} => a \in completed
MarkedHeld ==
  \A a \in InFlight : job[a] # NoJob \/ \E s \in Submitters : Holds(s, a)

Hands == OneHolder /\ HolderMarked /\ JobAlone /\ DoneJobs /\ MarkedHeld

(* Submitting, as far as nothing is lost.                                  *)
LEMMA HandsSubmit ==
  ASSUME TypeInv, Hands, NothingLost, NothingLost', NEW s \in Submitters,
         SubmitStep(s) \/ \E b \in Attempts : SubmitValidate(s, b)
  PROVE  Hands'
<1> USE DEF attempts, profiles, outcome
<1> DEFINE a == submit[s].attempt
<1>0. /\ submit[s] \in SubmitRequest
      /\ submit[s].pc # "idle" => a \in Attempts
  BY RequestTypes DEF TypeInv, TypeOK
<1>1. ASSUME NEW r, SubmitGoes(s, r)
      PROVE  /\ submit'[s] = r
             /\ \A t \in Submitters \ {s} : submit'[t] = submit[t]
  BY <1>1 DEF SubmitGoes, TypeInv, TypeOK
<1>2. ASSUME NEW r, SubmitGoes(s, r), r.pc \notin Holding,
             submit[s].pc \notin Holding,
             UNCHANGED <<started, completed, forced, enqueued, job>>
      PROVE  Hands'
  <2>1. \A t \in Submitters, b \in Attempts : Holds(t, b)' <=> Holds(t, b)
    BY <1>1, <1>2 DEF Holds
  <2>2. OneHolder' /\ JobAlone' /\ DoneJobs' /\ MarkedHeld'
    BY <1>2, <2>1 DEF Hands, OneHolder, JobAlone, DoneJobs, MarkedHeld,
       InFlight, Open, TypeInv, TypeOK
  <2>3. HolderMarked'
    BY <1>1, <1>2 DEF Hands, HolderMarked, Open, Holding
  <2> QED BY <2>2, <2>3 DEF Hands
<1>3. ASSUME NEW b \in Attempts, SubmitValidate(s, b) PROVE Hands'
  BY <1>2, <1>3 DEF SubmitValidate, Idle, Holding
<1>4. ASSUME SubmitLock(s) PROVE Hands'
  <2>1. CASE ~ (a \in Open /\ InFlight = {})
    BY <1>2, <1>4, <2>1 DEF SubmitLock, Idle, Holding
  <2>2. CASE a \in Open /\ InFlight = {}
    <3>1. /\ submit'[s] = [pc |-> "commit", attempt |-> a]
          /\ \A t \in Submitters \ {s} : submit'[t] = submit[t]
          /\ UNCHANGED <<attempts, job>>
      BY <1>1, <1>4, <2>2 DEF SubmitLock, SubmitAt
    <3>2. a \notin enqueued /\ a \in Attempts
      BY <1>0, <1>4, <2>2 DEF InFlight, SubmitLock
    <3>3. \A t \in Submitters : ~ Holds(t, a)
      BY <1>4, <3>2 DEF SubmitLock, RowFree, Holds, Holding, Hands, HolderMarked
    <3>4. job[a] = NoJob
      BY <3>2 DEF Hands, JobAlone
    <3>5. \A t \in Submitters, b \in Attempts :
            Holds(t, b)' <=> Holds(t, b) \/ (t = s /\ b = a)
      BY <1>4, <3>1 DEF Holds, Holding, SubmitLock
    <3>6. OneHolder'
      BY <3>3, <3>5 DEF Hands, OneHolder
    <3>7. JobAlone' /\ DoneJobs' /\ MarkedHeld'
      BY <3>1, <3>4, <3>5 DEF Hands, JobAlone, DoneJobs, MarkedHeld,
         InFlight, Open, TypeInv, TypeOK
    <3>8. HolderMarked'
      BY <2>2, <3>1, <3>2 DEF Hands, HolderMarked, Open, Holding
    <3> QED BY <3>6, <3>7, <3>8 DEF Hands
  <2> QED BY <2>1, <2>2
<1>5. ASSUME NEW pc \in Holding \ {"commit"}, submit[s].pc \in Holding,
             submit'[s].pc = pc, submit'[s].attempt = a,
             \A t \in Submitters \ {s} : submit'[t] = submit[t]
      PROVE  /\ \A t \in Submitters, b \in Attempts : Holds(t, b)' <=> Holds(t, b)
             /\ OneHolder'
             /\ \A t \in Submitters : submit'[t].attempt = submit[t].attempt
  BY <1>5 DEF Holds, Hands, OneHolder
<1>6. ASSUME SubmitCommit(s) PROVE Hands'
  <2>1. /\ submit'[s] = [pc |-> "enqueue", attempt |-> a]
        /\ \A t \in Submitters \ {s} : submit'[t] = submit[t]
        /\ submit[s].pc = "commit" /\ enqueued' = enqueued \cup {a}
        /\ UNCHANGED <<started, completed, forced, job>>
    BY <1>1, <1>6 DEF SubmitCommit, SubmitAt
  <2>2. a \in Attempts /\ Holds(s, a)
    BY <1>0, <2>1 DEF Holds, Holding
  <2>3. /\ \A t \in Submitters, b \in Attempts : Holds(t, b)' <=> Holds(t, b)
        /\ OneHolder'
    BY <1>5, <2>1 DEF Holding
  <2>4. JobAlone' /\ DoneJobs'
    BY <2>1, <2>3 DEF Hands, JobAlone, DoneJobs
  <2>5. MarkedHeld'
    BY <2>1, <2>2, <2>3 DEF Hands, MarkedHeld, InFlight, Open, TypeInv, TypeOK
  <2>6. \A t \in Submitters \ {s} :
          submit[t].pc = "commit" => submit[t].attempt # a
    BY <2>2 DEF Hands, OneHolder, Holds, Holding
  <2>7. HolderMarked'
    BY <2>1, <2>6 DEF Hands, HolderMarked, Open, Holding
  <2> QED BY <2>3, <2>4, <2>5, <2>7 DEF Hands
<1>7. ASSUME SubmitRollback(s) PROVE Hands'
  <2>1. /\ submit'[s] = Idle /\ submit[s].pc = "commit"
        /\ \A t \in Submitters \ {s} : submit'[t] = submit[t]
        /\ UNCHANGED <<attempts, job>>
    BY <1>1, <1>7 DEF SubmitRollback
  <2>2. a \notin enqueued
    BY <2>1 DEF Hands, HolderMarked
  <2>3. \A t \in Submitters, b \in Attempts :
          Holds(t, b)' <=> Holds(t, b) /\ t # s
    BY <2>1 DEF Holds, Idle, Holding
  <2>4. OneHolder' /\ JobAlone' /\ DoneJobs'
    BY <2>1, <2>3 DEF Hands, OneHolder, JobAlone, DoneJobs
  <2>5. MarkedHeld'
    BY <2>1, <2>2, <2>3 DEF Hands, MarkedHeld, InFlight, Open, Holds, TypeInv,
       TypeOK
  <2>6. HolderMarked'
    BY <2>1 DEF Hands, HolderMarked, Open, Holding, Idle
  <2> QED BY <2>4, <2>5, <2>6 DEF Hands
<1>8. ASSUME Enqueue(s) PROVE Hands'
  <2>1. /\ submit'[s] = Idle /\ submit[s].pc = "enqueue"
        /\ \A t \in Submitters \ {s} : submit'[t] = submit[t]
        /\ UNCHANGED <<attempts>>
    BY <1>1, <1>8 DEF Enqueue
  <2>2. a \in enqueued /\ a \in Attempts /\ Holds(s, a)
    BY <1>0, <2>1 DEF Hands, HolderMarked, Holds, Holding
  <2>3. job[a] = NoJob
    BY <2>2 DEF Hands, JobAlone
  <2>4. /\ job'[a] = Waiting /\ \A b \in Attempts \ {a} : job'[b] = job[b]
    BY <1>8, <2>2, <2>3 DEF Enqueue, Enqueued, JobGoes, TypeInv, TypeOK
  <2>5. \A t \in Submitters, b \in Attempts :
          Holds(t, b)' <=> Holds(t, b) /\ t # s
    BY <2>1 DEF Holds, Idle, Holding
  <2>6. OneHolder'
    BY <2>5 DEF Hands, OneHolder
  <2>7. JobAlone'
    BY <2>1, <2>2, <2>4, <2>5 DEF Hands, JobAlone, OneHolder
  <2>8. DoneJobs'
    BY <2>1, <2>4 DEF Hands, DoneJobs, Waiting
  <2>9. MarkedHeld'
    BY <2>1, <2>4, <2>5, JobTypes DEF Hands, MarkedHeld, InFlight, Open, Holds,
       TypeInv, TypeOK
  <2>10. HolderMarked'
    BY <2>1 DEF Hands, HolderMarked, Open, Holding, Idle
  <2> QED BY <2>6, <2>7, <2>8, <2>9, <2>10 DEF Hands
<1>9. ASSUME EnqueueRefused(s) \/ ClearLoad(s) PROVE Hands'
  <2>1. UNCHANGED <<attempts, job>>
    <3>1. submit[s].pc = "enqueue" => job[a] = NoJob
      BY <1>0 DEF Hands, JobAlone, Holds, Holding
    <3> QED BY <1>9, <3>1 DEF EnqueueRefused, ClearLoad, NoJob, Failed
  <2>2. /\ submit[s].pc \in Holding \ {"commit"}
        /\ submit'[s].pc \in Holding \ {"commit"} /\ submit'[s].attempt = a
        /\ \A t \in Submitters \ {s} : submit'[t] = submit[t]
    BY <1>1, <1>9 DEF EnqueueRefused, ClearLoad, SubmitAt, Holding
  <2>3. /\ \A t \in Submitters, b \in Attempts : Holds(t, b)' <=> Holds(t, b)
        /\ OneHolder'
    BY <1>5, <2>2
  <2>4. JobAlone' /\ DoneJobs' /\ MarkedHeld'
    BY <2>1, <2>3 DEF Hands, JobAlone, DoneJobs, MarkedHeld, InFlight, Open,
       TypeInv, TypeOK
  <2>5. HolderMarked'
    BY <2>1, <2>2 DEF Hands, HolderMarked, Open, Holding
  <2> QED BY <2>3, <2>4, <2>5 DEF Hands
<1>10. ASSUME EnqueueReplyLost(s) \/ UndoFails(s) PROVE FALSE
  BY <1>10 DEF EnqueueReplyLost, UndoFails, Strike, NothingLost
<1>11. ASSUME ClearSave(s) PROVE Hands'
  <2>1. /\ submit'[s] = [pc |-> "unlock", attempt |-> a]
        /\ submit[s].pc = "restore"
        /\ \A t \in Submitters \ {s} : submit'[t] = submit[t]
        /\ enqueued' = enqueued \ {a} /\ UNCHANGED <<started, job>>
    BY <1>1, <1>11 DEF ClearSave, SubmitAt
  <2>2. /\ completed' \ {a} = completed \ {a} /\ forced' \ {a} = forced \ {a}
    BY <1>11 DEF ClearSave, Restored
  <2>3. a \in Attempts /\ Holds(s, a)
    BY <1>0, <2>1 DEF Holds, Holding
  <2>4. job[a] = NoJob /\ \A t \in Submitters \ {s} : ~ Holds(t, a)
    BY <2>3 DEF Hands, JobAlone, OneHolder
  <2>5. \A t \in Submitters, b \in Attempts :
          Holds(t, b)' <=> Holds(t, b) /\ t # s
    BY <2>1 DEF Holds, Holding
  <2>6. OneHolder'
    BY <2>5 DEF Hands, OneHolder
  <2>7. JobAlone'
    BY <2>1, <2>4, <2>5 DEF Hands, JobAlone
  <2>8. DoneJobs'
    BY <2>1, <2>2, <2>4 DEF Hands, DoneJobs, NoJob
  <2>9. MarkedHeld'
    <3>1. InFlight' \subseteq InFlight \ {a}
      BY <2>1, <2>2 DEF InFlight, Open
    <3>2. \A b \in InFlight \ {a}, t \in Submitters : Holds(t, b) => t # s
      BY <2>1 DEF Holds
    <3> QED
      BY <2>1, <2>5, <3>1, <3>2 DEF Hands, MarkedHeld, InFlight, Open, TypeInv,
         TypeOK
  <2>10. \A t \in Submitters \ {s} :
           submit[t].pc \in Holding => submit[t].attempt # a
    BY <2>3, <2>4 DEF Holds
  <2>11. HolderMarked'
    BY <2>1, <2>2, <2>10 DEF Hands, HolderMarked, Open, Holding
  <2> QED BY <2>6, <2>7, <2>8, <2>9, <2>11 DEF Hands
<1>12. ASSUME Unlock(s) PROVE Hands'
  BY <1>2, <1>12 DEF Unlock, Idle, Holding
<1> QED
  BY <1>3, <1>4, <1>6, <1>7, <1>8, <1>9, <1>10, <1>11, <1>12 DEF SubmitStep

(* Jobs: one ends by itself only when its session is completed or voided.  *)
LEMMA HandsJob ==
  ASSUME TypeInv, Hands, NothingLost, NEW a \in Attempts, JobStep(a)
  PROVE  Hands'
<1> USE DEF attempts, profiles, outcome
<1>0. UNCHANGED <<submit, started, enqueued>>
  BY DEF JobStep, JobTake, JobBackfill, JobScore, JobGivesUp, JobCommit,
     JobWrites, JobRollback, JobReport, JobPool
<1>1. \A s \in Submitters, b \in Attempts : Holds(s, b)' <=> Holds(s, b)
  BY <1>0 DEF Holds
<1>2. ASSUME NEW j, JobGoes(a, j), job[a] # NoJob, j = NoJob => a \notin Open',
             j.pc \in {"backfill", "report", "pool"} => a \in completed',
             completed \subseteq completed', Open' \subseteq Open,
             \A s \in Submitters :
               submit[s].pc = "commit" /\ submit[s].attempt # a
                 /\ submit[s].attempt \in Open => submit[s].attempt \in Open'
      PROVE  Hands'
  <2>1. job'[a] = j /\ \A b \in Attempts \ {a} : job'[b] = job[b]
    BY <1>2 DEF JobGoes, TypeInv, TypeOK
  <2>2. OneHolder' /\ JobAlone'
    BY <1>0, <1>1, <1>2, <2>1 DEF Hands, OneHolder, JobAlone
  <2>3. DoneJobs'
    BY <1>2, <2>1 DEF Hands, DoneJobs
  <2>4. MarkedHeld'
    BY <1>0, <1>1, <1>2, <2>1 DEF Hands, MarkedHeld, InFlight, Open, TypeInv,
       TypeOK
  <2>5. \A s \in Submitters : submit[s].pc = "commit" => submit[s].attempt # a
    BY <1>2 DEF Hands, JobAlone, Holds, Holding
  <2>6. HolderMarked'
    BY <1>0, <1>2, <2>5 DEF Hands, HolderMarked
  <2> QED BY <2>2, <2>3, <2>4, <2>6 DEF Hands
<1>3. job[a].pc # "none" => job[a] # NoJob
  BY DEF NoJob
<1>4. CASE JobCommit(a)
  <2>1. /\ job[a].pc = "save" /\ completed' = completed \cup {a}
        /\ Open' = Open \ {a}
    BY <1>4 DEF JobCommit, JobWrites, Open
  <2>2. PICK j : JobGoes(a, j)
    BY <1>4 DEF JobCommit, JobWrites, JobEnds
  <2> QED BY <1>2, <1>3, <2>1, <2>2
<1>5. CASE ~ JobCommit(a)
  <2>1. UNCHANGED <<completed, forced, Open>>
    BY <1>0, <1>5 DEF JobStep, JobTake, JobBackfill, JobScore, JobGivesUp,
       JobRollback, JobReport, JobPool, Open
  <2>2. ASSUME NEW j, JobGoes(a, j), job[a] # NoJob, j = NoJob => a \notin Open,
               j.pc \in {"backfill", "report", "pool"} => a \in completed
        PROVE  Hands'
    BY <1>2, <2>1, <2>2
  <2>3. CASE JobTake(a)
    <3>1. job[a] # NoJob
      BY <2>3, JobTypes DEF JobTake
    <3>2. PICK j : /\ JobGoes(a, j)
                   /\ j = NoJob => a \notin Open
                   /\ j.pc \in {"backfill", "report", "pool"} => a \in completed
      BY <2>3 DEF JobTake, JobEnds, Open, NoJob
    <3> QED BY <2>2, <3>1, <3>2
  <2>4. CASE JobBackfill(a) \/ JobReport(a) \/ JobPool(a)
    <3>1. job[a] # NoJob /\ a \in completed
      BY <1>3, <2>4 DEF JobBackfill, JobReport, JobPool, Hands, DoneJobs
    <3>2. a \notin Open
      BY <3>1 DEF Open
    <3>3. PICK j : JobGoes(a, j)
      BY <2>4 DEF JobBackfill, JobReport, JobAfterReport, JobPool, JobEnds
    <3> QED BY <2>2, <3>1, <3>2, <3>3
  <2>5. CASE \E tier \in Tier : JobScore(a, tier)
    <3>1. PICK tier : JobScore(a, tier)
      BY <2>5
    <3> QED BY <1>3, <2>2, <3>1 DEF JobScore, NoJob
  <2>6. CASE JobGivesUp(a) \/ JobRollback(a)
    <3>1. job[a] # NoJob /\ JobGoes(a, Failed)
      BY <1>3, <2>6 DEF JobGivesUp, JobRollback, JobFails, NothingLost
    <3> QED BY <2>2, <3>1, JobTypes DEF Failed
  <2> QED BY <1>5, <2>3, <2>4, <2>5, <2>6 DEF JobStep
<1> QED BY <1>4, <1>5

(* Starts, flags and time.                                                 *)
LEMMA HandsWorld ==
  ASSUME TypeInv, Hands, NothingLost, NothingLost',
         WorldNext \/ EditNext \/ \E a \in Attempts : Start(a) \/ Flag(a)
  PROVE  Hands'
<1> USE DEF attempts, profiles, outcome
<1>1. ASSUME Crash PROVE FALSE
  BY <1>1 DEF Crash, Strike, NothingLost
<1>2. ASSUME UNCHANGED <<submit, job, enqueued>>, completed \subseteq completed',
             InFlight' \subseteq InFlight,
             \A s \in Submitters :
               submit[s].pc = "commit" => submit[s].attempt \in Open'
      PROVE  Hands'
  <2>1. \A s \in Submitters, b \in Attempts : Holds(s, b)' <=> Holds(s, b)
    BY <1>2 DEF Holds
  <2>2. OneHolder' /\ HolderMarked' /\ JobAlone' /\ DoneJobs'
    BY <1>2, <2>1 DEF Hands, OneHolder, HolderMarked, JobAlone, DoneJobs
  <2>3. InFlight \subseteq Attempts
    BY DEF InFlight, Open, TypeInv, TypeOK
  <2>4. MarkedHeld'
    BY <1>2, <2>1, <2>3 DEF Hands, MarkedHeld
  <2> QED BY <2>2, <2>4 DEF Hands
<1>3. \A s \in Submitters :
        submit[s].pc = "commit" => submit[s].attempt \in Open
  BY DEF Hands, HolderMarked
<1>4. ASSUME NEW a \in Attempts, Start(a) PROVE Hands'
  <2>1. a \notin enqueued
    BY <1>4 DEF Start, TypeInv, TypeOK
  <2>2. Open \subseteq Open' /\ InFlight' = InFlight
    BY <1>4, <2>1 DEF Start, Open, InFlight
  <2> QED BY <1>2, <1>3, <1>4, <2>2 DEF Start
<1>5. ASSUME NEW a \in Attempts, Flag(a) PROVE Hands'
  <2>1. Open' = Open \ {a} /\ InFlight' \subseteq InFlight
    BY <1>5 DEF Flag, Open, InFlight
  <2> QED BY <1>2, <1>3, <1>5, <2>1 DEF Flag, RowFree
<1>6. ASSUME NEW a \in Attempts, SessionExpires(a) PROVE Hands'
  BY <1>2, <1>3, <1>6 DEF SessionExpires, Open, InFlight
<1>7. ASSUME GateOpens PROVE Hands'
  BY <1>2, <1>3, <1>7 DEF GateOpens, Open, InFlight
<1>8. ASSUME EditNext PROVE Hands'
  BY <1>2, <1>3, <1>8
     DEF EditNext, EditLoad, EditCompare, EditWrite, Open, InFlight
<1> QED BY <1>1, <1>4, <1>5, <1>6, <1>7, <1>8 DEF WorldNext

(* A submission in flight is in the hands of a request or a job, for any   *)
(* number of overlapping submits, as long as the process does not crash, a *)
(* queue reply is not lost and the failure path does not fail.             *)
THEOREM SubmissionsTrackedHolds == Spec => []SubmissionsTracked
<1> DEFINE Inv == NothingLost => Hands
<1>1. Init => Inv
  BY JobTypes DEF Init, Hands, OneHolder, HolderMarked, JobAlone, DoneJobs,
     MarkedHeld, Holds, Holding, InFlight, Idle, NoJob
<1>2. TypeInv /\ Inv /\ [Next]_vars => Inv'
  <2> SUFFICES ASSUME TypeInv, Inv, [Next]_vars, NothingLost' PROVE Hands'
    OBVIOUS
  <2>1. struck \subseteq struck'
    BY DEF Next, vars, WorldNext, SubmitStep, JobStep, Start, Flag,
       SubmitValidate, SubmitLock, SubmitCommit, SubmitRollback, Enqueue,
       EnqueueRefused, EnqueueReplyLost, ClearLoad, ClearSave, Unlock,
       UndoFails, JobTake, JobBackfill, JobScore, JobGivesUp, JobCommit,
       JobWrites, JobRollback, JobReport, JobPool, SessionExpires, GateOpens,
       Crash, Strike, EditNext, EditLoad, EditCompare, EditWrite
  <2>2. NothingLost /\ Hands
    BY <2>1 DEF NothingLost
  <2>3. ASSUME UNCHANGED vars PROVE Hands'
    BY <2>2, <2>3 DEF vars, attempts, Hands, OneHolder, HolderMarked, JobAlone,
       DoneJobs, MarkedHeld, Holds, InFlight, Open
  <2> QED BY <2>2, <2>3, HandsSubmit, HandsJob, HandsWorld DEF Next
<1>3. TypeInv /\ Inv => SubmissionsTracked
  <2> SUFFICES ASSUME TypeInv, Hands, NEW a \in InFlight PROVE Tracked(a)
    BY DEF SubmissionsTracked, NothingLost
  <2>1. \A s \in Submitters : Holds(s, a) => submit[s] # Idle
    BY DEF Holds, Holding, Idle
  <2> QED BY <2>1 DEF Hands, MarkedHeld, Tracked, Holds
<1> QED BY <1>1, <1>2, <1>3, TypeInvariant, PTL DEF Spec

(***************************************************************************)
(* What is delivered: reports and the row employers look for.              *)
(***************************************************************************)

(* A guidance report is on a passing result, and a candidate whom          *)
(* employers find has a job-ready one, whatever was saved, scored again or *)
(* restarted since the job loaded its session.                             *)
DeliveredWasPassed ==
  /\ \A a \in guided : result[a] \in Passing
  /\ pooled => \E a \in Attempts : result[a] = "job_ready"

(* What a job is about to deliver is on record already.                    *)
Deserved(a) ==
  /\ job[a].pc \in {"backfill", "report"} => result[a] \in Passing
  /\ job[a].pc = "report" => job[a].tier = result[a]
  /\ job[a].pc = "pool" => result[a] = "job_ready"
DeliveryInv == DeliveredWasPassed /\ \A a \in Attempts : Deserved(a)

(* Only the job's own steps deliver; the others queue jobs or drop them.   *)
LEMMA OnlyJobsDeliver ==
  ASSUME TypeInv, [Next]_vars,
         \A a \in Attempts : ~ JobStep(a)
  PROVE  /\ UNCHANGED <<result, guided, pooled>>
         /\ \A a \in Attempts :
              job'[a] = job[a] \/ job'[a] \in {NoJob, Waiting, Failed}
<1> USE DEF profiles, outcome, vars, TypeInv, TypeOK
<1> DEFINE Done == /\ UNCHANGED <<result, guided, pooled>>
                   /\ \A a \in Attempts :
                        job'[a] = job[a] \/ job'[a] \in {NoJob, Waiting, Failed}
<1>1. ASSUME NEW s \in Submitters,
             SubmitStep(s) \/ \E a \in Attempts : SubmitValidate(s, a)
      PROVE  Done
  BY <1>1 DEF SubmitStep, SubmitValidate, SubmitLock, SubmitCommit,
     SubmitRollback, Enqueue, EnqueueRefused, EnqueueReplyLost, ClearLoad,
     ClearSave, Unlock, UndoFails, Enqueued, JobGoes
<1>2. ASSUME WorldNext \/ EditNext \/ \E a \in Attempts : Start(a) \/ Flag(a)
      PROVE  Done
  BY <1>2 DEF WorldNext, SessionExpires, GateOpens, Crash, Start, Flag, EditNext,
     EditLoad, EditCompare, EditWrite
<1> HIDE DEF Done
<1>3. ASSUME UNCHANGED vars PROVE Done
  BY <1>3 DEF Done
<1>4. Done
  BY <1>1, <1>2, <1>3 DEF Next
<1> QED BY <1>4 DEF Done

(* The unique index on results keeps what a job has loaded.                *)
LEMMA JobsDeliver ==
  ASSUME TypeInv, DeliveryInv, NEW a \in Attempts, JobStep(a)
  PROVE  DeliveryInv'
<1> USE DEF TypeInv, TypeOK, profiles, outcome
<1>1. ASSUME NEW j \in Job, JobGoes(a, j),
             \A b \in Attempts : result[b] # "none" => result'[b] = result[b],
             j.pc \in {"backfill", "report"} => result'[a] \in Passing,
             j.pc = "report" => j.tier = result'[a],
             j.pc = "pool" => result'[a] = "job_ready"
      PROVE  \A b \in Attempts : Deserved(b)'
  <2>1. job'[a] = j /\ \A b \in Attempts \ {a} : job'[b] = job[b]
    BY <1>1 DEF JobGoes
  <2>2. \A b \in Attempts \ {a} : Deserved(b)'
    BY <1>1, <2>1 DEF DeliveryInv, Deserved, Passing
  <2>3. Deserved(a)'
    BY <1>1, <2>1 DEF Deserved
  <2> QED BY <2>2, <2>3
<1>2. ASSUME \A b \in Attempts : result[b] # "none" => result'[b] = result[b],
             guided' \subseteq guided \cup {a},
             a \in guided' => result'[a] \in Passing,
             pooled' => pooled \/ result'[a] = "job_ready"
      PROVE  DeliveredWasPassed'
  BY <1>2 DEF DeliveryInv, DeliveredWasPassed, Passing
<1>3. /\ NoJob \in Job /\ Failed \in Job
      /\ NoJob.pc = "none" /\ Failed.pc = "failed"
      /\ [pc |-> "score"] \in Job /\ [pc |-> "backfill"] \in Job
      /\ \A t \in Tier, c \in BOOLEAN :
           [pc |-> "save", tier |-> t, clears |-> c] \in Job
      /\ \A pc \in {"report", "pool"}, t \in Passing :
           [pc |-> pc, tier |-> t] \in Job
  BY DEF Job, NoJob, Failed
<1>4. Deserved(a) /\ (a \in guided => result[a] \in Passing)
  BY DEF DeliveryInv, DeliveredWasPassed
<1>5. ASSUME JobTake(a) PROVE DeliveryInv'
  BY <1>1, <1>2, <1>3, <1>4, <1>5 DEF JobTake, JobEnds, DeliveryInv
<1>6. ASSUME JobBackfill(a) PROVE DeliveryInv'
  BY <1>1, <1>2, <1>3, <1>4, <1>6 DEF JobBackfill, JobEnds, DeliveryInv, Deserved
<1>7. ASSUME NEW tier \in Tier, JobScore(a, tier) PROVE DeliveryInv'
  <2> DEFINE j == [pc |-> "save", tier |-> tier, clears |-> a \in forced]
  <2>0. ASSUME NEW c \in BOOLEAN
        PROVE  [pc |-> "save", tier |-> tier, clears |-> c] \in Job
    BY <1>3
  <2>1. j \in Job /\ j.pc = "save"
    <3>1. (a \in forced) \in BOOLEAN
      OBVIOUS
    <3>2. j \in Job
      BY <2>0, <3>1, Zenon
    <3> QED BY <3>2
  <2>2. JobGoes(a, j) /\ UNCHANGED <<result, guided, pooled>>
    BY <1>7 DEF JobScore
  <2> HIDE DEF j
  <2>3. \A b \in Attempts : Deserved(b)'
    BY <1>1, <2>1, <2>2
  <2> QED BY <1>2, <1>4, <2>2, <2>3 DEF DeliveryInv
<1>8. ASSUME JobGivesUp(a) \/ JobRollback(a) PROVE DeliveryInv'
  BY <1>1, <1>2, <1>3, <1>4, <1>8
     DEF JobGivesUp, JobRollback, JobFails, DeliveryInv
<1>9. ASSUME JobCommit(a) PROVE DeliveryInv'
  <2>1. /\ result[a] = "none" /\ UNCHANGED <<guided, pooled>>
        /\ result'[a] = job[a].tier /\ job[a].tier \in Tier
        /\ \A b \in Attempts \ {a} : result'[b] = result[b]
    BY <1>9, JobTypes DEF JobCommit, JobWrites, ResultAllows
  <2>2. DeliveredWasPassed'
    BY <1>2, <1>4, <2>1 DEF Passing
  <2>3. CASE job[a].tier \in Passing
    <3>1. JobGoes(a, [pc |-> "report", tier |-> job[a].tier])
      BY <1>9, <2>3 DEF JobCommit, JobWrites
    <3> QED BY <1>1, <1>3, <2>1, <2>2, <2>3, <3>1 DEF DeliveryInv
  <2>4. CASE job[a].tier \notin Passing
    <3>1. JobGoes(a, NoJob)
      BY <1>9, <2>4 DEF JobCommit, JobWrites, JobEnds
    <3> QED BY <1>1, <1>3, <2>1, <2>2, <3>1 DEF DeliveryInv
  <2> QED BY <2>3, <2>4
<1>10. ASSUME JobReport(a) PROVE DeliveryInv'
  <2>1. result[a] = job[a].tier /\ result[a] \in Passing /\ result' = result
    BY <1>4, <1>10 DEF JobReport, Deserved
  <2>2. DeliveredWasPassed'
    BY <1>2, <1>10, <2>1 DEF JobReport
  <2>3. CASE job[a].tier = "job_ready"
    <3>1. JobGoes(a, [pc |-> "pool", tier |-> "job_ready"])
      BY <1>10, <2>3 DEF JobReport, JobAfterReport
    <3>2. [pc |-> "pool", tier |-> "job_ready"] \in Job
      BY <1>3 DEF Passing
    <3> QED BY <1>1, <2>1, <2>2, <2>3, <3>1, <3>2 DEF DeliveryInv
  <2>4. CASE job[a].tier # "job_ready"
    <3>1. JobGoes(a, NoJob)
      BY <1>10, <2>4 DEF JobReport, JobAfterReport, JobEnds
    <3> QED BY <1>1, <1>3, <2>1, <2>2, <3>1 DEF DeliveryInv
  <2> QED BY <2>3, <2>4
<1>11. ASSUME JobPool(a) PROVE DeliveryInv'
  BY <1>1, <1>2, <1>3, <1>4, <1>11 DEF JobPool, JobEnds, DeliveryInv, Deserved
<1> QED BY <1>5, <1>6, <1>7, <1>8, <1>9, <1>10, <1>11 DEF JobStep

(* Reports are on passing results, and employers find only candidates who  *)
(* have a job-ready one, for any faults and overlapping submits.           *)
THEOREM DeliveredWasPassedHolds == Spec => []DeliveredWasPassed
<1>1. Init => DeliveryInv
  BY DEF Init, DeliveryInv, DeliveredWasPassed, Deserved, NoJob
<1>2. TypeInv /\ DeliveryInv /\ [Next]_vars => DeliveryInv'
  <2>1. ASSUME TypeInv, DeliveryInv, [Next]_vars,
               \A a \in Attempts : ~ JobStep(a)
        PROVE  DeliveryInv'
    BY <2>1, OnlyJobsDeliver
       DEF DeliveryInv, DeliveredWasPassed, Deserved, NoJob, Waiting, Failed
  <2> QED BY <2>1, JobsDeliver
<1>3. DeliveryInv => DeliveredWasPassed
  BY DEF DeliveryInv
<1> QED BY <1>1, <1>2, <1>3, TypeInvariant, PTL DEF Spec
=============================================================================
