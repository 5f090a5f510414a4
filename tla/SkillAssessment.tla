--------------------------- MODULE SkillAssessment ---------------------------
(***************************************************************************)
(* The skill assessment of one candidate: SkillAssessmentService and the   *)
(* queue that writes its guidance reports.                                 *)
(*                                                                         *)
(* start runs in a transaction that locks the candidate's profile row;     *)
(* submit and flag do not lock it.  submit keeps the attempt it loaded     *)
(* while it scores and then saves the whole entity.  So do the requests of *)
(* talent.service.ts with the candidate's profile: resume, availability,   *)
(* settings and onboarding steps.  The bank of one track and level is      *)
(* modelled; the level probes, which are drawn when there are any, are not.*)
(***************************************************************************)
EXTENDS Integers, FiniteSets

CONSTANTS
  Attempts,    (* bound: assessment_attempts rows of the candidate         *)
  Questions,   (* the live questions of the candidate's track and level    *)
  MixSize,     (* questions of a session                                   *)
  MaxAttempts, (* SKILL_ASSESSMENT_MAX_ATTEMPTS                            *)
  Starters,    (* slots for concurrent POST start requests                 *)
  Submitters,  (* slots for concurrent POST submit requests                *)
  Editors,     (* slots for concurrent requests that save the profile      *)
  Redis,       (* is REDIS_URL set?                                        *)
  MaxJobs,     (* bound: guidance jobs on their way for one attempt        *)
  Faults       (* what may fail around the service: "crash", "ai", "queue" *)

ASSUME SetsAssumption == IsFiniteSet(Attempts) /\ IsFiniteSet(Questions)
ASSUME LimitsAssumption == /\ MixSize \in Nat \ {0}
                           /\ MaxAttempts \in Nat \ {0}
                           /\ MaxJobs \in Nat
ASSUME FaultsAssumption == /\ Redis \in BOOLEAN
                            /\ Faults \subseteq {"crash", "ai", "queue"}

VARIABLES
  profile,    (* talent_profiles: status and the two completion dates      *)
  started,    (* the attempts inserted                                     *)
  completed,  (* those with completed_at                                   *)
  forced,     (* those with force_submitted                                *)
  stale,      (* those older than SKILL_ASSESSMENT_SESSION_TIMEOUT_MS      *)
  served,     (* talent_question_history: attempt and question             *)
  result,     (* assessment_results of each attempt                        *)
  guided,     (* the attempts whose result has a guidance_report           *)
  adding,     (* calls of queue.add that have not answered                 *)
  waiting,    (* guidance jobs not processed yet                           *)
  stuck,      (* failed Redis jobs, kept under their id (removeOnFail)     *)
  dropped,    (* history: attempts of which a job is gone, only logged     *)
  start,      (* the start requests in progress                            *)
  submit,     (* the submit requests in progress                           *)
  edit,       (* the requests that load and save the profile               *)
  advanced,   (* history: has the advanced assessment ever been completed? *)
  setBack,    (* history: the skill date is null because a save put it back*)
  voided,     (* history: the attempts flag has voided                     *)
  claimed,    (* history: the greatest attempts_used a refusal reported    *)
  conflict    (* history: has a start failed on the history's constraint?  *)

attempts == <<started, completed, forced, stale>>
queue == <<adding, waiting, stuck, dropped>>
profiles == <<profile, edit, advanced, setBack>>
history == <<voided, claimed, conflict>>
vars == <<profiles, attempts, served, result, guided, queue, start, submit,
          history>>

Idle == [pc |-> "idle"]

(* A start between its statements; drops: the stale session it has marked  *)
(* abandoned, not committed yet.                                           *)
StartRequest ==
  {Idle} \cup [pc : {"find"}] \cup [pc : {"insert"}, drops : SUBSET Attempts]

(* A submit with the attempt it loaded and the outcome of its answers;     *)
(* clears: saving the entity will write force_submitted = false.           *)
SubmitRequest ==
  {Idle}
    \cup [pc : {"score"}, attempt : Attempts, passed : BOOLEAN]
    \cup [pc : {"save"}, attempt : Attempts, passed : BOOLEAN,
          clears : BOOLEAN]

(* A request that changes the profile, with the copy it loaded and then    *)
(* the columns in which the copy differs from the row.                     *)
Columns == {"status", "skillDone", "advancedDone"}

ProfileStatus == {"in_progress", "not_ready", "emerging", "job_ready"}
Profile ==
  [status : ProfileStatus, skillDone : BOOLEAN, advancedDone : BOOLEAN]

EditRequest ==
  {Idle}
    \cup [pc : {"save"}, copy : Profile]
    \cup [pc : {"write"}, copy : Profile, columns : SUBSET Columns]

TypeOK ==
  /\ profile \in Profile
  /\ started \subseteq Attempts
  /\ completed \subseteq started
  /\ forced \subseteq completed
  /\ stale \subseteq started
  /\ served \subseteq started \X Questions
  /\ result \in [Attempts -> {"none", "passed", "failed"}]
  /\ guided \subseteq Attempts
  /\ adding \in [Attempts -> Nat]
  /\ waiting \in [Attempts -> Nat]
  /\ stuck \subseteq Attempts
  /\ dropped \subseteq Attempts
  /\ start \in [Starters -> StartRequest]
  /\ submit \in [Submitters -> SubmitRequest]
  /\ edit \in [Editors -> EditRequest]
  /\ advanced \in BOOLEAN
  /\ setBack \in BOOLEAN
  /\ voided \subseteq Attempts
  /\ claimed \in Nat
  /\ conflict \in BOOLEAN

Init ==
  /\ profile = [status |-> "in_progress", skillDone |-> FALSE,
                advancedDone |-> FALSE]
  /\ started = {}
  /\ completed = {}
  /\ forced = {}
  /\ stale = {}
  /\ served = {}
  /\ result = [a \in Attempts |-> "none"]
  /\ guided = {}
  /\ adding = [a \in Attempts |-> 0]
  /\ waiting = [a \in Attempts |-> 0]
  /\ stuck = {}
  /\ dropped = {}
  /\ start = [s \in Starters |-> Idle]
  /\ submit = [s \in Submitters |-> Idle]
  /\ edit = [w \in Editors |-> Idle]
  /\ advanced = FALSE
  /\ setBack = FALSE
  /\ voided = {}
  /\ claimed = 0
  /\ conflict = FALSE

(***************************************************************************)
(* Helpers.                                                                *)
(***************************************************************************)

(* WHERE completed_at IS NULL AND force_submitted = false                  *)
Open == {a \in started : a \notin completed /\ a \notin forced}

(* No start holds the row lock of the profile                              *)
LockIgnored == TRUE
LockFree == \A s \in Starters : start[s].pc = "idle"

(* A start's uncommitted update holds the row lock of the session it drops *)
RowFree(a) ==
  \A s \in Starters : start[s].pc = "insert" => a \notin start[s].drops

Seen == {q \in Questions : \E a \in Attempts : <<a, q>> \in served}

(* The questions a session is drawn from: the unseen ones, or all of them  *)
(* when too few are left.                                                  *)
Bank == LET fresh == Questions \ Seen
        IN IF Cardinality(fresh) >= MixSize THEN fresh ELSE Questions

(* UNIQUE (talent_profile_id, question_id) of the history                  *)
HistoryAllowsAll(mix) == TRUE
HistoryAllows(mix) == mix \cap Seen = {}

(* UNIQUE (attempt_id) of the results                                      *)
ResultAllowsAll(a) == TRUE
ResultAllows(a) == result[a] = "none"

(* Are n completed attempts all there are?                                 *)
UsedUpOffByOne(n) == n > MaxAttempts
UsedUp(n) == n >= MaxAttempts

ClaimUsed(n) == claimed' = IF n > claimed THEN n ELSE claimed

(***************************************************************************)
(* POST skill-assessment/start                                             *)
(***************************************************************************)

(* Lock the profile; refuse when the attempts are used up, which no longer *)
(* matters once the advanced assessment is done.                           *)
StartLock(s) ==
  /\ start[s] = Idle
  /\ LockFree
  /\ LET used == Cardinality(completed) IN
       CASE profile.advancedDone ->
              /\ start' = [start EXCEPT ![s] = [pc |-> "insert", drops |-> {}]]
              /\ UNCHANGED claimed
         [] ~ profile.advancedDone /\ UsedUp(used) ->
              ClaimUsed(used) /\ UNCHANGED start
         [] OTHER ->
              /\ start' = [start EXCEPT ![s] = [pc |-> "find"]]
              /\ UNCHANGED claimed
  /\ UNCHANGED <<profiles, attempts, served, result, guided, queue, submit,
                 voided, conflict>>

(* No open session: go on.  One that has not timed out: refuse.  A stale   *)
(* one is marked abandoned and counted; if that makes the limit, the       *)
(* exception rolls the mark back.                                          *)
StartFind(s) ==
  /\ start[s].pc = "find"
  /\ \/ /\ Open = {}
        /\ start' = [start EXCEPT ![s] = [pc |-> "insert", drops |-> {}]]
        /\ UNCHANGED claimed
     \/ /\ Open \ stale # {}
        /\ start' = [start EXCEPT ![s] = Idle]
        /\ UNCHANGED claimed
     \/ \E a \in Open \cap stale :
          LET used == Cardinality(completed \cup {a}) IN
          IF UsedUp(used)
            THEN /\ start' = [start EXCEPT ![s] = Idle]
                 /\ ClaimUsed(used)
            ELSE /\ start' = [start EXCEPT ![s] =
                                [pc |-> "insert", drops |-> {a}]]
                 /\ UNCHANGED claimed
  /\ UNCHANGED <<profiles, attempts, served, result, guided, queue, submit,
                 voided, conflict>>

(* Draw the questions, insert the attempt and its history, COMMIT; a       *)
(* question already in the history rolls everything back.                  *)
StartInsert(s) ==
  /\ start[s].pc = "insert"
  /\ start' = [start EXCEPT ![s] = Idle]
  /\ \E a \in Attempts \ started, mix \in SUBSET Bank :
       /\ Cardinality(mix) = MixSize
       /\ IF HistoryAllows(mix)
            THEN /\ started' = started \cup {a}
                 /\ completed' = completed \cup start[s].drops
                 /\ forced' = forced \cup start[s].drops
                 /\ served' = served \cup ({a} \X mix)
                 /\ UNCHANGED conflict
            ELSE /\ conflict' = TRUE
                 /\ UNCHANGED <<started, completed, forced, served>>
  /\ UNCHANGED <<profiles, stale, result, guided, queue, submit, voided,
                 claimed>>

(* The bank is exhausted, or the database aborts the transaction           *)
(* (a deadlock with a submit's row locks, a lost connection).              *)
StartRollback(s) ==
  /\ start[s].pc \in {"find", "insert"}
  /\ start' = [start EXCEPT ![s] = Idle]
  /\ UNCHANGED <<profiles, attempts, served, result, guided, queue, submit,
                 history>>

(***************************************************************************)
(* POST skill-assessment/submit                                            *)
(***************************************************************************)

(* Load the attempt: only completed_at is looked at.                       *)
SubmitLoad(s, a, passed) ==
  /\ submit[s] = Idle
  /\ a \in started
  /\ a \notin completed
  /\ submit' = [submit EXCEPT ![s] =
       [pc |-> "score", attempt |-> a, passed |-> passed]]
  /\ UNCHANGED <<profiles, attempts, served, result, guided, queue, start,
                 history>>

(* Score the answers, call enqueue for a failure's guidance report without *)
(* awaiting it (with no Redis the job is taken at once), BEGIN, and read   *)
(* the row again for the save: the loaded entity was not forced.           *)
SubmitScore(s) ==
  /\ submit[s].pc = "score"
  /\ LET a == submit[s].attempt IN
       /\ submit[s].passed \/ adding[a] + waiting[a] < MaxJobs
       /\ adding' = IF submit[s].passed \/ ~ Redis THEN adding
                      ELSE [adding EXCEPT ![a] = @ + 1]
       /\ waiting' = IF submit[s].passed \/ Redis THEN waiting
                       ELSE [waiting EXCEPT ![a] = @ + 1]
       /\ submit' = [submit EXCEPT ![s] =
            [pc |-> "save", attempt |-> a, passed |-> @.passed,
             clears |-> a \in forced]]
  /\ UNCHANGED <<profiles, attempts, served, result, guided, stuck, dropped,
                 start, history>>

ProfileAfter(passed) ==
  IF passed THEN [profile EXCEPT !.status = "in_progress", !.skillDone = TRUE]
            ELSE [profile EXCEPT !.status = "not_ready"]

(* The writes of the transaction up to COMMIT.  The last one waits for the *)
(* profile's lock.                                                         *)
SubmitSave(s) ==
  /\ submit[s].pc = "save"
  /\ LockFree
  /\ LET a == submit[s].attempt
         passed == submit[s].passed
     IN /\ ResultAllows(a)
        /\ completed' = completed \cup {a}
        /\ forced' = IF submit[s].clears THEN forced \ {a} ELSE forced
        /\ result' = [result EXCEPT ![a] =
                        IF passed THEN "passed" ELSE "failed"]
        /\ profile' = ProfileAfter(passed)
        /\ setBack' = (setBack /\ ~ passed)
  /\ submit' = [submit EXCEPT ![s] = Idle]
  /\ UNCHANGED <<started, stale, served, guided, queue, start, edit, advanced,
                 history>>

(* ROLLBACK: always when the attempt has a result, and on any error.       *)
SubmitRollbackKeepsProfile(s) ==
  /\ submit[s].pc = "save"
  /\ submit' = [submit EXCEPT ![s] = Idle]
  /\ profile' = ProfileAfter(submit[s].passed)
  /\ UNCHANGED <<edit, advanced, setBack, attempts, served, result, guided, queue, start, history>>

SubmitRollback(s) ==
  /\ submit[s].pc = "save"
  /\ submit' = [submit EXCEPT ![s] = Idle]
  /\ UNCHANGED <<profiles, attempts, served, result, guided, queue, start,
                 history>>

(***************************************************************************)
(* POST skill-assessment/:id/flag: an integrity event voids the session.   *)
(***************************************************************************)
FlagOnlyForces(a) ==
  /\ a \in Open
  /\ RowFree(a)
  /\ forced' = forced \cup {a}
  /\ voided' = voided \cup {a}
  /\ UNCHANGED <<profiles, started, completed, stale, served, result, guided,
                 queue, start, submit, claimed, conflict>>

Flag(a) ==
  /\ a \in Open
  /\ RowFree(a)
  /\ completed' = completed \cup {a}
  /\ forced' = forced \cup {a}
  /\ voided' = voided \cup {a}
  /\ UNCHANGED <<profiles, started, stale, served, result, guided, queue, start,
                 submit, claimed, conflict>>

(***************************************************************************)
(* saveGoalStep, saveTrackStep, updateResume, deleteResume,                *)
(* updateAvailability and the like: load the profile without locking it,   *)
(* change a column of their own, save the entity.                          *)
(***************************************************************************)
EditLoad(w) ==
  /\ edit[w] = Idle
  /\ edit' = [edit EXCEPT ![w] = [pc |-> "save", copy |-> profile]]
  /\ UNCHANGED <<profile, advanced, setBack, attempts, served, result, guided,
                 queue, start, submit, history>>

(* save compares the entity with the row as it is now ...                  *)
EditCompare(w) ==
  /\ edit[w].pc = "save"
  /\ edit' = [edit EXCEPT ![w] =
       [pc |-> "write", copy |-> @.copy,
        columns |-> {c \in Columns : @.copy[c] # profile[c]}]]
  /\ UNCHANGED <<profile, advanced, setBack, attempts, served, result, guided,
                 queue, start, submit, history>>

(* ... and writes the columns that differed, with the values it loaded.    *)
(* The update waits for the profile's lock.                                *)
EditWrite(w) ==
  /\ edit[w].pc = "write"
  /\ LockFree
  /\ profile' = [c \in Columns |-> IF c \in edit[w].columns THEN edit[w].copy[c]
                                                            ELSE profile[c]]
  /\ setBack' = ((setBack \/ profile.skillDone) /\ ~ profile'.skillDone)
  /\ edit' = [edit EXCEPT ![w] = Idle]
  /\ UNCHANGED <<advanced, attempts, served, result, guided, queue, start,
                 submit, history>>

(***************************************************************************)
(* SkillGuidanceReportQueueService.enqueue, with Redis.                    *)
(***************************************************************************)
AddAnswers(a) == adding[a] > 0 /\ adding' = [adding EXCEPT ![a] = @ - 1]

(* queue.add ignores a job id that exists, a failed one included.          *)
QueueAdds(a) ==
  /\ AddAnswers(a)
  /\ waiting' = IF waiting[a] > 0 \/ a \in stuck THEN waiting
                  ELSE [waiting EXCEPT ![a] = @ + 1]
  /\ UNCHANGED <<profiles, attempts, served, result, guided, stuck, dropped,
                 start, submit, history>>

(* Its failure is caught and logged: nothing knows of the job any more.    *)
QueueRefuses(a) ==
  /\ "queue" \in Faults
  /\ AddAnswers(a)
  /\ dropped' = dropped \cup {a}
  /\ UNCHANGED <<profiles, attempts, served, result, guided, waiting, stuck,
                 start, submit, history>>

(***************************************************************************)
(* SkillGuidanceReportProcessor                                            *)
(***************************************************************************)
JobTaken(a) == waiting' = [waiting EXCEPT ![a] = @ - 1]

(* A failed job is kept by Redis; the failure of an inline one is logged.  *)
JobFailsUnseen(a) == UNCHANGED <<stuck, dropped>>
JobFails(a) ==
  IF Redis THEN stuck' = stuck \cup {a} /\ UNCHANGED dropped
           ELSE dropped' = dropped \cup {a} /\ UNCHANGED stuck

(* The report is written on the attempt's result, whatever the result is;  *)
(* with none the job fails, and a failed job is not tried again.           *)
GuidanceRun(a) ==
  /\ waiting[a] > 0
  /\ JobTaken(a)
  /\ IF result[a] # "none"
       THEN guided' = guided \cup {a} /\ UNCHANGED <<stuck, dropped>>
       ELSE JobFails(a) /\ UNCHANGED guided
  /\ UNCHANGED <<profiles, attempts, served, result, adding, start, submit,
                 history>>

GuidanceFails(a) ==
  /\ "ai" \in Faults
  /\ waiting[a] > 0
  /\ JobTaken(a)
  /\ JobFails(a)
  /\ UNCHANGED <<profiles, attempts, served, result, guided, adding, start,
                 submit, history>>

(***************************************************************************)
(* The world around: two hours pass, the advanced assessment is scored (it *)
(* writes the same profile row), and the process crashes.                  *)
(***************************************************************************)
SessionTimesOut(a) ==
  /\ a \in Open \ stale
  /\ stale' = stale \cup {a}
  /\ UNCHANGED <<profiles, started, completed, forced, served, result, guided,
                 queue, start, submit, history>>

(* The advanced assessment was begun after a pass of this one.             *)
AdvancedCompletes(tier) ==
  /\ \E a \in Attempts : result[a] = "passed"
  /\ LockFree
  /\ profile' = [profile EXCEPT !.advancedDone = TRUE, !.status = tier]
  /\ advanced' = TRUE
  /\ UNCHANGED <<edit, setBack, attempts, served, result, guided, queue, start,
                 submit, history>>

(* Requests, calls of queue.add and inline jobs are gone.                  *)
Crash ==
  /\ "crash" \in Faults
  /\ start' = [s \in Starters |-> Idle]
  /\ submit' = [s \in Submitters |-> Idle]
  /\ edit' = [w \in Editors |-> Idle]
  /\ adding' = [a \in Attempts |-> 0]
  /\ waiting' = IF Redis THEN waiting ELSE [a \in Attempts |-> 0]
  /\ dropped' = dropped
       \cup {a \in Attempts : adding[a] > 0 \/ (~ Redis /\ waiting[a] > 0)}
  /\ UNCHANGED <<profile, advanced, setBack, attempts, served, result, guided,
                 stuck, history>>

StartNext ==
  \E s \in Starters :
    StartLock(s) \/ StartFind(s) \/ StartInsert(s) \/ StartRollback(s)

SubmitStep(s) == SubmitScore(s) \/ SubmitSave(s) \/ SubmitRollback(s)

SubmitNext ==
  \E s \in Submitters :
    \/ \E a \in Attempts, passed \in BOOLEAN : SubmitLoad(s, a, passed)
    \/ SubmitStep(s)

EditNext == \E w \in Editors : EditLoad(w) \/ EditCompare(w) \/ EditWrite(w)

AddEnds(a) == QueueAdds(a) \/ QueueRefuses(a)

GuidanceNext ==
  \E a \in Attempts : AddEnds(a) \/ GuidanceRun(a) \/ GuidanceFails(a)

WorldNext ==
  \/ \E a \in Attempts : Flag(a) \/ SessionTimesOut(a)
  \/ \E tier \in {"emerging", "job_ready"} : AdvancedCompletes(tier)
  \/ Crash

Next == StartNext \/ SubmitNext \/ EditNext \/ GuidanceNext \/ WorldNext

Spec == Init /\ [][Next]_vars

(* A call of queue.add answers, and the worker takes the jobs it has and   *)
(* goes on after a restart.                                                *)
FairSpec ==
  Spec /\ \A a \in Attempts : WF_vars(AddEnds(a)) /\ WF_vars(GuidanceRun(a))

(***************************************************************************)
(* Properties.                                                             *)
(***************************************************************************)

(* Until the advanced assessment is done a candidate has one open session  *)
(* at most, however many starts race: the profile lock covers the search   *)
(* for an open session and the insert.                                     *)
OneOpenSession == advanced \/ Cardinality(Open) <= 1

(* The attempt limit may be overrun, but by one at most.                   *)
AttemptsBounded ==
  advanced \/ Cardinality(started) <= MaxAttempts + 1

(* Two submits of one session with different answers: the first to commit  *)
(* is the result for good.                                                 *)
ScoredOnce ==
  [][\A a \in Attempts : result[a] # "none" => result'[a] = result[a]]_vars

(* skill_assessment_completed_at is set exactly when some attempt passed,  *)
(* whichever submits fail, race or are lost in a crash; only the save of a *)
(* profile loaded before the pass puts it back, and the next pass sets it. *)
ResultsReachProfile ==
  profile.skillDone <=> ~ setBack /\ \E a \in Attempts : result[a] = "passed"

(* "prevent talent from seeing same question twice (across all attempts)": *)
(* also when the draw falls back to the whole bank.                        *)
NoQuestionTwice ==
  \A a, b \in Attempts, q \in Questions :
    <<a, q>> \in served /\ <<b, q>> \in served => a = b

(* "Returns a guidance report when the pass gate was not met": a failed    *)
(* attempt gets its report, or its job is among the failed jobs that the   *)
(* queue keeps, where an operator can see it, even when the job runs       *)
(* before the result it updates is committed.  The others are those whose  *)
(* job was refused or died with the process, of which a log line is left.  *)
FailureGuidedOrStuck ==
  \A a \in Attempts :
    result[a] = "failed" ~> (a \in guided \/ a \in stuck \/ a \in dropped)

(***************************************************************************)
(* Claims of messages, comments, tests and documentation that the code     *)
(* does not keep; see README.                                              *)
(***************************************************************************)

(* 'Skill assessment session has been voided due to integrity violations.' *)
VoidedStaysVoid == \A a \in voided : a \in forced /\ result[a] = "none"

(* "Maximum completed skill assessment attempts before advanced assessment *)
(* is done": no more than that many sessions are ever begun.               *)
ThreeAttempts == advanced \/ Cardinality(started) <= MaxAttempts

(* A refusal for used attempts reports attempts that are used.  The stale  *)
(* session is marked abandoned "so it counts toward max attempts".         *)
MaxReachedIsTrue == claimed <= Cardinality(completed)

(* When the unseen questions run out start draws from the whole bank, and  *)
(* so serves a session.                                                    *)
RetryServes == ~ conflict

(* A candidate who has passed the assessment stays one who has.            *)
PassedStaysDone == [][profile.skillDone => profile'.skillDone]_vars

(* A failed attempt has a report, or a job that is to write it.            *)
FailuresKeepAJob ==
  \A a \in Attempts :
    result[a] = "failed" => a \in guided \cup stuck \/ adding[a] + waiting[a] > 0

(* "Returns a guidance report when the pass gate was not met": not when it *)
(* was.                                                                    *)
GuidanceOnlyForFailures == \A a \in guided : result[a] = "failed"

=============================================================================
