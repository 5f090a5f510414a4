------------------------- MODULE AdvancedAssessment -------------------------
(***************************************************************************)
(* The advanced assessment of one candidate: AdvancedAssessmentService,    *)
(* its submit queue and the employer pool row its worker writes.           *)
(*                                                                         *)
(* submit only marks the attempt as enqueued, locks the retake gate and    *)
(* hands the answers to a queue; a job scores them.  When the queue        *)
(* refuses the job, submit takes its mark and the lock back.  The requests *)
(* of talent.service.ts save the whole profile they have loaded, the gate  *)
(* included.                                                               *)
(*                                                                         *)
(* The candidate has passed the skill assessment and stays qualified.  A   *)
(* start that draws too few questions, or one of the history, is refused   *)
(* and writes nothing.                                                     *)
(***************************************************************************)
EXTENDS Naturals, FiniteSets

CONSTANTS
  Attempts,    (* bound: advanced assessment_attempts of the candidate     *)
  Submitters,  (* slots for concurrent POST advanced/submit requests       *)
  Editors,     (* slots for concurrent requests that save the profile      *)
  Redis,       (* is REDIS_URL set?                                        *)
  Faults       (* what may fail around the service:                        *)
               (*   "crash" the process                                    *)
               (*   "ai"    scoring or the guidance report                 *)
               (*   "db"    a transaction or statement of the job          *)
               (*   "queue" the queue refuses a job                        *)
               (*   "reply" the queue takes a job but submit gets an error *)
               (*   "undo"  a statement of submit's failure path           *)

ASSUME AttemptsAssumption == IsFiniteSet(Attempts)
ASSUME FaultsAssumption ==
  /\ Redis \in BOOLEAN
  /\ Faults \subseteq {"crash", "ai", "db", "queue", "reply", "undo"}

VARIABLES
  profile,    (* talent_profiles: status, advanced_assessment_completed_at *)
  locked,     (* is assessment_locked_until in the future?                 *)
  started,    (* the attempts inserted                                     *)
  completed,  (* those with completed_at                                   *)
  forced,     (* those with force_submitted                                *)
  expired,    (* those whose expires_at has passed                         *)
  enqueued,   (* those with submit_enqueued_at in their session            *)
  result,     (* assessment_results of each attempt, as a tier             *)
  guided,     (* the attempts whose result has a guidance_report           *)
  pooled,     (* has the candidate an employer_pool_profile?               *)
  job,        (* the submit job of each attempt                            *)
  submit,     (* the submit requests in progress                           *)
  edit,       (* the requests that load and save the profile               *)
  setBack,    (* history: the date is null because a save put it back      *)
  unguarded,  (* history: the sessions of which a submit was under way when*)
              (* another request opened the gate                           *)
  struck      (* history: has something been "lost" (crash, reply, undo)   *)
              (* or "failed" (ai, db)?                                     *)

attempts == <<started, completed, forced, expired, enqueued, unguarded>>
profiles == <<profile, edit, setBack>>
outcome == <<profiles, result, guided, pooled>>
vars == <<profiles, locked, attempts, result, guided, pooled, job,
          submit, struck>>

Passing == {"emerging", "job_ready"}
Tier == {"not_ready"} \cup Passing

(* A queue entry of a session id, or the job at work on it.  clears: saving *)
(* the loaded entity will write force_submitted = false.                    *)
NoJob == [pc |-> "none"]
Waiting == [pc |-> "waiting"]
Failed == [pc |-> "failed"]
Job == {NoJob, Waiting, Failed}
         \cup [pc : {"backfill", "score"}]
         \cup [pc : {"save"}, tier : Tier, clears : BOOLEAN]
         \cup [pc : {"report", "pool"}, tier : Passing]

(* A submit request; done and void are the columns the failure path loaded. *)
Idle == [pc |-> "idle"]
SubmitRequest ==
  {Idle}
    \cup [pc : {"lock", "commit", "enqueue", "clear", "unlock"},
          attempt : Attempts]
    \cup [pc : {"restore"}, attempt : Attempts, done : BOOLEAN,
          void : BOOLEAN]

ProfileStatus == {"in_progress", "not_ready", "emerging", "job_ready"}
Profile == [status : ProfileStatus, advancedDone : BOOLEAN]

(* A request that changes the profile: the copy it loaded, and then those  *)
(* of its columns in which it differs from the row.                        *)
Columns == {"status", "advancedDone", "locked"}
Copy == [status : ProfileStatus, advancedDone : BOOLEAN, locked : BOOLEAN]
EditRequest ==
  {Idle}
    \cup [pc : {"save"}, copy : Copy]
    \cup [pc : {"write"}, copy : Copy, columns : SUBSET Columns]

TypeOK ==
  /\ profile \in Profile
  /\ locked \in BOOLEAN
  /\ started \subseteq Attempts
  /\ completed \subseteq started
  /\ forced \subseteq completed
  /\ expired \subseteq started
  /\ enqueued \subseteq started
  /\ result \in [Attempts -> Tier \cup {"none"}]
  /\ guided \subseteq Attempts
  /\ pooled \in BOOLEAN
  /\ job \in [Attempts -> Job]
  /\ submit \in [Submitters -> SubmitRequest]
  /\ edit \in [Editors -> EditRequest]
  /\ setBack \in BOOLEAN
  /\ unguarded \subseteq started
  /\ struck \subseteq {"lost", "failed"}

Init ==
  /\ profile = [status |-> "in_progress", advancedDone |-> FALSE]
  /\ locked = FALSE
  /\ started = {}
  /\ completed = {}
  /\ forced = {}
  /\ expired = {}
  /\ enqueued = {}
  /\ result = [a \in Attempts |-> "none"]
  /\ guided = {}
  /\ pooled = FALSE
  /\ job = [a \in Attempts |-> NoJob]
  /\ submit = [s \in Submitters |-> Idle]
  /\ edit = [w \in Editors |-> Idle]
  /\ setBack = FALSE
  /\ unguarded = {}
  /\ struck = {}

(***************************************************************************)
(* Helpers.                                                                *)
(***************************************************************************)
Open == {a \in started : a \notin completed /\ a \notin forced}

(* isAdvancedSubmitInFlight, findInFlightAdvancedSubmit                    *)
InFlight == Open \cap enqueued

(* The sessions still to be answered                                       *)
Active == Open \ expired

(* The retake gate, the submission in flight and the active session        *)
MayStartBesideActive == ~ locked /\ InFlight = {}
MayStart == ~ locked /\ InFlight = {} /\ Active = {}

(* No submit holds the row lock of the attempt in its transaction          *)
RowFree(a) ==
  \A s \in Submitters :
    submit[s].pc = "commit" => submit[s].attempt # a

Working(a) == job[a].pc \in {"backfill", "score", "save", "report", "pool"}

(* UNIQUE (attempt_id) of the results                                      *)
ResultAllowsAll(a) == TRUE
ResultAllows(a) == result[a] = "none"

SubmitGoes(s, r) == submit' = [submit EXCEPT ![s] = r]
SubmitAt(s, pc) == SubmitGoes(s, [pc |-> pc, attempt |-> submit[s].attempt])
JobGoes(a, j) == job' = [job EXCEPT ![a] = j]

(* removeOnComplete; a failed job is kept under its id, an inline one lost *)
JobEnds(a) == JobGoes(a, NoJob)
JobFails(a) == JobGoes(a, IF Redis THEN Failed ELSE NoJob)

(* Some request opens the gate that submits in these slots have locked and *)
(* may yet need: each can still bring its session back.                    *)
Undoing == {"enqueue", "clear", "restore"}
OpensUnder(slots) ==
  unguarded' = unguarded \cup
    {submit[t].attempt : t \in {u \in slots : submit[u].pc \in Undoing}}

Strike(f) ==
  /\ f \in Faults
  /\ struck' = struck \cup {IF f \in {"crash", "reply", "undo"} THEN "lost"
                                                       ELSE "failed"}

(***************************************************************************)
(* POST advanced/start.  The profile is locked from the first statement to *)
(* COMMIT, so that starts and the writers of the gate wait, and it is one  *)
(* step.  Its refusals write nothing.                                      *)
(***************************************************************************)
Start(a) ==
  /\ a \notin started
  /\ MayStart
  /\ started' = started \cup {a}
  /\ UNCHANGED <<outcome, locked, completed, forced, expired, enqueued,
                 unguarded, job, submit, struck>>

(***************************************************************************)
(* POST advanced/submit                                                    *)
(***************************************************************************)

(* validateSubmitForEnqueue, without a lock: the only place where the gate *)
(* and the expiry are looked at.                                           *)
SubmitValidate(s, a) ==
  /\ submit[s] = Idle
  /\ ~ locked
  /\ a \in Active \ enqueued
  /\ SubmitGoes(s, [pc |-> "lock", attempt |-> a])
  /\ UNCHANGED <<outcome, locked, attempts, job, struck>>

(* The transaction locks the attempt and checks it again.                  *)
SubmitLock(s) ==
  /\ submit[s].pc = "lock"
  /\ LET a == submit[s].attempt IN
       /\ RowFree(a)
       /\ IF a \in Open /\ InFlight = {} THEN SubmitAt(s, "commit")
                                         ELSE SubmitGoes(s, Idle)
  /\ UNCHANGED <<outcome, locked, attempts, job, struck>>

(* Its writes, up to COMMIT: the mark and the retake gate.                 *)
SubmitCommit(s) ==
  /\ submit[s].pc = "commit"
  /\ enqueued' = enqueued \cup {submit[s].attempt}
  /\ locked' = TRUE
  /\ SubmitAt(s, "enqueue")
  /\ UNCHANGED <<outcome, started, completed, forced, expired, unguarded,
                 job, struck>>

(* ROLLBACK, on a database error.                                          *)
SubmitRollback(s) ==
  /\ Strike("db")
  /\ submit[s].pc = "commit"
  /\ SubmitGoes(s, Idle)
  /\ UNCHANGED <<outcome, locked, attempts, job>>

(* A failed job of the session is replaced; any other is left alone.       *)
Enqueued(a) ==
  IF job[a] \in {NoJob, Failed} THEN JobGoes(a, Waiting) ELSE UNCHANGED job

Enqueue(s) ==
  /\ submit[s].pc = "enqueue"
  /\ Enqueued(submit[s].attempt)
  /\ SubmitGoes(s, Idle)
  /\ UNCHANGED <<outcome, locked, attempts, struck>>

(* The queue cannot be reached, perhaps after the failed job was removed.  *)
EnqueueRefused(s) ==
  /\ Redis /\ "queue" \in Faults
  /\ submit[s].pc = "enqueue"
  /\ LET a == submit[s].attempt IN
       \/ UNCHANGED job
       \/ job[a] = Failed /\ JobGoes(a, NoJob)
  /\ SubmitAt(s, "clear")
  /\ UNCHANGED <<outcome, locked, attempts, struck>>

(* The job is added, but the connection is lost before the reply.          *)
EnqueueReplyLost(s) ==
  /\ Redis /\ Strike("reply")
  /\ submit[s].pc = "enqueue"
  /\ Enqueued(submit[s].attempt)
  /\ SubmitAt(s, "clear")
  /\ UNCHANGED <<outcome, locked, attempts>>

(* clearSubmitEnqueuedAt loads the attempt ...                             *)
ClearLoad(s) ==
  /\ submit[s].pc = "clear"
  /\ LET a == submit[s].attempt IN
       SubmitGoes(s, [pc |-> "restore", attempt |-> a,
                      done |-> a \in completed, void |-> a \in forced])
  /\ UNCHANGED <<outcome, locked, attempts, job, struck>>

(* ... and saves it whole, without the mark: completed_at and              *)
(* force_submitted go back to what was loaded.                             *)
Restored(rows, a, is) == IF is THEN rows \cup {a} ELSE rows \ {a}

ClearSaveKeepsMark(s) ==
  /\ submit[s].pc = "restore"
  /\ SubmitAt(s, "unlock")
  /\ UNCHANGED <<outcome, locked, attempts, job, struck>>

ClearSave(s) ==
  /\ submit[s].pc = "restore"
  /\ LET a == submit[s].attempt IN
       /\ RowFree(a)
       /\ completed' = Restored(completed, a, submit[s].done)
       /\ forced' = Restored(forced, a, submit[s].void)
       /\ enqueued' = enqueued \ {a}
  /\ SubmitAt(s, "unlock")
  /\ UNCHANGED <<outcome, locked, started, expired, unguarded, job, struck>>

(* The gate is taken back, whoever has locked it.                          *)
Unlock(s) ==
  /\ submit[s].pc = "unlock"
  /\ locked' = FALSE
  /\ OpensUnder(Submitters \ {s})
  /\ SubmitGoes(s, Idle)
  /\ UNCHANGED <<outcome, started, completed, forced, expired, enqueued, job,
                 struck>>

(* The failure path fails itself and is abandoned where it is.             *)
UndoFails(s) ==
  /\ Strike("undo")
  /\ submit[s].pc \in {"clear", "restore", "unlock"}
  /\ SubmitGoes(s, Idle)
  /\ UNCHANGED <<outcome, locked, attempts, job>>

(***************************************************************************)
(* POST advanced/:id/flag: an integrity event voids the session, enqueued  *)
(* or not, and locks the gate.                                             *)
(***************************************************************************)
FlagOnlyForces(a) ==
  /\ a \in Active
  /\ RowFree(a)
  /\ forced' = forced \cup {a}
  /\ locked' = TRUE
  /\ UNCHANGED <<outcome, started, completed, expired, enqueued, unguarded,
                 job, submit, struck>>

Flag(a) ==
  /\ a \in Active
  /\ RowFree(a)
  /\ completed' = completed \cup {a}
  /\ forced' = forced \cup {a}
  /\ locked' = TRUE
  /\ UNCHANGED <<outcome, started, expired, enqueued, unguarded, job, submit,
                 struck>>

(***************************************************************************)
(* saveGoalStep, saveTrackStep, updateResume, deleteResume,                *)
(* updateAvailability and the like: load the profile without locking it,   *)
(* change a column of their own, save the entity.                          *)
(***************************************************************************)
Row == [status |-> profile.status, advancedDone |-> profile.advancedDone,
        locked |-> locked]

EditLoad(w) ==
  /\ edit[w] = Idle
  /\ edit' = [edit EXCEPT ![w] = [pc |-> "save", copy |-> Row]]
  /\ UNCHANGED <<profile, setBack, result, guided, pooled, locked, attempts,
                 job, submit, struck>>

(* save compares the entity with the row as it is now ...                  *)
EditCompare(w) ==
  /\ edit[w].pc = "save"
  /\ edit' = [edit EXCEPT ![w] =
       [pc |-> "write", copy |-> @.copy,
        columns |-> {c \in Columns : @.copy[c] # Row[c]}]]
  /\ UNCHANGED <<profile, setBack, result, guided, pooled, locked, attempts,
                 job, submit, struck>>

(* ... and writes the columns that differed, with the values it loaded.    *)
Saved(w, c) == IF c \in edit[w].columns THEN edit[w].copy[c] ELSE Row[c]

EditWrite(w) ==
  /\ edit[w].pc = "write"
  /\ profile' = [status |-> Saved(w, "status"),
                 advancedDone |-> Saved(w, "advancedDone")]
  /\ locked' = Saved(w, "locked")
  /\ setBack' = ((setBack \/ profile.advancedDone)
                   /\ ~ Saved(w, "advancedDone"))
  /\ edit' = [edit EXCEPT ![w] = Idle]
  /\ IF Saved(w, "locked") THEN UNCHANGED unguarded
                           ELSE OpensUnder(Submitters)
  /\ UNCHANGED <<result, guided, pooled, started, completed, forced, expired,
                 enqueued, job, submit, struck>>

(***************************************************************************)
(* The submit job: processSubmitJob                                        *)
(***************************************************************************)

(* Load the attempt.  Completed: only a missing report is made up for.     *)
(* Voided: nothing is done.                                                *)
JobTake(a) ==
  /\ job[a] = Waiting
  /\ Redis => \A b \in Attempts : ~ Working(b)
  /\ CASE a \notin completed /\ a \notin forced ->
            JobGoes(a, [pc |-> "score"])
       [] a \in completed /\ result[a] \in Passing /\ a \notin guided ->
            JobGoes(a, [pc |-> "backfill"])
       [] OTHER -> JobEnds(a)
  /\ UNCHANGED <<outcome, locked, attempts, submit, struck>>

JobBackfill(a) ==
  /\ job[a].pc = "backfill"
  /\ guided' = guided \cup {a}
  /\ JobEnds(a)
  /\ UNCHANGED <<profiles, locked, attempts, result, pooled, submit, struck>>

(* An answer is scored; BEGIN, and the save reads the row again.           *)
JobScore(a, tier) ==
  /\ job[a].pc = "score"
  /\ JobGoes(a, [pc |-> "save", tier |-> tier, clears |-> a \in forced])
  /\ UNCHANGED <<outcome, locked, attempts, submit, struck>>

(* Some answer could not be scored, or the report not be made up for: the  *)
(* job throws.  No attempts are configured, so it is not tried again.      *)
JobGivesUp(a) ==
  /\ Strike("ai")
  /\ job[a].pc \in {"score", "backfill"}
  /\ JobFails(a)
  /\ UNCHANGED <<outcome, locked, attempts, submit>>

ProfileAfter(tier) ==
  IF tier \in Passing THEN [status |-> tier, advancedDone |-> TRUE]
                      ELSE profile

(* The writes of the transaction: the loaded attempt with completed_at,    *)
(* the result, and for a passing one the profile and the gate.             *)
JobWrites(a) ==
  LET tier == job[a].tier IN
  /\ job[a].pc = "save"
  /\ ResultAllows(a)
  /\ forced' = IF job[a].clears THEN forced \ {a} ELSE forced
  /\ result' = [result EXCEPT ![a] = tier]
  /\ profile' = ProfileAfter(tier)
  /\ setBack' = (setBack /\ tier \notin Passing)
  /\ locked' = (locked \/ tier \in Passing)
  /\ IF tier \in Passing THEN JobGoes(a, [pc |-> "report", tier |-> tier])
                         ELSE JobEnds(a)
  /\ UNCHANGED <<started, expired, enqueued, unguarded, edit, guided, pooled,
                 submit, struck>>

JobCommitLeavesOpen(a) == JobWrites(a) /\ UNCHANGED completed

JobCommit(a) ==
  /\ RowFree(a)
  /\ JobWrites(a)
  /\ completed' = completed \cup {a}

(* ROLLBACK: always when the attempt has a result, and on database errors. *)
JobRollback(a) ==
  /\ job[a].pc = "save"
  /\ \/ ~ ResultAllows(a) /\ UNCHANGED struck
     \/ Strike("db")
  /\ JobFails(a)
  /\ UNCHANGED <<outcome, locked, attempts, submit>>

ReportEndsJob(a) == JobEnds(a)
JobAfterReport(a) ==
  IF job[a].tier = "job_ready"
    THEN JobGoes(a, [pc |-> "pool", tier |-> "job_ready"])
    ELSE JobEnds(a)

(* The guidance report; its failure is only logged.                        *)
JobReport(a) ==
  /\ job[a].pc = "report"
  /\ \/ guided' = guided \cup {a} /\ UNCHANGED struck
     \/ Strike("ai") /\ UNCHANGED guided
  /\ JobAfterReport(a)
  /\ UNCHANGED <<profiles, locked, attempts, result, pooled, submit>>

(* The row that employers find the candidate by; its failure is only       *)
(* logged.  A notification follows.                                        *)
JobPool(a) ==
  /\ job[a].pc = "pool"
  /\ \/ pooled' = TRUE /\ UNCHANGED struck
     \/ Strike("db") /\ UNCHANGED pooled
  /\ JobEnds(a)
  /\ UNCHANGED <<profiles, locked, attempts, result, guided, submit>>

(***************************************************************************)
(* The world around: a session's hour and the gate's 14 days pass, and the *)
(* process crashes.                                                        *)
(***************************************************************************)
SessionExpires(a) ==
  /\ a \in Active
  /\ expired' = expired \cup {a}
  /\ UNCHANGED <<outcome, locked, started, completed, forced, enqueued,
                 unguarded, job, submit, struck>>

(* No request or running job lasts 14 days, and no session does.           *)
GateOpens ==
  /\ locked
  /\ Active = {}
  /\ \A s \in Submitters : submit[s] = Idle
  /\ \A w \in Editors : edit[w] = Idle
  /\ \A a \in Attempts : ~ Working(a)
  /\ locked' = FALSE
  /\ expired' = started
  /\ UNCHANGED <<outcome, started, completed, forced, enqueued, unguarded,
                 job, submit, struck>>

(* A job at work in Redis is stalled: it is put back, or failed when that  *)
(* has happened before.  An inline job is gone.                            *)
Crash ==
  /\ Strike("crash")
  /\ submit' = [s \in Submitters |-> Idle]
  /\ edit' = [w \in Editors |-> Idle]
  /\ job' \in [Attempts -> {NoJob, Waiting, Failed}]
  /\ \A a \in Attempts :
       IF ~ Redis THEN job'[a] = NoJob
       ELSE IF Working(a) THEN job'[a] # NoJob
       ELSE job'[a] = job[a]
  /\ UNCHANGED <<profile, setBack, result, guided, pooled, locked, attempts>>

SubmitStep(s) ==
  \/ SubmitLock(s) \/ SubmitCommit(s) \/ SubmitRollback(s)
  \/ Enqueue(s) \/ EnqueueRefused(s) \/ EnqueueReplyLost(s)
  \/ ClearLoad(s) \/ ClearSave(s) \/ Unlock(s) \/ UndoFails(s)

JobStep(a) ==
  \/ JobTake(a) \/ JobBackfill(a)
  \/ \E tier \in Tier : JobScore(a, tier)
  \/ JobGivesUp(a)
  \/ JobCommit(a) \/ JobRollback(a)
  \/ JobReport(a) \/ JobPool(a)

EditNext == \E w \in Editors : EditLoad(w) \/ EditCompare(w) \/ EditWrite(w)

WorldNext ==
  \/ \E a \in Attempts : SessionExpires(a)
  \/ GateOpens
  \/ Crash

Next ==
  \/ \E a \in Attempts : Start(a) \/ Flag(a) \/ JobStep(a)
  \/ \E s \in Submitters :
       SubmitStep(s) \/ \E a \in Attempts : SubmitValidate(s, a)
  \/ EditNext
  \/ WorldNext

Spec == Init /\ [][Next]_vars

(* Requests in progress go on, and the worker takes the jobs there are.    *)
FairSpec == /\ Spec
            /\ \A s \in Submitters : WF_vars(SubmitStep(s))
            /\ \A a \in Attempts : WF_vars(JobStep(a))

(***************************************************************************)
(* Properties.                                                             *)
(***************************************************************************)

(* Of the sessions a candidate has to answer one at most is guarded: a     *)
(* failing submit, which brings a completed or voided session back, takes  *)
(* its own lock off the gate only after that.  The others are those of     *)
(* which a submit was under way when another request, an overlapping       *)
(* submit or the save of a profile, opened the gate.                       *)
OneActiveSession == Cardinality(Active \ unguarded) <= 1

(* The first result of a session is its last, also when the session is     *)
(* brought back, submitted again and scored again.                         *)
ScoredOnce ==
  [][\A a \in Attempts : result[a] # "none" => result'[a] = result[a]]_vars

(* The profile's completion date is set exactly when some session passed;  *)
(* only the save of a profile loaded before puts it back, until the next   *)
(* pass.                                                                   *)
ResultsReachProfile ==
  profile.advancedDone <=>
    ~ setBack /\ \E a \in Attempts : result[a] \in Passing

(* A submission that makes the candidate wait is in the hands of a request *)
(* or of a job, which may be a failed one that Redis keeps: unless the     *)
(* process has crashed, a queue reply was lost or the failure path failed, *)
(* none is forgotten, also when the queue has refused it before.           *)
Tracked(a) ==
  \/ job[a] # NoJob
  \/ \E s \in Submitters : submit[s] # Idle /\ submit[s].attempt = a
SubmissionsTracked ==
  Redis /\ "lost" \notin struck =>
    \A a \in InFlight : Tracked(a)

(* Without such faults a submission does not stay in flight: it is scored, *)
(* taken back or voided.                                                   *)
SubmissionSettles ==
  \A a \in Attempts : a \in InFlight ~> (a \notin InFlight \/ struck # {})

(* And then a passing result gets its report, and a job-ready candidate is *)
(* in the employers' pool.                                                 *)
PassIsDelivered ==
  \A a \in Attempts :
    result[a] \in Passing ~>
      \/ struck # {}
      \/ a \in guided /\ (result[a] = "job_ready" => pooled)

(***************************************************************************)
(* Claims of the messages that the code does not keep; see README.         *)
(***************************************************************************)

(* 'Your previous advanced assessment submission is still being processed. *)
(* Please wait for results before starting again.'                         *)
SubmissionEnds == \A a \in Attempts : a \in InFlight ~> a \notin InFlight

(* 'Active advanced assessment session already exists': start refuses to   *)
(* make a second one.                                                      *)
OneSessionToAnswer == Cardinality(Active) <= 1

(* Whoever has completed the advanced assessment stays one who has.        *)
PassedStaysDone == [][profile.advancedDone => profile'.advancedDone]_vars
=============================================================================
