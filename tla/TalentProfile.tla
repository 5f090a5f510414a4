---------------------------- MODULE TalentProfile ----------------------------
(***************************************************************************)
(* The profile row of one talent and everything that saves it:             *)
(* talent.service.ts (onboarding, settings, resume, availability) and      *)
(* personal-assessment.service.ts.                                         *)
(*                                                                         *)
(* Only saveSection, submitGenerated and complete lock the row. Everything *)
(* else reads it, awaits, and saves the object it read: TypeORM compares   *)
(* that object with the row as it is by then and writes the columns that   *)
(* differ, so a column another request has changed in between is written   *)
(* back. The reading, the comparing and the writing are three steps.       *)
(***************************************************************************)
EXTENDS Naturals

CONSTANTS
  Requests,    \* the requests of this talent the server works on at a time
  Tracks,      \* the tracks there are
  NoTrack,     \* the track of a profile that has none
  Sections,    \* the sections of the personal assessment
  MaxSessions  \* bound: the question sets ever generated

VARIABLES
  there,      (* the profile row exists                                    *)
  row,        (* [column -> value]; a request's copy has the same columns  *)
  onboarded,  (* users.onboarding_complete                                 *)
  pool,       (* job_search_status of the talent's pool profile            *)
  generated,  (* the question sets generated so far                        *)
  request     (* [request -> where it is and what it carries]              *)

vars == <<there, row, onboarded, pool, generated, request>>

-----------------------------------------------------------------------------
(* personal_assessment_answers is one column: the sections answered and    *)
(* the question set in its _meta (0: none). `where` stands for region and  *)
(* education level, `shown` for availability, is_published, published_at.  *)
NewRow == [goal |-> FALSE, track |-> NoTrack, where |-> FALSE, step |-> 0,
           resume |-> FALSE, shown |-> FALSE,
           answers |-> [sections |-> {}, session |-> 0], done |-> FALSE]

Idle == [pc |-> "idle"]
At(r, pc) == request[r].pc = pc
Goes(r, to) == request' = [request EXCEPT ![r] = to]
Ends(r) == Goes(r, Idle)

AtLeast(step, n) == IF step < n THEN n ELSE step

(* assertOnboardingFieldsForComplete                                       *)
FieldsFilled(p) == p.track # NoTrack /\ p.where

Init ==
  /\ there = FALSE
  /\ row = NewRow
  /\ onboarded = FALSE
  /\ pool = FALSE
  /\ generated = 0
  /\ request = [r \in Requests |-> Idle]

(***************************************************************************)
(* Finding or creating: two requests that find no row both insert one, and *)
(* the unique index on user_id lets one of them through. Outside of a      *)
(* transaction an empty row is inserted first, in one it is inserted with  *)
(* what it is to hold.                                                     *)
(***************************************************************************)
InTransaction == {"settings", "details", "profile", "availability"}

(* The first onboarding, step by step: for users who have not been through *)
(* it, which is looked up first.                                           *)
FirstSteps == {"tracks", "profile"}

Holding(op, p, new) == [pc |-> "edit", op |-> op, mine |-> p, new |-> new]

FindOrCreate(r, op) ==
  /\ At(r, "idle")
  /\ op \in FirstSteps => ~onboarded
  /\ Goes(r, IF there THEN Holding(op, row, FALSE)
             ELSE IF op \in InTransaction THEN Holding(op, NewRow, TRUE)
             ELSE [pc |-> "insert", op |-> op])
  /\ UNCHANGED <<there, row, onboarded, pool, generated>>

Insert(r) ==
  /\ At(r, "insert")
  /\ IF there
       THEN Ends(r) /\ UNCHANGED <<there, row>>
       ELSE /\ there' = TRUE /\ row' = NewRow
            /\ Goes(r, Holding(request[r].op, NewRow, FALSE))
  /\ UNCHANGED <<onboarded, pool, generated>>

(***************************************************************************)
(* What each operation changes in its copy.                                *)
(***************************************************************************)
SaveGoal(p) == [p EXCEPT !.goal = TRUE, !.step = AtLeast(@, 1)]

SaveTrack(p, k) == [p EXCEPT !.track = k, !.step = AtLeast(@, 2)]

SaveTracks(p) == [p EXCEPT !.step = AtLeast(@, 2)]

UpdateResume(p, b) == [p EXCEPT !.resume = b]

UpdateSettings(p, k) == [p EXCEPT !.track = k]

SaveTalentProfile(p, b) == [p EXCEPT !.where = b, !.step = 3]

SaveProfile(p, b) == [p EXCEPT !.where = b, !.step = 3]

UpdateAvailability(p, b) == [p EXCEPT !.shown = b]

StartGenerated(p, n) == [p EXCEPT !.answers.session = n]

(* What a request may turn its copy into: its operation, with any input.   *)
Edited(op, p) ==
  CASE op = "goal"         -> {SaveGoal(p)}
    [] op = "track"        -> {SaveTrack(p, k) : k \in Tracks}
    [] op = "tracks"       -> {SaveTracks(p)}
    [] op = "resume"       -> {UpdateResume(p, b) : b \in BOOLEAN}
    [] op = "settings"     -> {UpdateSettings(p, k) : k \in Tracks}
    [] op = "details"      -> {SaveTalentProfile(p, b) : b \in BOOLEAN}
    [] op = "profile"      -> {SaveProfile(p, b) : b \in {p.where, TRUE}}
    [] op = "availability" -> {UpdateAvailability(p, b) : b \in BOOLEAN}
    [] op = "generate"     -> {StartGenerated(p, generated + 1)}

Ops == {"goal", "track", "tracks", "resume", "settings", "details", "profile",
        "availability", "generate"}

(* A set of questions is generated for a profile read as unfinished, with  *)
(* its onboarding done.                                                    *)
MayGenerate(p) == ~p.done /\ FieldsFilled(p) /\ generated < MaxSessions

Edit(r) ==
  LET op == request[r].op
      mine == request[r].mine
  IN /\ At(r, "edit")
     /\ IF op = "generate" /\ ~MayGenerate(mine)
          THEN Ends(r) /\ UNCHANGED generated
          ELSE /\ \E p \in Edited(op, mine) :
                    Goes(r, [request[r] EXCEPT !.pc = "compare", !.mine = p])
               /\ generated' = IF op = "generate" THEN generated + 1 ELSE generated
     /\ UNCHANGED <<there, row, onboarded, pool>>

(* save: the columns that differ from the row as it is now are written,    *)
(* and written with the values of the copy.                                *)
Compare(r) ==
  /\ At(r, "compare")
  /\ LET mine == request[r].mine
     IN Goes(r, [pc |-> "write", op |-> request[r].op, mine |-> mine,
                 new |-> request[r].new,
                 columns |-> {c \in DOMAIN mine : request[r].new \/ mine[c] # row[c]}])
  /\ UNCHANGED <<there, row, onboarded, pool, generated>>

(* The rest of its transaction commits with it: the pool profile's status  *)
(* with the availability, the user's mark with the last onboarding step.   *)
Write(r) ==
  LET q == request[r]
  IN /\ At(r, "write")
     /\ ~(q.new /\ there)
     /\ there' = TRUE
     /\ row' = [c \in DOMAIN row |-> IF c \in q.columns THEN q.mine[c] ELSE row[c]]
     /\ onboarded' = (onboarded \/ q.op \in {"details", "profile"})
     /\ pool' = IF q.op = "availability" THEN q.mine.shown ELSE pool
     /\ Ends(r)
     /\ UNCHANGED generated

(* A new row that is there by now: the insert fails, and all of it with it.*)
WriteRefused(r) ==
  /\ At(r, "write")
  /\ request[r].new /\ there
  /\ Ends(r)
  /\ UNCHANGED <<there, row, onboarded, pool, generated>>

(* Onboarding in one step: a new row, or none at all.                      *)
CompleteOnboarding(k) ==
  /\ ~onboarded /\ ~there
  /\ there' = TRUE /\ onboarded' = TRUE
  /\ row' = [NewRow EXCEPT !.track = k]
  /\ UNCHANGED <<pool, generated, request>>

(***************************************************************************)
(* The personal assessment, with the row locked from its reading to its    *)
(* writing.                                                                *)
(***************************************************************************)
AllAnswered(p) == p.answers.sections = Sections

SaveSection(n) ==
  /\ ~row.done /\ ~AllAnswered(row)
  /\ there' = TRUE
  /\ row' = [row EXCEPT !.answers.sections = @ \cup {n}]
  /\ UNCHANGED <<onboarded, pool, generated, request>>

(* A set of questions is there, and the answers, those sent or those that  *)
(* were saved, are complete.                                               *)
Finish ==
  /\ there /\ ~row.done
  /\ FieldsFilled(row) /\ row.answers.session # 0
  /\ row' = [row EXCEPT !.answers.sections = Sections, !.done = TRUE]
  /\ UNCHANGED <<there, onboarded, pool, generated, request>>

Next ==
  \/ \E r \in Requests :
       \/ \E op \in Ops : FindOrCreate(r, op)
       \/ Insert(r)
       \/ Edit(r)
       \/ Compare(r)
       \/ Write(r)
       \/ WriteRefused(r)
  \/ \E k \in Tracks : CompleteOnboarding(k)
  \/ \E n \in Sections : SaveSection(n)
  \/ Finish

Spec == Init /\ [][Next]_vars

-----------------------------------------------------------------------------
(* A finished personal assessment is neither taken again nor rewritten     *)
(* (personal-assessment.service.ts:113). A request that read the profile   *)
(* before it was finished and saves it after breaks it.                    *)
FinishedStaysFinished ==
  [][row.done => row'.done /\ row'.answers = row.answers]_vars
=============================================================================
