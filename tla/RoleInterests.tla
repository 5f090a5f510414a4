---------------------------- MODULE RoleInterests ----------------------------
(***************************************************************************)
(* Expressions of interest of job-ready talents in public roles:           *)
(* TalentExploreJobsService.markInterested, against the employer's saves   *)
(* of the same role row and the deletion of talents.                       *)
(*                                                                         *)
(* A talent has a weekly limit, kept under an advisory lock by a count of  *)
(* rows; a role has a cap, kept under its row lock by a counter.           *)
(***************************************************************************)
EXTENDS Naturals, FiniteSets

CONSTANTS
  Talents,      (* those with a job-ready employer_pool_profile, which     *)
                (* nothing removes                                         *)
  Roles,
  Marks,        (* slots for concurrent POST .../interested requests       *)
  Edits,        (* slots for concurrent requests that save a role          *)
  WeeklyLimit,  (* WEEKLY_INTEREST_LIMIT, 10                               *)
  Caps,         (* the applicant caps an employer may set                  *)
  Weeks,        (* bound: the weeks are 1 .. Weeks                         *)
  MaxInterests  (* bound: no request starts while there are so many        *)

ASSUME SetsAssumption == IsFiniteSet(Talents) /\ IsFiniteSet(Roles)
ASSUME NumbersAssumption ==
  WeeklyLimit \in Nat \ {0} /\ Caps \subseteq Nat \ {0} /\ Weeks \in Nat \ {0}

VARIABLES
  week,        (* the current week                                         *)
  gone,        (* the talents deleted                                      *)
  role,        (* the columns of employer_roles that matter here           *)
  interest,    (* talent_role_interests                                    *)
  mark,        (* the interest requests in progress                        *)
  edit,        (* the role requests in progress, with the row they save    *)
  inserted,    (* history: how many interests each role ever had           *)
  overwritten  (* history: the roles of which a save changed the counter   *)

users == <<week, gone>>
history == <<inserted, overwritten>>
vars == <<users, role, interest, mark, edit, history>>

Week == 1 .. Weeks

(* open: status is active and visibility public; cap = 0 stands for null   *)
NoCap == 0
RoleRow == [open : BOOLEAN, cap : Caps \cup {NoCap}, count : Nat]

(* window is history: the week whose interests were counted                *)
Interest == [talent : Talents, role : Roles, created : Week, window : Week]

Idle == [pc |-> "idle"]
MarkRequest ==
  {Idle}
    \cup [pc : {"begin"}, talent : Talents, role : Roles, window : Week]
    \cup [pc : {"locked"}, talent : Talents, role : Roles, window : Week,
          created : Week]
EditRequest == {Idle} \cup [pc : {"save"}, role : Roles, row : RoleRow]

InterestsIn(r) == {i \in interest : i.role = r}
ThisWeek(t, w) == {i \in interest : i.talent = t /\ i.created = w}

TypeOK ==
  /\ week \in Week
  /\ gone \subseteq Talents
  /\ role \in [Roles -> RoleRow]
  /\ interest \subseteq {i \in Interest : i.talent \notin gone}
  /\ mark \in [Marks -> MarkRequest]
  /\ edit \in [Edits -> EditRequest]
  /\ inserted \in [Roles -> Nat]
  /\ overwritten \subseteq Roles

Init ==
  /\ week = 1
  /\ gone = {}
  /\ role \in [Roles -> [open : BOOLEAN, cap : Caps \cup {NoCap}, count : {0}]]
  /\ interest = {}
  /\ mark = [m \in Marks |-> Idle]
  /\ edit = [e \in Edits |-> Idle]
  /\ inserted = [r \in Roles |-> 0]
  /\ overwritten = {}

(***************************************************************************)
(* POST explore-jobs/:roleId/interested                                    *)
(***************************************************************************)

(* The access token is accepted while there is the user, the pool profile  *)
(* is found, and the week is computed from the clock.                      *)
MarkStart(m, t, r) ==
  /\ mark[m] = Idle
  /\ t \notin gone
  /\ Cardinality(interest) < MaxInterests
  /\ mark' = [mark EXCEPT ![m] = [pc |-> "begin", talent |-> t, role |-> r,
                                  window |-> week]]
  /\ UNCHANGED <<users, role, interest, edit, history>>

(* BEGIN: now(), the default of created_at, is fixed; the wait for the     *)
(* talent's advisory lock follows.                                         *)
MarkBegin(m) ==
  /\ mark[m].pc = "begin"
  /\ mark' = [mark EXCEPT ![m] = [pc |-> "locked", talent |-> mark[m].talent,
                                  role |-> mark[m].role,
                                  window |-> mark[m].window,
                                  created |-> week]]
  /\ UNCHANGED <<users, role, interest, edit, history>>

(* From the row lock of the role to COMMIT nothing that is read can be     *)
(* changed by others: one step.  The order of the checks does not matter:  *)
(* refusals write nothing, and a repeated click answers with the interest  *)
(* there is.                                                               *)
UnderLimitPlusOne(t, w) == Cardinality(ThisWeek(t, w)) <= WeeklyLimit
UnderLimit(t, w) == Cardinality(ThisWeek(t, w)) < WeeklyLimit
UnderCapPlusOne(row) == row.cap # NoCap => row.count <= row.cap
UnderCap(row) == row.cap # NoCap => row.count < row.cap
Known(t, r) == \E i \in interest : i.talent = t /\ i.role = r

(* The service's own checks ...                                            *)
Acceptable(q) ==
  /\ role[q.role].open
  /\ ~ Known(q.talent, q.role)
  /\ UnderLimit(q.talent, q.window)
  /\ UnderCap(role[q.role])

(* ... and the foreign key: the insert refers to the talent's row.         *)
Accepts(q) == Acceptable(q) /\ q.talent \notin gone

MarkInsert(m) ==
  LET q == mark[m]
      row == [talent |-> q.talent, role |-> q.role, created |-> q.created,
              window |-> q.window] IN
  /\ q.pc = "locked"
  /\ Accepts(q)
  /\ interest' = interest \cup {row}
  /\ inserted' = [inserted EXCEPT ![q.role] = @ + 1]
  /\ role' = [role EXCEPT ![q.role].count = @ + 1]
  /\ mark' = [mark EXCEPT ![m] = Idle]
  /\ UNCHANGED <<users, edit, overwritten>>

MarkEndCounts(m) ==
  /\ mark[m].pc = "locked"
  /\ mark' = [mark EXCEPT ![m] = Idle]
  /\ role' = [role EXCEPT ![mark[m].role].count = @ + 1]
  /\ UNCHANGED <<users, interest, edit, history>>

(* Refused, or rolled back by a database error.                            *)
MarkEnd(m) ==
  /\ mark[m].pc = "locked"
  /\ mark' = [mark EXCEPT ![m] = Idle]
  /\ UNCHANGED <<users, role, interest, edit, history>>

(***************************************************************************)
(* Requests of the employer: close or reopen the role, change its          *)
(* visibility or cap, or save it for another column (title, assessment).   *)
(***************************************************************************)
Changed(row) ==
  [open : BOOLEAN, cap : Caps \cup {NoCap}, count : {row.count}]

EditLoad(e, r) ==
  /\ edit[e] = Idle
  /\ \E row \in Changed(role[r]) :
       edit' = [edit EXCEPT ![e] = [pc |-> "save", role |-> r, row |-> row]]
  /\ UNCHANGED <<users, role, interest, mark, history>>

(* save() writes every column in which the loaded row differs by now.      *)
EditSave(e) ==
  /\ edit[e].pc = "save"
  /\ LET r == edit[e].role  row == edit[e].row IN
       /\ role' = [role EXCEPT ![r] = row]
       /\ overwritten' = IF row.count = role[r].count THEN overwritten
                                                 ELSE overwritten \cup {r}
  /\ edit' = [edit EXCEPT ![e] = Idle]
  /\ UNCHANGED <<users, interest, mark, inserted>>

(***************************************************************************)
(* The world around: the calendar, DELETE users/:id, which deletes the     *)
(* interests by cascade, and crashes.                                      *)
(***************************************************************************)
WeekPasses ==
  /\ week < Weeks
  /\ week' = week + 1
  /\ UNCHANGED <<gone, role, interest, mark, edit, history>>

DeleteTalent(t) ==
  /\ t \notin gone
  /\ gone' = gone \cup {t}
  /\ interest' = {i \in interest : i.talent # t}
  /\ UNCHANGED <<week, role, mark, edit, history>>

Crash ==
  /\ mark' = [m \in Marks |-> Idle]
  /\ edit' = [e \in Edits |-> Idle]
  /\ UNCHANGED <<users, role, interest, history>>

MarkNext ==
  \E m \in Marks :
    \/ \E t \in Talents, r \in Roles : MarkStart(m, t, r)
    \/ MarkBegin(m) \/ MarkInsert(m) \/ MarkEnd(m)

EditNext == \E e \in Edits : EditSave(e) \/ \E r \in Roles : EditLoad(e, r)

WorldNext ==
  \/ WeekPasses
  \/ \E t \in Talents : DeleteTalent(t)
  \/ Crash

Next == MarkNext \/ EditNext \/ WorldNext

Spec == Init /\ [][Next]_vars

(***************************************************************************)
(* Properties.                                                             *)
(***************************************************************************)

(* However many clicks of a talent overlap, those created in the week they *)
(* were counted for stay within the weekly limit.  (A click that waits     *)
(* over midnight on Sunday counts one week and is created in the next.)    *)
WeeklyLimitKept ==
  \A t \in Talents, w \in Week :
    Cardinality({i \in ThisWeek(t, w) : i.window = w}) <= WeeklyLimit

(* interested_count never counts an interest nobody has expressed,         *)
(* whatever copies of the role are saved over it.                          *)
CountNeverInvented == \A r \in Roles : role[r].count <= inserted[r]

(* Unless a stale save has set the counter back, a new interest never      *)
(* takes the talents interested in a role past the cap it has then, also   *)
(* when talents have been deleted and caps, status and visibility changed. *)
CapKept ==
  [][\A r \in Roles \ overwritten :
       Cardinality(InterestsIn(r)') > Cardinality(InterestsIn(r))
         /\ role[r].cap # NoCap
       => Cardinality(InterestsIn(r)') <= role[r].cap]_vars

(***************************************************************************)
(* Claims of the messages that the code does not keep; see README.         *)
(***************************************************************************)

(* "You've reached your weekly limit of 10 expressions of interest."       *)
WeeklyLimitOfTheCalendar ==
  \A t \in Talents, w \in Week : Cardinality(ThisWeek(t, w)) <= WeeklyLimit

(* 'This role has reached its applicant cap.'                              *)
RefusalsAreTrue ==
  \A r \in Roles : ~ UnderCap(role[r]) =>
                     Cardinality(InterestsIn(r)) >= role[r].cap
=============================================================================
