---------------------------- MODULE RetakeNotices ----------------------------
(***************************************************************************)
(* Telling a talent that the advanced assessment can be taken again:       *)
(* notification-dispatch.service.ts, polled every hour and called whenever *)
(* the dashboard is opened, on the gate that advanced-assessment.service.ts*)
(* sets in the talent's profile. The poll and any number of dashboards run *)
(* at the same time and on their own reading of the gate; only the unique  *)
(* index on (user, type, eligibility date) decides who tells.              *)
(***************************************************************************)
EXTENDS Naturals, FiniteSets

CONSTANTS
  Talents,     \* the talents with a profile
  Polls,       \* the polls that run at a time, one timer for each server
  Dashboards,  \* the dashboard requests that run at a time
  Wait,        \* RETAKE_GATE_DAYS, in slots of the clock
  Horizon,     \* bound: the clock stops here
  MaxFaults    \* bound: stops of the server and inserts that fail

ASSUME RetakeAssumption ==
  Wait \in Nat \ {0} /\ Horizon \in Nat /\ MaxFaults \in Nat

VARIABLES
  now,      (* the clock                                                   *)
  gate,     (* [talent -> assessment_locked_until, 0 when no retake is due]*)
  gone,     (* the talents whose user was deleted                          *)
  notices,  (* user_notifications of this type: <<talent, date>>           *)
  mails,    (* [<<talent, date>> -> the mails that went out for it]        *)
  sender,   (* [sender -> what it does and what it still carries]          *)
  faults    (* the faults so far                                           *)

vars == <<now, gate, gone, notices, mails, sender, faults>>

-----------------------------------------------------------------------------
Dates == 0..Horizon + Wait
Addressed == Talents \X Dates

Senders == Polls \cup Dashboards
Idle == [pc |-> "idle", todo |-> {}]
At(s, pc) == sender[s].pc = pc
Goes(s, to) == sender' = [sender EXCEPT ![s] = to]
Carrying(todo) == IF todo = {} THEN Idle ELSE [pc |-> "create", todo |-> todo]

(* resolveRetakeEligibilityDate: a gate that is set and not in the future. *)
DueTodayOnly(d) == d = now /\ d # 0
DueSomeday(d) == d # 0
Due(d) == d # 0 /\ d <= now

Init ==
  /\ now = 0
  /\ gate = [t \in Talents |-> 0]
  /\ gone = {}
  /\ notices = {}
  /\ mails = [a \in Addressed |-> 0]
  /\ sender = [s \in Senders |-> Idle]
  /\ faults = 0

(***************************************************************************)
(* The gate, as the assessment moves it: a submission, a result and a flag *)
(* set it two weeks ahead, a submission the queue refused takes it away.   *)
(***************************************************************************)
SetGate(t) ==
  /\ gate' = [gate EXCEPT ![t] = now + Wait]
  /\ UNCHANGED <<now, gone, notices, mails, sender, faults>>

ClearGate(t) ==
  /\ gate[t] > now
  /\ gate' = [gate EXCEPT ![t] = 0]
  /\ UNCHANGED <<now, gone, notices, mails, sender, faults>>

RemoveUser(t) ==
  /\ gone' = gone \cup {t}
  /\ UNCHANGED <<now, gate, notices, mails, sender, faults>>

Tick ==
  /\ now < Horizon
  /\ now' = now + 1
  /\ UNCHANGED <<gate, gone, notices, mails, sender, faults>>

(***************************************************************************)
(* The poll reads every gate that is due and works the list off, one after *)
(* the other; the profile of a deleted user is still on it.                *)
(***************************************************************************)
PollStart(s) ==
  /\ At(s, "idle")
  /\ Goes(s, Carrying({<<t, gate[t]>> : t \in {u \in Talents : Due(gate[u])}}))
  /\ UNCHANGED <<now, gate, gone, notices, mails, faults>>

(* getHome finds the user, so one that is there.                           *)
OpenDashboard(s, t) ==
  /\ At(s, "idle")
  /\ t \notin gone /\ Due(gate[t])
  /\ Goes(s, Carrying({<<t, gate[t]>>}))
  /\ UNCHANGED <<now, gate, gone, notices, mails, faults>>

(* The unique index turns a second notice for the same date away.          *)
NeverRefused(a) == FALSE
Refused(a) == a \in notices

(* dispatchAdvancedRetakeAvailable: no user, no notice; a notice that is   *)
(* there already ends it quietly; else the notice is in and the mail next. *)
Create(s, a) ==
  /\ At(s, "create") /\ a \in sender[s].todo
  /\ LET rest == sender[s].todo \ {a}
     IN IF a[1] \in gone \/ Refused(a)
          THEN Goes(s, Carrying(rest)) /\ UNCHANGED notices
          ELSE /\ notices' = notices \cup {a}
               /\ Goes(s, [pc |-> "mail", todo |-> rest, to |-> a])
  /\ UNCHANGED <<now, gate, gone, mails, faults>>

(* An insert that fails for another reason is logged and left; the next    *)
(* poll finds the gate again.                                              *)
CreateFails(s, a) ==
  /\ At(s, "create") /\ a \in sender[s].todo
  /\ faults < MaxFaults
  /\ faults' = faults + 1
  /\ Goes(s, Carrying(sender[s].todo \ {a}))
  /\ UNCHANGED <<now, gate, gone, notices, mails>>

(* The mail goes out, or fails and is not tried again.                     *)
Mail(s) ==
  /\ At(s, "mail")
  /\ \E sent \in {0, 1} : mails' = [mails EXCEPT ![sender[s].to] = @ + sent]
  /\ Goes(s, Carrying(sender[s].todo))
  /\ UNCHANGED <<now, gate, gone, notices, faults>>

Crash ==
  /\ faults < MaxFaults
  /\ faults' = faults + 1
  /\ sender' = [s \in Senders |-> Idle]
  /\ UNCHANGED <<now, gate, gone, notices, mails>>

Step(s) == (\E a \in Addressed : Create(s, a)) \/ Mail(s)

Next ==
  \/ \E t \in Talents : SetGate(t) \/ ClearGate(t) \/ RemoveUser(t)
  \/ Tick
  \/ \E s \in Polls : PollStart(s)
  \/ \E s \in Dashboards, t \in Talents : OpenDashboard(s, t)
  \/ \E s \in Senders :
       \/ \E a \in Addressed : Create(s, a)
       \/ \E a \in Addressed : CreateFails(s, a)
       \/ Mail(s)
  \/ Crash

(* The hourly timer starts a poll again and again, and a poll that runs    *)
(* goes on to its end: nothing it awaits answers never.                    *)
Fairness == \A s \in Polls : WF_vars(PollStart(s)) /\ WF_vars(Step(s))

Spec == Init /\ [][Next]_vars /\ Fairness

-----------------------------------------------------------------------------
(* Type invariant; what a sender carries are dates that have come.         *)
TypeOK ==
  /\ now \in 0..Horizon
  /\ gate \in [Talents -> Dates]
  /\ gone \subseteq Talents
  /\ notices \subseteq Addressed
  /\ mails \in [Addressed -> Nat]
  /\ faults \in 0..MaxFaults
  /\ \A s \in Senders : /\ sender[s].pc \in {"idle", "create", "mail"}
                        /\ \A a \in sender[s].todo : a \in Addressed /\ a[2] <= now

(* However many polls and dashboards saw the same gate, and whatever fails *)
(* in between, a talent is mailed once at most for a date, and only when   *)
(* the notice of that date is there.                                       *)
MailedOnce ==
  \A a \in Addressed : mails[a] <= 1 /\ (mails[a] = 1 => a \in notices)

(* A gate that has come is told: either its notice is there in the end, or *)
(* the gate was moved or the user deleted first. A dashboard that never    *)
(* opens, a stop of the server or a failed insert only delays it.          *)
NoticeArrives ==
  \A t \in Talents, d \in 1..Horizon :
    (gate[t] = d /\ d <= now) ~> (<<t, d>> \in notices \/ gate[t] # d \/ t \in gone)
=============================================================================
