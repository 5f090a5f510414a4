------------------------- MODULE RetakeNotices_proofs -------------------------
(***************************************************************************)
(* Theorems about RetakeNotices, for any number of talents, polls and      *)
(* dashboards, any waiting time, clock and number of faults: types, and a  *)
(* talent mailed once at most for a date.                                  *)
(***************************************************************************)
EXTENDS RetakeNotices, TLAPS

(* A sender that is about to mail stands alone on a notice that is in and  *)
(* of which no mail has gone out.                                          *)
Function == sender = [s \in Senders |-> sender[s]]

Mails(s, a) == At(s, "mail") /\ sender[s].to = a

MailSound ==
  \A s \in Senders : At(s, "mail") =>
    /\ sender[s].to \in notices
    /\ mails[sender[s].to] = 0

MailAlone ==
  \A s, u \in Senders, a \in Addressed : Mails(s, a) /\ Mails(u, a) => s = u

Inv ==
  /\ TypeOK
  /\ Function
  /\ MailedOnce
  /\ MailSound
  /\ MailAlone

LEMMA GoesOn ==
  ASSUME Function, NEW s \in Senders, NEW to, Goes(s, to)
  PROVE  /\ Function'
         /\ sender'[s] = to
         /\ \A u \in Senders \ {s} : sender'[u] = sender[u]
BY DEF Function, Goes

(* What a sender may carry, and that Carrying carries it.                  *)
Dated(todo, n) == \A a \in todo : a \in Addressed /\ a[2] <= n

LEMMA CarryingDated ==
  ASSUME NEW todo, NEW n, Dated(todo, n)
  PROVE  /\ Carrying(todo).pc \in {"idle", "create"}
         /\ Dated(Carrying(todo).todo, n)
BY DEF Carrying, Idle, Dated

(* Types: the parts that are left, when a sender goes on with a list that  *)
(* is dated.                                                               *)
SenderTyped(x, n) ==
  /\ x.pc \in {"idle", "create", "mail"}
  /\ Dated(x.todo, n)

LEMMA TypeByPart ==
  TypeOK <=> /\ now \in 0..Horizon
             /\ gate \in [Talents -> Dates]
             /\ gone \subseteq Talents
             /\ notices \subseteq Addressed
             /\ mails \in [Addressed -> Nat]
             /\ faults \in 0..MaxFaults
             /\ \A s \in Senders : SenderTyped(sender[s], now)
BY DEF TypeOK, SenderTyped, Dated

LEMMA DatesAre ==
  /\ Dates \subseteq Nat
  /\ 0 \in Dates
  /\ \A n \in 0..Horizon : n \in Nat /\ n + Wait \in Dates
BY RetakeAssumption DEF Dates

LEMMA InitInv == Init => Inv
<1> SUFFICES ASSUME Init PROVE Inv
  OBVIOUS
<1>1. \A s \in Senders : sender[s] = Idle
  BY DEF Init
<1>2. TypeOK
  BY <1>1, DatesAre, RetakeAssumption DEF Init, TypeOK, Idle
<1>3. Function /\ MailedOnce
  BY DEF Init, Function, MailedOnce
<1>4. \A s \in Senders : ~ At(s, "mail")
  BY <1>1 DEF At, Idle
<1> QED BY <1>2, <1>3, <1>4 DEF Inv, MailSound, MailAlone, Mails

(* A step that mails nothing: no sender comes to "mail", no notice or mail *)
(* changes.                                                                *)
LEMMA QuietStep ==
  ASSUME Inv, Function', UNCHANGED mails, notices \subseteq notices', TypeOK',
         \A s \in Senders : sender'[s] = sender[s] \/ sender'[s].pc # "mail"
  PROVE  Inv'
<1>1. MailedOnce'
  BY DEF Inv, MailedOnce
<1>2. MailSound'
  BY DEF Inv, MailSound, At
<1>3. MailAlone'
  BY DEF Inv, MailAlone, Mails, At
<1> QED BY <1>1, <1>2, <1>3 DEF Inv

LEMMA WorldStep ==
  ASSUME Inv,
         \/ \E t \in Talents : SetGate(t) \/ ClearGate(t) \/ RemoveUser(t)
         \/ Tick
         \/ UNCHANGED vars
  PROVE  Inv'
<1>0. TypeOK /\ now \in 0..Horizon
  BY DEF Inv, TypeOK
<1>1. UNCHANGED <<notices, mails, sender, faults>>
  BY DEF SetGate, ClearGate, RemoveUser, Tick, vars
<1>2. gate' \in [Talents -> Dates] /\ gone' \subseteq Talents
  BY <1>0, DatesAre DEF SetGate, ClearGate, RemoveUser, Tick, vars, TypeOK
<1>3. now' \in 0..Horizon /\ now <= now'
  BY <1>0, RetakeAssumption DEF SetGate, ClearGate, RemoveUser, Tick, vars
<1>4. ASSUME NEW s \in Senders PROVE SenderTyped(sender[s], now')
  <2>1. SenderTyped(sender[s], now)
    BY <1>0, TypeByPart
  <2> SUFFICES ASSUME NEW a \in sender[s].todo, a \in Addressed, a[2] <= now
               PROVE  a[2] <= now'
    BY <2>1 DEF SenderTyped, Dated
  <2>2. a[2] \in Nat
    BY DatesAre DEF Addressed
  <2> QED BY <1>0, <1>3, <2>2, DatesAre
<1>5. TypeOK'
  <2>1. \A s \in Senders : SenderTyped(sender'[s], now')
    BY <1>1, <1>4
  <2> QED BY <1>0, <1>1, <1>2, <1>3, <2>1 DEF TypeOK, SenderTyped, Dated
<1> QED BY <1>1, <1>5, QuietStep DEF Inv, Function

(* A sender starts, or goes on, with a list that is dated.                 *)
LEMMA CarryStep ==
  ASSUME Inv, NEW s \in Senders, NEW todo, Dated(todo, now), Goes(s, Carrying(todo)),
         UNCHANGED <<now, gate, gone, notices, mails>>, faults' \in 0..MaxFaults
  PROVE  Inv'
<1>1. /\ Function'
      /\ sender'[s] = Carrying(todo)
      /\ \A u \in Senders \ {s} : sender'[u] = sender[u]
  BY GoesOn DEF Inv
<1>2. Carrying(todo).pc \in {"idle", "create"} /\ Dated(Carrying(todo).todo, now)
  BY CarryingDated
<1>3. \A u \in Senders : SenderTyped(sender'[u], now')
  BY <1>1, <1>2, TypeByPart DEF Inv, SenderTyped
<1>4. TypeOK'
  BY <1>3 DEF Inv, TypeOK, SenderTyped, Dated
<1> QED BY <1>1, <1>2, <1>4, QuietStep

LEMMA CreateStep ==
  ASSUME Inv, NEW s \in Senders, NEW a \in Addressed, Create(s, a)
  PROVE  Inv'
<1> DEFINE rest == sender[s].todo \ {a}
           x == [pc |-> "mail", todo |-> rest, to |-> a]
<1>1. Dated(rest, now)
  BY TypeByPart DEF Inv, SenderTyped, Dated
<1>2. UNCHANGED <<now, gate, gone, mails, faults>> /\ faults \in 0..MaxFaults
  BY DEF Create, Inv, TypeOK
<1>3. CASE a[1] \in gone \/ Refused(a)
  <2>1. Goes(s, Carrying(rest)) /\ UNCHANGED notices
    BY <1>3 DEF Create
  <2> QED BY <1>1, <1>2, <2>1, CarryStep
<1>4. CASE ~ (a[1] \in gone \/ Refused(a))
  <2>1. /\ a \notin notices
        /\ notices' = notices \cup {a}
        /\ Goes(s, x)
    BY <1>4 DEF Create, Refused
  <2>2. x.pc = "mail" /\ x.to = a /\ SenderTyped(x, now)
    BY <1>1 DEF SenderTyped
  <2> HIDE DEF x, rest
  <2>3. /\ Function'
        /\ sender'[s] = x
        /\ \A u \in Senders \ {s} : sender'[u] = sender[u]
    BY <2>1, GoesOn DEF Inv
  <2>4. \A u \in Senders : SenderTyped(sender'[u], now')
    BY <1>2, <2>2, <2>3, TypeByPart DEF Inv
  <2>5. TypeOK'
    BY <1>2, <2>1, <2>4 DEF Inv, TypeOK, SenderTyped, Dated
  <2>6. MailedOnce' /\ mails[a] = 0
    <3>1. mails[a] \in Nat
      BY DEF Inv, TypeOK
    <3> QED BY <1>2, <2>1, <3>1 DEF Inv, MailedOnce
  <2>7. \A u \in Senders \ {s} : sender[u].pc = "mail" => sender[u].to # a
    BY <2>1 DEF Inv, MailSound, At
  <2>8. MailSound'
    BY <1>2, <2>1, <2>2, <2>3, <2>6 DEF Inv, MailSound, At
  <2>9. MailAlone'
    <3> SUFFICES ASSUME NEW u \in Senders, NEW v \in Senders, NEW b \in Addressed,
                        sender'[u].pc = "mail", sender'[u].to = b,
                        sender'[v].pc = "mail", sender'[v].to = b
                 PROVE  u = v
      BY DEF MailAlone, Mails, At
    <3>1. CASE u # s /\ v # s
      BY <2>3, <3>1 DEF Inv, MailAlone, Mails, At
    <3>2. CASE u = s \/ v = s
      BY <2>2, <2>3, <2>7, <3>2
    <3> QED BY <3>1, <3>2
  <2> QED BY <2>3, <2>5, <2>6, <2>8, <2>9 DEF Inv
<1> QED BY <1>3, <1>4

LEMMA MailStep ==
  ASSUME Inv, NEW s \in Senders, Mail(s)
  PROVE  Inv'
<1>1. PICK a \in Addressed : a = sender[s].to /\ a \in notices /\ mails[a] = 0
  BY DEF Mail, Inv, MailSound, TypeOK
<1>2. PICK sent \in {0, 1} : mails' = [mails EXCEPT ![a] = @ + sent]
  BY <1>1 DEF Mail
<1> DEFINE todo == sender[s].todo
<1>3. /\ At(s, "mail") /\ Goes(s, Carrying(todo)) /\ Dated(todo, now)
      /\ UNCHANGED <<now, gate, gone, notices, faults>>
  BY TypeByPart DEF Mail, Inv, SenderTyped
<1> HIDE DEF todo
<1>4. /\ Function'
      /\ sender'[s] = Carrying(todo)
      /\ \A u \in Senders \ {s} : sender'[u] = sender[u]
  BY <1>3, GoesOn DEF Inv
<1>5. Carrying(todo).pc \in {"idle", "create"} /\ Dated(Carrying(todo).todo, now)
  BY <1>3, CarryingDated
<1>6. /\ mails \in [Addressed -> Nat]
      /\ mails'[a] = sent
      /\ \A b \in Addressed \ {a} : mails'[b] = mails[b]
      /\ mails' \in [Addressed -> Nat]
  BY <1>1, <1>2 DEF Inv, TypeOK
<1>7. \A u \in Senders : SenderTyped(sender'[u], now')
  BY <1>3, <1>4, <1>5, TypeByPart DEF Inv, SenderTyped
<1>8. TypeOK'
  BY <1>3, <1>6, <1>7 DEF Inv, TypeOK, SenderTyped, Dated
<1>9. MailedOnce'
  BY <1>1, <1>3, <1>6 DEF Inv, MailedOnce
<1>10. \A u \in Senders : sender'[u].pc = "mail" =>
         u # s /\ sender'[u] = sender[u] /\ sender[u].to # a
  BY <1>1, <1>3, <1>4, <1>5 DEF Inv, MailAlone, Mails, At
<1>11. MailSound'
  <2> SUFFICES ASSUME NEW u \in Senders, sender'[u].pc = "mail"
               PROVE  sender'[u].to \in notices' /\ mails'[sender'[u].to] = 0
    BY DEF MailSound, At
  <2>1. /\ sender'[u] = sender[u] /\ sender[u].to # a
        /\ sender[u].to \in notices /\ mails[sender[u].to] = 0
    BY <1>10 DEF Inv, MailSound, At
  <2>2. sender[u].to \in Addressed
    BY <2>1 DEF Inv, TypeOK
  <2> QED BY <1>3, <1>6, <2>1, <2>2
<1>12. MailAlone'
  BY <1>10 DEF Inv, MailAlone, Mails, At
<1> QED BY <1>4, <1>8, <1>9, <1>11, <1>12 DEF Inv

LEMMA Invariant == Spec => []Inv
<1>1. Inv /\ [Next]_vars => Inv'
  <2> SUFFICES ASSUME Inv, [Next]_vars PROVE Inv'
    OBVIOUS
  <2>0. faults \in 0..MaxFaults /\ \A s \in Senders : SenderTyped(sender[s], now)
    BY TypeByPart DEF Inv
  <2>1. ASSUME NEW s \in Polls, PollStart(s) PROVE Inv'
    <3> DEFINE todo == {<<t, gate[t]>> : t \in {u \in Talents : Due(gate[u])}}
    <3>1. Dated(todo, now)
      BY DEF Dated, Due, Addressed, Inv, TypeOK
    <3>2. Goes(s, Carrying(todo)) /\ UNCHANGED <<now, gate, gone, notices, mails, faults>>
      BY <2>1 DEF PollStart
    <3> QED BY <2>0, <3>1, <3>2, CarryStep DEF Senders
  <2>2. ASSUME NEW s \in Dashboards, NEW t \in Talents, OpenDashboard(s, t) PROVE Inv'
    <3> DEFINE todo == {<<t, gate[t]>>}
    <3>1. Dated(todo, now)
      BY <2>2 DEF OpenDashboard, Dated, Due, Addressed, Inv, TypeOK
    <3>2. Goes(s, Carrying(todo)) /\ UNCHANGED <<now, gate, gone, notices, mails, faults>>
      BY <2>2 DEF OpenDashboard
    <3> QED BY <2>0, <3>1, <3>2, CarryStep DEF Senders
  <2>3. ASSUME NEW s \in Senders, NEW a \in Addressed, Create(s, a) PROVE Inv'
    BY <2>3, CreateStep
  <2>4. ASSUME NEW s \in Senders, NEW a \in Addressed, CreateFails(s, a) PROVE Inv'
    <3> DEFINE todo == sender[s].todo \ {a}
    <3>1. Dated(todo, now)
      BY <2>0 DEF SenderTyped, Dated
    <3>2. Goes(s, Carrying(todo)) /\ UNCHANGED <<now, gate, gone, notices, mails>>
      BY <2>4 DEF CreateFails
    <3>3. faults' \in 0..MaxFaults
      BY <2>0, <2>4, RetakeAssumption DEF CreateFails
    <3> QED BY <3>1, <3>2, <3>3, CarryStep
  <2>5. ASSUME NEW s \in Senders, Mail(s) PROVE Inv'
    BY <2>5, MailStep
  <2>6. CASE Crash
    <3>1. /\ \A s \in Senders : sender'[s] = Idle
          /\ Function'
          /\ faults' \in 0..MaxFaults
          /\ UNCHANGED <<now, gate, gone, notices, mails>>
      BY <2>0, <2>6, RetakeAssumption DEF Crash, Function
    <3>2. TypeOK'
      BY <3>1 DEF Inv, TypeOK, Idle
    <3> QED BY <3>1, <3>2, QuietStep DEF Idle
  <2> QED BY <2>1, <2>2, <2>3, <2>4, <2>5, <2>6, WorldStep DEF Next
<1> QED BY <1>1, InitInv, PTL DEF Spec

(* Types hold, and what a sender carries are dates that have come.         *)
THEOREM TypeCorrect == Spec => []TypeOK
<1>1. Inv => TypeOK
  BY DEF Inv
<1> QED BY <1>1, Invariant, PTL

(* However many polls and dashboards see a gate at once, and whatever      *)
(* fails between notice and mail, a talent is mailed once for a date.      *)
THEOREM MailedOnceHolds == Spec => []MailedOnce
<1>1. Inv => MailedOnce
  BY DEF Inv
<1> QED BY <1>1, Invariant, PTL

=============================================================================
