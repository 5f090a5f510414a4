---------------------------- MODULE Offers_proofs ----------------------------
(***************************************************************************)
(* Proofs about Offers, for every number of employers, candidates, roles,  *)
(* concurrent requests and offers.                                         *)
(***************************************************************************)
EXTENDS Offers, FunctionTheorems, FiniteSetTheorems, TLAPS

(***************************************************************************)
(* Types.                                                                  *)
(***************************************************************************)

(* A candidate's n-th offer for a role is an offer.                        *)
LEMMA OfferTuple ==
  ASSUME NEW c \in Candidates, NEW r \in Roles, NEW n \in 1 .. MaxResends
  PROVE  <<c, r, n>> \in OfferIds
BY DEF OfferIds

(* Every offer is of a candidate, for a role of an employer.               *)
LEMMA OfferOwner ==
  ASSUME NEW o \in OfferIds
  PROVE  /\ CandidateOf(o) \in Candidates /\ RoleOf(o) \in Roles
         /\ EmployerOf(o) \in Employers
BY OwnerAssumption DEF OfferIds, CandidateOf, RoleOf, EmployerOf

(* Expiring any set of offers keeps the statuses well typed.               *)
LEMMA SetExpiredType ==
  ASSUME NEW os, TypeOK, SetExpired(os)
  PROVE  status' \in [OfferIds -> RowStatus]
BY DEF TypeOK, SetExpired, RowStatus, OfferStatus, Settled

(* Every sending request keeps every variable in its type.                 *)
LEMMA SendTyped == TypeOK /\ SendNext => TypeOK'
<1> SUFFICES ASSUME TypeOK, NEW s \in Senders,
                    \/ \E r \in Roles, cs \in SUBSET Candidates :
                         SendStart(s, r, cs)
                    \/ \E c \in Candidates : SendCheck(s, c)
                    \/ SendBegin(s) \/ SendCommit(s) \/ SendRollback(s)
                    \/ SendEnd(s)
             PROVE  TypeOK'
  BY DEF SendNext
<1> USE DEF rows, world, Idle
<1>0. send[s] \in SendRequest
  BY DEF TypeOK
<1>1. ASSUME NEW r \in Roles, NEW cs \in SUBSET Candidates, SendStart(s, r, cs)
      PROVE  TypeOK'
  <2>1. [pc |-> "next", role |-> r, todo |-> cs] \in SendRequest
    BY DEF SendRequest
  <2> QED BY <1>1, <2>1 DEF SendStart, TypeOK
<1>2. ASSUME NEW c \in Candidates, SendCheck(s, c)
      PROVE  TypeOK'
  <2>1. send[s].role \in Roles /\ send[s].todo \in SUBSET Candidates
    BY <1>0, <1>2 DEF SendCheck, SendRequest
  <2>2. send'[s] \in SendRequest
    BY <1>2, <2>1 DEF SendCheck, TypeOK, SendRequest
  <2>3. send' \in [Senders -> SendRequest]
    BY <1>2, <2>2 DEF SendCheck, TypeOK
  <2> QED BY <1>2, <2>3 DEF SendCheck, TypeOK
<1>3. ASSUME SendBegin(s) PROVE TypeOK'
  <2>1. send'[s] \in SendRequest
    BY <1>0, <1>3 DEF SendBegin, TypeOK, SendRequest
  <2> QED BY <1>3, <2>1 DEF SendBegin, TypeOK
<1>4. ASSUME SendCommit(s) PROVE TypeOK'
  <2>1. /\ send[s].role \in Roles /\ send[s].todo \in SUBSET Candidates
        /\ send[s].cand \in Candidates /\ send[s].begun \in Months
    BY <1>0, <1>4 DEF SendCommit, SendRequest
  <2>2. send'[s] \in SendRequest
    BY <2>1, <1>4 DEF SendCommit, TypeOK, SendRequest
  <2>3. send' \in [Senders -> SendRequest]
    BY <1>4, <2>2 DEF SendCommit, TypeOK
  <2>4. role' \in [Roles -> RoleRow]
    BY <1>4, <2>1 DEF SendCommit, TypeOK, RoleRow
  <2>5. status' \in [OfferIds -> RowStatus]
    BY <1>4 DEF SendCommit, TypeOK, RowStatus, OfferStatus
  <2>6. /\ sentAt' \in [OfferIds -> Months \cup {0}]
        /\ countedIn' \in [OfferIds -> Months \cup {0}]
    <3>1. PICK n \in 1 .. MaxResends :
            LET o == <<send[s].cand, send[s].role, n>> IN
            /\ sentAt' = [sentAt EXCEPT ![o] = send[s].begun]
            /\ countedIn' = [countedIn EXCEPT ![o] = month]
      BY <1>4 DEF SendCommit
    <3> QED BY <2>1, <3>1 DEF TypeOK
  <2> QED BY <1>4, <2>3, <2>4, <2>5, <2>6 DEF SendCommit, TypeOK
<1>5. ASSUME SendRollback(s) PROVE TypeOK'
  <2>1. send'[s] \in SendRequest
    BY <1>0, <1>5 DEF SendRollback, TypeOK, SendRequest
  <2> QED BY <1>5, <2>1 DEF SendRollback, TypeOK
<1>6. ASSUME SendEnd(s) PROVE TypeOK'
  BY <1>6 DEF SendEnd, TypeOK, SendRequest
<1> QED BY <1>1, <1>2, <1>3, <1>4, <1>5, <1>6

(* Every request about one offer keeps every variable in its type.         *)
LEMMA OpTyped == TypeOK /\ OpNext => TypeOK'
<1> SUFFICES ASSUME TypeOK, NEW h \in Handlers,
                    \/ \E o \in OfferIds : OpBegin(h, o)
                    \/ RespondExpire(h) \/ Respond(h) \/ Withdraw(h)
                    \/ LinkSave(h) \/ ViewExpire(h) \/ Hire(h) \/ OpTell(h)
             PROVE  TypeOK'
  BY DEF OpNext
<1> USE DEF rows, world, Idle, OpStep
<1>0. op[h] \in OpRequest
  BY DEF TypeOK
<1>1. ASSUME NEW o \in OfferIds, OpBegin(h, o)
      PROVE  TypeOK'
  <2>1. ASSUME NEW a \in {"accepted", "declined"}, RespondStart(h, o, a)
        PROVE  TypeOK'
    <3>1. [pc |-> "expire", offer |-> o, answer |-> a] \in OpRequest
      BY DEF OpRequest
    <3> QED BY <2>1, <3>1 DEF RespondStart, TypeOK
  <2>2. ASSUME WithdrawStart(h, o) PROVE TypeOK'
    <3>1. [pc |-> "withdraw", offer |-> o] \in OpRequest
      BY DEF OpRequest
    <3> QED BY <2>2, <3>1 DEF WithdrawStart, TypeOK
  <2>3. ASSUME LinkStart(h, o) PROVE TypeOK'
    <3>1. status[o] \in OfferStatus
      BY <2>3 DEF LinkStart, OpStart, TypeOK, RowStatus
    <3>2. [pc |-> "save", offer |-> o, saw |-> status[o]] \in OpRequest
      BY <3>1 DEF OpRequest
    <3> QED BY <2>3, <3>2 DEF LinkStart, TypeOK
  <2>4. ASSUME ViewStart(h, o) PROVE TypeOK'
    <3>1. [pc |-> "view", offer |-> o] \in OpRequest
      BY DEF OpRequest
    <3> QED BY <2>4, <3>1 DEF ViewStart, TypeOK
  <2>5. ASSUME HireStart(h, o) PROVE TypeOK'
    <3>1. [pc |-> "hire", offer |-> o] \in OpRequest
      BY DEF OpRequest
    <3> QED BY <2>5, <3>1 DEF HireStart, TypeOK
  <2> QED BY <1>1, <2>1, <2>2, <2>3, <2>4, <2>5 DEF OpBegin
<1>2. ASSUME RespondExpire(h) PROVE TypeOK'
  <2>1. op[h].offer \in OfferIds /\ op[h].answer \in {"accepted", "declined"}
    BY <1>0, <1>2 DEF RespondExpire, OpRequest
  <2>2. /\ Idle \in OpRequest
        /\ [pc |-> "respond", offer |-> op[h].offer, answer |-> op[h].answer]
             \in OpRequest
    BY <2>1 DEF OpRequest
  <2>3. op' \in [Handlers -> OpRequest]
    BY <1>2, <2>2 DEF RespondExpire, TypeOK
  <2>4. status' \in [OfferIds -> RowStatus]
    BY <1>2, SetExpiredType DEF RespondExpire, TypeOK
  <2> QED BY <1>2, <2>3, <2>4 DEF RespondExpire, TypeOK
<1>3. ASSUME Respond(h) PROVE TypeOK'
  <2>1. op[h].offer \in OfferIds /\ op[h].answer \in {"accepted", "declined"}
    BY <1>0, <1>3 DEF Respond, RespondTo, OpRequest
  <2>2. /\ Idle \in OpRequest
        /\ [pc |-> "tell", offer |-> op[h].offer, notice |-> op[h].answer]
             \in OpRequest
    BY <2>1 DEF OpRequest, Notices
  <2>3. op' \in [Handlers -> OpRequest]
    BY <1>3, <2>2 DEF Respond, RespondTo, TypeOK
  <2>4. status' \in [OfferIds -> RowStatus]
    BY <1>3, <2>1 DEF Respond, RespondTo, TypeOK, RowStatus, OfferStatus,
                      Settled
  <2> QED BY <1>3, <2>3, <2>4 DEF Respond, RespondTo, TypeOK
<1>4. ASSUME Withdraw(h) PROVE TypeOK'
  <2>1. op[h].offer \in OfferIds
    BY <1>0, <1>4 DEF Withdraw, OpRequest
  <2>2. [pc |-> "tell", offer |-> op[h].offer, notice |-> "withdrawn"]
          \in OpRequest
    BY <2>1 DEF OpRequest, Notices
  <2>3. status' \in [OfferIds -> RowStatus]
    BY <1>4 DEF Withdraw, TypeOK, RowStatus, OfferStatus, Settled
  <2> QED BY <1>4, <2>2, <2>3 DEF Withdraw, TypeOK
<1>5. ASSUME LinkSave(h) PROVE TypeOK'
  <2>1. op[h].saw \in RowStatus
    BY <1>0, <1>5 DEF LinkSave, OpRequest, RowStatus
  <2>2. status' \in [OfferIds -> RowStatus]
    BY <1>5, <2>1 DEF LinkSave, TypeOK
  <2>3. overwritten' \subseteq OfferIds
    BY <1>5 DEF LinkSave, Overwrites, TypeOK
  <2> QED BY <1>5, <2>2, <2>3 DEF LinkSave, TypeOK, OpRequest
<1>6. ASSUME ViewExpire(h) PROVE TypeOK'
  <2>1. status' \in [OfferIds -> RowStatus]
    BY <1>6, SetExpiredType DEF ViewExpire
  <2>2. overwritten' \subseteq OfferIds
    BY <1>6 DEF ViewExpire, Overwrites, TypeOK
  <2> QED BY <1>6, <2>1, <2>2 DEF ViewExpire, TypeOK, OpRequest
<1>7. ASSUME Hire(h) PROVE TypeOK'
  <2>1. hires' \in [Employers -> Nat]
    <3>1. hires \in [Employers -> Nat]
      BY DEF TypeOK
    <3>2. EmployerOf(op[h].offer) \in Employers
      BY <1>0, <1>7, OfferOwner DEF Hire, OpRequest
    <3> QED BY <1>7, <3>1, <3>2 DEF Hire
  <2>2. op' \in [Handlers -> OpRequest]
    BY <1>7 DEF Hire, TypeOK, OpRequest
  <2> QED BY <1>7, <2>1, <2>2 DEF Hire, TypeOK
<1>8. ASSUME OpTell(h) PROVE TypeOK'
  <2>1. op[h].offer \in OfferIds /\ op[h].notice \in Notices
    BY <1>0, <1>8 DEF OpTell, OpRequest
  <2>2. told' \subseteq Notices \X OfferIds
    BY <1>8, <2>1 DEF OpTell, Deliver, TypeOK
  <2> QED BY <1>8, <2>2 DEF OpTell, TypeOK, OpRequest
<1> QED BY <1>1, <1>2, <1>3, <1>4, <1>5, <1>6, <1>7, <1>8

(* The lists, the poller, the saves of a role and the world keep types.    *)
LEMMA RestTyped ==
  TypeOK /\ (ListNext \/ Poller \/ EditNext \/ WorldNext) => TypeOK'
<1> SUFFICES ASSUME TypeOK, ListNext \/ Poller \/ EditNext \/ WorldNext
             PROVE  TypeOK'
  OBVIOUS
<1> USE DEF rows, world, procs, Idle
<1>1. ASSUME ListNext PROVE TypeOK'
  <2>1. status' \in [OfferIds -> RowStatus]
    BY <1>1, SetExpiredType DEF ListNext, ExpireStaleOffers,
                                ExpireStaleOffersForCandidate
  <2> QED BY <1>1, <2>1 DEF ListNext, ExpireStaleOffers,
                            ExpireStaleOffersForCandidate, TypeOK
<1>2. ASSUME PollExpire PROVE TypeOK'
  <2>1. status' \in [OfferIds -> RowStatus]
    BY <1>2, SetExpiredType DEF PollExpire
  <2>2. Overdue \in SUBSET OfferIds
    BY DEF Overdue, TypeOK
  <2> QED BY <1>2, <2>1, <2>2 DEF PollExpire, TypeOK
<1>3. ASSUME NEW o \in OfferIds, PollTell(o) PROVE TypeOK'
  BY <1>3 DEF PollTell, Deliver, TypeOK, Notices
<1>4. ASSUME PollEnd PROVE TypeOK'
  BY <1>4 DEF PollEnd, TypeOK
<1>5. ASSUME EditNext PROVE TypeOK'
  <2>1. PICK w \in Editors :
          \/ \E r \in Roles, st \in {"active", "closed"} : EditStart(w, r, st)
          \/ EditSave(w)
    BY <1>5 DEF EditNext
  <2>2. ASSUME NEW r \in Roles, NEW st \in {"active", "closed"},
               EditStart(w, r, st)
        PROVE  TypeOK'
    <3>1. [pc |-> "save", role |-> r,
           copy |-> [status |-> st, sent |-> role[r].sent]] \in EditRequest
      BY DEF TypeOK, EditRequest, RoleRow
    <3> QED BY <2>2, <3>1 DEF EditStart, TypeOK
  <2>3. ASSUME EditSave(w) PROVE TypeOK'
    <3>1. edit[w].role \in Roles /\ edit[w].copy \in RoleRow
      BY <2>3 DEF EditSave, TypeOK, EditRequest
    <3> QED BY <2>3, <3>1 DEF EditSave, TypeOK, EditRequest
  <2> QED BY <2>1, <2>2, <2>3
<1>6. ASSUME NEW o \in OfferIds, OfferFallsDue(o) PROVE TypeOK'
  BY <1>6 DEF OfferFallsDue, TypeOK
<1>7. ASSUME MonthPasses PROVE TypeOK'
  <2>1. month' \in Months
    BY <1>7, BoundsAssumption DEF MonthPasses, TypeOK, Months
  <2> QED BY <1>7, <2>1 DEF MonthPasses, TypeOK
<1>8. ASSUME NEW e \in Employers, CheckVerification(e) PROVE TypeOK'
  BY <1>8 DEF CheckVerification, TypeOK
<1>9. ASSUME NEW c \in Candidates, CandidateReady(c) PROVE TypeOK'
  BY <1>9 DEF CandidateReady, TypeOK
<1>10. ASSUME Crash PROVE TypeOK'
  BY <1>10 DEF Crash, TypeOK, SendRequest, OpRequest, EditRequest
<1> QED BY <1>1, <1>2, <1>3, <1>4, <1>5, <1>6, <1>7, <1>8, <1>9, <1>10
        DEF Poller, WorldNext

LEMMA TypeInit == Init => TypeOK
BY BoundsAssumption
   DEF Init, TypeOK, RowStatus, RoleRow, Months, SendRequest, OpRequest,
       EditRequest

LEMMA TypeStep == TypeOK /\ [Next]_vars => TypeOK'
<1>1. TypeOK /\ UNCHANGED vars => TypeOK'
  BY DEF vars, TypeOK
<1> QED BY <1>1, SendTyped, OpTyped, RestTyped DEF Next

(* Every variable keeps its type, whatever requests and timers interleave. *)
THEOREM TypeCorrect == Spec => []TypeOK
BY TypeInit, TypeStep, PTL DEF Spec

(***************************************************************************)
(* One active offer per candidate and role.                                *)
(***************************************************************************)

(* A step after which no offer is newly active keeps the invariant.        *)
LEMMA NoNewActive ==
  ASSUME OneActiveOffer,
         \A o \in OfferIds : status'[o] \in Active => status[o] \in Active
  PROVE  OneActiveOffer'
BY DEF OneActiveOffer, Same, CandidateOf, RoleOf

(* So does a write to one offer that the unique index allows.              *)
LEMMA IndexedWrite ==
  ASSUME TypeOK, OneActiveOffer, NEW x \in OfferIds, NEW st,
         UniqueIndexAllows(x, st), status' = [status EXCEPT ![x] = st]
  PROVE  OneActiveOffer'
<1> SUFFICES ASSUME NEW o \in OfferIds, NEW p \in OfferIds,
                    o # p, Same(o, p), status'[o] \in Active
             PROVE  status'[p] \notin Active
  BY DEF OneActiveOffer, Same, CandidateOf, RoleOf
<1>0. status \in [OfferIds -> RowStatus]
  BY DEF TypeOK
<1>1. CASE o = x
  BY <1>0, <1>1 DEF UniqueIndexAllows
<1>2. CASE p = x
  BY <1>0, <1>2 DEF UniqueIndexAllows, Same
<1>3. CASE o # x /\ p # x
  BY <1>0, <1>3 DEF OneActiveOffer
<1> QED BY <1>1, <1>2, <1>3

(* Every other write to a status sets a settled one or answers a pending   *)
(* offer; only a send and a saved link need the index.                     *)
LEMMA OneActiveStep ==
  TypeOK /\ OneActiveOffer /\ [Next]_vars => OneActiveOffer'
<1> SUFFICES ASSUME TypeOK, OneActiveOffer, [Next]_vars
             PROVE  OneActiveOffer'
  OBVIOUS
<1> USE DEF rows, world, procs
<1>0. ASSUME UNCHANGED status PROVE OneActiveOffer'
  BY <1>0, NoNewActive
<1>1. ASSUME NEW s \in Senders, SendCommit(s) PROVE OneActiveOffer'
  <2>1. send[s].cand \in Candidates /\ send[s].role \in Roles
    BY <1>1 DEF SendCommit, TypeOK, SendRequest, Idle
  <2>2. PICK n \in 1 .. MaxResends :
          LET o == <<send[s].cand, send[s].role, n>> IN
          /\ UniqueIndexAllows(o, "pending")
          /\ status' = [status EXCEPT ![o] = "pending"]
    BY <1>1 DEF SendCommit
  <2> QED BY <2>1, <2>2, IndexedWrite, OfferTuple
<1>2. ASSUME SendNext PROVE OneActiveOffer'
  BY <1>0, <1>1, <1>2
     DEF SendNext, SendStart, SendCheck, SendBegin, SendRollback, SendEnd
<1>3. ASSUME NEW os, SetExpired(os) PROVE OneActiveOffer'
  BY <1>3, NoNewActive DEF SetExpired, Active
<1>4. ASSUME NEW h \in Handlers, NEW o \in OfferIds, OpBegin(h, o)
      PROVE  OneActiveOffer'
  BY <1>0, <1>4
     DEF OpBegin, RespondStart, WithdrawStart, LinkStart, ViewStart, HireStart
<1>5. ASSUME NEW h \in Handlers, RespondExpire(h) PROVE OneActiveOffer'
  BY <1>0, <1>3, <1>5 DEF RespondExpire
<1>6. ASSUME NEW h \in Handlers, Respond(h) PROVE OneActiveOffer'
  <2>1. \A o \in OfferIds : status'[o] \in Active => status[o] \in Active
    BY <1>6 DEF Respond, RespondTo, StillPending, TypeOK, Active
  <2> QED BY <2>1, NoNewActive
<1>7. ASSUME NEW h \in Handlers, Withdraw(h) PROVE OneActiveOffer'
  <2>1. \A o \in OfferIds : status'[o] \in Active => status[o] \in Active
    BY <1>7 DEF Withdraw, StillPending, TypeOK, Active
  <2> QED BY <2>1, NoNewActive
<1>8. ASSUME NEW h \in Handlers, LinkSave(h) PROVE OneActiveOffer'
  <2>1. op[h].offer \in OfferIds
    BY <1>8 DEF LinkSave, TypeOK, OpRequest, Idle
  <2>2. CASE UniqueIndexAllows(op[h].offer, op[h].saw)
    BY <1>8, <2>1, <2>2, IndexedWrite DEF LinkSave
  <2>3. CASE ~ UniqueIndexAllows(op[h].offer, op[h].saw)
    BY <1>0, <1>8, <2>3 DEF LinkSave
  <2> QED BY <2>2, <2>3
<1>9. ASSUME OpNext PROVE OneActiveOffer'
  BY <1>0, <1>3, <1>4, <1>5, <1>6, <1>7, <1>8, <1>9
     DEF OpNext, ViewExpire, Hire, OpTell
<1>10. ASSUME ListNext PROVE OneActiveOffer'
  BY <1>3, <1>10 DEF ListNext, ExpireStaleOffers, ExpireStaleOffersForCandidate
<1>11. ASSUME Poller PROVE OneActiveOffer'
  BY <1>0, <1>3, <1>11 DEF Poller, PollExpire, PollTell, PollEnd
<1>12. ASSUME EditNext \/ WorldNext \/ UNCHANGED vars PROVE OneActiveOffer'
  BY <1>0, <1>12
     DEF EditNext, EditStart, EditSave, WorldNext, OfferFallsDue, MonthPasses,
         CheckVerification, CandidateReady, Crash, vars
<1> QED BY <1>2, <1>9, <1>10, <1>11, <1>12 DEF Next

(* A candidate never has two pending or accepted offers for one role,      *)
(* whatever sends, answers, saved links, expiries and crashes interleave.  *)
THEOREM OneActiveOfferHolds == Spec => []OneActiveOffer
<1>1. Init => OneActiveOffer
  BY DEF Init, OneActiveOffer, Active
<1> QED BY <1>1, TypeCorrect, OneActiveStep, PTL DEF Spec

(***************************************************************************)
(* The monthly cap.                                                        *)
(***************************************************************************)

LEMMA OffersFinite == IsFiniteSet(OfferIds)
<1>1. IsFiniteSet(1 .. MaxResends)
  BY FS_Interval, BoundsAssumption
<1>2. IsFiniteSet(Roles \X (1 .. MaxResends))
  BY <1>1, FS_Product, FiniteAssumption
<1> DEFINE Flat == Candidates \X (Roles \X (1 .. MaxResends))
           f == [x \in Flat |-> <<x[1], x[2][1], x[2][2]>>]
<1>3. IsFiniteSet(Flat)
  BY <1>2, FS_Product, FiniteAssumption
<1>4. f \in Surjection(Flat, OfferIds)
  <2>1. f \in [Flat -> OfferIds]
    BY DEF OfferIds
  <2>2. ASSUME NEW o \in OfferIds PROVE \E x \in Flat : f[x] = o
    <3>1. PICK c \in Candidates, r \in Roles, n \in 1 .. MaxResends :
            o = <<c, r, n>>
      BY DEF OfferIds
    <3>2. <<c, <<r, n>>>> \in Flat /\ f[<<c, <<r, n>>>>] = o
      BY <3>1
    <3> QED BY <3>2
  <2> QED BY <2>1, <2>2 DEF Surjection
<1> HIDE DEF Flat, f
<1> QED BY <1>3, <1>4, FS_Surjection

(* A set within a finite set and one more element.                         *)
LEMMA AtMostOneMore ==
  ASSUME NEW S, IsFiniteSet(S), NEW x, NEW T \in SUBSET (S \cup {x})
  PROVE  /\ Cardinality(S) \in Nat /\ Cardinality(T) \in Nat
         /\ Cardinality(T) <= Cardinality(S) + 1
<1>1. Cardinality(S) \in Nat
  BY FS_CardinalityType
<1>2. /\ IsFiniteSet(S \cup {x})
      /\ Cardinality(S \cup {x}) \in {Cardinality(S), Cardinality(S) + 1}
  BY FS_AddElement
<1>3. Cardinality(T) <= Cardinality(S \cup {x}) /\ IsFiniteSet(T)
  BY <1>2, FS_Subset
<1>4. Cardinality(T) \in Nat
  BY <1>3, FS_CardinalityType
<1> QED BY <1>1, <1>2, <1>3, <1>4

(* The count is taken under the lock and over more rows than those counted *)
(* in the month, so a send admits at most one row to a set below the cap.  *)
LEMMA CapStep == TypeOK /\ CapPerCountedMonth /\ [Next]_vars => CapPerCountedMonth'
<1> SUFFICES ASSUME TypeOK, CapPerCountedMonth, [Next]_vars
             PROVE  CapPerCountedMonth'
  OBVIOUS
<1> USE DEF rows, world, procs
<1>1. ASSUME UNCHANGED <<sentAt, countedIn>> PROVE CapPerCountedMonth'
  BY <1>1 DEF CapPerCountedMonth, CountedLog, LogOf
<1>2. ASSUME NEW s \in Senders, SendCommit(s) PROVE CapPerCountedMonth'
  <2> DEFINE e == RoleOwner[send[s].role]
  <2>1. /\ send[s].cand \in Candidates /\ send[s].role \in Roles
        /\ send[s].begun \in Months
    BY <1>2 DEF SendCommit, TypeOK, SendRequest, Idle
  <2>2. PICK n \in 1 .. MaxResends :
          LET o == <<send[s].cand, send[s].role, n>> IN
          /\ sentAt' = [sentAt EXCEPT ![o] = send[s].begun]
          /\ countedIn' = [countedIn EXCEPT ![o] = month]
    BY <1>2 DEF SendCommit
  <2> DEFINE x == <<send[s].cand, send[s].role, n>>
  <2>3. x \in OfferIds /\ EmployerOf(x) = e
    BY <2>1, OfferTuple DEF EmployerOf, RoleOf
  <2>4. Cardinality(LogOf(e, month)) < MonthlyCap
    BY <1>2 DEF SendCommit, UnderCap
  <2> HIDE DEF x, e
  <2> SUFFICES ASSUME NEW f \in Employers, NEW m \in Months
               PROVE  Cardinality(CountedLog(f, m)') <= MonthlyCap
    BY DEF CapPerCountedMonth
  <2>5. \A y \in OfferIds \ {x} : sentAt'[y] = sentAt[y]
                                  /\ countedIn'[y] = countedIn[y]
    BY <2>2 DEF x, TypeOK
  <2>6. countedIn'[x] = month
    BY <2>2, <2>3 DEF x, TypeOK
  <2>7. IsFiniteSet(LogOf(e, month)) /\ IsFiniteSet(CountedLog(f, m))
    BY OffersFinite, FS_Subset DEF LogOf, CountedLog
  <2>8. CASE f = e /\ m = month
    <3>1. CountedLog(f, m)' \subseteq LogOf(e, month) \cup {x}
      BY <2>5, <2>8 DEF CountedLog, LogOf
    <3>2. /\ Cardinality(CountedLog(f, m)') <= Cardinality(LogOf(e, month)) + 1
          /\ Cardinality(CountedLog(f, m)') \in Nat
          /\ Cardinality(LogOf(e, month)) \in Nat
      BY <2>7, <3>1, AtMostOneMore
    <3> QED BY <2>4, <3>2, BoundsAssumption
  <2>9. CASE ~ (f = e /\ m = month)
    <3>1. CountedLog(f, m)' \subseteq CountedLog(f, m)
      BY <2>3, <2>5, <2>6, <2>9 DEF CountedLog, LogOf
    <3>2. Cardinality(CountedLog(f, m)') <= Cardinality(CountedLog(f, m))
      BY <2>7, <3>1, FS_Subset
    <3>3. /\ Cardinality(CountedLog(f, m)') \in Nat
          /\ Cardinality(CountedLog(f, m)) \in Nat
      BY <2>7, <3>1, FS_Subset, FS_CardinalityType
    <3>4. Cardinality(CountedLog(f, m)) <= MonthlyCap
      BY DEF CapPerCountedMonth
    <3> QED BY <3>2, <3>3, <3>4, BoundsAssumption
  <2> QED BY <2>8, <2>9
<1>3. ASSUME SendNext PROVE CapPerCountedMonth'
  BY <1>1, <1>2, <1>3
     DEF SendNext, SendStart, SendCheck, SendBegin, SendRollback, SendEnd
<1>4. ASSUME OpNext PROVE CapPerCountedMonth'
  BY <1>1, <1>4
     DEF OpNext, OpBegin, RespondStart, RespondExpire, Respond, RespondTo,
         WithdrawStart, Withdraw, LinkStart, LinkSave, ViewStart, ViewExpire,
         HireStart, Hire, OpTell
<1>5. ASSUME ListNext \/ Poller PROVE CapPerCountedMonth'
  BY <1>1, <1>5
     DEF ListNext, ExpireStaleOffers, ExpireStaleOffersForCandidate, Poller,
         PollExpire, PollTell, PollEnd
<1>6. ASSUME EditNext \/ WorldNext \/ UNCHANGED vars PROVE CapPerCountedMonth'
  BY <1>1, <1>6
     DEF EditNext, EditStart, EditSave, WorldNext, OfferFallsDue, MonthPasses,
         CheckVerification, CandidateReady, Crash, vars
<1> QED BY <1>3, <1>4, <1>5, <1>6 DEF Next

(* However many batches run at once, an employer never has more than       *)
(* MonthlyCap offers in the month they were stamped and counted in.        *)
THEOREM CapHolds == Spec => []CapPerCountedMonth
<1>1. Init => CapPerCountedMonth
  <2> SUFFICES ASSUME Init, NEW e \in Employers, NEW m \in Months
               PROVE  Cardinality(CountedLog(e, m)) <= MonthlyCap
    BY DEF CapPerCountedMonth
  <2>1. CountedLog(e, m) = {}
    BY DEF Init, CountedLog, LogOf, Months
  <2> QED BY <2>1, FS_EmptySet, BoundsAssumption
<1> QED BY <1>1, TypeCorrect, CapStep, PTL DEF Spec

(***************************************************************************)
(* offers_sent_count.                                                      *)
(***************************************************************************)

(* What a save of a role may write back was true when it was loaded, and   *)
(* the log only grows: a row that was not inserted has no log.             *)
SentInv ==
  /\ SentNeverOverstated
  /\ \A o \in OfferIds : status[o] = "none" => sentAt[o] = 0
  /\ \A w \in Editors : edit[w].pc = "save" =>
       edit[w].copy.sent <= Cardinality(LogOfRole(edit[w].role))

(* No step deletes an offer.                                               *)
LEMMA OffersStay ==
  TypeOK /\ [Next]_vars =>
    \A o \in OfferIds : status'[o] = "none" => status[o] = "none"
<1> SUFFICES ASSUME TypeOK, [Next]_vars, NEW o \in OfferIds,
                    status'[o] = "none"
             PROVE  status[o] = "none"
  OBVIOUS
<1> USE DEF rows, world, procs
<1>0. ASSUME UNCHANGED status PROVE status[o] = "none"
  BY <1>0
<1>1. ASSUME NEW os, SetExpired(os) PROVE status[o] = "none"
  BY <1>1 DEF SetExpired
<1>2. ASSUME SendNext PROVE status[o] = "none"
  BY <1>0, <1>2
     DEF SendNext, SendStart, SendCheck, SendBegin, SendCommit, SendRollback,
         SendEnd, TypeOK
<1>3. ASSUME NEW h \in Handlers, NEW p \in OfferIds, OpBegin(h, p)
      PROVE  status[o] = "none"
  BY <1>0, <1>3
     DEF OpBegin, RespondStart, WithdrawStart, LinkStart, ViewStart, HireStart
<1>4. ASSUME NEW h \in Handlers, Respond(h) PROVE status[o] = "none"
  <2>1. op[h].answer # "none"
    BY <1>4 DEF Respond, RespondTo, TypeOK, OpRequest, Idle
  <2> QED BY <1>4, <2>1 DEF Respond, RespondTo, TypeOK
<1>5. ASSUME NEW h \in Handlers, LinkSave(h) PROVE status[o] = "none"
  <2>1. op[h].saw # "none"
    BY <1>5 DEF LinkSave, TypeOK, OpRequest, Idle, OfferStatus, Settled
  <2> QED BY <1>5, <2>1 DEF LinkSave, TypeOK
<1>6. ASSUME NEW h \in Handlers, Withdraw(h) PROVE status[o] = "none"
  BY <1>6 DEF Withdraw, TypeOK
<1>7. ASSUME OpNext PROVE status[o] = "none"
  BY <1>0, <1>1, <1>3, <1>4, <1>5, <1>6, <1>7
     DEF OpNext, RespondExpire, ViewExpire, Hire, OpTell
<1>8. ASSUME ListNext \/ Poller PROVE status[o] = "none"
  BY <1>0, <1>1, <1>8
     DEF ListNext, ExpireStaleOffers, ExpireStaleOffersForCandidate, Poller,
         PollExpire, PollTell, PollEnd
<1>9. ASSUME EditNext \/ WorldNext \/ UNCHANGED vars PROVE status[o] = "none"
  BY <1>0, <1>9
     DEF EditNext, EditStart, EditSave, WorldNext, OfferFallsDue, MonthPasses,
         CheckVerification, CandidateReady, Crash, vars
<1> QED BY <1>2, <1>7, <1>8, <1>9 DEF Next

LEMMA SentStep == TypeOK /\ SentInv /\ [Next]_vars => SentInv'
<1> SUFFICES ASSUME TypeOK, SentInv, [Next]_vars
             PROVE  SentInv'
  OBVIOUS
<1> USE DEF rows, world, procs
<1>0. \A o \in OfferIds : status'[o] = "none" => status[o] = "none"
  BY OffersStay
<1>1. ASSUME UNCHANGED <<sentAt, role>>,
             UNCHANGED edit \/ edit' = [w \in Editors |-> Idle]
      PROVE  SentInv'
  BY <1>0, <1>1 DEF SentInv, SentNeverOverstated, LogOfRole, Idle
<1>2. ASSUME NEW s \in Senders, SendCommit(s) PROVE SentInv'
  <2>1. /\ send[s].cand \in Candidates /\ send[s].role \in Roles
        /\ send[s].begun \in Months
    BY <1>2 DEF SendCommit, TypeOK, SendRequest, Idle
  <2>2. PICK n \in 1 .. MaxResends :
          LET o == <<send[s].cand, send[s].role, n>> IN
          /\ status[o] = "none"
          /\ status' = [status EXCEPT ![o] = "pending"]
          /\ sentAt' = [sentAt EXCEPT ![o] = send[s].begun]
    BY <1>2 DEF SendCommit
  <2> DEFINE x == <<send[s].cand, send[s].role, n>>
  <2>3. x \in OfferIds /\ RoleOf(x) = send[s].role
    BY <2>1, OfferTuple DEF RoleOf
  <2>4. /\ sentAt[x] = 0
        /\ sentAt'[x] # 0 /\ status'[x] = "pending"
        /\ \A y \in OfferIds \ {x} :
             status'[y] = status[y] /\ sentAt'[y] = sentAt[y]
    BY <2>1, <2>2, <2>3 DEF TypeOK, SentInv, Months
  <2> HIDE DEF x
  <2>5. ASSUME NEW r \in Roles
        PROVE  /\ IsFiniteSet(LogOfRole(r)) /\ IsFiniteSet(LogOfRole(r)')
               /\ Cardinality(LogOfRole(r)) \in Nat
               /\ Cardinality(LogOfRole(r)') \in Nat
               /\ Cardinality(LogOfRole(r)') >= Cardinality(LogOfRole(r))
    <3>1. LogOfRole(r)' \subseteq OfferIds
          /\ LogOfRole(r) \subseteq LogOfRole(r)'
      BY <2>4 DEF LogOfRole
    <3>2. IsFiniteSet(LogOfRole(r)') /\ IsFiniteSet(LogOfRole(r))
      BY <3>1, OffersFinite, FS_Subset
    <3>3. Cardinality(LogOfRole(r)') \in Nat /\ Cardinality(LogOfRole(r)) \in Nat
      BY <3>2, FS_CardinalityType
    <3>4. Cardinality(LogOfRole(r)) <= Cardinality(LogOfRole(r)')
      BY <3>1, <3>2, FS_Subset
    <3> QED BY <3>2, <3>3, <3>4
  <2>6. PICK q \in Roles : q = send[s].role
    BY <2>1
  <2>7. Cardinality(LogOfRole(q)') = Cardinality(LogOfRole(q)) + 1
    <3>1. /\ LogOfRole(q)' = LogOfRole(q) \cup {x}
          /\ x \notin LogOfRole(q)
      BY <2>3, <2>4, <2>6 DEF LogOfRole
    <3> QED BY <2>5, <3>1, FS_AddElement
  <2>8. SentNeverOverstated'
    <3> SUFFICES ASSUME NEW r \in Roles
                 PROVE  role'[r].sent <= Cardinality(LogOfRole(r)')
      BY DEF SentNeverOverstated
    <3>1. role[r].sent <= Cardinality(LogOfRole(r)) /\ role[r].sent \in Nat
      BY DEF SentInv, SentNeverOverstated, TypeOK, RoleRow
    <3>2. role'[r].sent = IF r = q THEN role[r].sent + 1 ELSE role[r].sent
      BY <1>2, <2>6 DEF SendCommit, TypeOK, RoleRow
    <3> QED BY <2>5, <2>7, <3>1, <3>2
  <2>9. ASSUME NEW o \in OfferIds, status'[o] = "none" PROVE sentAt'[o] = 0
    BY <2>4, <2>9 DEF SentInv
  <2>10. ASSUME NEW w \in Editors, edit[w].pc = "save", NEW r \in Roles,
                r = edit[w].role
         PROVE  edit[w].copy.sent <= Cardinality(LogOfRole(r)')
    <3>1. edit[w].copy.sent \in Nat
      BY <2>10 DEF TypeOK, EditRequest, Idle, RoleRow
    <3>2. edit[w].copy.sent <= Cardinality(LogOfRole(r))
      BY <2>10 DEF SentInv
    <3> QED BY <2>5, <3>1, <3>2
  <2>11. (\A w \in Editors : edit[w].pc = "save" =>
            edit[w].copy.sent <= Cardinality(LogOfRole(edit[w].role)))'
    <3>1. edit' = edit
      BY <1>2 DEF SendCommit
    <3>2. \A w \in Editors : edit[w].pc = "save" => edit[w].role \in Roles
      BY DEF TypeOK, EditRequest, Idle
    <3> QED BY <2>10, <3>1, <3>2 DEF LogOfRole
  <2> QED BY <2>8, <2>9, <2>11 DEF SentInv
<1>3. ASSUME NEW w \in Editors, NEW r \in Roles,
             NEW st \in {"active", "closed"}, EditStart(w, r, st)
      PROVE  SentInv'
  <2>1. role[r].sent <= Cardinality(LogOfRole(r))
    BY DEF SentInv, SentNeverOverstated
  <2> QED BY <1>3, <2>1
          DEF EditStart, SentInv, SentNeverOverstated, LogOfRole, TypeOK
<1>4. ASSUME NEW w \in Editors, EditSave(w) PROVE SentInv'
  <2>1. /\ edit[w].role \in Roles
        /\ edit[w].copy.sent <= Cardinality(LogOfRole(edit[w].role))
    BY <1>4 DEF EditSave, SentInv, TypeOK, EditRequest, Idle
  <2> QED BY <1>4, <2>1
          DEF EditSave, SentInv, SentNeverOverstated, LogOfRole, TypeOK, Idle
<1>5. ASSUME SendNext PROVE SentInv'
  BY <1>1, <1>2, <1>5
     DEF SendNext, SendStart, SendCheck, SendBegin, SendRollback, SendEnd
<1>6. ASSUME OpNext PROVE SentInv'
  BY <1>1, <1>6
     DEF OpNext, OpBegin, RespondStart, RespondExpire, Respond, RespondTo,
         WithdrawStart, Withdraw, LinkStart, LinkSave, ViewStart, ViewExpire,
         HireStart, Hire, OpTell
<1>7. ASSUME ListNext \/ Poller PROVE SentInv'
  BY <1>1, <1>7
     DEF ListNext, ExpireStaleOffers, ExpireStaleOffersForCandidate, Poller,
         PollExpire, PollTell, PollEnd
<1>8. ASSUME EditNext PROVE SentInv'
  BY <1>3, <1>4, <1>8 DEF EditNext
<1>9. ASSUME WorldNext \/ UNCHANGED vars PROVE SentInv'
  BY <1>1, <1>9
     DEF WorldNext, OfferFallsDue, MonthPasses, CheckVerification,
         CandidateReady, Crash, vars
<1> QED BY <1>5, <1>6, <1>7, <1>8, <1>9 DEF Next

(* Saves of a role that race sends may lose increments of                  *)
(* offers_sent_count but never make it exceed the offers really sent.      *)
THEOREM SentCountHolds == Spec => []SentNeverOverstated
<1>1. Init => SentInv
  <2> SUFFICES ASSUME Init PROVE SentInv
    OBVIOUS
  <2>1. \A r \in Roles : LogOfRole(r) = {}
    BY DEF Init, LogOfRole
  <2>2. SentNeverOverstated
    <3> SUFFICES ASSUME NEW r \in Roles
                 PROVE  role[r].sent <= Cardinality(LogOfRole(r))
      BY DEF SentNeverOverstated
    <3>1. Cardinality(LogOfRole(r)) = 0
      BY <2>1, FS_EmptySet
    <3>2. role[r].sent = 0
      BY DEF Init
    <3> QED BY <3>1, <3>2
  <2> QED BY <2>2 DEF Init, SentInv, Idle
<1>2. SentInv => SentNeverOverstated
  BY DEF SentInv
<1> QED BY <1>1, <1>2, TypeCorrect, SentStep, PTL DEF Spec

(***************************************************************************)
(* MonthlyCapHolds does not hold: a send that has begun when a month ends  *)
(* is counted in the new month and stamped with the old one.  By how much  *)
(* a month can exceed the cap is known all the same.                       *)
(***************************************************************************)

LateLog(e, m) == {o \in LogOf(e, m) : countedIn[o] # m}

(* The sends that have begun in a month that is over.                      *)
Straddling(m) ==
  {s \in Senders : send[s].pc = "commit" /\ send[s].begun = m /\ m < month}

MonthOrder ==
  /\ \A o \in OfferIds : sentAt[o] <= countedIn[o] /\ countedIn[o] <= month
  /\ \A s \in Senders : send[s].pc = "commit" => send[s].begun <= month

(* Each late offer of a month was one of the sends in progress at its end. *)
OverrunInv ==
  /\ MonthOrder
  /\ \A e \in Employers, m \in Months :
       m < month => Cardinality(LateLog(e, m)) + Cardinality(Straddling(m))
                      <= Cardinality(Senders)

(* An element that leaves one set as one comes to the other.               *)
LEMMA OneGoesOver ==
  ASSUME NEW S, NEW T, IsFiniteSet(S), IsFiniteSet(T), NEW x, NEW y \in T,
         NEW S2 \in SUBSET (S \cup {x}), NEW T2 \in SUBSET (T \ {y}),
         NEW b \in Nat, Cardinality(S) + Cardinality(T) <= b
  PROVE  Cardinality(S2) + Cardinality(T2) <= b
<1>1. /\ Cardinality(S) \in Nat /\ Cardinality(S2) \in Nat
      /\ Cardinality(S2) <= Cardinality(S) + 1
  BY AtMostOneMore
<1>2. /\ IsFiniteSet(T \ {y}) /\ Cardinality(T \ {y}) = Cardinality(T) - 1
      /\ Cardinality(T) \in Nat
  BY FS_RemoveElement, FS_CardinalityType
<1>3. IsFiniteSet(T2) /\ Cardinality(T2) <= Cardinality(T \ {y})
  BY <1>2, FS_Subset
<1>4. Cardinality(T2) \in Nat
  BY <1>3, FS_CardinalityType
<1> QED BY <1>1, <1>2, <1>3, <1>4

LEMMA NeitherGrows ==
  ASSUME NEW S, NEW T, IsFiniteSet(S), IsFiniteSet(T),
         NEW S2 \in SUBSET S, NEW T2 \in SUBSET T,
         NEW b \in Nat, Cardinality(S) + Cardinality(T) <= b
  PROVE  Cardinality(S2) + Cardinality(T2) <= b
<1>1. /\ IsFiniteSet(S2) /\ Cardinality(S2) <= Cardinality(S)
      /\ IsFiniteSet(T2) /\ Cardinality(T2) <= Cardinality(T)
  BY FS_Subset
<1>2. /\ Cardinality(S) \in Nat /\ Cardinality(S2) \in Nat
      /\ Cardinality(T) \in Nat /\ Cardinality(T2) \in Nat
  BY <1>1, FS_CardinalityType
<1> QED BY <1>1, <1>2

LEMMA LateFinite ==
  ASSUME IsFiniteSet(Senders)
  PROVE  \A e, m : IsFiniteSet(LateLog(e, m)) /\ IsFiniteSet(Straddling(m))
<1>1. \A e, m : LateLog(e, m) \subseteq OfferIds /\ Straddling(m) \subseteq Senders
  BY DEF LateLog, LogOf, Straddling
<1> QED BY <1>1, OffersFinite, FS_Subset

(* A step commits one send, or ends a month, or does neither; then the     *)
(* sends that can commit are those that could, or have begun this month.   *)
LEMMA MonthStep ==
  ASSUME TypeOK, [Next]_vars
  PROVE  \/ \E s \in Senders : SendCommit(s)
         \/ MonthPasses
         \/ /\ UNCHANGED <<sentAt, countedIn, month>>
            /\ \A s \in Senders :
                 send'[s].pc = "commit" => send'[s] = send[s] \/ send'[s].begun = month
<1> USE DEF rows, world, procs
<1>1. CASE SendNext
  BY <1>1 DEF SendNext, SendStart, SendCheck, SendBegin, SendRollback, SendEnd,
              TypeOK, Idle
<1>2. CASE OpNext
  <2>1. ASSUME NEW h \in Handlers, NEW o \in OfferIds, OpBegin(h, o)
        PROVE  UNCHANGED <<sentAt, countedIn, month, send>>
    BY <2>1 DEF OpBegin, RespondStart, WithdrawStart, LinkStart, ViewStart, HireStart
  <2>2. ASSUME NEW h \in Handlers,
               RespondExpire(h) \/ Respond(h) \/ Withdraw(h) \/ LinkSave(h)
        PROVE  UNCHANGED <<sentAt, countedIn, month, send>>
    BY <2>2 DEF RespondExpire, Respond, RespondTo, Withdraw, LinkSave
  <2>3. ASSUME NEW h \in Handlers, ViewExpire(h) \/ Hire(h) \/ OpTell(h)
        PROVE  UNCHANGED <<sentAt, countedIn, month, send>>
    BY <2>3 DEF ViewExpire, Hire, OpTell
  <2>4. UNCHANGED <<sentAt, countedIn, month, send>>
    BY <1>2, <2>1, <2>2, <2>3 DEF OpNext
  <2> QED BY <2>4
<1>3. CASE ListNext \/ Poller
  BY <1>3 DEF ListNext, ExpireStaleOffers, ExpireStaleOffersForCandidate, Poller,
              PollExpire, PollTell, PollEnd
<1>4. CASE EditNext \/ WorldNext \/ UNCHANGED vars
  BY <1>4 DEF EditNext, EditStart, EditSave, WorldNext, OfferFallsDue,
              CheckVerification, CandidateReady, Crash, Idle, vars
<1> QED BY <1>1, <1>2, <1>3, <1>4 DEF Next

LEMMA OverrunStep ==
  ASSUME IsFiniteSet(Senders)
  PROVE  TypeOK /\ OverrunInv /\ [Next]_vars => OverrunInv'
<1> SUFFICES ASSUME TypeOK, OverrunInv, [Next]_vars PROVE OverrunInv'
  OBVIOUS
<1>0. /\ \A m \in Months : m \in Nat
      /\ month \in Nat
      /\ \A o \in OfferIds : sentAt[o] \in Nat /\ countedIn[o] \in Nat
  BY BoundsAssumption DEF TypeOK, Months
<1>1. ASSUME NEW s \in Senders, SendCommit(s) PROVE OverrunInv'
  <2>1. /\ send[s].cand \in Candidates /\ send[s].role \in Roles
        /\ send[s].begun \in Months /\ send[s].begun <= month
    BY <1>1 DEF SendCommit, TypeOK, SendRequest, Idle, OverrunInv, MonthOrder
  <2> PICK n \in 1 .. MaxResends :
          LET o == <<send[s].cand, send[s].role, n>> IN
          /\ sentAt' = [sentAt EXCEPT ![o] = send[s].begun]
          /\ countedIn' = [countedIn EXCEPT ![o] = month]
    BY <1>1 DEF SendCommit
  <2> DEFINE x == <<send[s].cand, send[s].role, n>>
  <2>2. x \in OfferIds
    BY <2>1, OfferTuple
  <2>3. /\ sentAt'[x] = send[s].begun /\ countedIn'[x] = month
        /\ \A y \in OfferIds \ {x} : sentAt'[y] = sentAt[y] /\ countedIn'[y] = countedIn[y]
    BY <2>2 DEF TypeOK
  <2>4. /\ month' = month
        /\ send'[s].pc = "next"
        /\ \A t \in Senders \ {s} : send'[t] = send[t]
    BY <1>1 DEF SendCommit, TypeOK, world
  <2> HIDE DEF x
  <2>5. MonthOrder'
    BY <1>0, <2>1, <2>2, <2>3, <2>4 DEF OverrunInv, MonthOrder
  <2>6. ASSUME NEW e \in Employers, NEW m \in Months, m < month
        PROVE  Cardinality(LateLog(e, m)') + Cardinality(Straddling(m)')
                 <= Cardinality(Senders)
    <3>0. /\ Cardinality(Senders) \in Nat
          /\ Cardinality(LateLog(e, m)) + Cardinality(Straddling(m))
               <= Cardinality(Senders)
      BY <2>6, FS_CardinalityType DEF OverrunInv
    <3>1. IsFiniteSet(LateLog(e, m)) /\ IsFiniteSet(Straddling(m))
      BY LateFinite
    <3>2. Straddling(m)' \subseteq Straddling(m) \ {s}
      BY <2>4 DEF Straddling
    <3>3. CASE m = send[s].begun
      <4>1. s \in Straddling(m)
        BY <1>1, <2>6, <3>3 DEF Straddling, SendCommit
      <4>2. LateLog(e, m)' \subseteq LateLog(e, m) \cup {x}
        BY <2>3 DEF LateLog, LogOf
      <4> QED BY <3>0, <3>1, <3>2, <4>1, <4>2, OneGoesOver
    <3>4. CASE m # send[s].begun
      <4>1. LateLog(e, m)' \subseteq LateLog(e, m)
        BY <2>3, <3>4 DEF LateLog, LogOf
      <4> QED BY <3>0, <3>1, <3>2, <4>1, NeitherGrows
    <3> QED BY <3>3, <3>4
  <2> QED BY <2>4, <2>5, <2>6 DEF OverrunInv
<1>2. ASSUME MonthPasses PROVE OverrunInv'
  <2>1. month' = month + 1 /\ UNCHANGED <<sentAt, countedIn, send>>
    BY <1>2 DEF MonthPasses, rows, procs
  <2>2. MonthOrder'
    <3>1. \A s \in Senders : send[s].pc = "commit" => send[s].begun \in Months
      BY DEF TypeOK, SendRequest, Idle
    <3> QED BY <1>0, <2>1, <3>1 DEF OverrunInv, MonthOrder
  <2>3. ASSUME NEW e \in Employers, NEW m \in Months, m < month'
        PROVE  Cardinality(LateLog(e, m)') + Cardinality(Straddling(m)')
                 <= Cardinality(Senders)
    <3>1. CASE m < month
      <4>1. LateLog(e, m)' = LateLog(e, m) /\ Straddling(m)' = Straddling(m)
        BY <1>0, <2>1, <3>1 DEF LateLog, LogOf, Straddling
      <4> QED BY <3>1, <4>1 DEF OverrunInv
    <3>2. CASE m = month
      <4>1. LateLog(e, m)' = {}
        BY <1>0, <2>1, <3>2 DEF OverrunInv, MonthOrder, LateLog, LogOf
      <4>2. Straddling(m)' \subseteq Senders
        BY DEF Straddling
      <4>3. Cardinality(Straddling(m)') <= Cardinality(Senders) /\ IsFiniteSet(Straddling(m)')
        BY <4>2, FS_Subset
      <4>4. Cardinality(Straddling(m)') \in Nat
        BY <4>3, FS_CardinalityType
      <4> QED BY <4>1, <4>3, <4>4, FS_EmptySet
    <3> QED BY <1>0, <2>1, <2>3, <3>1, <3>2
  <2> QED BY <2>2, <2>3 DEF OverrunInv
<1>3. ASSUME UNCHANGED <<sentAt, countedIn, month>>,
             \A s \in Senders :
               send'[s].pc = "commit" => send'[s] = send[s] \/ send'[s].begun = month
      PROVE  OverrunInv'
  <2>1. MonthOrder'
    BY <1>0, <1>3 DEF OverrunInv, MonthOrder
  <2>2. ASSUME NEW e \in Employers, NEW m \in Months, m < month
        PROVE  Cardinality(LateLog(e, m)') + Cardinality(Straddling(m)')
                 <= Cardinality(Senders)
    <3>0. /\ Cardinality(Senders) \in Nat
          /\ Cardinality(LateLog(e, m)) + Cardinality(Straddling(m))
               <= Cardinality(Senders)
      BY <2>2, FS_CardinalityType DEF OverrunInv
    <3>1. LateLog(e, m)' \subseteq LateLog(e, m)
      BY <1>3 DEF LateLog, LogOf
    <3>2. Straddling(m)' \subseteq Straddling(m)
      BY <1>0, <1>3, <2>2 DEF Straddling
    <3> QED BY <3>0, <3>1, <3>2, LateFinite, NeitherGrows
  <2> QED BY <1>3, <2>1, <2>2 DEF OverrunInv
<1> QED BY <1>1, <1>2, <1>3, MonthStep

(* A month of the log exceeds the cap by at most the number of sends that  *)
(* can be in progress at once, whatever batches wait over its end.         *)
CapOverrunBounded ==
  \A e \in Employers, m \in Months :
    Cardinality(LogOf(e, m)) <= MonthlyCap + Cardinality(Senders)

THEOREM CapOverrunBoundedHolds ==
  ASSUME IsFiniteSet(Senders)
  PROVE  Spec => []CapOverrunBounded
<1>1. Init => OverrunInv
  <2> SUFFICES ASSUME Init PROVE OverrunInv
    OBVIOUS
  <2>1. MonthOrder
    BY DEF Init, MonthOrder, Idle
  <2>2. ASSUME NEW m \in Months PROVE ~ (m < month)
    BY BoundsAssumption DEF Init, Months
  <2> QED BY <2>1, <2>2 DEF OverrunInv
<1>2. ASSUME TypeOK, OverrunInv, CapPerCountedMonth PROVE CapOverrunBounded
  <2> SUFFICES ASSUME NEW e \in Employers, NEW m \in Months
               PROVE  Cardinality(LogOf(e, m)) <= MonthlyCap + Cardinality(Senders)
    BY DEF CapOverrunBounded
  <2>1. /\ IsFiniteSet(CountedLog(e, m)) /\ IsFiniteSet(LateLog(e, m))
        /\ CountedLog(e, m) \cap LateLog(e, m) = {}
        /\ LogOf(e, m) = CountedLog(e, m) \cup LateLog(e, m)
    <3>1. CountedLog(e, m) \subseteq OfferIds
      BY DEF CountedLog, LogOf
    <3> QED BY <3>1, OffersFinite, FS_Subset, LateFinite DEF CountedLog, LateLog
  <2>2. Cardinality(LogOf(e, m))
          = Cardinality(CountedLog(e, m)) + Cardinality(LateLog(e, m))
    <3>1. Cardinality(CountedLog(e, m) \cap LateLog(e, m)) = 0
      BY <2>1, FS_EmptySet
    <3>2. /\ Cardinality(CountedLog(e, m)) \in Nat
          /\ Cardinality(LateLog(e, m)) \in Nat
      BY <2>1, FS_CardinalityType
    <3>3. Cardinality(CountedLog(e, m) \cup LateLog(e, m))
            = Cardinality(CountedLog(e, m)) + Cardinality(LateLog(e, m))
              - Cardinality(CountedLog(e, m) \cap LateLog(e, m))
      BY <2>1, FS_Union
    <3> QED BY <2>1, <3>1, <3>2, <3>3
  <2>3. /\ Cardinality(CountedLog(e, m)) \in Nat
        /\ Cardinality(LateLog(e, m)) \in Nat
        /\ Cardinality(Straddling(m)) \in Nat
        /\ Cardinality(Senders) \in Nat
    BY <2>1, LateFinite, FS_CardinalityType
  <2>4. Cardinality(LateLog(e, m)) <= Cardinality(Senders)
    <3>1. CASE m < month
      BY <1>2, <2>3, <3>1 DEF OverrunInv
    <3>2. CASE ~ (m < month)
      <4>1. LateLog(e, m) = {}
        BY <1>2, <3>2, BoundsAssumption
           DEF OverrunInv, MonthOrder, LateLog, LogOf, TypeOK, Months
      <4> QED BY <2>3, <4>1, FS_EmptySet
    <3> QED BY <3>1, <3>2
  <2>5. Cardinality(CountedLog(e, m)) <= MonthlyCap
    BY <1>2 DEF CapPerCountedMonth
  <2> QED BY <2>2, <2>3, <2>4, <2>5, BoundsAssumption
<1> QED BY <1>1, <1>2, OverrunStep, TypeCorrect, CapHolds, PTL DEF Spec

(***************************************************************************)
(* The steps of the implementation are steps of the lifecycle.  Two of     *)
(* them write a status that was not checked: the saving of the whole row   *)
(* by updateInterviewLink, and checkAndUpdateExpiry.                       *)
(***************************************************************************)
BlindWrite == \E h \in Handlers : LinkSave(h) \/ ViewExpire(h)

(* The steps of the lifecycle that overwrite nothing.                      *)
Checked ==
  \/ \E o \in OfferIds : Lifecycle!Send(o) \/ Lifecycle!FallDue(o)
  \/ \E o \in OfferIds, st \in {"accepted", "declined", "withdrawn"} :
       Lifecycle!Settle(o, st)
  \/ \E os \in SUBSET OfferIds : Lifecycle!Expire(os)

LEMMA CheckedStep ==
  TypeOK /\ [Next]_vars
    => Checked \/ UNCHANGED <<status, due, overwritten>> \/ BlindWrite
<1> SUFFICES ASSUME TypeOK, [Next]_vars
             PROVE  Checked \/ UNCHANGED <<status, due, overwritten>> \/ BlindWrite
  OBVIOUS
<1> DEFINE Goal == Checked \/ UNCHANGED <<status, due, overwritten>> \/ BlindWrite
<1> USE DEF rows, world, procs
<1>0. ASSUME UNCHANGED <<status, due, overwritten>> PROVE Goal
  BY <1>0
<1>1. ASSUME NEW os \in SUBSET Overdue, SetExpired(os),
             UNCHANGED <<due, overwritten>>
      PROVE  Goal
  <2>1. os \in SUBSET OfferIds
    BY DEF Overdue, TypeOK
  <2>2. Lifecycle!Expire(os)
    BY <1>1 DEF Lifecycle!Expire, SetExpired, Overdue, StillPending
  <2> QED BY <2>1, <2>2 DEF Checked
<1>2. ASSUME NEW o \in OfferIds,
             NEW st \in {"accepted", "declined", "withdrawn"},
             status' = [status EXCEPT ![o] = IF StillPending(o) THEN st ELSE @],
             UNCHANGED <<due, overwritten>>
      PROVE  Goal
  <2>1. CASE StillPending(o)
    BY <1>2, <2>1 DEF Checked, Lifecycle!Settle, StillPending
  <2>2. CASE ~ StillPending(o)
    BY <1>2, <2>2 DEF TypeOK
  <2> QED BY <2>1, <2>2
<1>3. ASSUME NEW s \in Senders, SendCommit(s) PROVE Goal
  <2>1. send[s].cand \in Candidates /\ send[s].role \in Roles
    BY <1>3 DEF SendCommit, TypeOK, SendRequest, Idle
  <2>2. PICK n \in 1 .. MaxResends :
          LET o == <<send[s].cand, send[s].role, n>> IN
          /\ status[o] = "none"
          /\ status' = [status EXCEPT ![o] = "pending"]
    BY <1>3 DEF SendCommit
  <2>3. Lifecycle!Send(<<send[s].cand, send[s].role, n>>)
    BY <1>3, <2>2 DEF Lifecycle!Send, SendCommit
  <2> QED BY <2>1, <2>3, OfferTuple DEF Checked
<1>4. ASSUME SendNext PROVE Goal
  BY <1>0, <1>3, <1>4
     DEF SendNext, SendStart, SendCheck, SendBegin, SendRollback, SendEnd
<1>5. ASSUME NEW h \in Handlers, NEW o \in OfferIds, OpBegin(h, o) PROVE Goal
  BY <1>0, <1>5
     DEF OpBegin, RespondStart, WithdrawStart, LinkStart, ViewStart, HireStart
<1>6. ASSUME NEW h \in Handlers, RespondExpire(h) PROVE Goal
  <2>1. CASE op[h].offer \in Overdue
    BY <1>1, <1>6, <2>1 DEF RespondExpire
  <2>2. CASE op[h].offer \notin Overdue
    BY <1>0, <1>6, <2>2 DEF RespondExpire
  <2> QED BY <2>1, <2>2
<1>7. ASSUME NEW h \in Handlers, Respond(h) PROVE Goal
  <2>1. op[h].offer \in OfferIds /\ op[h].answer \in {"accepted", "declined"}
    BY <1>7 DEF Respond, RespondTo, TypeOK, OpRequest, Idle
  <2>2. CASE StillPending(op[h].offer)
    BY <1>2, <1>7, <2>1, <2>2 DEF Respond, RespondTo
  <2>3. CASE ~ StillPending(op[h].offer)
    BY <1>0, <1>7, <2>3 DEF Respond, RespondTo
  <2> QED BY <2>2, <2>3
<1>8. ASSUME NEW h \in Handlers, Withdraw(h) PROVE Goal
  <2>1. op[h].offer \in OfferIds
    BY <1>8 DEF Withdraw, TypeOK, OpRequest, Idle
  <2> QED BY <1>2, <1>8, <2>1 DEF Withdraw
<1>9. ASSUME NEW h \in Handlers, LinkSave(h) \/ ViewExpire(h) PROVE Goal
  BY <1>9 DEF BlindWrite
<1>10. ASSUME OpNext PROVE Goal
  BY <1>0, <1>5, <1>6, <1>7, <1>8, <1>9, <1>10 DEF OpNext, Hire, OpTell
<1>11. ASSUME ListNext \/ Poller PROVE Goal
  <2>1. ASSUME NEW e \in Employers, ExpireStaleOffers(e) PROVE Goal
    BY <1>1, <2>1 DEF ExpireStaleOffers
  <2>2. ASSUME NEW c \in Candidates, ExpireStaleOffersForCandidate(c) PROVE Goal
    BY <1>1, <2>2 DEF ExpireStaleOffersForCandidate
  <2>3. ASSUME Poller PROVE Goal
    BY <1>0, <1>1, <2>3 DEF Poller, PollExpire, PollTell, PollEnd
  <2> QED BY <1>11, <2>1, <2>2, <2>3 DEF ListNext
<1>12. ASSUME NEW o \in OfferIds, OfferFallsDue(o) PROVE Goal
  BY <1>12 DEF OfferFallsDue, Checked, Lifecycle!FallDue
<1>13. ASSUME EditNext \/ WorldNext \/ UNCHANGED vars PROVE Goal
  BY <1>0, <1>12, <1>13
     DEF EditNext, EditStart, EditSave, WorldNext, MonthPasses,
         CheckVerification, CandidateReady, Crash, vars
<1> QED BY <1>4, <1>10, <1>11, <1>13 DEF Next

(* A step that overwrites nothing leaves every settled offer as it is, and *)
(* an offer it expires is due.                                             *)
LEMMA CheckedKeepsSettled ==
  ASSUME TypeOK, Checked \/ UNCHANGED <<status, due, overwritten>>,
         NEW o \in OfferIds
  PROVE  /\ status[o] \in Settled => status'[o] = status[o]
         /\ status'[o] = "expired" => status[o] = "expired" \/ o \in due'
         /\ due \subseteq due' /\ overwritten' = overwritten
<1> USE DEF Settled, TypeOK
<1>1. ASSUME NEW p \in OfferIds, Lifecycle!Send(p) \/ Lifecycle!FallDue(p)
      PROVE  /\ status[o] \in Settled => status'[o] = status[o]
             /\ status'[o] = "expired" => status[o] = "expired" \/ o \in due'
             /\ due \subseteq due' /\ overwritten' = overwritten
  BY <1>1 DEF Lifecycle!Send, Lifecycle!FallDue
<1>2. ASSUME NEW p \in OfferIds, NEW st \in {"accepted", "declined", "withdrawn"},
             Lifecycle!Settle(p, st)
      PROVE  /\ status[o] \in Settled => status'[o] = status[o]
             /\ status'[o] = "expired" => status[o] = "expired" \/ o \in due'
             /\ due \subseteq due' /\ overwritten' = overwritten
  BY <1>2 DEF Lifecycle!Settle
<1>3. ASSUME NEW os, Lifecycle!Expire(os)
      PROVE  /\ status[o] \in Settled => status'[o] = status[o]
             /\ status'[o] = "expired" => status[o] = "expired" \/ o \in due'
             /\ due \subseteq due' /\ overwritten' = overwritten
  BY <1>3 DEF Lifecycle!Expire
<1> QED BY <1>1, <1>2, <1>3 DEF Checked

(* A blind write changes one offer, and records it if it was settled.      *)
LEMMA BlindWriteOfOne ==
  ASSUME TypeOK, NEW h \in Handlers, LinkSave(h) \/ ViewExpire(h)
  PROVE  /\ op[h].offer \in OfferIds /\ due' = due
         /\ \A p \in OfferIds : p # op[h].offer => status'[p] = status[p]
         /\ overwritten' = overwritten
              \cup {p \in OfferIds : status[p] \in Settled /\ status'[p] # status[p]}
<1>1. op[h].offer \in OfferIds
  BY DEF LinkSave, ViewExpire, TypeOK, OpRequest, Idle
<1>2. \A p \in OfferIds : p # op[h].offer => status'[p] = status[p]
  BY DEF LinkSave, ViewExpire, SetExpired, TypeOK
<1> QED BY <1>1, <1>2 DEF LinkSave, ViewExpire, Overwrites

(* SettledForGood and AnsweredNotExpired are broken by these two only, and *)
(* for the offer they are about: no other race unsettles an offer.         *)
OnlyBlindWritesUnsettle ==
  [][\A o \in OfferIds :
       status[o] \in Settled /\ status'[o] # status[o]
         => \E h \in Handlers :
              (LinkSave(h) \/ ViewExpire(h)) /\ op[h].offer = o]_vars

THEOREM OnlyBlindWritesUnsettleHolds == Spec => OnlyBlindWritesUnsettle
<1>1. ASSUME TypeOK, [Next]_vars, NEW o \in OfferIds,
             status[o] \in Settled, status'[o] # status[o]
      PROVE  \E h \in Handlers : (LinkSave(h) \/ ViewExpire(h)) /\ op[h].offer = o
  <2>1. PICK h \in Handlers : LinkSave(h) \/ ViewExpire(h)
    BY <1>1, CheckedStep, CheckedKeepsSettled DEF BlindWrite
  <2> QED BY <1>1, <2>1, BlindWriteOfOne
<1>2. TypeOK /\ [Next]_vars
        => [\A o \in OfferIds :
              status[o] \in Settled /\ status'[o] # status[o]
                => \E h \in Handlers :
                     (LinkSave(h) \/ ViewExpire(h)) /\ op[h].offer = o]_vars
  BY <1>1
<1> QED BY <1>2, TypeCorrect, PTL DEF Spec, OnlyBlindWritesUnsettle

(***************************************************************************)
(* Offers implements OfferLifecycle, blind writes included.                *)
(***************************************************************************)

(* What a blind write will write: an expiry is of an offer that was due    *)
(* when it was read, and a settled status that was read is still there     *)
(* unless the offer was overwritten meanwhile.                             *)
BlindInv ==
  /\ \A o \in OfferIds : status[o] = "expired" => o \in due
  /\ \A h \in Handlers : op[h].pc = "save" =>
       /\ status[op[h].offer] # "none"
       /\ op[h].saw = "expired" => op[h].offer \in due
       /\ op[h].saw \in Settled => \/ status[op[h].offer] = op[h].saw
                                   \/ op[h].offer \in overwritten
  /\ \A h \in Handlers : op[h].pc = "view" =>
       status[op[h].offer] # "none" /\ op[h].offer \in due

(* So a blind write is an expiry, an overwriting, or changes nothing.      *)
LEMMA BlindStep ==
  ASSUME TypeOK, BlindInv, NEW h \in Handlers, LinkSave(h) \/ ViewExpire(h)
  PROVE  Lifecycle!Next \/ UNCHANGED <<status, due, overwritten>>
<1> DEFINE o == op[h].offer
<1>0. /\ o \in OfferIds /\ due' = due /\ status \in [OfferIds -> RowStatus]
      /\ overwritten' = overwritten
           \cup {p \in OfferIds : status[p] \in Settled /\ status'[p] # status[p]}
      /\ \A p \in OfferIds : p # o => status'[p] = status[p]
  BY BlindWriteOfOne DEF TypeOK
<1>1. ASSUME NEW st \in OfferStatus, status' = [status EXCEPT ![o] = st],
             status[o] # st, status[o] \in Settled \/ o \in overwritten,
             st = "expired" => o \in due
      PROVE  Lifecycle!Next
  <2>1. overwritten'
          = overwritten \cup (IF status[o] \in Settled THEN {o} ELSE {})
    BY <1>0, <1>1
  <2>2. Lifecycle!Overwrite(o, st)
    BY <1>0, <1>1, <2>1 DEF Lifecycle!Overwrite, Lifecycle!Settled, Settled
  <2> QED BY <1>0, <2>2 DEF Lifecycle!Next, Lifecycle!Settled, OfferStatus, Settled
<1>2. ASSUME NEW st, status' = [status EXCEPT ![o] = st], status[o] = st
      PROVE  UNCHANGED <<status, due, overwritten>>
  BY <1>0, <1>2
<1>3. ASSUME LinkSave(h)
      PROVE  Lifecycle!Next \/ UNCHANGED <<status, due, overwritten>>
  <2>1. op[h].saw \in OfferStatus /\ op[h].pc = "save"
    BY <1>3 DEF LinkSave, TypeOK, OpRequest, Idle
  <2>2. CASE UNCHANGED status
    BY <1>0, <2>2
  <2>3. CASE status' = [status EXCEPT ![o] = op[h].saw] /\ status[o] # op[h].saw
    <3>1. status[o] \in Settled \/ o \in overwritten
      BY <1>0, <2>1, <2>3 DEF BlindInv, RowStatus, OfferStatus
    <3> QED BY <1>1, <2>1, <2>3, <3>1 DEF BlindInv
  <2>4. CASE status' = [status EXCEPT ![o] = op[h].saw] /\ status[o] = op[h].saw
    BY <1>2, <2>4
  <2> QED BY <1>3, <2>2, <2>3, <2>4 DEF LinkSave
<1>4. ASSUME ViewExpire(h)
      PROVE  Lifecycle!Next \/ UNCHANGED <<status, due, overwritten>>
  <2>1. /\ SetExpired({o}) /\ status' = [status EXCEPT ![o] = "expired"]
        /\ status[o] # "none" /\ o \in due
    BY <1>0, <1>4 DEF ViewExpire, SetExpired, BlindInv
  <2>2. CASE status[o] = "pending"
    <3>1. overwritten' = overwritten
      BY <1>0, <2>2 DEF Settled
    <3>2. Lifecycle!Expire({o})
      BY <1>0, <2>1, <2>2, <3>1 DEF Lifecycle!Expire, SetExpired
    <3> QED BY <1>0, <3>2 DEF Lifecycle!Next
  <2>3. CASE status[o] = "expired"
    BY <1>2, <2>1, <2>3
  <2>4. CASE status[o] \in Settled /\ status[o] # "expired"
    BY <1>1, <2>1, <2>4 DEF OfferStatus, Settled
  <2> QED BY <1>0, <2>1, <2>2, <2>3, <2>4 DEF RowStatus, OfferStatus
<1> QED BY <1>3, <1>4

LEMMA LifecycleStep ==
  TypeOK /\ BlindInv /\ [Next]_vars
    => Lifecycle!Next \/ UNCHANGED <<status, due, overwritten>>
BY CheckedStep, BlindStep DEF BlindWrite, Checked, Lifecycle!Next

(* A settled offer keeps its status or is recorded as overwritten; none    *)
(* expires before its date, loses its date or is forgotten.                *)
LEMMA SettledOrOverwritten ==
  ASSUME TypeOK, BlindInv, [Next]_vars, NEW o \in OfferIds
  PROVE  /\ status[o] \in Settled => status'[o] = status[o] \/ o \in overwritten'
         /\ status'[o] = "expired" => o \in due'
         /\ o \in due => o \in due'
         /\ o \in overwritten => o \in overwritten'
         /\ status[o] # "none" => status'[o] # "none"
<1>1. status[o] # "none" => status'[o] # "none"
  BY OffersStay
<1>2. CASE Checked \/ UNCHANGED <<status, due, overwritten>>
  BY <1>1, <1>2, CheckedKeepsSettled DEF BlindInv
<1>3. CASE BlindWrite
  <2>1. PICK h \in Handlers : LinkSave(h) \/ ViewExpire(h)
    BY <1>3 DEF BlindWrite
  <2>2. status'[o] = "expired" => status[o] = "expired" \/ o \in due
    <3>1. CASE LinkSave(h)
      BY <3>1 DEF LinkSave, BlindInv, TypeOK
    <3>2. CASE ViewExpire(h)
      BY <3>2 DEF ViewExpire, SetExpired, BlindInv, TypeOK
    <3> QED BY <2>1, <3>1, <3>2
  <2> QED BY <1>1, <2>1, <2>2, BlindWriteOfOne DEF BlindInv
<1> QED BY <1>2, <1>3, CheckedStep

LEMMA BlindInvStep == TypeOK /\ BlindInv /\ [Next]_vars => BlindInv'
<1> SUFFICES ASSUME TypeOK, BlindInv, [Next]_vars PROVE BlindInv'
  OBVIOUS
<1> USE DEF procs
<1> DEFINE Ok(r) ==
      /\ r.pc = "save" =>
           /\ status'[r.offer] # "none"
           /\ r.saw = "expired" => r.offer \in due'
           /\ r.saw \in Settled => \/ status'[r.offer] = r.saw
                                   \/ r.offer \in overwritten'
      /\ r.pc = "view" => status'[r.offer] # "none" /\ r.offer \in due'
<1>0. ASSUME \A h \in Handlers : Ok(op'[h])
      PROVE  BlindInv'
  BY <1>0, SettledOrOverwritten DEF BlindInv
<1>1. ASSUME NEW h \in Handlers PROVE Ok(op[h])
  <2>1. op[h].pc \in {"save", "view"} => op[h].offer \in OfferIds
    BY DEF TypeOK, OpRequest, Idle
  <2>2. CASE op[h].pc = "save"
    BY <2>1, <2>2, SettledOrOverwritten DEF BlindInv
  <2>3. CASE op[h].pc = "view"
    BY <2>1, <2>3, SettledOrOverwritten DEF BlindInv
  <2> QED BY <2>2, <2>3
<1>2. ASSUME NEW h \in Handlers, NEW r, OpStep(h, r), Ok(r)
      PROVE  BlindInv'
  <2>1. \A g \in Handlers : op'[g] = IF g = h THEN r ELSE op[g]
    BY <1>2 DEF OpStep, TypeOK
  <2> QED BY <1>0, <1>1, <1>2, <2>1
<1>3. ASSUME UNCHANGED op PROVE BlindInv'
  BY <1>0, <1>1, <1>3
<1>4. ASSUME NEW h \in Handlers, NEW o \in OfferIds, OpBegin(h, o)
      PROVE  BlindInv'
  <2>1. CASE LinkStart(h, o)
    <3>1. Ok([pc |-> "save", offer |-> o, saw |-> status[o]])
      BY <2>1, SettledOrOverwritten DEF LinkStart, OpStart, BlindInv
    <3> QED BY <1>2, <2>1, <3>1 DEF LinkStart
  <2>2. CASE ViewStart(h, o)
    <3>1. Ok([pc |-> "view", offer |-> o])
      BY <2>2, SettledOrOverwritten DEF ViewStart, OpStart, Overdue
    <3> QED BY <1>2, <2>2, <3>1 DEF ViewStart
  <2> HIDE DEF Ok
  <2>3. ASSUME NEW r, OpStep(h, r), r.pc \notin {"save", "view"} PROVE BlindInv'
    BY <1>2, <2>3 DEF Ok
  <2> QED BY <1>4, <2>1, <2>2, <2>3 DEF OpBegin, RespondStart, WithdrawStart, HireStart
<1>5. ASSUME NEW h \in Handlers, NEW r, OpStep(h, r), r.pc \notin {"save", "view"}
      PROVE  BlindInv'
  BY <1>2, <1>5
<1> HIDE DEF Ok
<1>6. ASSUME NEW h \in Handlers, RespondExpire(h) PROVE BlindInv'
  BY <1>5, <1>6 DEF RespondExpire, Idle
<1>7. ASSUME NEW h \in Handlers, Respond(h) PROVE BlindInv'
  BY <1>5, <1>7 DEF Respond, RespondTo, Idle
<1>8. ASSUME NEW h \in Handlers,
             Withdraw(h) \/ LinkSave(h) \/ ViewExpire(h) \/ Hire(h) \/ OpTell(h)
      PROVE  BlindInv'
  BY <1>5, <1>8 DEF Withdraw, LinkSave, ViewExpire, Hire, OpTell, Idle
<1>9. ASSUME OpNext PROVE BlindInv'
  BY <1>4, <1>6, <1>7, <1>8, <1>9 DEF OpNext
<1>10. ASSUME SendNext PROVE BlindInv'
  BY <1>3, <1>10 DEF SendNext, SendStart, SendCheck, SendBegin, SendCommit,
                    SendRollback, SendEnd
<1>11. ASSUME ListNext \/ Poller \/ EditNext PROVE BlindInv'
  BY <1>3, <1>11
     DEF ListNext, ExpireStaleOffers, ExpireStaleOffersForCandidate, Poller,
         PollExpire, PollTell, PollEnd, EditNext, EditStart, EditSave
<1>12. ASSUME Crash PROVE BlindInv'
  BY <1>0, <1>12 DEF Crash, Idle, Ok
<1>13. ASSUME WorldNext \/ UNCHANGED vars PROVE BlindInv'
  BY <1>3, <1>12, <1>13
     DEF WorldNext, OfferFallsDue, MonthPasses, CheckVerification,
         CandidateReady, vars
<1> QED BY <1>9, <1>10, <1>11, <1>13 DEF Next

LEMMA BlindInvHolds == Spec => []BlindInv
<1>1. Init => BlindInv
  BY DEF Init, BlindInv, Idle
<1> QED BY <1>1, TypeCorrect, BlindInvStep, PTL DEF Spec

(* Whatever requests, sends, lists, polls and crashes interleave, an offer *)
(* is sent, answered, withdrawn or expired as the lifecycle says, and only *)
(* the two blind writes overwrite what it was settled with.                *)
THEOREM LifecycleImplemented == Spec => LifecycleSpec
<1>1. Init => Lifecycle!Init
  BY DEF Init, Lifecycle!Init
<1>2. TypeOK /\ BlindInv /\ [Next]_vars => [Lifecycle!Next]_(Lifecycle!vars)
  BY LifecycleStep DEF Lifecycle!vars
<1> QED BY <1>1, <1>2, TypeCorrect, BlindInvHolds, PTL
        DEF Spec, LifecycleSpec, Lifecycle!Spec

(***************************************************************************)
(* Notifications.                                                          *)
(***************************************************************************)

(* A notification in preparation tells what the offer was settled with,    *)
(* which its row still says or has been overwritten;                       *)
(* only a withdrawal prepares one without knowing it has won.              *)
ToldInv ==
  /\ ToldTruth
  /\ \A h \in Handlers : op[h].pc = "tell" /\ op[h].notice # "withdrawn"
                           => \/ status[op[h].offer] = op[h].notice
                              \/ op[h].offer \in overwritten
  /\ \A o \in poll.todo : status[o] = "expired" \/ o \in overwritten

LEMMA ToldStep ==
  TypeOK /\ BlindInv /\ ToldInv /\ [Next]_vars => ToldInv'
<1> SUFFICES ASSUME TypeOK, BlindInv, ToldInv, [Next]_vars
             PROVE  ToldInv'
  OBVIOUS
<1> USE DEF rows, world, procs
<1>0. \A o \in OfferIds :
        /\ status[o] \in Settled => status'[o] = status[o] \/ o \in overwritten'
        /\ o \in overwritten => o \in overwritten'
  BY SettledOrOverwritten
<1>1. /\ \A h \in Handlers : op[h].pc = "tell" =>
            op[h].offer \in OfferIds /\ op[h].notice \in Notices
      /\ poll.todo \in SUBSET OfferIds
  BY DEF TypeOK, OpRequest, Idle
<1>2. /\ \A n \in {"accepted", "declined", "expired"}, o \in OfferIds :
            <<n, o>> \in told /\ o \notin overwritten' => status'[o] = n
      /\ \A h \in Handlers : op[h].pc = "tell" /\ op[h].notice # "withdrawn"
            => \/ status'[op[h].offer] = op[h].notice
               \/ op[h].offer \in overwritten'
      /\ \A o \in poll.todo : status'[o] = "expired" \/ o \in overwritten'
  <2>1. \A n \in {"accepted", "declined", "expired"}, o \in OfferIds :
          <<n, o>> \in told /\ o \notin overwritten' => status'[o] = n
    BY <1>0 DEF ToldInv, ToldTruth, Settled
  <2>2. \A h \in Handlers : op[h].pc = "tell" /\ op[h].notice # "withdrawn"
            => \/ status'[op[h].offer] = op[h].notice
               \/ op[h].offer \in overwritten'
    BY <1>0, <1>1 DEF ToldInv, Settled, Notices
  <2>3. \A o \in poll.todo : status'[o] = "expired" \/ o \in overwritten'
    BY <1>0, <1>1 DEF ToldInv, Settled
  <2> QED BY <2>1, <2>2, <2>3
<1>3. ASSUME UNCHANGED <<told, op, poll>> PROVE ToldInv'
  BY <1>2, <1>3 DEF ToldInv, ToldTruth
<1>4. ASSUME NEW h \in Handlers, NEW r, OpStep(h, r), UNCHANGED <<told, poll>>,
             r.pc = "tell" /\ r.notice # "withdrawn"
               => status'[r.offer] = r.notice \/ r.offer \in overwritten'
      PROVE  ToldInv'
  BY <1>2, <1>4 DEF ToldInv, ToldTruth, OpStep, TypeOK
<1>5. ASSUME NEW h \in Handlers, NEW o \in OfferIds, OpBegin(h, o)
      PROVE  ToldInv'
  BY <1>4, <1>5
     DEF OpBegin, RespondStart, WithdrawStart, LinkStart, ViewStart, HireStart
<1>6. ASSUME NEW h \in Handlers, RespondExpire(h) PROVE ToldInv'
  BY <1>4, <1>6 DEF RespondExpire, Idle
<1>7. ASSUME NEW h \in Handlers, Respond(h) PROVE ToldInv'
  <2>1. op[h].offer \in OfferIds
    BY <1>7 DEF Respond, RespondTo, TypeOK, OpRequest, Idle
  <2>2. CASE StillPending(op[h].offer)
    <3>1. status'[op[h].offer] = op[h].answer
      BY <1>7, <2>1, <2>2 DEF Respond, RespondTo, TypeOK
    <3> QED BY <1>4, <1>7, <2>2, <3>1 DEF Respond, RespondTo
  <2>3. CASE ~ StillPending(op[h].offer)
    BY <1>4, <1>7, <2>3 DEF Respond, RespondTo, Idle
  <2> QED BY <2>2, <2>3
<1>8. ASSUME NEW h \in Handlers,
             Withdraw(h) \/ LinkSave(h) \/ ViewExpire(h) \/ Hire(h)
      PROVE  ToldInv'
  BY <1>4, <1>8 DEF Withdraw, LinkSave, ViewExpire, Hire, Idle
<1>9. ASSUME NEW h \in Handlers, OpTell(h) PROVE ToldInv'
  <2>1. /\ \A g \in Handlers : op'[g].pc = "tell" => op'[g] = op[g]
        /\ poll' = poll
    BY <1>9 DEF OpTell, OpStep, Idle, TypeOK
  <2>2. \A n, o : <<n, o>> \in told' =>
          <<n, o>> \in told \/ (n = op[h].notice /\ o = op[h].offer)
    BY <1>9 DEF OpTell, Deliver
  <2>3. op[h].pc = "tell"
    BY <1>9 DEF OpTell
  <2>4. ToldTruth'
    BY <1>2, <2>2, <2>3 DEF ToldTruth
  <2> QED BY <1>2, <2>1, <2>4 DEF ToldInv
<1>10. ASSUME NEW o \in OfferIds, PollTell(o) PROVE ToldInv'
  <2>1. \A n, p : <<n, p>> \in told' =>
          <<n, p>> \in told \/ (n = "expired" /\ p = o)
    BY <1>10 DEF PollTell, Deliver
  <2>2. ToldTruth'
    BY <1>2, <1>10, <2>1 DEF ToldTruth, PollTell
  <2>3. op' = op /\ poll'.todo \subseteq poll.todo
    BY <1>10 DEF PollTell, TypeOK
  <2> QED BY <1>2, <2>2, <2>3 DEF ToldInv
<1>11. ASSUME PollExpire PROVE ToldInv'
  <2>1. \A o \in poll'.todo : status'[o] = "expired" \/ o \in overwritten'
    BY <1>11 DEF PollExpire, SetExpired, Overdue, TypeOK
  <2> QED BY <1>2, <1>11, <2>1 DEF ToldInv, ToldTruth, PollExpire
<1>12. ASSUME PollEnd PROVE ToldInv'
  <2>1. poll'.todo = poll.todo
    BY <1>12 DEF PollEnd, TypeOK
  <2> QED BY <1>2, <1>12, <2>1 DEF ToldInv, ToldTruth, PollEnd
<1>13. ASSUME Crash PROVE ToldInv'
  BY <1>2, <1>13 DEF Crash, ToldInv, ToldTruth, Idle
<1>14. ASSUME SendNext PROVE ToldInv'
  BY <1>3, <1>14 DEF SendNext, SendStart, SendCheck, SendBegin, SendCommit,
                     SendRollback, SendEnd
<1>15. ASSUME OpNext PROVE ToldInv'
  BY <1>5, <1>6, <1>7, <1>8, <1>9, <1>15 DEF OpNext
<1>16. ASSUME ListNext \/ EditNext PROVE ToldInv'
  BY <1>3, <1>16
     DEF ListNext, ExpireStaleOffers, ExpireStaleOffersForCandidate, EditNext,
         EditStart, EditSave
<1>17. ASSUME WorldNext \/ UNCHANGED vars PROVE ToldInv'
  BY <1>3, <1>13, <1>17
     DEF WorldNext, OfferFallsDue, MonthPasses, CheckVerification,
         CandidateReady, vars
<1> QED BY <1>10, <1>11, <1>12, <1>14, <1>15, <1>16, <1>17 DEF Next, Poller

(* Of an acceptance, a refusal or an expiry the employer is told only when *)
(* that is what the offer was settled with, however late the notice comes; *)
(* only a blind write makes the row say something else.                    *)
THEOREM ToldTruthHolds == Spec => []ToldTruth
<1>1. Init => ToldInv
  BY DEF Init, ToldInv, ToldTruth, Idle
<1>2. ToldInv => ToldTruth
  BY DEF ToldInv
<1> QED BY <1>1, <1>2, TypeCorrect, BlindInvHolds, ToldStep, PTL DEF Spec

(* WithdrawnToldTruth does not hold: the candidate may have accepted. But  *)
(* whatever a notification says, the offer it is about was settled, and    *)
(* stays so unless a blind write overwrites it.                            *)
ToldOfSettled ==
  \A n \in Notices, o \in OfferIds :
    <<n, o>> \in told /\ o \notin overwritten => status[o] \in Settled

(* A withdrawal is of an offer there is, so it leaves it settled.          *)
WithdrawInv ==
  /\ ToldOfSettled
  /\ \A h \in Handlers : /\ op[h].pc = "withdraw" => status[op[h].offer] # "none"
                         /\ op[h].pc = "tell" => \/ status[op[h].offer] \in Settled
                                                 \/ op[h].offer \in overwritten

LEMMA WithdrawStep ==
  TypeOK /\ BlindInv /\ ToldInv /\ WithdrawInv /\ [Next]_vars => WithdrawInv'
<1> SUFFICES ASSUME TypeOK, BlindInv, ToldInv, WithdrawInv, [Next]_vars
             PROVE  WithdrawInv'
  OBVIOUS
<1> USE DEF rows, world, procs
<1>0. /\ \A o \in OfferIds :
           status[o] \in Settled => status'[o] = status[o] \/ o \in overwritten'
      /\ \A o \in OfferIds : o \in overwritten => o \in overwritten'
      /\ \A o \in OfferIds : status'[o] = "none" => status[o] = "none"
  BY SettledOrOverwritten
<1>1. \A h \in Handlers : op[h].pc \in {"tell", "withdraw"} => op[h].offer \in OfferIds
  BY DEF TypeOK, OpRequest, Idle
<1>2. /\ \A n \in Notices, o \in OfferIds :
           <<n, o>> \in told /\ o \notin overwritten' => status'[o] \in Settled
      /\ \A h \in Handlers : /\ op[h].pc = "withdraw" => status'[op[h].offer] # "none"
                             /\ op[h].pc = "tell" => \/ status'[op[h].offer] \in Settled
                                                     \/ op[h].offer \in overwritten'
  BY <1>0, <1>1 DEF WithdrawInv, ToldOfSettled
<1>3. ASSUME UNCHANGED <<told, op>> PROVE WithdrawInv'
  BY <1>2, <1>3 DEF WithdrawInv, ToldOfSettled
<1>4. ASSUME NEW h \in Handlers, NEW r, OpStep(h, r), UNCHANGED told,
             r.pc = "tell" => status'[r.offer] \in Settled \/ r.offer \in overwritten',
             r.pc = "withdraw" => status'[r.offer] # "none"
      PROVE  WithdrawInv'
  BY <1>2, <1>4 DEF WithdrawInv, ToldOfSettled, OpStep, TypeOK
<1>5. ASSUME NEW h \in Handlers, NEW o \in OfferIds, OpBegin(h, o)
      PROVE  WithdrawInv'
  <2>1. status'[o] # "none"
    BY <1>0, <1>5 DEF OpBegin, RespondStart, WithdrawStart, LinkStart, ViewStart,
                      HireStart, OpStart
  <2> QED BY <1>4, <1>5, <2>1
          DEF OpBegin, RespondStart, WithdrawStart, LinkStart, ViewStart, HireStart
<1>6. ASSUME NEW h \in Handlers, RespondExpire(h) PROVE WithdrawInv'
  BY <1>4, <1>6 DEF RespondExpire, Idle
<1>7. ASSUME NEW h \in Handlers, Respond(h) PROVE WithdrawInv'
  <2>1. op[h].offer \in OfferIds /\ op[h].answer \in Settled
    BY <1>7 DEF Respond, RespondTo, TypeOK, OpRequest, Idle, Settled
  <2>2. CASE StillPending(op[h].offer)
    <3>1. status'[op[h].offer] \in Settled
      BY <1>7, <2>1, <2>2 DEF Respond, RespondTo, TypeOK
    <3> QED BY <1>4, <1>7, <2>2, <3>1 DEF Respond, RespondTo
  <2>3. CASE ~ StillPending(op[h].offer)
    BY <1>4, <1>7, <2>3 DEF Respond, RespondTo, Idle
  <2> QED BY <2>2, <2>3
<1>8. ASSUME NEW h \in Handlers, Withdraw(h) PROVE WithdrawInv'
  <2>1. op[h].offer \in OfferIds /\ status[op[h].offer] # "none"
    BY <1>1, <1>8 DEF Withdraw, WithdrawInv
  <2>2. status'[op[h].offer] \in Settled
    BY <1>8, <2>1
       DEF Withdraw, StillPending, TypeOK, RowStatus, OfferStatus, Settled
  <2> QED BY <1>4, <1>8, <2>2 DEF Withdraw
<1>9. ASSUME NEW h \in Handlers, LinkSave(h) \/ ViewExpire(h) \/ Hire(h)
      PROVE  WithdrawInv'
  BY <1>4, <1>9 DEF LinkSave, ViewExpire, Hire, Idle
<1>10. ASSUME NEW h \in Handlers, OpTell(h) PROVE WithdrawInv'
  <2>1. \A g \in Handlers : op'[g].pc \in {"tell", "withdraw"} => op'[g] = op[g]
    BY <1>10 DEF OpTell, OpStep, Idle, TypeOK
  <2>2. \A n, o : <<n, o>> \in told' =>
          <<n, o>> \in told \/ (n = op[h].notice /\ o = op[h].offer)
    BY <1>10 DEF OpTell, Deliver
  <2>3. op[h].pc = "tell"
    BY <1>10 DEF OpTell
  <2>4. ToldOfSettled'
    BY <1>2, <2>2, <2>3 DEF ToldOfSettled
  <2> QED BY <1>2, <2>1, <2>4 DEF WithdrawInv
<1>11. ASSUME Poller PROVE WithdrawInv'
  <2>1. ASSUME NEW o \in OfferIds, PollTell(o) PROVE WithdrawInv'
    <3>1. status'[o] \in Settled \/ o \in overwritten'
      BY <1>0, <2>1 DEF ToldInv, PollTell, Settled
    <3>2. \A n, p : <<n, p>> \in told' =>
            <<n, p>> \in told \/ (n = "expired" /\ p = o)
      BY <2>1 DEF PollTell, Deliver
    <3>3. ToldOfSettled'
      BY <1>2, <3>1, <3>2 DEF ToldOfSettled
    <3> QED BY <1>2, <2>1, <3>3 DEF WithdrawInv, PollTell
  <2> QED BY <1>3, <1>11, <2>1 DEF Poller, PollExpire, PollEnd
<1>12. ASSUME SendNext PROVE WithdrawInv'
  BY <1>3, <1>12 DEF SendNext, SendStart, SendCheck, SendBegin, SendCommit,
                     SendRollback, SendEnd
<1>13. ASSUME ListNext \/ EditNext PROVE WithdrawInv'
  BY <1>3, <1>13
     DEF ListNext, ExpireStaleOffers, ExpireStaleOffersForCandidate, EditNext,
         EditStart, EditSave
<1>14. ASSUME Crash PROVE WithdrawInv'
  BY <1>2, <1>14 DEF Crash, WithdrawInv, ToldOfSettled, Idle
<1>15. ASSUME WorldNext \/ UNCHANGED vars PROVE WithdrawInv'
  BY <1>3, <1>14, <1>15
     DEF WorldNext, OfferFallsDue, MonthPasses, CheckVerification,
         CandidateReady, vars
<1>16. ASSUME OpNext PROVE WithdrawInv'
  BY <1>5, <1>6, <1>7, <1>8, <1>9, <1>10, <1>16 DEF OpNext
<1> QED BY <1>11, <1>12, <1>13, <1>15, <1>16 DEF Next

THEOREM ToldOfSettledHolds == Spec => []ToldOfSettled
<1>1. Init => ToldInv /\ WithdrawInv
  BY DEF Init, ToldInv, ToldTruth, WithdrawInv, ToldOfSettled, Idle
<1>2. WithdrawInv => ToldOfSettled
  BY DEF WithdrawInv
<1> QED BY <1>1, <1>2, TypeCorrect, BlindInvHolds, ToldStep, WithdrawStep, PTL
        DEF Spec
=============================================================================
