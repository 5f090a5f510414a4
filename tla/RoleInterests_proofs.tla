------------------------ MODULE RoleInterests_proofs ------------------------
(***************************************************************************)
(* Theorems about RoleInterests, for every number of talents, roles and    *)
(* concurrent requests, every limit and every cap.                         *)
(***************************************************************************)
EXTENDS RoleInterests, FiniteSetTheorems, TLAPS

(***************************************************************************)
(* Types.                                                                  *)
(***************************************************************************)

(* Whatever the employer changes in a role, it remains a role.             *)
LEMMA ChangedType ==
  ASSUME NEW row \in RoleRow, NEW new \in Changed(row)
  PROVE  new \in RoleRow /\ new.count = row.count
BY DEF Changed, RoleRow

LEMMA TypeStep == TypeOK /\ [Next]_vars => TypeOK'
<1> SUFFICES ASSUME TypeOK, [Next]_vars PROVE TypeOK'
  OBVIOUS
<1> USE DEF users, history
<1>1. ASSUME NEW m \in Marks, NEW t \in Talents, NEW r \in Roles,
             MarkStart(m, t, r)
      PROVE  TypeOK'
  <2>1. [pc |-> "begin", talent |-> t, role |-> r, window |-> week]
          \in MarkRequest
    BY DEF TypeOK, MarkRequest
  <2> QED BY <1>1, <2>1 DEF MarkStart, TypeOK
<1>2. ASSUME NEW m \in Marks, MarkBegin(m) PROVE TypeOK'
  <2>1. mark[m] \in MarkRequest /\ mark[m].pc = "begin"
    BY <1>2 DEF MarkBegin, TypeOK
  <2>2. [pc |-> "locked", talent |-> mark[m].talent, role |-> mark[m].role,
         window |-> mark[m].window, created |-> week] \in MarkRequest
    BY <2>1 DEF MarkRequest, TypeOK, Idle
  <2> QED BY <1>2, <2>2 DEF MarkBegin, TypeOK
<1>3. ASSUME NEW m \in Marks, MarkInsert(m) PROVE TypeOK'
  <2> DEFINE row == [talent |-> mark[m].talent, role |-> mark[m].role,
                     created |-> mark[m].created, window |-> mark[m].window]
  <2>1. row \in Interest /\ row.talent \notin gone /\ row.role \in Roles
    BY <1>3 DEF MarkInsert, Accepts, TypeOK, MarkRequest, Interest, Idle
  <2>2. interest' = interest \cup {row}
    BY <1>3 DEF MarkInsert
  <2>3. role' \in [Roles -> RoleRow] /\ inserted' \in [Roles -> Nat]
    BY <1>3, <2>1 DEF MarkInsert, TypeOK, RoleRow
  <2>4. mark' \in [Marks -> MarkRequest]
    BY <1>3 DEF MarkInsert, TypeOK, MarkRequest
  <2> QED BY <1>3, <2>1, <2>2, <2>3, <2>4 DEF MarkInsert, TypeOK
<1>4. ASSUME NEW m \in Marks, MarkEnd(m) PROVE TypeOK'
  BY <1>4 DEF MarkEnd, TypeOK, MarkRequest
<1>5. ASSUME NEW e \in Edits, NEW r \in Roles, EditLoad(e, r) PROVE TypeOK'
  <2>1. PICK row \in Changed(role[r]) :
          edit' = [edit EXCEPT ![e] = [pc |-> "save", role |-> r, row |-> row]]
    BY <1>5 DEF EditLoad
  <2>2. [pc |-> "save", role |-> r, row |-> row] \in EditRequest
    BY <2>1, ChangedType DEF TypeOK, EditRequest
  <2> QED BY <1>5, <2>1, <2>2 DEF EditLoad, TypeOK
<1>6. ASSUME NEW e \in Edits, EditSave(e) PROVE TypeOK'
  <2>1. edit[e].role \in Roles /\ edit[e].row \in RoleRow
    BY <1>6 DEF EditSave, TypeOK, EditRequest, Idle
  <2> QED BY <1>6, <2>1 DEF EditSave, TypeOK, EditRequest
<1>7. CASE WeekPasses
  BY <1>7, NumbersAssumption DEF WeekPasses, TypeOK, Week
<1>8. ASSUME NEW t \in Talents, DeleteTalent(t) PROVE TypeOK'
  BY <1>8 DEF DeleteTalent, TypeOK
<1>9. CASE Crash
  BY <1>9 DEF Crash, TypeOK, MarkRequest, EditRequest
<1>10. CASE UNCHANGED vars
  BY <1>10 DEF vars, TypeOK
<1> QED
  BY <1>1, <1>2, <1>3, <1>4, <1>5, <1>6, <1>7, <1>8, <1>9, <1>10
     DEF Next, MarkNext, EditNext, WorldNext

(* Every variable keeps its type, and no interest of a deleted talent is   *)
(* left or inserted, however late the click.                               *)
THEOREM TypeCorrect == Spec => []TypeOK
<1>1. Init => TypeOK
  BY NumbersAssumption
     DEF Init, TypeOK, Week, RoleRow, MarkRequest, EditRequest
<1> QED BY <1>1, TypeStep, PTL DEF Spec

(* One element adds at most one to the cardinality.                        *)
LEMMA OneMore ==
  ASSUME NEW S, NEW x, IsFiniteSet(S)
  PROVE  /\ Cardinality(S \cup {x}) \in Nat
         /\ Cardinality(S \cup {x}) <= Cardinality(S) + 1
<1>1. IsFiniteSet(S \cup {x}) /\ Cardinality(S) \in Nat
  BY FS_AddElement, FS_CardinalityType
<1>2. Cardinality(S \cup {x}) \in Nat
  BY <1>1, FS_CardinalityType
<1>3. Cardinality(S \cup {x}) \in {Cardinality(S), Cardinality(S) + 1}
  BY FS_AddElement
<1> QED BY <1>1, <1>2, <1>3

(***************************************************************************)
(* The interests are only added one at a time, by clicks.                  *)
(***************************************************************************)

(* A step inserts the interest of one click, with its counters, or adds    *)
(* none and leaves the history of insertions alone.                        *)
LEMMA OneInterestAtATime ==
  ASSUME TypeOK, [Next]_vars
  PROVE  \/ \E m \in Marks : MarkInsert(m)
         \/ interest' \subseteq interest /\ UNCHANGED inserted
<1> USE DEF users, history
<1>1. CASE MarkNext
  BY <1>1 DEF MarkNext, MarkStart, MarkBegin, MarkEnd
<1>2. CASE EditNext
  BY <1>2 DEF EditNext, EditLoad, EditSave
<1>3. CASE WorldNext
  BY <1>3 DEF WorldNext, WeekPasses, DeleteTalent, Crash
<1> QED BY <1>1, <1>2, <1>3 DEF Next, vars

Finite == IsFiniteSet(interest)

LEMMA FiniteInvariant == Spec => []Finite
<1>1. Init => Finite
  BY FS_EmptySet DEF Init, Finite
<1>2. TypeOK /\ Finite /\ [Next]_vars => Finite'
  <2> SUFFICES ASSUME TypeOK, Finite, [Next]_vars PROVE IsFiniteSet(interest')
    BY DEF Finite
  <2>1. ASSUME NEW m \in Marks, MarkInsert(m) PROVE IsFiniteSet(interest')
    BY <2>1, FS_AddElement DEF MarkInsert, Finite
  <2>2. ASSUME interest' \subseteq interest PROVE IsFiniteSet(interest')
    BY <2>2, FS_Subset DEF Finite
  <2> QED BY <2>1, <2>2, OneInterestAtATime
<1> QED BY <1>1, <1>2, TypeCorrect, PTL DEF Spec

(***************************************************************************)
(* The weekly limit.                                                       *)
(***************************************************************************)
CountedAndCreated(t, w) == {i \in ThisWeek(t, w) : i.window = w}

LEMMA WeeklyStep ==
  ASSUME TypeOK, Finite, WeeklyLimitKept, [Next]_vars
  PROVE  WeeklyLimitKept'
<1> SUFFICES ASSUME NEW t \in Talents, NEW w \in Week
             PROVE  Cardinality(CountedAndCreated(t, w)') <= WeeklyLimit
  BY DEF WeeklyLimitKept, CountedAndCreated
<1>1. /\ IsFiniteSet(CountedAndCreated(t, w))
      /\ Cardinality(CountedAndCreated(t, w)) \in Nat
      /\ Cardinality(CountedAndCreated(t, w)) <= WeeklyLimit
      /\ IsFiniteSet(ThisWeek(t, w)) /\ Cardinality(ThisWeek(t, w)) \in Nat
      /\ Cardinality(CountedAndCreated(t, w)) <= Cardinality(ThisWeek(t, w))
  <2>1. ThisWeek(t, w) \subseteq interest
        /\ CountedAndCreated(t, w) \subseteq ThisWeek(t, w)
    BY DEF ThisWeek, CountedAndCreated
  <2>2. IsFiniteSet(ThisWeek(t, w))
    BY <2>1, FS_Subset DEF Finite
  <2> QED
    BY <2>1, <2>2, FS_Subset, FS_CardinalityType
       DEF WeeklyLimitKept, CountedAndCreated
<1>2. ASSUME interest' \subseteq interest
      PROVE  Cardinality(CountedAndCreated(t, w)') <= WeeklyLimit
  <2>1. CountedAndCreated(t, w)' \subseteq CountedAndCreated(t, w)
    BY <1>2 DEF CountedAndCreated, ThisWeek
  <2>2. /\ Cardinality(CountedAndCreated(t, w)')
             <= Cardinality(CountedAndCreated(t, w))
        /\ Cardinality(CountedAndCreated(t, w)') \in Nat
    BY <1>1, <2>1, FS_Subset, FS_CardinalityType
  <2> QED BY <1>1, <2>2, NumbersAssumption
<1>3. ASSUME NEW m \in Marks, MarkInsert(m)
      PROVE  Cardinality(CountedAndCreated(t, w)') <= WeeklyLimit
  <2> DEFINE row == [talent |-> mark[m].talent, role |-> mark[m].role,
                     created |-> mark[m].created, window |-> mark[m].window]
  <2>1. /\ interest' = interest \cup {row}
        /\ UnderLimit(row.talent, row.window)
    BY <1>3 DEF MarkInsert, Accepts, Acceptable
  <2>2. CASE row.talent = t /\ row.created = w /\ row.window = w
    <3>1. CountedAndCreated(t, w)' = CountedAndCreated(t, w) \cup {row}
      BY <2>1, <2>2 DEF CountedAndCreated, ThisWeek
    <3>2. Cardinality(ThisWeek(t, w)) < WeeklyLimit
      BY <2>1, <2>2 DEF UnderLimit
    <3>3. Cardinality(CountedAndCreated(t, w) \cup {row})
            <= Cardinality(CountedAndCreated(t, w)) + 1
          /\ Cardinality(CountedAndCreated(t, w) \cup {row}) \in Nat
      BY <1>1, OneMore
    <3> HIDE DEF row
    <3> QED BY <1>1, <3>1, <3>2, <3>3, NumbersAssumption
  <2>3. CASE ~ (row.talent = t /\ row.created = w /\ row.window = w)
    <3>1. CountedAndCreated(t, w)' = CountedAndCreated(t, w)
      BY <2>1, <2>3 DEF CountedAndCreated, ThisWeek
    <3> QED BY <1>1, <3>1
  <2> QED BY <2>2, <2>3
<1> QED BY <1>2, <1>3, OneInterestAtATime

(* The weekly limit holds for any number of overlapping clicks.            *)
THEOREM WeeklyLimitHolds == Spec => []WeeklyLimitKept
<1>1. Init => WeeklyLimitKept
  <2> SUFFICES ASSUME Init, NEW t \in Talents, NEW w \in Week
               PROVE  Cardinality(CountedAndCreated(t, w)) <= WeeklyLimit
    BY DEF WeeklyLimitKept, CountedAndCreated
  <2>1. CountedAndCreated(t, w) = {}
    BY DEF Init, CountedAndCreated, ThisWeek
  <2> QED BY <2>1, FS_EmptySet, NumbersAssumption
<1> QED
  BY <1>1, WeeklyStep, TypeCorrect, FiniteInvariant, PTL DEF Spec

(***************************************************************************)
(* The counter and the cap.                                                *)
(***************************************************************************)

(* The copies in flight are not ahead of the insertions either; and the    *)
(* counter of a role it was not set back in is exact.                      *)
CountInv ==
  /\ CountNeverInvented
  /\ \A e \in Edits :
       edit[e].pc = "save" => edit[e].row.count <= inserted[edit[e].role]
  /\ \A r \in Roles : r \notin overwritten => role[r].count = inserted[r]

LEMMA CountStep ==
  ASSUME TypeOK, CountInv, [Next]_vars
  PROVE  CountInv'
<1> USE DEF users, history, CountInv, CountNeverInvented
<1>1. ASSUME NEW m \in Marks, MarkInsert(m) PROVE CountInv'
  <2> DEFINE q == mark[m].role
  <2>1. q \in Roles
    BY <1>1 DEF MarkInsert, TypeOK, MarkRequest, Idle
  <2>2. /\ role' = [role EXCEPT ![q].count = @ + 1]
        /\ inserted' = [inserted EXCEPT ![q] = @ + 1]
        /\ UNCHANGED <<edit, overwritten>>
    BY <1>1 DEF MarkInsert
  <2>3. \A r \in Roles :
          /\ role'[r].count = role[r].count + (IF r = q THEN 1 ELSE 0)
          /\ inserted'[r] = inserted[r] + (IF r = q THEN 1 ELSE 0)
          /\ role[r].count \in Nat /\ inserted[r] \in Nat
    BY <2>1, <2>2 DEF TypeOK, RoleRow
  <2>4. \A e \in Edits : edit[e].pc = "save" =>
          edit[e].role \in Roles /\ edit[e].row.count \in Nat
    BY DEF TypeOK, EditRequest, Idle, RoleRow
  <2> QED BY <2>2, <2>3, <2>4
<1>2. ASSUME NEW e \in Edits, NEW r \in Roles, EditLoad(e, r) PROVE CountInv'
  <2>1. PICK row \in Changed(role[r]) :
          edit' = [edit EXCEPT ![e] = [pc |-> "save", role |-> r, row |-> row]]
    BY <1>2 DEF EditLoad
  <2>2. row.count <= inserted[r]
    BY <2>1, ChangedType DEF TypeOK
  <2> QED BY <1>2, <2>1, <2>2 DEF EditLoad, TypeOK
<1>3. ASSUME NEW e \in Edits, EditSave(e) PROVE CountInv'
  <2>1. edit[e].role \in Roles /\ edit[e].row \in RoleRow
    BY <1>3 DEF EditSave, TypeOK, EditRequest, Idle
  <2> QED BY <1>3, <2>1 DEF EditSave, TypeOK, Idle
<1>4. ASSUME UNCHANGED <<role, inserted, overwritten>>,
             UNCHANGED edit \/ edit' = [e \in Edits |-> Idle]
      PROVE  CountInv'
  BY <1>4 DEF Idle
<1>5. CASE MarkNext /\ ~ \E m \in Marks : MarkInsert(m)
  BY <1>4, <1>5 DEF MarkNext, MarkStart, MarkBegin, MarkEnd
<1>6. CASE WorldNext \/ UNCHANGED vars
  BY <1>4, <1>6 DEF WorldNext, WeekPasses, DeleteTalent, Crash, vars
<1> QED BY <1>1, <1>2, <1>3, <1>5, <1>6 DEF Next, EditNext

LEMMA CountInvariant == Spec => []CountInv
<1>1. Init => CountInv
  BY DEF Init, CountInv, CountNeverInvented, Idle
<1> QED BY <1>1, CountStep, TypeCorrect, PTL DEF Spec

(* No save makes interested_count exceed the interests ever expressed.     *)
THEOREM CountNeverInventedHolds == Spec => []CountNeverInvented
BY CountInvariant, PTL DEF CountInv

(* A role has no more interests than were ever inserted.                   *)
InterestsBounded ==
  \A r \in Roles : Cardinality(InterestsIn(r)) <= inserted[r]

(* What an insertion and any other step do to the interests of a role.     *)
LEMMA InterestsStep ==
  ASSUME TypeOK, Finite, [Next]_vars, NEW r \in Roles
  PROVE  /\ Cardinality(InterestsIn(r)) \in Nat
         /\ Cardinality(InterestsIn(r)') \in Nat
         /\ \/ /\ Cardinality(InterestsIn(r)') <= Cardinality(InterestsIn(r))
               /\ inserted[r] <= inserted'[r]
            \/ /\ Cardinality(InterestsIn(r)') <= Cardinality(InterestsIn(r)) + 1
               /\ inserted'[r] = inserted[r] + 1
               /\ UnderCap(role[r])
<1>0. IsFiniteSet(InterestsIn(r)) /\ Cardinality(InterestsIn(r)) \in Nat
      /\ inserted[r] \in Nat
  BY FS_Subset, FS_CardinalityType DEF Finite, InterestsIn, TypeOK
<1>1. ASSUME interest' \subseteq interest, UNCHANGED inserted
      PROVE  /\ Cardinality(InterestsIn(r)') \in Nat
             /\ Cardinality(InterestsIn(r)') <= Cardinality(InterestsIn(r))
             /\ inserted[r] <= inserted'[r]
  <2>1. InterestsIn(r)' \subseteq InterestsIn(r)
    BY <1>1 DEF InterestsIn
  <2> QED BY <1>0, <1>1, <2>1, FS_Subset, FS_CardinalityType
<1>2. ASSUME NEW m \in Marks, MarkInsert(m)
      PROVE  /\ Cardinality(InterestsIn(r)') \in Nat
             /\ \/ /\ Cardinality(InterestsIn(r)') <= Cardinality(InterestsIn(r))
                   /\ inserted[r] <= inserted'[r]
                \/ /\ Cardinality(InterestsIn(r)')
                        <= Cardinality(InterestsIn(r)) + 1
                   /\ inserted'[r] = inserted[r] + 1
                   /\ UnderCap(role[r])
  <2> DEFINE row == [talent |-> mark[m].talent, role |-> mark[m].role,
                     created |-> mark[m].created, window |-> mark[m].window]
  <2>1. /\ interest' = interest \cup {row}
        /\ inserted' = [inserted EXCEPT ![row.role] = @ + 1]
        /\ UnderCap(role[row.role])
    BY <1>2 DEF MarkInsert, Accepts, Acceptable
  <2>2. CASE row.role = r
    <3>1. InterestsIn(r)' = InterestsIn(r) \cup {row}
      BY <2>1, <2>2 DEF InterestsIn
    <3>2. inserted'[r] = inserted[r] + 1 /\ UnderCap(role[r])
      BY <2>1, <2>2 DEF TypeOK
    <3>3. /\ Cardinality(InterestsIn(r) \cup {row}) \in Nat
          /\ Cardinality(InterestsIn(r) \cup {row})
               <= Cardinality(InterestsIn(r)) + 1
      BY <1>0, OneMore
    <3> HIDE DEF row
    <3> QED BY <1>0, <3>1, <3>2, <3>3
  <2>3. CASE row.role # r
    <3>1. InterestsIn(r)' = InterestsIn(r)
      BY <2>1, <2>3 DEF InterestsIn
    <3>2. inserted'[r] = inserted[r]
      BY <2>1, <2>3 DEF TypeOK
    <3> QED BY <1>0, <3>1, <3>2
  <2> QED BY <2>2, <2>3
<1> QED BY <1>0, <1>1, <1>2, OneInterestAtATime

LEMMA BoundedInvariant == Spec => []InterestsBounded
<1>1. Init => InterestsBounded
  <2> SUFFICES ASSUME Init, NEW r \in Roles
               PROVE  Cardinality(InterestsIn(r)) <= inserted[r]
    BY DEF InterestsBounded
  <2>1. InterestsIn(r) = {} /\ inserted[r] = 0
    BY DEF Init, InterestsIn
  <2> QED BY <2>1, FS_EmptySet
<1>2. TypeOK /\ TypeOK' /\ Finite /\ InterestsBounded /\ [Next]_vars
        => InterestsBounded'
  <2> SUFFICES ASSUME TypeOK, TypeOK', Finite, InterestsBounded, [Next]_vars,
                      NEW r \in Roles
               PROVE  Cardinality(InterestsIn(r)') <= inserted'[r]
    BY DEF InterestsBounded
  <2>1. inserted[r] \in Nat /\ inserted'[r] \in Nat
    BY DEF TypeOK
  <2> QED BY <2>1, InterestsStep DEF InterestsBounded
<1> QED BY <1>1, <1>2, TypeCorrect, FiniteInvariant, PTL DEF Spec

(* Unless a stale save has set the counter back, no click takes the        *)
(* talents interested in a role past its cap.                              *)
THEOREM CapHolds == Spec => CapKept
<1> DEFINE Kept ==
      \A r \in Roles \ overwritten :
        Cardinality(InterestsIn(r)') > Cardinality(InterestsIn(r))
          /\ role[r].cap # NoCap
        => Cardinality(InterestsIn(r)') <= role[r].cap
<1>1. TypeOK /\ Finite /\ CountInv /\ InterestsBounded /\ [Next]_vars => [Kept]_vars
  <2> SUFFICES ASSUME TypeOK, Finite, CountInv, InterestsBounded, [Next]_vars,
                      NEW r \in Roles \ overwritten,
                      Cardinality(InterestsIn(r)') > Cardinality(InterestsIn(r)),
                      role[r].cap # NoCap
               PROVE  Cardinality(InterestsIn(r)') <= role[r].cap
    OBVIOUS
  <2>1. /\ Cardinality(InterestsIn(r)) \in Nat
        /\ Cardinality(InterestsIn(r)') \in Nat
        /\ Cardinality(InterestsIn(r)') <= Cardinality(InterestsIn(r)) + 1
        /\ UnderCap(role[r])
    BY InterestsStep
  <2>2. role[r].count = inserted[r]
        /\ Cardinality(InterestsIn(r)) <= inserted[r]
    BY DEF CountInv, InterestsBounded
  <2>3. role[r].cap \in Nat /\ role[r].count \in Nat
    BY NumbersAssumption DEF TypeOK, RoleRow, NoCap
  <2> QED BY <2>1, <2>2, <2>3 DEF UnderCap
<1> QED
  BY <1>1, TypeCorrect, FiniteInvariant, CountInvariant, BoundedInvariant, PTL
     DEF Spec, CapKept

(***************************************************************************)
(* WeeklyLimitOfTheCalendar does not hold: a click that waits over the end *)
(* of a week is counted in the old week and created in the new one.  By    *)
(* how much a week can exceed the limit is known all the same.             *)
(***************************************************************************)

(* The clicks counted for another week whose interest would be created in  *)
(* week w.                                                                 *)
Straddling(w) ==
  {m \in Marks : \/ mark[m].pc = "begin" /\ week = w /\ mark[m].window # w
                 \/ mark[m].pc = "locked" /\ mark[m].created = w
                      /\ mark[m].window # w}

WeekOrder ==
  /\ \A i \in interest : i.created <= week
  /\ \A m \in Marks : mark[m].pc = "locked" => mark[m].created <= week

(* A click that is counted for its week leaves one slot less to those that *)
(* were waiting when the week began.                                       *)
OverrunInv ==
  /\ WeekOrder
  /\ \A t \in Talents, w \in Week :
       w <= week => Cardinality(ThisWeek(t, w)) + Cardinality(Straddling(w))
                      < WeeklyLimit + Cardinality(Marks)

(* A week of a talent exceeds the limit by fewer interests than there can  *)
(* be clicks in progress at once.                                          *)
WeekOverrunBounded ==
  \A t \in Talents, w \in Week :
    Cardinality(ThisWeek(t, w)) < WeeklyLimit + Cardinality(Marks)

(* One element leaves a set and one comes to another: the sum is kept.     *)
LEMMA OneGoesOver ==
  ASSUME NEW S, NEW T, IsFiniteSet(S), IsFiniteSet(T), NEW x, NEW y \in T,
         NEW S2 \in SUBSET (S \cup {x}), NEW T2 \in SUBSET (T \ {y}),
         NEW b \in Nat, Cardinality(S) + Cardinality(T) < b
  PROVE  Cardinality(S2) + Cardinality(T2) < b
<1>1. /\ IsFiniteSet(S \cup {x}) /\ Cardinality(S) \in Nat
      /\ Cardinality(S \cup {x}) \in Nat
      /\ Cardinality(S \cup {x}) <= Cardinality(S) + 1
  BY OneMore, FS_AddElement, FS_CardinalityType
<1>2. /\ IsFiniteSet(T \ {y}) /\ Cardinality(T \ {y}) = Cardinality(T) - 1
      /\ Cardinality(T) \in Nat
  BY FS_RemoveElement, FS_CardinalityType
<1>3. /\ IsFiniteSet(S2) /\ Cardinality(S2) <= Cardinality(S \cup {x})
      /\ IsFiniteSet(T2) /\ Cardinality(T2) <= Cardinality(T \ {y})
  BY <1>1, <1>2, FS_Subset
<1>4. Cardinality(S2) \in Nat /\ Cardinality(T2) \in Nat
  BY <1>3, FS_CardinalityType
<1> QED BY <1>1, <1>2, <1>3, <1>4

LEMMA NeitherGrows ==
  ASSUME NEW S, NEW T, IsFiniteSet(S), IsFiniteSet(T),
         NEW S2 \in SUBSET S, NEW T2 \in SUBSET T,
         NEW b \in Nat, Cardinality(S) + Cardinality(T) < b
  PROVE  Cardinality(S2) + Cardinality(T2) < b
<1>1. /\ IsFiniteSet(S2) /\ Cardinality(S2) <= Cardinality(S)
      /\ IsFiniteSet(T2) /\ Cardinality(T2) <= Cardinality(T)
  BY FS_Subset
<1>2. /\ Cardinality(S) \in Nat /\ Cardinality(S2) \in Nat
      /\ Cardinality(T) \in Nat /\ Cardinality(T2) \in Nat
  BY <1>1, FS_CardinalityType
<1> QED BY <1>1, <1>2

LEMMA WeekSetsFinite ==
  ASSUME IsFiniteSet(Marks), Finite
  PROVE  \A t, w : IsFiniteSet(ThisWeek(t, w)) /\ IsFiniteSet(Straddling(w))
<1>1. \A t, w : ThisWeek(t, w) \subseteq interest /\ Straddling(w) \subseteq Marks
  BY DEF ThisWeek, Straddling
<1> QED BY <1>1, FS_Subset DEF Finite

(* A step inserts an interest, or ends a week, or does neither; then no    *)
(* click joins those that wait over the end of a week.                     *)
LEMMA WeekStep ==
  ASSUME TypeOK, WeekOrder, [Next]_vars
  PROVE  \/ \E m \in Marks : MarkInsert(m)
         \/ WeekPasses
         \/ /\ interest' \subseteq interest /\ week' = week
            /\ WeekOrder'
            /\ \A w : Straddling(w)' \subseteq Straddling(w)
<1> DEFINE Quiet == /\ interest' \subseteq interest /\ week' = week
                    /\ WeekOrder'
                    /\ \A w : Straddling(w)' \subseteq Straddling(w)
<1> USE DEF users, history
<1>1. ASSUME UNCHANGED week, interest' \subseteq interest,
             \A m \in Marks : mark'[m] = mark[m] \/ mark'[m] = Idle
      PROVE  Quiet
  BY <1>1 DEF WeekOrder, Straddling, Idle
<1>2. ASSUME NEW m \in Marks, NEW t \in Talents, NEW r \in Roles,
             MarkStart(m, t, r)
      PROVE  Quiet
  <2>1. /\ mark'[m].pc = "begin" /\ mark'[m].window = week /\ week' = week
        /\ \A n \in Marks \ {m} : mark'[n] = mark[n]
        /\ interest' = interest
    BY <1>2 DEF MarkStart, TypeOK
  <2> QED BY <2>1 DEF WeekOrder, Straddling
<1>3. ASSUME NEW m \in Marks, MarkBegin(m) PROVE Quiet
  <2>1. /\ mark'[m].pc = "locked" /\ mark'[m].window = mark[m].window
        /\ mark'[m].created = week /\ week' = week
        /\ \A n \in Marks \ {m} : mark'[n] = mark[n]
        /\ interest' = interest /\ mark[m].pc = "begin"
    BY <1>3 DEF MarkBegin, TypeOK
  <2>2. week \in Nat
    BY DEF TypeOK, Week
  <2> QED BY <2>1, <2>2 DEF WeekOrder, Straddling
<1>4. ASSUME NEW m \in Marks, MarkEnd(m) PROVE Quiet
  <2>1. \A n \in Marks : mark'[n] = mark[n] \/ mark'[n] = Idle
    BY <1>4 DEF MarkEnd, TypeOK
  <2> QED BY <1>1, <1>4, <2>1 DEF MarkEnd
<1>5. ASSUME EditNext PROVE Quiet
  BY <1>1, <1>5 DEF EditNext, EditLoad, EditSave
<1>6. ASSUME WorldNext, ~ WeekPasses PROVE Quiet
  <2>1. ASSUME NEW t \in Talents, DeleteTalent(t) PROVE Quiet
    BY <1>1, <2>1 DEF DeleteTalent
  <2>2. ASSUME Crash PROVE Quiet
    BY <1>1, <2>2 DEF Crash
  <2> HIDE DEF Quiet
  <2> QED BY <1>6, <2>1, <2>2 DEF WorldNext
<1>7. ASSUME UNCHANGED vars PROVE Quiet
  BY <1>1, <1>7 DEF vars
<1> HIDE DEF Quiet
<1>8. (\E m \in Marks : MarkInsert(m)) \/ WeekPasses \/ Quiet
  BY <1>2, <1>3, <1>4, <1>5, <1>6, <1>7 DEF Next, MarkNext, WorldNext
<1> QED BY <1>8 DEF Quiet

LEMMA OverrunStep ==
  ASSUME IsFiniteSet(Marks)
  PROVE  TypeOK /\ Finite /\ OverrunInv /\ [Next]_vars => OverrunInv'
<1> SUFFICES ASSUME TypeOK, Finite, OverrunInv, [Next]_vars PROVE OverrunInv'
  OBVIOUS
<1>0. /\ week \in Nat /\ \A w \in Week : w \in Nat
      /\ Cardinality(Marks) \in Nat
      /\ WeeklyLimit + Cardinality(Marks) \in Nat
  BY NumbersAssumption, FS_CardinalityType DEF TypeOK, Week
<1>1. ASSUME NEW m \in Marks, MarkInsert(m) PROVE OverrunInv'
  <2> DEFINE row == [talent |-> mark[m].talent, role |-> mark[m].role,
                     created |-> mark[m].created, window |-> mark[m].window]
  <2>1. /\ interest' = interest \cup {row}
        /\ UnderLimit(row.talent, row.window)
        /\ mark[m].pc = "locked" /\ row.created = mark[m].created
        /\ row.window = mark[m].window
        /\ row.created <= week /\ week' = week
    BY <1>1 DEF MarkInsert, Accepts, Acceptable, OverrunInv, WeekOrder, users
  <2>2. /\ mark'[m] = Idle
        /\ \A n \in Marks \ {m} : mark'[n] = mark[n]
    BY <1>1 DEF MarkInsert, TypeOK
  <2> HIDE DEF row
  <2>3. WeekOrder'
    BY <2>1, <2>2 DEF OverrunInv, WeekOrder, Idle
  <2>4. ASSUME NEW t \in Talents, NEW w \in Week, w <= week
        PROVE  Cardinality(ThisWeek(t, w)') + Cardinality(Straddling(w)')
                 < WeeklyLimit + Cardinality(Marks)
    <3>0. Cardinality(ThisWeek(t, w)) + Cardinality(Straddling(w))
            < WeeklyLimit + Cardinality(Marks)
      BY <2>4 DEF OverrunInv
    <3>1. IsFiniteSet(ThisWeek(t, w)) /\ IsFiniteSet(Straddling(w))
      BY WeekSetsFinite
    <3>2. Straddling(w)' \subseteq Straddling(w) \ {m}
      BY <2>1, <2>2 DEF Straddling, Idle
    <3>3. ThisWeek(t, w)' \subseteq ThisWeek(t, w) \cup {row}
      BY <2>1 DEF ThisWeek
    <3>4. CASE ~ (row.talent = t /\ row.created = w)
      <4>1. ThisWeek(t, w)' \subseteq ThisWeek(t, w)
        BY <2>1, <3>4 DEF ThisWeek
      <4> QED BY <1>0, <3>0, <3>1, <3>2, <4>1, NeitherGrows
    <3>5. CASE row.created = w /\ row.window # w
      <4>1. m \in Straddling(w)
        BY <2>1, <3>5 DEF Straddling
      <4> QED BY <1>0, <3>0, <3>1, <3>2, <3>3, <4>1, OneGoesOver
    <3>6. CASE row.talent = t /\ row.created = w /\ row.window = w
      <4>1. Cardinality(ThisWeek(t, w)) < WeeklyLimit
        BY <2>1, <3>6 DEF UnderLimit
      <4>2. Straddling(w)' \subseteq Marks \ {m}
        BY <3>2 DEF Straddling
      <4>3. Cardinality(ThisWeek(t, w)) + Cardinality(Marks)
              < WeeklyLimit + Cardinality(Marks)
        BY <1>0, <3>1, <4>1, FS_CardinalityType, NumbersAssumption
      <4> QED BY <1>0, <3>1, <3>3, <4>2, <4>3, OneGoesOver
    <3> QED BY <3>4, <3>5, <3>6
  <2> QED BY <2>1, <2>3, <2>4 DEF OverrunInv
<1>2. ASSUME WeekPasses PROVE OverrunInv'
  <2>1. week' = week + 1 /\ UNCHANGED <<interest, mark>>
    BY <1>2 DEF WeekPasses
  <2>2. WeekOrder'
    <3>1. /\ \A i \in interest : i.created \in Nat
          /\ \A m \in Marks : mark[m].pc = "locked" => mark[m].created \in Nat
      BY DEF TypeOK, Interest, MarkRequest, Idle, Week
    <3> QED BY <1>0, <2>1, <3>1 DEF OverrunInv, WeekOrder
  <2>3. ASSUME NEW t \in Talents, NEW w \in Week, w <= week'
        PROVE  Cardinality(ThisWeek(t, w)') + Cardinality(Straddling(w)')
                 < WeeklyLimit + Cardinality(Marks)
    <3>1. CASE w <= week
      <4>1. /\ ThisWeek(t, w)' \subseteq ThisWeek(t, w)
            /\ Straddling(w)' \subseteq Straddling(w)
        BY <1>0, <2>1, <3>1 DEF ThisWeek, Straddling
      <4>2. Cardinality(ThisWeek(t, w)) + Cardinality(Straddling(w))
              < WeeklyLimit + Cardinality(Marks)
        BY <3>1 DEF OverrunInv
      <4> QED BY <1>0, <4>1, <4>2, WeekSetsFinite, NeitherGrows
    <3>2. CASE ~ (w <= week)
      <4>1. ThisWeek(t, w)' = {}
        BY <2>1, <3>2 DEF ThisWeek, OverrunInv, WeekOrder
      <4>2. Straddling(w)' \subseteq Marks
        BY DEF Straddling
      <4>3. /\ Cardinality(Straddling(w)') <= Cardinality(Marks)
            /\ IsFiniteSet(Straddling(w)')
        BY <4>2, FS_Subset
      <4>4. Cardinality(Straddling(w)') \in Nat
        BY <4>3, FS_CardinalityType
      <4> QED BY <1>0, <4>1, <4>3, <4>4, FS_EmptySet, NumbersAssumption
    <3> QED BY <3>1, <3>2
  <2> QED BY <2>2, <2>3 DEF OverrunInv
<1>3. ASSUME interest' \subseteq interest, week' = week, WeekOrder',
             \A w : Straddling(w)' \subseteq Straddling(w)
      PROVE  OverrunInv'
  <2>1. ASSUME NEW t \in Talents, NEW w \in Week, w <= week
        PROVE  Cardinality(ThisWeek(t, w)') + Cardinality(Straddling(w)')
                 < WeeklyLimit + Cardinality(Marks)
    <3>1. ThisWeek(t, w)' \subseteq ThisWeek(t, w)
      BY <1>3 DEF ThisWeek
    <3>2. Cardinality(ThisWeek(t, w)) + Cardinality(Straddling(w))
            < WeeklyLimit + Cardinality(Marks)
      BY <2>1 DEF OverrunInv
    <3>3. Straddling(w)' \subseteq Straddling(w)
      BY <1>3
    <3> QED BY <1>0, <3>1, <3>2, <3>3, WeekSetsFinite, NeitherGrows
  <2> QED BY <1>3, <2>1 DEF OverrunInv
<1>4. WeekOrder
  BY DEF OverrunInv
<1> QED BY <1>1, <1>2, <1>3, <1>4, WeekStep

(* For any limit, a week of a talent exceeds it by fewer interests than    *)
(* there can be clicks in progress at once (WeekOverrunBounded).           *)
THEOREM WeekOverrunBoundedHolds ==
  ASSUME IsFiniteSet(Marks)
  PROVE  Spec => []WeekOverrunBounded
<1>0. Cardinality(Marks) \in Nat
  BY FS_CardinalityType
<1>1. Init => OverrunInv
  <2> SUFFICES ASSUME Init PROVE OverrunInv
    OBVIOUS
  <2>1. WeekOrder
    BY DEF Init, WeekOrder, Idle
  <2>2. ASSUME NEW t \in Talents, NEW w \in Week
        PROVE  Cardinality(ThisWeek(t, w)) + Cardinality(Straddling(w))
                 < WeeklyLimit + Cardinality(Marks)
    <3>1. ThisWeek(t, w) = {} /\ Straddling(w) = {}
      BY DEF Init, ThisWeek, Straddling, Idle
    <3> QED BY <1>0, <3>1, FS_EmptySet, NumbersAssumption
  <2> QED BY <2>1, <2>2 DEF OverrunInv
<1>2. TypeOK /\ Finite /\ OverrunInv => WeekOverrunBounded
  <2> SUFFICES ASSUME TypeOK, Finite, OverrunInv,
                      NEW t \in Talents, NEW w \in Week
               PROVE  Cardinality(ThisWeek(t, w))
                        < WeeklyLimit + Cardinality(Marks)
    BY DEF WeekOverrunBounded
  <2>1. CASE w <= week
    <3>1. /\ Cardinality(ThisWeek(t, w)) \in Nat
          /\ Cardinality(Straddling(w)) \in Nat
      BY WeekSetsFinite, FS_CardinalityType
    <3>2. Cardinality(ThisWeek(t, w)) + Cardinality(Straddling(w))
            < WeeklyLimit + Cardinality(Marks)
      BY <2>1 DEF OverrunInv
    <3> QED BY <1>0, <3>1, <3>2, NumbersAssumption
  <2>2. CASE ~ (w <= week)
    <3>1. ThisWeek(t, w) = {}
      BY <2>2 DEF ThisWeek, OverrunInv, WeekOrder
    <3> QED BY <1>0, <3>1, FS_EmptySet, NumbersAssumption
  <2> QED BY <2>1, <2>2
<1> QED BY <1>1, <1>2, OverrunStep, TypeCorrect, FiniteInvariant, PTL DEF Spec
=============================================================================
