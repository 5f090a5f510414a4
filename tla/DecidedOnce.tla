----------------------------- MODULE DecidedOnce -----------------------------
(***************************************************************************)
(* What tables of results promise to their readers: of each test there is  *)
(* one outcome at most for a person, an outcome that is there stays as it  *)
(* is, and once a person has left there is none and none comes any more.   *)
(***************************************************************************)
CONSTANTS Tests, Persons, Outcomes

VARIABLES
  outcome,  (* the rows there are for a test and a person, as a set        *)
  left      (* the persons who have left                                   *)

vars == <<outcome, left>>

Init ==
  /\ outcome = [i \in Tests \X Persons |-> {}]
  /\ left = {}

Decide(t, p, o) ==
  /\ p \notin left
  /\ outcome[<<t, p>>] = {}
  /\ outcome' = [outcome EXCEPT ![<<t, p>>] = {o}]
  /\ UNCHANGED left

Leave(p) ==
  /\ left' = left \cup {p}
  /\ outcome' = [i \in Tests \X Persons |-> IF i[2] = p THEN {} ELSE outcome[i]]

Next ==
  \/ \E t \in Tests, p \in Persons, o \in Outcomes : Decide(t, p, o)
  \/ \E p \in Persons : Leave(p)

Spec == Init /\ [][Next]_vars
=============================================================================
