---------------------------- MODULE OneTimeCodes ----------------------------
(***************************************************************************)
(* What a store of one-time codes promises: a code works while it is out,  *)
(* it is accepted once at most, and a code that is no longer out, because  *)
(* it was accepted or withdrawn, never comes out again.                    *)
(***************************************************************************)
EXTENDS Naturals

CONSTANT Slips     \* the codes that can be handed out

VARIABLES
  out,       (* the codes handed out and neither accepted nor withdrawn    *)
  closed,    (* those that were                                            *)
  accepted   (* how often each code was accepted                           *)

vars == <<out, closed, accepted>>

Init ==
  /\ out = {}
  /\ closed = {}
  /\ accepted = [k \in Slips |-> 0]

HandOut(k) ==
  /\ k \notin out \cup closed
  /\ out' = out \cup {k}
  /\ UNCHANGED <<closed, accepted>>

Withdraw(K) ==
  /\ out' = out \ K
  /\ closed' = closed \cup K
  /\ UNCHANGED accepted

Accept(k) ==
  /\ k \in out
  /\ out' = out \ {k}
  /\ closed' = closed \cup {k}
  /\ accepted' = [accepted EXCEPT ![k] = @ + 1]

Next ==
  \/ \E k \in Slips : HandOut(k) \/ Accept(k)
  \/ \E K \in SUBSET out : Withdraw(K)

Spec == Init /\ [][Next]_vars
=============================================================================
