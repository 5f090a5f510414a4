--------------------------- MODULE OfferLifecycle ---------------------------
(***************************************************************************)
(* What the offers promise to the rest of the system, whatever requests    *)
(* and timers race behind them: an offer is sent once, is answered or      *)
(* withdrawn or expires at most once, and expires only after its date.  It *)
(* keeps the status it was settled with, unless a write that did not check *)
(* the status overwrites it; such an offer may change again.               *)
(***************************************************************************)
CONSTANT OfferIds

VARIABLES status, due, overwritten

vars == <<status, due, overwritten>>

Settled == {"accepted", "declined", "expired", "withdrawn"}

Init ==
  /\ status = [o \in OfferIds |-> "none"]
  /\ due = {}
  /\ overwritten = {}

Send(o) ==
  /\ status[o] = "none"
  /\ status' = [status EXCEPT ![o] = "pending"]
  /\ UNCHANGED <<due, overwritten>>

Settle(o, st) ==
  /\ status[o] = "pending"
  /\ status' = [status EXCEPT ![o] = st]
  /\ UNCHANGED <<due, overwritten>>

(* Any number of overdue offers expire together.                           *)
Expire(os) ==
  /\ \A o \in os : status[o] = "pending" /\ o \in due
  /\ status' = [o \in OfferIds |-> IF o \in os THEN "expired" ELSE status[o]]
  /\ UNCHANGED <<due, overwritten>>

(* A settled offer, or one that was overwritten before, gets any status a  *)
(* row may have; but even so none expires before its date.                 *)
Overwrite(o, st) ==
  /\ status[o] \in Settled \/ o \in overwritten
  /\ st = "expired" => o \in due
  /\ status' = [status EXCEPT ![o] = st]
  /\ overwritten' = overwritten \cup (IF status[o] \in Settled THEN {o} ELSE {})
  /\ UNCHANGED due

FallDue(o) ==
  /\ status[o] # "none"
  /\ due' = due \cup {o}
  /\ UNCHANGED <<status, overwritten>>

Next ==
  \/ \E o \in OfferIds : Send(o) \/ FallDue(o)
  \/ \E o \in OfferIds, st \in {"accepted", "declined", "withdrawn"} :
       Settle(o, st)
  \/ \E os \in SUBSET OfferIds : Expire(os)
  \/ \E o \in OfferIds, st \in {"pending"} \cup Settled : Overwrite(o, st)

Spec == Init /\ [][Next]_vars
=============================================================================
