-------------------------- MODULE MCRetakeNotices --------------------------
(* RetakeNotices on a small instance: see RetakeNotices.cfg.               *)
EXTENDS RetakeNotices
=============================================================================
