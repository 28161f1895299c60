---------------------------- MODULE MCScheduled ----------------------------
(* An instance of scheduled orders for TLC.                                 *)
EXTENDS Scheduled, TLC

CONSTANTS a, b, u1, u2, d1, d2
=============================================================================
