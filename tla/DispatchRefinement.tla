------------------------- MODULE DispatchRefinement -------------------------
(***************************************************************************)
(* Dispatch implements Reservation: the phase and the holder of an order   *)
(* are read off its row, and nothing else of the state matters to what is  *)
(* promised.                                                               *)
(***************************************************************************)
EXTENDS Dispatch

PhaseOf(row) ==
    CASE row.status = "absent"                              -> "none"
      [] row.status \in {"created", "searching"}            -> "open"
      [] row.status = "driver_assigned"                     ->
             IF row.price = "confirmed" THEN "agreed" ELSE "held"
      [] row.status \in {"driver_arriving", "driver_waiting"} -> "coming"
      [] row.status = "in_progress"                         -> "riding"
      [] row.status = "completed"                           -> "done"
      [] row.status \in {"cancelled", "failed"}             -> "dropped"

R == INSTANCE Reservation WITH
        phase  <- [o \in Order |-> PhaseOf(ord[o])],
        holder <- [o \in Order |-> ord[o].driver]

\* Every behaviour of dispatch is one the abstract reservation allows,
\* whatever crashes, errors and expirations it contains.
ImplementsReservation == R!Spec
=============================================================================
