----------------------------- MODULE Reservation -----------------------------
(***************************************************************************)
(* What dispatch and the trip promise about an order and its driver,       *)
(* without queues, offers, locks, timers or processes: an order is open    *)
(* until a driver holds it, a held order becomes agreed or open again, an  *)
(* agreed one is carried out by the driver who agreed, and no driver is    *)
(* engaged by two orders.  Module Dispatch implements it.                  *)
(***************************************************************************)
CONSTANTS Order, Driver, NoDriver

VARIABLES
    phase,      \* where the order is in its life
    holder      \* the driver it is given to

vars == <<phase, holder>>

\* Phases in which the holder is engaged.
Engaging == {"held", "agreed", "coming", "riding"}

Phase == {"none", "open", "done", "dropped"} \union Engaging

TypeOK ==
    /\ phase \in [Order -> Phase]
    /\ holder \in [Order -> Driver \union {NoDriver}]

Init ==
    /\ phase = [o \in Order |-> "none"]
    /\ holder = [o \in Order |-> NoDriver]

Engaged(d) == \E o \in Order : phase[o] \in Engaging /\ holder[o] = d

\* A step of the order's life that leaves the holder as it is.
Proceed(o, from, to) ==
    /\ phase[o] \in from
    /\ phase' = [phase EXCEPT ![o] = to]
    /\ UNCHANGED holder

Open(o) == Proceed(o, {"none"}, "open")

\* A driver takes the order: for good, or until the passenger has seen the
\* price.
Take(o, d) ==
    /\ phase[o] = "open"
    /\ ~ Engaged(d)
    /\ \E to \in {"held", "agreed"} : phase' = [phase EXCEPT ![o] = to]
    /\ holder' = [holder EXCEPT ![o] = d]

Agree(o) == Proceed(o, {"held"}, "agreed")

GiveBack(o) ==
    /\ phase[o] = "held"
    /\ phase' = [phase EXCEPT ![o] = "open"]
    /\ holder' = [holder EXCEPT ![o] = NoDriver]

Come(o) == Proceed(o, {"agreed"}, "coming")

Ride(o) == Proceed(o, {"coming"}, "riding")

Complete(o) == Proceed(o, {"riding"}, "done")

Drop(o) == Proceed(o, {"open", "held", "agreed", "coming"}, "dropped")

Next ==
    \E o \in Order :
        \/ Open(o) \/ Agree(o) \/ GiveBack(o) \/ Come(o) \/ Ride(o)
        \/ Complete(o) \/ Drop(o)
        \/ \E d \in Driver : Take(o, d)

Spec == Init /\ [][Next]_vars
=============================================================================
