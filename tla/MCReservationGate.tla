-------------------------- MODULE MCReservationGate --------------------------
(* Finite instances of ReservationGate. *)
EXTENDS ReservationGate, TLC

CONSTANTS p1, p2, p3, reader, writer

\* A read-only and a writing delegation, as the default policy counts them.
MCResourcesOf ==
  (reader :> {"totalInternal"}) @@ (writer :> {"totalInternal", "writersTotal"})

MCCapacity == [totalInternal |-> 2, writersTotal |-> 1]

MCResources == DOMAIN MCCapacity
=============================================================================
