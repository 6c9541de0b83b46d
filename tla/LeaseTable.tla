----------------------------- MODULE LeaseTable -----------------------------
(***************************************************************************)
(* What the reservation store promises: the table of active leases of a    *)
(* project, in which granting a lease checks capacity and takes it in one  *)
(* indivisible step.                                                       *)
(***************************************************************************)
EXTENDS Naturals, FiniteSets

CONSTANTS
  Leases,       \* the leases that may ever be granted
  Resources,    \* what a policy limits (totalInternal, writersTotal, ...)
  Uses(_),      \* the resources a lease counts against
  Capacity      \* the policy: how many active leases a resource admits

VARIABLE leases \* the active ones

Holding(res) == {l \in leases : res \in Uses(l)}

Init == leases = {}

\* A lease is granted only where every resource it uses has room.
Grant(l) ==
  /\ l \notin leases
  /\ \A res \in Uses(l) : Cardinality(Holding(res)) < Capacity[res]
  /\ leases' = leases \cup {l}

Release(l) == l \in leases /\ leases' = leases \ {l}

Next == \E l \in Leases : Grant(l) \/ Release(l)

Spec == Init /\ [][Next]_leases

\* No resource of the policy is ever over-committed.
CapacityRespected ==
  \A res \in Resources : Cardinality(Holding(res)) <= Capacity[res]
=============================================================================
