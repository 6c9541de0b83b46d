----------------------------- MODULE MCDelegation -----------------------------
(* What may go wrong while launches follow one another, children leave no     *)
(* command behind and no operator interferes; while they do; and what         *)
(* operators may have to clear up.                                            *)
EXTENDS Delegation
Cases == {AllFaults \ {"overlap", "orphan", "operator"},
          {"overlap", "orphan", "unverified", "crash"},
          {"operator", "release", "gate", "refused"}}
=============================================================================
