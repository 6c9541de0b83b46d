---------------------------- MODULE MCCoordinator ----------------------------
(* What may go wrong while events of workers are told, results of delegations *)
(* brought to their origin, and approvals given.                              *)
EXTENDS Coordinator

WatcherCases == {{"undelivered", "restart"}, {"torn", "undelivered"}}

ResultCases == {{"undelivered", "refused", "restart", "remediation"},
                {"undelivered", "refused", "restart"},
                {"undelivered", "refused"}}

ApprovalCases == {{"overlap", "late"}, {"late"}}
=============================================================================
