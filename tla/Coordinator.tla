----------------------------- MODULE Coordinator -----------------------------
(***************************************************************************)
(* What the Pi coordinator runs in its process: the watcher of workers, the *)
(* watcher of delegations, and the tools that approve.  They share no       *)
(* state, so they are put side by side: a behaviour is one of WorkerWatcher, *)
(* of DelegationWatcher or of Approval, of launches or of delegations, and  *)
(* the others stay as they were.                                            *)
(***************************************************************************)
EXTENDS WorkerWatcher

CONSTANTS
  Delegations, Origin, Adopters, Turns,     \* of DelegationWatcher
  ResultFaultCases,                         \* its FaultCases
  Calls, Kinds, MaxWorld, MaxSessions,      \* of Approval
  ApprovalFaultCases                        \* its FaultCases

VARIABLES
  part,                                                  \* whose behaviour this is
  dfaults, rec, dwatch, cache, shown,                    \* of DelegationWatcher
  afaults, world, session, call, approved, mutations,    \* of Approval
  consumed, granted, started

Results == INSTANCE DelegationWatcher WITH
  FaultCases <- ResultFaultCases, faults <- dfaults, watch <- dwatch

Approving == INSTANCE Approval WITH FaultCases <- ApprovalFaultCases, faults <- afaults

ASSUME CoordinatorConstants == Results!ConsumptionConstants /\ Approving!ApprovalConstants

resultVars == <<dfaults, rec, dwatch, cache, shown>>
approvalVars ==
  <<afaults, world, session, call, approved, mutations, consumed, granted, started>>
sumVars == <<part, vars, resultVars, approvalVars>>

\* The parts that stay as they were have one initial state each.
SumInit ==
  /\ part \in {"workers", "results"} \cup Kinds
  /\ Init /\ Results!Init /\ Approving!Init
  /\ part # "workers" => faults = CHOOSE case \in FaultCases : TRUE
  /\ part # "results" => dfaults = CHOOSE case \in ResultFaultCases : TRUE
  /\ part \notin Kinds => afaults = CHOOSE case \in ApprovalFaultCases : TRUE

Workers == part = "workers" /\ UNCHANGED <<part, resultVars, approvalVars>>
Delegated == part = "results" /\ UNCHANGED <<part, vars, approvalVars>>

Tools ==
  /\ part \in Kinds
  /\ \A c \in Calls : call'[c].approval # None => call'[c].approval.digest.kind = part
  /\ UNCHANGED <<part, vars, resultVars>>

SumNext ==
  \/ Workers /\ Next
  \/ Delegated /\ Results!Next
  \/ Approving!Next /\ Tools

\* The fairness of WorkerWatcher and of DelegationWatcher.
SumSpec ==
  /\ SumInit /\ [][SumNext]_sumVars
  /\ WF_sumVars(Workers /\ (PollStarts \/ ReadsBus \/ Skips \/ PollEnds))
  /\ SF_sumVars(Workers /\ Delivers)
  /\ WF_sumVars(Delegated /\ (\/ Results!Lists \/ Results!AlreadyDelivered
                              \/ \E d \in Delegations : Results!Takes(d) \/ Results!Passes(d)))
  /\ WF_sumVars(Delegated /\ (Results!DeliveryFails \/ Results!Delivers))
  /\ WF_sumVars(Delegated /\ (Results!ConsumeFails \/ Results!Consumes))
  /\ \A d \in Delegations :
       /\ SF_sumVars(Delegated /\ Results!Delivers /\ dwatch.at = d)
       /\ SF_sumVars(Delegated /\ Results!Consumes /\ dwatch.at = d)

-----------------------------------------------------------------------------
(* What the coordinator promises, of the sum                               *)

\* Nobody is told twice: a generation of a worker's run once in a session, a
\* delegation's result or failed start once in a process, even when consuming
\* what was shown keeps failing.
NothingTwice ==
  /\ TypeOK /\ ToldOnce
  /\ Results!TypeOK /\ Results!ShownOnce

\* Nothing that was taken off a queue is lost: the cursor of the bus passes only
\* what is told, in hand or given up, and a result is taken on behalf of its
\* origin only after it was shown there (delegation-watcher.js:156-158), unless
\* a remediation replaces it.
NothingLost == NothingForgotten /\ Results!ConsumedWasShown

\* Between adoption by a session and consumption by the watcher there is one
\* winner: nobody takes a result that somebody else has taken.
TakenOnce == Results!TakenOnce

\* A terminal event that reaches the bus is told in the end, or given up because
\* too many deliveries failed; a result or a failed start is brought to its
\* origin in the end, unless a session has adopted it or a remediation may
\* replace it.
EverythingIsTold == EveryEventIsTold /\ Results!EverythingIsShown

\* What was approved once is started once, whatever fails after it has been
\* claimed (delegation-services.js:497), of delegations if no two calls overlap;
\* and a launch that was prepared in one session is not made in another.
ApprovalsAreSpent ==
  Approving!TypeOK /\ Approving!OneStartPerApproval /\ Approving!StartsInItsSession
=============================================================================
