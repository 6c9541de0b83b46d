------------------------------- MODULE Approval -------------------------------
(***************************************************************************)
(* The approvals of the Pi coordinator (workflow-coordinator/index.ts, over *)
(* launch.js and executeApproved of delegation-services.js).               *)
(*                                                                         *)
(* A tool call prepares a preview and has the user approve it; another one  *)
(* executes what was approved, after a second confirmation.  Tool calls     *)
(* wait for the user and for other programs, the world they previewed       *)
(* changes, and the session may end while they wait.                        *)
(***************************************************************************)
EXTENDS Naturals, FiniteSets

CONSTANTS
  Calls,       \* tool calls
  Kinds,       \* what they may be about: "launch", "delegation"
  MaxWorld,    \* bound: how often what a preview shows changes
  MaxSessions, \* bound: sessions of the coordinator, one after another
  FaultCases,  \* what may go wrong in one behaviour: sets of AllFaults
  None

AllFaults == {
  "overlap",  \* two tool calls execute at the same time
  "late"}     \* a prompt is answered after the session it was put to has ended

ApprovalConstants ==
  /\ Kinds \subseteq {"launch", "delegation"}
  /\ MaxWorld \in Nat \ {0} /\ MaxSessions \in Nat \ {0}
  /\ FaultCases \subseteq SUBSET AllFaults

VARIABLES
  faults,  \* what may go wrong in this behaviour
  world,     \* what a preview shows, as a number
  session,   \* the current session
  call,      \* per tool call: its step, and what it carries
  approved,  \* approvedPreviews and approvedLaunches
  mutations, \* approvedMutations: the digests put to the user
  consumed,  \* consumedApprovalDigests
  granted,   \* history: how often each preview was approved
  started    \* history: how often what it shows was started

parts == <<world, session, call, approved, mutations, consumed, granted, started>>

vars == <<faults, parts>>

Sessions == 1..MaxSessions

\* The digest of a delegation preview covers the session, that of a launch
\* does not.
Digests == [kind : Kinds, world : 1..MaxWorld, session : Sessions \cup {None}]

Digest(kind, w, s) ==
  [kind |-> kind, world |-> w, session |-> IF kind = "delegation" THEN s ELSE None]

\* An approval: the digest, and the session it was prepared in.
Approvals == [digest : Digests, origin : Sessions]

Steps == {"idle", "approve", "confirm", "execute", "start", "done"}

TypeOK ==
  /\ faults \in FaultCases
  /\ world \in 1..MaxWorld /\ session \in Sessions
  /\ call \in [Calls -> [step : Steps, session : Sessions, approval : Approvals \cup {None}]]
  /\ approved \subseteq Approvals
  /\ \A a, b \in approved : a.digest = b.digest => a = b
  /\ mutations \subseteq Digests /\ consumed \subseteq Digests
  /\ granted \in [Digests -> Nat]
  /\ started \in [Digests -> Nat]

Init ==
  /\ faults \in FaultCases
  /\ world = 1 /\ session = 1
  /\ call = [c \in Calls |-> [step |-> "idle", session |-> 1, approval |-> None]]
  /\ approved = {} /\ mutations = {} /\ consumed = {}
  /\ granted = [d \in Digests |-> 0]
  /\ started = [d \in Digests |-> 0]

Goes(c, from, to) ==
  /\ call[c].step = from
  /\ call' = [call EXCEPT ![c].step = to]

Approval(c) == call[c].approval

\* A prompt is put to the session of the call.
Answers(c) == "late" \in faults \/ call[c].session = session

-----------------------------------------------------------------------------
(* workflow_prepare_launch and workflow_prepare_delegation                  *)

Prepares(c) ==
  /\ call[c].step = "idle"
  /\ \E kind \in Kinds :
       call' = [call EXCEPT ![c] = [step |-> "approve", session |-> session,
         approval |-> [digest |-> Digest(kind, world, session), origin |-> session]]]
  /\ UNCHANGED <<faults, world, session, approved, mutations, consumed, granted, started>>

\* The map keeps one preview per digest.
Approves(c) ==
  /\ Answers(c)
  /\ Goes(c, "approve", "done")
  /\ approved' = {a \in approved : a.digest # Approval(c).digest} \cup {Approval(c)}
  /\ granted' = [granted EXCEPT ![Approval(c).digest] = @ + 1]
  /\ UNCHANGED <<faults, world, session, mutations, consumed, started>>

-----------------------------------------------------------------------------
(* workflow_execute_launch and workflow_execute_delegation                  *)

Executing(c) == call[c].step \in {"confirm", "execute", "start"}

\* Mutation of MayExecute: the session of a launch is not compared.
MayExecuteAnywhere(a) == TRUE

MayExecute(a) == a.digest.kind = "launch" => a.origin = session

\* The approval is looked up, and put to the user once more.
Executes(c) ==
  /\ call[c].step = "idle"
  /\ "overlap" \in faults \/ \A b \in Calls : ~Executing(b)
  /\ \E a \in approved :
       /\ MayExecute(a)
       /\ call' = [call EXCEPT ![c] = [step |-> "confirm", session |-> session, approval |-> a]]
       /\ mutations' = mutations \cup {a.digest}
  /\ UNCHANGED <<faults, world, session, approved, consumed, granted, started>>

\* Mutation of Confirms: a launch is forgotten only when it has been made.
ConfirmsKeeping(c) ==
  /\ Goes(c, "confirm", "execute")
  /\ Answers(c)
  /\ Approval(c).digest \in mutations
  /\ mutations' = mutations \ {Approval(c).digest}
  /\ UNCHANGED <<faults, world, session, approved, consumed, granted, started>>

\* Of two calls with the same prompt, only one finds it.  A launch is
\* forgotten at once; a delegation once it has been executed.
Confirms(c) ==
  /\ Goes(c, "confirm", "execute")
  /\ Answers(c)
  /\ Approval(c).digest \in mutations
  /\ mutations' = mutations \ {Approval(c).digest}
  /\ approved' = IF Approval(c).digest.kind = "launch"
                 THEN {a \in approved : a.digest # Approval(c).digest} ELSE approved
  /\ UNCHANGED <<faults, world, session, consumed, granted, started>>

Declines(c) ==
  /\ Goes(c, "confirm", "done")
  /\ mutations' = mutations \ {Approval(c).digest}
  /\ UNCHANGED <<faults, world, session, approved, consumed, granted, started>>

\* A new preview has the digest that was approved; a delegation's was not
\* consumed before the preview was made.
Fresh(c) ==
  /\ Goes(c, "execute", "start")
  /\ Approval(c).digest.kind = "delegation" => Approval(c).digest \notin consumed
  /\ Approval(c).digest.world = world
  /\ UNCHANGED <<faults, world, session, approved, mutations, consumed, granted, started>>

\* Mutation of Starts: the digest is consumed with the approval, not the claim.
StartsUnconsumed(c) ==
  /\ Goes(c, "start", "done")
  /\ started' = [started EXCEPT ![Approval(c).digest] = @ + 1]
  /\ \/ approved' = {a \in approved : a.digest # Approval(c).digest}
     \/ UNCHANGED approved
  /\ UNCHANGED <<faults, world, session, mutations, consumed, granted>>

\* store.create, or the claim of the delegation; what follows may throw, and
\* then the approval of a delegation is kept.
Starts(c) ==
  /\ Goes(c, "start", "done")
  /\ started' = [started EXCEPT ![Approval(c).digest] = @ + 1]
  /\ IF Approval(c).digest.kind = "delegation"
     THEN /\ consumed' = consumed \cup {Approval(c).digest}
          /\ \/ approved' = {a \in approved : a.digest # Approval(c).digest}
             \/ UNCHANGED approved
     ELSE UNCHANGED <<approved, consumed>>
  /\ UNCHANGED <<faults, world, session, mutations, granted>>

\* Declined, stale, consumed, not found any more, or a call in between throws.
GivesUp(c) ==
  /\ \E step \in {"approve", "execute", "start"} : Goes(c, step, "done")
  /\ UNCHANGED <<faults, world, session, approved, mutations, consumed, granted, started>>

NotFound(c) ==
  /\ Goes(c, "confirm", "done")
  /\ Approval(c).digest \notin mutations
  /\ UNCHANGED <<faults, world, session, approved, mutations, consumed, granted, started>>

-----------------------------------------------------------------------------

WorldChanges ==
  /\ \E w \in (1..MaxWorld) \ {world} : world' = w
  /\ UNCHANGED <<faults, session, call, approved, mutations, consumed, granted, started>>

\* session_shutdown, and the session_start of the next one.
NextSession ==
  /\ session < MaxSessions
  /\ session' = session + 1
  /\ approved' = {} /\ mutations' = {}
  /\ UNCHANGED <<faults, world, call, consumed, granted, started>>

Next ==
  \/ WorldChanges \/ NextSession
  \/ \E c \in Calls :
       \/ Prepares(c) \/ Approves(c) \/ Executes(c) \/ Confirms(c) \/ Declines(c)
       \/ Fresh(c) \/ Starts(c) \/ GivesUp(c) \/ NotFound(c)

Spec == Init /\ [][Next]_vars

-----------------------------------------------------------------------------
(* What an approval is good for                                             *)

\* What was approved once is started once, whatever fails after it has been
\* claimed: "a failed reservation or transport start afterwards must not make
\* the approval reusable" (delegation-services.js:497).
OneStartPerApproval ==
  \A d \in Digests :
    (d.kind = "delegation" => "overlap" \notin faults) => started[d] <= granted[d]

\* A launch that was prepared in one session is never made in another, even if
\* its preview was approved after that session had ended.
StartsInItsSession ==
  \A c \in Calls :
    (call[c].step = "start" /\ Approval(c).digest.kind = "launch")
      => call[c].session = Approval(c).origin
=============================================================================
