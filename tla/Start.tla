--------------------------------- MODULE Start ---------------------------------
(***************************************************************************)
(* `workflow start` and `workflow runtime`: planner.js says what a task     *)
(* needs (worktrees, a Herdr workspace with tabs, an agent, processes),     *)
(* reconcile.js compares that with what there is, execute.js makes the rest. *)
(*                                                                         *)
(* A plan is reconciled once, before the first change; while it is carried  *)
(* out, call by call, other commands and the user go on.  A call may fail,  *)
(* or take effect although it is reported to have failed; the command stops *)
(* there, leaves what it made, and is run again.                            *)
(***************************************************************************)
EXTENDS Naturals, FiniteSets, Sequences

CONSTANTS
  Root,       \* the worktree of the task; of the meta repository for a group
  Children,   \* the child repositories of a group, {} for an ordinary project
  Order,      \* the runtime processes, in their order
  Operators,  \* processes that run a command
  MaxTabs,    \* bound: tabs of the workspace
  MaxPanes,   \* bound: panes of the workspace
  MaxFaults,  \* bound: how often one of the faults happens
  FaultCases, \* what may happen in one behaviour: sets of AllFaults
  Nothing

AllFaults == {
  "runtime",  \* `workflow runtime` is run, too
  "overlap",  \* commands overlap
  "calls",    \* a call fails
  "lost",     \* a call takes effect and is reported to have failed
  "stops",    \* the agent stops
  "exits",    \* a process exits
  "closes",   \* the user closes a tab, or looks at another
  "writers"}  \* the user works in the worktree with an agent of his own

ASSUME StartConstants ==
  /\ Root \notin Children
  /\ Order \in Seq({Order[i] : i \in DOMAIN Order})
  /\ FaultCases \subseteq SUBSET AllFaults
  /\ MaxTabs \in Nat /\ MaxPanes \in Nat /\ MaxFaults \in Nat

\* A profile names each of its processes once (registry.js:219).
ASSUME ProcessesNamedOnce == \A i, j \in DOMAIN Order : Order[i] = Order[j] => i = j

Trees == {Root} \cup Children

Processes == {Order[i] : i \in DOMAIN Order}

TabIds == 1..MaxTabs

PaneIds == 1..MaxPanes

\* The tabs that a plan asks for: the agent's (called coordinator in a group),
\* one for every child, and the one of the processes.
Labels == {"agent", "runtime"} \cup Children

VARIABLES
  faults,  \* what may go wrong in this behaviour
  tree,    \* the worktrees
  tab,     \* the labels of the tabs; the workspace is open if there is one
  pane,    \* the panes
  caller,  \* the callers
  left     \* how many faults may still happen

parts == <<tree, tab, pane, caller, left>>

startVars == <<faults, parts>>

Pane == [tab : TabIds, cwd : Trees, label : Processes \cup {Nothing},
         runs : {"shell", "agent", "writer"} \cup Processes]

\* What a reconciled plan says: of the root, the children that miss their
\* worktree, the tabs that are compatible and those that are there, whether the
\* agent is at work, and the panes of the processes.
Plan == [root : {"missing", "closed", "open"}, absent : SUBSET Children,
         tabs : [Labels -> TabIds \cup {Nothing}], first : TabIds \cup {Nothing},
         firstPane : PaneIds \cup {Nothing}, agent : BOOLEAN,
         procs : [Processes -> PaneIds \cup {Nothing}]]

\* What is told apart: no label is another one's, and nothing is none of the rest.
ASSUME NamesApart ==
  /\ Children \cap {"agent", "runtime", "plain"} = {}
  /\ Processes \cap {"shell", "agent", "writer"} = {}
  /\ Nothing \notin TabIds /\ Nothing \notin PaneIds /\ Nothing \notin Labels /\ Nothing # "plain"
  /\ Nothing \notin Processes /\ Nothing \notin Pane /\ Nothing \notin Plan

CallerSteps == {"idle", "root", "trees", "tabs", "runtime", "place", "run"}

Idle == [step |-> "idle", plan |-> Nothing, tab |-> Nothing, pane |-> Nothing, todo |-> {}, next |-> 1]

Caller == [step : CallerSteps, plan : Plan \cup {Nothing}, tab : TabIds \cup {Nothing},
           pane : PaneIds \cup {Nothing}, todo : SUBSET Children, next : 1..Len(Order) + 1]

StartTypeOK ==
  /\ faults \in FaultCases
  /\ tree \in [Trees -> {"missing", "present", "foreign"}]
  /\ tab \in [TabIds -> Labels \cup {"plain", Nothing}]
  /\ pane \in [PaneIds -> Pane \cup {Nothing}]
  /\ \A i \in PaneIds : pane[i] # Nothing => tab[pane[i].tab] # Nothing
  /\ \A t \in TabIds : tab[t] # Nothing => \E i \in PaneIds : pane[i] # Nothing /\ pane[i].tab = t
  /\ left \in 0..MaxFaults
  /\ caller \in [Operators -> Caller]

\* A planned path may be taken by another repository or branch.
StartInit ==
  /\ faults \in FaultCases
  /\ tree \in [Trees -> {"missing", "foreign"}]
  /\ tab = [t \in TabIds |-> Nothing]
  /\ pane = [i \in PaneIds |-> Nothing]
  /\ caller = [c \in Operators |-> Idle]
  /\ left = MaxFaults

-----------------------------------------------------------------------------
(* Herdr *)

Tabs == {t \in TabIds : tab[t] # Nothing}

Open == Tabs # {}

Panes == {i \in PaneIds : pane[i] # Nothing}

PanesOf(t) == {i \in Panes : pane[i].tab = t}

Lowest(S) == CHOOSE x \in S : \A y \in S : x <= y

LabelledTabs(l) == {t \in Tabs : tab[t] = l}

Room == TabIds \ Tabs # {} /\ PaneIds \ Panes # {}

FreshTab == Lowest(TabIds \ Tabs)

FreshPane == Lowest(PaneIds \ Panes)

\* Tabs are made without the focus: the first one stays the active one.
ActiveTabs == IF "closes" \in faults \/ ~Open THEN Tabs ELSE {Lowest(Tabs)}

\* A new tab has one pane, with a shell.
NewTab(l, w) ==
  /\ tab' = [tab EXCEPT ![FreshTab] = l]
  /\ pane' = [pane EXCEPT ![FreshPane] = [tab |-> FreshTab, cwd |-> w, label |-> Nothing, runs |-> "shell"]]

-----------------------------------------------------------------------------
(* reconcilePlan *)

\* The panes at the root's path in which an agent or another writer is at work.
LiveAgents == {i \in Panes : pane[i].cwd = Root /\ pane[i].runs = "agent"}

Writers == {i \in Panes : pane[i].cwd = Root /\ pane[i].runs = "writer"}

PathOf(l) == IF l \in Children THEN l ELSE Root

AtItsPath(l) == \E i \in Panes : tab[pane[i].tab] = l /\ pane[i].cwd = PathOf(l)

\* A child's tab waits for its worktree.
TabReady(l) == LabelledTabs(l) # {} /\ (l \in Children => tree[l] = "present") /\ AtItsPath(l)

TabConflict(l) ==
  \/ Cardinality(LabelledTabs(l)) > 1
  \/ /\ LabelledTabs(l) # {} /\ ~AtItsPath(l)
     /\ l \in Children => tree[l] = "present"

AgentConflict ==
  \/ Writers # {}
  \/ LiveAgents # {} /\ ~TabReady("agent")
  \/ Cardinality(LiveAgents) > 1

RuntimePanes == {i \in Panes : tab[pane[i].tab] = "runtime" /\ pane[i].cwd = Root}

Running(p) == {i \in RuntimePanes : pane[i].runs = p}

\* Mutation of ProcessConflict: a pane that has the name only is no conflict.
ProcessConflictIfRunning(p) ==
  \/ Cardinality(Running(p)) > 1
  \/ \E i \in Running(p) : pane[i].label # p

\* A pane that has the name of the process runs it, and no other does.  A shell
\* is a live process too, of another command.
ProcessConflict(p) ==
  \/ Cardinality(Running(p)) > 1
  \/ \E i \in Running(p) : pane[i].label # p
  \/ Running(p) = {} /\ \E i \in RuntimePanes : pane[i].label = p

Conflict ==
  \/ \E w \in Trees : tree[w] = "foreign"
  \/ Open /\ tree[Root] = "missing"
  \/ \E l \in Labels : TabConflict(l)
  \/ AgentConflict
  \/ \E p \in Processes : ProcessConflict(p)

\* Mutation of FirstTab: children first.
FirstTabOfChildren ==
  IF \E a \in Children : LabelledTabs(a) # {} THEN UNION {LabelledTabs(a) : a \in Children}
  ELSE LabelledTabs("agent")

\* The order of plan.tabs; children in any order.
FirstTab ==
  IF LabelledTabs("agent") # {} THEN LabelledTabs("agent")
  ELSE IF \E a \in Children : LabelledTabs(a) # {} THEN UNION {LabelledTabs(a) : a \in Children}
  ELSE LabelledTabs("runtime")

\* The tab and the pane that an open workspace is known by are those of the
\* first planned tab that is there.
Plans ==
  {[root |-> IF tree[Root] = "missing" THEN "missing" ELSE IF Open THEN "open" ELSE "closed",
    absent |-> {a \in Children : tree[a] = "missing"},
    tabs |-> [l \in Labels |-> IF TabReady(l) THEN Lowest(LabelledTabs(l)) ELSE Nothing],
    first |-> t,
    firstPane |-> IF t = Nothing THEN Nothing ELSE Lowest(PanesOf(t)),
    agent |-> LiveAgents # {} /\ TabReady("agent"),
    procs |-> [p \in Processes |-> IF Running(p) # {} THEN Lowest(Running(p)) ELSE Nothing]] :
   t \in IF FirstTab = {} THEN {Nothing} ELSE FirstTab}

-----------------------------------------------------------------------------
(* The calls *)

Fault(f) == f \in faults /\ left > 0 /\ left' = left - 1

\* The next step of a caller whose call took effect: if the answer is lost, the
\* command stops.
Goes(c, next) ==
  \/ caller' = [caller EXCEPT ![c] = next] /\ UNCHANGED left
  \/ Fault("lost") /\ caller' = [caller EXCEPT ![c] = Idle]

Ends(c) == caller' = [caller EXCEPT ![c] = Idle]

\* A call that has nothing to act on any more, or the end of the command.
Stops(c) == Ends(c) /\ UNCHANGED left

Commands == {"start", "runtime"}

Reconciles(c, command) ==
  /\ caller[c].step = "idle"
  /\ "overlap" \in faults \/ \A d \in Operators : caller[d].step = "idle"
  /\ command = "runtime" => "runtime" \in faults /\ Open
  /\ ~Conflict
  /\ \E p \in Plans :
       caller' = [caller EXCEPT ![c] =
         [Idle EXCEPT !.step = IF command = "start" THEN "root" ELSE "runtime",
                      !.plan = p, !.todo = p.absent]]
  /\ UNCHANGED <<faults, tree, tab, pane, left>>

CallFails(c) ==
  /\ Fault("calls")
  /\ caller[c].step # "idle"
  /\ Ends(c)
  /\ UNCHANGED <<faults, tree, tab, pane>>

-----------------------------------------------------------------------------
(* executeStart *)

WithRoot(c, t, i) == [caller[c] EXCEPT !.step = "trees", !.tab = t, !.pane = i]

\* Mutation of KnowsRoot: what is not known is not looked for.
KnowsRootOrStops(c) ==
  /\ caller[c].step = "root" /\ caller[c].plan.root = "open"
  /\ caller' = [caller EXCEPT ![c] =
       IF caller[c].plan.first = Nothing THEN Idle
       ELSE WithRoot(c, caller[c].plan.first, caller[c].plan.firstPane)]
  /\ UNCHANGED <<faults, tree, tab, pane, left>>

\* readKnownOpenContext.
KnowsRoot(c) ==
  /\ caller[c].step = "root" /\ caller[c].plan.root = "open"
  /\ caller' = [caller EXCEPT ![c] = WithRoot(c, caller[c].plan.first, caller[c].plan.firstPane)]
  /\ UNCHANGED <<faults, tree, tab, pane, left>>

\* ensureNativeWorktree: the worktree and a workspace with a tab.
CreatesRoot(c) ==
  /\ caller[c].step = "root" /\ caller[c].plan.root = "missing"
  /\ IF tree[Root] = "missing"
     THEN /\ Room
          /\ tree' = [tree EXCEPT ![Root] = "present"]
          /\ NewTab("plain", Root)
          /\ Goes(c, WithRoot(c, FreshTab, FreshPane))
     ELSE Stops(c) /\ UNCHANGED <<tree, tab, pane>>
  /\ UNCHANGED faults

OpensRoot(c) ==
  /\ caller[c].step = "root" /\ caller[c].plan.root = "closed"
  /\ IF Open
     THEN \E t \in ActiveTabs : /\ Goes(c, WithRoot(c, t, Lowest(PanesOf(t))))
                                /\ UNCHANGED <<tab, pane>>
     ELSE /\ Room
          /\ NewTab("plain", Root)
          /\ Goes(c, WithRoot(c, FreshTab, FreshPane))
  /\ UNCHANGED <<faults, tree>>

\* git worktree add for a child that has none.
CreatesChild(c, a) ==
  /\ caller[c].step = "trees" /\ a \in caller[c].todo
  /\ IF tree[a] = "missing"
     THEN /\ tree' = [tree EXCEPT ![a] = "present"]
          /\ Goes(c, [caller[c] EXCEPT !.todo = @ \ {a}])
     ELSE Stops(c) /\ UNCHANGED tree
  /\ UNCHANGED <<faults, tab, pane>>

\* Mutation of ToTabs: for every child a tab, if there is one or not.
ToTabsAll(c, t, i) ==
  [caller[c] EXCEPT !.step = "tabs", !.tab = t, !.pane = i, !.todo = Children]

ToTabs(c, t, i) ==
  [caller[c] EXCEPT !.step = "tabs", !.tab = t, !.pane = i,
                    !.todo = {a \in Children : caller[c].plan.tabs[a] = Nothing}]

KeepsAgentTab(c) ==
  /\ caller[c].step = "trees" /\ caller[c].todo = {}
  /\ caller[c].plan.tabs["agent"] # Nothing
  /\ caller' = [caller EXCEPT ![c] = ToTabs(c, caller[c].plan.tabs["agent"], caller[c].pane)]
  /\ UNCHANGED <<faults, tree, tab, pane, left>>

\* resolveBootstrapContext looks again where nothing is known: the active tab,
\* if it has one pane.
NamesAgentTab(c) ==
  /\ caller[c].step = "trees" /\ caller[c].todo = {}
  /\ caller[c].plan.tabs["agent"] = Nothing
  /\ LET known == caller[c].tab # Nothing /\ caller[c].pane # Nothing
         found == IF known THEN Tabs \cap {caller[c].tab}
                  ELSE {t \in ActiveTabs : Cardinality(PanesOf(t)) = 1}
     IN  \/ \E t \in found :
              /\ tab' = [tab EXCEPT ![t] = "agent"]
              /\ Goes(c, ToTabs(c, t, IF known THEN caller[c].pane ELSE Lowest(PanesOf(t))))
         \/ found = {} /\ Stops(c) /\ UNCHANGED tab
  /\ UNCHANGED <<faults, tree, pane>>

CreatesChildTab(c, a) ==
  /\ caller[c].step = "tabs" /\ a \in caller[c].todo
  /\ IF Open
     THEN /\ Room
          /\ NewTab(a, a)
          /\ Goes(c, [caller[c] EXCEPT !.todo = @ \ {a}])
     ELSE Stops(c) /\ UNCHANGED <<tab, pane>>
  /\ UNCHANGED <<faults, tree>>

KeepsAgent(c) ==
  /\ caller[c].step = "tabs" /\ caller[c].todo = {} /\ caller[c].plan.agent
  /\ Stops(c)
  /\ UNCHANGED <<faults, tree, tab, pane>>

\* Mutation of StartsAgent: into a split of the pane.
StartsAgentInSplit(c) ==
  /\ caller[c].step = "tabs" /\ caller[c].todo = {} /\ ~caller[c].plan.agent
  /\ PaneIds \ Panes # {}
  /\ IF caller[c].pane \in Panes
     THEN pane' = [pane EXCEPT ![FreshPane] = [pane[caller[c].pane] EXCEPT !.runs = "agent"]]
     ELSE UNCHANGED pane
  /\ Stops(c)
  /\ UNCHANGED <<faults, tree, tab>>

\* startAgent: a pane that is gone, or busy, is refused.  An agent that is up
\* when its readiness times out is found.
StartsAgent(c) ==
  /\ caller[c].step = "tabs" /\ caller[c].todo = {} /\ ~caller[c].plan.agent
  /\ IF caller[c].pane \in Panes /\ pane[caller[c].pane].runs = "shell"
     THEN pane' = [pane EXCEPT ![caller[c].pane].runs = "agent"]
     ELSE UNCHANGED pane
  /\ Stops(c)
  /\ UNCHANGED <<faults, tree, tab>>

-----------------------------------------------------------------------------
(* executeRuntime; the caller's pane is the fresh one, or the anchor for a   *)
(* split *)

KeepsRuntimeTab(c) ==
  /\ caller[c].step = "runtime" /\ caller[c].plan.tabs["runtime"] # Nothing
  /\ caller' = [caller EXCEPT ![c].step = "place", ![c].tab = Nothing]
  /\ UNCHANGED <<faults, tree, tab, pane, left>>

CreatesRuntimeTab(c) ==
  /\ caller[c].step = "runtime" /\ caller[c].plan.tabs["runtime"] = Nothing
  /\ IF Open
     THEN /\ Room
          /\ NewTab("runtime", Root)
          /\ Goes(c, [caller[c] EXCEPT !.step = "place", !.tab = FreshTab, !.pane = FreshPane])
     ELSE Stops(c) /\ UNCHANGED <<tab, pane>>
  /\ UNCHANGED <<faults, tree>>

Planned(c) == Order[caller[c].next]

\* Mutation of KeepsProcess: its pane is not remembered.
KeepsProcessOnly(c) ==
  /\ caller[c].step = "place" /\ caller[c].next \in DOMAIN Order
  /\ caller[c].plan.procs[Planned(c)] # Nothing
  /\ caller' = [caller EXCEPT ![c].next = @ + 1]
  /\ UNCHANGED <<faults, tree, tab, pane, left>>

KeepsProcess(c) ==
  /\ caller[c].step = "place" /\ caller[c].next \in DOMAIN Order
  /\ caller[c].plan.procs[Planned(c)] # Nothing
  /\ caller' = [caller EXCEPT ![c].next = @ + 1, ![c].pane = caller[c].plan.procs[Planned(c)]]
  /\ UNCHANGED <<faults, tree, tab, pane, left>>

\* The first process of a new tab takes its pane (caller.tab tells); the others
\* split the pane before theirs.  Without one there is no place.
PlacesProcess(c) ==
  /\ caller[c].step = "place" /\ caller[c].next \in DOMAIN Order
  /\ caller[c].plan.procs[Planned(c)] = Nothing
  /\ \/ /\ caller[c].tab # Nothing
        /\ caller' = [caller EXCEPT ![c].step = "run", ![c].tab = Nothing]
        /\ UNCHANGED <<pane, left>>
     \/ /\ caller[c].tab = Nothing /\ caller[c].pane \in Panes
        /\ PaneIds \ Panes # {}
        /\ pane' = [pane EXCEPT ![FreshPane] = [pane[caller[c].pane] EXCEPT !.label = Nothing, !.runs = "shell"]]
        /\ Goes(c, [caller[c] EXCEPT !.step = "run", !.pane = FreshPane])
     \/ caller[c].tab = Nothing /\ caller[c].pane \notin Panes /\ Stops(c) /\ UNCHANGED pane
  /\ UNCHANGED <<faults, tree, tab>>

\* The pane is named, the command typed into it, and observed.
RunsProcess(c) ==
  /\ caller[c].step = "run"
  /\ IF caller[c].pane \in Panes
     THEN /\ pane' = [pane EXCEPT ![caller[c].pane].label = Planned(c), ![caller[c].pane].runs = Planned(c)]
          /\ Goes(c, [caller[c] EXCEPT !.step = "place", !.next = @ + 1])
     ELSE Stops(c) /\ UNCHANGED pane
  /\ UNCHANGED <<faults, tree, tab>>

\* Within the time it is observed, the process exits.
ProcessFails(c) ==
  /\ Fault("exits")
  /\ caller[c].step = "run" /\ caller[c].pane \in Panes
  /\ pane' = [pane EXCEPT ![caller[c].pane].label = Planned(c)]
  /\ Ends(c)
  /\ UNCHANGED <<faults, tree, tab>>

RuntimeEnds(c) ==
  /\ caller[c].step = "place" /\ caller[c].next \notin DOMAIN Order
  /\ Stops(c)
  /\ UNCHANGED <<faults, tree, tab, pane>>

-----------------------------------------------------------------------------
(* The user, the agent and the processes *)

Quits(i) ==
  /\ i \in Panes
  /\ \/ Fault("stops") /\ pane[i].runs = "agent"
     \/ Fault("exits") /\ pane[i].runs \in Processes
     \/ Fault("writers") /\ pane[i].runs = "writer"
  /\ pane' = [pane EXCEPT ![i].runs = "shell"]
  /\ UNCHANGED <<faults, tree, tab, caller>>

Writes(i) ==
  /\ Fault("writers")
  /\ i \in Panes /\ pane[i].runs = "shell"
  /\ pane' = [pane EXCEPT ![i].runs = "writer"]
  /\ UNCHANGED <<faults, tree, tab, caller>>

Closes(t) ==
  /\ Fault("closes")
  /\ t \in Tabs
  /\ tab' = [tab EXCEPT ![t] = Nothing]
  /\ pane' = [i \in PaneIds |-> IF i \in PanesOf(t) THEN Nothing ELSE pane[i]]
  /\ UNCHANGED <<faults, tree, caller>>

-----------------------------------------------------------------------------

StartStep(c) ==
  \/ KnowsRoot(c) \/ CreatesRoot(c) \/ OpensRoot(c)
  \/ \E a \in Children : CreatesChild(c, a) \/ CreatesChildTab(c, a)
  \/ KeepsAgentTab(c) \/ NamesAgentTab(c) \/ KeepsAgent(c) \/ StartsAgent(c)

RuntimeStep(c) ==
  \/ KeepsRuntimeTab(c) \/ CreatesRuntimeTab(c)
  \/ KeepsProcess(c) \/ PlacesProcess(c) \/ RunsProcess(c) \/ ProcessFails(c)
  \/ RuntimeEnds(c)

Works(c) == StartStep(c) \/ RuntimeStep(c) \/ \E command \in Commands : Reconciles(c, command)

UserStep == (\E i \in PaneIds : Quits(i) \/ Writes(i)) \/ \E t \in TabIds : Closes(t)

StartNext == UserStep \/ \E c \in Operators : Works(c) \/ CallFails(c)

StartSpec == StartInit /\ [][StartNext]_startVars

\* Commands are carried out, and run again.
StartFairSpec ==
  /\ StartSpec
  /\ \A c \in Operators :
       /\ WF_parts(StartStep(c)) /\ WF_parts(RuntimeStep(c))
       /\ \A command \in Commands : SF_parts(Reconciles(c, command))

-----------------------------------------------------------------------------
(* What starting must never do, and what it must do in the end *)

\* One agent of the task, however starts overlap and whatever fails in them;
\* unless the user closes tabs of a group, or a start overlaps with a runtime.
OneAgent ==
  (Children = {} \/ "closes" \notin faults) /\ ~({"overlap", "runtime"} \subseteq faults) =>
    Cardinality({i \in Panes : pane[i].runs = "agent"}) <= 1

\* The agent is started in a shell "at the worktree cwd" (execute.js:790), not
\* in that of a child.
AgentAtItsWorktree ==
  "closes" \notin faults => \A i \in Panes : pane[i].runs = "agent" => pane[i].cwd = Root

\* No label is given twice.
LabelsUnique ==
  "overlap" \notin faults => \A l \in Labels : Cardinality(LabelledTabs(l)) <= 1

\* The tab of the processes has each of them once, and in one pane its name,
\* wherever a runtime failed and whichever of them exited.
OnceInTab ==
  faults \cap {"overlap", "closes"} = {} =>
    \A p \in Processes :
      /\ Cardinality(Running(p)) <= 1
      /\ Cardinality({i \in RuntimePanes : pane[i].label = p}) <= 1

\* A process whose name is on a pane of the runtime tab in which it does not run.
NamedIdle(p) == \E i \in RuntimePanes : pane[i].label = p /\ pane[i].runs # p

\* A command never leads into a conflict that refuses the next one, wherever it
\* failed and whatever was lost: save a process that has exited, or was never
\* started, in a pane of its name (reconcile.js:850), for which every command
\* refuses to be rerun.
OnlyIdleConflicts ==
  (/\ faults \cap {"overlap", "closes"} = {} /\ Writers = {}
   /\ \A w \in Trees : tree[w] # "foreign")
    => (Conflict => \E p \in Processes : NamedIdle(p))

\* "runtime reuses existing expected processes without duplicate launches"
\* (workflow-execute.test.js:1180).
ProcessesOnce == \A p \in Processes : Cardinality({i \in Panes : pane[i].runs = p}) <= 1

\* "Rerun the same start flow" (execute.js:41): wherever a start failed, the
\* next ones bring up the worktrees and the agent.
StartConverges ==
  (/\ faults \cap {"runtime", "writers"} = {}
   /\ Children = {} \/ faults \cap {"overlap", "closes"} = {}
   /\ \A w \in Trees : tree[w] # "foreign")
    => <>[](LiveAgents # {} /\ \A w \in Trees : tree[w] = "present")

\* The two ends of a runtime from which no rerun leads on: a process that does
\* not run in the pane of its name; and a tab that is there, with no first
\* process in it for the others to be placed by (execute.js:1100).
DeadEnd ==
  \/ \E p \in Processes : NamedIdle(p)
  \/ LabelledTabs("runtime") # {} /\ Running(Order[1]) = {}

\* "Rerun the same runtime flow after fixing the issue" (execute.js:50):
\* wherever a runtime or a start failed, and whatever was lost, the next ones
\* bring up all the processes, unless one of them came to a dead end; nobody's
\* tree or agent may be in the way for ever.
RuntimeConverges ==
  (/\ "runtime" \in faults /\ faults \cap {"overlap", "closes"} = {}
   /\ \A w \in Trees : tree[w] # "foreign"
   /\ <>[](Writers = {}))
    => <>[](\A p \in Processes : Running(p) # {}) \/ <>[]DeadEnd

-----------------------------------------------------------------------------
(* The properties that a run checks, grouped by what they are about        *)

\* Whatever overlaps, fails and is rerun, the group has one agent, at the task's
\* own worktree.
OneAgentAtHome == StartTypeOK /\ OneAgent /\ AgentAtItsWorktree

\* The next command finds a group that it can reconcile: every label and, in the
\* runtime tab, every process once, and no conflict but that of a process that
\* does not run in the pane of its name.
GroupIsReconcilable == LabelsUnique /\ OnceInTab /\ OnlyIdleConflicts

\* Whatever failed or was lost on the way, a start that is rerun brings up the
\* worktrees and the agent, and a runtime its processes or comes to a dead end.
RerunsConverge == StartConverges /\ RuntimeConverges
=============================================================================
