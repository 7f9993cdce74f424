------------------------- MODULE AgentConnectivity -------------------------
(***************************************************************************)
(* The direct-path objects of all agents (towonelagent_connectivity.go):   *)
(* of each agent its NodePort Service, Role and RoleBinding, which it owns, *)
(* and the ClusterRoleBinding that all agents share, which the chart owns  *)
(* and nobody watches.  TowonelAgent has this as its step Connect.         *)
(*                                                                         *)
(* One worker runs the passes of all agents, one after the other.  Agents  *)
(* are read from the API server, but listed from the informer; so are the  *)
(* objects and the binding compared.                                       *)
(*                                                                         *)
(* Abstractions: what a pass does besides comes down to the gate before    *)
(* (whether the tunnel's token can be had) and the status write after; the *)
(* ServiceAccount is always applied and never removed; an agent is created *)
(* again once its former objects are collected; a custom name of the       *)
(* Service is not changed.                                                 *)
(***************************************************************************)
EXTENDS Naturals, FiniteSets

CONSTANTS
    Agents,
    Kinds,        \* of the objects an agent owns: Service, Role, RoleBinding
    MaxEvents     \* bound: edits by users, changes by the chart, failed, lost or
                  \* cut short calls, all together

ASSUME AgentsAssumption == Agents # {}
ASSUME BoundAssumption == MaxEvents \in Nat

VARIABLES
    agents,       \* the agents: there, on which direct path
    listed,       \* the same, as the informer has them
    news,         \* agents with an event of their own on its way
    usable,       \* agents whose tunnel's token can be had
    objects,      \* of each agent, the objects it owns
    objectCache,  \* the same, as the informers have them
    coming,       \* agents with an event of an object on its way
    condition,    \* IrohConnectivityReady, in the status of each agent
    binding,      \* the shared binding: there, its subjects
    bindingCache, \* the same, as the informer has it
    queue,        \* agents in the work queue
    pass,         \* what the running pass holds in memory
    events,       \* how much of the bound is used
    blind         \* history: a pass was content with a cached binding that was
                  \* late, or the chart installed the binding anew

agentVars == <<agents, listed, news, usable>>
objectVars == <<objects, objectCache, coming>>
bindingVars == <<binding, bindingCache>>
vars == <<agentVars, objectVars, condition, bindingVars, queue, pass, events, blind>>

\* off: nothing is asked for; port: a pinned port only; skipped: a combination
\* that makes no sense; auto: the whole path.
Paths == {"off", "port", "skipped", "auto"}
AgentType == [there : BOOLEAN, path : Paths]
NoAgent == [there |-> FALSE, path |-> "off"]
ConditionType == {"Unset", "True", "Skipped", "NoShell"}

Steps == {"idle", "gate", "objects", "list", "bind", "write"}
NoPass == [at |-> "idle", agent |-> CHOOSE a \in Agents : TRUE, path |-> "off",
           missing |-> FALSE, orig |-> "Unset", todo |-> {}, subjects |-> {},
           noShell |-> FALSE, stale |-> FALSE]

Init ==
    /\ agents = [a \in Agents |-> NoAgent]
    /\ listed = agents
    /\ news = {}
    /\ usable \in SUBSET Agents
    /\ objects = [a \in Agents |-> {}]
    /\ objectCache = objects
    /\ coming = {}
    /\ condition = [a \in Agents |-> "Unset"]
    /\ binding \in [there : BOOLEAN, subjects : {{}}]
    /\ bindingCache = binding
    /\ queue = {}
    /\ pass = NoPass
    /\ events = 0
    /\ blind = FALSE

-----------------------------------------------------------------------------
Count == events < MaxEvents /\ events' = events + 1
NoFault == UNCHANGED events
Fault == Count
Goto(step) == pass' = [pass EXCEPT !.at = step]
\* The pass is over; again: it failed, or halts at the gate.
EndPass(again) ==
    /\ pass' = NoPass
    /\ queue' = IF again THEN queue \union {pass.agent} ELSE queue

\* Of a missing agent the shared subjects are recomputed, nothing else.
\* Variant: not even that.
StartPassForgetful ==
    /\ pass.at = "idle"
    /\ \E a \in queue :
         /\ queue' = queue \ {a}
         /\ pass' = IF agents[a].there
                    THEN [NoPass EXCEPT !.at = "gate", !.agent = a,
                            !.path = agents[a].path, !.orig = condition[a]]
                    ELSE NoPass
    /\ UNCHANGED <<agentVars, objectVars, condition, bindingVars, events, blind>>
StartPass ==
    /\ pass.at = "idle"
    /\ \E a \in queue :
         /\ queue' = queue \ {a}
         /\ pass' = IF agents[a].there
                    THEN [NoPass EXCEPT !.at = "gate", !.agent = a,
                            !.path = agents[a].path, !.orig = condition[a]]
                    ELSE [NoPass EXCEPT !.at = "list", !.agent = a, !.missing = TRUE]
    /\ UNCHANGED <<agentVars, objectVars, condition, bindingVars, events, blind>>

\* The objects a pass has to see to, wanted or not.
\* Variant: without the path there is nothing to do.
PruneNothing(path) == IF path = "auto" THEN Kinds ELSE {}
ToDo(path) == Kinds

\* An agent whose tunnel cannot be used waits, and is asked again.
Gate ==
    /\ pass.at = "gate"
    /\ IF pass.agent \in usable
       THEN /\ pass' = [pass EXCEPT !.at = "objects", !.todo = ToDo(pass.path)]
            /\ UNCHANGED queue
       ELSE EndPass(TRUE)
    /\ UNCHANGED <<agentVars, objectVars, condition, bindingVars, events, blind>>

Event(a, before, after) == coming' = IF before # after THEN coming \union {a} ELSE coming

\* ensureConnectivity: the objects are applied, or deleted, one by one.  Only what
\* the cache shows is deleted, and a Delete that is refused because the cache is
\* late is let go (deleteOwnedIfExists).
EnsureObject ==
    /\ pass.at = "objects"
    /\ LET a == pass.agent
           wanted == pass.path = "auto"
           After(k) == IF wanted THEN objects[a] \union {k}
                       ELSE IF k \in objectCache[a] THEN objects[a] \ {k}
                       ELSE objects[a]
           letGo == ~wanted /\ a \in coming
       IN \E k \in pass.todo :
            /\ \/ /\ objects' \in {[objects EXCEPT ![a] = After(k)]}
                                 \union (IF letGo THEN {objects} ELSE {})
                  /\ pass' = [pass EXCEPT !.todo = @ \ {k}]
                  /\ NoFault
                  /\ UNCHANGED queue
               \/ /\ objects' \in {objects, [objects EXCEPT ![a] = After(k)]}
                  /\ EndPass(TRUE)
                  /\ Fault
            /\ Event(a, objects[a], objects'[a])
    /\ UNCHANGED <<agentVars, objectCache, condition, bindingVars, blind>>

ObjectsDone ==
    /\ pass.at = "objects"
    /\ pass.todo = {}
    /\ Goto("list")
    /\ UNCHANGED <<agentVars, objectVars, condition, bindingVars, queue, events, blind>>

\* computeNodeReaderSubjects: the agents on the direct path, whatever else is
\* wrong with them.
Subjects(view) == {a \in Agents : view[a].there /\ view[a].path = "auto"}
ListAgents ==
    /\ pass.at = "list"
    /\ pass' = [pass EXCEPT !.at = "bind", !.subjects = Subjects(listed)]
    /\ UNCHANGED <<agentVars, objectVars, condition, bindingVars, queue, events, blind>>

\* What the pass does after the subjects.
Bound(noShell) == IF pass.missing THEN EndPass(FALSE)
                  ELSE /\ pass' = [pass EXCEPT !.at = "write", !.noShell = noShell]
                       /\ UNCHANGED queue

\* reconcileNodeReaderSubjects: read from the cache, updated unless equal.  An
\* Update is refused while the cache is late; after some of those the pass fails.
Bind ==
    /\ pass.at = "bind"
    /\ LET late == bindingCache # binding
           equal == bindingCache.there /\ bindingCache.subjects = pass.subjects
           updated == [there |-> TRUE, subjects |-> pass.subjects]
       IN
       \/ /\ ~bindingCache.there
          /\ Bound(TRUE)
          /\ blind' = (blind \/ late)
          /\ NoFault
          /\ UNCHANGED binding
       \/ /\ equal
          /\ Bound(FALSE)
          /\ blind' = (blind \/ late)
          /\ NoFault
          /\ UNCHANGED binding
       \/ /\ bindingCache.there /\ ~equal /\ ~late
          /\ binding' = updated
          /\ Bound(FALSE)
          /\ NoFault
          /\ UNCHANGED blind
       \/ /\ bindingCache.there /\ ~equal /\ late
          /\ EndPass(TRUE)
          /\ NoFault
          /\ UNCHANGED <<binding, blind>>
       \/ /\ bindingCache.there /\ ~equal
          /\ binding' \in IF late THEN {binding} ELSE {binding, updated}
          /\ EndPass(TRUE)
          /\ Fault
          /\ UNCHANGED blind
    /\ UNCHANGED <<agentVars, objectVars, condition, bindingCache>>

\* setConnectivityCond.
\* Variant: what is wanted is what is reported.
PathAsCondition(p) == IF p.noShell THEN "NoShell" ELSE p.path
ConditionOf(p) ==
    CASE p.path = "skipped" -> "Skipped"
      [] p.path # "skipped" /\ p.noShell -> "NoShell"
      [] p.path = "off" /\ ~p.noShell -> "Unset"
      [] OTHER -> "True"

\* The status is written when it changed, which is an event of the agent; it is
\* refused, and the pass run again, when the agent changed since it was read.
\* Variant: it is written always.
StatusAlwaysChanged == TRUE
StatusChanged == ConditionOf(pass) # pass.orig
WriteStatus ==
    /\ pass.at = "write"
    /\ \/ /\ ~StatusChanged
          /\ EndPass(FALSE)
          /\ UNCHANGED condition
       \/ /\ StatusChanged
          /\ ~pass.stale
          /\ condition' = [condition EXCEPT ![pass.agent] = ConditionOf(pass)]
          /\ EndPass(TRUE)
       \/ /\ StatusChanged
          /\ pass.stale
          /\ EndPass(TRUE)
          /\ UNCHANGED condition
    /\ UNCHANGED <<agentVars, objectVars, bindingVars, events, blind>>

Crash ==
    /\ pass.at # "idle"
    /\ EndPass(TRUE)
    /\ Fault
    /\ UNCHANGED <<agentVars, objectVars, condition, bindingVars, blind>>

-----------------------------------------------------------------------------
(* Users.  A change of an agent is an event once the informer has it; one  *)
(* of its tunnel is an event by itself.                                    *)

Edit == Count
Changed(a) == /\ news' = news \union {a}
              /\ pass' = IF pass.at # "idle" /\ pass.agent = a
                         THEN [pass EXCEPT !.stale = TRUE] ELSE pass

CreateAgent(a) ==
    /\ ~agents[a].there
    /\ objects[a] = {}
    /\ \E path \in Paths : agents' = [agents EXCEPT ![a] = [there |-> TRUE, path |-> path]]
    /\ condition' = [condition EXCEPT ![a] = "Unset"]
    /\ Edit
    /\ Changed(a)
    /\ UNCHANGED <<listed, usable, objectVars, bindingVars, queue, blind>>

EditAgent(a) ==
    /\ agents[a].there
    /\ \E path \in Paths \ {agents[a].path} : agents' = [agents EXCEPT ![a].path = path]
    /\ Edit
    /\ Changed(a)
    /\ UNCHANGED <<listed, usable, objectVars, condition, bindingVars, queue, blind>>

DeleteAgent(a) ==
    /\ agents[a].there
    /\ agents' = [agents EXCEPT ![a] = NoAgent]
    /\ Edit
    /\ Changed(a)
    /\ UNCHANGED <<listed, usable, objectVars, condition, bindingVars, queue, blind>>

\* The token can be had, or no more.
EditTunnel(a) ==
    /\ agents[a].there
    /\ usable' \in {usable \union {a}, usable \ {a}} \ {usable}
    /\ queue' = queue \union {a}
    /\ Edit
    /\ UNCHANGED <<agents, listed, news, objectVars, condition, bindingVars, pass, blind>>

DeleteObject(a) ==
    /\ \E k \in objects[a] : objects' = [objects EXCEPT ![a] = @ \ {k}]
    /\ Event(a, objects[a], objects'[a])
    /\ Edit
    /\ UNCHANGED <<agentVars, objectCache, condition, bindingVars, queue, pass, blind>>

\* The chart installs its binding without subjects, or removes it.
EditShell ==
    /\ Edit
    /\ binding' = [there |-> ~binding.there, subjects |-> {}]
    /\ blind' = (blind \/ binding'.there)
    /\ UNCHANGED <<agentVars, objectVars, condition, bindingCache, queue, pass>>

-----------------------------------------------------------------------------
(* The informers and the garbage collector.                                *)

SyncAgent(a) ==
    /\ a \in news
    /\ listed' = [listed EXCEPT ![a] = agents[a]]
    /\ news' = news \ {a}
    /\ queue' = queue \union {a}
    /\ UNCHANGED <<agents, usable, objectVars, condition, bindingVars, pass, events, blind>>

SyncObjects(a) ==
    /\ a \in coming
    /\ objectCache' = [objectCache EXCEPT ![a] = objects[a]]
    /\ coming' = coming \ {a}
    /\ queue' = queue \union {a}
    /\ UNCHANGED <<agentVars, objects, condition, bindingVars, pass, events, blind>>

SyncBinding ==
    /\ bindingCache # binding
    /\ bindingCache' = binding
    /\ UNCHANGED <<agentVars, objectVars, condition, binding, queue, pass, events, blind>>

CollectObjects(a) ==
    /\ ~agents[a].there
    /\ objects[a] # {}
    /\ objects' = [objects EXCEPT ![a] = {}]
    /\ Event(a, objects[a], {})
    /\ UNCHANGED <<agentVars, objectCache, condition, bindingVars, queue, pass, events, blind>>

-----------------------------------------------------------------------------
PassStep == \/ StartPass \/ Gate \/ EnsureObject \/ ObjectsDone \/ ListAgents
            \/ Bind \/ WriteStatus

Users == \/ \E a \in Agents : \/ CreateAgent(a) \/ EditAgent(a) \/ DeleteAgent(a)
                              \/ EditTunnel(a) \/ DeleteObject(a)
         \/ EditShell

Cluster == \/ \E a \in Agents : SyncAgent(a) \/ SyncObjects(a) \/ CollectObjects(a)
           \/ SyncBinding

Next == PassStep \/ Crash \/ Users \/ Cluster

Spec == Init /\ [][Next]_vars

\* A queued agent is served and a pass goes on; informers catch up; what has no
\* owner is collected.
FairSpec ==
    /\ Spec
    /\ WF_vars(PassStep)
    /\ WF_vars(SyncBinding)
    /\ \A a \in Agents : /\ WF_vars(SyncAgent(a))
                         /\ WF_vars(SyncObjects(a))
                         /\ WF_vars(CollectObjects(a))

-----------------------------------------------------------------------------
BindingType == [there : BOOLEAN, subjects : SUBSET Agents]
TypeOK ==
    /\ {agents, listed} \subseteq [Agents -> AgentType]
    /\ {objects, objectCache} \subseteq [Agents -> SUBSET Kinds]
    /\ {news, usable, coming} \subseteq SUBSET Agents
    /\ condition \in [Agents -> ConditionType]
    /\ {binding, bindingCache} \subseteq BindingType
    /\ queue \subseteq Agents
    /\ pass \in [at : Steps, agent : Agents, path : Paths, missing : BOOLEAN,
                 orig : ConditionType, todo : SUBSET Kinds, subjects : SUBSET Agents,
                 noShell : BOOLEAN, stale : BOOLEAN]
    /\ events \in 0..MaxEvents
    /\ blind \in BOOLEAN

\* Nothing is left for the operator, the informers or the collector.
Quiet == /\ pass.at = "idle" /\ queue = {} /\ news = {} /\ coming = {}
         /\ bindingCache = binding
         /\ \A a \in Agents : ~agents[a].there => objects[a] = {}

(* Safety.                                                                 *)

\* No agent keeps the right to read nodes that lost its reason to, and none is
\* left without it, once the queue is empty: the subjects of the binding that
\* all agents share are those of the agents on the direct path, deleted agents
\* included in the count, unless a late cache or the chart hid the binding
\* (reconcileNodeReaderSubjects).
SubjectsSettled ==
    Quiet /\ binding.there /\ ~blind => binding.subjects = Subjects(agents)

\* What an agent no longer asks for is pruned, and what it asks for is there, once
\* the queue is empty, although a pass prunes only what its cache shows it
\* (deleteOwnedIfExists).
ObjectsSettled ==
    Quiet => \A a \in Agents :
               objects[a] = IF agents[a].there /\ agents[a].path = "auto" THEN Kinds ELSE {}

(* Liveness, under FairSpec.                                               *)

\* The passes come to rest: the events they cause themselves, the status write
\* included, do not keep each other going.  Only the gate is polled.
ComesToRest ==
    <>[](Quiet \/ \E a \in Agents : agents[a].there /\ a \notin usable)
=============================================================================
