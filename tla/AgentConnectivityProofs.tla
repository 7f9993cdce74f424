---------------------- MODULE AgentConnectivityProofs ----------------------
(* Theorems about the direct-path objects, for any agents, kinds of        *)
(* objects and bound.                                                      *)
EXTENDS AgentConnectivity, TLAPS

(***************************************************************************)
(* The inductive invariant.  The properties speak of a moment when nothing *)
(* is left to do.  Between two such moments what is not settled is told of *)
(* by an event, by the queue, or by the running pass, and that is what the *)
(* invariant keeps.                                                        *)
(***************************************************************************)

\* The informers lag behind only with an event on its way.
ListedTold == \A a \in Agents : a \in news \/ listed[a] = agents[a]
ObjectsTold == \A a \in Agents : a \in coming \/ objectCache[a] = objects[a]

\* A pass has its agent as it is, or the agent is asked for again.
Running == pass.at # "idle"
PassCurrent ==
    Running /\ pass.agent \notin queue \union news =>
      IF pass.missing THEN ~agents[pass.agent].there
      ELSE agents[pass.agent].there /\ agents[pass.agent].path = pass.path
PassOfMissing == Running /\ pass.missing => pass.at \in {"list", "bind"}

Wanted(a) == IF agents[a].there /\ agents[a].path = "auto" THEN Kinds ELSE {}
Unasked(a) == a \notin queue \union news \union coming
Serving(a) == Running /\ pass.agent = a

\* The objects a pass has seen to are as it wants them.
ObjectsDealtWith ==
    Running /\ ~pass.missing /\ Unasked(pass.agent) =>
      /\ pass.at = "objects" =>
           \A k \in Kinds \ pass.todo : k \in objects[pass.agent] <=> pass.path = "auto"
      /\ pass.at \in {"list", "bind", "write"} => objects[pass.agent] = Wanted(pass.agent)

\* No agent that is there is left alone with the wrong objects.
ObjectsInv ==
    \A a \in Agents :
      agents[a].there /\ Unasked(a) /\ ~Serving(a) => objects[a] = Wanted(a)

\* The subjects are right, or somebody has still to compute them.
AllHeard == queue = {} /\ news = {}
SubjectsInv ==
    AllHeard =>
      /\ pass.at = "bind" => pass.subjects = Subjects(agents)
      /\ pass.at \in {"idle", "write"} /\ binding.there /\ ~blind
           => binding.subjects = Subjects(agents)

IInv == /\ TypeOK /\ ListedTold /\ ObjectsTold /\ PassCurrent /\ PassOfMissing
        /\ ObjectsDealtWith /\ ObjectsInv /\ SubjectsInv

(***************************************************************************)
(* Types.                                                                  *)
(***************************************************************************)

PassType == [at : Steps, agent : Agents, path : Paths, missing : BOOLEAN,
             orig : ConditionType, todo : SUBSET Kinds, subjects : SUBSET Agents,
             noShell : BOOLEAN, stale : BOOLEAN]
AgentMap == [Agents -> AgentType]
ObjectMap == [Agents -> SUBSET Kinds]

\* TypeOK, variable by variable.
LEMMA TypeParts ==
    TypeOK <=> /\ agents \in AgentMap /\ listed \in AgentMap
               /\ objects \in ObjectMap /\ objectCache \in ObjectMap
               /\ news \subseteq Agents /\ usable \subseteq Agents /\ coming \subseteq Agents
               /\ condition \in [Agents -> ConditionType]
               /\ binding \in BindingType /\ bindingCache \in BindingType
               /\ queue \subseteq Agents
               /\ pass \in PassType
               /\ events \in 0..MaxEvents
               /\ blind \in BOOLEAN
BY DEF TypeOK, AgentMap, ObjectMap, PassType

LEMMA NoPassType == NoPass \in PassType
<1>1. (CHOOSE a \in Agents : TRUE) \in Agents
  BY AgentsAssumption
<1> QED
  BY <1>1 DEF NoPass, PassType, Steps, Paths, ConditionType

LEMMA InitTypeOK == Init => TypeOK
<1> SUFFICES ASSUME Init PROVE TypeOK
  OBVIOUS
<1>1. agents \in AgentMap /\ objects \in ObjectMap /\ condition \in [Agents -> ConditionType]
  BY DEF Init, AgentMap, ObjectMap, NoAgent, AgentType, Paths, ConditionType
<1>2. binding \in BindingType /\ 0 \in 0..MaxEvents
  BY BoundAssumption DEF Init, BindingType
<1> QED
  BY <1>1, <1>2, NoPassType, TypeParts DEF Init

\* The type of a pass wherever its step, its work or its result changes.
LEMMA PassEdits ==
    ASSUME NEW p \in PassType
    PROVE  /\ \A step \in Steps : [p EXCEPT !.at = step] \in PassType
           /\ \A T \in SUBSET Kinds : [p EXCEPT !.todo = T] \in PassType
           /\ \A T \in SUBSET Kinds : [p EXCEPT !.at = "objects", !.todo = T] \in PassType
           /\ \A S \in SUBSET Agents : [p EXCEPT !.at = "bind", !.subjects = S] \in PassType
           /\ \A b \in BOOLEAN : [p EXCEPT !.at = "write", !.noShell = b] \in PassType
           /\ [p EXCEPT !.stale = TRUE] \in PassType
BY DEF PassType, Steps

LEMMA CountType ==
    ASSUME TypeOK, NoFault \/ Fault \/ Edit
    PROVE  events' \in 0..MaxEvents
BY BoundAssumption DEF TypeOK, NoFault, Fault, Edit, Count

LEMMA EndPassType ==
    ASSUME TypeOK, NEW again \in BOOLEAN, EndPass(again)
    PROVE  pass' \in PassType /\ queue' \subseteq Agents
<1>1. pass \in PassType /\ queue \subseteq Agents
  BY TypeParts
<1> QED
  BY <1>1, NoPassType DEF EndPass, PassType

LEMMA BoundType ==
    ASSUME TypeOK, NEW noShell \in BOOLEAN, Bound(noShell)
    PROVE  pass' \in PassType /\ queue' \subseteq Agents
<1>1. pass \in PassType /\ queue \subseteq Agents
  BY TypeParts
<1> QED
  BY <1>1, EndPassType, PassEdits DEF Bound

LEMMA PassTypes ==
    ASSUME TypeOK, PassStep \/ Crash
    PROVE  TypeOK'
<1>1. /\ pass \in PassType /\ agents \in AgentMap /\ queue \subseteq Agents
      /\ objects \in ObjectMap /\ condition \in [Agents -> ConditionType]
      /\ pass.agent \in Agents /\ coming \subseteq Agents /\ binding \in BindingType
  BY TypeParts DEF PassType
<1>2. CASE StartPass
  <2>1. PICK a \in queue :
          /\ queue' = queue \ {a}
          /\ pass' = IF agents[a].there
                     THEN [NoPass EXCEPT !.at = "gate", !.agent = a,
                             !.path = agents[a].path, !.orig = condition[a]]
                     ELSE [NoPass EXCEPT !.at = "list", !.agent = a, !.missing = TRUE]
    BY <1>2 DEF StartPass
  <2>2. a \in Agents /\ agents[a].path \in Paths /\ condition[a] \in ConditionType
    BY <1>1, <2>1 DEF AgentMap, AgentType
  <2>3. pass' \in PassType
    BY <2>1, <2>2, NoPassType DEF PassType, Steps
  <2> QED
    BY <1>1, <1>2, <2>1, <2>3
    DEF TypeOK, PassType, AgentMap, ObjectMap, StartPass, agentVars, objectVars, bindingVars
<1>3. CASE Gate
  <2>1. pass' \in PassType /\ queue' \subseteq Agents
    BY <1>1, <1>3, PassEdits, EndPassType DEF Gate, ToDo
  <2> QED
    BY <1>3, <2>1
    DEF TypeOK, PassType, AgentMap, ObjectMap, Gate, agentVars, objectVars, bindingVars
<1>4. CASE EnsureObject
  <2> DEFINE a == pass.agent
             After(k) == IF pass.path = "auto" THEN objects[a] \union {k}
                         ELSE IF k \in objectCache[a] THEN objects[a] \ {k}
                         ELSE objects[a]
  <2>1. PICK k \in pass.todo :
          /\ objects' \in {objects, [objects EXCEPT ![a] = After(k)]}
          /\ \/ /\ pass' = [pass EXCEPT !.todo = @ \ {k}]
                /\ NoFault
                /\ UNCHANGED queue
             \/ EndPass(TRUE) /\ Fault
          /\ Event(a, objects[a], objects'[a])
    BY <1>4 DEF EnsureObject
  <2>2. k \in Kinds /\ pass.todo \subseteq Kinds
    BY <1>1, <2>1 DEF PassType
  <2>3. objects[a] \subseteq Kinds
    BY <1>1 DEF ObjectMap
  <2>4. After(k) \subseteq Kinds
    BY <2>2, <2>3
  <2>5. objects' \in ObjectMap
    BY <1>1, <2>1, <2>4 DEF ObjectMap
  <2>6. pass' \in PassType /\ queue' \subseteq Agents
    <3>1. pass.todo \ {k} \in SUBSET Kinds
      BY <2>2
    <3>2. [pass EXCEPT !.todo = pass.todo \ {k}] \in PassType
      BY <1>1, <3>1, PassEdits
    <3> QED
      BY <1>1, <2>1, <3>2, EndPassType
  <2>8. events' \in 0..MaxEvents
    BY <2>1, CountType
  <2>7. coming' \subseteq Agents
    BY <1>1, <2>1 DEF Event
  <2> QED
    BY <1>4, <2>5, <2>6, <2>7, <2>8
    DEF TypeOK, PassType, AgentMap, ObjectMap, EnsureObject, agentVars, bindingVars
<1>5. CASE ObjectsDone
  <2>1. pass' \in PassType
    BY <1>1, <1>5, PassEdits DEF ObjectsDone, Goto, Steps
  <2> QED
    BY <1>5, <2>1
    DEF TypeOK, PassType, AgentMap, ObjectMap, ObjectsDone, agentVars, objectVars, bindingVars
<1>6. CASE ListAgents
  <2>1. pass' \in PassType
    BY <1>1, <1>6, PassEdits DEF ListAgents, Subjects
  <2> QED
    BY <1>6, <2>1
    DEF TypeOK, PassType, AgentMap, ObjectMap, ListAgents, agentVars, objectVars, bindingVars
<1>7. CASE Bind
  <2>1. pass.subjects \subseteq Agents
    BY <1>1 DEF PassType
  <2>2. binding' \in {binding, [there |-> TRUE, subjects |-> pass.subjects]}
    BY <1>7 DEF Bind
  <2>3. binding' \in BindingType
    <3>1. [there |-> TRUE, subjects |-> pass.subjects] \in BindingType
      BY <2>1 DEF BindingType
    <3> QED
      BY <1>1, <2>2, <3>1
  <2>4. pass' \in PassType /\ queue' \subseteq Agents
    BY <1>7, BoundType, EndPassType DEF Bind
  <2>5. events' \in 0..MaxEvents
    BY <1>7, CountType DEF Bind
  <2>6. blind' \in BOOLEAN
    <3>1. blind' = blind \/ blind' = (blind \/ bindingCache # binding)
      BY <1>7 DEF Bind
    <3>2. blind \in BOOLEAN
      BY TypeParts
    <3> QED
      BY <3>1, <3>2
  <2> QED
    BY <1>7, <2>3, <2>4, <2>5, <2>6
    DEF TypeOK, PassType, AgentMap, ObjectMap, Bind, agentVars, objectVars
<1>8. CASE WriteStatus
  <2>1. ConditionOf(pass) \in ConditionType
    BY <1>1 DEF ConditionOf, ConditionType, PassType, Paths
  <2>2. condition' \in [Agents -> ConditionType]
    BY <1>1, <1>8, <2>1 DEF WriteStatus
  <2>3. pass' \in PassType /\ queue' \subseteq Agents
    BY <1>8, EndPassType DEF WriteStatus
  <2> QED
    BY <1>8, <2>2, <2>3
    DEF TypeOK, PassType, AgentMap, ObjectMap, WriteStatus, agentVars, objectVars, bindingVars
<1>9. CASE Crash
  BY <1>9, EndPassType, CountType
    DEF TypeOK, PassType, AgentMap, ObjectMap, Crash, agentVars, objectVars, bindingVars
<1> QED
  BY <1>2, <1>3, <1>4, <1>5, <1>6, <1>7, <1>8, <1>9 DEF PassStep

LEMMA WorldTypes ==
    ASSUME TypeOK, Users \/ Cluster
    PROVE  TypeOK'
<1>1. /\ pass \in PassType /\ agents \in AgentMap /\ listed \in AgentMap
      /\ objects \in ObjectMap /\ objectCache \in ObjectMap
      /\ queue \subseteq Agents /\ news \subseteq Agents /\ coming \subseteq Agents
      /\ usable \subseteq Agents /\ condition \in [Agents -> ConditionType]
      /\ binding \in BindingType /\ bindingCache \in BindingType /\ blind \in BOOLEAN
      /\ [pass EXCEPT !.stale = TRUE] \in PassType
  BY TypeParts, PassEdits
<1>2. ASSUME NEW a \in Agents, CreateAgent(a) \/ EditAgent(a) \/ DeleteAgent(a)
      PROVE  TypeOK'
  <2>1. \A x \in AgentType : [agents EXCEPT ![a] = x] \in AgentMap
    BY <1>1 DEF AgentMap
  <2>2. /\ NoAgent \in AgentType
        /\ \A path \in Paths : /\ [there |-> TRUE, path |-> path] \in AgentType
                               /\ [agents[a] EXCEPT !.path = path] \in AgentType
    BY <1>1 DEF AgentMap, AgentType, NoAgent, Paths
  <2>3. agents' \in AgentMap
    BY <1>2, <2>1, <2>2 DEF CreateAgent, EditAgent, DeleteAgent
  <2>4. condition' \in [Agents -> ConditionType]
    BY <1>1, <1>2 DEF CreateAgent, EditAgent, DeleteAgent, ConditionType
  <2>5. news' \subseteq Agents /\ pass' \in PassType
    BY <1>1, <1>2 DEF CreateAgent, EditAgent, DeleteAgent, Changed
  <2>6. events' \in 0..MaxEvents
    BY <1>2, CountType DEF CreateAgent, EditAgent, DeleteAgent
  <2> QED
    BY <1>2, <2>3, <2>4, <2>5, <2>6
    DEF TypeOK, PassType, AgentMap, ObjectMap, CreateAgent, EditAgent, DeleteAgent, objectVars, bindingVars
<1>3. ASSUME NEW a \in Agents, EditTunnel(a)
      PROVE  TypeOK'
  <2>1. usable' \subseteq Agents /\ queue' \subseteq Agents
    BY <1>1, <1>3 DEF EditTunnel
  <2> QED
    BY <1>3, <2>1, CountType
    DEF TypeOK, PassType, AgentMap, ObjectMap, EditTunnel, objectVars, bindingVars
<1>4. ASSUME NEW a \in Agents, DeleteObject(a) \/ CollectObjects(a)
      PROVE  TypeOK'
  <2>1. objects' \in ObjectMap
    BY <1>1, <1>4 DEF DeleteObject, CollectObjects, ObjectMap
  <2>2. coming' \subseteq Agents
    BY <1>1, <1>4 DEF DeleteObject, CollectObjects, Event
  <2>3. events' \in 0..MaxEvents
    BY <1>4, CountType DEF DeleteObject, CollectObjects, NoFault
  <2> QED
    BY <1>4, <2>1, <2>2, <2>3
    DEF TypeOK, PassType, AgentMap, ObjectMap, DeleteObject, CollectObjects, agentVars, bindingVars
<1>5. CASE EditShell
  <2>1. binding' \in BindingType /\ binding'.there \in BOOLEAN
    BY <1>1, <1>5 DEF EditShell, BindingType
  <2>2. blind' \in BOOLEAN
    BY <1>1, <1>5, <2>1 DEF EditShell
  <2> QED
    BY <1>5, <2>1, <2>2, CountType
    DEF TypeOK, PassType, AgentMap, ObjectMap, EditShell, agentVars, objectVars
<1>6. ASSUME NEW a \in Agents, SyncAgent(a)
      PROVE  TypeOK'
  <2>1. listed' \in AgentMap
    BY <1>1, <1>6 DEF SyncAgent, AgentMap
  <2>2. news' \subseteq Agents /\ queue' \subseteq Agents
    BY <1>1, <1>6 DEF SyncAgent
  <2> QED
    BY <1>6, <2>1, <2>2
    DEF TypeOK, PassType, AgentMap, ObjectMap, SyncAgent, objectVars, bindingVars
<1>7. ASSUME NEW a \in Agents, SyncObjects(a)
      PROVE  TypeOK'
  <2>1. objectCache' \in ObjectMap
    BY <1>1, <1>7 DEF SyncObjects, ObjectMap
  <2>2. coming' \subseteq Agents /\ queue' \subseteq Agents
    BY <1>1, <1>7 DEF SyncObjects
  <2> QED
    BY <1>7, <2>1, <2>2
    DEF TypeOK, PassType, AgentMap, ObjectMap, SyncObjects, agentVars, bindingVars
<1>8. CASE SyncBinding
  BY <1>1, <1>8
    DEF TypeOK, PassType, AgentMap, ObjectMap, SyncBinding, agentVars, objectVars
<1> QED
  BY <1>2, <1>3, <1>4, <1>5, <1>6, <1>7, <1>8 DEF Users, Cluster

LEMMA NextTypeOK ==
    ASSUME TypeOK, [Next]_vars
    PROVE  TypeOK'
<1>1. CASE UNCHANGED vars
  BY <1>1
    DEF TypeOK, PassType, AgentMap, ObjectMap, vars, agentVars, objectVars, bindingVars
<1> QED
  BY <1>1, PassTypes, WorldTypes DEF Next

(***************************************************************************)
(* What the actions change, in the terms of the invariant.                 *)
(***************************************************************************)

\* The end of a pass.
LEMMA EndEffect ==
    ASSUME TypeOK, NEW again \in BOOLEAN, EndPass(again)
    PROVE  /\ pass'.at = "idle"
           /\ queue \subseteq queue'
           /\ \A a \in queue' : a \in queue \/ a = pass.agent
           /\ again => pass.agent \in queue'
BY DEF EndPass, NoPass

\* A step within a pass: the pass stays with its agent, or asks for it again.
LEMMA WithinPass ==
    ASSUME TypeOK, Gate \/ EnsureObject \/ ObjectsDone \/ ListAgents
    PROVE  /\ UNCHANGED <<agents, listed, news, binding, blind>>
           /\ \/ EndPass(TRUE)
              \/ /\ UNCHANGED queue
                 /\ pass'.at # "idle" /\ pass.at # "idle"
                 /\ pass'.agent = pass.agent
                 /\ pass'.path = pass.path
                 /\ pass'.missing = pass.missing
<1>1. pass \in PassType
  BY TypeParts
<1>2. CASE Gate
  BY <1>1, <1>2 DEF Gate, PassType, agentVars, bindingVars
<1>3. CASE EnsureObject
  <2>1. EndPass(TRUE) \/ \E k \in pass.todo : pass' = [pass EXCEPT !.todo = pass.todo \ {k}] /\ UNCHANGED queue
    BY <1>3 DEF EnsureObject
  <2> QED
    BY <1>1, <1>3, <2>1 DEF EnsureObject, PassType, agentVars, bindingVars
<1>4. CASE ObjectsDone
  BY <1>1, <1>4 DEF ObjectsDone, Goto, PassType, agentVars, bindingVars
<1>5. CASE ListAgents
  BY <1>1, <1>5 DEF ListAgents, PassType, agentVars, bindingVars
<1> QED
  BY <1>2, <1>3, <1>4, <1>5

\* The step that may end the pass of a missing agent.
LEMMA BoundEffect ==
    ASSUME TypeOK, NEW noShell \in BOOLEAN, Bound(noShell)
    PROVE  \/ pass.missing /\ EndPass(FALSE)
           \/ /\ ~pass.missing
              /\ UNCHANGED queue
              /\ pass'.at = "write"
              /\ pass'.agent = pass.agent
              /\ pass'.path = pass.path
              /\ pass'.missing = pass.missing
<1>1. pass \in PassType
  BY TypeParts
<1> QED
  BY <1>1 DEF Bound, PassType

\* A change of one agent.
LEMMA EditEffect ==
    ASSUME TypeOK, NEW a \in Agents, CreateAgent(a) \/ EditAgent(a) \/ DeleteAgent(a)
    PROVE  /\ \A b \in Agents : b # a => agents'[b] = agents[b]
           /\ news' = news \union {a}
           /\ UNCHANGED <<listed, queue, objects, objectCache, coming, binding, blind>>
           /\ pass'.at = pass.at
           /\ pass'.agent = pass.agent
           /\ pass'.path = pass.path
           /\ pass'.missing = pass.missing
           /\ pass'.todo = pass.todo
<1>1. pass \in PassType /\ agents \in AgentMap
  BY TypeParts
<1>2. Changed(a)
  BY DEF CreateAgent, EditAgent, DeleteAgent
<1>3. /\ pass'.at = pass.at
      /\ pass'.agent = pass.agent
      /\ pass'.path = pass.path
      /\ pass'.missing = pass.missing
      /\ pass'.todo = pass.todo
  BY <1>1, <1>2 DEF Changed, PassType
<1>4. \A b \in Agents : b # a => agents'[b] = agents[b]
  BY <1>1 DEF CreateAgent, EditAgent, DeleteAgent, AgentMap
<1>5. news' = news \union {a}
  BY <1>2 DEF Changed
<1>6. UNCHANGED <<listed, queue, objects, objectCache, coming, binding, blind>>
  BY DEF CreateAgent, EditAgent, DeleteAgent, objectVars, bindingVars
<1> QED
  BY <1>3, <1>4, <1>5, <1>6

\* A change of the objects of one agent.
LEMMA ObjectsEffect ==
    ASSUME TypeOK, NEW a \in Agents,
           DeleteObject(a) \/ CollectObjects(a) \/ (EnsureObject /\ pass.agent = a)
    PROVE  /\ \A b \in Agents : b # a => objects'[b] = objects[b]
           /\ objects'[a] # objects[a] => a \in coming'
           /\ coming \subseteq coming'
           /\ UNCHANGED <<agents, listed, news, objectCache>>
<1>1. objects \in ObjectMap
  BY TypeParts
<1>2. CASE DeleteObject(a)
  BY <1>1, <1>2 DEF DeleteObject, Event, ObjectMap, agentVars
<1>3. CASE CollectObjects(a)
  BY <1>1, <1>3 DEF CollectObjects, Event, ObjectMap, agentVars
<1>4. CASE EnsureObject /\ pass.agent = a
  <2>1. /\ objects' = objects \/ \E S : objects' = [objects EXCEPT ![a] = S]
        /\ Event(a, objects[a], objects'[a])
        /\ UNCHANGED <<agentVars, objectCache>>
    BY <1>4 DEF EnsureObject
  <2> QED
    BY <1>1, <2>1 DEF Event, ObjectMap, agentVars
<1> QED
  BY <1>2, <1>3, <1>4

\* An event delivered, or one of the tunnel: the agent is asked for.
LEMMA AskedEffect ==
    ASSUME TypeOK, NEW a \in Agents, EditTunnel(a) \/ SyncAgent(a) \/ SyncObjects(a)
    PROVE  /\ queue' = queue \union {a}
           /\ \A b \in news : b = a \/ b \in news'
           /\ \A b \in coming : b = a \/ b \in coming'
           /\ UNCHANGED <<agents, objects, binding, blind, pass>>
BY DEF EditTunnel, SyncAgent, SyncObjects, agentVars, objectVars, bindingVars

\* Neither agents nor objects nor the queue.
LEMMA BindingEffect ==
    ASSUME EditShell \/ SyncBinding \/ UNCHANGED vars
    PROVE  UNCHANGED <<agentVars, objectVars, queue, pass>>
BY DEF EditShell, SyncBinding, vars

\* The kinds of step the cases below distinguish.
LEMMA NextCases ==
    ASSUME [Next]_vars
    PROVE  \/ StartPass
           \/ Gate \/ EnsureObject \/ ObjectsDone \/ ListAgents
           \/ Bind
           \/ WriteStatus
           \/ Crash
           \/ \E a \in Agents : CreateAgent(a) \/ EditAgent(a) \/ DeleteAgent(a)
           \/ \E a \in Agents : DeleteObject(a) \/ CollectObjects(a)
           \/ \E a \in Agents : EditTunnel(a) \/ SyncAgent(a) \/ SyncObjects(a)
           \/ EditShell \/ SyncBinding \/ UNCHANGED vars
BY DEF Next, PassStep, Users, Cluster

(***************************************************************************)
(* The invariant, conjunct by conjunct.                                    *)
(***************************************************************************)

LEMMA ToldStep ==
    ASSUME TypeOK, ListedTold, ObjectsTold, [Next]_vars
    PROVE  ListedTold' /\ ObjectsTold'
<1>1. /\ pass \in PassType /\ listed \in AgentMap /\ objectCache \in ObjectMap
      /\ pass.agent \in Agents
  BY TypeParts DEF PassType
<1>2. CASE UNCHANGED <<agents, listed, news, objectVars>>
  BY <1>2 DEF ListedTold, ObjectsTold, objectVars
<1>3. ASSUME NEW a \in Agents, CreateAgent(a) \/ EditAgent(a) \/ DeleteAgent(a)
      PROVE  ListedTold' /\ ObjectsTold'
  BY <1>3, EditEffect DEF ListedTold, ObjectsTold
<1>4. ASSUME NEW a \in Agents,
             DeleteObject(a) \/ CollectObjects(a) \/ (EnsureObject /\ pass.agent = a)
      PROVE  ListedTold' /\ ObjectsTold'
  BY <1>4, ObjectsEffect DEF ListedTold, ObjectsTold
<1>5. ASSUME NEW a \in Agents, SyncAgent(a)
      PROVE  ListedTold' /\ ObjectsTold'
  BY <1>1, <1>5 DEF SyncAgent, ListedTold, ObjectsTold, AgentMap, objectVars
<1>6. ASSUME NEW a \in Agents, SyncObjects(a)
      PROVE  ListedTold' /\ ObjectsTold'
  BY <1>1, <1>6 DEF SyncObjects, ListedTold, ObjectsTold, ObjectMap, agentVars
<1>7. ASSUME NEW a \in Agents, EditTunnel(a)
      PROVE  ListedTold' /\ ObjectsTold'
  BY <1>2, <1>7 DEF EditTunnel
<1>8. CASE StartPass \/ Gate \/ ObjectsDone \/ ListAgents \/ Bind \/ WriteStatus \/ Crash
  <2>1. UNCHANGED <<agents, listed, news, objectVars>>
    BY <1>8 DEF StartPass, Gate, ObjectsDone, ListAgents, Bind, WriteStatus, Crash, agentVars
  <2> QED
    BY <1>2, <2>1
<1>13. CASE EditShell \/ SyncBinding \/ UNCHANGED vars
  BY <1>2, <1>13, BindingEffect DEF agentVars
<1>9. CASE EnsureObject
  BY <1>1, <1>4, <1>9
<1>10. ASSUME NEW a \in Agents, EditTunnel(a) \/ SyncAgent(a) \/ SyncObjects(a)
       PROVE  ListedTold' /\ ObjectsTold'
  BY <1>5, <1>6, <1>7, <1>10
<1>11. ASSUME NEW a \in Agents, DeleteObject(a) \/ CollectObjects(a)
       PROVE  ListedTold' /\ ObjectsTold'
  BY <1>4, <1>11
<1> QED
  BY <1>3, <1>8, <1>9, <1>10, <1>11, <1>13, NextCases

\* Which agent a pass that begins has, and what it knows of it.
LEMMA StartEffect ==
    ASSUME TypeOK, StartPass
    PROVE  /\ pass.at = "idle"
           /\ pass'.agent \in queue
           /\ queue' = queue \ {pass'.agent}
           /\ UNCHANGED <<agents, news, objects, coming, binding, blind>>
           /\ \/ /\ agents[pass'.agent].there
                 /\ pass'.at = "gate"
                 /\ ~pass'.missing
                 /\ pass'.path = agents[pass'.agent].path
              \/ /\ ~agents[pass'.agent].there
                 /\ pass'.at = "list"
                 /\ pass'.missing
<1>1. PICK a \in queue :
        /\ queue' = queue \ {a}
        /\ pass' = IF agents[a].there
                   THEN [NoPass EXCEPT !.at = "gate", !.agent = a,
                           !.path = agents[a].path, !.orig = condition[a]]
                   ELSE [NoPass EXCEPT !.at = "list", !.agent = a, !.missing = TRUE]
  BY DEF StartPass
<1>2. pass'.agent = a
  BY <1>1 DEF NoPass
<1>3. \/ /\ agents[a].there
         /\ pass'.at = "gate"
         /\ ~pass'.missing
         /\ pass'.path = agents[a].path
      \/ /\ ~agents[a].there
         /\ pass'.at = "list"
         /\ pass'.missing
  BY <1>1 DEF NoPass
<1>4. pass.at = "idle" /\ UNCHANGED <<agents, news, objects, coming, binding, blind>>
  BY DEF StartPass, agentVars, objectVars, bindingVars
<1> QED
  BY <1>1, <1>2, <1>3, <1>4

\* How Bind leaves the pass and the queue.
LEMMA BindEffect ==
    ASSUME TypeOK, Bind
    PROVE  /\ pass.at = "bind"
           /\ UNCHANGED <<agents, news, objects, coming>>
           /\ \/ EndPass(TRUE)
              \/ pass.missing /\ EndPass(FALSE)
              \/ /\ ~pass.missing
                 /\ UNCHANGED queue
                 /\ pass'.at = "write"
                 /\ pass'.agent = pass.agent
                 /\ pass'.path = pass.path
                 /\ pass'.missing = pass.missing
<1>1. EndPass(TRUE) \/ Bound(TRUE) \/ Bound(FALSE)
  BY DEF Bind
<1>2. pass.at = "bind" /\ UNCHANGED <<agents, news, objects, coming>>
  BY DEF Bind, agentVars, objectVars
<1> QED
  BY <1>1, <1>2, BoundEffect

LEMMA WriteEffect ==
    ASSUME TypeOK, WriteStatus
    PROVE  /\ pass.at = "write"
           /\ UNCHANGED <<agents, news, objects, coming, binding, blind>>
           /\ EndPass(TRUE) \/ EndPass(FALSE)
BY DEF WriteStatus, agentVars, objectVars, bindingVars

LEMMA CrashEffect ==
    ASSUME TypeOK, Crash
    PROVE  EndPass(TRUE) /\ UNCHANGED <<agents, news, objects, coming>>
BY DEF Crash, agentVars, objectVars

LEMMA PassCurrentStep ==
    ASSUME TypeOK, PassCurrent, PassOfMissing, [Next]_vars
    PROVE  PassCurrent' /\ PassOfMissing'
<1>1. pass \in PassType
  BY TypeParts
<1>2. pass'.at = "idle" => PassCurrent' /\ PassOfMissing'
  BY DEF PassCurrent, PassOfMissing, Running
<1>3. CASE StartPass
  BY <1>3, StartEffect DEF PassCurrent, PassOfMissing, Running
<1>4. CASE Gate \/ EnsureObject \/ ObjectsDone \/ ListAgents
  <2>1. PassCurrent'
    BY <1>2, <1>4, WithinPass, EndEffect DEF PassCurrent, Running
  <2>2. CASE Gate \/ EnsureObject \/ ObjectsDone
    <3>1. ~pass.missing
      BY <2>2 DEF PassOfMissing, Running, Gate, EnsureObject, ObjectsDone
    <3>2. CASE EndPass(TRUE)
      BY <1>2, <3>2, EndEffect
    <3>3. CASE pass'.missing = pass.missing
      BY <2>1, <3>1, <3>3 DEF PassOfMissing
    <3> QED
      BY <1>4, <2>2, <3>2, <3>3, WithinPass
  <2>3. CASE ListAgents
    <3>1. pass'.at = "bind"
      BY <1>1, <2>3 DEF ListAgents, PassType
    <3> QED
      BY <2>1, <3>1 DEF PassOfMissing
  <2> QED
    BY <1>4, <2>1, <2>2, <2>3
<1>5. CASE Bind
  BY <1>2, <1>5, BindEffect, EndEffect DEF PassCurrent, PassOfMissing, Running
<1>6. CASE WriteStatus \/ Crash
  BY <1>2, <1>6, WriteEffect, CrashEffect, EndEffect
<1>7. ASSUME NEW a \in Agents, CreateAgent(a) \/ EditAgent(a) \/ DeleteAgent(a)
      PROVE  PassCurrent' /\ PassOfMissing'
  <2>1. pass.agent \in Agents
    BY <1>1 DEF PassType
  <2> QED
    BY <1>7, <2>1, EditEffect DEF PassCurrent, PassOfMissing, Running
<1>8. ASSUME NEW a \in Agents, DeleteObject(a) \/ CollectObjects(a)
      PROVE  PassCurrent' /\ PassOfMissing'
  BY <1>8 DEF DeleteObject, CollectObjects, agentVars, PassCurrent, PassOfMissing, Running
<1>9. ASSUME NEW a \in Agents, EditTunnel(a) \/ SyncAgent(a) \/ SyncObjects(a)
      PROVE  PassCurrent' /\ PassOfMissing'
  BY <1>9, AskedEffect DEF PassCurrent, PassOfMissing, Running
<1>10. CASE EditShell \/ SyncBinding \/ UNCHANGED vars
  BY <1>10, BindingEffect DEF agentVars, PassCurrent, PassOfMissing, Running
<1> QED
  BY <1>3, <1>4, <1>5, <1>6, <1>7, <1>8, <1>9, <1>10, NextCases

\* What a pass knows of its agent, unless the agent is asked for again.
LEMMA Reasons ==
    ASSUME TypeOK, PassCurrent, Running, Unasked(pass.agent)
    PROVE  /\ pass.missing => ~agents[pass.agent].there
           /\ ~pass.missing => /\ agents[pass.agent].there
                               /\ agents[pass.agent].path = pass.path
<1>1. pass \in PassType
  BY TypeParts
<1> QED
  BY <1>1 DEF PassCurrent, Unasked, PassType

\* One object seen to.
LEMMA OneObject ==
    ASSUME TypeOK, ObjectsTold, PassCurrent, ObjectsDealtWith, EnsureObject
    PROVE  ObjectsDealtWith'
<1> DEFINE a == pass.agent
           After(k) == IF pass.path = "auto" THEN objects[a] \union {k}
                       ELSE IF k \in objectCache[a] THEN objects[a] \ {k}
                       ELSE objects[a]
<1>1. pass \in PassType /\ a \in Agents /\ objects \in ObjectMap
  BY TypeParts DEF PassType
<1>2. CASE EndPass(TRUE)
  BY <1>2, EndEffect DEF ObjectsDealtWith, Running
<1>3. CASE ~EndPass(TRUE)
  <2>1. PICK k \in pass.todo :
          /\ objects' \in {[objects EXCEPT ![a] = After(k)]}
                              \union (IF pass.path # "auto" /\ a \in coming THEN {objects} ELSE {})
          /\ pass' = [pass EXCEPT !.todo = @ \ {k}]
          /\ UNCHANGED queue
    BY <1>3 DEF EnsureObject
  <2>2. pass.at = "objects" /\ UNCHANGED <<agents, news>>
    BY DEF EnsureObject, agentVars
  <2>3. /\ pass'.at = "objects" /\ pass'.agent = a /\ pass'.path = pass.path
        /\ pass'.missing = pass.missing /\ pass'.todo = pass.todo \ {k}
    BY <1>1, <2>1, <2>2 DEF PassType
  <2>4. SUFFICES ASSUME ~pass.missing, a \notin queue', a \notin news', a \notin coming'
                 PROVE  \A x \in Kinds \ pass'.todo : x \in objects'[a] <=> pass.path = "auto"
    BY <2>3 DEF ObjectsDealtWith, Running, Unasked
  <2>5. a \notin coming /\ objects'[a] = objects[a]
    BY <1>1, <2>4, ObjectsEffect
  <2>6. objects'[a] = After(k)
    BY <1>1, <2>1, <2>5 DEF ObjectMap
  <2>7. objectCache[a] = objects[a]
    BY <1>1, <2>5 DEF ObjectsTold
  <2>8. k \in objects[a] <=> pass.path = "auto"
    BY <2>5, <2>6, <2>7
  <2>9. \A x \in Kinds \ pass.todo : x \in objects[a] <=> pass.path = "auto"
    BY <2>1, <2>2, <2>4, <2>5 DEF ObjectsDealtWith, Running, Unasked
  <2> QED
    BY <2>3, <2>5, <2>8, <2>9
<1> QED
  BY <1>2, <1>3

LEMMA DealtWithStep ==
    ASSUME TypeOK, ObjectsTold, PassCurrent, PassOfMissing, ObjectsDealtWith, [Next]_vars
    PROVE  ObjectsDealtWith'
<1>1. pass \in PassType /\ pass.agent \in Agents /\ objects \in ObjectMap
  BY TypeParts DEF PassType
<1>2. pass'.at = "idle" => ObjectsDealtWith'
  BY DEF ObjectsDealtWith, Running
<1>3. CASE StartPass
  BY <1>3, StartEffect DEF ObjectsDealtWith, Running
<1>4. CASE Gate
  <2>1. CASE EndPass(TRUE)
    BY <1>2, <2>1, EndEffect
  <2>2. CASE pass' = [pass EXCEPT !.at = "objects", !.todo = ToDo(pass.path)]
    <3>1. pass'.at = "objects" /\ pass'.todo = Kinds
      BY <1>1, <2>2 DEF PassType, ToDo
    <3> QED
      BY <3>1 DEF ObjectsDealtWith
  <2> QED
    BY <1>4, <2>1, <2>2 DEF Gate
<1>5. CASE EnsureObject
  BY <1>5, OneObject
<1>6. CASE ObjectsDone
  <2>1. /\ pass.at = "objects" /\ pass.todo = {}
        /\ pass'.at = "list" /\ pass'.agent = pass.agent /\ pass'.missing = pass.missing
        /\ UNCHANGED <<agents, news, objects, coming, queue>>
    BY <1>1, <1>6 DEF ObjectsDone, Goto, PassType, agentVars, objectVars
  <2>2. SUFFICES ASSUME ~pass.missing, Unasked(pass.agent)
                 PROVE  objects[pass.agent] = Wanted(pass.agent)
    BY <2>1 DEF ObjectsDealtWith, Running, Unasked, Wanted
  <2>3. \A k \in Kinds : k \in objects[pass.agent] <=> pass.path = "auto"
    BY <2>1, <2>2 DEF ObjectsDealtWith, Running
  <2>4. agents[pass.agent].there /\ agents[pass.agent].path = pass.path
    BY <2>1, <2>2, Reasons DEF Running
  <2>5. objects[pass.agent] \subseteq Kinds
    BY <1>1 DEF ObjectMap
  <2> QED
    BY <2>3, <2>4, <2>5 DEF Wanted
<1>7. CASE ListAgents
  <2>1. /\ pass.at = "list"
        /\ pass'.at = "bind" /\ pass'.agent = pass.agent /\ pass'.missing = pass.missing
        /\ UNCHANGED <<agents, news, objects, coming, queue>>
    BY <1>1, <1>7 DEF ListAgents, PassType, agentVars, objectVars
  <2> QED
    BY <2>1 DEF ObjectsDealtWith, Running, Unasked, Wanted
<1>8. CASE Bind
  <2>1. CASE EndPass(TRUE) \/ EndPass(FALSE)
    BY <1>2, <2>1, EndEffect
  <2>2. CASE /\ UNCHANGED queue
             /\ pass'.at = "write"
             /\ pass'.agent = pass.agent
             /\ ~pass.missing
    BY <1>8, <2>2, BindEffect DEF ObjectsDealtWith, Running, Unasked, Wanted
  <2> QED
    BY <1>8, <2>1, <2>2, BindEffect
<1>9. CASE WriteStatus \/ Crash
  BY <1>2, <1>9, WriteEffect, CrashEffect, EndEffect
<1>10. ASSUME NEW a \in Agents, CreateAgent(a) \/ EditAgent(a) \/ DeleteAgent(a)
       PROVE  ObjectsDealtWith'
  BY <1>1, <1>10, EditEffect DEF ObjectsDealtWith, Running, Unasked, Wanted
<1>11. ASSUME NEW a \in Agents, DeleteObject(a) \/ CollectObjects(a)
       PROVE  ObjectsDealtWith'
  <2>1. UNCHANGED <<agents, news, queue, pass>>
    BY <1>11 DEF DeleteObject, CollectObjects, agentVars
  <2>2. pass.agent \notin coming' =>
          pass.agent \notin coming /\ objects'[pass.agent] = objects[pass.agent]
    BY <1>1, <1>11, ObjectsEffect
  <2>3. pass.agent \notin coming' /\ ObjectsDealtWith => ObjectsDealtWith'
    BY <2>1, <2>2 DEF ObjectsDealtWith, Running, Unasked, Wanted
  <2>4. pass.agent \in coming' => ObjectsDealtWith'
    BY <2>1 DEF ObjectsDealtWith, Unasked
  <2> QED
    BY <2>3, <2>4
<1>12. ASSUME NEW a \in Agents, EditTunnel(a) \/ SyncAgent(a) \/ SyncObjects(a)
       PROVE  ObjectsDealtWith'
  BY <1>1, <1>12, AskedEffect DEF ObjectsDealtWith, Running, Unasked, Wanted
<1>13. CASE EditShell \/ SyncBinding \/ UNCHANGED vars
  BY <1>13, BindingEffect
  DEF agentVars, objectVars, ObjectsDealtWith, Running, Unasked, Wanted
<1> QED
  BY <1>3, <1>4, <1>5, <1>6, <1>7, <1>8, <1>9, <1>10, <1>11, <1>12, <1>13, NextCases

\* A pass that ends well has nothing left to do for its agent.
LEMMA EndsWell ==
    ASSUME TypeOK, PassCurrent, PassOfMissing, ObjectsDealtWith,
           Running, Unasked(pass.agent), agents[pass.agent].there,
           \/ pass.at = "bind" /\ pass.missing
           \/ pass.at = "write"
    PROVE  objects[pass.agent] = Wanted(pass.agent)
<1>1. ~pass.missing
  BY Reasons
<1> QED
  BY <1>1 DEF ObjectsDealtWith

LEMMA ObjectsStep ==
    ASSUME TypeOK, PassCurrent, PassOfMissing, ObjectsDealtWith, ObjectsInv, [Next]_vars
    PROVE  ObjectsInv'
<1>1. pass \in PassType /\ pass.agent \in Agents /\ objects \in ObjectMap
  BY TypeParts DEF PassType
<1>2. CASE StartPass
  <2>1. SUFFICES ASSUME NEW a \in Agents, agents[a].there, Unasked(a)', a # pass'.agent
                 PROVE  objects[a] = Wanted(a)
    BY <1>2, StartEffect DEF ObjectsInv, Serving, Running, Wanted
  <2>2. Unasked(a) /\ ~Serving(a)
    BY <1>2, <2>1, StartEffect DEF Unasked, Serving, Running
  <2> QED
    BY <2>1, <2>2 DEF ObjectsInv
<1>3. ASSUME UNCHANGED <<agents, news>>, coming \subseteq coming', EndPass(TRUE), Running,
             \A b \in Agents : b # pass.agent => objects'[b] = objects[b]
      PROVE  ObjectsInv'
  BY <1>1, <1>3, EndEffect DEF ObjectsInv, Unasked, Serving, Running, Wanted
<1>4. ASSUME UNCHANGED <<agents, news, queue>>, coming \subseteq coming', Running,
             pass'.at # "idle", pass'.agent = pass.agent,
             \A b \in Agents : b # pass.agent => objects'[b] = objects[b]
      PROVE  ObjectsInv'
  BY <1>1, <1>4 DEF ObjectsInv, Unasked, Serving, Running, Wanted
<1>5. CASE Gate \/ EnsureObject \/ ObjectsDone \/ ListAgents
  <2>1. /\ Running
        /\ coming \subseteq coming'
        /\ \A b \in Agents : b # pass.agent => objects'[b] = objects[b]
    <3>1. CASE EnsureObject
      BY <1>1, <3>1, ObjectsEffect DEF EnsureObject, Running
    <3>2. CASE Gate \/ ObjectsDone \/ ListAgents
      BY <3>2 DEF Gate, ObjectsDone, ListAgents, objectVars, Running
    <3> QED
      BY <1>5, <3>1, <3>2
  <2> QED
    BY <1>3, <1>4, <1>5, <2>1, WithinPass
<1>6. ASSUME UNCHANGED <<agents, news, objects, coming>>, EndPass(FALSE),
             \/ pass.at = "bind" /\ pass.missing
             \/ pass.at = "write"
      PROVE  ObjectsInv'
  <2>1. Running /\ queue' = queue
    BY <1>6 DEF Running, EndPass
  <2>2. SUFFICES ASSUME NEW a \in Agents, agents[a].there, Unasked(a)
                 PROVE  objects[a] = Wanted(a)
    BY <1>6, <2>1 DEF ObjectsInv, Unasked, Wanted
  <2>3. CASE a = pass.agent
    BY <1>6, <2>1, <2>2, <2>3, EndsWell
  <2>4. CASE a # pass.agent
    BY <2>2, <2>4 DEF ObjectsInv, Serving
  <2> QED
    BY <2>3, <2>4
<1>7. CASE Bind
  <2>1. Running
    BY <1>7, BindEffect DEF Running
  <2> QED
    BY <1>3, <1>4, <1>6, <1>7, <2>1, BindEffect
<1>8. CASE WriteStatus
  <2>1. Running
    BY <1>8, WriteEffect DEF Running
  <2> QED
    BY <1>3, <1>6, <1>8, <2>1, WriteEffect
<1>9. CASE Crash
  <2>1. Running
    BY <1>9 DEF Crash, Running
  <2> QED
    BY <1>3, <1>9, <2>1, CrashEffect
<1>10. ASSUME NEW a \in Agents, CreateAgent(a) \/ EditAgent(a) \/ DeleteAgent(a)
       PROVE  ObjectsInv'
  BY <1>1, <1>10, EditEffect DEF ObjectsInv, Unasked, Serving, Running, Wanted
<1>11. ASSUME NEW a \in Agents, DeleteObject(a) \/ CollectObjects(a)
       PROVE  ObjectsInv'
  <2>1. UNCHANGED <<agents, news, queue, pass>>
    BY <1>11 DEF DeleteObject, CollectObjects, agentVars
  <2>2. \A b \in Agents : b \notin coming' => b \notin coming /\ objects'[b] = objects[b]
    BY <1>1, <1>11, ObjectsEffect
  <2> QED
    BY <2>1, <2>2 DEF ObjectsInv, Unasked, Serving, Running, Wanted
<1>12. ASSUME NEW a \in Agents, EditTunnel(a) \/ SyncAgent(a) \/ SyncObjects(a)
       PROVE  ObjectsInv'
  BY <1>12, AskedEffect DEF ObjectsInv, Unasked, Serving, Running, Wanted
<1>13. CASE EditShell \/ SyncBinding \/ UNCHANGED vars
  BY <1>13, BindingEffect
  DEF agentVars, objectVars, ObjectsInv, Unasked, Serving, Running, Wanted
<1> QED
  BY <1>2, <1>5, <1>7, <1>8, <1>9, <1>10, <1>11, <1>12, <1>13, NextCases

\* Subjects computed from an informer that lags behind nobody are the right ones.
LEMMA SubjectsFresh ==
    ASSUME ListedTold, news = {}
    PROVE  Subjects(listed) = Subjects(agents)
BY DEF ListedTold, Subjects

\* What is bound is right, if what was computed is.
LEMMA BindSettles ==
    ASSUME TypeOK, Bind, SubjectsInv, AllHeard'
    PROVE  /\ pass'.at \in {"idle", "write"}
           /\ binding'.there /\ ~blind' => binding'.subjects = Subjects(agents)
<1>1. ~EndPass(TRUE)
  BY EndEffect DEF AllHeard
<1>2. queue = {} /\ news = {}
  BY <1>1, BindEffect, EndEffect DEF AllHeard
<1>3. pass.subjects = Subjects(agents)
  BY <1>2, BindEffect DEF SubjectsInv, AllHeard
<1>4. pass'.at \in {"idle", "write"}
  BY <1>1, BindEffect, EndEffect
<1>5. \/ /\ ~bindingCache.there \/ bindingCache.subjects = pass.subjects
         /\ bindingCache # binding => blind'
         /\ binding' = binding
      \/ binding' = [there |-> TRUE, subjects |-> pass.subjects]
  BY <1>1 DEF Bind
<1>6. binding'.there /\ ~blind' => binding'.subjects = pass.subjects
  <2>1. CASE bindingCache # binding
    BY <1>5, <2>1
  <2>2. CASE bindingCache = binding
    BY <1>5, <2>2
  <2> QED
    BY <2>1, <2>2
<1> QED
  BY <1>3, <1>4, <1>6

LEMMA SubjectsStep ==
    ASSUME TypeOK, ListedTold, SubjectsInv, [Next]_vars
    PROVE  SubjectsInv'
<1>1. pass \in PassType
  BY TypeParts
<1>2. CASE StartPass
  BY <1>2, StartEffect DEF SubjectsInv
<1>3. EndPass(TRUE) => SubjectsInv'
  BY EndEffect DEF SubjectsInv, AllHeard
<1>4. CASE Gate \/ EnsureObject \/ ObjectsDone
  <2>1. EndPass(TRUE) \/ pass'.at \in {"objects", "list"}
    <3>1. CASE Gate
      BY <1>1, <3>1 DEF Gate, PassType
    <3>2. CASE EnsureObject
      <4>1. \/ EndPass(TRUE)
            \/ \E k \in pass.todo : pass' = [pass EXCEPT !.todo = pass.todo \ {k}]
        BY <3>2 DEF EnsureObject
      <4> QED
        BY <1>1, <3>2, <4>1 DEF EnsureObject, PassType
    <3>3. CASE ObjectsDone
      BY <1>1, <3>3 DEF ObjectsDone, Goto, PassType
    <3> QED
      BY <1>4, <3>1, <3>2, <3>3
  <2>2. pass'.at \in {"objects", "list"} => SubjectsInv'
    BY DEF SubjectsInv
  <2> QED
    BY <1>3, <2>1, <2>2
<1>5. CASE ListAgents
  <2>1. pass'.at = "bind" /\ pass'.subjects = Subjects(listed) /\ UNCHANGED <<agents, news>>
    BY <1>1, <1>5 DEF ListAgents, PassType, agentVars
  <2>2. AllHeard' => pass'.subjects = Subjects(agents)
    BY <2>1, SubjectsFresh DEF AllHeard
  <2> QED
    BY <2>1, <2>2 DEF SubjectsInv, Subjects
<1>6. CASE Bind
  <2>1. agents' = agents
    BY <1>6, BindEffect
  <2> QED
    BY <1>6, <2>1, BindSettles DEF SubjectsInv, Subjects
<1>7. CASE WriteStatus
  <2>1. CASE EndPass(FALSE)
    <3>1. queue' = queue /\ pass'.at = "idle" /\ pass.at = "write"
          /\ UNCHANGED <<agents, news, binding, blind>>
      BY <1>7, <2>1, WriteEffect, EndEffect DEF EndPass
    <3> QED
      BY <3>1 DEF SubjectsInv, AllHeard, Subjects
  <2> QED
    BY <1>3, <1>7, <2>1, WriteEffect
<1>8. CASE Crash
  BY <1>3, <1>8, CrashEffect
<1>9. ASSUME NEW a \in Agents, CreateAgent(a) \/ EditAgent(a) \/ DeleteAgent(a)
      PROVE  SubjectsInv'
  BY <1>9, EditEffect DEF SubjectsInv, AllHeard
<1>10. ASSUME NEW a \in Agents, DeleteObject(a) \/ CollectObjects(a)
       PROVE  SubjectsInv'
  BY <1>10
  DEF DeleteObject, CollectObjects, agentVars, bindingVars, SubjectsInv, AllHeard, Subjects
<1>11. ASSUME NEW a \in Agents, EditTunnel(a) \/ SyncAgent(a) \/ SyncObjects(a)
       PROVE  SubjectsInv'
  BY <1>11, AskedEffect DEF SubjectsInv, AllHeard
<1>12. CASE EditShell
  <2>1. binding'.there => blind'
    BY <1>12 DEF EditShell
  <2>2. UNCHANGED <<agents, news, queue, pass>>
    BY <1>12 DEF EditShell, agentVars
  <2> QED
    BY <2>1, <2>2 DEF SubjectsInv, AllHeard, Subjects
<1>13. CASE SyncBinding \/ UNCHANGED vars
  BY <1>13
  DEF SyncBinding, vars, agentVars, bindingVars, SubjectsInv, AllHeard, Subjects
<1> QED
  BY <1>2, <1>4, <1>5, <1>6, <1>7, <1>8, <1>9, <1>10, <1>11, <1>12, <1>13, NextCases

(***************************************************************************)
(* The theorems.                                                           *)
(***************************************************************************)

LEMMA InitInv == Init => IInv
<1> SUFFICES ASSUME Init PROVE IInv
  OBVIOUS
<1>1. pass.at = "idle" /\ agents = [a \in Agents |-> NoAgent]
      /\ objects = [a \in Agents |-> {}] /\ binding.subjects = {}
  BY DEF Init, NoPass
<1>2. ~Running
  BY <1>1 DEF Running
<1>3. \A a \in Agents : ~agents[a].there
  BY <1>1 DEF NoAgent
<1>4. Subjects(agents) = {}
  BY <1>3 DEF Subjects
<1>5. ListedTold /\ ObjectsTold
  BY DEF Init, ListedTold, ObjectsTold
<1>6. PassCurrent /\ PassOfMissing /\ ObjectsDealtWith
  BY <1>2 DEF PassCurrent, PassOfMissing, ObjectsDealtWith
<1>7. ObjectsInv
  BY <1>3 DEF ObjectsInv
<1>8. SubjectsInv
  BY <1>1, <1>4 DEF SubjectsInv
<1> QED
  BY <1>5, <1>6, <1>7, <1>8, InitTypeOK DEF IInv

LEMMA NextInv == IInv /\ [Next]_vars => IInv'
<1> SUFFICES ASSUME IInv, [Next]_vars PROVE IInv'
  OBVIOUS
<1>1. /\ TypeOK /\ ListedTold /\ ObjectsTold /\ PassCurrent /\ PassOfMissing
      /\ ObjectsDealtWith /\ ObjectsInv /\ SubjectsInv
  BY DEF IInv
<1> QED
  BY <1>1, NextTypeOK, ToldStep, PassCurrentStep, DealtWithStep, ObjectsStep, SubjectsStep
  DEF IInv

\* Whatever is not settled is told of by an event, by the queue, or by the pass
\* that is running: the inductive invariant, for any agents, kinds and bound.
THEOREM ConnectivityInvariance == Spec => []IInv
<1> QED
  BY InitInv, NextInv, PTL DEF Spec

\* Every variable keeps its type, the pass in memory and the caches included.
THEOREM ConnectivityTypeCorrect == Spec => []TypeOK
<1>1. IInv => TypeOK
  BY DEF IInv
<1> QED
  BY <1>1, ConnectivityInvariance, PTL

\* Once nothing is left to do, the shared binding has the agents on the direct path
\* for its subjects, unless a late cache or the chart hid it
\* (reconcileNodeReaderSubjects).
THEOREM SharedSubjectsSettle == Spec => []SubjectsSettled
<1>1. IInv => SubjectsSettled
  BY DEF IInv, SubjectsInv, AllHeard, SubjectsSettled, Quiet
<1> QED
  BY <1>1, ConnectivityInvariance, PTL

\* Once nothing is left to do, an agent owns the objects of the direct path exactly
\* if it asks for it, although a pass prunes only what its cache shows it
\* (deleteOwnedIfExists).
THEOREM OwnedObjectsSettle == Spec => []ObjectsSettled
<1>1. IInv => ObjectsSettled
  <2> SUFFICES ASSUME IInv, Quiet, NEW a \in Agents
               PROVE  objects[a] = IF agents[a].there /\ agents[a].path = "auto"
                                   THEN Kinds ELSE {}
    BY DEF ObjectsSettled
  <2>1. CASE ~agents[a].there
    BY <2>1 DEF Quiet
  <2>2. CASE agents[a].there
    BY <2>2 DEF IInv, ObjectsInv, Quiet, Unasked, Serving, Running, Wanted
  <2> QED
    BY <2>1, <2>2
<1> QED
  BY <1>1, ConnectivityInvariance, PTL
=============================================================================
