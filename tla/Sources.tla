------------------------------- MODULE Sources -------------------------------
(***************************************************************************)
(* The source layer: three controllers that turn annotated Services,       *)
(* Gateways and HTTPRoutes into entries of TowonelAgents, each source       *)
(* under a field manager of its own (server-side apply without force).     *)
(*                                                                         *)
(* Each controller has one worker.  Sources, tunnels and agents are read    *)
(* from informers.  Nobody reads sources and tunnels any other way, so      *)
(* these variables are what the informers have, and a change is the moment *)
(* the informer delivers it, together with its events.  Agents the          *)
(* controllers write themselves: agents is what the API server has, cache   *)
(* what the informer has.                                                  *)
(*                                                                         *)
(* An informer may be late, but tells every change of an agent that the     *)
(* watches let through: news are the agents it has yet to tell of.          *)
(*                                                                         *)
(* Abstractions: a cached read is made in the step of the call before it;  *)
(* Events and the advice about several agents are left out, and so is what *)
(* an agent's spec has besides mode, tunnelRef and entries; entries a user *)
(* writes are applied server-side too, without force; a list that replaces  *)
(* a broken watch, and may merge changes, is left out.                      *)
(***************************************************************************)
EXTENDS SourceRouting

CONSTANTS
    Agents,          \* names [ns, name] a TowonelAgent may have
    Manifests,       \* [Sources -> the objects users may write]
    Origins,         \* [references to a proxy Service -> what each may come to]
    UserSpecs,       \* [Agents -> what users may write there: mode, tunnel, entries]
    InitialWorlds,   \* [objects, proxies, tunnels, agents] there may be at the start
    User,            \* the field manager of users
    MaxEdits,        \* bound: changes by users
    MaxRestarts,     \* bound: restarts of the operator
    MaxFaults,       \* bound: calls that are refused or whose answer is lost
    MaxEvents        \* bound: all of these together

ASSUME BoundAssumption == {MaxEdits, MaxRestarts, MaxFaults, MaxEvents} \subseteq Nat
ASSUME AgentsAssumption == {DefaultAgent(t) : t \in Tunnels} \subseteq Agents
ASSUME NamesAssumption == /\ User \notin Sources
                          /\ Sources \cap Agents = {}
                          /\ None \notin Sources /\ None \notin Agents /\ None \notin Tunnels
                          /\ ~Truthy(None)

VARIABLES
    objects,  \* of each source, its manifest, or None
    proxies,  \* of each reference to a proxy Service, the origin it comes to, or None
    tunnels,  \* the TowonelTunnels there are
    agents,   \* the TowonelAgents
    cache,    \* the same, as the informer has them
    news,     \* agents with a change under way to the controllers
    queue,    \* sources in the work queues
    pass,     \* of each controller, what its running pass holds in memory
    budget,   \* how much of each bound is used
    unheard   \* history: sources and agents for which something happened that
              \* no watch event tells of (see Unheard below)

worldVars == <<objects, proxies, tunnels>>
agentVars == <<agents, news>>
vars == <<worldVars, agentVars, cache, queue, pass, budget, unheard>>

Owners == Sources \cup {User}
Kinds == {"Service", "Gateway", "HTTPRoute"}
KindOf(s) == IF s \in Services THEN "Service"
             ELSE IF s \in Gateways THEN "Gateway" ELSE "HTTPRoute"

\* auto: created by the operator, with its label and annotation; user: written
\* by a user; ghost: made by a server-side apply of an object without a spec.
\* owned is managedFields: of each manager, the entries it applied.
NoAgent == [kind |-> "absent", mode |-> "Managed", tunnel |-> None,
            owned |-> [o \in Owners |-> {}]]
AutoAgent(tunnel) == [NoAgent EXCEPT !.kind = "auto", !.tunnel = tunnel]
Ghost == [NoAgent EXCEPT !.kind = "ghost"]

\* The entries in the spec.
Entries(agent) == UNION {agent.owned[o] : o \in Owners}

Steps == {"idle", "create", "apply", "release", "collect", "delete"}
NoPass == [at |-> "idle", source |-> None, tunnel |-> None, target |-> None,
           routing |-> <<>>, todo |-> {}, leaving |-> FALSE, intact |-> FALSE]

IsAgent(agent) ==
    /\ agent \in [kind : {"absent", "auto", "user", "ghost"}, mode : {"Managed", "ObserveOnly"},
                  tunnel : Tunnels \cup {None}, owned : {agent.owned}]
    /\ DOMAIN agent.owned = Owners
    /\ agent.kind \in {"absent", "ghost"} => agent \in {NoAgent, Ghost}

IsPass(p) ==
    p \in [at : Steps, source : Sources \cup {None}, tunnel : Tunnels \cup {None},
           target : Agents \cup {None}, routing : {p.routing}, todo : SUBSET Agents,
           leaving : BOOLEAN, intact : BOOLEAN]

WorldOK(objs, origins, tuns, store) ==
    /\ DOMAIN objs = Sources /\ \A s \in Sources : objs[s] \in Manifests[s] \cup {None}
    /\ DOMAIN origins = DOMAIN Origins /\ \A p \in DOMAIN Origins : origins[p] \in Origins[p]
    /\ tuns \subseteq Tunnels
    /\ DOMAIN store = Agents /\ \A a \in Agents : IsAgent(store[a])

\* What users may write names agents and tunnels the model has.
ASSUME WorldsAssumption ==
    \A w \in InitialWorlds : WorldOK(w.objects, w.proxies, w.tunnels, w.agents)
ASSUME ManifestsAssumption ==
    \A s \in Sources : \A m \in Manifests[s] :
        /\ m.tunnelRef = None \/ ParseTunnelRef(m.tunnelRef, NamespaceOf[s]) \in Tunnels \cup {Malformed}
        /\ s \in Routes => m.parents \subseteq Gateways
        /\ s \in Services => IsFiniteSet(m.scoped)
        /\ s \in Gateways \ Services => m.listeners \in Seq(ToSet(m.listeners))
        /\ s \in Routes \ (Services \cup Gateways) => m.hosts \in Seq(ToSet(m.hosts))
ASSUME UserSpecsAssumption ==
    \A a \in Agents : \A u \in UserSpecs[a] :
        u.mode \in {"Managed", "ObserveOnly"} /\ u.tunnel \in Tunnels \cup {None}

\* What an earlier operator left and nothing tells this one of.
LeftBehind(told) ==
    {s \in Sources \ told : \E a \in Agents : agents[a].owned[s] # {}}
    \cup {a \in Agents : agents[a].kind = "auto" /\ Entries(agents[a]) = {}}

TypeOK ==
    /\ WorldOK(objects, proxies, tunnels, agents) /\ WorldOK(objects, proxies, tunnels, cache)
    /\ queue \subseteq Sources /\ news \subseteq Agents
    /\ DOMAIN pass = Kinds
    /\ \A k \in Kinds :
           /\ IsPass(pass[k])
           /\ pass[k].at = "idle" => pass[k] = NoPass
           /\ pass[k].at # "idle" => pass[k].source # None /\ KindOf(pass[k].source) = k
    /\ budget \in [edits : Nat, restarts : Nat, faults : Nat]
    /\ unheard \subseteq Sources \cup Agents

Init ==
    /\ \E w \in InitialWorlds : /\ objects = w.objects /\ proxies = w.proxies
                                /\ tunnels = w.tunnels /\ agents = w.agents
    /\ cache = agents /\ news = {}
    /\ queue = {s \in Sources : Admits(s, objects[s])}
    /\ pass = [k \in Kinds |-> NoPass]
    /\ budget = [edits |-> 0, restarts |-> 0, faults |-> 0]
    /\ unheard = LeftBehind(queue)

----------------------------------------------------------------------------
(* What Reconcile decides from the informers.                              *)

OptedIn(s) ==
    /\ objects[s] # None
    /\ IF s \in Routes /\ objects[s].tunnel = None
       THEN AutoSelectedByGateway(s, objects[s], objects)
       ELSE Truthy(objects[s].tunnel)

TunnelOf(s) == ResolveTunnel(objects[s], NamespaceOf[s], tunnels)

RoutingOf(s) ==
    LET m == objects[s]
        derived == IF s \in Services THEN DeriveServiceRouting(s, m)
                   ELSE IF s \in Gateways THEN DeriveGatewayRouting(m, proxies)
                   ELSE DeriveHTTPRouteRouting(m, objects, proxies)
    IN IF derived = None THEN None ELSE ApplyDNSRecordAnnotation(derived, m.dns)

\* Reconcile ends with an Event and without touching any agent.
Halts(s) == OptedIn(s) /\ (TunnelOf(s) = None \/ RoutingOf(s) = None)

\* The agent to write to, or None: the operator's default agent unless a user's
\* has its name; a named agent if it is managed and bound to this tunnel.  The mode
\* and the tunnel of a default agent are not looked at.
WriteTarget(s, tunnel, store) ==
    LET a == TargetAgent(objects[s], tunnel)
        writable == IF objects[s].agentRef = None THEN store[a].kind = "auto"
                    ELSE /\ store[a].kind # "absent"
                         /\ store[a].mode = "Managed"
                         /\ store[a].tunnel = tunnel
    IN IF a \in Agents /\ writable THEN a ELSE None

----------------------------------------------------------------------------
(* Frames.                                                                 *)

\* The object of agent a is written: a delete with an earlier resourceVersion
\* will be refused.
WithoutPrecondition(a, passes) ==
    [k \in Kinds |-> IF passes[k].at = "delete" /\ passes[k].target = a
                     THEN [passes[k] EXCEPT !.intact = FALSE] ELSE passes[k]]

\* What crossWatchPredicate lets through: annotations and labels (kind), spec.
Watched(agent) == <<agent.kind, agent.mode, agent.tunnel, Entries(agent)>>

SetAgent(a, new, passes) ==
    /\ agents' = [agents EXCEPT ![a] = new]
    /\ news' = IF Watched(new) = Watched(agents[a]) THEN news ELSE news \cup {a}
    /\ pass' = IF new = agents[a] THEN passes ELSE WithoutPrecondition(a, passes)

\* Variant: a pass that ends keeps what it held.
EndsHolding(k) == [pass EXCEPT ![k].at = "idle"]
Ends(k) == [pass EXCEPT ![k] = NoPass]
Becomes(k, p) == [pass EXCEPT ![k] = p]

\* An error: the source is queued again, with back-off.
Fails(k) == queue' = queue \cup {pass[k].source} /\ UNCHANGED <<cache, worldVars, unheard>>

Spend(what) ==
    /\ budget.edits + budget.restarts + budget.faults < MaxEvents
    /\ budget[what] < (CASE what = "edits" -> MaxEdits
                         [] what = "restarts" -> MaxRestarts
                         [] what = "faults" -> MaxFaults)
    /\ budget' = [budget EXCEPT ![what] = @ + 1]

\* A call fails: before it had its effect, or after.
Refused(k) == Spend("faults") /\ Fails(k) /\ pass' = Ends(k) /\ UNCHANGED agentVars
AnswerLost(k, a, new) == Spend("faults") /\ Fails(k) /\ SetAgent(a, new, Ends(k))

----------------------------------------------------------------------------
(* The steps of a pass.                                                    *)

\* The agents left to collect: the list of the labelled ones, from the informer.
Collecting(p) ==
    LET listed == {a \in Agents : cache[a].kind = "auto"}
    IN IF listed = {} THEN NoPass
       ELSE [p EXCEPT !.at = "collect", !.todo = listed, !.target = None]

Releasing(p, todo) ==
    IF todo # {} THEN [p EXCEPT !.at = "release", !.todo = todo]
    ELSE IF p.leaving THEN Collecting(p) ELSE NoPass

\* Variant: keep is not looked at.
AllAgents(keep) == Agents
Others(keep) == Agents \ {keep}

\* releaseFromOtherAgents: the list of the agents the source owns entries of,
\* from the informer.
ReleaseOthers(p, keep) ==
    Releasing([p EXCEPT !.target = keep],
              {a \in Others(keep) : cache[a].owned[p.source] # {}})

\* What the lists of a pass that goes on as p miss: the source's own entries, and
\* agents to collect.
Missed(p, keep) ==
    {s \in {p.source} \ {None} :
        \E a \in Agents \ {keep} : agents[a].owned[s] # {} /\ cache[a].owned[s] = {}}
    \cup {a \in Agents : p.leaving /\ agents[a].kind = "auto" /\ cache[a].kind # "auto"}

\* Reconcile up to the first call that changes something: opt-in, tunnel,
\* routing, and the read of the agent.
StartPass(k) ==
    /\ pass[k].at = "idle"
    /\ \E s \in queue :
        LET begun == [NoPass EXCEPT !.source = s]
            leaving == [begun EXCEPT !.leaving = TRUE]
            tunnel == TunnelOf(s)
            resolved == [begun EXCEPT !.tunnel = tunnel, !.routing = RoutingOf(s)]
            target == WriteTarget(s, tunnel, cache)
            missing == /\ objects[s].agentRef = None
                       /\ cache[DefaultAgent(tunnel)].kind = "absent"
        IN /\ KindOf(s) = k
           /\ queue' = queue \ {s}
           /\ \/ /\ ~OptedIn(s)
                 /\ pass' = Becomes(k, ReleaseOthers(leaving, None))
                 /\ unheard' = (unheard \ {s}) \cup Missed(leaving, None)
              \/ /\ Halts(s)
                 /\ unheard' = unheard \ {s}
                 /\ UNCHANGED pass
              \/ /\ OptedIn(s) /\ ~Halts(s)
                 /\ \/ /\ target # None
                       /\ pass' = Becomes(k, [resolved EXCEPT !.at = "apply", !.target = target])
                       /\ unheard' = unheard \ {s}
                    \/ /\ missing
                       /\ pass' = Becomes(k, [resolved EXCEPT !.at = "create"])
                       /\ unheard' = unheard \ {s}
                    \/ /\ target = None /\ ~missing     \* skipped, or observed only
                       /\ pass' = Becomes(k, ReleaseOthers(resolved, None))
                       /\ unheard' = (unheard \ {s}) \cup Missed(begun, None)
    /\ UNCHANGED <<worldVars, agentVars, cache, budget>>

\* ensureDefaultAgent: Create.  When it lost the race, it reads the informer.
CreateDefaultAgent(k) ==
    LET p == pass[k]
        a == DefaultAgent(p.tunnel)
        found == [p EXCEPT !.at = "apply", !.target = a]
    IN /\ p.at = "create"
       /\ \/ /\ agents[a].kind = "absent"
             /\ SetAgent(a, AutoAgent(p.tunnel), Becomes(k, found))
             /\ UNCHANGED <<worldVars, cache, queue, budget, unheard>>
          \/ /\ agents[a].kind # "absent"
             /\ UNCHANGED <<agentVars, budget>>
             /\ \/ /\ cache[a].kind = "absent"
                   /\ Fails(k)
                   /\ pass' = Ends(k)
                \/ /\ cache[a].kind = "auto"
                   /\ pass' = Becomes(k, found)
                   /\ UNCHANGED <<worldVars, cache, queue, unheard>>
                \/ /\ cache[a].kind \in {"user", "ghost"}
                   /\ pass' = Becomes(k, ReleaseOthers(p, None))
                   /\ unheard' = unheard \cup Missed(p, None)
                   /\ UNCHANGED <<worldVars, cache, queue>>
          \/ Refused(k)
          \/ agents[a].kind = "absent" /\ AnswerLost(k, a, AutoAgent(p.tunnel))

\* A conflict is not retried: only a user can resolve it.
\* Variant: it is an error like others.
Retried(s) == {s}
RetriedAfterConflict(s) == {}

\* contributeRouting.  The entries the source applied before and does not apply
\* now go with it.  An agent without a tunnelRef is invalid with a spec.
ApplyRouting(k) ==
    LET p == pass[k]
        s == p.source
        a == p.target
        new == [agents[a] EXCEPT !.owned[s] = ToSet(p.routing)]
        invalid == agents[a].kind \in {"absent", "ghost"} \/ RepeatsKey(p.routing)
        conflict == \E o \in Owners \ {s} : \E e \in agents[a].owned[o] :
                        \E i \in DOMAIN p.routing : Conflicting(e, p.routing[i])
    IN /\ p.at = "apply"
       /\ \/ /\ invalid
             /\ Fails(k)
             /\ pass' = Ends(k)
             /\ UNCHANGED <<agentVars, budget>>
          \/ /\ ~invalid /\ conflict
             /\ pass' = Ends(k)
             /\ queue' = queue \cup RetriedAfterConflict(s)
             /\ unheard' = unheard \cup {s}
             /\ UNCHANGED <<worldVars, agentVars, cache, budget>>
          \/ /\ ~invalid /\ ~conflict
             /\ SetAgent(a, new, Becomes(k, ReleaseOthers(p, a)))
             /\ unheard' = unheard \cup Missed(p, a)
             /\ UNCHANGED <<worldVars, cache, queue, budget>>
          \/ Refused(k)
          \/ ~invalid /\ ~conflict /\ AnswerLost(k, a, new)

\* releaseRouting: an apply without a spec.  Applied to an agent that is gone, it
\* makes one.
ReleaseRouting(k) ==
    LET p == pass[k]
    IN /\ p.at = "release"
       /\ \E a \in p.todo :
            LET new == IF agents[a].kind = "absent" THEN Ghost
                       ELSE [agents[a] EXCEPT !.owned[p.source] = {}]
            IN \/ /\ SetAgent(a, new, Becomes(k, Releasing(p, p.todo \ {a})))
                  /\ unheard' = unheard \cup (Missed(p, p.target) \cap Agents)
                  /\ UNCHANGED <<worldVars, cache, queue, budget>>
               \/ Refused(k)
               \/ AnswerLost(k, a, new)

Collected(p, a) ==
    IF p.todo = {a} \/ p.todo = {} THEN NoPass
    ELSE [p EXCEPT !.at = "collect", !.todo = @ \ {a}, !.target = None, !.intact = FALSE]

\* orphanGCIfEmpty decides from the API server.
\* Variant: from the informer.
CachedView(a) == cache[a]
OrphanView(a) == agents[a]

ReadOrphan(k) ==
    LET p == pass[k]
    IN /\ p.at = "collect"
       /\ \/ \E a \in p.todo :
               LET orphan == OrphanView(a).kind = "auto" /\ Entries(OrphanView(a)) = {}
               IN /\ pass' = Becomes(k, IF orphan
                                        THEN [p EXCEPT !.at = "delete", !.target = a,
                                                       !.todo = @ \ {a}, !.intact = TRUE]
                                        ELSE Collected(p, a))
                  /\ unheard' = unheard \ {a}
                  /\ UNCHANGED <<worldVars, agentVars, cache, queue, budget>>
          \/ Refused(k)

\* Variant: Delete without a resourceVersion.
Unconditional(p) == TRUE
PreconditionHolds(p) == p.intact

\* orphanGCIfEmpty: Delete, with the resourceVersion read.  A conflict is let go.
DeleteOrphan(k) ==
    LET p == pass[k]
        a == p.target
    IN /\ p.at = "delete"
       /\ \/ /\ PreconditionHolds(p)
             /\ SetAgent(a, NoAgent, Becomes(k, Collected(p, a)))
             /\ UNCHANGED <<worldVars, cache, queue, budget, unheard>>
          \/ /\ ~PreconditionHolds(p)
             /\ pass' = Becomes(k, Collected(p, a))
             /\ unheard' = unheard \cup {a}
             /\ UNCHANGED <<worldVars, agentVars, cache, queue, budget>>
          \/ Refused(k)
          \/ PreconditionHolds(p) /\ AnswerLost(k, a, NoAgent)

PassStep(k) ==
    \/ StartPass(k) \/ CreateDefaultAgent(k) \/ ApplyRouting(k)
    \/ ReleaseRouting(k) \/ ReadOrphan(k) \/ DeleteOrphan(k)

----------------------------------------------------------------------------
(* The informers, users, the agent reconciler, restarts.                   *)

\* The sources that resolve to agent a, of which no event of a tells.
NotToldOf(a) ==
    {s \in Sources :
        /\ OptedIn(s) /\ ~Halts(s)
        /\ TargetAgent(objects[s], TunnelOf(s)) = a
        /\ s \notin AgentSourceRequests(objects, a)}

\* Whether resolveTarget may answer otherwise for a source that names its agent, or
\* for one that does not.
Differs(old, new) == <<old.kind, old.mode, old.tunnel>> # <<new.kind, new.mode, new.tunnel>>
Foreign(old, new) == {old.kind, new.kind} \cap {"user", "ghost"} # {}

\* The informer catches up with an agent.
HasNews(a) == cache[a] # agents[a] \/ a \in news
SyncAgent(a) ==
    /\ HasNews(a)
    /\ cache' = [cache EXCEPT ![a] = agents[a]]
    /\ news' = news \ {a}
    /\ queue' = IF a \in news THEN queue \cup AgentSourceRequests(objects, a) ELSE queue
    /\ unheard' = unheard \cup
                     {s \in NotToldOf(a) : /\ Differs(cache[a], agents[a])
                                          /\ \/ objects[s].agentRef # None
                                             \/ Foreign(cache[a], agents[a])}
    /\ UNCHANGED <<worldVars, agents, pass, budget>>

\* A user creates, changes or deletes a source.  The event of a Gateway goes to
\* its routes as well.
EditSource(s) ==
    /\ Spend("edits")
    /\ \E m \in (Manifests[s] \cup {None}) \ {objects[s]} :
        /\ objects' = [objects EXCEPT ![s] = m]
        /\ queue' = queue
               \cup {x \in {s} : Admits(x, objects[x]) \/ Admits(x, m)}
               \cup (IF s \in Gateways THEN RoutesForGateway(objects, s) ELSE {})
    /\ UNCHANGED <<proxies, tunnels, agentVars, cache, pass, unheard>>

EditTunnel(t) ==
    /\ Spend("edits")
    /\ tunnels' = IF t \in tunnels THEN tunnels \ {t} ELSE tunnels \cup {t}
    /\ queue' = queue \cup TunnelSourceRequests(objects, t)
    /\ UNCHANGED <<objects, proxies, agentVars, cache, pass, unheard>>

\* A proxy Service of a Gateway changes: it is not watched.
EditProxy(ref) ==
    /\ Spend("edits")
    /\ \E origin \in Origins[ref] \ {proxies[ref]} :
        proxies' = [proxies EXCEPT ![ref] = origin]
    /\ UNCHANGED <<objects, tunnels, agentVars, cache, queue, pass>>
    /\ unheard' = unheard \cup {s \in Sources : OptedIn(s) /\ RoutingOf(s)' # RoutingOf(s)}

\* A user creates or changes an agent; refused if another manager's entries differ.
WriteAgent(a) ==
    /\ Spend("edits")
    /\ \E u \in UserSpecs[a] :
        /\ ~ \E s \in Sources : \E e \in agents[a].owned[s] : \E f \in u.entries : Conflicting(e, f)
        /\ LET new == [kind |-> IF agents[a].kind = "auto" THEN "auto" ELSE "user",
                       mode |-> u.mode, tunnel |-> u.tunnel,
                       owned |-> [agents[a].owned EXCEPT ![User] = u.entries]]
           IN /\ new # agents[a]
              /\ SetAgent(a, new, pass)
              /\ unheard' = unheard \cup NotToldOf(a)
                               \cup (IF Entries(new) = {} THEN {a} ELSE {})
    /\ UNCHANGED <<worldVars, cache, queue>>

DeleteAgent(a) ==
    /\ Spend("edits")
    /\ agents[a].kind # "absent"
    /\ SetAgent(a, NoAgent, pass)
    /\ unheard' = unheard \cup NotToldOf(a)
                     \cup ({pass[k].source : k \in {c \in Kinds : pass[c].target = a}} \ {None})
    /\ UNCHANGED <<worldVars, cache, queue>>

\* The agent reconciler writes the status: only the resourceVersion changes.
WriteAgentStatus(a) ==
    /\ pass' = WithoutPrecondition(a, pass)
    /\ pass' # pass
    /\ UNCHANGED <<worldVars, agentVars, cache, queue, budget, unheard>>

\* The operator restarts; a user may change a source meanwhile.  The queues get
\* what the predicates admit of the objects listed.
Restart ==
    /\ Spend("restarts")
    /\ \/ UNCHANGED objects
       \/ \E s \in Sources : \E m \in (Manifests[s] \cup {None}) \ {objects[s]} :
              objects' = [objects EXCEPT ![s] = m]
    /\ cache' = agents /\ news' = {}
    /\ queue' = {s \in Sources : Admits(s, objects'[s])}
    /\ pass' = [k \in Kinds |-> NoPass]
    /\ unheard' = unheard \cup (({s \in Sources : objects'[s] # objects[s]} \cup queue
                                 \cup {pass[k].source : k \in Kinds}) \ (queue' \cup {None}))
    /\ UNCHANGED <<proxies, tunnels, agents>>

Next ==
    \/ \E k \in Kinds : PassStep(k)
    \/ \E a \in Agents : SyncAgent(a) \/ WriteAgent(a) \/ DeleteAgent(a) \/ WriteAgentStatus(a)
    \/ \E s \in Sources : EditSource(s)
    \/ \E t \in Tunnels : EditTunnel(t)
    \/ \E ref \in DOMAIN Origins : EditProxy(ref)
    \/ Restart

Spec == Init /\ [][Next]_vars

\* The work queues hold a source after every error, and each controller has a
\* worker; informers catch up, one after the other.  This is
\*     (\A k \in Kinds : WF_vars(PassStep(k))) /\ WF_vars(\E a \in Agents : SyncAgent(a))
\* with the two ENABLED spelled out: TLC takes three times as long to find them.
HasWork(k) == pass[k].at # "idle" \/ \E s \in queue : KindOf(s) = k
FairSpec ==
    /\ Spec
    /\ \A k \in Kinds : []<>(~HasWork(k)) \/ []<><<PassStep(k)>>_vars
    /\ []<>(\A a \in Agents : ~HasNews(a)) \/ []<><<\E a \in Agents : SyncAgent(a)>>_vars

----------------------------------------------------------------------------
(* Unheard: what nobody tells the controllers, each a limit of the code.   *)
(*  - a proxy Service of a Gateway changes (EditProxy);                    *)
(*  - an agent is written or deleted by a user, and the source resolves to  *)
(*    it without naming both it and its tunnel (NotToldOf), or is in a pass *)
(*    that writes to it (DeleteAgent);                                      *)
(*  - the list of agents missed one, being late (Missed);                   *)
(*  - the entry is another manager's, which may give it up (ApplyRouting);  *)
(*  - a source was deleted or lost its annotation while the operator was    *)
(*    down, or with its pass still to come (Restart);                       *)
(*  - an orphan's deletion met a conflict (DeleteOrphan), or its last entry *)
(*    was a user's (WriteAgent);                                            *)
(*  - an earlier operator left it (LeftBehind).                             *)
(* A source is heard again when its next pass starts.                       *)

CaughtUp == cache = agents /\ news = {}
Quiet == queue = {} /\ (\A k \in Kinds : pass[k].at = "idle") /\ CaughtUp

\* Nothing is left to do for source s, whatever there is for others.
Rests(s) == s \notin queue /\ (\A k \in Kinds : pass[k].source # s) /\ CaughtUp

\* The agent with the entries of s would be invalid: they repeat a key.  Every apply
\* is refused and tried again, until a user changes the source.
Unacceptable(s) == OptedIn(s) /\ ~Halts(s) /\ RepeatsKey(RoutingOf(s))

\* The entries agent a should have of source s.
Asked(s, a) ==
    IF OptedIn(s) /\ WriteTarget(s, TunnelOf(s), agents) = a THEN ToSet(RoutingOf(s)) ELSE {}

\* Whatever users did in whatever order, and whatever failed: once nothing is
\* left to do for a source, it has exactly the entries it asks for, at the agent it
\* resolves to and at no other; opted out or deleted it has none.  Only what the
\* controllers cannot hear of is excused, and a source that resolves to no
\* tunnel or no routing (it keeps what it had).
\* What a source asks for is what the code takes it to ask for, which is more than
\* the documentation says: entries of a default agent that a user made ObserveOnly
\* (against docs/crd-towonelagent.md:17), and the raw exposure of a port whose
\* annotation is "false" (against docs/source-layer.md:38).
SourcesSettled ==
    \A s \in Sources \ unheard :
        Rests(s) /\ ~Halts(s) =>
            /\ \A a \in Agents : agents[a].owned[s] = Asked(s, a)
            /\ OptedIn(s) /\ objects[s].agentRef = None =>
                   agents[DefaultAgent(TunnelOf(s))].kind # "absent"

\* The last one out turns off the light: when no source takes part any more and
\* nothing is left to do, no agent the operator created stays without entries.
OrphansCollected ==
    Quiet /\ (\A s \in Sources : ~OptedIn(s) /\ s \notin unheard) =>
        \A a \in Agents \ unheard : agents[a].kind = "auto" => Entries(agents[a]) # {}

\* Nobody but its own pass takes an entry from a source or from a user, short of
\* a user who deletes the agent: no other source's apply, no collection of an
\* agent that was read before the entry came.
RoutingKept ==
    [][\A a \in Agents, o \in Owners :
          ~(agents[a].owned[o] \subseteq agents'[a].owned[o]) =>
              \/ budget'.edits # budget.edits
              \/ \E k \in Kinds : pass[k].source = o /\ pass[k].at \in {"apply", "release"}]_vars

\* A source that takes part is served throughout, also while it moves from one
\* agent to another: only a pass that found no agent to write to, or was told to
\* leave, takes the last of its entries.
ServedThroughout ==
    [][\A s \in Sources :
          (\E a \in Agents : agents[a].owned[s] # {}) /\ (\A a \in Agents : agents'[a].owned[s] = {}) =>
              \/ budget'.edits # budget.edits \/ s \in unheard
              \/ \E k \in Kinds : /\ pass[k].source = s
                                  /\ pass[k].at = "release" /\ pass[k].target = None]_vars

\* The controllers come to rest: a source is tried again for ever only while the
\* apply of its entries would be invalid (deriveHTTPRouteRouting keeps a hostname
\* that is listed twice), and such a one keeps no other from its rest.
ComesToRest == <>[](CaughtUp /\ \A s \in Sources : Rests(s) \/ Unacceptable(s))

\* "NotFound (agent gone) is a no-op" (source_contribute.go:90): releasing never
\* creates an agent.
ReleaseCreatesNothing == \A a \in Agents : agents[a].kind # "ghost"
==============================================================================
