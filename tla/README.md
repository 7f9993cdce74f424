# TLA+ models of the towonel operator

The operator (Go, controller-runtime) keeps, for each `TowonelTunnel`, an invite
at the towonel hub with the hostnames and public ports its `TowonelAgent`s ask
for, keeps the invite's token in a Secret, publishes the hostnames as
`DNSEndpoint`s, and runs for each `TowonelAgent` a Deployment that serves the
tunnel. A source layer turns annotated Services, Gateways and HTTPRoutes into
entries of agents. Paths below are relative to the repository; controller files
are in `internal/controller/`.

## 1. Inventory

### 1.1 Components

| component | state it keeps | operations | model |
|---|---|---|---|
| tunnel reconciler `towoneltunnel_controller.go`, `_invite`, `_secret`, `_dns`, `_status`, `_delete` | `TowonelTunnel.status` (invite id, authorized hostnames, records, conditions), its finalizer; the token Secret; the DNSEndpoints; memory of one pass | `Reconcile`, `resolveAPIKey`, `ensureInvite`, `ensureTokenSecret`, `convergeHostnames`, `reconcileDNS`, `sweepOwnedDNSEndpoints`, `writeStatus`, `fail`, `reconcileDelete` | `TowonelTunnel` |
| public ports `towoneltunnel_ports.go`, `releasePorts` | `status.allocatedPorts`, condition PortsReserved | `desiredPorts`, `convergePorts` (list, adopt, reserve, prune), `releasePorts` | `TunnelPorts` |
| hub (outside; `internal/towonel/towoneltest/hub.go` is the repository's fake) | invites with status and hostnames; sockets with owner and label | create, list, get, delete invite; add, remove hostname; list, reserve, release port | environment of both modules |
| hub client `internal/towonel` | none | one HTTP request per call, a deadline, error classes (404, 409 `hostname_conflict`, 429) | the answers of each hub step |
| agent reconciler `towonelagent_controller.go`, `_secret`, `_deploy`, `_status` | `TowonelAgent.status`, the copied Secret, the Deployment | `Reconcile`, `readTunnelToken`, `ensureAgentSecret`, `renderConfig`, `checkAgentUnchanged`, `checkTunnelUnchanged`, `ensureDeployment`, `rollupAgentStatus`, `writeStatus` | `TowonelAgent` |
| agent connectivity `towonelagent_connectivity.go` | each agent's Service, Role, RoleBinding; the subjects of the shared ClusterRoleBinding; condition IrohConnectivityReady | `planConnectivity`, `ensureConnectivity`, `deleteOwnedIfExists`, `reconcileNodeReaderSubjects`, `setConnectivityCond` | `AgentConnectivity` |
| source layer `source_*.go`, `*_source_controller.go` | entries of agents under a field manager per source; auto-created agents (sources themselves are only read) | `applyContribution`, `releaseEverywhere`, `contributeRouting`, `releaseRouting`, `orphanGCIfEmpty`, `resolveTarget`, `ensureDefaultAgent` | `SourceRouting` (what is derived), `Sources` (the controllers) |
| region endpoints, rate limit, DNS edge targets, event deduplication | none, or a small cache | pure functions | not modelled (section 7) |
| manager, indexes, chart | none | start-up wiring, manifests | not modelled |

### 1.2 How they interact

* Each controller has one worker and the manager is leader elected
  (`cmd/manager/main.go`): there is **one running pass per controller**. Passes
  of different controllers, users, the garbage collector and the hub interleave
  at every API or hub call.
* The tunnel reconciler reads its tunnel and the list of agents **uncached**
  (`r.reader()`), the token Secret **from the informer's cache**.
* The agent reconciler reads its agent and tunnel **uncached**, twice each, and
  everything else (both token Secrets, the Deployment, the objects of the direct
  path, the ClusterRoleBinding, the list of agents) **from informers**, each of
  which may be late by itself. The ClusterRoleBinding is the chart's and not
  watched.
* Status is written with `Update`, which is refused when the object changed
  since it was read; Secrets, DNSEndpoints and Deployments with forced
  server-side apply, which is never refused for that reason.
* The tunnel's status and Secret are what the agent reconciler reads; the
  agents' spec (and the sources that write it) is what the tunnel reconciler
  reads.
* The three source controllers read sources, tunnels and agents **from
  informers**, write agents with unforced server-side apply, each source under a
  field manager of its own, and only the decision to delete an empty agent is
  read uncached.
* The hub is shared: another tenant may reserve a hostname or a socket, the
  administrator may revoke or delete an invite, another cluster may edit it.

### 1.3 What is hard here

A pass is ten to thirty calls, none of them transactional with another. The hub
hands out a token exactly once, and the pass may end before it is stored. What a
status write was refused for is forgotten. A lost answer is repeated. Deletion
must withdraw public records before it releases the names they point at, and
must do so under the policy the tunnel has at that moment. `PROJECT.json` lists
each hazard at its line.

### 1.4 What makes each component correct

* **Tunnel**: a pass nobody disturbs leaves hub, Secret and DNS as asked;
  nothing is published that the invite does not hold; a recorded invite is never
  exchanged; a Ready tunnel has the token of its invite; deletion withdraws,
  then releases, then drops the finalizer; left alone, it converges or the
  deletion completes.
* **Ports**: what is recorded is held; one socket per service and protocol; the
  public port is stable; deletion leaves none; left alone, requested = recorded.
* **Agent**: a Deployment is rendered only from a spec and a tunnel that were
  current together; the copied token is that of the invite it is annotated with;
  once nothing is left to do, Secret, Deployment and status are those of spec and
  tunnel and the pods run with the tunnel's token; what a deleted agent had goes.
* **Connectivity**: the shared binding has the subjects that need it and no
  others; an agent keeps no object it does not ask for; passes come to rest.
* **Sources**: once nothing is left to do, every source has exactly the entries
  it asks for, at the agent it resolves to; nobody takes another's entries, and
  no entry is lost to garbage collection; a move to another agent has no gap;
  emptied agents of the operator go; every source comes to rest unless its entries
  would make the agent invalid.

## 2. Plan

1. `TowonelTunnel` (done): the core. Everything else depends on its status,
   Secret and hub state.
2. `TunnelPorts` (done): the step `ConvergePorts` / `DeletePorts` of
   `TowonelTunnel` in full.
3. `TowonelTunnelProofs`, `TowonelTunnelTokenProofs` (done).
4. `TowonelAgent` (done): token gate, Secret copy, rechecks, Deployment, status,
   pods.
   `AgentConnectivity` (done): its step `Connect` in full, over all agents.
5. `SourceRouting`, `Sources` (done): derivation, field managers, cached lists,
   default agents, garbage collection, watch mappings.
6. `TunnelCustody` (done): the abstract specification of invites and records,
   implemented by `TowonelTunnel`; `TunnelCustodyProofs` proves it.
7. A ledger of sockets implemented by `TunnelPorts`.
8. `Operator`: tunnel and agent together, token down and ports back; liveness.
9. `TunnelPassProofs`, `TunnelPortsProofs`, `TowonelAgentProofs`,
   `AgentConnectivityProofs`, `SourcesProofs` (done): section 6.

## 3. The models

### 3.1 TowonelTunnel

One tunnel name (recreated up to `MaxTunnels` times). The variables:

| variable | in the code |
|---|---|
| `tt` | the `TowonelTunnel` object: phase (absent, live, deleting), finalizer, incarnation, spec, status |
| `services` | `spec.services` of all agents that reference it |
| `key` | whether `resolveAPIKey` finds a key |
| `secret`, `cached` | the token Secret (the invite its annotation names, the incarnation that owns it), and the informer's copy of it |
| `endpoints` | per namespace, the hostnames of the owned DNSEndpoint |
| `hub`, `foreign` | the invites of the tunnel's name; hostnames other tenants hold |
| `pass` | local variables of the running `Reconcile`: the spec and status it read, the token in hand, what is left to add and remove, `inviteView` (`confirmed`, `revoked`, `missing`) |
| `budget` | how much of each bound is used |
| `tokenAtRisk` | history: the Secret was deleted or the hub had two live invites of the name |

`pass.stale`, `pass.hubTouched` and `pass.disturbed` are bookkeeping: the object
changed since it was read (which is what a resourceVersion tells), somebody
touched the invites since GET, anybody did anything or a call failed.

The steps of a pass, in order: `StartPass` (uncached read), `AddFinalizer`,
`ListAgents` (key, agents, desired hostnames, opt-outs), `AdoptInvite`
(`ListInvites` by name), `CreateInvite`, `EnsureTokenSecret`, `GetInvite`,
`AddHostname`*, `RemoveHostname`*, `SweepDNSEndpoints`, `ApplyDNSEndpoint`,
`ConvergePorts`, `WriteStatus`; for a deletion `DeleteSweep`, `DeletePorts`,
`DeleteInvite`, `RemoveFinalizer`. Computation between two calls belongs to the
step before. Each call that can fail has a disjunct for its refusal and one for
its lost answer where the code tells them apart; `Crash` ends a pass anywhere
(a process that dies, or an error whose only effect is the end of the pass).

Others: `CreateTunnel`, `EditSpec`, `DeleteTunnel`, `EditServices`, `EditKey`,
`DeleteSecret` (users); `SyncCache`, `CollectSecret` (API server);
`RevokeInvite`, `LoseInvite`, `EditInvite`, `EditForeign` (hub).

Left out of it: expiry and invite re-issue hints, `regionEndpoints`, events,
messages, the order hostnames are sorted in, a cluster without the DNSEndpoint
CRD, a request that is executed after its deadline already failed the pass.

### 3.2 TunnelPorts

The ports of a tunnel that has its invite and finalizer and whose policy is
Delete. A socket is protocol and port; `hub` says who owns each (a service name
of this tunnel, which is what the label encodes, another tenant, nobody).
`StartPass` is `Reconcile` up to `convergePorts`, then `ListPorts` (adoption by
protocol and label), `ReservePort`*, `PrunePort`*, `WriteStatus`; for a deletion
`ReleaseRecorded`*, `ListLeaks`, `ReleaseLeaked`*, `DeleteInvite`,
`RemoveFinalizer`. `elapsed` is the part of the `DeleteInvite` deadline that
earlier calls used. Others: edits of services and of the tunnel object, its
deletion, another tenant that takes and gives up sockets.

History variables: `drift` (a pass released a recorded port and its status write
was lost) and `blind` (a `ListPorts` failed). They delimit where the properties
hold: see `PortsReservedHolds` and `OnePortPerName`. Not modelled: somebody else
releasing sockets of this tenant.

### 3.3 TowonelAgent

One agent name, recreated up to `MaxAgents` times, and the tunnels it may refer to.

| variable | in the code |
|---|---|
| `agent` | the `TowonelAgent` object: uid, generation, spec, status (phase, four conditions, `observedConfigHash`, `observedGeneration`) |
| `tunnels`, `tokens`, `tokenCache` | of each tunnel, the status fields the agent reads; whose token its Secret holds; the informer's copy of that |
| `issued`, `leftover` | the invites the hub handed out for each tunnel; the tunnels whose Secret is a predecessor's |
| `secret`, `deployment` and their caches | the agent's children: owner uid, annotation and data of the Secret, template and scale of the Deployment, whether it is available |
| `coming` | children whose event is still on its way from the informer |
| `pods` | the template and the token the pods were started with |
| `pass` | local variables of the running `Reconcile` |

The steps of a pass, in order: `StartPass`, `ReadTunnel` and `ReadToken`
(`readTunnelToken`), `EnsureSecret`, `Connect`, `CheckAgent`, `CheckTunnel`,
`EnsureDeployment`, `WriteStatus`. The gates and failures go to `WriteStatus`
directly; a failed recheck ends the pass and starts it anew. A pass is one attempt
inside `RetryOnConflict`: an attempt that meets a conflict keeps nothing.

A template stands for the config hash: what the hash is computed from. A
resourceVersion is a flag of the pass (`stale`, `moved`); `together` remembers
whether spec and tunnel were both current at the first recheck. Of a tunnel's
life only what an agent can see is here: a token is stored, in place of any other,
until an invite is recorded; the invite, new or adopted, with its token or without,
is recorded once (`InviteIsAuthority` of `TowonelTunnel`, proved in section 6);
ports are recorded; the tunnel is deleted and made anew while its predecessor's
Secret is still there (`leftover`), which the collector takes at any moment. Left out: the window in which an agent has a deletion timestamp,
requeue times, events, a failing JSON encoder. The deletion of an agent leaves
its children to the garbage collector, as in the code.

### 3.4 AgentConnectivity

All agents at once, since they share one ClusterRoleBinding (`binding`, and
`bindingCache`). `agents` is what the API server has, `listed` what the list of
`computeNodeReaderSubjects` sees, `news` and `coming` are the events on their way,
`objects` and `objectCache` what each agent owns, `usable` says whose tunnel
passes the gate. A pass is `StartPass`, `Gate`, `EnsureObject`*, `ObjectsDone`,
`ListAgents`, `Bind`, `WriteStatus`; of a missing agent only `ListAgents` and
`Bind`. `Paths` are the outcomes of `planConnectivity`. `Bind` is the whole
read-modify-write, which the resourceVersion makes one step: an update computed
from a late copy is refused. `blind` is history: a pass that was content with a
late copy, or a binding the chart installed anew, which nothing notices;
`SubjectsSettled` holds without them.

### 3.5 SourceRouting and Sources

`SourceRouting` holds the pure part: which sources take part (`tunnel`
annotation, or a parent Gateway's auto-routes), for which tunnel and agent, with
which entries, and which sources a watch event of an agent, tunnel or Gateway is
mapped to. `Sources` runs the controllers on it.

| variable | in the code |
|---|---|
| `objects`, `proxies`, `tunnels` | sources with their annotations, the origin a `gateway-service` reference comes to, the tunnels, all as the informers have them |
| `agents`, `cache` | the agents at the API server and in the informer: mode, tunnelRef, who created it, and per field manager the entries it applied (`managedFields`) |
| `news` | agents with an event under way: a change that `crossWatchPredicate` lets through, which the informer has yet to deliver |
| `queue`, `pass` | the work queues and the local variables of the pass of each controller |

The steps of a pass: `StartPass` (`Reconcile` up to the first write),
`CreateDefaultAgent`, `ApplyRouting`, `ReleaseRouting`*, and for a source that
opts out `ReadOrphan` and `DeleteOrphan` for each agent listed. An informer read
belongs to the step before it. An apply is answered (two managers may share an
entry that they agree on), refused as invalid (retried) or as a conflict (not
retried), fails, or its answer is lost. `intact` tells whether the
resourceVersion `orphanGCIfEmpty` read is still that of the agent. Others:
`EditSource`, `EditTunnel`, `EditProxy`, `WriteAgent`, `DeleteAgent` (users),
`WriteAgentStatus` (the agent reconciler, which only moves the resourceVersion),
`SyncAgent` (the informer catches up; the events, if any change since the last time
passed the predicate, are mapped to sources), `Restart`.

`unheard` is history: the sources and agents for which something happened that
no event tells the controllers of; a comment in the module lists the cases
with the action that notes each. `SourcesSettled` and `OrphansCollected` hold
without them; section 4 names them as limits. Left out: Events, the advice about
several agents, `edgeTLSMode`, a cluster without the Gateway API, and a watch that
breaks and comes back with a list, which may merge a deletion and a creation into
one update. `errOrphanInFlight` has no step: a source's manager is on an agent only
with entries (a derived routing is never empty, a release leaves no `managedFields`),
so `orphanGCIfEmpty` has returned before it asks.

### 3.6 TunnelCustody

What a tunnel promises about the things it has outside the cluster's object
store, with no pass, cache, retry or crash in sight: invites and records are
acquired under the finalizer only, a further invite only while none is
recorded, a recorded one is there and stays recorded; the operator deletes an
invite only for a tunnel that is being deleted and has nothing published; the
finalizer goes when nothing recorded or published is left, or under Retain.

`ImplementsCustody` in `TowonelTunnel` maps `phase`, `guarded` and `policy` to
the object, `invite` to `status.inviteId`, `live` to the invites at the hub
and `published` to the namespaces of owned DNSEndpoints. `Shared` says whether
others change the tunnel's invites; it is `MaxHubEdits > 0`. Without them
(`tunnel_invite`) a recorded invite is always one that is there.

## 4. The runs

| run | checks | bounds |
|---|---|---|
| `tunnel_dns` | `TypeOK`, `UndisturbedPassConverges`, `PublishesOnlyHeld`, `WithdrawBeforeRelease` | 2 hostnames (one a wildcard), 2 agents, 3 namespaces (one squatted by a foreign object), 2 invites, 5 specs, 1 edit, 1 hub edit, 1 fault |
| `tunnel_invite` | `ReadyTokenMatches`, `FinalizerReleases`, `InviteIsAuthority`, `ImplementsCustody` | 2 invites, 2 incarnations, both policies, 1 edit, 2 faults |
| `tunnel_live` | `EventuallyConverged`, `DeletionCompletes` | 2 invites, 1 edit, 1 hub edit, 1 fault |
| `ports` | `TypeOK`, `RecordedPortsHeld`, `OnePortPerName`, `PublicPortStable`, `DeletionLeavesNoPorts`, `EventuallyReserved`, `DeletionCompletes` | 2 protocols, 1 name, 2 ports, 2 agents with conflicting pins, 2 edits, 1 foreign socket, 2 faults, calls of 0 or 1 tick against a window of 2 |
| `agent_safety` | `TypeOK`, `CopyIsGenuine`, `NothingForgotten`, `RotationReachesPods`, `ConsistentSnapshot` | 1 tunnel, 2 invites, 2 specs (with and without an L4 service), 1 edit, 1 fault |
| `agent_live` | `EventuallySettled`, `ChildrenCollected` | 1 tunnel, 1 invite, 2 incarnations, 1 change of a child |
| `connectivity` | `TypeOK`, `SubjectsSettled`, `ObjectsSettled`, `ComesToRest` | 2 agents, 1 kind of object, 3 events in all: edits, changes by the chart, faults |
| `sources` | `TypeOK`, `SourcesSettled`, `OrphansCollected`, `RoutingKept`, `ServedThroughout`, `ComesToRest` | a Service (3 forms), a Gateway with auto-routes (2 forms), a route in another namespace (3 forms, one with a hostname twice), 2 tunnels, 2 default agents (one of which a user may make ObserveOnly) and a named one; 2 events: edits by users, one restart, one fault |

Why these bounds are enough to be interesting: two invites are the fewest that
can be confused, two incarnations the fewest for a Secret of a dead owner, three
namespaces let an object move between two while a third is squatted, two agents
can disagree about a record or a pin, and two faults allow a lost create answer
followed by a failed list. Of sources, one of each kind is the fewest that run at
once, two tunnels the fewest to move between, and the Service and the Gateway
expose the same hostname at different origins, so they conflict; two events let
one of them fall into the pass that answers the other. Invites are symmetric in the safety runs (nothing
tells two unused ids apart); the runs with liveness use no symmetry. One fault and
one edit per run is the main limitation; the theorems of section 6 have none.

`CHECK_DEADLOCK FALSE` everywhere: a deleted tunnel is the end of both systems,
and a bounded environment stops.

Four runs end in a counterexample, each a statement of the documentation or of a
comment that the code does not keep:

| run | statement | what happens |
|---|---|---|
| `tunnel_invite_leak` | the finalizer releases the invite (`docs/crd-towoneltunnel.md:57`) | a tunnel deleted while its first pass runs leaves the invite: the status write that would have recorded it is refused, and `reconcileDelete` knows only what is recorded |
| `ports_reused` | PortsReserved means all requested ports are reserved (`docs/crd-towoneltunnel.md:44`) | a refused status write after a prune leaves a freed port recorded, and a recorded port is kept unasked |
| `agent_moved` | the invite id stands in for the token (`towonelagent_deploy.go:57`) | an agent pointed at another tunnel and back while its pods start: they read the Secret in between, the hash never changes, nothing rolls them |
| `sources_ghost` | releasing an agent that is gone is a no-op (`source_contribute.go:90`) | a server-side apply creates what it does not find: the agent comes back without spec and label, and under a default agent's name `ensureDefaultAgent` then takes it for a user's |

Other limits the models show, which the properties name or allow for instead of
a run of their own:

* A pass that ends between `CreateInvite` and `ensureTokenSecret` loses the
  token: later passes adopt the invite and end at `errAdoptedNoToken`
  (`towoneltunnel_secret.go:58`; `docs/architecture.md:53` calls the system
  eventually consistent). `EventuallyConverged` excludes it by name (`TokenLost`).
* Ready stays True for an invite that was revoked, although its hostnames are
  reported as not converged (`towoneltunnel_status.go:30`; `ready` and `synced`
  in `TowonelTunnel`).
* The deadline of `DeleteInvite` starts before the port calls
  (`towoneltunnel_delete.go:46`, against the comment at `:50`): `DeletionCompletes`
  of `TunnelPorts` holds only if they do not use it up for ever.
* A user's Secret that the cache does not show yet is taken over
  (`towonelagent_secret.go:82`, against "Never steal it" at `:20`), and so are a
  deleted predecessor's Secret and Deployment: the apply is forced, and drops the
  owner reference the same field manager gave before (`EnsureSecret`,
  `EnsureDeployment`).
* The subjects of the shared binding are wrong, until some agent is reconciled
  again, after a pass was content with a late copy of it or the chart installed it
  later (`towonelagent_connectivity.go:225`; nothing watches it): `blind` in
  `AgentConnectivity`.
* Without the chart's binding IrohConnectivityReady is False for every agent, also
  for one that asks for no connectivity (`towonelagent_status.go:95`, against
  `docs/crd-towonelagent.md:100`); `ConditionOf` has it.
* Sources, `unheard` in `Sources`: the proxy Service of a Gateway is not watched;
  the event of an agent reaches only sources that name both it and its tunnel
  (`source_target.go:104`), so one that names the agent alone, or whose default
  agent a user deleted, waits for an event of its own; a list of agents that is
  late may miss one to release (`source_contribute.go:111`); the loser of a
  conflict is not retried when the entry becomes free; a source deleted or
  de-annotated while the operator is down leaves its entries
  (`source_base.go:25` says so of the annotation); a conflict on an orphan's
  deletion, which any status write causes, is let go (`source_contribute.go:169`);
  nobody collects an agent whose last entry was a user's, or that an earlier
  operator left empty, until some source opts out.
* A source without a tunnel-ref keeps its entries when a second tunnel appears:
  `Reconcile` returns before it would release them (`service_source_controller.go:52`,
  against `docs/source-layer.md:185-187`); `Halts` in `Sources`.
* `mode` and `tunnelRef` of a tunnel's default agent are not looked at
  (`source_target.go:198-208`): a default agent that a user set to ObserveOnly is
  written like any other, against `docs/crd-towonelagent.md:17` and
  `api/v1alpha1/towonelagent_types.go:142`. `WriteTarget` follows the code, so
  `SourcesSettled` asks for these entries.
* The value of a port's `.tcp` or `.udp` annotation is not looked at
  (`service_source_controller.go:124-131`): `"false"` exposes the port, against the
  "truthy value" of `docs/source-layer.md:38`. `ScopedRouting` follows the code.
* A route that lists a hostname twice is exposed twice
  (`httproute_source_controller.go:304-309`), as is a hostname that a Service gives two
  of its ports (`service_source_controller.go:126`). The agent would have a list with a
  repeated key, the apply is refused as invalid, which is an error like others, and
  the source is tried again with back-off until a user changes it. `ComesToRest`
  says which sources these are (`Unacceptable`).
* A source that moves leaves its former default agent in place, empty, until some
  source opts out: only `releaseEverywhere` collects (`source_base.go:132`).

## 5. Fairness

`FairSpec` asks WF of the pass as a whole: the controller's work queue holds the
tunnel after every outcome, since `fail` and an error requeue with back-off and
a success or a halt sets `RequeueAfter`; a call that hangs ends at its deadline.
`SyncCache` is weakly fair: an informer catches up. No user, hub or fault action
is fair. The liveness properties list what the operator cannot bring about by
itself (no API key, nothing wanted, a lost token, an invite deleted at the hub, a
create refused for a name somebody else holds; for ports `drift` and `Refused`).

`FairSpec` of `TowonelAgent` and `AgentConnectivity` asks WF of the pass while it
is queued or running, of each informer, of the collector, and (agent) of the
kubelet that starts and stops pods. What a queue gets is exact here: a pass that
succeeds asks for no other one, so the queue is filled only by failures, waits,
and events; each kind of event has its own way, and a change of a tunnel's
Secret has none. `EventuallySettled` and `NothingForgotten` show these are enough.

`FairSpec` of `Sources` asks WF of the passes of each of the three controllers, each of
which has a worker of its own, and of the disjunction of all informers, which is what
workers that never idle while something is queued and watches that are
re-established give. The module spells the two ENABLED out (`HasWork`, `HasNews`),
since TLC takes several times as long to find them; on the states of the run they
were compared with ENABLED and are the same.

`ComesToRest` says that each source comes to rest in spite of the retries: one that
is refused because its agent is gone rests because the next pass reads a cache that
caught up. The exception is a source whose entries would make the agent invalid
(`Unacceptable`, section 4): it never rests, and the property says that it keeps no
other from its rest. The run has one source of each kind, so that two sources never
share a worker; that a queue in the code is first in, first out, and the back-off grows,
is not in the model.

## 6. Proofs

`TowonelTunnelProofs` proves for every value of the constants (any number of
hosts, namespaces, invites, edits and faults), from the named assumptions only
that constants have their kinds (`NamespacesAssumption`, `NoInviteAssumption`,
`InputAssumption`, `BoundAssumption`):

* `TypeCorrect` - `TypeOK`.
* `WithdrawsBeforeReleasing`, `FinalizerReleasesAll`, `PublishesHeldOnly`,
  `InviteNeverExchanged` - the action properties of the same names as the runs.

All rest on `Invariance`, Spec => []IInv. `TypeOK` is inductive, the properties
are not: that `DeleteInvite` runs with nothing published needs that a deletion
pass past its sweep left no endpoints *and that no step of any other actor makes
one*, and that the finalizer goes under the right policy needs that a pass which
is not stale holds the object as it is. So IInv has one part for each thing a
later step relies on: which steps have an invite in hand, that an unstale
snapshot equals the object, what a deletion pass at each step has withdrawn and
released, and that what a pass confirmed is in the invite unless somebody
touched it.

`TowonelTunnelTokenProofs` proves `ReadyTokenMatches`. The argument needs more:
while `~tokenAtRisk` there is at most one live invite of the name; the Secret and
its cached copy name an invite that was used; the copy is either the Secret or
empty; and an invite that is recorded, or that a pass got past
`EnsureTokenSecret` with, has its token stored. `TokenInv` is their conjunction
with IInv.

`TunnelCustodyProofs` proves `CustodyIsImplemented`: `Spec => ImplementsCustody`.
The initial state maps to an initial state, and each action is shown to be one
named abstract action or a stutter (`GuardStep`, `RecordStep`, `DropStep`, ...,
put together in `StepSimulation`). A step of a pass acts on what it read, so
the proof needs that what it read still holds: `CustodyInv` adds to TokenInv that
a tunnel in deletion and any pass past `AddFinalizer` have the finalizer, and a
live tunnel without it records no invite (`FinalizerGuards`); that a deletion pass
has a tunnel in deletion, and any other a live one until somebody touches it
(`PhaseIsRead`); that nobody but the pass changes the status it read
(`StatusIsRead`); and that without edits at the hub the invite a pass has in hand is
there (`TakenIsLive`). Three parts of the result carry over from the action
properties: withdrawal before release, the finalizer's conditions, and that a
recorded invite is never exchanged.

`TunnelPassProofs` proves `UndisturbedPassConverges`, from `UndisturbedInv`, which
follows a pass from its first read to its last write, as long as nobody disturbs
it: what it computed is what spec and services ask for (`AskedAsRead`); the Secret
is as the cache has it, then that of the invite (`SecretAsRead`); between `GET` and
the last `DELETE` nothing but what the loops have still to do is missing at the hub
or too much (`HubAsRead`); the DNSEndpoints are those of the pass
(`EndpointsAsApplied`). A late copy of the Secret counts as a disturbance.
One part is about any pass: no DNSEndpoint of the tunnel is ever in a namespace where
a foreign object has its name, which is why sweeping the others is enough.

`TunnelPortsProofs` proves all four safety properties of the public ports, from
`PortsInvariance`. `RecordedPortsHeld` is not inductive: `convergePorts` keeps a
recorded port unasked, so everything hangs on what the pass has in memory when it
writes the status. Hence `PassInv` (the pass works on the status as it is),
`KeepInv` (its ports are the recorded ones, and new ones of keys that had none),
`HeldInv` (the hub has given the tunnel what the pass has in memory, also while
the pass prunes), `OneInv` (a key about to be reserved has no port, which is what
adoption by label is for) and `ReleasedInv` (what each step of a deletion has
released, and what it has yet to).

`TowonelAgentProofs` proves `CopyIsGenuine` and `ConsistentSnapshot`. A pass works
on copies; each part of the invariant says what one is worth: uid and generation
tell the spec (`GenerationTellsSpec`), the tunnel is as it was read unless a change
of it marked the pass (`TunnelAsRead`), the token is that of the invite read before
(`TokenOfInvite`), and a pass past the second recheck saw both copies current
at once (`SeenTogether`). `NothingForgotten` is proved from `QuietInv`: whatever is
not as it should be, an event on its way, the queue or the running pass will ask for
the agent. An informer lags behind only with an event on its way (`CachesTold`), a
pass that is not asked for again has agent and tunnel as they are (`Undisturbed`),
and the Secret, the Deployment and the status it has behind it are done
(`SecretKept`, `DeploymentKept`, `StatusKept`). The proof uses neither `Usable` nor
`~Clash`: while a tunnel is unusable or a Secret is somebody else's, the pass that
finds that is queued again, and nothing is quiet.

`RotationReachesPods` is not true of all constants (`agent_moved` shows an agent that
is moved and moved back), so `RotationReaches` proves it on two conditions. All specs
name one tunnel (`OneTunnel`), and no user puts a Secret of his own in the place of
the agent's (`[][~CreateSecret]_vars`): pods may be started with what he wrote, the
agent adopts the Secret and writes the right token, and a hash that did not change
rolls nothing. The invariant on the way is `RotationInv`: where the latest token has
been seen - by a Secret, its cache, a template or a pass past the copy - the one
before it is nowhere left that pods could take it from (`LatestInv`), and an invite
that is yet to be issued is known to nobody (`KnownInv`). With `NothingForgotten` it
gives the property: what the pods were started from is then the latest template.

`AgentConnectivityProofs` proves that the shared subjects and the owned objects
settle, for any set of agents (`AgentsAssumption`: there is one).
`SubjectsSettled` and `ObjectsSettled` speak of a moment when nothing is left to
do, and say nothing of the moments between. The invariant does: whatever is not
as it should be is told of by an event on its way, by the queue, or by the running
pass (`ListedTold`, `ObjectsTold`, `PassCurrent`, `ObjectsInv`, `SubjectsInv`); a
pass has dealt with the objects it has behind it (`ObjectsDealtWith`), and computes
the subjects from a list that is current or that an event on its way will correct.

`SourcesProofs` proves all the safety properties of `Sources`, for any sources,
agents, tunnels and manifests that name each other (`NamesAssumption`,
`ManifestsAssumption`, `WorldsAssumption`, `UserSpecsAssumption`). `RoutingKept` and
`ServedThroughout` are about steps, of passes that decided on what they read some
steps before: `IntactInv` says that whoever gives an orphan an entry between its read
and its deletion takes the precondition of the deletion away, `HeldInv` that a pass
which releases a source elsewhere still has its entries at its target, or a user
deleted that, and `PassInv` that a derived routing is never empty.

`SourcesSettled` speaks of moments when nothing is left to do for a source, whatever
there is for others (`Rests`), `OrphansCollected` of those when nothing is left to do at
all (`Quiet`); `SInv` says what holds on the way there. A source is excused while it is unheard,
halted, in the queue, or sure to be queued by the news of an agent. One that is not
has, in each agent, the entries it is *due* - by the informer's copy, not by the
agents as they are - except where its own running pass has still to put them right:
`Settled` follows that pass from what it holds in memory (`Current`) over the agents it
has yet to release to the end. `NewsInv` ties the copy to the agents: a copy by which
`resolveTarget` would decide otherwise is one with an event under way. `OrphanInv`
says that as long as no source takes part, each empty agent is on the list of a pass
that collects, or is being released by one that will list it. Each action is shown to
keep the three (`StartKeeps` to `RestartKeeps`): a step of a pass by what it does for
its own source (`MovesOn`, `WritesOn`), anybody else's by leaving a source, its pass
and its view alone or reaching it (`Bystander`, `EditSourceReaches`, ...).
At rest the copy is the agent, what is due is what is asked for, and nobody is left
to remember an orphan. The last two theorems have no hypothesis about the order or
the number of edits, faults and restarts.

An earlier form of the model delivered the changes of an agent one copy at a time, so
that a user who deleted an agent and wrote the same one again went unnoticed, as he
would not by a watch: `SourcesSettled` held in the bounds of the run and not beyond.
`news` is what the attempt to prove it led to.

Only model-checked are liveness and what needs ENABLED, outside the prover's reach.

## 7. Not modelled

* Region endpoints: a read that reaches only the status.
* The rate-limit back-off (`ratelimit.go`): it chooses how long a requeue waits, and
  the models know no delays.
* Events and their deduplication: read by people only.
* DNS edge targets: flags parsed once, at start-up, into constants.
* The manager, indexes, `source_setup.go`, chart and CRDs: wiring and manifests.
* HTTP and JSON: a call is answered, refused, or its answer is lost.
