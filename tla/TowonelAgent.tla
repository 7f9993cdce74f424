---------------------------- MODULE TowonelAgent ----------------------------
(***************************************************************************)
(* The TowonelAgent reconciler (internal/controller/towonelagent_*.go) of  *)
(* one agent name, interleaved request by request with users, with the     *)
(* tunnels, the garbage collector, the informers and the pods.             *)
(*                                                                         *)
(* A pass is one attempt inside RetryOnConflict: an attempt that meets a   *)
(* conflict keeps nothing, so the next one is a pass like any other.       *)
(* Agent and tunnel are read from the API server; the token Secret, the    *)
(* agent's Secret and its Deployment come from informers, each of which    *)
(* may be late by itself.                                                  *)
(*                                                                         *)
(* Abstractions.                                                           *)
(*  - A resourceVersion is a flag of the pass: "changed since it was read".*)
(*  - The config hash is what it is computed from: the template.           *)
(*  - Connectivity is one step that succeeds or fails (AgentConnectivity). *)
(*  - A tunnel shows its invite once the invite's token is stored; no other*)
(*    part of a tunnel's life is here (TowonelTunnel).                     *)
(***************************************************************************)
EXTENDS Naturals, FiniteSets

CONSTANTS
    Tunnels,
    Invites,
    NoInvite,
    Routes,       \* what an agent may be told to serve
    Scales,       \* replicas, resources, scheduling: outside the hash
    Specs,        \* the specs users give the agent
    MaxAgents,    \* bound: times the agent is created
    MaxEdits,     \* bound: edits of agent and tunnels by users
    MaxMeddling,  \* bound: changes of the agent's children by users
    MaxFaults     \* bound: failed, lost or cut short calls

SpecType == [tunnel : Tunnels, routes : Routes, l4 : BOOLEAN, scale : Scales]

ASSUME NoInviteAssumption == NoInvite \notin Invites
ASSUME SpecsAssumption == Specs \subseteq SpecType /\ Specs # {}
ASSUME BoundAssumption == {MaxAgents, MaxEdits, MaxMeddling, MaxFaults} \subseteq Nat

VARIABLES
    agent,       \* the TowonelAgent object
    tunnels,     \* what the agent reads of each tunnel
    tokens,      \* the token Secret of each tunnel: whose token it holds
    tokenCache,  \* the same, as the informer has it
    issued,      \* of each tunnel's name, the invites handed out so far
    leftover,    \* tunnels whose token Secret is that of a predecessor
    secret,      \* the agent's token Secret
    secretCache,
    deployment,  \* the agent's Deployment
    deployCache,
    coming,      \* children with an event on its way from their informer
    pods,        \* the template and the token its pods were started with
    pass,        \* what the running pass holds in memory
    queued,      \* the agent is in the work queue
    budget       \* how much of each bound is used

tunnelVars == <<tunnels, tokens, tokenCache, issued, leftover>>
childVars == <<secret, secretCache, deployment, deployCache, coming>>
vars == <<agent, tunnelVars, childVars, pods, pass, queued, budget>>

MaybeInvite == Invites \union {NoInvite}
TunnelType == [there : BOOLEAN, invite : MaybeInvite, ports : BOOLEAN]
NoTunnel == [there |-> FALSE, invite |-> NoInvite, ports |-> FALSE]

TemplateType == [routes : Routes, l4 : BOOLEAN, invite : MaybeInvite]
NoTemplate == [routes |-> CHOOSE r \in Routes : TRUE, l4 |-> FALSE, invite |-> NoInvite]

Condition == {"Unset", "True", "False"}
StatusType == [phase : {"None", "Waiting", "Pending", "Ready"}, tunnel : Condition,
               rendered : Condition, ports : Condition, workload : Condition,
               hash : TemplateType, seen : Nat]
NoStatus == [phase |-> "None", tunnel |-> "Unset", rendered |-> "Unset",
             ports |-> "Unset", workload |-> "Unset", hash |-> NoTemplate, seen |-> 0]

\* An owner is the uid of an agent; 0 is a user's object.  Of a Secret, invite is
\* the annotation and token the data.
User == 0
NoSecret == [there |-> FALSE, invite |-> NoInvite, token |-> NoInvite, owner |-> User]
NoDeployment == [there |-> FALSE, owner |-> User, template |-> NoTemplate,
                 scale |-> CHOOSE s \in Scales : TRUE, available |-> FALSE]
NoPods == [template |-> NoTemplate, token |-> NoInvite]

Steps == {"idle", "tunnel", "token", "secret", "connect", "checkAgent",
          "checkTunnel", "deploy", "write"}
NoPass == [at |-> "idle", uid |-> 0, gen |-> 0, spec |-> CHOOSE s \in Specs : TRUE,
           orig |-> NoStatus, status |-> NoStatus, tunnel |-> NoTunnel, token |-> NoInvite,
           stale |-> FALSE, moved |-> FALSE, retry |-> FALSE, together |-> FALSE]

Init ==
    /\ agent = [there |-> FALSE, uid |-> 0, gen |-> 0, spec |-> NoPass.spec,
                status |-> NoStatus]
    /\ tunnels = [t \in Tunnels |-> NoTunnel]
    /\ tokens = [t \in Tunnels |-> NoInvite]
    /\ tokenCache = tokens
    /\ issued = [t \in Tunnels |-> {}]
    /\ leftover = {}
    /\ secret = NoSecret
    /\ secretCache = NoSecret
    /\ deployment = NoDeployment
    /\ deployCache = NoDeployment
    /\ coming = {}
    /\ pods = NoPods
    /\ pass = NoPass
    /\ queued = FALSE
    /\ budget = [edits |-> 0, meddling |-> 0, faults |-> 0]

-----------------------------------------------------------------------------
(* How a step of the pass ends.                                            *)

Goto(step) == pass' = [pass EXCEPT !.at = step]
\* The pass is over, with an error or not.
EndPass(again) == pass' = NoPass /\ queued' = (queued \/ again)
NoFault == UNCHANGED budget
Fault == /\ budget.faults < MaxFaults
         /\ budget' = [budget EXCEPT !.faults = @ + 1]

\* An owned child that changes is an event of the agent whose name its owner has
\* (Owns in SetupWithManager).
\* Variant: the children are not watched.
NeverAnEvent(kind, before, after) == coming' = coming
ChildEvent(kind, before, after) ==
    coming' = IF before # after /\ (before.owner # User \/ after.owner # User)
              THEN coming \union {kind} ELSE coming
SecretEvent == ChildEvent("secret", secret, secret')
DeploymentEvent == ChildEvent("deployment", deployment, deployment')

\* markAgentWaiting, after a gate of readTunnelToken; asked again after a while.
Waiting(p) == [p EXCEPT !.at = "write", !.retry = TRUE,
                        !.status.tunnel = "False", !.status.phase = "Waiting"]
\* failStatus, and the clash of ensureAgentSecret.
Failed(p) == [p EXCEPT !.at = "write", !.retry = TRUE,
                       !.status.rendered = "False", !.status.phase = "Pending"]

(* The pass.                                                               *)

\* Of a missing agent only the shared subjects are recomputed.
StartPass ==
    /\ pass.at = "idle"
    /\ queued
    /\ queued' = FALSE
    /\ pass' = IF agent.there
               THEN [NoPass EXCEPT !.at = "tunnel", !.uid = agent.uid, !.gen = agent.gen,
                       !.spec = agent.spec, !.orig = agent.status, !.status = agent.status]
               ELSE NoPass
    /\ UNCHANGED <<agent, tunnelVars, childVars, pods, budget>>

\* readTunnelToken, first half: the tunnel.
ReadTunnel ==
    /\ pass.at = "tunnel"
    /\ LET tunnel == tunnels[pass.spec.tunnel]
       IN pass' = IF tunnel.there /\ tunnel.invite # NoInvite
                  THEN [pass EXCEPT !.at = "token", !.tunnel = tunnel]
                  ELSE Waiting(pass)
    /\ UNCHANGED <<agent, tunnelVars, childVars, pods, queued, budget>>

\* Second half: its Secret, which must be that of the invite in the status.
\* Variant: any token will do.
AnyToken == tokenCache[pass.spec.tunnel] # NoInvite
TokenCurrent == tokenCache[pass.spec.tunnel] = pass.tunnel.invite
ReadToken ==
    /\ pass.at = "token"
    /\ pass' = IF TokenCurrent
               THEN [pass EXCEPT !.at = "secret", !.status.tunnel = "True",
                                 !.token = tokenCache[pass.spec.tunnel]]
               ELSE Waiting(pass)
    /\ UNCHANGED <<agent, tunnelVars, childVars, pods, queued, budget>>

\* SetControllerReference.
\* Variant: it is forgotten.
NoOwnerReference == User
OwnerReference == pass.uid

\* ensureAgentSecret.  What the cache shows as somebody else's is left alone; what
\* it does not show yet is taken over, be it a user's or a predecessor's: the apply
\* is forced, and drops the owner reference that the same field manager gave before.
EnsureSecret ==
    /\ pass.at = "secret"
    /\ LET copy == [there |-> TRUE, invite |-> pass.tunnel.invite,
                    token |-> pass.token, owner |-> OwnerReference]
           clash == secretCache.there /\ secretCache.owner # pass.uid
           current == secretCache.there /\ secretCache.invite = pass.tunnel.invite
       IN
       \/ /\ clash
          /\ pass' = Failed(pass)
          /\ NoFault
          /\ UNCHANGED secret
       \/ /\ ~clash /\ current
          /\ Goto("connect")
          /\ NoFault
          /\ UNCHANGED secret
       \/ /\ ~clash /\ ~current
          /\ secret' = copy
          /\ Goto("connect")
          /\ NoFault
       \/ /\ ~clash /\ ~current
          /\ pass' = Failed(pass)
          /\ secret' \in {secret, copy}
          /\ Fault
    /\ SecretEvent
    /\ UNCHANGED <<agent, tunnelVars, secretCache, deployment, deployCache, pods, queued>>

\* ensureConnectivity and renderConfig.
Connect ==
    /\ pass.at = "connect"
    /\ \/ /\ Goto("checkAgent")
          /\ NoFault
       \/ /\ pass' = Failed(pass)
          /\ Fault
    /\ UNCHANGED <<agent, tunnelVars, childVars, pods, queued>>

\* The Deployment is applied without a lock on what it was rendered from; both
\* are read again first, and a difference starts the pass anew.
\* Variant: either check is left out.
AgentNeverChecked == TRUE
AgentUnchanged == agent.there /\ agent.uid = pass.uid /\ agent.gen = pass.gen
CheckAgent ==
    /\ pass.at = "checkAgent"
    /\ IF AgentUnchanged
       THEN /\ pass' = [pass EXCEPT
                         !.at = "checkTunnel",
                         !.together = /\ agent.uid = pass.uid /\ agent.spec = pass.spec
                                      /\ tunnels[pass.spec.tunnel] = pass.tunnel]
            /\ UNCHANGED queued
       ELSE EndPass(TRUE)
    /\ UNCHANGED <<agent, tunnelVars, childVars, pods, budget>>

TunnelNeverChecked == tunnels[pass.spec.tunnel].there
TunnelUnchanged == tunnels[pass.spec.tunnel].there /\ ~pass.moved
CheckTunnel ==
    /\ pass.at = "checkTunnel"
    /\ IF TunnelUnchanged
       THEN Goto("deploy") /\ UNCHANGED queued
       ELSE EndPass(TRUE)
    /\ UNCHANGED <<agent, tunnelVars, childVars, pods, budget>>

\* renderConfig: l4 services are left out until their ports are known.
\* Variants: the hash is that of the routing alone, or lacks a field.
TemplateOfRouting(spec, tunnel) == [routes |-> spec.routes, l4 |-> spec.l4]
TemplateWithoutInvite(spec, tunnel) ==
    [routes |-> spec.routes, l4 |-> spec.l4 /\ tunnel.ports, invite |-> NoInvite]
TemplateOf(spec, tunnel) ==
    [routes |-> spec.routes, l4 |-> spec.l4 /\ tunnel.ports, invite |-> tunnel.invite]

\* rollupAgentStatus: Ready is all four conditions.
RolledUp(p, available) ==
    LET ports == ~p.spec.l4 \/ p.tunnel.ports
        all == ports /\ available /\ p.status.tunnel = "True"
    IN [p EXCEPT
          !.at = "write",
          !.status.rendered = "True",
          !.status.ports = IF ports THEN "True" ELSE "False",
          !.status.workload = IF available THEN "True" ELSE "False",
          !.status.hash = TemplateOf(p.spec, p.tunnel),
          !.status.phase = IF all THEN "Ready" ELSE "Pending"]

\* deploymentNeedsWrite, negated, of the cached Deployment.
\* Variant: the hash is all there is to a Deployment.
SameHash(template, scale) == deployCache.there /\ deployCache.template = template
DeploymentCurrent(template, scale) ==
    deployCache.there /\ deployCache.template = template /\ deployCache.scale = scale

\* ensureDeployment: nothing is written while the cache shows what is wanted; a
\* predecessor's Deployment is taken over, as its Secret is.  Availability is the
\* cache's.
EnsureDeployment ==
    /\ pass.at = "deploy"
    /\ LET template == TemplateOf(pass.spec, pass.tunnel)
           applied == [there |-> TRUE, owner |-> OwnerReference, template |-> template,
                       scale |-> pass.spec.scale, available |-> deployment.available]
           current == DeploymentCurrent(template, pass.spec.scale)
       IN
       \/ /\ current
          /\ pass' = RolledUp(pass, deployCache.available)
          /\ NoFault
          /\ UNCHANGED deployment
       \/ /\ ~current
          /\ deployment' = applied
          /\ pass' = RolledUp(pass, deployCache.available)
          /\ NoFault
       \/ /\ ~current
          /\ pass' = Failed(pass)
          /\ deployment' \in {deployment, applied}
          /\ Fault
    /\ DeploymentEvent
    /\ UNCHANGED <<agent, tunnelVars, secret, secretCache, deployCache, pods, queued>>

\* writeStatus.  A refused write starts the pass anew; a write that is made is an
\* event of the agent itself; without a change nothing is written.
WriteStatus ==
    /\ pass.at = "write"
    /\ LET status == [pass.status EXCEPT !.seen = pass.gen]
           changed == status # pass.orig
       IN /\ agent' = IF changed /\ ~pass.stale THEN [agent EXCEPT !.status = status]
                      ELSE agent
          /\ EndPass(pass.retry \/ changed)
    /\ UNCHANGED <<tunnelVars, childVars, pods, budget>>

\* The process dies, or a read fails: the pass is over, and asked for again.
Crash ==
    /\ pass.at # "idle"
    /\ EndPass(TRUE)
    /\ Fault
    /\ UNCHANGED <<agent, tunnelVars, childVars, pods>>

-----------------------------------------------------------------------------
(* Users.                                                                  *)

Edit == /\ budget.edits < MaxEdits
        /\ budget' = [budget EXCEPT !.edits = @ + 1]
Meddle == /\ budget.meddling < MaxMeddling
          /\ budget' = [budget EXCEPT !.meddling = @ + 1]
AgentTouched == /\ pass' = IF pass.at = "idle" THEN pass ELSE [pass EXCEPT !.stale = TRUE]
                /\ queued' = TRUE

CreateAgent ==
    /\ ~agent.there
    /\ agent.uid < MaxAgents
    /\ \E s \in Specs : agent' = [there |-> TRUE, uid |-> agent.uid + 1, gen |-> 1,
                                  spec |-> s, status |-> NoStatus]
    /\ AgentTouched
    /\ UNCHANGED <<tunnelVars, childVars, pods, budget>>

EditAgent ==
    /\ agent.there
    /\ \E s \in Specs \ {agent.spec} : agent' = [agent EXCEPT !.spec = s, !.gen = @ + 1]
    /\ Edit
    /\ AgentTouched
    /\ UNCHANGED <<tunnelVars, childVars, pods>>

DeleteAgent ==
    /\ agent.there
    /\ agent' = [agent EXCEPT !.there = FALSE]
    /\ AgentTouched
    /\ UNCHANGED <<tunnelVars, childVars, pods, budget>>

CreateSecret ==
    /\ ~secret.there
    /\ secret' = [NoSecret EXCEPT !.there = TRUE]
    /\ Meddle
    /\ SecretEvent
    /\ UNCHANGED <<agent, tunnelVars, secretCache, deployment, deployCache, pods, pass, queued>>

DeleteSecret ==
    /\ secret.there
    /\ secret' = NoSecret
    /\ Meddle
    /\ SecretEvent
    /\ UNCHANGED <<agent, tunnelVars, secretCache, deployment, deployCache, pods, pass, queued>>

DeleteDeployment ==
    /\ deployment.there
    /\ deployment' = NoDeployment
    /\ Meddle
    /\ DeploymentEvent
    /\ UNCHANGED <<agent, tunnelVars, secret, secretCache, deployCache, pods, pass, queued>>

ScaleDeployment ==
    /\ deployment.there
    /\ \E s \in Scales \ {deployment.scale} : deployment' = [deployment EXCEPT !.scale = s]
    /\ Meddle
    /\ DeploymentEvent
    /\ UNCHANGED <<agent, tunnelVars, secret, secretCache, deployCache, pods, pass, queued>>

-----------------------------------------------------------------------------
(* Tunnels.  A change of a tunnel's object is an event of its agents; one  *)
(* of its Secret is not.                                                   *)

TunnelTouched(t) ==
    /\ pass' = IF pass.at \notin {"idle", "tunnel"} /\ pass.spec.tunnel = t
               THEN [pass EXCEPT !.moved = TRUE] ELSE pass
    /\ queued' = (queued \/ (agent.there /\ agent.spec.tunnel = t))

CreateTunnel(t) ==
    /\ ~tunnels[t].there
    /\ \E i \in Invites : \A u \in Tunnels : i \notin issued[u]     \* bound
    /\ tunnels' = [tunnels EXCEPT ![t] = [NoTunnel EXCEPT !.there = TRUE]]
    /\ TunnelTouched(t)
    /\ UNCHANGED <<agent, tokens, tokenCache, issued, leftover, childVars, pods, budget>>

\* A new invite, whose token takes the place of any the Secret has.
StoreToken(t) ==
    /\ tunnels[t].there
    /\ tunnels[t].invite = NoInvite
    /\ \E i \in Invites :
        /\ \A u \in Tunnels : i \notin issued[u]
        /\ tokens' = [tokens EXCEPT ![t] = i]
        /\ issued' = [issued EXCEPT ![t] = @ \union {i}]
    /\ leftover' = leftover \ {t}
    /\ UNCHANGED <<agent, tunnels, tokenCache, childVars, pods, pass, queued, budget>>

\* An invite of the tunnel's name is recorded, once and for the tunnel's life: the
\* new one, or one that was adopted, be its token lost or not.
PublishInvite(t) ==
    /\ tunnels[t].there
    /\ tunnels[t].invite = NoInvite
    /\ \E i \in issued[t] : tunnels' = [tunnels EXCEPT ![t].invite = i]
    /\ TunnelTouched(t)
    /\ UNCHANGED <<agent, tokens, tokenCache, issued, leftover, childVars, pods, budget>>

AllocatePorts(t) ==
    /\ tunnels[t].there
    /\ tunnels[t].invite # NoInvite
    /\ ~tunnels[t].ports
    /\ agent.there /\ agent.spec.l4 /\ agent.spec.tunnel = t
    /\ tunnels' = [tunnels EXCEPT ![t].ports = TRUE]
    /\ TunnelTouched(t)
    /\ UNCHANGED <<agent, tokens, tokenCache, issued, leftover, childVars, pods, budget>>

DeleteTunnel(t) ==
    /\ tunnels[t].there
    /\ tunnels' = [tunnels EXCEPT ![t] = NoTunnel]
    /\ leftover' = IF tokens[t] = NoInvite THEN leftover ELSE leftover \union {t}
    /\ Edit
    /\ TunnelTouched(t)
    /\ UNCHANGED <<agent, tokens, tokenCache, issued, childVars, pods>>

\* The garbage collector takes a predecessor's Secret, also when the name is in
\* use again.
CollectToken(t) ==
    /\ t \in leftover
    /\ tokens' = [tokens EXCEPT ![t] = NoInvite]
    /\ leftover' = leftover \ {t}
    /\ UNCHANGED <<agent, tunnels, tokenCache, issued, childVars, pods, pass, queued, budget>>

-----------------------------------------------------------------------------
(* The API server, the informers and the kubelet.                          *)

\* Children of an agent that is gone are collected.
Orphan(child) == child.there /\ child.owner # User
                 /\ ~(agent.there /\ child.owner = agent.uid)

CollectSecret ==
    /\ Orphan(secret)
    /\ secret' = NoSecret
    /\ SecretEvent
    /\ UNCHANGED <<agent, tunnelVars, secretCache, deployment, deployCache, pods, pass, queued, budget>>

CollectDeployment ==
    /\ Orphan(deployment)
    /\ deployment' = NoDeployment
    /\ DeploymentEvent
    /\ UNCHANGED <<agent, tunnelVars, secret, secretCache, deployCache, pods, pass, queued, budget>>

SyncToken(t) ==
    /\ tokenCache[t] # tokens[t]
    /\ tokenCache' = [tokenCache EXCEPT ![t] = tokens[t]]
    /\ UNCHANGED <<agent, tunnels, tokens, issued, leftover, childVars, pods, pass, queued,
                   budget>>

\* The informer shows the child as it is now, and hands on its event.
SyncSecret ==
    /\ secretCache # secret \/ "secret" \in coming
    /\ secretCache' = secret
    /\ coming' = coming \ {"secret"}
    /\ queued' = (queued \/ "secret" \in coming)
    /\ UNCHANGED <<agent, tunnelVars, secret, deployment, deployCache, pods, pass, budget>>

SyncDeployment ==
    /\ deployCache # deployment \/ "deployment" \in coming
    /\ deployCache' = deployment
    /\ coming' = coming \ {"deployment"}
    /\ queued' = (queued \/ "deployment" \in coming)
    /\ UNCHANGED <<agent, tunnelVars, secret, secretCache, deployment, pods, pass, budget>>

\* Pods are started when the template changes, with the token that the agent's
\* Secret has then.
StartPods ==
    /\ deployment.there
    /\ secret.there
    /\ pods.template # deployment.template
    /\ pods' = [template |-> deployment.template, token |-> secret.token]
    /\ deployment' = [deployment EXCEPT !.available = TRUE]
    /\ DeploymentEvent
    /\ UNCHANGED <<agent, tunnelVars, secret, secretCache, deployCache, pass, queued, budget>>

StopPods ==
    /\ ~deployment.there
    /\ pods # NoPods
    /\ pods' = NoPods
    /\ UNCHANGED <<agent, tunnelVars, childVars, pass, queued, budget>>

\* A pod that dies is started again, from the same template.
RestartPods ==
    /\ deployment.there
    /\ secret.there
    /\ pods.template = deployment.template
    /\ pods' = [pods EXCEPT !.token = secret.token]
    /\ pods' # pods
    /\ Fault
    /\ UNCHANGED <<agent, tunnelVars, childVars, pass, queued>>

\* Without its Secret a pod does not come up again.
LosePods ==
    /\ deployment.there
    /\ deployment.available
    /\ deployment' = [deployment EXCEPT !.available = FALSE]
    /\ pods' = NoPods
    /\ Fault
    /\ DeploymentEvent
    /\ UNCHANGED <<agent, tunnelVars, secret, secretCache, deployCache, pass, queued>>

-----------------------------------------------------------------------------

PassStep ==
    \/ StartPass \/ ReadTunnel \/ ReadToken \/ EnsureSecret \/ Connect
    \/ CheckAgent \/ CheckTunnel \/ EnsureDeployment \/ WriteStatus

Users == \/ CreateAgent \/ EditAgent \/ DeleteAgent \/ CreateSecret \/ DeleteSecret
         \/ DeleteDeployment \/ ScaleDeployment

TunnelStep == \E t \in Tunnels :
    \/ CreateTunnel(t) \/ StoreToken(t) \/ PublishInvite(t) \/ AllocatePorts(t)
    \/ DeleteTunnel(t) \/ CollectToken(t)

Syncs == SyncSecret \/ SyncDeployment \/ \E t \in Tunnels : SyncToken(t)
Collections == CollectSecret \/ CollectDeployment
Kubelet == StartPods \/ StopPods

Next == \/ PassStep \/ Crash \/ Users \/ TunnelStep \/ Syncs \/ Collections
        \/ Kubelet \/ RestartPods \/ LosePods

Spec == Init /\ [][Next]_vars

\* A queued pass is run and goes on; each informer catches up; orphans are
\* collected; pods are started and stopped.  Tunnels and users owe nothing.
FairSpec ==
    /\ Spec
    /\ WF_vars(PassStep)
    /\ WF_vars(SyncSecret)
    /\ WF_vars(SyncDeployment)
    /\ \A t \in Tunnels : WF_vars(SyncToken(t))
    /\ WF_vars(CollectSecret)
    /\ WF_vars(CollectDeployment)
    /\ WF_vars(StartPods)
    /\ WF_vars(StopPods)

-----------------------------------------------------------------------------

SecretType == [there : BOOLEAN, invite : MaybeInvite, token : MaybeInvite, owner : Nat]
DeploymentType == [there : BOOLEAN, owner : Nat, template : TemplateType,
                   scale : Scales, available : BOOLEAN]
PassType == [at : Steps, uid : Nat, gen : Nat, spec : Specs, orig : StatusType,
             status : StatusType, tunnel : TunnelType, token : MaybeInvite,
             stale : BOOLEAN, moved : BOOLEAN, retry : BOOLEAN, together : BOOLEAN]

TypeOK ==
    /\ agent \in [there : BOOLEAN, uid : Nat, gen : Nat, spec : Specs, status : StatusType]
    /\ tunnels \in [Tunnels -> TunnelType]
    /\ tokens \in [Tunnels -> MaybeInvite]
    /\ tokenCache \in [Tunnels -> MaybeInvite]
    /\ issued \in [Tunnels -> SUBSET Invites]
    /\ leftover \subseteq Tunnels
    /\ {secret, secretCache} \subseteq SecretType
    /\ {deployment, deployCache} \subseteq DeploymentType
    /\ coming \subseteq {"secret", "deployment"}
    /\ pods \in [template : TemplateType, token : MaybeInvite]
    /\ pass \in PassType
    /\ queued \in BOOLEAN
    /\ budget \in [edits : Nat, meddling : Nat, faults : Nat]

(* Safety.                                                                 *)

\* The two rechecks make a snapshot of the two reads: whatever users and the
\* tunnel do meanwhile, a Deployment is only given a spec and an invite that
\* were both current at one moment of the pass (checkAgentUnchanged and
\* checkTunnelUnchanged, towonelagent_controller.go).
ConsistentSnapshot ==
    [][ EnsureDeployment /\ deployment' # deployment => pass.together ]_vars

\* The copy of a token is annotated with the invite it belongs to, however late
\* the cache is that the token was read from: ensureAgentSecret never writes a
\* Secret again whose annotation is right (the TokenStale gate, readTunnelToken).
CopyIsGenuine ==
    secret.owner # User => secret.token = secret.invite

Tunnel == tunnels[agent.spec.tunnel]
Usable == /\ Tunnel.there
          /\ Tunnel.invite # NoInvite
          /\ tokens[agent.spec.tunnel] = Tunnel.invite
Clash == secret.there /\ secret.owner = User
Template == TemplateOf(agent.spec, Tunnel)
StatusTells ==
    /\ agent.status.tunnel = "True"
    /\ agent.status.rendered = "True"
    /\ agent.status.hash = Template
    /\ agent.status.seen = agent.gen
    /\ agent.status.phase = "Ready"
         <=> deployment.available /\ (agent.spec.l4 => Tunnel.ports)
Rendered ==
    /\ secret = [there |-> TRUE, invite |-> Tunnel.invite, token |-> Tunnel.invite,
                 owner |-> agent.uid]
    /\ deployment.there /\ deployment.owner = agent.uid
    /\ deployment.template = Template /\ deployment.scale = agent.spec.scale
    /\ StatusTells

\* Nothing is left for the operator, the informers, the collector or the kubelet.
Quiet == /\ pass.at = "idle" /\ ~queued
         /\ coming = {} /\ secretCache = secret /\ deployCache = deployment
         /\ tokenCache = tokens
         /\ ~Orphan(secret) /\ ~Orphan(deployment)
         /\ deployment.there => pods.template = deployment.template

\* Nothing is forgotten: a pass that succeeds asks for no other one, so when the
\* queue is empty and no event is on its way, Secret, Deployment and status are
\* those of spec and tunnel, whatever a late cache hid from the passes before.
NothingForgotten ==
    agent.there /\ Usable /\ ~Clash /\ Quiet => Rendered

\* A new token reaches the pods: once nothing is left to do they run with the
\* token of the tunnel's invite, although the hash that rolls them is computed
\* without it (agentConfig.hash, towonelagent_deploy.go).  It holds of an agent
\* that stays with its tunnel, and not of one that is moved and moved back; nor of
\* one in whose place a user put a Secret, which the agent then adopted.
RotationReachesPods ==
    agent.there /\ Usable /\ ~Clash /\ Quiet => pods.token = Tunnel.invite

(* Liveness, under FairSpec.                                               *)

\* Left alone, the agent's Secret, Deployment and status are those of its spec and
\* tunnel, or it waits for the tunnel (Reconcile, its requeues and its watches).
EventuallySettled ==
    <>[](agent.there /\ ~Clash =>
           IF Usable THEN Rendered ELSE agent.status.phase = "Waiting")

\* The children of a deleted agent go, those included that a pass applied after
\* the deletion: the agent has no finalizer, only owner references.
ChildrenCollected ==
    <>[](~agent.there => /\ ~deployment.there
                         /\ secret.there => secret.owner = User
                         /\ pods = NoPods)
=============================================================================
