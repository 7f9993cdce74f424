------------------------ MODULE TowonelAgentProofs ------------------------
(* Theorems about the TowonelAgent reconciler, for any tunnels, invites,   *)
(* routes, specs and bounds.                                               *)
EXTENDS TowonelAgent, TLAPS

(***************************************************************************)
(* The inductive invariant.  A pass holds copies of the agent, the tunnel  *)
(* and the token; each part says what such a copy is worth.                *)
(***************************************************************************)

Started == {"tunnel", "token", "secret", "connect", "checkAgent", "checkTunnel", "deploy",
            "write"}
TunnelRead == {"token", "secret", "connect", "checkAgent", "checkTunnel", "deploy"}
TokenRead == {"secret", "connect", "checkAgent", "checkTunnel", "deploy"}

\* Uids and generations only grow, and together they tell the spec.
GenerationTellsSpec ==
    pass.at # "idle" =>
      /\ pass.uid <= agent.uid
      /\ agent.uid = pass.uid => /\ pass.gen <= agent.gen
                                 /\ agent.gen = pass.gen => agent.spec = pass.spec

\* The tunnel is as it was read until a change of it marks the pass.
TunnelAsRead ==
    pass.at \in TunnelRead /\ ~pass.moved => tunnels[pass.spec.tunnel] = pass.tunnel

\* The token is that of the invite read before.
TokenOfInvite == pass.at \in TokenRead => pass.token = pass.tunnel.invite

\* A pass that goes on past the rechecks saw both copies current at once.
SeenTogether ==
    /\ pass.at = "checkTunnel" /\ ~pass.moved => pass.together
    /\ pass.at = "deploy" => pass.together

IInv == /\ TypeOK /\ GenerationTellsSpec /\ TunnelAsRead /\ TokenOfInvite
        /\ SeenTogether /\ CopyIsGenuine

(***************************************************************************)
(* Types.                                                                  *)
(***************************************************************************)

AgentType == [there : BOOLEAN, uid : Nat, gen : Nat, spec : Specs, status : StatusType]
BudgetType == [edits : Nat, meddling : Nat, faults : Nat]

\* There is a spec, and so a route and a scale, for the defaults to choose.
LEMMA InitialTypes ==
    /\ NoTemplate \in TemplateType
    /\ NoStatus \in StatusType
    /\ NoTunnel \in TunnelType
    /\ NoSecret \in SecretType
    /\ NoDeployment \in DeploymentType
    /\ NoPods \in [template : TemplateType, token : MaybeInvite]
    /\ NoPass \in PassType
<1>1. PICK s \in Specs : s.routes \in Routes /\ s.scale \in Scales
  BY SpecsAssumption DEF SpecType
<1>2. /\ (CHOOSE r \in Routes : TRUE) \in Routes
      /\ (CHOOSE c \in Scales : TRUE) \in Scales
      /\ (CHOOSE t \in Specs : TRUE) \in Specs
  BY <1>1
<1>3. NoTemplate \in TemplateType
  BY <1>2 DEF NoTemplate, TemplateType, MaybeInvite
<1>4. NoStatus \in StatusType
  BY <1>3 DEF NoStatus, StatusType, Condition
<1>5. NoTunnel \in TunnelType /\ NoSecret \in SecretType
  BY DEF NoTunnel, TunnelType, NoSecret, SecretType, MaybeInvite, User
<1>6. NoDeployment \in DeploymentType
  BY <1>2, <1>3 DEF NoDeployment, DeploymentType, User
<1>7. NoPods \in [template : TemplateType, token : MaybeInvite]
  BY <1>3 DEF NoPods, MaybeInvite
<1>8. NoPass \in PassType
  BY <1>2, <1>4, <1>5 DEF NoPass, PassType, Steps, MaybeInvite
<1> QED
  BY <1>3, <1>4, <1>5, <1>6, <1>7, <1>8

LEMMA InitTypeOK == Init => TypeOK
<1> SUFFICES ASSUME Init PROVE TypeOK
  OBVIOUS
<1>1. NoPass.spec \in Specs
  BY InitialTypes DEF PassType
<1>2. agent \in AgentType
  BY <1>1, InitialTypes DEF Init, AgentType
<1>3. tunnels \in [Tunnels -> TunnelType]
  BY InitialTypes DEF Init
<1>4. /\ tokens \in [Tunnels -> MaybeInvite]
      /\ tokenCache \in [Tunnels -> MaybeInvite]
      /\ issued \in [Tunnels -> SUBSET Invites]
  BY DEF Init, MaybeInvite
<1> QED
  BY <1>2, <1>3, <1>4, InitialTypes DEF Init, TypeOK, AgentType

\* What ends a step of the pass keeps its type.
LEMMA EndTypes ==
    ASSUME NEW p \in PassType
    PROVE  /\ Waiting(p) \in PassType
           /\ Failed(p) \in PassType
           /\ \A step \in Steps : [p EXCEPT !.at = step] \in PassType
<1>1. p.status \in StatusType
  BY DEF PassType
<1>2. /\ [p.status EXCEPT !.tunnel = "False", !.phase = "Waiting"] \in StatusType
      /\ [p.status EXCEPT !.rendered = "False", !.phase = "Pending"] \in StatusType
  BY <1>1 DEF StatusType, Condition
<1>3. \A s \in StatusType : [p EXCEPT !.at = "write", !.retry = TRUE, !.status = s] \in PassType
  BY DEF PassType, Steps
<1>4. /\ Waiting(p) = [p EXCEPT !.at = "write", !.retry = TRUE,
                        !.status = [p.status EXCEPT !.tunnel = "False", !.phase = "Waiting"]]
      /\ Failed(p) = [p EXCEPT !.at = "write", !.retry = TRUE,
                       !.status = [p.status EXCEPT !.rendered = "False", !.phase = "Pending"]]
  BY DEF Waiting, Failed, PassType, StatusType
<1>5. \A step \in Steps : [p EXCEPT !.at = step] \in PassType
  BY DEF PassType
<1> QED
  BY <1>2, <1>3, <1>4, <1>5

LEMMA EndPassType ==
    ASSUME TypeOK, NEW again \in BOOLEAN, EndPass(again)
    PROVE  pass' \in PassType /\ queued' \in BOOLEAN
<1>1. queued \in BOOLEAN
  BY DEF TypeOK
<1> QED
  BY <1>1, InitialTypes DEF EndPass

LEMMA BudgetTypes ==
    ASSUME TypeOK, NoFault \/ Fault \/ Edit \/ Meddle
    PROVE  budget' \in BudgetType
BY DEF TypeOK, NoFault, Fault, Edit, Meddle, BudgetType

LEMMA EventType ==
    ASSUME TypeOK, SecretEvent \/ DeploymentEvent
    PROVE  coming' \subseteq {"secret", "deployment"}
BY DEF TypeOK, SecretEvent, DeploymentEvent, ChildEvent

LEMMA TouchedTypes ==
    ASSUME TypeOK, AgentTouched \/ \E t \in Tunnels : TunnelTouched(t)
    PROVE  pass' \in PassType /\ queued' \in BOOLEAN
<1>1. pass \in PassType /\ queued \in BOOLEAN
  BY DEF TypeOK
<1>2. [pass EXCEPT !.stale = TRUE] \in PassType /\ [pass EXCEPT !.moved = TRUE] \in PassType
  BY <1>1 DEF PassType
<1> QED
  BY <1>1, <1>2 DEF AgentTouched, TunnelTouched

LEMMA TemplateTypes ==
    ASSUME NEW s \in Specs, NEW t \in TunnelType
    PROVE  TemplateOf(s, t) \in TemplateType
<1>1. s.routes \in Routes /\ s.l4 \in BOOLEAN /\ t.ports \in BOOLEAN /\ t.invite \in MaybeInvite
  BY SpecsAssumption DEF SpecType, TunnelType
<1>2. (s.l4 /\ t.ports) \in BOOLEAN
  BY <1>1
<1> QED
  BY <1>1, <1>2 DEF TemplateOf, TemplateType

LEMMA RolledUpType ==
    ASSUME NEW p \in PassType, NEW available \in BOOLEAN
    PROVE  RolledUp(p, available) \in PassType
<1> DEFINE ports == ~p.spec.l4 \/ p.tunnel.ports
           all == ports /\ available /\ p.status.tunnel = "True"
           s == [p.status EXCEPT
                  !.rendered = "True",
                  !.ports = IF ports THEN "True" ELSE "False",
                  !.workload = IF available THEN "True" ELSE "False",
                  !.hash = TemplateOf(p.spec, p.tunnel),
                  !.phase = IF all THEN "Ready" ELSE "Pending"]
<1>1. p.status \in StatusType /\ TemplateOf(p.spec, p.tunnel) \in TemplateType
  BY TemplateTypes DEF PassType
<1>2. /\ (IF ports THEN "True" ELSE "False") \in Condition
      /\ (IF available THEN "True" ELSE "False") \in Condition
      /\ (IF all THEN "Ready" ELSE "Pending") \in {"None", "Waiting", "Pending", "Ready"}
  BY DEF Condition
<1>3. RolledUp(p, available) = [p EXCEPT !.at = "write", !.status = s]
  BY DEF RolledUp, PassType, StatusType
<1> HIDE DEF ports, all
<1>4. s \in StatusType
  BY <1>1, <1>2 DEF StatusType, Condition
<1> HIDE DEF s
<1> QED
  BY <1>3, <1>4 DEF PassType, Steps

\* The steps of a pass keep the types.
LEMMA PassTypes ==
    ASSUME TypeOK, PassStep \/ Crash
    PROVE  TypeOK'
<1>1. /\ pass \in PassType /\ agent \in AgentType /\ queued \in BOOLEAN
      /\ tunnels \in [Tunnels -> TunnelType] /\ tokenCache \in [Tunnels -> MaybeInvite]
      /\ secret \in SecretType /\ secretCache \in SecretType
      /\ deployment \in DeploymentType /\ deployCache \in DeploymentType
      /\ pass.spec.tunnel \in Tunnels /\ pass.spec \in Specs /\ pass.spec.scale \in Scales
      /\ pass.tunnel \in TunnelType
      /\ pass.uid \in Nat /\ pass.gen \in Nat
  BY SpecsAssumption DEF TypeOK, AgentType, PassType, SpecType
<1>2. CASE StartPass
  <2>1. [NoPass EXCEPT !.at = "tunnel", !.uid = agent.uid, !.gen = agent.gen,
           !.spec = agent.spec, !.orig = agent.status, !.status = agent.status] \in PassType
    BY <1>1, InitialTypes DEF PassType, AgentType, Steps
  <2>2. pass' \in PassType /\ queued' \in BOOLEAN
    BY <1>2, <2>1, InitialTypes DEF StartPass
  <2> QED
    BY <1>2, <2>2 DEF StartPass, TypeOK, tunnelVars, childVars
<1>3. CASE ReadTunnel
  <2>1. tunnels[pass.spec.tunnel] \in TunnelType
    BY <1>1
  <2>2. \A t \in TunnelType : [pass EXCEPT !.at = "token", !.tunnel = t] \in PassType
    BY <1>1 DEF PassType, Steps
  <2>3. pass' \in PassType
    BY <1>1, <1>3, <2>1, <2>2, EndTypes DEF ReadTunnel
  <2> QED
    BY <1>3, <2>3 DEF ReadTunnel, TypeOK, tunnelVars, childVars
<1>4. CASE ReadToken
  <2>1. tokenCache[pass.spec.tunnel] \in MaybeInvite
    BY <1>1
  <2>2. pass.status \in StatusType
    BY <1>1 DEF PassType
  <2>3. [pass.status EXCEPT !.tunnel = "True"] \in StatusType
    BY <2>2 DEF StatusType, Condition
  <2>4. [pass EXCEPT !.at = "secret", !.status = [pass.status EXCEPT !.tunnel = "True"],
                     !.token = tokenCache[pass.spec.tunnel]] \in PassType
    BY <1>1, <2>1, <2>3 DEF PassType, Steps
  <2>5. [pass EXCEPT !.at = "secret", !.status.tunnel = "True",
                     !.token = tokenCache[pass.spec.tunnel]] \in PassType
    BY <1>1, <2>4 DEF PassType
  <2>6. pass' \in PassType
    BY <1>1, <1>4, <2>5, EndTypes DEF ReadToken
  <2> QED
    BY <1>4, <2>6 DEF ReadToken, TypeOK, tunnelVars, childVars
<1>5. CASE EnsureSecret
  <2> DEFINE copy == [there |-> TRUE, invite |-> pass.tunnel.invite,
                      token |-> pass.token, owner |-> OwnerReference]
  <2>1. copy \in SecretType
    BY <1>1 DEF SecretType, OwnerReference, PassType, TunnelType
  <2>2. secret' = secret \/ secret' = copy
    BY <1>5 DEF EnsureSecret
  <2>3. secret' \in SecretType
    BY <1>1, <2>1, <2>2
  <2>4. pass' = Failed(pass) \/ pass' = [pass EXCEPT !.at = "connect"]
    BY <1>5 DEF EnsureSecret, Goto
  <2>5. pass' \in PassType
    BY <1>1, <2>4, EndTypes DEF Steps
  <2>6. budget' \in BudgetType /\ coming' \subseteq {"secret", "deployment"}
    BY <1>5, BudgetTypes, EventType DEF EnsureSecret
  <2> QED
    BY <1>5, <2>3, <2>5, <2>6 DEF EnsureSecret, TypeOK, tunnelVars, childVars, BudgetType
<1>6. CASE Connect
  <2>1. pass' \in PassType
    BY <1>1, <1>6, EndTypes DEF Connect, Goto, Steps
  <2>2. budget' \in BudgetType
    BY <1>6, BudgetTypes DEF Connect
  <2> QED
    BY <1>6, <2>1, <2>2 DEF Connect, TypeOK, tunnelVars, childVars, BudgetType
<1>7. CASE CheckAgent
  <2>1. \A b \in BOOLEAN : [pass EXCEPT !.at = "checkTunnel", !.together = b] \in PassType
    BY <1>1 DEF PassType, Steps
  <2>2. (/\ agent.uid = pass.uid /\ agent.spec = pass.spec
         /\ tunnels[pass.spec.tunnel] = pass.tunnel) \in BOOLEAN
    OBVIOUS
  <2>3. pass' \in PassType /\ queued' \in BOOLEAN
    BY <1>1, <1>7, <2>1, <2>2, EndPassType DEF CheckAgent
  <2> QED
    BY <1>7, <2>3 DEF CheckAgent, TypeOK, tunnelVars, childVars
<1>8. CASE CheckTunnel
  <2>1. pass' \in PassType /\ queued' \in BOOLEAN
    BY <1>1, <1>8, EndTypes, EndPassType DEF CheckTunnel, Goto, Steps
  <2> QED
    BY <1>8, <2>1 DEF CheckTunnel, TypeOK, tunnelVars, childVars
<1>9. CASE EnsureDeployment
  <2> DEFINE applied == [there |-> TRUE, owner |-> OwnerReference,
                         template |-> TemplateOf(pass.spec, pass.tunnel),
                         scale |-> pass.spec.scale, available |-> deployment.available]
  <2>1. applied \in DeploymentType
    BY <1>1, TemplateTypes DEF DeploymentType, OwnerReference
  <2>2. deployment' = deployment \/ deployment' = applied
    BY <1>9 DEF EnsureDeployment
  <2>3. deployment' \in DeploymentType
    BY <1>1, <2>1, <2>2
  <2>4. pass' = Failed(pass) \/ pass' = RolledUp(pass, deployCache.available)
    BY <1>9 DEF EnsureDeployment
  <2>5. deployCache.available \in BOOLEAN
    BY <1>1 DEF DeploymentType
  <2>6. pass' \in PassType
    BY <1>1, <2>4, <2>5, EndTypes, RolledUpType
  <2>7. budget' \in BudgetType /\ coming' \subseteq {"secret", "deployment"}
    BY <1>9, BudgetTypes, EventType DEF EnsureDeployment
  <2> QED
    BY <1>9, <2>3, <2>6, <2>7 DEF EnsureDeployment, TypeOK, tunnelVars, childVars, BudgetType
<1>10. CASE WriteStatus
  <2> DEFINE written == [pass.status EXCEPT !.seen = pass.gen]
  <2>1. written \in StatusType
    BY <1>1 DEF PassType, StatusType
  <2>2. agent' = agent \/ agent' = [agent EXCEPT !.status = written]
    BY <1>10 DEF WriteStatus
  <2>3. agent' \in AgentType
    BY <1>1, <2>1, <2>2 DEF AgentType
  <2>4. pass.retry \in BOOLEAN
    BY <1>1 DEF PassType
  <2>5. pass' \in PassType /\ queued' \in BOOLEAN
    BY <1>10, <2>4, EndPassType DEF WriteStatus
  <2> QED
    BY <1>10, <2>3, <2>5 DEF WriteStatus, TypeOK, tunnelVars, childVars, AgentType
<1>11. CASE Crash
  <2>1. pass' \in PassType /\ queued' \in BOOLEAN /\ budget' \in BudgetType
    BY <1>11, EndPassType, BudgetTypes DEF Crash
  <2> QED
    BY <1>11, <2>1 DEF Crash, TypeOK, tunnelVars, childVars, BudgetType
<1> QED
  BY <1>2, <1>3, <1>4, <1>5, <1>6, <1>7, <1>8, <1>9, <1>10, <1>11 DEF PassStep

LEMMA UsersTypes ==
    ASSUME TypeOK, Users
    PROVE  TypeOK'
<1>1. /\ agent \in AgentType /\ secret \in SecretType /\ deployment \in DeploymentType
      /\ NoSecret \in SecretType /\ NoDeployment \in DeploymentType
  BY InitialTypes DEF TypeOK, AgentType
<1>2. CASE CreateAgent \/ EditAgent \/ DeleteAgent
  <2>1. agent' \in AgentType
    <3>1. CASE CreateAgent
      BY <1>1, <3>1, InitialTypes DEF CreateAgent, AgentType
    <3>2. CASE EditAgent
      <4>1. PICK s \in Specs : agent' = [agent EXCEPT !.spec = s, !.gen = agent.gen + 1]
        BY <1>1, <3>2 DEF EditAgent, AgentType
      <4>2. agent.gen + 1 \in Nat
        BY <1>1 DEF AgentType
      <4> QED
        BY <1>1, <4>1, <4>2 DEF AgentType
    <3>3. CASE DeleteAgent
      BY <1>1, <3>3 DEF DeleteAgent, AgentType
    <3> QED
      BY <1>2, <3>1, <3>2, <3>3
  <2>2. budget' \in BudgetType
    BY <1>2, BudgetTypes DEF CreateAgent, EditAgent, DeleteAgent, TypeOK, BudgetType
  <2>3. AgentTouched
    BY <1>2 DEF CreateAgent, EditAgent, DeleteAgent
  <2> QED
    BY <1>2, <2>1, <2>2, <2>3, TouchedTypes
    DEF CreateAgent, EditAgent, DeleteAgent, TypeOK, tunnelVars, childVars, AgentType, BudgetType
<1>3. CASE CreateSecret \/ DeleteSecret
  <2>1. secret' \in SecretType
    BY <1>1, <1>3 DEF CreateSecret, DeleteSecret, SecretType
  <2>2. budget' \in BudgetType /\ coming' \subseteq {"secret", "deployment"}
    BY <1>3, BudgetTypes, EventType DEF CreateSecret, DeleteSecret
  <2> QED
    BY <1>3, <2>1, <2>2 DEF CreateSecret, DeleteSecret, TypeOK, tunnelVars, BudgetType
<1>4. CASE DeleteDeployment \/ ScaleDeployment
  <2>1. deployment' \in DeploymentType
    BY <1>1, <1>4 DEF DeleteDeployment, ScaleDeployment, DeploymentType
  <2>2. budget' \in BudgetType /\ coming' \subseteq {"secret", "deployment"}
    BY <1>4, BudgetTypes, EventType DEF DeleteDeployment, ScaleDeployment
  <2> QED
    BY <1>4, <2>1, <2>2 DEF DeleteDeployment, ScaleDeployment, TypeOK, tunnelVars, BudgetType
<1> QED
  BY <1>2, <1>3, <1>4 DEF Users

LEMMA TunnelTypes ==
    ASSUME TypeOK, TunnelStep
    PROVE  TypeOK'
<1>1. /\ tunnels \in [Tunnels -> TunnelType] /\ tokens \in [Tunnels -> MaybeInvite]
      /\ issued \in [Tunnels -> SUBSET Invites] /\ NoTunnel \in TunnelType
  BY InitialTypes DEF TypeOK
<1>2. PICK t \in Tunnels : \/ CreateTunnel(t) \/ StoreToken(t) \/ PublishInvite(t)
                           \/ AllocatePorts(t) \/ DeleteTunnel(t) \/ CollectToken(t)
  BY DEF TunnelStep
<1>3. tunnels[t] \in TunnelType /\ issued[t] \subseteq Invites
  BY <1>1
<1>4. tunnels' \in [Tunnels -> TunnelType]
  <2>1. \A u \in TunnelType : [tunnels EXCEPT ![t] = u] \in [Tunnels -> TunnelType]
    BY <1>1
  <2>2. /\ [NoTunnel EXCEPT !.there = TRUE] \in TunnelType
        /\ [tunnels[t] EXCEPT !.ports = TRUE] \in TunnelType
        /\ \A i \in Invites : [tunnels[t] EXCEPT !.invite = i] \in TunnelType
    BY <1>1, <1>3 DEF TunnelType, MaybeInvite
  <2>3. \/ tunnels' = tunnels
        \/ tunnels' = [tunnels EXCEPT ![t] = [NoTunnel EXCEPT !.there = TRUE]]
        \/ tunnels' = [tunnels EXCEPT ![t] = NoTunnel]
        \/ tunnels' = [tunnels EXCEPT ![t] = [tunnels[t] EXCEPT !.ports = TRUE]]
        \/ \E i \in issued[t] :
             tunnels' = [tunnels EXCEPT ![t] = [tunnels[t] EXCEPT !.invite = i]]
    BY <1>2 DEF CreateTunnel, StoreToken, PublishInvite, AllocatePorts, DeleteTunnel, CollectToken
  <2> QED
    BY <1>1, <1>3, <2>1, <2>2, <2>3
<1>5. /\ tokens' \in [Tunnels -> MaybeInvite]
      /\ issued' \in [Tunnels -> SUBSET Invites]
      /\ leftover' \subseteq Tunnels
  <2>1. leftover \subseteq Tunnels
    BY DEF TypeOK
  <2> QED
    BY <1>1, <1>2, <1>3, <2>1
    DEF CreateTunnel, StoreToken, PublishInvite, AllocatePorts, DeleteTunnel, CollectToken,
        MaybeInvite
<1>6. pass' \in PassType /\ queued' \in BOOLEAN /\ budget' \in BudgetType
  <2>1. pass \in PassType /\ queued \in BOOLEAN /\ budget \in BudgetType
    BY DEF TypeOK, BudgetType
  <2> QED
    BY <1>2, <2>1, TouchedTypes, BudgetTypes
    DEF CreateTunnel, StoreToken, PublishInvite, AllocatePorts, DeleteTunnel, CollectToken
<1> QED
  BY <1>2, <1>4, <1>5, <1>6
  DEF CreateTunnel, StoreToken, PublishInvite, AllocatePorts, DeleteTunnel, CollectToken,
      TypeOK, childVars, BudgetType

LEMMA ClusterTypes ==
    ASSUME TypeOK, Syncs \/ Collections \/ Kubelet \/ RestartPods \/ LosePods
    PROVE  TypeOK'
<1>1. /\ secret \in SecretType /\ deployment \in DeploymentType
      /\ NoSecret \in SecretType /\ NoDeployment \in DeploymentType
      /\ NoPods \in [template : TemplateType, token : MaybeInvite]
      /\ pods \in [template : TemplateType, token : MaybeInvite]
      /\ secret.token \in MaybeInvite /\ deployment.template \in TemplateType
      /\ queued \in BOOLEAN /\ coming \subseteq {"secret", "deployment"}
  BY InitialTypes DEF TypeOK, SecretType, DeploymentType
<1>2. CASE Syncs
  <2>1. CASE SyncSecret
    BY <1>1, <2>1 DEF SyncSecret, TypeOK, tunnelVars
  <2>2. CASE SyncDeployment
    BY <1>1, <2>2 DEF SyncDeployment, TypeOK, tunnelVars
  <2>3. ASSUME NEW t \in Tunnels, SyncToken(t)
        PROVE  TypeOK'
    BY <2>3 DEF SyncToken, TypeOK, childVars
  <2> QED
    BY <1>2, <2>1, <2>2, <2>3 DEF Syncs
<1>3. CASE CollectSecret
  BY <1>1, <1>3, EventType DEF CollectSecret, TypeOK, tunnelVars
<1>4. CASE CollectDeployment
  BY <1>1, <1>4, EventType DEF CollectDeployment, TypeOK, tunnelVars
<1>5. CASE StartPods \/ LosePods
  <2>1. /\ deployment' \in DeploymentType
        /\ pods' \in [template : TemplateType, token : MaybeInvite]
    <3>1. \A b \in BOOLEAN : [deployment EXCEPT !.available = b] \in DeploymentType
      BY <1>1 DEF DeploymentType
    <3>2. [template |-> deployment.template, token |-> secret.token]
            \in [template : TemplateType, token : MaybeInvite]
      BY <1>1
    <3> QED
      BY <1>1, <1>5, <3>1, <3>2 DEF StartPods, LosePods
  <2>2. budget' \in BudgetType /\ coming' \subseteq {"secret", "deployment"}
    BY <1>5, BudgetTypes, EventType DEF StartPods, LosePods, TypeOK, BudgetType
  <2> QED
    BY <1>5, <2>1, <2>2 DEF StartPods, LosePods, TypeOK, tunnelVars, BudgetType
<1>6. CASE StopPods
  BY <1>1, <1>6 DEF StopPods, TypeOK, tunnelVars, childVars
<1>7. CASE RestartPods
  <2>1. pods' \in [template : TemplateType, token : MaybeInvite]
    BY <1>1, <1>7 DEF RestartPods
  <2> QED
    BY <1>7, <2>1, BudgetTypes DEF RestartPods, TypeOK, tunnelVars, childVars, BudgetType
<1> QED
  BY <1>2, <1>3, <1>4, <1>5, <1>6, <1>7 DEF Collections, Kubelet

LEMMA NextTypeOK ==
    ASSUME TypeOK, [Next]_vars
    PROVE  TypeOK'
<1>1. CASE UNCHANGED vars
  BY <1>1 DEF vars, tunnelVars, childVars, TypeOK
<1> QED
  BY <1>1, PassTypes, UsersTypes, TunnelTypes, ClusterTypes DEF Next

(***************************************************************************)
(* What the copies are worth, step by step.                                *)
(***************************************************************************)

Copies == GenerationTellsSpec /\ TunnelAsRead /\ TokenOfInvite /\ SeenTogether

LEMMA StepSets ==
    /\ Started = TunnelRead \union {"tunnel", "write"}
    /\ "tunnel" \notin TunnelRead /\ "write" \notin TunnelRead /\ "idle" \notin TunnelRead
    /\ TokenRead \subseteq TunnelRead /\ "token" \notin TokenRead
BY DEF Started, TunnelRead, TokenRead

\* A pass that is over holds nothing.
LEMMA NothingHeld ==
    ASSUME NEW again, EndPass(again)
    PROVE  Copies'
BY StepSets DEF EndPass, NoPass, Copies, GenerationTellsSpec, TunnelAsRead, TokenOfInvite,
   SeenTogether

\* The spec stays what uid and generation tell while neither agent nor copy move.
LEMMA SameGeneration ==
    ASSUME IInv, pass.at # "idle", UNCHANGED <<agent.uid, agent.gen, agent.spec>>,
           pass'.uid = pass.uid, pass'.gen = pass.gen, pass'.spec = pass.spec
    PROVE  GenerationTellsSpec'
BY DEF IInv, GenerationTellsSpec

\* A pass that gives up goes to write its status.
LEMMA GivesUp ==
    ASSUME IInv, pass.at # "idle", UNCHANGED agent,
           pass' = Waiting(pass) \/ pass' = Failed(pass)
           \/ \E available : pass' = RolledUp(pass, available)
    PROVE  Copies'
<1>1. pass \in PassType
  BY DEF IInv, TypeOK
<1>2. /\ pass'.at = "write" /\ pass'.uid = pass.uid
      /\ pass'.gen = pass.gen /\ pass'.spec = pass.spec
  BY <1>1 DEF Waiting, Failed, RolledUp, PassType
<1>3. GenerationTellsSpec'
  BY <1>2, SameGeneration
<1> QED
  BY <1>2, <1>3, StepSets DEF Copies, TunnelAsRead, TokenOfInvite, SeenTogether

LEMMA PassCopies ==
    ASSUME IInv, PassStep
    PROVE  Copies' /\ CopyIsGenuine'
<1>1. /\ pass \in PassType /\ agent \in AgentType /\ CopyIsGenuine
      /\ agent.uid \in Nat /\ agent.gen \in Nat
  BY DEF IInv, TypeOK, AgentType
<1>2. CASE StartPass
  <2>1. UNCHANGED <<agent, secret>>
    BY <1>2 DEF StartPass, childVars
  <2>2. \/ pass' = NoPass
        \/ /\ pass'.at = "tunnel" /\ pass'.uid = agent.uid /\ pass'.gen = agent.gen
           /\ pass'.spec = agent.spec
    BY <1>2, InitialTypes DEF StartPass, PassType
  <2>3. GenerationTellsSpec'
    BY <1>1, <2>1, <2>2 DEF GenerationTellsSpec, NoPass
  <2> QED
    BY <1>1, <2>1, <2>2, <2>3, StepSets
    DEF NoPass, Copies, TunnelAsRead, TokenOfInvite, SeenTogether, CopyIsGenuine
<1>3. CASE ReadTunnel
  <2>1. pass.at = "tunnel" /\ UNCHANGED <<agent, tunnels, secret>>
    BY <1>3 DEF ReadTunnel, tunnelVars, childVars
  <2>2. CASE pass' = Waiting(pass)
    BY <1>1, <2>1, <2>2, GivesUp DEF CopyIsGenuine
  <2>3. CASE pass' = [pass EXCEPT !.at = "token", !.tunnel = tunnels[pass.spec.tunnel]]
    <3>1. /\ pass'.at = "token" /\ pass'.uid = pass.uid /\ pass'.gen = pass.gen
          /\ pass'.spec = pass.spec /\ pass'.tunnel = tunnels[pass.spec.tunnel]
      BY <1>1, <2>3 DEF PassType
    <3>2. GenerationTellsSpec'
      BY <2>1, <3>1, SameGeneration
    <3> QED
      BY <1>1, <2>1, <3>1, <3>2, StepSets
      DEF Copies, TunnelAsRead, TokenOfInvite, SeenTogether, CopyIsGenuine
  <2> QED
    BY <1>3, <2>2, <2>3 DEF ReadTunnel
<1>4. CASE ReadToken
  <2>1. pass.at = "token" /\ UNCHANGED <<agent, tunnels, secret>>
    BY <1>4 DEF ReadToken, tunnelVars, childVars
  <2>2. CASE pass' = Waiting(pass)
    BY <1>1, <2>1, <2>2, GivesUp DEF CopyIsGenuine
  <2>3. CASE /\ TokenCurrent
             /\ pass' = [pass EXCEPT !.at = "secret", !.status.tunnel = "True",
                                     !.token = tokenCache[pass.spec.tunnel]]
    <3>1. /\ pass'.at = "secret" /\ pass'.uid = pass.uid /\ pass'.gen = pass.gen
          /\ pass'.spec = pass.spec /\ pass'.tunnel = pass.tunnel
          /\ pass'.moved = pass.moved /\ pass'.token = pass.tunnel.invite
      BY <1>1, <2>3 DEF PassType, TokenCurrent
    <3>2. GenerationTellsSpec'
      BY <2>1, <3>1, SameGeneration
    <3>3. TunnelAsRead'
      BY <2>1, <3>1 DEF IInv, TunnelAsRead, TunnelRead
    <3> QED
      BY <1>1, <2>1, <3>1, <3>2, <3>3
      DEF Copies, TokenOfInvite, SeenTogether, CopyIsGenuine
  <2> QED
    BY <1>4, <2>2, <2>3 DEF ReadToken
<1>5. ASSUME pass.at \in TokenRead, NEW step \in TokenRead \ {"deploy", "checkTunnel"},
             Goto(step), UNCHANGED <<agent, tunnels>>
      PROVE  Copies'
  <2>1. /\ pass'.at = step /\ pass'.uid = pass.uid /\ pass'.gen = pass.gen
        /\ pass'.spec = pass.spec /\ pass'.tunnel = pass.tunnel
        /\ pass'.moved = pass.moved /\ pass'.token = pass.token
    BY <1>1, <1>5 DEF PassType, Goto
  <2>2. GenerationTellsSpec'
    BY <1>5, <2>1, StepSets, SameGeneration
  <2> QED
    BY <1>5, <2>1, <2>2, StepSets
    DEF IInv, Copies, TunnelAsRead, TokenOfInvite, SeenTogether
<1>6. CASE EnsureSecret
  <2>1. pass.at = "secret" /\ UNCHANGED <<agent, tunnels>>
    BY <1>6 DEF EnsureSecret, tunnelVars
  <2>2. pass' = Failed(pass) \/ Goto("connect")
    BY <1>6 DEF EnsureSecret
  <2>3. Copies'
    BY <1>5, <2>1, <2>2, GivesUp DEF TokenRead
  <2>4. \/ secret' = secret
        \/ secret' = [there |-> TRUE, invite |-> pass.tunnel.invite, token |-> pass.token,
                      owner |-> OwnerReference]
    BY <1>6 DEF EnsureSecret
  <2>5. pass.token = pass.tunnel.invite
    BY <2>1 DEF IInv, TokenOfInvite, TokenRead
  <2> QED
    BY <1>1, <2>3, <2>4, <2>5 DEF CopyIsGenuine
<1>7. CASE Connect
  <2>1. pass.at = "connect" /\ UNCHANGED <<agent, tunnels, secret>>
    BY <1>7 DEF Connect, tunnelVars, childVars
  <2>2. pass' = Failed(pass) \/ Goto("checkAgent")
    BY <1>7 DEF Connect
  <2> QED
    BY <1>1, <1>5, <2>1, <2>2, GivesUp DEF TokenRead, CopyIsGenuine
<1>8. CASE CheckAgent
  <2>1. pass.at = "checkAgent" /\ UNCHANGED <<agent, tunnels, secret>>
    BY <1>8 DEF CheckAgent, tunnelVars, childVars
  <2>2. CASE EndPass(TRUE)
    BY <1>1, <2>1, <2>2, NothingHeld DEF CopyIsGenuine
  <2>3. CASE ~EndPass(TRUE)
    <3> DEFINE seen == /\ agent.uid = pass.uid /\ agent.spec = pass.spec
                       /\ tunnels[pass.spec.tunnel] = pass.tunnel
    <3>1. AgentUnchanged /\ pass' = [pass EXCEPT !.at = "checkTunnel", !.together = seen]
      BY <1>8, <2>3 DEF CheckAgent
    <3>2. /\ pass'.at = "checkTunnel" /\ pass'.uid = pass.uid /\ pass'.gen = pass.gen
          /\ pass'.spec = pass.spec /\ pass'.tunnel = pass.tunnel
          /\ pass'.moved = pass.moved /\ pass'.token = pass.token
          /\ pass'.together = seen
      BY <1>1, <3>1 DEF PassType
    <3>3. ~pass.moved => seen
      <4>1. agent.uid = pass.uid /\ agent.gen = pass.gen
        BY <3>1 DEF AgentUnchanged
      <4>2. agent.spec = pass.spec
        BY <2>1, <4>1 DEF IInv, GenerationTellsSpec
      <4> QED
        BY <2>1, <4>1, <4>2 DEF IInv, TunnelAsRead, TunnelRead
    <3>4. GenerationTellsSpec'
      BY <2>1, <3>2, SameGeneration
    <3> QED
      BY <1>1, <2>1, <3>2, <3>3, <3>4
      DEF IInv, Copies, TunnelAsRead, TokenOfInvite, SeenTogether, TunnelRead, TokenRead,
          CopyIsGenuine
  <2> QED
    BY <2>2, <2>3
<1>9. CASE CheckTunnel
  <2>1. pass.at = "checkTunnel" /\ UNCHANGED <<agent, tunnels, secret>>
    BY <1>9 DEF CheckTunnel, tunnelVars, childVars
  <2>2. CASE EndPass(TRUE)
    BY <1>1, <2>1, <2>2, NothingHeld DEF CopyIsGenuine
  <2>3. CASE TunnelUnchanged /\ Goto("deploy")
    <3>1. /\ pass'.at = "deploy" /\ pass'.uid = pass.uid /\ pass'.gen = pass.gen
          /\ pass'.spec = pass.spec /\ pass'.tunnel = pass.tunnel
          /\ pass'.moved = pass.moved /\ pass'.token = pass.token
          /\ pass'.together = pass.together
      BY <1>1, <2>3 DEF PassType, Goto
    <3>2. pass.together
      BY <2>1, <2>3 DEF TunnelUnchanged, IInv, SeenTogether
    <3>3. GenerationTellsSpec'
      BY <2>1, <3>1, SameGeneration
    <3> QED
      BY <1>1, <2>1, <3>1, <3>2, <3>3
      DEF IInv, Copies, TunnelAsRead, TokenOfInvite, SeenTogether, TunnelRead, TokenRead,
          CopyIsGenuine
  <2> QED
    BY <1>9, <2>2, <2>3 DEF CheckTunnel
<1>10. CASE EnsureDeployment
  <2>1. pass.at = "deploy" /\ UNCHANGED <<agent, secret>>
    BY <1>10 DEF EnsureDeployment
  <2>2. pass' = Failed(pass) \/ pass' = RolledUp(pass, deployCache.available)
    BY <1>10 DEF EnsureDeployment
  <2> QED
    BY <1>1, <2>1, <2>2, GivesUp DEF CopyIsGenuine
<1>11. CASE WriteStatus
  BY <1>1, <1>11, NothingHeld DEF WriteStatus, childVars, CopyIsGenuine
<1> QED
  BY <1>2, <1>3, <1>4, <1>6, <1>7, <1>8, <1>9, <1>10, <1>11 DEF PassStep

\* A new agent has a new uid, and an edit a new generation.
LEMMA UsersCopies ==
    ASSUME IInv, Users
    PROVE  Copies' /\ CopyIsGenuine'
<1>1. /\ pass \in PassType /\ agent \in AgentType /\ CopyIsGenuine
      /\ agent.uid \in Nat /\ agent.gen \in Nat /\ pass.uid \in Nat /\ pass.gen \in Nat
  BY DEF IInv, TypeOK, AgentType, PassType
<1>2. CASE CreateAgent \/ EditAgent \/ DeleteAgent
  <2>1. UNCHANGED <<tunnels, secret>> /\ AgentTouched
    BY <1>2 DEF CreateAgent, EditAgent, DeleteAgent, tunnelVars, childVars
  <2>2. /\ pass'.at = pass.at /\ pass'.uid = pass.uid /\ pass'.gen = pass.gen
        /\ pass'.spec = pass.spec /\ pass'.tunnel = pass.tunnel
        /\ pass'.moved = pass.moved /\ pass'.token = pass.token
        /\ pass'.together = pass.together
    BY <1>1, <2>1 DEF AgentTouched, PassType
  <2>3. \/ agent'.uid = agent.uid + 1
        \/ agent'.uid = agent.uid /\ agent'.gen = agent.gen + 1
        \/ agent'.uid = agent.uid /\ agent'.gen = agent.gen /\ agent'.spec = agent.spec
    <3>1. CASE CreateAgent
      BY <1>1, <3>1 DEF CreateAgent
    <3>2. CASE EditAgent
      BY <1>1, <3>2 DEF EditAgent, AgentType
    <3>3. CASE DeleteAgent
      BY <1>1, <3>3 DEF DeleteAgent, AgentType
    <3> QED
      BY <1>2, <3>1, <3>2, <3>3
  <2>4. GenerationTellsSpec'
    BY <1>1, <2>2, <2>3 DEF IInv, GenerationTellsSpec
  <2>5. TunnelAsRead' /\ TokenOfInvite' /\ SeenTogether'
    BY <2>1, <2>2 DEF IInv, TunnelAsRead, TokenOfInvite, SeenTogether
  <2> QED
    BY <1>1, <2>1, <2>4, <2>5 DEF Copies, CopyIsGenuine
<1>3. CASE \/ CreateSecret \/ DeleteSecret \/ DeleteDeployment \/ ScaleDeployment
  <2>1. UNCHANGED <<agent, tunnels, pass>>
    BY <1>3 DEF CreateSecret, DeleteSecret, DeleteDeployment, ScaleDeployment, tunnelVars
  <2>2. Copies'
    BY <2>1 DEF IInv, Copies, GenerationTellsSpec, TunnelAsRead, TokenOfInvite, SeenTogether
  <2>3. secret' = secret \/ secret'.owner = User
    BY <1>3 DEF CreateSecret, DeleteSecret, DeleteDeployment, ScaleDeployment, NoSecret
  <2> QED
    BY <1>1, <2>2, <2>3 DEF CopyIsGenuine
<1> QED
  BY <1>2, <1>3 DEF Users

\* A change of the pass's tunnel marks the pass.
LEMMA TunnelCopies ==
    ASSUME IInv, TunnelStep
    PROVE  Copies' /\ CopyIsGenuine'
<1>1. /\ pass \in PassType /\ CopyIsGenuine /\ pass.spec.tunnel \in Tunnels
      /\ tunnels \in [Tunnels -> TunnelType]
  BY SpecsAssumption DEF IInv, TypeOK, PassType, SpecType
<1>2. PICK t \in Tunnels : \/ CreateTunnel(t) \/ StoreToken(t) \/ PublishInvite(t)
                           \/ AllocatePorts(t) \/ DeleteTunnel(t) \/ CollectToken(t)
  BY DEF TunnelStep
<1>3. UNCHANGED <<agent, secret>>
  BY <1>2 DEF CreateTunnel, StoreToken, PublishInvite, AllocatePorts, DeleteTunnel,
     CollectToken, childVars
<1>4. \/ UNCHANGED <<tunnels, pass>>
      \/ TunnelTouched(t) /\ \E u : tunnels' = [tunnels EXCEPT ![t] = u]
  BY <1>2 DEF CreateTunnel, StoreToken, PublishInvite, AllocatePorts, DeleteTunnel, CollectToken
<1>5. /\ pass'.at = pass.at /\ pass'.uid = pass.uid /\ pass'.gen = pass.gen
      /\ pass'.spec = pass.spec /\ pass'.tunnel = pass.tunnel
      /\ pass'.token = pass.token /\ pass'.together = pass.together
      /\ ~pass'.moved => ~pass.moved
      /\ ~pass'.moved /\ pass.at \notin {"idle", "tunnel"}
           => tunnels'[pass.spec.tunnel] = tunnels[pass.spec.tunnel]
  BY <1>1, <1>4 DEF TunnelTouched, PassType
<1>6. GenerationTellsSpec'
  BY <1>3, <1>5 DEF IInv, GenerationTellsSpec
<1>7. TunnelAsRead' /\ TokenOfInvite' /\ SeenTogether'
  BY <1>5, StepSets DEF IInv, TunnelAsRead, TokenOfInvite, SeenTogether
<1> QED
  BY <1>1, <1>3, <1>6, <1>7 DEF Copies, CopyIsGenuine

LEMMA OtherCopies ==
    ASSUME IInv, Crash \/ Syncs \/ Collections \/ Kubelet \/ RestartPods \/ LosePods
    PROVE  Copies' /\ CopyIsGenuine'
<1>1. CopyIsGenuine
  BY DEF IInv
<1>2. CASE Crash
  BY <1>1, <1>2, NothingHeld DEF Crash, childVars, CopyIsGenuine
<1>3. CASE Syncs \/ Collections \/ Kubelet \/ RestartPods \/ LosePods
  <2>1. UNCHANGED <<agent, tunnels, pass>>
    BY <1>3 DEF Syncs, SyncSecret, SyncDeployment, SyncToken, Collections, CollectSecret,
       CollectDeployment, Kubelet, StartPods, StopPods, RestartPods, LosePods, tunnelVars
  <2>2. Copies'
    BY <2>1 DEF IInv, Copies, GenerationTellsSpec, TunnelAsRead, TokenOfInvite, SeenTogether
  <2>3. secret' = secret \/ secret'.owner = User
    BY <1>3 DEF Syncs, SyncSecret, SyncDeployment, SyncToken, Collections, CollectSecret,
       CollectDeployment, Kubelet, StartPods, StopPods, RestartPods, LosePods, NoSecret,
       childVars
  <2> QED
    BY <1>1, <2>2, <2>3 DEF CopyIsGenuine
<1> QED
  BY <1>2, <1>3

(***************************************************************************)
(* The theorems.                                                           *)
(***************************************************************************)

\* What every reachable state has: uid and generation tell the spec, the copies
\* of a pass are as they were read or the pass is marked, and so is its token.
THEOREM AgentInvariance == Spec => []IInv
<1>1. Init => IInv
  <2> SUFFICES ASSUME Init PROVE IInv
    OBVIOUS
  <2>1. pass.at = "idle" /\ secret.owner = User
    BY DEF Init, NoPass, NoSecret
  <2> QED
    BY <2>1, InitTypeOK, StepSets
    DEF IInv, GenerationTellsSpec, TunnelAsRead, TokenOfInvite, SeenTogether, CopyIsGenuine
<1>2. ASSUME IInv, [Next]_vars
      PROVE  IInv'
  <2>1. TypeOK'
    BY <1>2, NextTypeOK DEF IInv
  <2>2. CASE UNCHANGED vars
    BY <1>2, <2>1, <2>2
    DEF IInv, vars, childVars, tunnelVars, GenerationTellsSpec, TunnelAsRead, TokenOfInvite,
        SeenTogether, CopyIsGenuine
  <2>3. CASE Next
    BY <1>2, <2>1, <2>3, PassCopies, UsersCopies, TunnelCopies, OtherCopies
    DEF Next, IInv, Copies
  <2> QED
    BY <1>2, <2>2, <2>3
<1>3. IInv /\ [Next]_vars => IInv'
  BY <1>2
<1> QED
  BY <1>1, <1>3, PTL DEF Spec

\* Every variable stays within its type.
THEOREM AgentTypeCorrect == Spec => []TypeOK
<1>1. IInv => TypeOK
  BY DEF IInv
<1> QED
  BY <1>1, AgentInvariance, PTL

\* The token in an agent's Secret is that of the invite in its annotation,
\* however late the cache is that it was read from (ensureAgentSecret never
\* repairs a Secret whose annotation is right).
THEOREM CopiedTokenIsGenuine == Spec => []CopyIsGenuine
<1>1. IInv => CopyIsGenuine
  BY DEF IInv
<1> QED
  BY <1>1, AgentInvariance, PTL

\* A Deployment is only given a spec and an invite that were both current at one
\* moment of the pass (checkAgentUnchanged and checkTunnelUnchanged).
THEOREM DeploysOneSnapshot == Spec => ConsistentSnapshot
<1> DEFINE Snapshot == EnsureDeployment /\ deployment' # deployment => pass.together
<1>1. IInv => Snapshot
  BY DEF IInv, SeenTogether, EnsureDeployment
<1>2. IInv /\ [Next]_vars => [Snapshot]_vars
  BY <1>1
<1> QED
  BY <1>2, AgentInvariance, PTL DEF Spec, ConsistentSnapshot

(***************************************************************************)
(* Nothing is forgotten.  The property speaks of a moment when nothing is  *)
(* left to do; the invariant of the moments between: unless somebody asks  *)
(* for the agent again, or a child's event will, the pass has the agent as *)
(* it is, and what it has behind it is done.                               *)
(***************************************************************************)

Succeeded == pass.at = "write" /\ ~pass.retry
SecretPassed == pass.at \in {"connect", "checkAgent", "checkTunnel", "deploy"} \/ Succeeded

\* An object of an agent has an owner that is not a user.
OwnersTell ==
    /\ agent.there => agent.uid # User
    /\ pass.at # "idle" => pass.uid # User
    /\ deployment.there => deployment.owner # User

\* The informers lag behind only with an event on its way, or between Secrets of users.
CachesTold ==
    /\ \/ "secret" \in coming \/ secretCache = secret
       \/ secretCache.owner = User /\ secret.owner = User
    /\ "deployment" \in coming \/ deployCache = deployment

\* A pass that nobody disturbed has the agent and the tunnel as they are.
Undisturbed ==
    pass.at # "idle" /\ ~queued =>
      /\ agent.there /\ agent.uid = pass.uid /\ agent.gen = pass.gen
      /\ agent.spec = pass.spec /\ agent.status = pass.orig
      /\ ~pass.moved /\ ~pass.stale
      /\ Succeeded => tunnels[pass.spec.tunnel] = pass.tunnel

\* A pass that is not asked for again found all it needs.
StatusTrue ==
    /\ pass.retry => pass.at = "write"
    /\ pass.at \in TokenRead \/ Succeeded => pass.status.tunnel = "True"
    /\ Succeeded => /\ pass.status.rendered = "True"
                    /\ pass.status.hash = TemplateOf(pass.spec, pass.tunnel)

SecretFor(tunnel) ==
    secret.there /\ secret.owner = agent.uid /\ secret.invite = tunnel.invite
DeploymentFor(tunnel, status) ==
    /\ deployment.there /\ deployment.scale = agent.spec.scale
    /\ deployment.template = TemplateOf(agent.spec, tunnel)
    /\ status.phase = "Ready" <=> deployment.available /\ (agent.spec.l4 => tunnel.ports)

SecretKept ==
    ~queued /\ "secret" \notin coming =>
      /\ SecretPassed => SecretFor(pass.tunnel)
      /\ pass.at = "idle" /\ agent.there => SecretFor(Tunnel)
DeploymentKept ==
    ~queued /\ "deployment" \notin coming =>
      /\ Succeeded => DeploymentFor(pass.tunnel, pass.status)
      /\ pass.at = "idle" /\ agent.there => DeploymentFor(Tunnel, agent.status)
StatusKept ==
    ~queued /\ pass.at = "idle" /\ agent.there =>
      /\ agent.status.tunnel = "True" /\ agent.status.rendered = "True"
      /\ agent.status.hash = Template /\ agent.status.seen = agent.gen

QuietInv == /\ OwnersTell /\ CachesTold /\ Undisturbed /\ StatusTrue
            /\ SecretKept /\ DeploymentKept /\ StatusKept

(* Helpers.                                                                *)

\* A child that changes is told of, unless it is a user's before and after.
LEMMA SecretNoted ==
    ASSUME SecretEvent
    PROVE  /\ coming \subseteq coming'
           /\ "deployment" \in coming' => "deployment" \in coming
           /\ \/ "secret" \in coming' \/ secret' = secret
              \/ secret.owner = User /\ secret'.owner = User
           /\ secret' = secret => coming' = coming
BY DEF SecretEvent, ChildEvent

LEMMA DeploymentNoted ==
    ASSUME DeploymentEvent
    PROVE  /\ coming \subseteq coming'
           /\ "secret" \in coming' => "secret" \in coming
           /\ \/ "deployment" \in coming' \/ deployment' = deployment
              \/ deployment.owner = User /\ deployment'.owner = User
           /\ deployment' = deployment => coming' = coming
BY DEF DeploymentEvent, ChildEvent

\* A step that changes children only, and tells of it.
LEMMA ChildrenMove ==
    ASSUME QuietInv, UNCHANGED <<agent, tunnels, pass, queued, secretCache, deployCache>>,
           coming \subseteq coming',
           \/ "secret" \in coming' \/ secret' = secret
           \/ secret.owner = User /\ secret'.owner = User,
           "deployment" \in coming' \/ deployment' = deployment,
           deployment'.there => deployment'.owner # User
    PROVE  QuietInv'
<1>1. OwnersTell' /\ Undisturbed' /\ StatusTrue' /\ StatusKept'
  BY DEF QuietInv, OwnersTell, Undisturbed, StatusTrue, Succeeded, StatusKept, Template, Tunnel
<1>2. CachesTold'
  BY DEF QuietInv, CachesTold
<1>3. SecretKept'
  <2> SUFFICES ASSUME ~queued', "secret" \notin coming'
               PROVE  /\ SecretPassed => SecretFor(pass.tunnel)'
                      /\ pass.at = "idle" /\ agent.there => SecretFor(Tunnel)'
    BY DEF SecretKept, SecretPassed, Succeeded
  <2>1. /\ SecretPassed => SecretFor(pass.tunnel)
        /\ pass.at = "idle" /\ agent.there => SecretFor(Tunnel)
    BY DEF QuietInv, SecretKept
  <2>2. SecretPassed => agent.uid # User
    BY DEF QuietInv, OwnersTell, Undisturbed, SecretPassed, Succeeded
  <2>3. pass.at = "idle" /\ agent.there => agent.uid # User
    BY DEF QuietInv, OwnersTell
  <2>4. secret' = secret \/ secret.owner = User
    OBVIOUS
  <2> QED
    BY <2>1, <2>2, <2>3, <2>4 DEF SecretFor, Tunnel
<1>4. DeploymentKept'
  BY DEF QuietInv, DeploymentKept, DeploymentFor, Succeeded, Tunnel, TemplateOf
<1> QED
  BY <1>1, <1>2, <1>3, <1>4 DEF QuietInv

\* A step that ends the pass and asks for another one.
LEMMA AskedAgain ==
    ASSUME QuietInv, UNCHANGED <<secret, secretCache, deployment, deployCache, coming>>,
           pass' = NoPass, queued', agent'.there => agent'.uid # User
    PROVE  QuietInv'
BY DEF QuietInv, OwnersTell, CachesTold, Undisturbed, StatusTrue, SecretKept, DeploymentKept,
   StatusKept, NoPass, Succeeded, TokenRead

(* The pass.                                                               *)

\* A step that moves nothing but the pass, and leaves it running: what the children
\* are for carries over when the copies stay.
LEMMA PassMoves ==
    ASSUME IInv, QuietInv, pass.at # "idle",
           UNCHANGED <<agent, tunnels, secret, secretCache, deployment, deployCache, coming, queued>>,
           pass'.at # "idle", pass'.uid = pass.uid, pass'.gen = pass.gen, pass'.spec = pass.spec,
           pass'.orig = pass.orig, pass'.stale = pass.stale, pass'.moved = pass.moved,
           ~Succeeded'
    PROVE  OwnersTell' /\ CachesTold' /\ Undisturbed' /\ DeploymentKept' /\ StatusKept'
<1>1. OwnersTell' /\ CachesTold' /\ Undisturbed'
  BY DEF QuietInv, OwnersTell, CachesTold, Undisturbed
<1>2. DeploymentKept' /\ StatusKept'
  BY DEF DeploymentKept, StatusKept
<1> QED
  BY <1>1, <1>2

LEMMA GivenUp ==
    ASSUME NEW p \in PassType, NEW q, q = Waiting(p) \/ q = Failed(p)
    PROVE  /\ q.at = "write" /\ q.retry /\ q.uid = p.uid /\ q.gen = p.gen /\ q.spec = p.spec
           /\ q.orig = p.orig /\ q.stale = p.stale /\ q.moved = p.moved
BY DEF Waiting, Failed, PassType

LEMMA GivesUpQuiet ==
    ASSUME IInv, QuietInv, pass.at # "idle",
           UNCHANGED <<agent, tunnels, secret, secretCache, deployment, deployCache, coming, queued>>,
           pass' = Waiting(pass) \/ pass' = Failed(pass)
    PROVE  QuietInv'
<1>1. pass \in PassType
  BY DEF IInv, TypeOK
<1>2. /\ pass'.at = "write" /\ pass'.retry /\ pass'.uid = pass.uid /\ pass'.gen = pass.gen
      /\ pass'.spec = pass.spec /\ pass'.orig = pass.orig /\ pass'.stale = pass.stale
      /\ pass'.moved = pass.moved
  BY <1>1, GivenUp
<1>3. ~Succeeded' /\ ~SecretPassed' /\ pass'.at \notin TokenRead
  BY <1>2 DEF Succeeded, SecretPassed, TokenRead
<1>4. StatusTrue' /\ SecretKept'
  BY <1>2, <1>3 DEF StatusTrue, SecretKept
<1> QED
  BY <1>2, <1>3, <1>4, PassMoves DEF QuietInv

\* Reading, connecting and rechecking.
LEMMA ReadsQuiet ==
    ASSUME IInv, QuietInv,
           \/ StartPass \/ ReadTunnel \/ ReadToken \/ Connect \/ CheckAgent \/ CheckTunnel
    PROVE  QuietInv'
<1>1. pass \in PassType /\ agent \in AgentType
  BY DEF IInv, TypeOK, AgentType
<1>2. UNCHANGED <<agent, tunnels, secret, secretCache, deployment, deployCache, coming>>
  BY DEF StartPass, ReadTunnel, ReadToken, Connect, CheckAgent, CheckTunnel, childVars,
     tunnelVars
<1>3. CASE StartPass
  <2>1. pass'.at \in {"idle", "tunnel"} /\ ~pass'.retry /\ ~pass'.stale /\ ~pass'.moved
    BY <1>3 DEF StartPass, NoPass
  <2>2. pass'.at = "tunnel" => /\ agent.there /\ pass'.uid = agent.uid /\ pass'.gen = agent.gen
                               /\ pass'.spec = agent.spec /\ pass'.orig = agent.status
    BY <1>3 DEF StartPass, NoPass
  <2>3. pass'.at = "idle" => ~agent.there
    BY <1>3 DEF StartPass, NoPass
  <2>4. ~Succeeded' /\ ~SecretPassed' /\ pass'.at \notin TokenRead
    BY <2>1 DEF Succeeded, SecretPassed, TokenRead
  <2>5. OwnersTell' /\ CachesTold' /\ Undisturbed'
    BY <1>2, <2>1, <2>2, <2>4 DEF QuietInv, OwnersTell, CachesTold, Undisturbed
  <2>6. StatusTrue' /\ SecretKept' /\ DeploymentKept' /\ StatusKept'
    BY <1>2, <2>1, <2>3, <2>4 DEF StatusTrue, SecretKept, DeploymentKept, StatusKept
  <2> QED
    BY <2>5, <2>6 DEF QuietInv
<1>4. CASE ReadTunnel
  <2>1. CASE pass' = Waiting(pass)
    BY <1>2, <1>4, <2>1, GivesUpQuiet DEF ReadTunnel
  <2>2. CASE pass' = [pass EXCEPT !.at = "token", !.tunnel = tunnels[pass.spec.tunnel]]
    <3>1. /\ pass'.at = "token" /\ pass'.retry = pass.retry /\ pass'.uid = pass.uid
          /\ pass'.gen = pass.gen /\ pass'.spec = pass.spec /\ pass'.orig = pass.orig
          /\ pass'.stale = pass.stale /\ pass'.moved = pass.moved
      BY <1>1, <2>2 DEF PassType
    <3>2. ~Succeeded' /\ ~SecretPassed' /\ pass'.at \notin TokenRead
      BY <3>1 DEF Succeeded, SecretPassed, TokenRead
    <3>3. StatusTrue' /\ SecretKept'
      BY <1>4, <3>1, <3>2 DEF QuietInv, StatusTrue, SecretKept, ReadTunnel
    <3> QED
      BY <1>2, <1>4, <3>1, <3>2, <3>3, PassMoves DEF QuietInv, ReadTunnel
  <2> QED
    BY <1>4, <2>1, <2>2 DEF ReadTunnel
<1>5. CASE ReadToken
  <2>1. CASE pass' = Waiting(pass)
    BY <1>2, <1>5, <2>1, GivesUpQuiet DEF ReadToken
  <2>2. CASE pass' = [pass EXCEPT !.at = "secret", !.status.tunnel = "True",
                                  !.token = tokenCache[pass.spec.tunnel]]
    <3>1. /\ pass'.at = "secret" /\ pass'.retry = pass.retry /\ pass'.uid = pass.uid
          /\ pass'.gen = pass.gen /\ pass'.spec = pass.spec /\ pass'.orig = pass.orig
          /\ pass'.stale = pass.stale /\ pass'.moved = pass.moved
          /\ pass'.status.tunnel = "True"
      BY <1>1, <2>2 DEF PassType, StatusType
    <3>2. ~Succeeded' /\ ~SecretPassed'
      BY <3>1 DEF Succeeded, SecretPassed
    <3>3. StatusTrue' /\ SecretKept'
      BY <1>5, <3>1, <3>2 DEF QuietInv, StatusTrue, SecretKept, ReadToken
    <3> QED
      BY <1>2, <1>5, <3>1, <3>2, <3>3, PassMoves DEF QuietInv, ReadToken
  <2> QED
    BY <1>5, <2>1, <2>2 DEF ReadToken
<1>6. CASE Connect \/ CheckAgent \/ CheckTunnel
  <2>1. CASE pass' = Failed(pass) /\ pass.at # "idle" /\ UNCHANGED queued
    BY <1>2, <2>1, GivesUpQuiet
  <2>2. CASE EndPass(TRUE)
    BY <1>2, <2>2, AskedAgain DEF EndPass, QuietInv, OwnersTell
  <2>3. CASE /\ pass.at \in TokenRead /\ pass.at # "secret" /\ UNCHANGED queued
             /\ \E step \in {"checkAgent", "checkTunnel", "deploy"}, b \in BOOLEAN :
                    pass' = [pass EXCEPT !.at = step, !.together = b]
    <3>1. /\ pass'.at \in {"checkAgent", "checkTunnel", "deploy"} /\ pass'.retry = pass.retry
          /\ pass'.uid = pass.uid /\ pass'.gen = pass.gen /\ pass'.spec = pass.spec
          /\ pass'.orig = pass.orig /\ pass'.stale = pass.stale /\ pass'.moved = pass.moved
          /\ pass'.status = pass.status /\ pass'.tunnel = pass.tunnel
      BY <1>1, <2>3 DEF PassType
    <3>2. ~Succeeded' /\ SecretPassed /\ pass.at # "idle" /\ ~pass.retry
      BY <2>3, <3>1 DEF Succeeded, SecretPassed, TokenRead, QuietInv, StatusTrue
    <3>3. StatusTrue'
      BY <2>3, <3>1, <3>2 DEF QuietInv, StatusTrue
    <3>4. SecretKept'
      BY <1>2, <2>3, <3>1, <3>2 DEF QuietInv, SecretKept, SecretFor, SecretPassed
    <3> QED
      BY <1>2, <2>3, <3>1, <3>2, <3>3, <3>4, PassMoves DEF QuietInv
  <2> QED
    <3>1. pass.together \in BOOLEAN /\ \A step : [pass EXCEPT !.at = step]
                                       = [pass EXCEPT !.at = step, !.together = pass.together]
      BY <1>1 DEF PassType
    <3>2. CASE Connect
      BY <2>1, <2>3, <3>1, <3>2 DEF Connect, Goto, TokenRead
    <3>3. CASE CheckAgent
      <4>1. CASE AgentUnchanged
        <5> DEFINE b == /\ agent.uid = pass.uid /\ agent.spec = pass.spec
                        /\ tunnels[pass.spec.tunnel] = pass.tunnel
        <5>1. b \in BOOLEAN /\ pass' = [pass EXCEPT !.at = "checkTunnel", !.together = b]
          BY <3>3, <4>1 DEF CheckAgent
        <5> QED
          BY <2>3, <3>3, <4>1, <5>1 DEF CheckAgent, TokenRead
      <4> QED
        BY <2>2, <3>3, <4>1 DEF CheckAgent
    <3>4. CASE CheckTunnel
      BY <2>2, <2>3, <3>1, <3>4 DEF CheckTunnel, Goto, TokenRead
    <3> QED
      BY <1>6, <3>2, <3>3, <3>4
<1> QED
  BY <1>3, <1>4, <1>5, <1>6

\* What the cache shows as right is right, or an event of it is on its way.
LEMMA EnsureSecretQuiet ==
    ASSUME IInv, QuietInv, EnsureSecret
    PROVE  QuietInv'
<1>1. /\ pass \in PassType /\ pass.at = "secret" /\ pass.uid # User
      /\ ~pass.retry /\ pass.status.tunnel = "True"
  BY DEF IInv, TypeOK, EnsureSecret, QuietInv, OwnersTell, StatusTrue, TokenRead
<1>2. /\ UNCHANGED <<agent, tunnels, secretCache, deployment, deployCache, queued>>
      /\ SecretEvent
  BY DEF EnsureSecret, tunnelVars
<1>3. CachesTold'
  BY <1>2, SecretNoted DEF QuietInv, CachesTold
<1>4. CASE pass' = Failed(pass)
  <2>1. /\ pass'.at = "write" /\ pass'.retry /\ pass'.uid = pass.uid /\ pass'.gen = pass.gen
        /\ pass'.spec = pass.spec /\ pass'.orig = pass.orig /\ pass'.stale = pass.stale
        /\ pass'.moved = pass.moved
    BY <1>1, <1>4, GivenUp
  <2>2. ~Succeeded' /\ ~SecretPassed' /\ pass'.at \notin TokenRead
    BY <2>1 DEF Succeeded, SecretPassed, TokenRead
  <2>3. OwnersTell' /\ Undisturbed'
    BY <1>1, <1>2, <2>1, <2>2 DEF QuietInv, OwnersTell, Undisturbed
  <2>4. StatusTrue' /\ SecretKept' /\ DeploymentKept' /\ StatusKept'
    BY <2>1, <2>2 DEF StatusTrue, SecretKept, DeploymentKept, StatusKept
  <2> QED
    BY <1>3, <2>3, <2>4 DEF QuietInv
<1>5. CASE Goto("connect")
  <2>1. /\ pass'.at = "connect" /\ pass'.retry = pass.retry /\ pass'.uid = pass.uid
        /\ pass'.gen = pass.gen /\ pass'.spec = pass.spec /\ pass'.orig = pass.orig
        /\ pass'.stale = pass.stale /\ pass'.moved = pass.moved
        /\ pass'.status = pass.status /\ pass'.tunnel = pass.tunnel
    BY <1>1, <1>5 DEF Goto, PassType
  <2>2. ~Succeeded' /\ SecretPassed' /\ pass'.at \in TokenRead
    BY <2>1 DEF Succeeded, SecretPassed, TokenRead
  <2>3. OwnersTell' /\ Undisturbed'
    BY <1>1, <1>2, <2>1, <2>2 DEF QuietInv, OwnersTell, Undisturbed
  <2>4. StatusTrue' /\ DeploymentKept' /\ StatusKept'
    BY <1>1, <2>1, <2>2 DEF StatusTrue, DeploymentKept, StatusKept
  <2>5. \/ /\ secret' = secret /\ secretCache.there /\ secretCache.owner = pass.uid
           /\ secretCache.invite = pass.tunnel.invite
        \/ secret' = [there |-> TRUE, invite |-> pass.tunnel.invite,
                      token |-> pass.token, owner |-> pass.uid]
    <3>1. pass' # Failed(pass)
      BY <1>1, <2>1, GivenUp
    <3> QED
      BY <3>1 DEF EnsureSecret, OwnerReference
  <2>6. ASSUME ~queued', "secret" \notin coming'
        PROVE  SecretFor(pass.tunnel)'
    <3>1. "secret" \notin coming
      BY <1>2, <2>6, SecretNoted
    <3>2. secretCache = secret \/ secretCache.owner = User
      BY <3>1 DEF QuietInv, CachesTold
    <3>3. agent.uid = pass.uid
      BY <1>1, <1>2, <2>6 DEF QuietInv, Undisturbed
    <3> QED
      BY <1>1, <1>2, <2>1, <2>5, <3>2, <3>3 DEF SecretFor
  <2>7. SecretKept'
    BY <2>1, <2>6 DEF SecretKept
  <2> QED
    BY <1>3, <2>3, <2>4, <2>7 DEF QuietInv
<1> QED
  BY <1>4, <1>5 DEF EnsureSecret

LEMMA RolledUpFields ==
    ASSUME NEW p \in PassType, NEW available \in BOOLEAN, NEW q, q = RolledUp(p, available)
    PROVE  /\ q.at = "write" /\ q.retry = p.retry /\ q.uid = p.uid /\ q.gen = p.gen
           /\ q.spec = p.spec /\ q.orig = p.orig /\ q.stale = p.stale /\ q.moved = p.moved
           /\ q.tunnel = p.tunnel
           /\ q.status.tunnel = p.status.tunnel /\ q.status.rendered = "True"
           /\ q.status.hash = TemplateOf(p.spec, p.tunnel)
           /\ q.status.phase = "Ready" <=>
                (~p.spec.l4 \/ p.tunnel.ports) /\ available /\ p.status.tunnel = "True"
<1>1. p.status \in StatusType
  BY DEF PassType
<1> DEFINE ports == ~p.spec.l4 \/ p.tunnel.ports
           all == ports /\ available /\ p.status.tunnel = "True"
           s == [p.status EXCEPT
                  !.rendered = "True",
                  !.ports = IF ports THEN "True" ELSE "False",
                  !.workload = IF available THEN "True" ELSE "False",
                  !.hash = TemplateOf(p.spec, p.tunnel),
                  !.phase = IF all THEN "Ready" ELSE "Pending"]
<1>2. q = [p EXCEPT !.at = "write", !.status = s]
  BY DEF RolledUp, PassType, StatusType
<1>3. /\ s.tunnel = p.status.tunnel /\ s.rendered = "True"
      /\ s.hash = TemplateOf(p.spec, p.tunnel)
      /\ s.phase = "Ready" <=> all
  BY <1>1 DEF StatusType
<1> HIDE DEF s
<1> QED
  BY <1>2, <1>3 DEF PassType

\* While the cache lags an event is on its way: the Deployment, and whether it is
\* available, are as the status tells or the agent is asked for again.
LEMMA EnsureDeploymentQuiet ==
    ASSUME IInv, QuietInv, EnsureDeployment
    PROVE  QuietInv'
<1>1. /\ pass \in PassType /\ pass.at = "deploy" /\ pass.uid # User
      /\ deployment \in DeploymentType /\ deployCache \in DeploymentType
      /\ ~pass.retry /\ pass.status.tunnel = "True"
  BY DEF IInv, TypeOK, EnsureDeployment, QuietInv, OwnersTell, StatusTrue, TokenRead
<1>2. /\ UNCHANGED <<agent, tunnels, secret, secretCache, deployCache, queued>>
      /\ DeploymentEvent
  BY DEF EnsureDeployment, tunnelVars
<1> DEFINE template == TemplateOf(pass.spec, pass.tunnel)
           applied == [there |-> TRUE, owner |-> pass.uid, template |-> template,
                       scale |-> pass.spec.scale, available |-> deployment.available]
<1>3. deployment' \in {deployment, applied}
  BY DEF EnsureDeployment, OwnerReference
<1>4. /\ "deployment" \in coming' \/ deployment' = deployment
      /\ deployment'.there => deployment'.owner # User
  BY <1>1, <1>2, <1>3, DeploymentNoted DEF QuietInv, OwnersTell
<1>5. CachesTold'
  BY <1>2, <1>4, DeploymentNoted DEF QuietInv, CachesTold
<1>6. SecretFor(pass.tunnel) \/ queued \/ "secret" \in coming
  BY <1>1 DEF QuietInv, SecretKept, SecretPassed
<1>7. CASE pass' = Failed(pass)
  <2>1. /\ pass'.at = "write" /\ pass'.retry /\ pass'.uid = pass.uid /\ pass'.gen = pass.gen
        /\ pass'.spec = pass.spec /\ pass'.orig = pass.orig /\ pass'.stale = pass.stale
        /\ pass'.moved = pass.moved
    BY <1>1, <1>7, GivenUp
  <2>2. ~Succeeded' /\ ~SecretPassed' /\ pass'.at \notin TokenRead
    BY <2>1 DEF Succeeded, SecretPassed, TokenRead
  <2>3. OwnersTell' /\ Undisturbed'
    BY <1>1, <1>2, <1>4, <2>1, <2>2 DEF QuietInv, OwnersTell, Undisturbed
  <2>4. StatusTrue' /\ SecretKept' /\ DeploymentKept' /\ StatusKept'
    BY <2>1, <2>2 DEF StatusTrue, SecretKept, DeploymentKept, StatusKept
  <2> QED
    BY <1>5, <2>3, <2>4 DEF QuietInv
<1>8. CASE pass' = RolledUp(pass, deployCache.available)
  <2>1. deployCache.available \in BOOLEAN
    BY <1>1 DEF DeploymentType
  <2>2. /\ pass'.at = "write" /\ pass'.retry = pass.retry /\ pass'.uid = pass.uid
        /\ pass'.gen = pass.gen /\ pass'.spec = pass.spec /\ pass'.orig = pass.orig
        /\ pass'.stale = pass.stale /\ pass'.moved = pass.moved
        /\ pass'.tunnel = pass.tunnel
    BY <1>1, <1>8, <2>1, RolledUpFields
  <2>3. /\ pass'.status.tunnel = "True" /\ pass'.status.rendered = "True"
        /\ pass'.status.hash = TemplateOf(pass.spec, pass.tunnel)
        /\ pass'.status.phase = "Ready" <=>
             (~pass.spec.l4 \/ pass.tunnel.ports) /\ deployCache.available
    BY <1>1, <1>8, <2>1, RolledUpFields
  <2>4. pass'.at \notin TokenRead /\ Succeeded'
    BY <1>1, <2>2 DEF Succeeded, TokenRead
  <2>5. pass.at \in TunnelRead
    BY <1>1 DEF TunnelRead
  <2>6. OwnersTell' /\ Undisturbed'
    BY <1>1, <1>2, <1>4, <2>2, <2>5 DEF QuietInv, OwnersTell, Undisturbed, IInv, TunnelAsRead
  <2>7. StatusTrue' /\ StatusKept'
    BY <1>1, <2>2, <2>3, <2>4 DEF StatusTrue, StatusKept
  <2>8. SecretKept'
    BY <1>2, <1>6, <2>2, DeploymentNoted DEF SecretKept, SecretFor
  <2>9. ASSUME ~queued', "deployment" \notin coming'
        PROVE  DeploymentFor(pass.tunnel, pass.status)'
    <3>1. deployCache = deployment /\ deployment' = deployment
      BY <1>2, <1>4, <2>9, DeploymentNoted DEF QuietInv, CachesTold
    <3>2. DeploymentCurrent(template, pass.spec.scale)
      <4>1. pass' # Failed(pass)
        BY <1>1, <2>2, GivenUp
      <4>2. deployment' = applied => DeploymentCurrent(template, pass.spec.scale)
        BY <3>1 DEF DeploymentCurrent
      <4> QED
        BY <4>1, <4>2 DEF EnsureDeployment, OwnerReference
    <3>3. agent.spec = pass.spec
      BY <1>1, <1>2, <2>9 DEF QuietInv, Undisturbed
    <3> QED
      BY <1>2, <2>2, <2>3, <3>1, <3>2, <3>3 DEF DeploymentFor, DeploymentCurrent
  <2>10. DeploymentKept'
    BY <2>2, <2>9 DEF DeploymentKept
  <2> QED
    BY <1>5, <2>6, <2>7, <2>8, <2>10 DEF QuietInv
<1> QED
  BY <1>7, <1>8 DEF EnsureDeployment

\* A pass that changed the status, or is to be repeated, asks for the agent again.
LEMMA WriteStatusQuiet ==
    ASSUME IInv, QuietInv, WriteStatus
    PROVE  QuietInv'
<1> DEFINE status == [pass.status EXCEPT !.seen = pass.gen]
           changed == status # pass.orig
<1>1. /\ pass \in PassType /\ agent \in AgentType /\ pass.at = "write" /\ pass.status \in StatusType
  BY DEF IInv, TypeOK, AgentType, WriteStatus, PassType
<1>2. UNCHANGED <<tunnels, secret, secretCache, deployment, deployCache, coming>>
  BY DEF WriteStatus, tunnelVars, childVars
<1>3. /\ agent' = IF changed /\ ~pass.stale THEN [agent EXCEPT !.status = status] ELSE agent
      /\ EndPass(pass.retry \/ changed)
  BY DEF WriteStatus
<1>4. agent'.there => agent'.uid # User
  BY <1>1, <1>3 DEF QuietInv, OwnersTell, AgentType
<1>5. CASE pass.retry \/ changed \/ queued
  BY <1>2, <1>3, <1>4, <1>5, AskedAgain DEF EndPass
<1>6. CASE ~pass.retry /\ ~changed /\ ~queued
  <2>1. agent' = agent /\ pass' = NoPass /\ pass'.at = "idle" /\ ~queued' /\ ~pass'.retry
    BY <1>3, <1>6 DEF EndPass, NoPass
  <2>2. Succeeded
    BY <1>1, <1>6 DEF Succeeded
  <2>3. agent.spec = pass.spec /\ agent.gen = pass.gen /\ agent.status = status /\ Tunnel = pass.tunnel
    BY <1>1, <1>6, <2>2 DEF QuietInv, Undisturbed, Tunnel
  <2>4. /\ agent.status.tunnel = "True" /\ agent.status.rendered = "True"
        /\ agent.status.hash = Template /\ agent.status.seen = agent.gen
        /\ agent.status.phase = pass.status.phase
    BY <1>1, <2>2, <2>3 DEF QuietInv, StatusTrue, Template, StatusType
  <2>5. Tunnel' = Tunnel /\ Template' = Template
    BY <1>2, <2>1 DEF Tunnel, Template, TemplateOf
  <2>6. OwnersTell' /\ CachesTold' /\ Undisturbed'
    BY <1>2, <2>1 DEF QuietInv, OwnersTell, CachesTold, Undisturbed
  <2>7. StatusTrue' /\ StatusKept'
    BY <2>1, <2>4, <2>5 DEF StatusTrue, StatusKept, Succeeded, TokenRead
  <2>8. SecretKept'
    BY <1>2, <1>6, <2>1, <2>2, <2>3, <2>5
    DEF QuietInv, SecretKept, SecretPassed, Succeeded, SecretFor
  <2>9. DeploymentKept'
    BY <1>2, <1>6, <2>1, <2>2, <2>3, <2>4, <2>5, SMT
    DEF QuietInv, DeploymentKept, Succeeded, DeploymentFor, TemplateOf
  <2> QED
    BY <2>6, <2>7, <2>8, <2>9 DEF QuietInv
<1> QED
  BY <1>5, <1>6

(* Users, tunnels, and the rest.                                           *)

\* A change of the agent or of its tunnel asks for the agent.
LEMMA UsersQuiet ==
    ASSUME IInv, QuietInv, Users
    PROVE  QuietInv'
<1>1. CASE CreateAgent \/ EditAgent \/ DeleteAgent
  <2>1. /\ UNCHANGED <<tunnels, secret, secretCache, deployment, deployCache, coming>>
        /\ AgentTouched
    BY <1>1 DEF CreateAgent, EditAgent, DeleteAgent, tunnelVars, childVars
  <2>2. pass \in PassType /\ agent \in AgentType /\ agent.uid \in Nat
    BY DEF IInv, TypeOK, AgentType
  <2>3. /\ queued' /\ pass'.at = pass.at /\ pass'.uid = pass.uid /\ pass'.retry = pass.retry
        /\ pass'.status = pass.status /\ pass'.spec = pass.spec /\ pass'.tunnel = pass.tunnel
    BY <2>1, <2>2 DEF AgentTouched, PassType
  <2>4. agent'.there => agent'.uid # User
    <3>1. CASE CreateAgent
      BY <2>2, <3>1 DEF CreateAgent, User
    <3>2. CASE EditAgent \/ DeleteAgent
      BY <2>2, <3>2 DEF EditAgent, DeleteAgent, AgentType, QuietInv, OwnersTell
    <3> QED
      BY <1>1, <3>1, <3>2
  <2>5. OwnersTell' /\ CachesTold'
    BY <2>1, <2>3, <2>4 DEF QuietInv, OwnersTell, CachesTold
  <2>6. Undisturbed' /\ SecretKept' /\ DeploymentKept' /\ StatusKept'
    BY <2>3 DEF Undisturbed, SecretKept, DeploymentKept, StatusKept
  <2>7. StatusTrue'
    BY <2>3 DEF QuietInv, StatusTrue, Succeeded
  <2> QED
    BY <2>5, <2>6, <2>7 DEF QuietInv
<1>2. CASE CreateSecret \/ DeleteSecret
  <2>1. /\ UNCHANGED <<agent, tunnels, pass, queued, secretCache, deployment, deployCache>>
        /\ SecretEvent
    BY <1>2 DEF CreateSecret, DeleteSecret, tunnelVars
  <2>2. deployment'.there => deployment'.owner # User
    BY <2>1 DEF QuietInv, OwnersTell
  <2> QED
    BY <2>1, <2>2, SecretNoted, ChildrenMove
<1>3. CASE DeleteDeployment \/ ScaleDeployment
  <2>1. /\ UNCHANGED <<agent, tunnels, pass, queued, secret, secretCache, deployCache>>
        /\ DeploymentEvent /\ deployment.there
    BY <1>3 DEF DeleteDeployment, ScaleDeployment, tunnelVars
  <2>2. deployment.owner # User /\ deployment \in DeploymentType
    BY <2>1 DEF IInv, TypeOK, QuietInv, OwnersTell
  <2>3. deployment'.there => deployment'.owner # User
    BY <1>3, <2>2 DEF DeleteDeployment, ScaleDeployment, DeploymentType, NoDeployment
  <2> QED
    BY <2>1, <2>2, <2>3, DeploymentNoted, ChildrenMove
<1> QED
  BY <1>1, <1>2, <1>3 DEF Users

LEMMA TunnelQuiet ==
    ASSUME IInv, QuietInv, TunnelStep
    PROVE  QuietInv'
<1>1. /\ pass \in PassType /\ pass.spec.tunnel \in Tunnels /\ agent.spec.tunnel \in Tunnels
      /\ tunnels \in [Tunnels -> TunnelType] /\ queued \in BOOLEAN
  BY SpecsAssumption DEF IInv, TypeOK, PassType, SpecType
<1>2. PICK t \in Tunnels : \/ CreateTunnel(t) \/ StoreToken(t) \/ PublishInvite(t)
                           \/ AllocatePorts(t) \/ DeleteTunnel(t) \/ CollectToken(t)
  BY DEF TunnelStep
<1>3. UNCHANGED <<agent, secret, secretCache, deployment, deployCache, coming>>
  BY <1>2 DEF CreateTunnel, StoreToken, PublishInvite, AllocatePorts, DeleteTunnel,
     CollectToken, childVars
<1>4. CASE UNCHANGED <<tunnels, pass, queued>>
  BY <1>3, <1>4, ChildrenMove DEF QuietInv, OwnersTell
<1>5. CASE TunnelTouched(t) /\ \E u : tunnels' = [tunnels EXCEPT ![t] = u]
  <2>1. /\ pass'.at = pass.at /\ pass'.uid = pass.uid /\ pass'.gen = pass.gen
        /\ pass'.spec = pass.spec /\ pass'.orig = pass.orig /\ pass'.stale = pass.stale
        /\ pass'.retry = pass.retry /\ pass'.status = pass.status
        /\ pass'.tunnel = pass.tunnel
        /\ pass'.moved = (pass.moved \/ (pass.at \notin {"idle", "tunnel"} /\ pass.spec.tunnel = t))
    BY <1>1, <1>5 DEF TunnelTouched, PassType
  <2>2. queued' = (queued \/ (agent.there /\ agent.spec.tunnel = t))
    BY <1>5 DEF TunnelTouched
  <2>3. /\ pass.spec.tunnel # t => tunnels'[pass.spec.tunnel] = tunnels[pass.spec.tunnel]
        /\ agent.spec.tunnel # t => Tunnel' = Tunnel
    BY <1>1, <1>3, <1>5 DEF Tunnel
  <2>4. OwnersTell' /\ CachesTold'
    BY <1>3, <2>1 DEF QuietInv, OwnersTell, CachesTold
  <2>5. Undisturbed'
    BY <1>3, <2>1, <2>2, <2>3 DEF QuietInv, Undisturbed, Succeeded
  <2>6. StatusTrue'
    BY <2>1 DEF QuietInv, StatusTrue, Succeeded
  <2>7. SecretKept'
    BY <1>3, <2>1, <2>2, <2>3 DEF QuietInv, SecretKept, SecretPassed, Succeeded, SecretFor
  <2>8. DeploymentKept' /\ StatusKept'
    BY <1>3, <2>1, <2>2, <2>3
    DEF QuietInv, DeploymentKept, Succeeded, DeploymentFor, StatusKept, Template, TemplateOf
  <2> QED
    BY <2>4, <2>5, <2>6, <2>7, <2>8 DEF QuietInv
<1> QED
  BY <1>2, <1>4, <1>5 DEF CreateTunnel, StoreToken, PublishInvite, AllocatePorts, DeleteTunnel,
     CollectToken

\* An informer that hands on an event asks for the agent.
LEMMA OthersQuiet ==
    ASSUME IInv, QuietInv,
           Crash \/ Syncs \/ Collections \/ Kubelet \/ RestartPods \/ LosePods
    PROVE  QuietInv'
<1>1. CASE Crash
  BY <1>1, AskedAgain DEF Crash, EndPass, childVars, QuietInv, OwnersTell
<1>2. CASE SyncSecret
  <2>1. /\ UNCHANGED <<agent, tunnels, pass, secret, deployment, deployCache>>
        /\ secretCache' = secret /\ coming' = coming \ {"secret"}
        /\ queued' = (queued \/ "secret" \in coming)
    BY <1>2 DEF SyncSecret, tunnelVars
  <2>2. OwnersTell' /\ CachesTold' /\ StatusTrue'
    BY <2>1 DEF QuietInv, OwnersTell, CachesTold, StatusTrue, Succeeded
  <2>3. Undisturbed' /\ StatusKept'
    BY <2>1 DEF QuietInv, Undisturbed, StatusKept, Succeeded, Template, Tunnel
  <2>4. SecretKept' /\ DeploymentKept'
    BY <2>1 DEF QuietInv, SecretKept, SecretPassed, SecretFor, DeploymentKept, DeploymentFor,
       Succeeded, Tunnel, TemplateOf
  <2> QED
    BY <2>2, <2>3, <2>4 DEF QuietInv
<1>3. CASE SyncDeployment
  <2>1. /\ UNCHANGED <<agent, tunnels, pass, secret, secretCache, deployment>>
        /\ deployCache' = deployment /\ coming' = coming \ {"deployment"}
        /\ queued' = (queued \/ "deployment" \in coming)
    BY <1>3 DEF SyncDeployment, tunnelVars
  <2>2. OwnersTell' /\ CachesTold' /\ StatusTrue'
    BY <2>1 DEF QuietInv, OwnersTell, CachesTold, StatusTrue, Succeeded
  <2>3. Undisturbed' /\ StatusKept'
    BY <2>1 DEF QuietInv, Undisturbed, StatusKept, Succeeded, Template, Tunnel
  <2>4. SecretKept' /\ DeploymentKept'
    BY <2>1 DEF QuietInv, SecretKept, SecretPassed, SecretFor, DeploymentKept, DeploymentFor,
       Succeeded, Tunnel, TemplateOf
  <2> QED
    BY <2>2, <2>3, <2>4 DEF QuietInv
<1>4. CASE CollectSecret
  <2>1. /\ UNCHANGED <<agent, tunnels, pass, queued, secretCache, deployment, deployCache>>
        /\ SecretEvent
    BY <1>4 DEF CollectSecret, tunnelVars
  <2>2. deployment'.there => deployment'.owner # User
    BY <2>1 DEF QuietInv, OwnersTell
  <2> QED
    BY <2>1, <2>2, SecretNoted, ChildrenMove
<1>5. CASE CollectDeployment \/ StartPods \/ LosePods
  <2>1. /\ UNCHANGED <<agent, tunnels, pass, queued, secret, secretCache, deployCache>>
        /\ DeploymentEvent /\ deployment.there
    BY <1>5 DEF CollectDeployment, StartPods, LosePods, tunnelVars, Orphan
  <2>2. deployment.owner # User /\ deployment \in DeploymentType
    BY <2>1 DEF IInv, TypeOK, QuietInv, OwnersTell
  <2>3. deployment'.there => deployment'.owner # User
    BY <1>5, <2>2 DEF CollectDeployment, StartPods, LosePods, DeploymentType, NoDeployment
  <2> QED
    BY <2>1, <2>2, <2>3, DeploymentNoted, ChildrenMove
<1>6. CASE StopPods \/ RestartPods \/ \E t \in Tunnels : SyncToken(t)
  <2>1. UNCHANGED <<agent, tunnels, pass, queued, secret, secretCache, deployment, deployCache,
                    coming>>
    BY <1>6 DEF StopPods, RestartPods, SyncToken, tunnelVars, childVars
  <2> QED
    BY <2>1, ChildrenMove DEF QuietInv, OwnersTell
<1> QED
  BY <1>1, <1>2, <1>3, <1>4, <1>5, <1>6 DEF Syncs, Collections, Kubelet

\* Whatever is not as it should be, somebody will ask for the agent: the invariant
\* of the moments between two at which nothing is left to do.
THEOREM QuietInvariance == Spec => []QuietInv
<1>1. Init => QuietInv
  BY DEF Init, NoSecret, NoDeployment, NoPass, QuietInv, OwnersTell, CachesTold, Undisturbed,
     StatusTrue, SecretKept, DeploymentKept, StatusKept, SecretPassed, Succeeded, TokenRead
<1>2. ASSUME IInv, QuietInv, [Next]_vars
      PROVE  QuietInv'
  <2>1. CASE UNCHANGED vars
    BY <1>2, <2>1, ChildrenMove DEF vars, tunnelVars, childVars, QuietInv, OwnersTell
  <2>2. CASE PassStep
    BY <1>2, <2>2, ReadsQuiet, EnsureSecretQuiet, EnsureDeploymentQuiet, WriteStatusQuiet
    DEF PassStep
  <2> QED
    BY <1>2, <2>1, <2>2, UsersQuiet, TunnelQuiet, OthersQuiet DEF Next
<1>3. IInv /\ QuietInv /\ [Next]_vars => QuietInv'
  BY <1>2
<1> QED
  BY <1>1, <1>3, AgentInvariance, PTL DEF Spec

\* A pass that succeeds asks for no other one, and yet once nothing is left to do the
\* Secret, the Deployment and the status are those of spec and tunnel, whatever late
\* caches hid from the passes before (ensureAgentSecret, ensureDeployment).
THEOREM NoChangeIsForgotten == Spec => []NothingForgotten
<1>1. ASSUME IInv, QuietInv, agent.there, Quiet
      PROVE  Rendered
  <2>1. /\ SecretFor(Tunnel) /\ DeploymentFor(Tunnel, agent.status)
        /\ agent.status.tunnel = "True" /\ agent.status.rendered = "True"
        /\ agent.status.hash = Template /\ agent.status.seen = agent.gen
        /\ agent.uid # User
    BY <1>1 DEF Quiet, QuietInv, OwnersTell, SecretKept, DeploymentKept, StatusKept
  <2>2. secret = [there |-> TRUE, invite |-> Tunnel.invite, token |-> Tunnel.invite,
                  owner |-> agent.uid]
    <3>1. secret \in SecretType /\ CopyIsGenuine
      BY <1>1 DEF IInv, TypeOK
    <3> QED
      BY <2>1, <3>1 DEF SecretFor, SecretType, CopyIsGenuine
  <2>3. deployment.owner = agent.uid
    BY <1>1, <2>1 DEF Quiet, Orphan, DeploymentFor, QuietInv, OwnersTell
  <2> QED
    BY <2>1, <2>2, <2>3 DEF Rendered, StatusTells, DeploymentFor, Template
<1>2. IInv /\ QuietInv => NothingForgotten
  BY <1>1 DEF NothingForgotten
<1> QED
  BY <1>2, AgentInvariance, QuietInvariance, PTL

(***************************************************************************)
(* Rotation.  The config hash does not show the token: that the pods run    *)
(* with the one of the invite they were started for hangs on the order in   *)
(* which token, Secret and Deployment follow one another.                   *)
(***************************************************************************)

Home == NoPass.spec.tunnel
OneTunnel == \A r, s \in Specs : r.tunnel = s.tunnel
TokenCopied == {"connect", "checkAgent", "checkTunnel", "deploy"}

\* Where the latest token has come to, the one before it is nowhere on its way.
Latest == tokens[Home]
Brought == /\ tokenCache[Home] = Latest
           /\ secret.there => secret.token = Latest
           /\ pass.at = "secret" => pass.token = Latest
LatestSeen == \/ secret.invite = Latest \/ secretCache.invite = Latest
              \/ deployment.template.invite = Latest
              \/ pass.at \in TokenCopied /\ pass.token = Latest
LatestInv ==
    Latest # NoInvite =>
      /\ pass.at = "secret" /\ pass.token = Latest => tokenCache[Home] = Latest
      /\ LatestSeen => Brought
      /\ pods.template.invite = Latest => pods.token = Latest

\* An invite that is yet to be handed out is known to nobody.
Known(i) == i \in issued[Home] \union {NoInvite}
KnownInv == /\ Known(tunnels[Home].invite) /\ Known(tokens[Home]) /\ Known(tokenCache[Home])
            /\ Known(pass.tunnel.invite) /\ Known(pass.token)
            /\ Known(secret.invite) /\ Known(secretCache.invite)
            /\ Known(deployment.template.invite) /\ Known(pods.template.invite)

RotationInv == LatestInv /\ KnownInv

LEMMA HomeIs ==
    ASSUME OneTunnel
    PROVE  Home \in Tunnels /\ \A s \in Specs : s.tunnel = Home
<1>1. NoPass.spec \in Specs
  BY InitialTypes DEF PassType
<1>2. NoPass.spec.tunnel \in Tunnels
  BY <1>1, SpecsAssumption DEF SpecType
<1> QED
  BY <1>1, <1>2 DEF OneTunnel, Home

LEMMA NothingKnown ==
    /\ NoSecret.invite = NoInvite /\ ~NoSecret.there
    /\ NoDeployment.template.invite = NoInvite
    /\ NoPods.template.invite = NoInvite
    /\ NoPass.at = "idle" /\ NoPass.token = NoInvite /\ NoPass.tunnel.invite = NoInvite
BY DEF NoSecret, NoDeployment, NoPods, NoPass, NoTunnel, NoTemplate

\* The token a pass has in hand moves on with it, or is dropped.
TokenKept ==
    /\ pass'.at \in TokenRead => pass'.token = pass.token
    /\ pass'.at = "secret" => pass.at = "secret"
    /\ pass'.at \in TokenCopied => pass.at \in TokenCopied
    /\ Known(pass'.token) /\ Known(pass'.tunnel.invite)

\* Nothing new comes to the Secret, the Deployment or the pods.
LEMMA RotationKept ==
    ASSUME RotationInv, UNCHANGED <<tokens, tokenCache, issued>>, Known(tunnels'[Home].invite),
           secret' \in {secret, NoSecret}, secretCache' \in {secretCache, secret},
           deployment'.template.invite \in {deployment.template.invite, NoInvite},
           pods' \in {pods, NoPods}, TokenKept
    PROVE  RotationInv'
<1>1. Latest' = Latest /\ \A i : Known(i)' <=> Known(i)
  BY DEF Latest, Known
<1>2. KnownInv'
  BY <1>1, NothingKnown DEF RotationInv, KnownInv, TokenKept, Known
<1>3. ASSUME Latest # NoInvite
      PROVE  /\ LatestSeen' => LatestSeen
             /\ Brought => Brought'
  BY <1>1, <1>3, NothingKnown DEF LatestSeen, Brought, TokenKept, TokenCopied, TokenRead, Latest
<1>4. LatestInv'
  BY <1>1, <1>3, NothingKnown DEF RotationInv, LatestInv, TokenKept, TokenRead, Latest
<1> QED
  BY <1>2, <1>4 DEF RotationInv

\* Steps of a pass that neither read a token nor write what it is in.
LEMMA PassKeepsToken ==
    ASSUME IInv, RotationInv, OneTunnel,
           StartPass \/ ReadTunnel \/ Connect \/ CheckAgent \/ CheckTunnel \/ WriteStatus \/ Crash
    PROVE  RotationInv'
<1>1. /\ pass \in PassType /\ Known(pass.token) /\ Known(pass.tunnel.invite)
      /\ Known(tunnels[Home].invite) /\ Known(NoInvite)
  BY DEF IInv, TypeOK, RotationInv, KnownInv, Known
<1>2. pass.spec.tunnel = Home
  BY <1>1, HomeIs DEF PassType
<1>3. UNCHANGED <<tunnelVars, childVars, pods>>
  BY DEF StartPass, ReadTunnel, Connect, CheckAgent, CheckTunnel, WriteStatus, Crash
<1>4. pass' = NoPass => TokenKept
  BY <1>1, NothingKnown, StepSets DEF TokenKept, TokenRead, TokenCopied
<1>5. pass' \in {Waiting(pass), Failed(pass)} => TokenKept
  BY <1>1 DEF Waiting, Failed, PassType, TokenKept, TokenRead, TokenCopied
<1>6. CASE StartPass
  <2>1. /\ pass'.at \notin TokenRead /\ pass'.at \notin TokenCopied /\ pass'.at # "secret"
        /\ pass'.token = NoInvite /\ pass'.tunnel.invite = NoInvite
    <3>1. CASE agent.there
      BY <1>6, <3>1 DEF StartPass, NoPass, NoTunnel, TokenRead, TokenCopied
    <3>2. CASE ~agent.there
      BY <1>6, <3>2, NothingKnown DEF StartPass, TokenRead, TokenCopied
    <3> QED
      BY <3>1, <3>2
  <2>2. TokenKept
    BY <1>1, <2>1 DEF TokenKept
  <2> QED
    BY <1>1, <1>3, <2>2, RotationKept DEF tunnelVars, childVars
<1>7. CASE ReadTunnel
  <2>1. TokenKept
    <3>1. CASE pass' = [pass EXCEPT !.at = "token", !.tunnel = tunnels[pass.spec.tunnel]]
      BY <1>1, <1>2, <3>1 DEF PassType, TokenKept, TokenRead, TokenCopied
    <3> QED
      BY <1>5, <1>7, <3>1 DEF ReadTunnel
  <2> QED
    BY <1>1, <1>3, <2>1, RotationKept DEF tunnelVars, childVars
<1>8. CASE Connect \/ CheckAgent \/ CheckTunnel
  <2>1. TokenKept
    BY <1>1, <1>4, <1>5, <1>8
    DEF Connect, CheckAgent, CheckTunnel, Goto, EndPass, PassType, TokenKept, TokenRead, TokenCopied
  <2> QED
    BY <1>1, <1>3, <2>1, RotationKept DEF tunnelVars, childVars
<1>9. CASE WriteStatus \/ Crash
  <2>1. TokenKept
    BY <1>4, <1>9 DEF WriteStatus, Crash, EndPass
  <2> QED
    BY <1>1, <1>3, <2>1, RotationKept DEF tunnelVars, childVars
<1> QED
  BY <1>6, <1>7, <1>8, <1>9

\* The token comes from the informer, which has the latest once that was seen.
LEMMA ReadTokenRotates ==
    ASSUME IInv, RotationInv, OneTunnel, ReadToken
    PROVE  RotationInv'
<1>1. /\ pass \in PassType /\ Known(pass.token) /\ Known(pass.tunnel.invite)
      /\ Known(tunnels[Home].invite)
  BY DEF IInv, TypeOK, RotationInv, KnownInv
<1>2. pass.spec.tunnel = Home /\ UNCHANGED <<tunnelVars, childVars, pods>>
  BY <1>1, HomeIs DEF PassType, ReadToken
<1>3. CASE pass' = Waiting(pass)
  <2>1. TokenKept
    BY <1>1, <1>3 DEF Waiting, PassType, TokenKept, TokenRead, TokenCopied
  <2> QED
    BY <1>1, <1>2, <2>1, RotationKept DEF tunnelVars, childVars
<1>4. CASE pass' = [pass EXCEPT !.at = "secret", !.status.tunnel = "True",
                                !.token = tokenCache[pass.spec.tunnel]]
  <2>1. pass'.at = "secret" /\ pass'.token = tokenCache[Home] /\ pass'.tunnel = pass.tunnel
    BY <1>1, <1>2, <1>4 DEF PassType
  <2>2. UNCHANGED <<tunnels, tokens, tokenCache, issued, secret, secretCache, deployment, pods>>
    BY <1>2 DEF tunnelVars, childVars
  <2>3. KnownInv'
    BY <2>1, <2>2 DEF RotationInv, KnownInv, Known
  <2>4. LatestInv'
    BY <2>1, <2>2 DEF RotationInv, LatestInv, LatestSeen, Brought, Latest, TokenCopied
  <2> QED
    BY <2>3, <2>4 DEF RotationInv
<1> QED
  BY <1>3, <1>4 DEF ReadToken

\* A copy is written with the latest token, or before that was seen; and one that the
\* cache shows was.
LEMMA EnsureSecretRotates ==
    ASSUME IInv, RotationInv, OneTunnel, EnsureSecret
    PROVE  RotationInv'
<1>1. /\ pass \in PassType /\ pass.at = "secret" /\ pass.token = pass.tunnel.invite
      /\ Known(pass.token) /\ Known(pass.tunnel.invite) /\ Known(tunnels[Home].invite)
  BY DEF IInv, TypeOK, RotationInv, KnownInv, EnsureSecret, TokenOfInvite, TokenRead
<1>2. /\ UNCHANGED <<tunnels, tokens, tokenCache, issued, secretCache, deployment, pods>>
      /\ Latest' = Latest
  BY DEF EnsureSecret, tunnelVars, Latest
<1>3. PICK copy : copy = [there |-> TRUE, invite |-> pass.tunnel.invite,
                          token |-> pass.token, owner |-> OwnerReference]
  OBVIOUS
<1>4. \/ secret' = secret /\ pass' = Failed(pass)
      \/ secret' = secret /\ Goto("connect") /\ secretCache.invite = pass.tunnel.invite
      \/ secret' \in {secret, copy} /\ pass' = Failed(pass)
      \/ secret' = copy /\ Goto("connect")
  BY <1>3 DEF EnsureSecret
<1>5. /\ pass'.at \in {"connect", "write"} /\ pass'.token = pass.token
      /\ pass'.tunnel = pass.tunnel
      /\ pass'.at = "connect" => \/ secret' = secret /\ secretCache.invite = pass.token
                                 \/ secret' = copy
      /\ secret' \in {secret, copy}
  BY <1>1, <1>4 DEF Failed, Goto, PassType
<1>6. copy.there /\ copy.invite = pass.token /\ copy.token = pass.token
  BY <1>1, <1>3
<1>7. KnownInv'
  BY <1>1, <1>2, <1>5, <1>6 DEF RotationInv, KnownInv, Known
<1>8. ASSUME Latest # NoInvite PROVE LatestSeen' => Brought'
  <2>1. CASE pass.token = Latest
    <3>1. tokenCache[Home] = Latest
      BY <1>1, <1>8, <2>1 DEF RotationInv, LatestInv
    <3>2. LatestSeen => Brought
      BY <1>8 DEF RotationInv, LatestInv
    <3>3. secret' = secret /\ LatestSeen' => LatestSeen
      BY <1>2, <1>5, <1>6, <2>1 DEF LatestSeen, TokenCopied
    <3> QED
      BY <1>2, <1>5, <1>6, <2>1, <3>1, <3>2, <3>3 DEF Brought, Latest
  <2>2. CASE pass.token # Latest
    <3>1. ~LatestSeen
      BY <1>1, <1>8, <2>2 DEF RotationInv, LatestInv, Brought
    <3>2. ~LatestSeen'
      BY <1>2, <1>5, <1>6, <2>2, <3>1 DEF LatestSeen
    <3> QED
      BY <3>2
  <2> QED
    BY <2>1, <2>2
<1>9. LatestInv'
  BY <1>2, <1>5, <1>8 DEF RotationInv, LatestInv
<1> QED
  BY <1>7, <1>9 DEF RotationInv

\* The Deployment follows its Secret.
LEMMA EnsureDeploymentRotates ==
    ASSUME IInv, RotationInv, OneTunnel, EnsureDeployment
    PROVE  RotationInv'
<1>1. /\ pass \in PassType /\ pass.at = "deploy" /\ pass.token = pass.tunnel.invite
      /\ Known(pass.token) /\ Known(pass.tunnel.invite) /\ Known(tunnels[Home].invite)
  BY DEF IInv, TypeOK, RotationInv, KnownInv, EnsureDeployment, TokenOfInvite, TokenRead
<1>2. /\ UNCHANGED <<tunnels, tokens, tokenCache, issued, secret, secretCache, pods>>
      /\ Latest' = Latest
  BY DEF EnsureDeployment, tunnelVars, Latest
<1>3. pass' = Failed(pass) \/ pass' = RolledUp(pass, deployCache.available)
  BY DEF EnsureDeployment
<1>4. pass'.at = "write" /\ pass'.token = pass.token /\ pass'.tunnel = pass.tunnel
  BY <1>1, <1>3 DEF Failed, RolledUp, PassType
<1>5. deployment' = deployment \/ deployment'.template.invite = pass.token
  BY <1>1 DEF EnsureDeployment, TemplateOf
<1>6. KnownInv'
  BY <1>1, <1>2, <1>4, <1>5 DEF RotationInv, KnownInv, Known
<1>7. LatestSeen' => LatestSeen
  BY <1>1, <1>2, <1>4, <1>5 DEF LatestSeen, TokenCopied
<1>8. Brought => Brought'
  BY <1>2, <1>4 DEF Brought
<1>9. LatestInv'
  BY <1>2, <1>4, <1>7, <1>8 DEF RotationInv, LatestInv
<1> QED
  BY <1>6, <1>9 DEF RotationInv

\* Users; but for one who puts a Secret of his own in the agent's place.
LEMMA UsersRotate ==
    ASSUME IInv, RotationInv, Users, ~CreateSecret
    PROVE  RotationInv'
<1>1. /\ pass \in PassType /\ Known(pass.token) /\ Known(pass.tunnel.invite)
      /\ Known(tunnels[Home].invite) /\ deployment \in DeploymentType
  BY DEF IInv, TypeOK, RotationInv, KnownInv
<1>2. /\ UNCHANGED <<tunnelVars, pods, secretCache>>
      /\ secret' \in {secret, NoSecret}
      /\ deployment'.template.invite \in {deployment.template.invite, NoInvite}
  BY <1>1, NothingKnown
  DEF Users, CreateAgent, EditAgent, DeleteAgent, CreateSecret, DeleteSecret, DeleteDeployment,
      ScaleDeployment, childVars, DeploymentType
<1>3. pass' \in {pass, [pass EXCEPT !.stale = TRUE]}
  BY DEF Users, CreateAgent, EditAgent, DeleteAgent, CreateSecret, DeleteSecret,
         DeleteDeployment, ScaleDeployment, AgentTouched
<1>4. TokenKept
  BY <1>1, <1>3 DEF PassType, TokenKept
<1> QED
  BY <1>1, <1>2, <1>4, RotationKept DEF tunnelVars

\* A new token is one that nobody has seen.
LEMMA TunnelRotates ==
    ASSUME IInv, RotationInv, OneTunnel, TunnelStep
    PROVE  RotationInv'
<1>1. /\ pass \in PassType /\ Known(pass.token) /\ Known(pass.tunnel.invite)
      /\ Known(tunnels[Home].invite) /\ Home \in Tunnels
      /\ tunnels \in [Tunnels -> TunnelType] /\ tokens \in [Tunnels -> MaybeInvite]
      /\ issued \in [Tunnels -> SUBSET Invites]
  BY HomeIs DEF IInv, TypeOK, RotationInv, KnownInv
<1>2. PICK t \in Tunnels : \/ CreateTunnel(t) \/ StoreToken(t) \/ PublishInvite(t)
                           \/ AllocatePorts(t) \/ DeleteTunnel(t) \/ CollectToken(t)
  BY DEF TunnelStep
<1>3. UNCHANGED <<secret, secretCache, deployment, pods, tokenCache>>
  BY <1>2 DEF CreateTunnel, StoreToken, PublishInvite, AllocatePorts, DeleteTunnel, CollectToken,
              childVars
<1>4. CASE CreateTunnel(t) \/ PublishInvite(t) \/ AllocatePorts(t) \/ DeleteTunnel(t)
  <2>1. UNCHANGED <<tokens, issued>> /\ pass' \in {pass, [pass EXCEPT !.moved = TRUE]}
    BY <1>4 DEF CreateTunnel, PublishInvite, AllocatePorts, DeleteTunnel, TunnelTouched
  <2>2. TokenKept
    BY <1>1, <2>1 DEF PassType, TokenKept
  <2>3. Known(tunnels'[Home].invite)
    <3>1. CASE PublishInvite(t)
      BY <1>1, <3>1 DEF PublishInvite, TunnelType, Known
    <3>2. CASE AllocatePorts(t)
      BY <1>1, <3>2 DEF AllocatePorts, TunnelType
    <3>3. CASE CreateTunnel(t) \/ DeleteTunnel(t)
      BY <1>1, <3>3 DEF CreateTunnel, DeleteTunnel, NoTunnel, Known
    <3> QED
      BY <1>4, <3>1, <3>2, <3>3
  <2> QED
    BY <1>3, <2>1, <2>2, <2>3, RotationKept
<1>5. CASE CollectToken(t)
  <2>1. UNCHANGED <<tunnels, issued, pass>> /\ tokens'[Home] \in {tokens[Home], NoInvite}
    BY <1>1, <1>5 DEF CollectToken
  <2>2. KnownInv'
    BY <1>3, <2>1 DEF RotationInv, KnownInv, Known
  <2>3. LatestInv'
    BY <1>3, <2>1 DEF RotationInv, LatestInv, LatestSeen, Brought, Latest
  <2> QED
    BY <2>2, <2>3 DEF RotationInv
<1>6. CASE StoreToken(t)
  <2>1. PICK i \in Invites : /\ \A u \in Tunnels : i \notin issued[u]
                             /\ tokens' = [tokens EXCEPT ![t] = i]
                             /\ issued' = [issued EXCEPT ![t] = @ \union {i}]
    BY <1>6 DEF StoreToken
  <2>2. UNCHANGED <<tunnels, pass>>
    BY <1>6 DEF StoreToken
  <2>3. CASE t = Home
    <3>1. Latest' = i /\ issued'[Home] = issued[Home] \union {i}
      BY <1>1, <2>1, <2>3 DEF Latest
    <3>2. KnownInv'
      BY <1>3, <2>2, <3>1 DEF RotationInv, KnownInv, Known, Latest
    <3>3. \A j : Known(j) => j # i
      BY <1>1, <2>1, NoInviteAssumption DEF Known
    <3>4. /\ secret.invite # i /\ secretCache.invite # i /\ deployment.template.invite # i
          /\ pass.token # i /\ pods.template.invite # i
      BY <3>3 DEF RotationInv, KnownInv
    <3>5. LatestInv'
      BY <1>3, <2>2, <3>1, <3>4 DEF LatestInv, LatestSeen
    <3> QED
      BY <3>2, <3>5 DEF RotationInv
  <2>4. CASE t # Home
    <3>1. tokens'[Home] = tokens[Home] /\ issued'[Home] = issued[Home]
      BY <1>1, <2>1, <2>4
    <3>2. KnownInv'
      BY <1>3, <2>2, <3>1 DEF RotationInv, KnownInv, Known
    <3>3. LatestInv'
      BY <1>3, <2>2, <3>1 DEF RotationInv, LatestInv, LatestSeen, Brought, Latest
    <3> QED
      BY <3>2, <3>3 DEF RotationInv
  <2> QED
    BY <2>3, <2>4
<1> QED
  BY <1>2, <1>4, <1>5, <1>6

\* Pods take what the Secret has, which is the latest token if the template is of it.
LEMMA ClusterRotates ==
    ASSUME IInv, RotationInv, OneTunnel,
           Syncs \/ Collections \/ Kubelet \/ RestartPods \/ LosePods
    PROVE  RotationInv'
<1>1. /\ pass \in PassType /\ Known(pass.token) /\ Known(pass.tunnel.invite)
      /\ Known(tunnels[Home].invite) /\ deployment \in DeploymentType
      /\ Home \in Tunnels /\ tokenCache \in [Tunnels -> MaybeInvite]
  BY HomeIs DEF IInv, TypeOK, RotationInv, KnownInv
<1>2. CASE SyncSecret \/ SyncDeployment \/ Collections \/ StopPods \/ LosePods
  <2>1. /\ UNCHANGED <<tunnelVars, pass>>
        /\ secret' \in {secret, NoSecret} /\ secretCache' \in {secretCache, secret}
        /\ deployment'.template.invite \in {deployment.template.invite, NoInvite}
        /\ pods' \in {pods, NoPods}
    BY <1>1, <1>2, NothingKnown
    DEF SyncSecret, SyncDeployment, Collections, CollectSecret, CollectDeployment, StopPods,
        LosePods, childVars, DeploymentType
  <2>2. TokenKept
    BY <1>1, <2>1 DEF TokenKept
  <2> QED
    BY <1>1, <2>1, <2>2, RotationKept DEF tunnelVars
<1>3. ASSUME NEW t \in Tunnels, SyncToken(t)
      PROVE  RotationInv'
  <2>1. /\ UNCHANGED <<tunnels, tokens, issued, secret, secretCache, deployment, pods, pass>>
        /\ tokenCache'[Home] \in {tokenCache[Home], tokens[Home]}
    BY <1>1, <1>3 DEF SyncToken, childVars
  <2>2. KnownInv'
    BY <2>1 DEF RotationInv, KnownInv, Known
  <2>3. LatestInv'
    BY <2>1 DEF RotationInv, LatestInv, LatestSeen, Brought, Latest
  <2> QED
    BY <2>2, <2>3 DEF RotationInv
<1>4. CASE StartPods \/ RestartPods
  <2>1. /\ UNCHANGED <<tunnelVars, secret, secretCache, pass>>
        /\ deployment'.template = deployment.template
        /\ secret.there
        /\ pods'.template = deployment.template /\ pods'.token = secret.token
    <3>1. pods \in [template : TemplateType, token : MaybeInvite]
      BY DEF IInv, TypeOK
    <3>2. CASE StartPods
      BY <1>1, <3>2 DEF StartPods, DeploymentType
    <3>3. CASE RestartPods
      BY <3>1, <3>3 DEF RestartPods, childVars
    <3> QED
      BY <1>4, <3>2, <3>3
  <2>2. UNCHANGED <<tunnels, tokens, tokenCache, issued>>
    BY <2>1 DEF tunnelVars
  <2>3. KnownInv'
    BY <2>1, <2>2 DEF RotationInv, KnownInv, Known
  <2>4. LatestInv'
    BY <2>1, <2>2 DEF RotationInv, LatestInv, LatestSeen, Brought, Latest
  <2> QED
    BY <2>3, <2>4 DEF RotationInv
<1> QED
  BY <1>2, <1>3, <1>4 DEF Syncs, Kubelet

\* A new token reaches the pods, although the hash that rolls them does not show it
\* (agentConfig.hash, ensureAgentSecret, ensureDeployment), of an agent that stays with
\* its tunnel, and as long as no user puts a Secret of his own in the place of its own.
THEOREM RotationReaches ==
    ASSUME OneTunnel
    PROVE  Spec /\ [][~CreateSecret]_vars => []RotationReachesPods
<1>1. Init => RotationInv
  <2> SUFFICES ASSUME Init PROVE RotationInv
    OBVIOUS
  <2>1. Latest = NoInvite /\ tokenCache[Home] = NoInvite /\ tunnels[Home].invite = NoInvite
    BY HomeIs DEF Init, Latest, NoTunnel
  <2> QED
    BY <2>1, NothingKnown DEF Init, RotationInv, LatestInv, KnownInv, Known, Latest
<1>2. ASSUME IInv, RotationInv, [Next]_vars, [~CreateSecret]_vars
      PROVE  RotationInv'
  <2>1. CASE UNCHANGED vars
    BY <1>2, <2>1
    DEF vars, tunnelVars, childVars, RotationInv, LatestInv, LatestSeen, Brought, Latest,
        KnownInv, Known
  <2>2. CASE PassStep \/ Crash
    BY <1>2, <2>2, PassKeepsToken, ReadTokenRotates, EnsureSecretRotates, EnsureDeploymentRotates
    DEF PassStep
  <2>3. CASE Users /\ ~CreateSecret
    BY <1>2, <2>3, UsersRotate
  <2> QED
    BY <1>2, <2>1, <2>2, <2>3, TunnelRotates, ClusterRotates DEF Next
<1>3. ASSUME IInv, RotationInv, NothingForgotten
      PROVE  RotationReachesPods
  <2> SUFFICES ASSUME agent.there, Usable, ~Clash, Quiet
               PROVE  pods.token = Tunnel.invite
    BY DEF RotationReachesPods
  <2>1. Rendered /\ pods.template = deployment.template
    BY <1>3 DEF NothingForgotten, Quiet, Rendered
  <2>2. agent.spec.tunnel = Home
    BY <1>3, HomeIs DEF IInv, TypeOK
  <2>3. Latest = Tunnel.invite /\ Latest # NoInvite
    BY <2>2 DEF Usable, Tunnel, Latest
  <2>4. pods.template.invite = Tunnel.invite
    BY <2>1 DEF Rendered, Template, TemplateOf
  <2> QED
    BY <1>3, <2>3, <2>4 DEF RotationInv, LatestInv
<1>4. IInv /\ RotationInv /\ [Next]_vars /\ [~CreateSecret]_vars => RotationInv'
  BY <1>2
<1>5. IInv /\ RotationInv /\ NothingForgotten => RotationReachesPods
  BY <1>3
<1> QED
  BY <1>1, <1>4, <1>5, AgentInvariance, NoChangeIsForgotten, PTL DEF Spec
=============================================================================
