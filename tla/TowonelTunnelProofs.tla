------------------------ MODULE TowonelTunnelProofs ------------------------
(* Theorems about the TowonelTunnel reconciler, for any hostnames, agents, *)
(* namespaces, invites, specs and bounds.                                  *)
EXTENDS TowonelTunnel, TLAPS

(***************************************************************************)
(* Types.                                                                  *)
(***************************************************************************)

LEMMA InitialTypes ==
    /\ NoPass \in PassType
    /\ NoStatus \in StatusType
    /\ NoSecret \in SecretType
<1>1. (CHOOSE n \in Namespaces : TRUE) \in Namespaces
  BY NamespacesAssumption
<1>2. NoStatus \in StatusType
  BY DEF NoStatus, StatusType, MaybeInvite, Condition
<1>3. NoPass.spec \in SpecType
  BY <1>1 DEF NoPass, SpecType
<1>4. NoSecret \in SecretType
  BY DEF NoSecret, SecretType, MaybeInvite
<1> QED
  BY <1>1, <1>2, <1>3, <1>4 DEF NoPass, PassType, Steps, MaybeInvite, SpecType

LEMMA InitTypeOK == Init => TypeOK
<1> SUFFICES ASSUME Init PROVE TypeOK
  OBVIOUS
<1>1. services \subseteq Service
  BY InputAssumption DEF Init
<1>2. NoPass.spec \in SpecType
  BY InitialTypes DEF PassType
<1>3. tt \in TunnelType
  BY <1>2, InitialTypes DEF Init, TunnelType
<1>4. hub \in [Invites -> InviteType]
  BY DEF Init, InviteType
<1> QED
  BY <1>1, <1>3, <1>4, InitialTypes DEF Init, TypeOK

\* Changing an invite's hostnames keeps every invite's state, and its type.
LEMMA HostsEdited ==
    ASSUME NEW f \in [Invites -> InviteType], NEW i, NEW H
    PROVE  LET g == [f EXCEPT ![i].hosts = H]
           IN  /\ \A j \in Invites : g[j].state = f[j].state
               /\ H \in SUBSET Hosts => g \in [Invites -> InviteType]
<1> DEFINE r == [f[i] EXCEPT !.hosts = H]
<1>1. CASE i \in Invites
  <2>1. f[i] \in InviteType
    BY <1>1
  <2>2. r.state = f[i].state /\ (H \in SUBSET Hosts => r \in InviteType)
    BY <2>1 DEF InviteType
  <2> QED
    BY <1>1, <2>2
<1>2. CASE i \notin Invites
  <2>1. [f EXCEPT ![i] = r] = f
    BY <1>2
  <2> QED
    BY <2>1
<1> QED
  BY <1>1, <1>2

\* What the helpers that end a step make of a pass.
LEMMA HelperTypes ==
    ASSUME NEW p \in PassType
    PROVE  /\ Disturbed(p) \in PassType
           /\ Failed(p) \in PassType
           /\ HostnamesFailed(p) \in PassType
<1>1. /\ p.status \in StatusType
      /\ [p.status EXCEPT !.ready = "False"] \in StatusType
  BY DEF PassType, StatusType, Condition
<1>2. Disturbed(p) \in PassType
  BY DEF Disturbed, PassType
<1>3. Failed(p) \in PassType
  BY <1>1 DEF Failed, PassType, Steps
<1>4. HostnamesFailed(p) \in PassType
  BY <1>3 DEF HostnamesFailed, PassType, StatusType, Condition
<1> QED
  BY <1>2, <1>3, <1>4

LEMMA PublishableType ==
    ASSUME TypeOK
    PROVE  Publishable \subseteq Hosts /\ Records \subseteq Hosts
<1>1. pass.confirmed \subseteq Hosts
  BY DEF TypeOK, PassType
<1> QED
  BY <1>1 DEF Publishable, Records

LEMMA DNSDoneType ==
    ASSUME TypeOK, NEW p \in PassType, NEW c \in Condition
    PROVE  DNSDone(p, c) \in PassType
<1> DEFINE s == [p.status EXCEPT !.records = Records, !.dns = c,
                   !.ready = IF pass.missing THEN "False" ELSE @]
<1>1. p.status \in StatusType
  BY DEF PassType
<1>2. s \in StatusType
  BY <1>1, PublishableType DEF StatusType, Condition
<1>3. AfterDNS \in Steps
  BY DEF AfterDNS, Steps
<1>4. DNSDone(p, c) = [p EXCEPT !.at = AfterDNS, !.status = s]
  BY DEF DNSDone, PassType, StatusType
<1> HIDE DEF s
<1> QED
  BY <1>2, <1>3, <1>4 DEF PassType

LEMMA GotoType ==
    ASSUME TypeOK, NEW step \in Steps, Goto(step)
    PROVE  pass' \in PassType
BY DEF TypeOK, Goto, PassType

LEMMA BudgetType ==
    ASSUME TypeOK, NoFault \/ Fault \/ Edit
    PROVE  budget' \in [edits : Nat, hubEdits : Nat, faults : Nat]
BY DEF TypeOK, NoFault, Fault, Edit

LEMMA MeanwhileType ==
    ASSUME TypeOK, NEW p \in PassType
    PROVE  Meanwhile(p) \in PassType
BY HelperTypes DEF TypeOK, Meanwhile

LEMMA TouchedType ==
    ASSUME TypeOK, TunnelTouched \/ OthersActed
    PROVE  pass' \in PassType
<1>1. pass \in PassType /\ [pass EXCEPT !.stale = TRUE] \in PassType
  BY DEF TypeOK, PassType
<1> QED
  BY <1>1, MeanwhileType DEF TunnelTouched, OthersActed

LEMMA HubEditType ==
    ASSUME TypeOK, HubEdit
    PROVE  /\ pass' \in PassType
           /\ budget' \in [edits : Nat, hubEdits : Nat, faults : Nat]
<1>1. pass \in PassType /\ [pass EXCEPT !.hubTouched = TRUE] \in PassType
  BY DEF TypeOK, PassType
<1>2. budget' \in [edits : Nat, hubEdits : Nat, faults : Nat]
  BY DEF TypeOK, HubEdit
<1> QED
  BY <1>1, <1>2, MeanwhileType DEF HubEdit

-----------------------------------------------------------------------------
(***************************************************************************)
(* The inductive invariant, in parts.                                      *)
(***************************************************************************)

\* The steps that look an invite up at the hub have one.
InviteSteps == {"token", "get", "add", "remove", "sweep", "apply", "ports",
                "delPorts", "delInvite"}
InviteInHand == pass.at \in InviteSteps => pass.status.invite \in Invites

\* A pass takes an invite only when it read none, and keeps the one it read.
PassKeepsInvite ==
    /\ pass.at \in {"adopt", "create"} => pass.status.invite = NoInvite
    /\ pass.orig.invite # NoInvite => pass.status.invite = pass.orig.invite

\* What a pass read is what the object has, until somebody touches it.
SnapshotCurrent ==
    pass.at # "idle" /\ ~pass.stale => tt.spec = pass.spec /\ tt.status = pass.orig

\* A deletion pass works from the status as it read it, withdraws the records
\* before it releases anything, and deletes the invite before the finalizer.
DeleteSteps == {"delSweep", "delPorts", "delInvite", "unfinalize"}
DeletionOrder ==
    /\ pass.at \in DeleteSteps => pass.status = pass.orig
    /\ pass.at \in {"delPorts", "delInvite"} => Releasing
    /\ pass.at \in {"delPorts", "delInvite", "unfinalize"} /\ Releasing => Owned = {}
    /\ pass.at = "unfinalize" /\ Releasing /\ pass.status.invite # NoInvite
         => hub[pass.status.invite].state = "deleted"

\* From the GET to the DNSEndpoint a pass confirms nothing the invite lacks,
\* unless somebody touched the invite.
ViewFaithful ==
    /\ pass.at \in {"list", "adopt", "create", "token", "get", "add", "remove", "apply"}
         => ~pass.revoked
    /\ pass.at \in {"add", "remove", "sweep", "apply"} /\ ~pass.hubTouched /\ ~pass.revoked
         => /\ Pending(pass.status.invite)
            /\ pass.confirmed \subseteq hub[pass.status.invite].hosts

LEMMA TypeStep ==
    ASSUME TypeOK, InviteInHand, [Next]_vars
    PROVE  TypeOK'
<1> USE DEF clusterVars, hubVars
<1>0. /\ pass \in PassType /\ pass.status \in StatusType /\ pass.orig \in StatusType
      /\ NoPass \in PassType
  BY InitialTypes DEF TypeOK, PassType
<1>1. CASE StartPass
  <2>1. pass' \in PassType
    BY <1>1, <1>0 DEF StartPass, TypeOK, TunnelType, PassType, Steps
  <2> QED
    BY <1>1, <2>1 DEF StartPass, TypeOK
<1>2. CASE AddFinalizer
  <2>1. tt' \in TunnelType
    BY <1>2 DEF AddFinalizer, TypeOK, TunnelType
  <2> QED
    BY <1>0, <1>2, <2>1 DEF AddFinalizer, EndPass, TypeOK
<1>3. CASE ListAgents
  <2>1. budget' \in [edits : Nat, hubEdits : Nat, faults : Nat]
    BY <1>3, BudgetType DEF ListAgents
  <2>2. DesiredHostnames \subseteq Hosts /\ OptOutHostnames \subseteq Hosts
    BY <1>0 DEF DesiredHostnames, OptOutHostnames, TypeOK, Service, PassType, SpecType
  <2>3. [pass EXCEPT !.at = IF InviteKnown THEN "token" ELSE "adopt",
                     !.desired = DesiredHostnames, !.optOut = OptOutHostnames] \in PassType
    BY <1>0, <2>2 DEF PassType, Steps
  <2>4. pass' \in PassType
    BY <1>0, <1>3, <2>3, HelperTypes DEF ListAgents
  <2> QED
    BY <1>3, <2>1, <2>4 DEF ListAgents, TypeOK
<1>4. CASE AdoptInvite
  <2>1. budget' \in [edits : Nat, hubEdits : Nat, faults : Nat]
    BY <1>4, BudgetType DEF AdoptInvite
  <2>2. ASSUME NEW i \in Live
        PROVE  [pass EXCEPT !.at = "token", !.status.invite = i,
                            !.status.authorized = hub[i].hosts] \in PassType
    <3>1. i \in Invites /\ hub[i].hosts \subseteq Hosts
      BY <2>2 DEF Live, TypeOK, InviteType
    <3>2. [pass.status EXCEPT !.invite = i, !.authorized = hub[i].hosts] \in StatusType
      BY <1>0, <3>1 DEF StatusType, MaybeInvite
    <3> QED
      BY <1>0, <3>2 DEF PassType, StatusType, Steps
  <2>3. [Disturbed(pass) EXCEPT !.at = "create"] \in PassType
    BY <1>0, HelperTypes DEF PassType, Steps
  <2>4. pass' \in PassType
    <3>1. CASE Goto("create")
      BY <3>1, GotoType DEF Steps
    <3> QED
      BY <1>4, <2>2, <2>3, <3>1 DEF AdoptInvite
  <2> QED
    BY <1>4, <2>1, <2>4 DEF AdoptInvite, TypeOK
<1>5. CASE CreateInvite
  <2>1. budget' \in [edits : Nat, hubEdits : Nat, faults : Nat]
    BY <1>5, BudgetType DEF CreateInvite
  <2>2. pass.desired \subseteq Hosts
    BY <1>0 DEF PassType
  <2>3. hub' \in [Invites -> InviteType]
    <3>1. hub \in [Invites -> InviteType]
      BY DEF TypeOK
    <3>2. [state |-> "pending", hosts |-> pass.desired] \in InviteType
      BY <2>2 DEF InviteType
    <3>3. \/ UNCHANGED hub
          \/ \E i \in Invites :
               hub' = [hub EXCEPT ![i] = [state |-> "pending", hosts |-> pass.desired]]
      BY <1>5 DEF CreateInvite
    <3> HIDE DEF clusterVars
    <3> QED
      BY <3>1, <3>2, <3>3
  <2>4. ASSUME NEW i \in Invites
        PROVE  [pass EXCEPT !.at = "token", !.token = i, !.status.invite = i,
                            !.status.authorized = pass.desired] \in PassType
    <3>1. [pass.status EXCEPT !.invite = i, !.authorized = pass.desired] \in StatusType
      BY <1>0, <2>2 DEF StatusType, MaybeInvite
    <3> QED
      BY <1>0, <3>1 DEF PassType, StatusType, Steps, MaybeInvite
  <2>5. Disturbed(Failed(pass)) \in PassType
    BY <1>0, HelperTypes
  <2>6. pass' \in PassType
    BY <1>5, <2>4, <2>5 DEF CreateInvite
  <2>7. tokenAtRisk' \in BOOLEAN
    BY <1>5 DEF CreateInvite, TypeOK
  <2> QED
    BY <1>5, <2>1, <2>3, <2>6, <2>7 DEF CreateInvite, TypeOK
<1>6. CASE EnsureTokenSecret
  <2>1. budget' \in [edits : Nat, hubEdits : Nat, faults : Nat]
    BY <1>6, BudgetType DEF EnsureTokenSecret
  <2>2. [invite |-> pass.token, owner |-> tt.gen] \in SecretType
    BY <1>0 DEF PassType, SecretType, TypeOK, TunnelType
  <2>3. secret' \in SecretType
    BY <1>6, <2>2 DEF EnsureTokenSecret, TypeOK
  <2>4. pass' \in PassType
    <3>1. CASE Goto("get")
      BY <3>1, GotoType DEF Steps
    <3> QED
      BY <1>0, <1>6, <3>1, HelperTypes DEF EnsureTokenSecret
  <2> QED
    BY <1>6, <2>1, <2>3, <2>4 DEF EnsureTokenSecret, TypeOK
<1>7. CASE GetInvite
  <2>1. budget' \in [edits : Nat, hubEdits : Nat, faults : Nat]
    BY <1>7, BudgetType DEF GetInvite
  <2>2. Observed \subseteq Hosts /\ pass.desired \subseteq Hosts
    BY <1>0, <1>7 DEF GetInvite, InviteInHand, InviteSteps, Observed, TypeOK, InviteType, PassType
  <2>3. [pass EXCEPT !.at = "add", !.adds = pass.desired \ Observed,
                     !.removes = Observed \ pass.desired,
                     !.confirmed = Observed, !.hubTouched = FALSE] \in PassType
    BY <1>0, <2>2 DEF PassType, Steps
  <2>4. [pass EXCEPT !.at = "sweep", !.revoked = TRUE, !.status.authorized = Observed,
                     !.status.synced = "False", !.hubTouched = FALSE] \in PassType
    <3>1. [pass.status EXCEPT !.authorized = Observed, !.synced = "False"] \in StatusType
      BY <1>0, <2>2 DEF StatusType, Condition
    <3> QED
      BY <1>0, <3>1 DEF PassType, StatusType, Steps
  <2>5. [pass EXCEPT !.at = "sweep", !.revoked = TRUE, !.missing = TRUE, !.optOut = {},
                     !.status.synced = "False", !.hubTouched = FALSE] \in PassType
    <3>1. [pass.status EXCEPT !.synced = "False"] \in StatusType
      BY <1>0 DEF StatusType, Condition
    <3> QED
      BY <1>0, <3>1 DEF PassType, StatusType, Steps
  <2>6. Disturbed(HostnamesFailed(pass)) \in PassType
    BY <1>0, HelperTypes
  <2>7. pass' \in PassType
    BY <1>7, <2>3, <2>4, <2>5, <2>6 DEF GetInvite
  <2> QED
    BY <1>7, <2>1, <2>7 DEF GetInvite, TypeOK
<1>8. CASE AddHostname
  <2>1. budget' \in [edits : Nat, hubEdits : Nat, faults : Nat]
    BY <1>8, BudgetType DEF AddHostname
  <2>2. /\ pass.status.invite \in Invites
        /\ pass.adds \subseteq Hosts
    BY <1>0, <1>8 DEF AddHostname, InviteInHand, InviteSteps, PassType
  <2>3. ASSUME NEW h \in pass.adds
        PROVE  /\ [hub EXCEPT ![pass.status.invite].hosts = @ \union {h}]
                     \in [Invites -> InviteType]
               /\ [pass EXCEPT !.adds = @ \ {h}, !.confirmed = @ \union {h}] \in PassType
               /\ [pass EXCEPT !.adds = @ \ {h}] \in PassType
    <3>0. hub[pass.status.invite].hosts \union {h} \in SUBSET Hosts
      BY <2>2 DEF TypeOK, InviteType
    <3>1. [hub EXCEPT ![pass.status.invite].hosts = @ \union {h}] \in [Invites -> InviteType]
      BY <2>2, <3>0, HostsEdited DEF TypeOK
    <3>2. pass.confirmed \union {h} \subseteq Hosts /\ pass.adds \ {h} \subseteq Hosts
      BY <1>0, <2>2 DEF PassType
    <3> QED
      BY <1>0, <3>1, <3>2 DEF PassType
  <2>4. Disturbed(HostnamesFailed(pass)) \in PassType
    BY <1>0, HelperTypes
  <2>5. hub \in [Invites -> InviteType]
    BY DEF TypeOK
  <2>6. CASE pass.adds = {}
    <3>1. Goto("remove") /\ NoFault /\ UNCHANGED hub
      BY <1>8, <2>6 DEF AddHostname
    <3>2. pass' \in PassType
      BY <3>1, GotoType DEF Steps
    <3> QED
      BY <1>8, <2>1, <3>1, <3>2 DEF AddHostname, TypeOK
  <2>7. CASE pass.adds # {}
    <3>1. pass' \in PassType
      BY <1>8, <2>3, <2>4, <2>7 DEF AddHostname
    <3>2. hub' \in [Invites -> InviteType]
      BY <1>8, <2>3, <2>5, <2>7 DEF AddHostname
    <3> QED
      BY <1>8, <2>1, <3>1, <3>2 DEF AddHostname, TypeOK
  <2> QED
    BY <2>6, <2>7
<1>9. CASE RemoveHostname
  <2>1. budget' \in [edits : Nat, hubEdits : Nat, faults : Nat]
    BY <1>9, BudgetType DEF RemoveHostname
  <2>2. /\ pass.status.invite \in Invites
        /\ pass.removes \subseteq Hosts /\ pass.desired \subseteq Hosts
    BY <1>0, <1>9 DEF RemoveHostname, InviteInHand, InviteSteps, PassType
  <2>3. ASSUME NEW h \in pass.removes
        PROVE  /\ [hub EXCEPT ![pass.status.invite].hosts = @ \ {h}]
                     \in [Invites -> InviteType]
               /\ [pass EXCEPT !.removes = @ \ {h}, !.confirmed = @ \ {h}] \in PassType
    <3>0. hub[pass.status.invite].hosts \ {h} \in SUBSET Hosts
      BY <2>2 DEF TypeOK, InviteType
    <3>1. [hub EXCEPT ![pass.status.invite].hosts = @ \ {h}] \in [Invites -> InviteType]
      BY <2>2, <3>0, HostsEdited DEF TypeOK
    <3>2. pass.confirmed \ {h} \subseteq Hosts /\ pass.removes \ {h} \subseteq Hosts
      BY <1>0, <2>2 DEF PassType
    <3> QED
      BY <1>0, <3>1, <3>2 DEF PassType
  <2>4. Disturbed(HostnamesFailed(pass)) \in PassType
    BY <1>0, HelperTypes
  <2>5. hub \in [Invites -> InviteType]
    BY DEF TypeOK
  <2>6. [pass EXCEPT !.at = "sweep", !.status.synced = "True",
                     !.status.authorized = pass.desired] \in PassType
    <3>1. [pass.status EXCEPT !.synced = "True", !.authorized = pass.desired] \in StatusType
      BY <1>0, <2>2 DEF StatusType, Condition
    <3> QED
      BY <1>0, <3>1 DEF PassType, StatusType, Steps
  <2>7. pass' \in PassType /\ hub' \in [Invites -> InviteType]
    BY <1>9, <2>3, <2>4, <2>5, <2>6 DEF RemoveHostname
  <2> QED
    BY <1>9, <2>1, <2>7 DEF RemoveHostname, TypeOK
<1>10. CASE SweepDNSEndpoints
  <2>1. budget' \in [edits : Nat, hubEdits : Nat, faults : Nat]
    BY <1>10, BudgetType DEF SweepDNSEndpoints
  <2>2. endpoints' \in [Namespaces -> SUBSET Hosts]
    BY <1>10 DEF SweepDNSEndpoints, Without, TypeOK
  <2>3. [pass EXCEPT !.at = "apply"] \in PassType
    BY <1>0 DEF PassType, Steps
  <2>4. Disturbed(pass) \in PassType
    BY <1>0, HelperTypes
  <2>5. pass' \in PassType
    BY <1>0, <1>10, <2>3, <2>4, DNSDoneType DEF SweepDNSEndpoints, Condition
  <2> QED
    BY <1>10, <2>1, <2>2, <2>5 DEF SweepDNSEndpoints, TypeOK
<1>11. CASE ApplyDNSEndpoint
  <2>1. budget' \in [edits : Nat, hubEdits : Nat, faults : Nat]
    BY <1>11, BudgetType DEF ApplyDNSEndpoint
  <2>2. endpoints' \in [Namespaces -> SUBSET Hosts]
    BY <1>11, PublishableType DEF ApplyDNSEndpoint, TypeOK
  <2>3. Disturbed(pass) \in PassType
    BY <1>0, HelperTypes
  <2>4. pass' \in PassType
    BY <1>0, <1>11, <2>3, DNSDoneType DEF ApplyDNSEndpoint, Condition
  <2> QED
    BY <1>11, <2>1, <2>2, <2>4 DEF ApplyDNSEndpoint, TypeOK
<1>12. CASE ConvergePorts
  <2>1. budget' \in [edits : Nat, hubEdits : Nat, faults : Nat]
    BY <1>12, BudgetType DEF ConvergePorts
  <2>2. [pass EXCEPT !.at = "write", !.status.issued = TRUE, !.status.ready = "True"] \in PassType
    <3>1. [pass.status EXCEPT !.issued = TRUE, !.ready = "True"] \in StatusType
      BY <1>0 DEF StatusType, Condition
    <3> QED
      BY <1>0, <3>1 DEF PassType, StatusType, Steps
  <2>3. pass' \in PassType
    BY <1>0, <1>12, <2>2, HelperTypes DEF ConvergePorts
  <2> QED
    BY <1>12, <2>1, <2>3 DEF ConvergePorts, TypeOK
<1>13. CASE WriteStatus
  <2>1. tt' \in TunnelType
    BY <1>0, <1>13 DEF WriteStatus, TypeOK, TunnelType
  <2> QED
    BY <1>0, <1>13, <2>1 DEF WriteStatus, EndPass, TypeOK
<1>14. CASE DeleteSweep
  <2>1. budget' \in [edits : Nat, hubEdits : Nat, faults : Nat]
    BY <1>14, BudgetType DEF DeleteSweep
  <2>2. endpoints' \in [Namespaces -> SUBSET Hosts]
    BY <1>14 DEF DeleteSweep, Without, TypeOK
  <2>3. pass' \in PassType
    BY <1>0, <1>14, GotoType DEF DeleteSweep, SweepError, EndPass, Steps
  <2> QED
    BY <1>14, <2>1, <2>2, <2>3 DEF DeleteSweep, TypeOK
<1>15. CASE DeletePorts
  BY <1>15, GotoType DEF DeletePorts, Steps, TypeOK
<1>16. CASE DeleteInvite
  <2>1. budget' \in [edits : Nat, hubEdits : Nat, faults : Nat]
    BY <1>16, BudgetType DEF DeleteInvite
  <2>2. hub' \in [Invites -> InviteType]
    BY <1>16 DEF DeleteInvite, TypeOK, InviteType
  <2>3. pass' \in PassType
    BY <1>0, <1>16, GotoType DEF DeleteInvite, EndPass, Steps
  <2> QED
    BY <1>16, <2>1, <2>2, <2>3 DEF DeleteInvite, TypeOK
<1>17. CASE RemoveFinalizer
  <2>1. tt' \in TunnelType
    BY <1>17 DEF RemoveFinalizer, TypeOK, TunnelType
  <2> QED
    BY <1>0, <1>17, <2>1 DEF RemoveFinalizer, EndPass, TypeOK
<1>18. CASE Crash
  BY <1>0, <1>18, BudgetType DEF Crash, EndPass, TypeOK
<1>19. CASE CreateTunnel
  <2>1. tt' \in TunnelType
    BY <1>19, InputAssumption, InitialTypes DEF CreateTunnel, TypeOK, TunnelType
  <2> QED
    BY <1>19, <2>1, TouchedType DEF CreateTunnel, TypeOK
<1>20. CASE EditSpec
  <2>1. tt' \in TunnelType
    BY <1>20, InputAssumption DEF EditSpec, TypeOK, TunnelType
  <2> QED
    BY <1>20, <2>1, TouchedType, BudgetType DEF EditSpec, TypeOK
<1>21. CASE DeleteTunnel
  <2>1. tt' \in TunnelType
    BY <1>21 DEF DeleteTunnel, TypeOK, TunnelType
  <2> QED
    BY <1>21, <2>1, TouchedType DEF DeleteTunnel, TypeOK
<1>22. CASE EditServices
  <2>1. services' \subseteq Service
    BY <1>22, InputAssumption DEF EditServices
  <2> QED
    BY <1>22, <2>1, TouchedType, BudgetType DEF EditServices, TypeOK
<1>23. CASE EditKey
  BY <1>23, TouchedType, BudgetType DEF EditKey, TypeOK
<1>24. CASE DeleteSecret
  BY <1>24, TouchedType, BudgetType, InitialTypes DEF DeleteSecret, TypeOK
<1>25. CASE SyncCache
  BY <1>25 DEF SyncCache, TypeOK
<1>26. CASE CollectSecret
  BY <1>26, TouchedType, InitialTypes DEF CollectSecret, TypeOK
<1>27. CASE RevokeInvite
  <2>1. hub' \in [Invites -> InviteType]
    BY <1>27 DEF RevokeInvite, TypeOK, InviteType
  <2> QED
    BY <1>27, <2>1, HubEditType DEF RevokeInvite, TypeOK
<1>28. CASE LoseInvite
  <2>1. hub' \in [Invites -> InviteType]
    <3>1. hub \in [Invites -> InviteType]
      BY DEF TypeOK
    <3>2. [state |-> "deleted", hosts |-> {}] \in InviteType
      BY DEF InviteType
    <3>3. \E i \in Invites : hub' = [hub EXCEPT ![i] = [state |-> "deleted", hosts |-> {}]]
      BY <1>28 DEF LoseInvite, Live
    <3> QED
      BY <3>1, <3>2, <3>3
  <2> QED
    BY <1>28, <2>1, HubEditType DEF LoseInvite, TypeOK
<1>29. CASE EditInvite
  <2>1. hub' \in [Invites -> InviteType]
    BY <1>29 DEF EditInvite, TypeOK, InviteType
  <2> QED
    BY <1>29, <2>1, HubEditType DEF EditInvite, TypeOK
<1>30. CASE EditForeign
  <2>1. foreign' \subseteq Hosts
    BY <1>30 DEF EditForeign, TypeOK
  <2>2. budget' \in [edits : Nat, hubEdits : Nat, faults : Nat]
    BY <1>30 DEF EditForeign, TypeOK
  <2> QED
    BY <1>30, <2>1, <2>2, TouchedType DEF EditForeign, TypeOK
<1>31. CASE UNCHANGED vars
  BY <1>31 DEF vars, TypeOK
<1> QED
  BY <1>1, <1>2, <1>3, <1>4, <1>5, <1>6, <1>7, <1>8, <1>9, <1>10, <1>11, <1>12, <1>13,
     <1>14, <1>15, <1>16, <1>17, <1>18, <1>19, <1>20, <1>21, <1>22, <1>23, <1>24, <1>25,
     <1>26, <1>27, <1>28, <1>29, <1>30, <1>31 DEF Next, PassStep, Others

(***************************************************************************)
(* What everyone but the pass leaves alone.                                *)
(***************************************************************************)

LEMMA OthersOnPass ==
    ASSUME TypeOK, Others
    PROVE  /\ pass'.at = pass.at
           /\ pass'.spec = pass.spec
           /\ pass'.orig = pass.orig
           /\ pass'.status = pass.status
           /\ pass'.token = pass.token
           /\ pass'.confirmed = pass.confirmed
           /\ pass'.revoked = pass.revoked
           /\ pass.stale => pass'.stale
           /\ pass.hubTouched => pass'.hubTouched
           /\ pass.at # "idle" => UNCHANGED <<tt.spec, tt.status>> \/ pass'.stale
           /\ pass.at # "idle" => hub' = hub \/ pass'.hubTouched
           /\ endpoints' = endpoints
<1> USE DEF clusterVars, hubVars, Meanwhile, Disturbed
<1>0. pass \in PassType
  BY DEF TypeOK
<1>1. CASE CreateTunnel
  BY <1>0, <1>1 DEF CreateTunnel, TunnelTouched, PassType
<1>2. CASE EditSpec
  BY <1>0, <1>2 DEF EditSpec, TunnelTouched, PassType
<1>3. CASE DeleteTunnel
  BY <1>0, <1>3 DEF DeleteTunnel, TunnelTouched, PassType
<1>4. CASE EditServices \/ EditKey \/ DeleteSecret \/ CollectSecret
  BY <1>0, <1>4 DEF EditServices, EditKey, DeleteSecret, CollectSecret, OthersActed, PassType
<1>5. CASE SyncCache
  BY <1>0, <1>5 DEF SyncCache, PassType
<1>6. CASE RevokeInvite \/ LoseInvite \/ EditInvite
  BY <1>0, <1>6 DEF RevokeInvite, LoseInvite, EditInvite, HubEdit, PassType
<1>7. CASE EditForeign
  BY <1>0, <1>7 DEF EditForeign, OthersActed, PassType
<1> QED
  BY <1>1, <1>2, <1>3, <1>4, <1>5, <1>6, <1>7 DEF Others

\* The hostname loops change no invite's state.
LEMMA HostnamesKeepStates ==
    ASSUME TypeOK, AddHostname \/ RemoveHostname
    PROVE  \A i \in Invites : hub'[i].state = hub[i].state
<1> DEFINE j == pass.status.invite
<1>0. hub \in [Invites -> InviteType]
  BY DEF TypeOK
<1>1. UNCHANGED hub \/ \E H : hub' = [hub EXCEPT ![j].hosts = H]
  <2>1. CASE AddHostname
    BY <2>1 DEF AddHostname
  <2>2. CASE RemoveHostname
    BY <2>2 DEF RemoveHostname
  <2> QED
    BY <2>1, <2>2
<1> HIDE DEF j
<1>2. ASSUME NEW H, hub' = [hub EXCEPT ![j].hosts = H]
      PROVE  \A i \in Invites : hub'[i].state = hub[i].state
  BY <1>0, <1>2, HostsEdited
<1> QED
  BY <1>1, <1>2

\* An invite is used up for good, and a deleted one never comes back, whoever acts.
LEMMA InviteLifecycle ==
    ASSUME TypeOK, [Next]_vars, NEW i \in Invites
    PROVE  /\ hub[i].state # "unused" => hub'[i].state # "unused"
           /\ hub[i].state = "deleted" => hub'[i].state = "deleted"
<1> USE DEF clusterVars, hubVars
<1>0. hub \in [Invites -> InviteType]
  BY DEF TypeOK
<1>1. CASE UNCHANGED hub
  BY <1>1
<1>2. CASE CreateInvite
  BY <1>0, <1>2 DEF CreateInvite, InviteType
<1>3. CASE AddHostname
  BY <1>3, HostnamesKeepStates
<1>4. CASE RemoveHostname
  BY <1>4, HostnamesKeepStates
<1>5. CASE DeleteInvite
  BY <1>0, <1>5 DEF DeleteInvite, InviteType
<1>6. CASE RevokeInvite
  BY <1>0, <1>6 DEF RevokeInvite, Pending, InviteType
<1>7. CASE LoseInvite
  BY <1>0, <1>7 DEF LoseInvite, Live, InviteType
<1>8. CASE EditInvite
  BY <1>0, <1>8 DEF EditInvite, InviteType
<1> QED
  BY <1>1, <1>2, <1>3, <1>4, <1>5, <1>6, <1>7, <1>8
     DEF Next, PassStep, Others, vars, StartPass, AddFinalizer, ListAgents, AdoptInvite,
         EnsureTokenSecret, GetInvite, SweepDNSEndpoints, ApplyDNSEndpoint, ConvergePorts,
         WriteStatus, DeleteSweep, DeletePorts, RemoveFinalizer, Crash, CreateTunnel, EditSpec,
         DeleteTunnel, EditServices, EditKey, DeleteSecret, SyncCache, CollectSecret, EditForeign

(***************************************************************************)
(* The flow of a pass: where each step leads, and what it keeps.           *)
(***************************************************************************)

SameRead(q, p) == q.spec = p.spec /\ q.orig = p.orig /\ q.stale = p.stale
Keeps(q, p) == SameRead(q, p) /\ q.status.invite = p.status.invite /\ q.token = p.token
GivesUp(q, p) == Keeps(q, p) /\ q.at = "write" /\ q.status.ready = "False"

LEMMA HelperFields ==
    ASSUME NEW p \in PassType
    PROVE  /\ Keeps(Disturbed(p), p)
           /\ \A f \in {"at", "status", "confirmed", "revoked", "hubTouched"} :
                Disturbed(p)[f] = p[f]
           /\ GivesUp(Failed(p), p)
           /\ GivesUp(HostnamesFailed(p), p)
           /\ GivesUp(Disturbed(Failed(p)), p)
           /\ GivesUp(Disturbed(HostnamesFailed(p)), p)
<1>1. p.status \in StatusType /\ Failed(p) \in PassType /\ HostnamesFailed(p) \in PassType
  BY HelperTypes DEF PassType
<1>2. ASSUME NEW q \in PassType
      PROVE  /\ Keeps(Disturbed(q), q)
             /\ \A f \in {"at", "status", "confirmed", "revoked", "hubTouched"} :
                  Disturbed(q)[f] = q[f]
  BY DEF Disturbed, PassType, Keeps, SameRead
<1>3. GivesUp(Failed(p), p)
  BY <1>1 DEF Failed, GivesUp, Keeps, SameRead, PassType, StatusType
<1>4. GivesUp(HostnamesFailed(p), p)
  <2>1. Failed(p).status \in StatusType
    BY <1>1 DEF PassType
  <2> QED
    BY <1>1, <1>3, <2>1 DEF HostnamesFailed, GivesUp, Keeps, SameRead, PassType, StatusType
<1>5. GivesUp(Disturbed(Failed(p)), p)
  BY <1>1, <1>2, <1>3 DEF GivesUp, Keeps, SameRead
<1>6. GivesUp(Disturbed(HostnamesFailed(p)), p)
  BY <1>1, <1>2, <1>4 DEF GivesUp, Keeps, SameRead
<1> QED
  BY <1>2, <1>3, <1>4, <1>5, <1>6

LEMMA DNSDoneFields ==
    ASSUME NEW p \in PassType, NEW c \in Condition
    PROVE  /\ Keeps(DNSDone(p, c), p)
           /\ DNSDone(p, c).at \in {"write", "ports"}
           /\ DNSDone(p, c).at = "write" => DNSDone(p, c).status.ready = "False"
<1>1. p.status \in StatusType
  BY DEF PassType
<1> QED
  BY <1>1 DEF DNSDone, AfterDNS, Keeps, SameRead, PassType, StatusType

LEMMA EndsAndStarts ==
    /\ NoPass.at = "idle" /\ NoPass.orig.invite = NoInvite /\ NoPass.status.invite = NoInvite
    /\ NoPass.token = NoInvite /\ ~NoPass.stale /\ ~NoPass.hubTouched /\ ~NoPass.revoked
    /\ StartPass =>
         /\ pass'.at \in {"delSweep", "finalize", "list"}
         /\ pass'.spec = tt.spec /\ pass'.orig = tt.status /\ pass'.status = tt.status
         /\ pass'.token = NoInvite /\ ~pass'.stale /\ ~pass'.revoked
    /\ AddFinalizer \/ WriteStatus \/ RemoveFinalizer \/ Crash => pass' = NoPass
<1>1. /\ NoPass.at = "idle" /\ NoPass.orig.invite = NoInvite /\ NoPass.status.invite = NoInvite
      /\ NoPass.token = NoInvite /\ ~NoPass.stale /\ ~NoPass.hubTouched /\ ~NoPass.revoked
  BY DEF NoPass, NoStatus
<1>2. ASSUME StartPass
      PROVE  /\ pass'.at \in {"delSweep", "finalize", "list"}
             /\ pass'.spec = tt.spec /\ pass'.orig = tt.status /\ pass'.status = tt.status
             /\ pass'.token = NoInvite /\ ~pass'.stale /\ ~pass'.revoked
  BY <1>2 DEF StartPass, NoPass
<1>3. AddFinalizer \/ WriteStatus \/ RemoveFinalizer \/ Crash => pass' = NoPass
  BY DEF AddFinalizer, WriteStatus, RemoveFinalizer, Crash, EndPass
<1> QED
  BY <1>1, <1>2, <1>3

LEMMA GotoFields ==
    ASSUME TypeOK, NEW step, Goto(step)
    PROVE  /\ Keeps(pass', pass) /\ pass'.at = step /\ pass'.status = pass.status
           /\ pass'.confirmed = pass.confirmed
           /\ pass'.revoked = pass.revoked /\ pass'.hubTouched = pass.hubTouched
BY DEF Goto, Keeps, SameRead, TypeOK, PassType

LEMMA InviteFlow ==
    ASSUME TypeOK
    PROVE  /\ ListAgents =>
                \/ GivesUp(pass', pass)
                \/ /\ Keeps(pass', pass)
                   /\ \/ pass'.at = "token" /\ pass.status.invite # NoInvite
                      \/ pass'.at = "adopt" /\ pass.status.invite = NoInvite
           /\ AdoptInvite =>
                \/ /\ \E i \in Live : pass'.at = "token" /\ pass'.status.invite = i
                   /\ SameRead(pass', pass) /\ pass'.token = pass.token
                \/ Keeps(pass', pass) /\ pass'.at = "create"
           /\ CreateInvite =>
                \/ GivesUp(pass', pass)
                \/ /\ pass'.token \in Invites /\ pass'.status.invite = pass'.token
                   /\ hub[pass'.token].state = "unused" /\ hub'[pass'.token].state = "pending"
                   /\ \A i \in Invites \ {pass'.token} : hub'[i] = hub[i]
                   /\ SameRead(pass', pass) /\ pass'.at = "token"
           /\ EnsureTokenSecret =>
                \/ GivesUp(pass', pass)
                \/ Keeps(pass', pass) /\ pass'.at = "get"
<1>0. pass \in PassType /\ pass.status \in StatusType /\ hub \in [Invites -> InviteType]
  BY DEF TypeOK, PassType
<1> DEFINE listed == [pass EXCEPT !.at = IF InviteKnown THEN "token" ELSE "adopt",
                        !.desired = DesiredHostnames, !.optOut = OptOutHostnames]
           adopted(i) == [pass EXCEPT !.at = "token", !.status.invite = i,
                                      !.status.authorized = hub[i].hosts]
           created(i) == [pass EXCEPT !.at = "token", !.token = i, !.status.invite = i,
                                      !.status.authorized = pass.desired]
<1>1. ASSUME ListAgents
      PROVE  \/ GivesUp(pass', pass)
             \/ /\ Keeps(pass', pass)
                /\ \/ pass'.at = "token" /\ pass.status.invite # NoInvite
                   \/ pass'.at = "adopt" /\ pass.status.invite = NoInvite
  <2>1. /\ Keeps(listed, pass)
        /\ listed.at = IF InviteKnown THEN "token" ELSE "adopt"
    BY <1>0 DEF Keeps, SameRead, PassType
  <2>2. pass' \in {Failed(pass), Disturbed(Failed(pass)), listed}
    BY <1>1 DEF ListAgents
  <2> HIDE DEF listed
  <2> QED
    BY <1>0, <2>1, <2>2, HelperFields DEF InviteKnown
<1>2. ASSUME AdoptInvite
      PROVE  \/ /\ \E i \in Live : pass'.at = "token" /\ pass'.status.invite = i
                /\ SameRead(pass', pass) /\ pass'.token = pass.token
             \/ Keeps(pass', pass) /\ pass'.at = "create"
  <2>1. ASSUME NEW i \in Live
        PROVE  /\ adopted(i).at = "token" /\ adopted(i).status.invite = i
               /\ SameRead(adopted(i), pass) /\ adopted(i).token = pass.token
    BY <1>0 DEF SameRead, PassType, StatusType
  <2>2. /\ Keeps([Disturbed(pass) EXCEPT !.at = "create"], pass)
        /\ [Disturbed(pass) EXCEPT !.at = "create"].at = "create"
    BY <1>0 DEF Disturbed, Keeps, SameRead, PassType
  <2>3. \/ \E i \in Live : pass' = adopted(i)
        \/ Goto("create")
        \/ pass' = [Disturbed(pass) EXCEPT !.at = "create"]
    BY <1>2 DEF AdoptInvite
  <2> HIDE DEF adopted
  <2> QED
    BY <2>1, <2>2, <2>3, GotoFields
<1>3. ASSUME CreateInvite
      PROVE  \/ GivesUp(pass', pass)
             \/ /\ pass'.token \in Invites /\ pass'.status.invite = pass'.token
                /\ hub[pass'.token].state = "unused" /\ hub'[pass'.token].state = "pending"
                /\ \A i \in Invites \ {pass'.token} : hub'[i] = hub[i]
                /\ SameRead(pass', pass) /\ pass'.at = "token"
  <2>1. ASSUME NEW i \in Invites
        PROVE  /\ created(i).at = "token" /\ created(i).status.invite = i
               /\ SameRead(created(i), pass) /\ created(i).token = i
    BY <1>0 DEF SameRead, PassType, StatusType
  <2>2. \/ pass' = Disturbed(Failed(pass))
        \/ \E i \in Invites :
             /\ pass' = created(i)
             /\ hub[i].state = "unused"
             /\ hub' = [hub EXCEPT ![i] = [state |-> "pending", hosts |-> pass.desired]]
    BY <1>3 DEF CreateInvite
  <2> HIDE DEF created
  <2>3. CASE pass' = Disturbed(Failed(pass))
    BY <1>0, <2>3, HelperFields
  <2>4. ASSUME NEW i \in Invites,
               pass' = created(i),
               hub[i].state = "unused",
               hub' = [hub EXCEPT ![i] = [state |-> "pending", hosts |-> pass.desired]]
        PROVE  /\ pass'.token \in Invites /\ pass'.status.invite = pass'.token
               /\ hub[pass'.token].state = "unused" /\ hub'[pass'.token].state = "pending"
               /\ \A j \in Invites \ {pass'.token} : hub'[j] = hub[j]
               /\ SameRead(pass', pass) /\ pass'.at = "token"
    BY <1>0, <2>1, <2>4
  <2> QED
    BY <2>2, <2>3, <2>4
<1>4. ASSUME EnsureTokenSecret
      PROVE  \/ GivesUp(pass', pass)
             \/ Keeps(pass', pass) /\ pass'.at = "get"
  <2>1. pass' \in {Failed(pass), Disturbed(Failed(pass))} \/ Goto("get")
    BY <1>4 DEF EnsureTokenSecret
  <2> QED
    BY <1>0, <2>1, HelperFields, GotoFields
<1> QED
  BY <1>1, <1>2, <1>3, <1>4

LEMMA HostnameFlow ==
    ASSUME TypeOK
    PROVE  /\ GetInvite => GivesUp(pass', pass) \/ (Keeps(pass', pass) /\ pass'.at \in {"add", "sweep"})
           /\ AddHostname =>
                GivesUp(pass', pass) \/ (Keeps(pass', pass) /\ pass'.at \in {"add", "remove"})
           /\ RemoveHostname =>
                GivesUp(pass', pass) \/ (Keeps(pass', pass) /\ pass'.at \in {"remove", "sweep"})
<1>0. pass \in PassType /\ pass.status \in StatusType
  BY DEF TypeOK, PassType
<1>1. ASSUME GetInvite
      PROVE  GivesUp(pass', pass) \/ (Keeps(pass', pass) /\ pass'.at \in {"add", "sweep"})
  <2> DEFINE viewed == [pass EXCEPT !.at = "add", !.adds = pass.desired \ Observed,
                          !.removes = Observed \ pass.desired,
                          !.confirmed = Observed, !.hubTouched = FALSE]
             revoked == [pass EXCEPT !.at = "sweep", !.revoked = TRUE,
                          !.status.authorized = Observed,
                          !.status.synced = "False", !.hubTouched = FALSE]
             missing == [pass EXCEPT !.at = "sweep", !.revoked = TRUE, !.missing = TRUE,
                          !.optOut = {}, !.status.synced = "False", !.hubTouched = FALSE]
  <2>1. /\ Keeps(viewed, pass) /\ viewed.at = "add"
        /\ Keeps(revoked, pass) /\ revoked.at = "sweep"
        /\ Keeps(missing, pass) /\ missing.at = "sweep"
    BY <1>0 DEF Keeps, SameRead, PassType, StatusType
  <2>2. pass' \in {viewed, revoked, missing, Disturbed(HostnamesFailed(pass))}
    BY <1>1 DEF GetInvite
  <2> HIDE DEF viewed, revoked, missing
  <2> QED
    BY <1>0, <2>1, <2>2, HelperFields
<1>2. ASSUME AddHostname
      PROVE  GivesUp(pass', pass) \/ (Keeps(pass', pass) /\ pass'.at \in {"add", "remove"})
  <2> DEFINE added(h) == [pass EXCEPT !.adds = @ \ {h}, !.confirmed = @ \union {h}]
             absorbed(h) == [pass EXCEPT !.adds = @ \ {h}]
  <2>1. \/ Goto("remove")
        \/ pass.at = "add" /\ \E h \in pass.adds : pass' = added(h)
        \/ pass.at = "add" /\ \E h \in pass.adds : pass' = absorbed(h)
        \/ pass' = Disturbed(HostnamesFailed(pass))
    BY <1>2 DEF AddHostname
  <2>2. \A h : /\ Keeps(added(h), pass) /\ added(h).at = pass.at
               /\ Keeps(absorbed(h), pass) /\ absorbed(h).at = pass.at
    BY <1>0 DEF Keeps, SameRead, PassType
  <2> HIDE DEF added, absorbed
  <2>3. CASE Goto("remove")
    BY <2>3, GotoFields
  <2> QED
    BY <1>0, <2>1, <2>2, <2>3, HelperFields
<1>3. ASSUME RemoveHostname
      PROVE  GivesUp(pass', pass) \/ (Keeps(pass', pass) /\ pass'.at \in {"remove", "sweep"})
  <2> DEFINE synced == [pass EXCEPT !.at = "sweep", !.status.synced = "True",
                                    !.status.authorized = pass.desired]
  <2>1. \/ pass' = synced
        \/ /\ pass.at = "remove"
           /\ \E h \in pass.removes :
                pass' = [pass EXCEPT !.removes = @ \ {h}, !.confirmed = @ \ {h}]
        \/ pass' = Disturbed(HostnamesFailed(pass))
    BY <1>3 DEF RemoveHostname
  <2>2. \A h : /\ Keeps([pass EXCEPT !.removes = @ \ {h}, !.confirmed = @ \ {h}], pass)
               /\ [pass EXCEPT !.removes = @ \ {h}, !.confirmed = @ \ {h}].at = pass.at
    BY <1>0 DEF Keeps, SameRead, PassType
  <2>3. Keeps(synced, pass) /\ synced.at = "sweep"
    BY <1>0 DEF Keeps, SameRead, PassType, StatusType
  <2> HIDE DEF synced
  <2> QED
    BY <1>0, <2>1, <2>2, <2>3, HelperFields
<1> QED
  BY <1>1, <1>2, <1>3

LEMMA PublishFlow ==
    ASSUME TypeOK
    PROVE  /\ SweepDNSEndpoints =>
                /\ Keeps(pass', pass) /\ pass'.at \in {"apply", "ports", "write"}
                /\ pass'.at = "write" => pass'.status.ready = "False"
                /\ pass'.at = "apply" => /\ ~Withdrawing
                                        /\ pass'.confirmed = pass.confirmed
                                        /\ pass'.revoked = pass.revoked
                                        /\ pass'.hubTouched = pass.hubTouched
           /\ ApplyDNSEndpoint =>
                /\ Keeps(pass', pass) /\ pass'.at \in {"ports", "write"}
                /\ pass'.at = "write" => pass'.status.ready = "False"
           /\ ConvergePorts =>
                \/ GivesUp(pass', pass)
                \/ Keeps(pass', pass) /\ pass'.at = "write"
<1>0. /\ pass \in PassType /\ pass.status \in StatusType
      /\ Disturbed(pass) \in PassType /\ Keeps(Disturbed(pass), pass)
  BY HelperTypes, HelperFields DEF TypeOK, PassType
<1>1. ASSUME SweepDNSEndpoints
      PROVE  /\ Keeps(pass', pass) /\ pass'.at \in {"apply", "ports", "write"}
             /\ pass'.at = "write" => pass'.status.ready = "False"
             /\ pass'.at = "apply" => /\ ~Withdrawing
                                     /\ pass'.confirmed = pass.confirmed
                                     /\ pass'.revoked = pass.revoked
                                     /\ pass'.hubTouched = pass.hubTouched
  <2>1. \/ /\ ~Withdrawing
           /\ pass' = [pass EXCEPT !.at = "apply"]
        \/ \E c \in Condition : pass' \in {DNSDone(pass, c), DNSDone(Disturbed(pass), c)}
    BY <1>1 DEF SweepDNSEndpoints, Condition
  <2>2. CASE ~Withdrawing /\ pass' = [pass EXCEPT !.at = "apply"]
    BY <1>0, <2>2 DEF Keeps, SameRead, PassType
  <2>3. ASSUME NEW c \in Condition,
               pass' \in {DNSDone(pass, c), DNSDone(Disturbed(pass), c)}
        PROVE  /\ Keeps(pass', pass) /\ pass'.at \in {"ports", "write"}
               /\ pass'.at = "write" => pass'.status.ready = "False"
    BY <1>0, <2>3, DNSDoneFields DEF Keeps, SameRead
  <2> QED
    BY <2>1, <2>2, <2>3
<1>2. ASSUME ApplyDNSEndpoint
      PROVE  /\ Keeps(pass', pass) /\ pass'.at \in {"ports", "write"}
             /\ pass'.at = "write" => pass'.status.ready = "False"
  <2>1. PICK c \in Condition : pass' \in {DNSDone(pass, c), DNSDone(Disturbed(pass), c)}
    BY <1>2 DEF ApplyDNSEndpoint, Condition
  <2> QED
    BY <1>0, <2>1, DNSDoneFields DEF Keeps, SameRead
<1>3. ASSUME ConvergePorts
      PROVE  GivesUp(pass', pass) \/ (Keeps(pass', pass) /\ pass'.at = "write")
  <2> DEFINE done == [pass EXCEPT !.at = "write", !.status.issued = TRUE, !.status.ready = "True"]
  <2>1. Keeps(done, pass) /\ done.at = "write"
    BY <1>0 DEF Keeps, SameRead, PassType, StatusType
  <2>2. pass' \in {done, Disturbed(Failed(pass))}
    BY <1>3 DEF ConvergePorts
  <2> HIDE DEF done
  <2> QED
    BY <1>0, <2>1, <2>2, HelperFields
<1> QED
  BY <1>1, <1>2, <1>3

LEMMA DeleteFlow ==
    ASSUME TypeOK
    PROVE  /\ DeleteSweep =>
                \/ pass' = NoPass
                \/ /\ Keeps(pass', pass) /\ pass'.status = pass.status
                   /\ \/ pass'.at = "unfinalize" /\ ~Releasing
                      \/ /\ pass'.at = "unfinalize" /\ pass.status.invite = NoInvite
                         /\ endpoints' = Without(Namespaces)
                      \/ /\ pass'.at = "delPorts" /\ pass.status.invite # NoInvite
                         /\ Releasing /\ endpoints' = Without(Namespaces)
           /\ DeletePorts =>
                Keeps(pass', pass) /\ pass'.status = pass.status /\ pass'.at = "delInvite"
           /\ DeleteInvite =>
                \/ pass' = NoPass
                \/ Keeps(pass', pass) /\ pass'.status = pass.status /\ pass'.at = "unfinalize"
<1>1. ASSUME DeleteSweep
      PROVE  \/ pass' = NoPass
             \/ /\ Keeps(pass', pass) /\ pass'.status = pass.status
                /\ \/ pass'.at = "unfinalize" /\ ~Releasing
                   \/ /\ pass'.at = "unfinalize" /\ pass.status.invite = NoInvite
                      /\ endpoints' = Without(Namespaces)
                   \/ /\ pass'.at = "delPorts" /\ pass.status.invite # NoInvite
                      /\ Releasing /\ endpoints' = Without(Namespaces)
  BY <1>1, GotoFields DEF DeleteSweep, SweepError, EndPass
<1>2. ASSUME DeletePorts
      PROVE  Keeps(pass', pass) /\ pass'.status = pass.status /\ pass'.at = "delInvite"
  BY <1>2, GotoFields DEF DeletePorts
<1>3. ASSUME DeleteInvite
      PROVE  \/ pass' = NoPass
             \/ Keeps(pass', pass) /\ pass'.status = pass.status /\ pass'.at = "unfinalize"
  BY <1>3, GotoFields DEF DeleteInvite, EndPass
<1> QED
  BY <1>1, <1>2, <1>3

(***************************************************************************)
(* Each part of the invariant is kept.                                     *)
(***************************************************************************)

LEMMA InviteInHandStep ==
    ASSUME TypeOK, InviteInHand, [Next]_vars
    PROVE  InviteInHand'
<1> USE DEF InviteInHand, InviteSteps
<1>0. pass.status.invite \in Invites \union {NoInvite}
  BY DEF TypeOK, PassType, StatusType, MaybeInvite
<1>1. CASE StartPass
  BY <1>1, EndsAndStarts
<1>2. CASE ListAgents
  BY <1>0, <1>2, InviteFlow DEF GivesUp, Keeps, SameRead
<1>3. CASE AdoptInvite
  BY <1>0, <1>3, InviteFlow DEF Keeps, SameRead, Live, AdoptInvite
<1>4. CASE CreateInvite
  BY <1>0, <1>4, InviteFlow DEF GivesUp, Keeps, SameRead, CreateInvite
<1>5. CASE EnsureTokenSecret
  BY <1>5, InviteFlow DEF EnsureTokenSecret, GivesUp, Keeps, SameRead
<1>6. CASE GetInvite
  BY <1>6, HostnameFlow DEF GetInvite, GivesUp, Keeps, SameRead
<1>7. CASE AddHostname
  BY <1>7, HostnameFlow DEF AddHostname, GivesUp, Keeps, SameRead
<1>8. CASE RemoveHostname
  BY <1>8, HostnameFlow DEF RemoveHostname, GivesUp, Keeps, SameRead
<1>9. CASE SweepDNSEndpoints
  BY <1>9, PublishFlow DEF SweepDNSEndpoints, Keeps, SameRead
<1>10. CASE ApplyDNSEndpoint
  BY <1>10, PublishFlow DEF ApplyDNSEndpoint, Keeps, SameRead
<1>11. CASE ConvergePorts
  BY <1>11, PublishFlow DEF ConvergePorts, GivesUp, Keeps, SameRead
<1>12. CASE DeleteSweep
  BY <1>0, <1>12, DeleteFlow, EndsAndStarts DEF DeleteSweep, Keeps, SameRead
<1>13. CASE DeletePorts \/ DeleteInvite
  BY <1>13, DeleteFlow, EndsAndStarts DEF DeletePorts, DeleteInvite, Keeps, SameRead
<1>14. CASE AddFinalizer \/ WriteStatus \/ RemoveFinalizer \/ Crash
  BY <1>14, EndsAndStarts
<1>15. CASE Others
  BY <1>15, OthersOnPass
<1>16. CASE UNCHANGED vars
  BY <1>16 DEF vars
<1> QED
  BY <1>1, <1>2, <1>3, <1>4, <1>5, <1>6, <1>7, <1>8, <1>9, <1>10, <1>11, <1>12, <1>13,
     <1>14, <1>15, <1>16 DEF Next, PassStep

LEMMA PassKeepsInviteStep ==
    ASSUME TypeOK, PassKeepsInvite, [Next]_vars
    PROVE  PassKeepsInvite'
<1> USE DEF PassKeepsInvite
<1>0. pass.status.invite \in Invites \union {NoInvite}
  BY DEF TypeOK, PassType, StatusType, MaybeInvite
<1>1. CASE StartPass
  BY <1>1, EndsAndStarts
<1>2. CASE ListAgents
  BY <1>0, <1>2, InviteFlow DEF GivesUp, Keeps, SameRead
<1>3. CASE AdoptInvite
  BY <1>0, <1>3, InviteFlow DEF Keeps, SameRead, Live, AdoptInvite
<1>4. CASE CreateInvite
  BY <1>0, <1>4, InviteFlow DEF GivesUp, Keeps, SameRead, CreateInvite
<1>5. CASE EnsureTokenSecret
  BY <1>5, InviteFlow DEF EnsureTokenSecret, GivesUp, Keeps, SameRead
<1>6. CASE GetInvite
  BY <1>6, HostnameFlow DEF GetInvite, GivesUp, Keeps, SameRead
<1>7. CASE AddHostname
  BY <1>7, HostnameFlow DEF AddHostname, GivesUp, Keeps, SameRead
<1>8. CASE RemoveHostname
  BY <1>8, HostnameFlow DEF RemoveHostname, GivesUp, Keeps, SameRead
<1>9. CASE SweepDNSEndpoints
  BY <1>9, PublishFlow DEF SweepDNSEndpoints, Keeps, SameRead
<1>10. CASE ApplyDNSEndpoint
  BY <1>10, PublishFlow DEF ApplyDNSEndpoint, Keeps, SameRead
<1>11. CASE ConvergePorts
  BY <1>11, PublishFlow DEF ConvergePorts, GivesUp, Keeps, SameRead
<1>12. CASE DeleteSweep
  BY <1>0, <1>12, DeleteFlow, EndsAndStarts DEF DeleteSweep, Keeps, SameRead
<1>13. CASE DeletePorts \/ DeleteInvite
  BY <1>13, DeleteFlow, EndsAndStarts DEF DeletePorts, DeleteInvite, Keeps, SameRead
<1>14. CASE AddFinalizer \/ WriteStatus \/ RemoveFinalizer \/ Crash
  BY <1>14, EndsAndStarts
<1>15. CASE Others
  BY <1>15, OthersOnPass
<1>16. CASE UNCHANGED vars
  BY <1>16 DEF vars
<1> QED
  BY <1>1, <1>2, <1>3, <1>4, <1>5, <1>6, <1>7, <1>8, <1>9, <1>10, <1>11, <1>12, <1>13,
     <1>14, <1>15, <1>16 DEF Next, PassStep

LEMMA SnapshotCurrentStep ==
    ASSUME TypeOK, SnapshotCurrent, [Next]_vars
    PROVE  SnapshotCurrent'
<1> USE DEF SnapshotCurrent, clusterVars
<1>1. CASE StartPass
  BY <1>1, EndsAndStarts DEF StartPass
<1>2. CASE ListAgents
  BY <1>2, InviteFlow DEF ListAgents, GivesUp, Keeps, SameRead
<1>3. CASE AdoptInvite
  BY <1>3, InviteFlow DEF Keeps, SameRead, Live, AdoptInvite
<1>4. CASE CreateInvite
  BY <1>4, InviteFlow DEF GivesUp, Keeps, SameRead, CreateInvite
<1>5. CASE EnsureTokenSecret
  BY <1>5, InviteFlow DEF EnsureTokenSecret, GivesUp, Keeps, SameRead
<1>6. CASE GetInvite
  BY <1>6, HostnameFlow DEF GetInvite, GivesUp, Keeps, SameRead
<1>7. CASE AddHostname
  BY <1>7, HostnameFlow DEF AddHostname, GivesUp, Keeps, SameRead
<1>8. CASE RemoveHostname
  BY <1>8, HostnameFlow DEF RemoveHostname, GivesUp, Keeps, SameRead
<1>9. CASE SweepDNSEndpoints
  BY <1>9, PublishFlow DEF SweepDNSEndpoints, Keeps, SameRead
<1>10. CASE ApplyDNSEndpoint
  BY <1>10, PublishFlow DEF ApplyDNSEndpoint, Keeps, SameRead
<1>11. CASE ConvergePorts
  BY <1>11, PublishFlow DEF ConvergePorts, GivesUp, Keeps, SameRead
<1>12. CASE DeleteSweep
  BY <1>12, DeleteFlow, EndsAndStarts DEF DeleteSweep, Keeps, SameRead
<1>13. CASE DeletePorts \/ DeleteInvite
  BY <1>13, DeleteFlow, EndsAndStarts DEF DeletePorts, DeleteInvite, Keeps, SameRead
<1>14. CASE AddFinalizer \/ WriteStatus \/ RemoveFinalizer \/ Crash
  BY <1>14, EndsAndStarts
<1>15. CASE Others
  BY <1>15, OthersOnPass
<1>16. CASE UNCHANGED vars
  BY <1>16 DEF vars
<1> QED
  BY <1>1, <1>2, <1>3, <1>4, <1>5, <1>6, <1>7, <1>8, <1>9, <1>10, <1>11, <1>12, <1>13,
     <1>14, <1>15, <1>16 DEF Next, PassStep

LEMMA SweptIsNone ==
    endpoints' = Without(Namespaces) => Owned' = {}
BY DEF Owned, Without

LEMMA DeletionOrderStep ==
    ASSUME TypeOK, InviteInHand, DeletionOrder, [Next]_vars
    PROVE  DeletionOrder'
<1> USE DEF DeletionOrder, DeleteSteps
<1>1. CASE StartPass
  BY <1>1, EndsAndStarts
<1>2. CASE \/ ListAgents \/ AdoptInvite \/ CreateInvite \/ EnsureTokenSecret
           \/ GetInvite \/ AddHostname \/ RemoveHostname
           \/ SweepDNSEndpoints \/ ApplyDNSEndpoint \/ ConvergePorts
  <2>1. pass'.at \notin DeleteSteps
    BY <1>2, InviteFlow, HostnameFlow, PublishFlow DEF GivesUp
  <2> QED
    BY <2>1
<1>3. CASE DeleteSweep
  <2>1. pass.status = pass.orig
    BY <1>3 DEF DeleteSweep
  <2> QED
    BY <1>3, <2>1, DeleteFlow, EndsAndStarts, SweptIsNone DEF Keeps, SameRead, Releasing
<1>4. CASE DeletePorts
  <2>1. pass.at = "delPorts" /\ UNCHANGED endpoints
    BY <1>4 DEF DeletePorts, clusterVars
  <2> QED
    BY <1>4, <2>1, DeleteFlow DEF Keeps, SameRead, Releasing, Owned
<1>5. CASE DeleteInvite
  <2>1. pass.at = "delInvite" /\ UNCHANGED endpoints
    BY <1>5 DEF DeleteInvite, clusterVars
  <2>2. hub'[pass.status.invite].state = "deleted"
    BY <1>5, <2>1 DEF DeleteInvite, InviteInHand, InviteSteps, TypeOK
  <2> QED
    BY <1>5, <2>1, <2>2, DeleteFlow, EndsAndStarts DEF Keeps, SameRead, Releasing, Owned
<1>6. CASE AddFinalizer \/ WriteStatus \/ RemoveFinalizer \/ Crash
  BY <1>6, EndsAndStarts
<1>7. CASE Others
  <2>1. /\ pass'.at = pass.at /\ pass'.spec = pass.spec /\ pass'.orig = pass.orig
        /\ pass'.status = pass.status /\ endpoints' = endpoints
    BY <1>7, OthersOnPass
  <2>2. pass.status.invite \in Invites \union {NoInvite}
    BY DEF TypeOK, PassType, StatusType, MaybeInvite
  <2>3. Owned' = Owned /\ Releasing' = Releasing
    BY <2>1 DEF Owned, Releasing
  <2> QED
    BY <2>1, <2>2, <2>3, InviteLifecycle
<1>8. CASE UNCHANGED vars
  BY <1>8 DEF vars, clusterVars, hubVars, Owned, Releasing
<1> QED
  BY <1>1, <1>2, <1>3, <1>4, <1>5, <1>6, <1>7, <1>8 DEF Next, PassStep

LEMMA NotYetViewed ==
    ASSUME TypeOK, ListAgents \/ AdoptInvite \/ CreateInvite \/ EnsureTokenSecret
    PROVE  pass'.revoked = pass.revoked
<1>0. pass \in PassType
  BY DEF TypeOK
<1>1. /\ Disturbed(pass).revoked = pass.revoked
      /\ Failed(pass).revoked = pass.revoked
      /\ Disturbed(Failed(pass)).revoked = pass.revoked
  BY <1>0, HelperTypes DEF Disturbed, Failed, PassType
<1>2. CASE ListAgents
  BY <1>0, <1>1, <1>2 DEF ListAgents, PassType
<1>3. CASE AdoptInvite
  BY <1>0, <1>3, GotoFields DEF AdoptInvite, Disturbed, PassType
<1>4. CASE CreateInvite
  BY <1>0, <1>1, <1>4 DEF CreateInvite, PassType
<1>5. CASE EnsureTokenSecret
  BY <1>1, <1>5, GotoFields DEF EnsureTokenSecret
<1> QED
  BY <1>2, <1>3, <1>4, <1>5

LEMMA ViewFaithfulStep ==
    ASSUME TypeOK, InviteInHand, ViewFaithful, [Next]_vars
    PROVE  ViewFaithful'
<1> USE DEF ViewFaithful, clusterVars, hubVars
<1>0. /\ pass \in PassType /\ pass.status \in StatusType
      /\ hub \in [Invites -> InviteType]
      /\ pass.at \in {"get", "add", "remove", "sweep"} => pass.status.invite \in Invites
  BY DEF TypeOK, PassType, InviteInHand, InviteSteps
<1>1. CASE StartPass
  BY <1>1, EndsAndStarts
<1>2. CASE ListAgents \/ AdoptInvite \/ CreateInvite \/ EnsureTokenSecret
  <2>1. /\ pass'.at \notin {"add", "remove", "sweep", "apply"}
        /\ pass.at \in {"list", "adopt", "create", "token"}
        /\ pass'.revoked = pass.revoked
    BY <1>2, InviteFlow, NotYetViewed
       DEF GivesUp, ListAgents, AdoptInvite, CreateInvite, EnsureTokenSecret
  <2> QED
    BY <2>1
<1>3. CASE GetInvite
  <2>1. CASE hub[pass.status.invite].state = "pending"
             /\ pass' = [pass EXCEPT !.at = "add", !.adds = pass.desired \ Observed,
                           !.removes = Observed \ pass.desired,
                           !.confirmed = Observed, !.hubTouched = FALSE]
    <3>1. /\ pass'.at = "add" /\ pass'.confirmed = hub[pass.status.invite].hosts
          /\ ~pass'.revoked /\ pass'.status = pass.status
      BY <1>0, <1>3, <2>1 DEF GetInvite, Observed, PassType
    <3> QED
      BY <1>3, <2>1, <3>1 DEF GetInvite, Pending
  <2>2. CASE pass'.at = "sweep" /\ pass'.revoked
    BY <2>2
  <2>3. CASE pass'.at = "write"
    BY <2>3
  <2>4. \/ /\ hub[pass.status.invite].state = "pending"
           /\ pass' = [pass EXCEPT !.at = "add", !.adds = pass.desired \ Observed,
                         !.removes = Observed \ pass.desired,
                         !.confirmed = Observed, !.hubTouched = FALSE]
        \/ pass' = [pass EXCEPT !.at = "sweep", !.revoked = TRUE,
                      !.status.authorized = Observed,
                      !.status.synced = "False", !.hubTouched = FALSE]
        \/ pass' = [pass EXCEPT !.at = "sweep", !.revoked = TRUE, !.missing = TRUE,
                      !.optOut = {}, !.status.synced = "False", !.hubTouched = FALSE]
        \/ pass' = Disturbed(HostnamesFailed(pass))
    BY <1>3 DEF GetInvite
  <2> QED
    BY <1>0, <2>1, <2>2, <2>3, <2>4, HelperFields DEF PassType, GivesUp
<1>4. CASE AddHostname
  <2> DEFINE i == pass.status.invite
  <2>0. i \in Invites /\ pass.at = "add" /\ ~pass.revoked
    BY <1>0, <1>4 DEF AddHostname
  <2>1. CASE Goto("remove") /\ UNCHANGED hub
    BY <2>0, <2>1, GotoFields DEF Pending
  <2>2. ASSUME NEW h \in pass.adds,
               hub' = [hub EXCEPT ![i].hosts = @ \union {h}],
               pass' = [pass EXCEPT !.adds = @ \ {h}, !.confirmed = @ \union {h}]
        PROVE  ViewFaithful'
    <3>1. /\ pass'.at = "add" /\ pass'.revoked = pass.revoked
          /\ pass'.hubTouched = pass.hubTouched /\ pass'.status = pass.status
          /\ pass'.confirmed = pass.confirmed \union {h}
      BY <1>0, <2>0, <2>2 DEF PassType
    <3>2. hub'[i].state = hub[i].state /\ hub'[i].hosts = hub[i].hosts \union {h}
      BY <1>0, <2>0, <2>2 DEF InviteType
    <3> QED
      BY <2>0, <3>1, <3>2 DEF Pending
  <2>3. ASSUME NEW h \in pass.adds, pass' = [pass EXCEPT !.adds = @ \ {h}], UNCHANGED hub
        PROVE  ViewFaithful'
    <3>1. /\ pass'.at = "add" /\ pass'.revoked = pass.revoked
          /\ pass'.hubTouched = pass.hubTouched /\ pass'.status = pass.status
          /\ pass'.confirmed = pass.confirmed
      BY <1>0, <2>0, <2>3 DEF PassType
    <3> QED
      BY <2>0, <2>3, <3>1 DEF Pending
  <2>4. CASE pass'.at = "write"
    BY <2>4
  <2>5. \/ Goto("remove") /\ UNCHANGED hub
        \/ \E h \in pass.adds :
             /\ hub' = [hub EXCEPT ![i].hosts = @ \union {h}]
             /\ pass' = [pass EXCEPT !.adds = @ \ {h}, !.confirmed = @ \union {h}]
        \/ \E h \in pass.adds : pass' = [pass EXCEPT !.adds = @ \ {h}] /\ UNCHANGED hub
        \/ pass' = Disturbed(HostnamesFailed(pass))
    BY <1>4 DEF AddHostname
  <2> HIDE DEF i, ViewFaithful
  <2> QED
    BY <1>0, <2>1, <2>2, <2>3, <2>4, <2>5, HelperFields DEF GivesUp
<1>5. CASE RemoveHostname
  <2> DEFINE i == pass.status.invite
             synced == [pass EXCEPT !.at = "sweep", !.status.synced = "True",
                                    !.status.authorized = pass.desired]
  <2>0. i \in Invites /\ pass.at = "remove" /\ ~pass.revoked
    BY <1>0, <1>5 DEF RemoveHostname
  <2>1. CASE pass' = synced /\ UNCHANGED hub
    <3>1. /\ pass'.at = "sweep" /\ pass'.revoked = pass.revoked
          /\ pass'.hubTouched = pass.hubTouched /\ pass'.status.invite = i
          /\ pass'.confirmed = pass.confirmed
      BY <1>0, <2>1 DEF PassType, StatusType
    <3> QED
      BY <2>0, <2>1, <3>1 DEF Pending
  <2>2. ASSUME NEW h \in pass.removes,
               hub' = [hub EXCEPT ![i].hosts = @ \ {h}],
               pass' = [pass EXCEPT !.removes = @ \ {h}, !.confirmed = @ \ {h}]
        PROVE  ViewFaithful'
    <3>1. /\ pass'.at = "remove" /\ pass'.revoked = pass.revoked
          /\ pass'.hubTouched = pass.hubTouched /\ pass'.status = pass.status
          /\ pass'.confirmed = pass.confirmed \ {h}
      BY <1>0, <2>0, <2>2 DEF PassType
    <3>2. hub'[i].state = hub[i].state /\ hub'[i].hosts = hub[i].hosts \ {h}
      BY <1>0, <2>0, <2>2 DEF InviteType
    <3> QED
      BY <2>0, <3>1, <3>2 DEF Pending
  <2>3. CASE pass' = Disturbed(HostnamesFailed(pass))
    BY <1>0, <2>3, HelperFields DEF GivesUp
  <2>4. \/ pass' = synced /\ UNCHANGED hub
        \/ \E h \in pass.removes :
             /\ hub' = [hub EXCEPT ![i].hosts = @ \ {h}]
             /\ pass' = [pass EXCEPT !.removes = @ \ {h}, !.confirmed = @ \ {h}]
        \/ pass' = Disturbed(HostnamesFailed(pass))
    BY <1>5 DEF RemoveHostname
  <2> HIDE DEF i, synced, ViewFaithful
  <2> QED
    BY <2>1, <2>2, <2>3, <2>4
<1>6. CASE SweepDNSEndpoints
  <2>1. pass'.at \in {"apply", "ports", "write"} /\ UNCHANGED hub
    BY <1>6, PublishFlow DEF SweepDNSEndpoints
  <2>2. ASSUME pass'.at = "apply"
        PROVE  /\ ~pass.revoked /\ ~pass'.revoked
               /\ pass'.confirmed = pass.confirmed /\ pass'.hubTouched = pass.hubTouched
               /\ pass.at = "sweep" /\ pass'.status.invite = pass.status.invite
    BY <1>6, <2>2, PublishFlow DEF SweepDNSEndpoints, Withdrawing, Keeps
  <2> QED
    BY <2>1, <2>2 DEF Pending
<1>7. CASE ApplyDNSEndpoint \/ ConvergePorts \/ DeleteSweep \/ DeletePorts \/ DeleteInvite
  <2>1. pass'.at \in {"idle", "ports", "write", "delPorts", "delInvite", "unfinalize"}
    <3>1. CASE ApplyDNSEndpoint \/ ConvergePorts
      BY <3>1, PublishFlow DEF GivesUp
    <3>2. CASE DeleteSweep \/ DeletePorts \/ DeleteInvite
      BY <3>2, DeleteFlow, EndsAndStarts
    <3> QED
      BY <1>7, <3>1, <3>2
  <2> QED
    BY <2>1
<1>8. CASE AddFinalizer \/ WriteStatus \/ RemoveFinalizer \/ Crash
  BY <1>8, EndsAndStarts
<1>9. CASE Others
  BY <1>9, OthersOnPass DEF Pending
<1>10. CASE UNCHANGED vars
  BY <1>10 DEF vars, Pending
<1> QED
  BY <1>1, <1>2, <1>3, <1>4, <1>5, <1>6, <1>7, <1>8, <1>9, <1>10 DEF Next, PassStep

-----------------------------------------------------------------------------
(***************************************************************************)
(* The invariant holds, and what follows from it.                          *)
(***************************************************************************)

IInv == /\ TypeOK /\ InviteInHand /\ PassKeepsInvite
        /\ SnapshotCurrent /\ DeletionOrder /\ ViewFaithful

LEMMA InitIInv == Init => IInv
<1> SUFFICES ASSUME Init PROVE IInv
  OBVIOUS
<1>1. pass = NoPass
  BY DEF Init
<1> QED
  BY <1>1, InitTypeOK, EndsAndStarts
     DEF IInv, InviteInHand, InviteSteps, PassKeepsInvite, SnapshotCurrent,
         DeletionOrder, DeleteSteps, ViewFaithful

LEMMA NextIInv == IInv /\ [Next]_vars => IInv'
BY TypeStep, InviteInHandStep, PassKeepsInviteStep, SnapshotCurrentStep,
   DeletionOrderStep, ViewFaithfulStep DEF IInv

\* The inductive invariant holds in every reachable state.
THEOREM Invariance == Spec => []IInv
BY InitIInv, NextIInv, PTL DEF Spec

\* Every variable stays within its type: the hub never gets a hostname or the
\* status an invite from anywhere but the sets the reconciler handles.
THEOREM TypeCorrect == Spec => []TypeOK
<1>1. IInv => TypeOK
  BY DEF IInv
<1> QED
  BY <1>1, Invariance, PTL

\* The steps that change the tunnel object.
LEMMA TunnelSteps ==
    ASSUME [Next]_vars
    PROVE  \/ UNCHANGED tt
           \/ AddFinalizer \/ WriteStatus \/ RemoveFinalizer
           \/ CreateTunnel \/ EditSpec \/ DeleteTunnel
BY DEF Next, PassStep, Others, vars, clusterVars, hubVars, StartPass, ListAgents,
       AdoptInvite, CreateInvite, EnsureTokenSecret, GetInvite, AddHostname, RemoveHostname,
       SweepDNSEndpoints, ApplyDNSEndpoint, ConvergePorts, DeleteSweep, DeletePorts,
       DeleteInvite, Crash, EditServices, EditKey, DeleteSecret, SyncCache, CollectSecret,
       RevokeInvite, LoseInvite, EditInvite, EditForeign

\* A deletion withdraws every DNSEndpoint before it deletes the invite.
THEOREM WithdrawsBeforeReleasing == Spec => WithdrawBeforeRelease
<1>1. IInv => [DeleteInvite => Owned = {}]_vars
  BY DEF IInv, DeletionOrder, DeleteInvite
<1> QED
  BY <1>1, Invariance, PTL DEF WithdrawBeforeRelease

\* The finalizer goes only once the DNSEndpoints are withdrawn and the recorded
\* invite is deleted, by the policy the object has at that moment.
THEOREM FinalizerReleasesAll == Spec => FinalizerReleases
<1> DEFINE Released == /\ Owned = {}
                       /\ Recorded # NoInvite => hub[Recorded].state = "deleted"
<1>1. ASSUME IInv, [Next]_vars,
             tt.phase = "deleting", tt'.phase = "absent", tt.spec.policy = "Delete"
      PROVE  Released
  <2>1. RemoveFinalizer
    BY <1>1, TunnelSteps
       DEF AddFinalizer, WriteStatus, CreateTunnel, EditSpec, DeleteTunnel, IInv, TypeOK, TunnelType
  <2>2. pass.at = "unfinalize" /\ ~pass.stale
    BY <1>1, <2>1 DEF RemoveFinalizer
  <2>3. tt.spec = pass.spec /\ tt.status = pass.status
    BY <1>1, <2>2 DEF IInv, SnapshotCurrent, DeletionOrder, DeleteSteps
  <2> QED
    BY <1>1, <2>2, <2>3 DEF IInv, DeletionOrder, Releasing, Recorded
<1>2. IInv /\ [Next]_vars =>
        [tt.phase = "deleting" /\ tt'.phase = "absent" /\ tt.spec.policy = "Delete"
         => Released]_vars
  BY <1>1
<1> QED
  BY <1>2, Invariance, PTL DEF Spec, FinalizerReleases

\* A DNSEndpoint is given only hostnames the invite holds at that moment.
THEOREM PublishesHeldOnly == Spec => PublishesOnlyHeld
<1> DEFINE Held == /\ Pending(pass.status.invite)
                   /\ endpoints'[pass.spec.ns] \subseteq hub[pass.status.invite].hosts
<1>1. ASSUME IInv, ApplyDNSEndpoint, endpoints' # endpoints, ~pass.hubTouched
      PROVE  Held
  <2>1. pass.at = "apply" /\ pass.spec.ns \in Namespaces
    BY <1>1 DEF ApplyDNSEndpoint, IInv, TypeOK, PassType, SpecType
  <2>2. endpoints'[pass.spec.ns] = Publishable
    BY <1>1, <2>1 DEF ApplyDNSEndpoint, IInv, TypeOK
  <2>3. /\ Pending(pass.status.invite)
        /\ pass.confirmed \subseteq hub[pass.status.invite].hosts
    BY <1>1, <2>1 DEF IInv, ViewFaithful
  <2> QED
    BY <2>2, <2>3 DEF Publishable
<1>2. IInv => [ApplyDNSEndpoint /\ endpoints' # endpoints /\ ~pass.hubTouched => Held]_vars
  BY <1>1
<1> QED
  BY <1>2, Invariance, PTL DEF PublishesOnlyHeld

\* A recorded invite is never exchanged for another.
THEOREM InviteNeverExchanged == Spec => InviteIsAuthority
<1>1. ASSUME IInv, [Next]_vars, Recorded # NoInvite, tt'.gen = tt.gen
      PROVE  Recorded' = Recorded
  <2>0. tt \in TunnelType
    BY <1>1 DEF IInv, TypeOK
  <2>1. CASE AddFinalizer \/ RemoveFinalizer \/ EditSpec \/ DeleteTunnel
    BY <2>0, <2>1
       DEF AddFinalizer, RemoveFinalizer, EditSpec, DeleteTunnel, Recorded, TunnelType
  <2>2. CASE WriteStatus
    <3>1. CASE pass.stale \/ pass.status = pass.orig
      BY <2>2, <3>1 DEF WriteStatus, Recorded
    <3>2. CASE ~pass.stale /\ pass.status # pass.orig
      <4>1. tt.status = pass.orig
        BY <1>1, <2>2, <3>2 DEF WriteStatus, IInv, SnapshotCurrent
      <4>2. tt'.status = pass.status
        BY <2>0, <2>2, <3>2 DEF WriteStatus, TunnelType
      <4> QED
        BY <1>1, <4>1, <4>2 DEF IInv, PassKeepsInvite, Recorded
    <3> QED
      BY <3>1, <3>2
  <2>3. CASE CreateTunnel
    BY <1>1, <2>0, <2>3 DEF CreateTunnel, TunnelType
  <2> QED
    BY <1>1, <2>1, <2>2, <2>3, TunnelSteps DEF Recorded
<1>2. IInv /\ [Next]_vars =>
        [Recorded # NoInvite /\ tt'.gen = tt.gen => Recorded' = Recorded]_vars
  BY <1>1
<1> QED
  BY <1>2, Invariance, PTL DEF Spec, InviteIsAuthority
=============================================================================
