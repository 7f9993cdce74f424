------------------------- MODULE TunnelCustodyProofs -------------------------
(* The TowonelTunnel reconciler implements TunnelCustody, for any hostnames, *)
(* agents, namespaces, invites, specs and bounds.                          *)
EXTENDS TowonelTunnelTokenProofs

(***************************************************************************)
(* What the refinement needs beyond TokenInv, in parts.                    *)
(***************************************************************************)

\* The finalizer is there as long as a pass works beyond storing it, and an
\* object without one records nothing.
FinalizerGuards ==
    /\ tt.phase = "deleting" => tt.fin
    /\ tt.phase = "absent" => ~tt.fin
    /\ tt.phase = "live" /\ ~tt.fin => Recorded = NoInvite
    /\ pass.at \notin {"idle", "finalize"} => tt.fin

\* A deletion pass has a tunnel that is being deleted; any other pass has one
\* that is not, until somebody touches it.
PhaseIsRead ==
    /\ pass.at \in DeleteSteps => tt.phase = "deleting"
    /\ pass.at \notin DeleteSteps \union {"idle"} /\ ~pass.stale => tt.phase = "live"

\* Past storing the finalizer, nobody but the pass changes the status it read.
StatusIsRead == pass.at \notin {"idle", "finalize"} => tt.status = pass.orig

\* Without other users of the hub, an invite a pass took is there until the pass
\* records it.
Shared == MaxHubEdits > 0
TakenIsLive ==
    ~Shared => /\ ~pass.hubTouched
               /\ pass.status.invite \in Live \union {NoInvite, pass.orig.invite}

CustodyInv == TokenInv /\ FinalizerGuards /\ PhaseIsRead /\ StatusIsRead /\ TakenIsLive

(***************************************************************************)
(* What a step does to the object, and to the live invites.                *)
(***************************************************************************)

\* Only these steps change which invites there are.
LEMMA LiveKept ==
    ASSUME TypeOK, [Next]_vars, ~CreateInvite, ~DeleteInvite, ~LoseInvite
    PROVE  Live' = Live
<1> USE DEF clusterVars, hubVars
<1>0. hub \in [Invites -> InviteType]
  BY DEF TypeOK
<1>1. CASE UNCHANGED hub
  BY <1>1 DEF Live
<1>2. CASE AddHostname \/ RemoveHostname
  BY <1>2, HostnamesKeepStates DEF Live
<1>3. CASE RevokeInvite
  BY <1>0, <1>3 DEF RevokeInvite, Pending, InviteType, Live
<1>4. CASE EditInvite
  <2>1. \E i \in Invites : \E H : hub' = [hub EXCEPT ![i].hosts = H]
    BY <1>4 DEF EditInvite
  <2>2. \A i \in Invites : hub'[i].state = hub[i].state
    BY <1>0, <2>1, HostsEdited
  <2> QED
    BY <2>2 DEF Live
<1> QED
  BY <1>1, <1>2, <1>3, <1>4
     DEF Next, PassStep, Others, vars, StartPass, AddFinalizer, ListAgents, AdoptInvite,
         EnsureTokenSecret, GetInvite, SweepDNSEndpoints, ApplyDNSEndpoint, ConvergePorts,
         WriteStatus, DeleteSweep, DeletePorts, RemoveFinalizer, Crash, CreateTunnel, EditSpec,
         DeleteTunnel, EditServices, EditKey, DeleteSecret, SyncCache, CollectSecret, EditForeign

\* Only these steps change which namespaces have records.
LEMMA OwnedKept ==
    ASSUME [Next]_vars, ~SweepDNSEndpoints, ~ApplyDNSEndpoint, ~DeleteSweep
    PROVE  Owned' = Owned
<1>1. UNCHANGED endpoints
  BY DEF Next, PassStep, Others, vars, clusterVars, hubVars, StartPass, AddFinalizer, ListAgents,
         AdoptInvite, CreateInvite, EnsureTokenSecret, GetInvite, AddHostname, RemoveHostname,
         ConvergePorts, WriteStatus, DeletePorts, DeleteInvite, RemoveFinalizer, Crash,
         CreateTunnel, EditSpec, DeleteTunnel, EditServices, EditKey, DeleteSecret, SyncCache,
         CollectSecret, RevokeInvite, LoseInvite, EditInvite, EditForeign
<1> QED
  BY <1>1 DEF Owned

\* The object's phase and finalizer, step by step.
LEMMA ObjectSteps ==
    ASSUME TypeOK, [Next]_vars
    PROVE  \/ tt'.phase = tt.phase /\ tt'.fin = tt.fin
           \/ AddFinalizer /\ ~pass.stale /\ tt'.phase = tt.phase /\ tt'.fin
           \/ RemoveFinalizer /\ ~pass.stale /\ tt'.phase = "absent" /\ ~tt'.fin
           \/ CreateTunnel /\ tt.phase = "absent" /\ tt'.phase = "live" /\ ~tt'.fin
           \/ /\ DeleteTunnel /\ tt.phase = "live" /\ tt'.fin = tt.fin
              /\ tt'.phase = IF tt.fin THEN "deleting" ELSE "absent"
<1>0. tt \in TunnelType
  BY DEF TypeOK
<1>1. CASE AddFinalizer
  BY <1>0, <1>1 DEF AddFinalizer, TunnelType
<1>2. CASE RemoveFinalizer
  BY <1>0, <1>2 DEF RemoveFinalizer, TunnelType
<1>3. CASE CreateTunnel
  <2>1. PICK s \in Specs : tt' = [phase |-> "live", fin |-> FALSE, gen |-> tt.gen + 1,
                                 spec |-> s, status |-> NoStatus]
    BY <1>3 DEF CreateTunnel
  <2>2. tt.phase = "absent"
    BY <1>3 DEF CreateTunnel
  <2> HIDE DEF NoStatus
  <2>3. tt'.phase = "live" /\ ~tt'.fin
    BY <2>1
  <2> QED
    BY <1>3, <2>2, <2>3
<1>4. CASE DeleteTunnel
  BY <1>0, <1>4 DEF DeleteTunnel, TunnelType
<1>5. CASE WriteStatus \/ EditSpec
  BY <1>0, <1>5 DEF WriteStatus, EditSpec, TunnelType
<1> QED
  BY <1>1, <1>2, <1>3, <1>4, <1>5, TunnelSteps

\* A new object has a blank status.
LEMMA NewIsBlank ==
    ASSUME CreateTunnel PROVE Recorded' = NoInvite
<1>1. \E s \in Specs : tt' = [phase |-> "live", fin |-> FALSE, gen |-> tt.gen + 1,
                            spec |-> s, status |-> NoStatus]
  BY DEF CreateTunnel
<1>2. tt'.status = NoStatus
  <2> HIDE DEF NoStatus
  <2> QED
    BY <1>1
<1> QED
  BY <1>2 DEF NoStatus, Recorded

\* A pass stays among the steps of its kind: deleting, or not.
LEMMA PassOrder ==
    ASSUME TypeOK, [Next]_vars
    PROVE  \/ StartPass
           \/ pass' = NoPass
           \/ pass.at = "finalize" /\ pass'.at = "finalize" /\ (pass.stale => pass'.stale)
           \/ /\ pass.at \in DeleteSteps /\ pass'.at \in DeleteSteps
              /\ pass'.status = pass.status /\ pass'.orig = pass.orig
           \/ /\ pass.at \notin DeleteSteps \union {"idle", "finalize"}
              /\ pass'.at \notin DeleteSteps \union {"idle", "finalize"}
              /\ pass.stale => pass'.stale
           \/ pass.at = "idle" /\ pass'.at = "idle" /\ pass'.status = pass.status
              /\ pass'.orig = pass.orig
<1> USE DEF DeleteSteps
<1>1. CASE ListAgents
  BY <1>1, InviteFlow DEF ListAgents, GivesUp, Keeps, SameRead
<1>2. CASE AdoptInvite
  BY <1>2, InviteFlow DEF Keeps, SameRead, AdoptInvite
<1>3. CASE CreateInvite
  BY <1>3, InviteFlow DEF GivesUp, Keeps, SameRead, CreateInvite
<1>4. CASE EnsureTokenSecret
  BY <1>4, InviteFlow DEF EnsureTokenSecret, GivesUp, Keeps, SameRead
<1>5. CASE GetInvite \/ AddHostname \/ RemoveHostname
  BY <1>5, HostnameFlow DEF GetInvite, AddHostname, RemoveHostname, GivesUp, Keeps, SameRead
<1>6. CASE SweepDNSEndpoints \/ ApplyDNSEndpoint \/ ConvergePorts
  BY <1>6, PublishFlow
     DEF SweepDNSEndpoints, ApplyDNSEndpoint, ConvergePorts, GivesUp, Keeps, SameRead
<1>7. CASE DeleteSweep \/ DeletePorts \/ DeleteInvite
  BY <1>7, DeleteFlow DEF DeleteSweep, DeletePorts, DeleteInvite, Keeps, SameRead
<1>8. CASE AddFinalizer \/ WriteStatus \/ RemoveFinalizer \/ Crash
  BY <1>8, EndsAndStarts
<1>9. CASE Others
  BY <1>9, OthersOnPass
<1>10. CASE UNCHANGED vars
  BY <1>10 DEF vars
<1> QED
  BY <1>1, <1>2, <1>3, <1>4, <1>5, <1>6, <1>7, <1>8, <1>9, <1>10 DEF Next, PassStep

(***************************************************************************)
(* Each part of the invariant is kept.                                     *)
(***************************************************************************)

LEMMA FinalizerGuardsStep ==
    ASSUME TokenInv, FinalizerGuards, PhaseIsRead, [Next]_vars
    PROVE  FinalizerGuards'
<1>0. /\ TypeOK /\ tt.phase \in {"absent", "live", "deleting"} /\ tt.fin \in BOOLEAN
  BY DEF TokenInv, IInv, TypeOK, TunnelType
<1>1. /\ tt'.phase = "deleting" => tt'.fin
      /\ tt'.phase = "absent" => ~tt'.fin
  <2>1. AddFinalizer /\ ~pass.stale => tt.phase = "live"
    BY DEF AddFinalizer, PhaseIsRead, DeleteSteps
  <2> QED
    BY <1>0, <2>1, ObjectSteps DEF FinalizerGuards
<1>2. tt'.phase = "live" /\ ~tt'.fin => Recorded' = NoInvite
  <2>1. CASE WriteStatus
    <3>1. pass.at = "write" /\ tt.fin
      BY <2>1 DEF WriteStatus, FinalizerGuards
    <3>2. tt'.fin = tt.fin
      BY <1>0, <2>1 DEF WriteStatus, TypeOK, TunnelType
    <3> QED
      BY <3>1, <3>2
  <2>2. CASE CreateTunnel
    BY <1>0, <2>2, StatusSteps, NewIsBlank DEF Recorded
  <2>3. CASE ~WriteStatus /\ ~CreateTunnel
    <3>1. tt'.status = tt.status
      BY <1>0, <2>3, StatusSteps
    <3> QED
      BY <1>0, <2>3, <3>1, ObjectSteps DEF FinalizerGuards, Recorded
  <2> QED
    BY <2>1, <2>2, <2>3
<1>3. pass'.at \notin {"idle", "finalize"} => tt'.fin
  <2>1. CASE StartPass
    <3>1. pass'.at = IF tt.phase = "deleting" THEN "delSweep"
                     ELSE IF ~tt.fin THEN "finalize" ELSE "list"
      BY <2>1 DEF StartPass, NoPass
    <3>2. tt' = tt
      BY <2>1 DEF StartPass, clusterVars
    <3> QED
      BY <3>1, <3>2 DEF FinalizerGuards
  <2>2. CASE pass' = NoPass
    BY <2>2, EndsAndStarts
  <2>3. CASE pass.at \notin {"idle", "finalize"}
    <3>1. ~(RemoveFinalizer \/ CreateTunnel) => tt'.fin
      BY <1>0, <2>3, ObjectSteps DEF FinalizerGuards
    <3>2. ~CreateTunnel
      BY <2>3 DEF FinalizerGuards, CreateTunnel
    <3> QED
      BY <3>1, <3>2, EndsAndStarts
  <2>4. CASE pass.at = "finalize" /\ pass'.at = "finalize"
    BY <2>4
  <2> QED
    BY <1>0, <2>1, <2>2, <2>3, <2>4, PassOrder DEF DeleteSteps
<1> QED
  BY <1>1, <1>2, <1>3 DEF FinalizerGuards

\* A deletion makes a running pass stale.
LEMMA DeletedIsStale ==
    ASSUME TypeOK, DeleteTunnel, pass.at # "idle" PROVE pass'.stale
<1>1. pass \in PassType
  BY DEF TypeOK
<1> QED
  BY <1>1 DEF DeleteTunnel, TunnelTouched, Meanwhile, Disturbed, PassType

\* Only others at the hub make a pass note that they were there.
LEMMA HubTouchedStep ==
    ASSUME TypeOK, [Next]_vars, ~RevokeInvite, ~LoseInvite, ~EditInvite, ~pass.hubTouched
    PROVE  ~pass'.hubTouched
<1>0. /\ pass \in PassType /\ pass.status \in StatusType
      /\ Disturbed(pass) \in PassType /\ Failed(pass) \in PassType
      /\ HostnamesFailed(pass) \in PassType
  BY HelperTypes DEF TypeOK, PassType
<1>1. /\ ~Disturbed(pass).hubTouched
      /\ ~Failed(pass).hubTouched /\ ~HostnamesFailed(pass).hubTouched
      /\ ~Disturbed(Failed(pass)).hubTouched /\ ~Disturbed(HostnamesFailed(pass)).hubTouched
  BY <1>0 DEF Disturbed, Failed, HostnamesFailed, PassType
<1>2. CASE StartPass
  BY <1>2 DEF StartPass, NoPass
<1>3. CASE ListAgents \/ AdoptInvite \/ CreateInvite \/ EnsureTokenSecret
  BY <1>0, <1>1, <1>3, GotoFields
     DEF ListAgents, AdoptInvite, CreateInvite, EnsureTokenSecret, PassType
<1>4. CASE GetInvite \/ AddHostname \/ RemoveHostname
  BY <1>0, <1>1, <1>4, GotoFields DEF GetInvite, AddHostname, RemoveHostname, PassType
<1>5. CASE SweepDNSEndpoints \/ ApplyDNSEndpoint
  <2>1. \A c : /\ ~DNSDone(pass, c).hubTouched
              /\ ~DNSDone(Disturbed(pass), c).hubTouched
    BY <1>0, <1>1 DEF DNSDone, PassType
  <2>2. ~[pass EXCEPT !.at = "apply"].hubTouched
    BY <1>0 DEF PassType
  <2> QED
    BY <1>5, <2>1, <2>2 DEF SweepDNSEndpoints, ApplyDNSEndpoint
<1>6. CASE ConvergePorts
  BY <1>0, <1>1, <1>6 DEF ConvergePorts, PassType
<1>7. CASE DeleteSweep \/ DeletePorts \/ DeleteInvite
  BY <1>0, <1>7, GotoFields, EndsAndStarts
     DEF DeleteSweep, SweepError, DeletePorts, DeleteInvite, EndPass
<1>8. CASE AddFinalizer \/ WriteStatus \/ RemoveFinalizer \/ Crash
  BY <1>8, EndsAndStarts
<1>9. CASE Others
  BY <1>0, <1>1, <1>9
     DEF Others, CreateTunnel, EditSpec, DeleteTunnel, EditServices, EditKey, DeleteSecret,
         SyncCache, CollectSecret, EditForeign, TunnelTouched, OthersActed, Meanwhile,
         Disturbed, hubVars, PassType
<1>10. CASE UNCHANGED vars
  BY <1>10 DEF vars
<1> QED
  BY <1>2, <1>3, <1>4, <1>5, <1>6, <1>7, <1>8, <1>9, <1>10 DEF Next, PassStep

\* A create leaves the tunnel the invites it has.
LEMMA CreatedIsMore ==
    ASSUME TypeOK, CreateInvite
    PROVE  /\ Live \subseteq Live'
           /\ Live' = Live \/ \E i \in Invites \ Live : Live' = Live \union {i}
<1>0. hub \in [Invites -> InviteType]
  BY DEF TypeOK
<1>1. CASE UNCHANGED hub
  BY <1>1 DEF Live
<1>2. ASSUME NEW i \in Invites, hub[i].state = "unused",
             hub' = [hub EXCEPT ![i] = [state |-> "pending", hosts |-> pass.desired]]
      PROVE  i \notin Live /\ Live' = Live \union {i}
  BY <1>0, <1>2 DEF Live
<1> QED
  BY <1>1, <1>2 DEF CreateInvite

LEMMA PhaseIsReadStep ==
    ASSUME TokenInv, FinalizerGuards, PhaseIsRead, [Next]_vars
    PROVE  PhaseIsRead'
<1> USE DEF DeleteSteps
<1>0. /\ TypeOK /\ pass \in PassType
  BY DEF TokenInv, IInv, TypeOK
<1>1. CASE StartPass
  <2>1. /\ pass'.at = IF tt.phase = "deleting" THEN "delSweep"
                      ELSE IF ~tt.fin THEN "finalize" ELSE "list"
        /\ tt.phase \in {"live", "deleting"} /\ tt' = tt
    BY <1>0, <1>1 DEF StartPass, NoPass, clusterVars, TypeOK, TunnelType
  <2> QED
    BY <2>1 DEF PhaseIsRead
<1>2. CASE pass' = NoPass
  BY <1>2, EndsAndStarts DEF PhaseIsRead
<1>3. CASE pass.at \in DeleteSteps /\ pass'.at \in DeleteSteps
  <2>1. tt.phase = "deleting"
    BY <1>3 DEF PhaseIsRead
  <2>2. ~AddFinalizer /\ ~RemoveFinalizer
    BY <1>3, EndsAndStarts
  <2>3. tt'.phase = tt.phase
    BY <1>0, <2>1, <2>2, ObjectSteps
  <2> QED
    BY <1>3, <2>1, <2>3 DEF PhaseIsRead
<1>4. CASE /\ pass.at \notin DeleteSteps \union {"idle"}
           /\ pass'.at \notin DeleteSteps \union {"idle"}
           /\ pass.stale => pass'.stale
  <2>1. CASE pass'.stale
    BY <1>4, <2>1 DEF PhaseIsRead
  <2>2. CASE ~pass'.stale
    <3>1. tt.phase = "live"
      BY <1>4, <2>2 DEF PhaseIsRead
    <3>2. ~AddFinalizer /\ ~RemoveFinalizer
      BY <1>4, EndsAndStarts
    <3>3. ~DeleteTunnel
      BY <1>0, <1>4, <2>2, DeletedIsStale
    <3>4. tt'.phase = tt.phase
      BY <1>0, <3>1, <3>2, <3>3, ObjectSteps
    <3> QED
      BY <1>4, <3>1, <3>4 DEF PhaseIsRead
  <2> QED
    BY <2>1, <2>2
<1>5. CASE pass'.at = "idle"
  BY <1>5 DEF PhaseIsRead
<1> QED
  BY <1>0, <1>1, <1>2, <1>3, <1>4, <1>5, PassOrder

LEMMA StatusIsReadStep ==
    ASSUME TokenInv, FinalizerGuards, StatusIsRead, [Next]_vars
    PROVE  StatusIsRead'
<1>0. TypeOK
  BY DEF TokenInv, IInv
<1>1. CASE StartPass
  BY <1>1, EndsAndStarts DEF StartPass, StatusIsRead, clusterVars
<1>2. CASE pass'.at \in {"idle", "finalize"}
  BY <1>2 DEF StatusIsRead
<1>3. CASE pass.at \notin {"idle", "finalize"} /\ pass'.at # "idle" /\ pass'.orig = pass.orig
  <2>1. ~CreateTunnel
    BY <1>3 DEF CreateTunnel, FinalizerGuards
  <2>2. ~WriteStatus
    BY <1>3, EndsAndStarts
  <2> QED
    BY <1>0, <1>3, <2>1, <2>2, StatusSteps DEF StatusIsRead
<1> QED
  BY <1>0, <1>1, <1>2, <1>3, PassOrder, PassFlow, EndsAndStarts DEF KeepsHand, DeleteSteps

LEMMA TakenIsLiveStep ==
    ASSUME TokenInv, TakenIsLive, [Next]_vars
    PROVE  TakenIsLive'
<1> SUFFICES ASSUME ~Shared
             PROVE  /\ ~pass'.hubTouched
                    /\ pass'.status.invite \in Live' \union {NoInvite, pass'.orig.invite}
  BY DEF TakenIsLive, Shared
<1>0. /\ TypeOK /\ InviteInHand /\ DeletionOrder /\ pass \in PassType
      /\ hub \in [Invites -> InviteType]
  BY DEF TokenInv, IInv, TypeOK
<1>1. ~RevokeInvite /\ ~LoseInvite /\ ~EditInvite
  BY <1>0, BoundAssumption DEF RevokeInvite, LoseInvite, EditInvite, HubEdit, Shared, TypeOK
<1>2. ~pass'.hubTouched
  BY <1>0, <1>1, HubTouchedStep DEF TakenIsLive
<1>3. pass'.status.invite \in Live' \union {NoInvite, pass'.orig.invite}
  <2>1. CASE StartPass
    BY <2>1, EndsAndStarts
  <2>2. CASE pass' = NoPass
    BY <2>2, EndsAndStarts
  <2>3. CASE AdoptInvite /\ pass'.status.invite \in Live
    BY <2>3 DEF AdoptInvite, clusterVars, hubVars, Live
  <2>4. CASE /\ CreateInvite /\ pass'.token \in Invites /\ pass'.status.invite = pass'.token
             /\ hub'[pass'.token].state = "pending"
    BY <2>4 DEF Live
  <2>5. CASE KeepsHand(pass', pass)
    <3>1. CASE DeleteInvite
      BY <1>0, <2>5, <3>1 DEF DeleteInvite, DeletionOrder, DeleteSteps, KeepsHand
    <3>2. CASE CreateInvite
      BY <1>0, <2>5, <3>2, CreatedIsMore DEF KeepsHand, TakenIsLive
    <3>3. CASE ~DeleteInvite /\ ~CreateInvite
      BY <1>0, <1>1, <2>5, <3>3, LiveKept DEF KeepsHand, TakenIsLive
    <3> QED
      BY <3>1, <3>2, <3>3
  <2> QED
    BY <1>0, <2>1, <2>2, <2>3, <2>4, <2>5, PassFlow
<1> QED
  BY <1>2, <1>3

LEMMA CustodyInvInductive == CustodyInv /\ [Next]_vars => CustodyInv'
BY TokenInvInductive, FinalizerGuardsStep, PhaseIsReadStep, StatusIsReadStep, TakenIsLiveStep
   DEF CustodyInv

LEMMA InitCustodyInv == Init => CustodyInv
<1> SUFFICES ASSUME Init PROVE CustodyInv
  OBVIOUS
<1>1. /\ pass = NoPass /\ tt.phase = "absent" /\ ~tt.fin /\ Recorded = NoInvite
  BY DEF Init, NoStatus, Recorded
<1> QED
  BY <1>1, InitTokenInv, EndsAndStarts
     DEF CustodyInv, FinalizerGuards, PhaseIsRead, DeleteSteps, StatusIsRead, TakenIsLive

(***************************************************************************)
(* Each step that changes what TunnelCustody sees is one of its actions.   *)
(***************************************************************************)

\* What TunnelCustody sees as the recorded invite.
CustodyInvite == IF tt.phase = "absent" THEN NoInvite ELSE Recorded
Seen == <<tt.phase, tt.fin, tt.spec.policy, CustodyInvite, Live, Owned>>

LEMMA GuardStep ==
    ASSUME CustodyInv, [Next]_vars, AddFinalizer
    PROVE  UNCHANGED Seen \/ Custody!Guard
<1>0. /\ TypeOK /\ tt \in TunnelType /\ pass.at = "finalize"
  BY DEF CustodyInv, TokenInv, IInv, TypeOK, AddFinalizer
<1>1. Live' = Live /\ Owned' = Owned
  BY DEF AddFinalizer, hubVars, Live, Owned
<1>2. CASE pass.stale
  BY <1>1, <1>2 DEF AddFinalizer, Seen, CustodyInvite, Recorded
<1>3. CASE ~pass.stale
  <2>1. tt.phase = "live"
    BY <1>0, <1>3 DEF CustodyInv, PhaseIsRead, DeleteSteps
  <2>2. /\ tt'.phase = tt.phase /\ tt'.fin = TRUE
        /\ tt'.spec = tt.spec /\ tt'.status = tt.status
    BY <1>0, <1>3 DEF AddFinalizer, TunnelType
  <2>3. CASE tt.fin
    BY <1>0, <1>1, <2>1, <2>2, <2>3 DEF Seen, CustodyInvite, Recorded, TunnelType
  <2>4. CASE ~tt.fin
    BY <1>1, <2>1, <2>2, <2>4 DEF Custody!Guard, Recorded
  <2> QED
    BY <2>3, <2>4
<1> QED
  BY <1>2, <1>3

LEMMA RecordStep ==
    ASSUME CustodyInv, [Next]_vars, WriteStatus
    PROVE  UNCHANGED Seen \/ Custody!Record
<1>0. /\ TypeOK /\ tt \in TunnelType /\ pass.at = "write" /\ tt.fin
      /\ pass.status.invite \in Invites \union {NoInvite}
  BY DEF CustodyInv, TokenInv, IInv, TypeOK, WriteStatus, FinalizerGuards, PassType,
         StatusType, MaybeInvite
<1>1. Live' = Live /\ Owned' = Owned
  BY DEF WriteStatus, hubVars, Live, Owned
<1>2. CASE pass.stale \/ pass.status = pass.orig
  BY <1>1, <1>2 DEF WriteStatus, Seen, CustodyInvite, Recorded
<1>3. CASE ~pass.stale /\ pass.status # pass.orig
  <2>1. tt.phase = "live"
    BY <1>0, <1>3 DEF CustodyInv, PhaseIsRead, DeleteSteps
  <2>2. /\ tt'.phase = tt.phase /\ tt'.fin = tt.fin
        /\ tt'.spec = tt.spec /\ tt'.status = pass.status
    BY <1>0, <1>3 DEF WriteStatus, TunnelType
  <2>3. tt.status = pass.orig
    BY <1>0, <1>3 DEF CustodyInv, TokenInv, IInv, SnapshotCurrent
  <2>4. CASE Recorded' = Recorded
    BY <1>1, <2>1, <2>2, <2>4 DEF Seen, CustodyInvite
  <2>5. CASE Recorded' # Recorded
    <3>1. Recorded = NoInvite /\ pass.orig.invite = NoInvite
      BY <2>2, <2>3, <2>5 DEF CustodyInv, TokenInv, IInv, PassKeepsInvite, Recorded
    <3>2. Recorded' \in IF MaxHubEdits > 0 THEN Invites ELSE Live
      BY <1>0, <2>2, <2>5, <3>1 DEF CustodyInv, TakenIsLive, Shared, Recorded
    <3> QED
      BY <1>0, <1>1, <2>1, <2>2, <3>1, <3>2 DEF Custody!Record, Recorded
  <2> QED
    BY <2>4, <2>5
<1> QED
  BY <1>2, <1>3

LEMMA DropStep ==
    ASSUME CustodyInv, [Next]_vars, RemoveFinalizer
    PROVE  UNCHANGED Seen \/ Custody!Drop
<1>0. /\ tt \in TunnelType /\ pass.at = "unfinalize" /\ tt.phase = "deleting" /\ tt.fin
  BY DEF CustodyInv, TokenInv, IInv, TypeOK, RemoveFinalizer, PhaseIsRead, DeleteSteps,
         FinalizerGuards
<1>1. Live' = Live /\ Owned' = Owned
  BY DEF RemoveFinalizer, hubVars, Live, Owned
<1>2. CASE pass.stale
  BY <1>1, <1>2 DEF RemoveFinalizer, Seen, CustodyInvite, Recorded
<1>3. CASE ~pass.stale
  <2>1. /\ tt'.phase = "absent" /\ tt'.fin = FALSE /\ tt'.spec = tt.spec
    BY <1>0, <1>3 DEF RemoveFinalizer, TunnelType
  <2>2. tt.spec = pass.spec /\ tt.status = pass.status
    BY <1>0, <1>3 DEF CustodyInv, TokenInv, IInv, SnapshotCurrent, DeletionOrder, DeleteSteps
  <2>3. tt.spec.policy # "Retain" => Owned = {} /\ Recorded \notin Live
    BY <1>0, <2>2, NoInviteAssumption
       DEF CustodyInv, TokenInv, IInv, DeletionOrder, Releasing, Recorded, Live
  <2> QED
    BY <1>0, <1>1, <2>1, <2>3 DEF Custody!Drop
<1> QED
  BY <1>2, <1>3

LEMMA UserSteps ==
    ASSUME CustodyInv, [Next]_vars, CreateTunnel \/ EditSpec \/ DeleteTunnel
    PROVE  UNCHANGED Seen \/ Custody!Create \/ Custody!EditPolicy \/ Custody!Delete
<1>0. /\ TypeOK /\ tt \in TunnelType
      /\ tt.phase = "absent" => tt.fin = FALSE
      /\ tt'.spec.policy \in {"Delete", "Retain"}
  <2>1. TypeOK'
    BY CustodyInvInductive DEF CustodyInv, TokenInv, IInv
  <2> QED
    BY <2>1 DEF CustodyInv, TokenInv, IInv, TypeOK, FinalizerGuards, TunnelType, SpecType
<1>1. Live' = Live /\ Owned' = Owned
  BY DEF CreateTunnel, EditSpec, DeleteTunnel, hubVars, Live, Owned
<1>2. CASE CreateTunnel
  <2>1. tt.phase = "absent" /\ tt'.phase = "live" /\ tt'.fin = tt.fin
    <3>1. PICK s \in Specs : tt' = [phase |-> "live", fin |-> FALSE, gen |-> tt.gen + 1,
                                   spec |-> s, status |-> NoStatus]
      BY <1>2 DEF CreateTunnel
    <3>2. tt.phase = "absent"
      BY <1>2 DEF CreateTunnel
    <3> HIDE DEF NoStatus
    <3>3. tt'.phase = "live" /\ tt'.fin = FALSE
      BY <3>1
    <3> QED
      BY <1>0, <3>2, <3>3
  <2>2. Recorded' = NoInvite
    BY <1>2, NewIsBlank
  <2> QED
    BY <1>0, <1>1, <2>1, <2>2 DEF Custody!Create, Custody!Policies, Recorded
<1>3. CASE EditSpec
  <2>1. /\ tt.phase # "absent" /\ tt'.phase = tt.phase /\ tt'.fin = tt.fin
        /\ tt'.status = tt.status
    BY <1>0, <1>3 DEF EditSpec, TunnelType
  <2> QED
    BY <1>0, <1>1, <2>1 DEF Custody!EditPolicy, Custody!Policies, Recorded
<1>4. CASE DeleteTunnel
  <2>1. /\ tt.phase = "live" /\ tt'.fin = tt.fin /\ tt'.spec = tt.spec
        /\ tt'.phase = IF tt.fin THEN "deleting" ELSE "absent"
        /\ tt'.status = tt.status
    BY <1>0, <1>4 DEF DeleteTunnel, TunnelType
  <2>2. ~tt.fin => Recorded = NoInvite
    BY <2>1 DEF CustodyInv, FinalizerGuards
  <2> QED
    BY <1>0, <1>1, <2>1, <2>2 DEF Custody!Delete, Recorded, TunnelType
<1> QED
  BY <1>2, <1>3, <1>4

LEMMA RecordsSteps ==
    ASSUME CustodyInv, [Next]_vars, SweepDNSEndpoints \/ ApplyDNSEndpoint \/ DeleteSweep
    PROVE  Custody!Publish \/ Custody!Withdraw
<1>0. /\ pass.at \in {"sweep", "apply", "delSweep"} /\ tt.fin
      /\ pass.spec.ns \in Namespaces /\ endpoints \in [Namespaces -> SUBSET Hosts]
  BY DEF CustodyInv, TokenInv, IInv, TypeOK, SweepDNSEndpoints, ApplyDNSEndpoint, DeleteSweep,
         FinalizerGuards, PassType, SpecType
<1>1. tt' = tt /\ Live' = Live
  BY DEF SweepDNSEndpoints, ApplyDNSEndpoint, DeleteSweep, hubVars, Live
<1>2. CASE SweepDNSEndpoints \/ DeleteSweep
  <2>1. endpoints' = endpoints \/ \E ns : endpoints' = Without(ns)
    BY <1>2 DEF SweepDNSEndpoints, DeleteSweep
  <2>2. Owned' \subseteq Owned
    BY <1>0, <2>1 DEF Owned, Without
  <2> QED
    BY <1>0, <1>1, <2>2 DEF Custody!Withdraw, Recorded
<1>3. CASE ApplyDNSEndpoint
  <2>1. CASE endpoints' = endpoints
    BY <1>0, <1>1, <2>1 DEF Custody!Withdraw, Recorded, Owned
  <2>2. CASE endpoints' = [endpoints EXCEPT ![pass.spec.ns] = Publishable]
    <3>1. Live # {} \/ MaxHubEdits > 0
      <4>1. pass.at = "apply" /\ pass.status.invite \in Invites
        BY <1>3 DEF ApplyDNSEndpoint, CustodyInv, TokenInv, IInv, InviteInHand, InviteSteps
      <4> QED
        BY <4>1 DEF CustodyInv, TokenInv, IInv, ViewFaithful, TakenIsLive, Shared, Pending, Live
    <3>2. CASE Publishable = {}
      <4>1. Owned' \subseteq Owned
        BY <1>0, <2>2, <3>2 DEF Owned
      <4> QED
        BY <1>0, <1>1, <4>1 DEF Custody!Withdraw, Recorded
    <3>3. CASE Publishable # {}
      <4>1. Owned' = Owned \union {pass.spec.ns}
        BY <1>0, <2>2, <3>3 DEF Owned
      <4> QED
        BY <1>0, <1>1, <3>1, <4>1 DEF Custody!Publish, Recorded
    <3> QED
      BY <3>2, <3>3
  <2> QED
    BY <1>3, <2>1, <2>2 DEF ApplyDNSEndpoint
<1> QED
  BY <1>2, <1>3

LEMMA HubSteps ==
    ASSUME CustodyInv, [Next]_vars, CreateInvite \/ DeleteInvite \/ LoseInvite
    PROVE  UNCHANGED Seen \/ Custody!Acquire \/ Custody!Release \/ Custody!Lose
<1>0. /\ TypeOK /\ hub \in [Invites -> InviteType]
  BY DEF CustodyInv, TokenInv, IInv, TypeOK
<1>1. tt' = tt /\ Owned' = Owned
  BY DEF CreateInvite, DeleteInvite, LoseInvite, clusterVars, Owned
<1>2. CASE CreateInvite
  <2>1. pass.at = "create" /\ tt.fin
    BY <1>2 DEF CreateInvite, CustodyInv, FinalizerGuards
  <2>2. Recorded = NoInvite
    BY <2>1 DEF CustodyInv, TokenInv, IInv, StatusIsRead, PassKeepsInvite, Recorded
  <2> QED
    BY <1>0, <1>1, <1>2, <2>1, <2>2, CreatedIsMore
       DEF Custody!Acquire, Seen, CustodyInvite, Recorded
<1>3. CASE DeleteInvite
  <2>1. /\ pass.at = "delInvite" /\ tt.phase = "deleting" /\ Owned = {}
        /\ pass.status = pass.orig /\ pass.status.invite \in Invites
    BY <1>3 DEF DeleteInvite, CustodyInv, TokenInv, IInv, PhaseIsRead, DeletionOrder, DeleteSteps,
                InviteInHand, InviteSteps
  <2>2. Live' = Live \ {pass.status.invite}
    BY <1>0, <1>3, <2>1 DEF DeleteInvite, Live, InviteType
  <2>3. Recorded = pass.status.invite
    BY <2>1 DEF CustodyInv, StatusIsRead, Recorded
  <2> QED
    BY <1>1, <2>1, <2>2, <2>3 DEF Custody!Release, Recorded
<1>4. CASE LoseInvite
  <2>1. MaxHubEdits > 0
    BY <1>0, <1>4, BoundAssumption DEF LoseInvite, HubEdit, TypeOK
  <2>2. Live' \subseteq Live
    BY <1>0, <1>4 DEF LoseInvite, Live, InviteType
  <2> QED
    BY <1>1, <2>1, <2>2 DEF Custody!Lose, Recorded
<1> QED
  BY <1>2, <1>3, <1>4

\* A step of the reconciler, of a user or of the hub is one action of
\* TunnelCustody, or none.
LEMMA StepSimulation == CustodyInv /\ [Next]_vars => [Custody!Next]_(Custody!vars)
<1> SUFFICES ASSUME CustodyInv, [Next]_vars PROVE UNCHANGED Seen \/ Custody!Next
  BY DEF Custody!vars, Seen, CustodyInvite
<1>0. TypeOK
  BY DEF CustodyInv, TokenInv, IInv
<1>1. CASE AddFinalizer \/ WriteStatus \/ RemoveFinalizer
  BY <1>1, GuardStep, RecordStep, DropStep DEF Custody!Next
<1>2. CASE CreateTunnel \/ EditSpec \/ DeleteTunnel
  BY <1>2, UserSteps DEF Custody!Next
<1>3. CASE SweepDNSEndpoints \/ ApplyDNSEndpoint \/ DeleteSweep
  BY <1>3, RecordsSteps DEF Custody!Next
<1>4. CASE CreateInvite \/ DeleteInvite \/ LoseInvite
  BY <1>4, HubSteps DEF Custody!Next
<1>5. CASE /\ UNCHANGED tt
           /\ ~SweepDNSEndpoints /\ ~ApplyDNSEndpoint /\ ~DeleteSweep
           /\ ~CreateInvite /\ ~DeleteInvite /\ ~LoseInvite
  BY <1>0, <1>5, LiveKept, OwnedKept DEF Seen, CustodyInvite, Recorded
<1> QED
  BY <1>1, <1>2, <1>3, <1>4, <1>5, TunnelSteps

LEMMA InitSimulation == Init => Custody!Init
<1> SUFFICES ASSUME Init PROVE Custody!Init
  OBVIOUS
<1>1. Live = {} /\ Owned = {}
  BY DEF Init, Live, Owned
<1>2. tt.phase = "absent" /\ ~tt.fin /\ tt.spec.policy = "Delete"
  BY DEF Init, NoPass
<1> QED
  BY <1>1, <1>2 DEF Custody!Init, Custody!Policies

\* The reconciler, interleaved with everyone else, implements TunnelCustody: what
\* it has outside the cluster it acquires under the finalizer only and lets go of
\* in order (Reconcile and reconcileDelete).
THEOREM CustodyIsImplemented == Spec => ImplementsCustody
<1>1. Spec => []CustodyInv
  BY InitCustodyInv, CustodyInvInductive, PTL DEF Spec
<1> QED
  BY <1>1, InitSimulation, StepSimulation, PTL DEF Spec, ImplementsCustody, Custody!Spec

=============================================================================
