-------------------------- MODULE TunnelPassProofs --------------------------
(* UndisturbedPassConverges: a pass of the tunnel reconciler that nobody   *)
(* disturbed, and that ends Ready, leaves everything as spec, services and *)
(* hub ask, for any hostnames, namespaces, invites, specs and bounds.      *)
EXTENDS TowonelTunnelProofs

(***************************************************************************)
(* The invariant, step by step: what an undisturbed pass holds in memory   *)
(* is what objects and hub have, and what it has behind it is done.        *)
(***************************************************************************)

Untouched == pass.at # "idle" /\ ~pass.disturbed
BeforeSecret == {"finalize", "list", "adopt", "create", "token"}
AfterSecret == {"get", "add", "remove", "sweep", "apply", "ports"}
InHand == pass.status.invite
HeldNow == hub[InHand].hosts

\* A pass with a stale copy is a disturbed one; a missing invite ends in a failure.
FlagsTell ==
    /\ pass.stale => pass.disturbed
    /\ pass.missing => pass.revoked /\ pass.at \in {"sweep", "write"}

\* What the pass computed from spec and services is what they ask for.
AskedAsRead ==
    Untouched /\ pass.at \in {"adopt", "create", "token"} \union AfterSecret /\ ~pass.missing
      => pass.desired = Wanted /\ pass.optOut = OptedOut

\* The Secret: as the cache has it, until the pass writes it or finds it current.
SecretAsRead ==
    /\ pass.at \in BeforeSecret \ {"token"} => pass.token = NoInvite
    /\ pass.at = "token" => pass.token \in {NoInvite, InHand}
    /\ Untouched /\ pass.at \in BeforeSecret => cached = secret
    /\ Untouched /\ pass.at \in AfterSecret => secret.invite = InHand

\* The hub: nothing but what the loops have still to do is missing or too much.
HubAsRead ==
    Untouched =>
      /\ pass.at = "add" =>
           /\ Pending(InHand) /\ pass.confirmed = HeldNow
           /\ pass.removes = HeldNow \ pass.desired
           /\ pass.adds \subseteq pass.desired \ HeldNow
           /\ pass.desired \ HeldNow \subseteq pass.adds \union ReservedFrom(InHand)
      /\ pass.at = "remove" =>
           /\ Pending(InHand) /\ pass.confirmed = HeldNow
           /\ pass.removes = HeldNow \ pass.desired
           /\ pass.desired \ HeldNow \subseteq ReservedFrom(InHand)
      /\ pass.at \in {"sweep", "apply", "ports"} =>
           IF pass.revoked THEN ~Pending(InHand)
           ELSE /\ Pending(InHand) /\ pass.confirmed = HeldNow
                /\ HeldNow \subseteq pass.desired
                /\ pass.desired \ HeldNow \subseteq ReservedFrom(InHand)

\* The DNSEndpoints: those of the pass, in no other namespace, and never in one where
\* a foreign object has the name.
PassEndpoints ==
    [n \in Namespaces |->
       IF ~Withdrawing /\ n = pass.spec.ns /\ n \notin Squatted THEN Publishable ELSE {}]
EndpointsAsApplied ==
    /\ \A n \in Namespaces \intersect Squatted : endpoints[n] = {}
    /\ Untouched /\ pass.at = "apply" =>
         ~Withdrawing /\ \A n \in Namespaces \ {pass.spec.ns} : endpoints[n] = {}
    /\ Untouched /\ pass.at = "ports" => endpoints = PassEndpoints

\* What Converged says, of the invite in hand.
Intended(i) ==
    [n \in Namespaces |->
       IF /\ tt.spec.mode = "DNSEndpoint" /\ tt.spec.target
          /\ n = tt.spec.ns /\ n \notin Squatted /\ Pending(i)
       THEN {h \in hub[i].hosts \ OptedOut : h \in Wildcards => tt.spec.wild}
       ELSE {}]
ConvergedOn(i) ==
    /\ i \in Invites /\ secret.invite = i
    /\ Pending(i) => /\ hub[i].hosts \subseteq Wanted
                     /\ Wanted \ hub[i].hosts \subseteq ReservedFrom(i)
    /\ endpoints = Intended(i)
ReadyIsConverged ==
    Untouched /\ pass.at = "write" /\ pass.status.ready = "True" => ConvergedOn(InHand)

UndisturbedInv ==
    /\ FlagsTell /\ AskedAsRead /\ SecretAsRead /\ HubAsRead
    /\ EndpointsAsApplied /\ ReadyIsConverged

(***************************************************************************)
(* Helpers.                                                                *)
(***************************************************************************)

\* Where a pass is not disturbed, and what the helpers that end a step keep.
LEMMA HelperFlags ==
    ASSUME NEW p \in PassType
    PROVE  /\ Disturbed(p).disturbed
           /\ \A q \in {Failed(p), HostnamesFailed(p), Disturbed(Failed(p)),
                        Disturbed(HostnamesFailed(p))} :
                /\ q.missing = p.missing /\ q.revoked = p.revoked
                /\ p.disturbed => q.disturbed
<1>1. Failed(p) \in PassType /\ HostnamesFailed(p) \in PassType
  BY HelperTypes
<1>2. \A q \in PassType : /\ Disturbed(q).disturbed /\ Disturbed(q).missing = q.missing
                          /\ Disturbed(q).revoked = q.revoked
  BY DEF Disturbed, PassType
<1>3. /\ Failed(p).missing = p.missing /\ Failed(p).revoked = p.revoked
      /\ Failed(p).disturbed = p.disturbed
  BY DEF Failed, PassType
<1>4. /\ HostnamesFailed(p).missing = p.missing /\ HostnamesFailed(p).revoked = p.revoked
      /\ HostnamesFailed(p).disturbed = p.disturbed
  BY <1>1, <1>3 DEF HostnamesFailed, PassType
<1> QED
  BY <1>1, <1>2, <1>3, <1>4

SquattedAlone == \A n \in Namespaces \intersect Squatted : endpoints[n] = {}

\* A step after which the pass is not about an invite any more.
LEMMA NothingInHand ==
    ASSUME UndisturbedInv, SquattedAlone', FlagsTell',
           pass'.at \in {"idle", "delSweep", "delPorts", "delInvite", "unfinalize"}
           \/ (pass'.at = "write" /\ pass'.status.ready = "False")
    PROVE  UndisturbedInv'
BY DEF UndisturbedInv, AskedAsRead, SecretAsRead, HubAsRead, EndpointsAsApplied,
   ReadyIsConverged, SquattedAlone, BeforeSecret, AfterSecret

\* A step that fails on the way to the ports.
LEMMA Fails ==
    ASSUME TypeOK, UndisturbedInv, pass.at # "idle", UNCHANGED endpoints,
           pass' \in {Failed(pass), HostnamesFailed(pass), Disturbed(Failed(pass)),
                      Disturbed(HostnamesFailed(pass))}
    PROVE  UndisturbedInv'
<1>1. pass \in PassType
  BY DEF TypeOK
<1>2. /\ GivesUp(pass', pass) /\ pass'.missing = pass.missing /\ pass'.revoked = pass.revoked
      /\ pass.disturbed => pass'.disturbed
  BY <1>1, HelperFields, HelperFlags
<1>3. FlagsTell'
  BY <1>2 DEF UndisturbedInv, FlagsTell, GivesUp, Keeps, SameRead
<1>4. SquattedAlone'
  BY DEF UndisturbedInv, EndpointsAsApplied, SquattedAlone
<1> QED
  BY <1>2, <1>3, <1>4, NothingInHand DEF GivesUp

\* A step of a disturbed pass: it is accountable for its flags and its token only.
LEMMA StaysDisturbed ==
    ASSUME UndisturbedInv, pass'.disturbed, FlagsTell', SquattedAlone',
           pass'.at \in BeforeSecret \ {"token"} => pass'.token = NoInvite,
           pass'.at = "token" => pass'.token \in {NoInvite, pass'.status.invite}
    PROVE  UndisturbedInv'
BY DEF UndisturbedInv, AskedAsRead, SecretAsRead, HubAsRead, EndpointsAsApplied,
   ReadyIsConverged, SquattedAlone, Untouched, InHand

\* The loops change hostnames of the invite in hand only.
LEMMA ReservedSame ==
    ASSUME TypeOK, NEW i \in Invites, NEW H, hub' = [hub EXCEPT ![i].hosts = H], foreign' = foreign
    PROVE  /\ ReservedFrom(i)' = ReservedFrom(i) /\ hub'[i].hosts = H
           /\ hub'[i].state = hub[i].state
<1>1. hub \in [Invites -> InviteType]
  BY DEF TypeOK
<1>2. \A j \in Invites \ {i} : hub'[j] = hub[j]
  BY <1>1
<1>3. hub'[i].hosts = H /\ hub'[i].state = hub[i].state
  BY <1>1 DEF InviteType
<1>4. {hub'[j].hosts : j \in {k \in Invites \ {i} : Pending(k)'}}
        = {hub[j].hosts : j \in {k \in Invites \ {i} : Pending(k)}}
  BY <1>2 DEF Pending
<1> QED
  BY <1>3, <1>4 DEF ReservedFrom

\* What an unfinished pass asks for, while spec and services are as it read them.
LEMMA StillAsked ==
    ASSUME UndisturbedInv, ~pass'.disturbed => ~pass.disturbed,
           UNCHANGED <<services, tt.spec>>, pass'.desired = pass.desired,
           pass'.optOut = pass.optOut \/ pass'.missing,
           pass.at \in {"adopt", "create", "token"} \union AfterSecret,
           pass.missing => pass'.missing
    PROVE  AskedAsRead'
<1>1. Wanted' = Wanted /\ OptedOut' = OptedOut
  BY DEF Wanted, OptedOut
<1>2. pass.at # "idle"
  BY DEF AfterSecret
<1> QED
  BY <1>1, <1>2 DEF UndisturbedInv, AskedAsRead, Untouched

-----------------------------------------------------------------------------
(***************************************************************************)
(* Each step keeps the invariant.                                          *)
(***************************************************************************)

\* Up to the GET there is nothing of the hub in hand.
LEMMA BeforeHub ==
    ASSUME FlagsTell', AskedAsRead', SecretAsRead', SquattedAlone',
           pass'.at \in {"finalize", "list", "adopt", "create", "token", "get"}
    PROVE  UndisturbedInv'
BY DEF UndisturbedInv, HubAsRead, EndpointsAsApplied, ReadyIsConverged, SquattedAlone

LEMMA StartUndisturbed ==
    ASSUME TypeOK, UndisturbedInv, StartPass
    PROVE  UndisturbedInv'
<1>1. /\ pass'.at \in {"delSweep", "finalize", "list"} /\ pass'.token = NoInvite
      /\ ~pass'.stale /\ ~pass'.missing
      /\ pass'.disturbed <=> cached # secret
  BY DEF StartPass, NoPass
<1>2. UNCHANGED <<cached, secret, endpoints>>
  BY DEF StartPass, clusterVars
<1>3. FlagsTell' /\ AskedAsRead'
  BY <1>1 DEF FlagsTell, AskedAsRead, AfterSecret
<1>4. SquattedAlone'
  BY <1>2 DEF UndisturbedInv, EndpointsAsApplied, SquattedAlone
<1>5. SecretAsRead'
  BY <1>1, <1>2 DEF SecretAsRead, Untouched, AfterSecret
<1> QED
  BY <1>1, <1>3, <1>4, <1>5, BeforeHub, NothingInHand

LEMMA EndUndisturbed ==
    ASSUME UndisturbedInv, AddFinalizer \/ WriteStatus \/ RemoveFinalizer \/ Crash
    PROVE  UndisturbedInv'
<1>1. pass' = NoPass /\ UNCHANGED endpoints
  BY EndsAndStarts DEF AddFinalizer, WriteStatus, RemoveFinalizer, Crash, clusterVars
<1>2. FlagsTell' /\ pass'.at = "idle"
  BY <1>1 DEF FlagsTell, NoPass
<1>3. SquattedAlone'
  BY <1>1 DEF UndisturbedInv, EndpointsAsApplied, SquattedAlone
<1> QED
  BY <1>2, <1>3, NothingInHand

\* Withdrawing some namespaces gives no other namespace anything.
LEMMA WithoutLess ==
    ASSUME TypeOK, UndisturbedInv, NEW ns, endpoints' = Without(ns)
    PROVE  SquattedAlone'
BY DEF UndisturbedInv, EndpointsAsApplied, SquattedAlone, Without

LEMMA DeleteUndisturbed ==
    ASSUME TypeOK, UndisturbedInv, DeleteSweep \/ DeletePorts \/ DeleteInvite
    PROVE  UndisturbedInv'
<1>0. pass \in PassType
  BY DEF TypeOK
<1>1. /\ pass'.at \in {"idle", "delPorts", "delInvite", "unfinalize"}
  BY DeleteFlow, EndsAndStarts
<1>2. \/ pass' = NoPass
      \/ /\ pass.at \in {"delSweep", "delPorts", "delInvite"}
         /\ \E s \in Steps : Goto(s)
  BY DEF DeleteSweep, DeletePorts, DeleteInvite, SweepError, EndPass, Steps
<1>3. FlagsTell'
  <2>1. CASE pass' = NoPass
    BY <2>1 DEF FlagsTell, NoPass
  <2>2. ASSUME NEW s \in Steps, Goto(s), pass.at \in {"delSweep", "delPorts", "delInvite"}
        PROVE  FlagsTell'
    <3>1. /\ pass'.stale = pass.stale /\ pass'.missing = pass.missing
          /\ pass'.disturbed = pass.disturbed
      BY <1>0, <2>2 DEF Goto, PassType
    <3> QED
      BY <2>2, <3>1 DEF UndisturbedInv, FlagsTell
  <2> QED
    BY <1>2, <2>1, <2>2
<1>4. endpoints' = endpoints \/ \E ns : endpoints' = Without(ns)
  BY DEF DeleteSweep, DeletePorts, DeleteInvite, clusterVars
<1>5. SquattedAlone'
  BY <1>4, WithoutLess DEF UndisturbedInv, EndpointsAsApplied, SquattedAlone
<1> QED
  BY <1>1, <1>3, <1>5, NothingInHand

\* Whoever acts while a pass runs disturbs it, except the informer.
LEMMA OthersDisturb ==
    ASSUME TypeOK, Others
    PROVE  /\ pass'.missing = pass.missing /\ pass'.revoked = pass.revoked
           /\ pass.at = "idle" \/ SyncCache => pass' = pass
           /\ pass.at # "idle" /\ ~SyncCache => pass'.disturbed
<1> USE DEF Meanwhile, Disturbed
<1>0. pass \in PassType
  BY DEF TypeOK
<1>1. CASE CreateTunnel \/ EditSpec \/ DeleteTunnel
  <2>1. TunnelTouched
    BY <1>1 DEF CreateTunnel, EditSpec, DeleteTunnel
  <2> QED
    BY <1>0, <2>1 DEF TunnelTouched, PassType, SyncCache
<1>2. CASE EditServices \/ EditKey \/ DeleteSecret \/ CollectSecret \/ EditForeign
  <2>1. OthersActed
    BY <1>2 DEF EditServices, EditKey, DeleteSecret, CollectSecret, EditForeign
  <2> QED
    BY <1>0, <2>1 DEF OthersActed, PassType, SyncCache
<1>3. CASE SyncCache
  BY <1>3 DEF SyncCache
<1>4. CASE RevokeInvite \/ LoseInvite \/ EditInvite
  <2>1. HubEdit
    BY <1>4 DEF RevokeInvite, LoseInvite, EditInvite
  <2> QED
    BY <1>0, <2>1 DEF HubEdit, PassType, SyncCache
<1> QED
  BY <1>1, <1>2, <1>3, <1>4 DEF Others

LEMMA OthersUndisturbed ==
    ASSUME TypeOK, UndisturbedInv, Others
    PROVE  UndisturbedInv'
<1>1. /\ pass'.at = pass.at /\ pass'.token = pass.token /\ pass'.status = pass.status
      /\ endpoints' = endpoints
  BY OthersOnPass
<1>2. SquattedAlone'
  BY <1>1 DEF UndisturbedInv, EndpointsAsApplied, SquattedAlone
<1>3. CASE pass.at = "idle"
  <2>1. pass' = pass
    BY <1>3, OthersDisturb
  <2>2. FlagsTell'
    BY <2>1 DEF UndisturbedInv, FlagsTell
  <2> QED
    BY <1>2, <1>3, <2>1, <2>2, NothingInHand
<1>4. CASE pass.at # "idle" /\ ~SyncCache
  <2>1. pass'.disturbed /\ pass'.missing = pass.missing /\ pass'.revoked = pass.revoked
    BY <1>4, OthersDisturb
  <2>2. FlagsTell'
    BY <1>1, <2>1 DEF UndisturbedInv, FlagsTell
  <2>3. /\ pass'.at \in BeforeSecret \ {"token"} => pass'.token = NoInvite
        /\ pass'.at = "token" => pass'.token \in {NoInvite, pass'.status.invite}
    BY <1>1 DEF UndisturbedInv, SecretAsRead, InHand, BeforeSecret
  <2> QED
    BY <1>2, <2>1, <2>2, <2>3, StaysDisturbed
<1>5. CASE SyncCache
  <2>1. /\ UNCHANGED <<pass, tt, services, secret, endpoints, hub, foreign>> /\ cached' = secret
    BY <1>5 DEF SyncCache, hubVars
  <2>2. SecretAsRead'
    BY <2>1 DEF UndisturbedInv, SecretAsRead, Untouched, InHand
  <2>3. Wanted' = Wanted /\ OptedOut' = OptedOut
    BY <2>1 DEF Wanted, OptedOut
  <2>4. \A i \in Invites : Pending(i)' = Pending(i)
    BY <2>1 DEF Pending
  <2>5. ReservedFrom(InHand)' = ReservedFrom(InHand) /\ HeldNow' = HeldNow
    BY <2>1 DEF ReservedFrom, Pending, InHand, HeldNow
  <2>6. FlagsTell' /\ AskedAsRead'
    BY <2>1, <2>3 DEF UndisturbedInv, FlagsTell, AskedAsRead, Untouched
  <2>7. HubAsRead'
    BY <2>1, <2>5 DEF UndisturbedInv, HubAsRead, Untouched, InHand, Pending, HeldNow
  <2>8. EndpointsAsApplied'
    BY <2>1 DEF UndisturbedInv, EndpointsAsApplied, Untouched, Withdrawing, PassEndpoints, Publishable
  <2>9. ConvergedOn(InHand)' = ConvergedOn(InHand)
    BY <2>1, <2>3, <2>5 DEF ConvergedOn, Pending, InHand, Intended, OptedOut
  <2>10. ReadyIsConverged'
    BY <2>1, <2>9 DEF UndisturbedInv, ReadyIsConverged, Untouched
  <2> QED
    BY <2>2, <2>6, <2>7, <2>8, <2>10 DEF UndisturbedInv
<1> QED
  BY <1>3, <1>4, <1>5

LEMMA ListUndisturbed ==
    ASSUME TypeOK, SnapshotCurrent, UndisturbedInv, ListAgents
    PROVE  UndisturbedInv'
<1> DEFINE listed == [pass EXCEPT !.at = IF InviteKnown THEN "token" ELSE "adopt",
                        !.desired = DesiredHostnames, !.optOut = OptOutHostnames]
<1>0. /\ pass \in PassType /\ pass.at = "list"
      /\ UNCHANGED <<tt, services, secret, cached, endpoints>>
  BY DEF TypeOK, ListAgents, clusterVars
<1>1. pass' \in {Failed(pass), Disturbed(Failed(pass)), listed}
  BY DEF ListAgents
<1>2. CASE pass' \in {Failed(pass), Disturbed(Failed(pass))}
  BY <1>0, <1>2, Fails
<1>3. CASE pass' = listed
  <2>1. /\ pass'.at \in {"token", "adopt"} /\ pass'.token = pass.token
        /\ pass'.disturbed = pass.disturbed /\ pass'.stale = pass.stale
        /\ pass'.missing = pass.missing
        /\ pass'.desired = DesiredHostnames /\ pass'.optOut = OptOutHostnames
    BY <1>0, <1>3 DEF PassType
  <2>2. FlagsTell' /\ ~pass.missing
    BY <1>0, <2>1 DEF UndisturbedInv, FlagsTell
  <2>3. SecretAsRead'
    BY <1>0, <2>1 DEF UndisturbedInv, SecretAsRead, Untouched, BeforeSecret, AfterSecret
  <2>4. SquattedAlone'
    BY <1>0 DEF UndisturbedInv, EndpointsAsApplied, SquattedAlone
  <2>5. ~pass.disturbed => tt.spec = pass.spec
    BY <1>0 DEF UndisturbedInv, FlagsTell, SnapshotCurrent
  <2>6. ~pass.disturbed => pass'.desired = Wanted' /\ pass'.optOut = OptedOut'
    BY <1>0, <2>1, <2>5 DEF DesiredHostnames, OptOutHostnames, Wanted, OptedOut
  <2>7. AskedAsRead'
    BY <2>1, <2>6 DEF AskedAsRead, Untouched
  <2> QED
    BY <2>1, <2>2, <2>3, <2>4, <2>7, BeforeHub
<1> QED
  BY <1>1, <1>2, <1>3

LEMMA AdoptUndisturbed ==
    ASSUME TypeOK, UndisturbedInv, AdoptInvite
    PROVE  UndisturbedInv'
<1> DEFINE adopted(i) == [pass EXCEPT !.at = "token", !.status.invite = i,
                                      !.status.authorized = hub[i].hosts]
<1>0. /\ pass \in PassType /\ pass.status \in StatusType /\ pass.at = "adopt"
      /\ UNCHANGED <<tt, services, secret, cached, endpoints>>
  BY DEF TypeOK, PassType, AdoptInvite, clusterVars
<1>1. /\ pass'.at \in {"token", "create"} /\ pass'.token = pass.token
      /\ pass'.stale = pass.stale /\ pass'.missing = pass.missing
      /\ pass'.desired = pass.desired /\ pass'.optOut = pass.optOut
      /\ pass'.disturbed \/ pass'.disturbed = pass.disturbed
  <2>1. ASSUME NEW i, pass' = adopted(i)
        PROVE  /\ pass'.at = "token" /\ pass'.token = pass.token
               /\ pass'.stale = pass.stale /\ pass'.missing = pass.missing
               /\ pass'.desired = pass.desired /\ pass'.optOut = pass.optOut
               /\ pass'.disturbed = pass.disturbed
    BY <1>0, <2>1 DEF PassType
  <2>2. CASE Goto("create")
    BY <1>0, <2>2 DEF Goto, PassType
  <2>3. CASE pass' = [Disturbed(pass) EXCEPT !.at = "create"]
    BY <1>0, <2>3 DEF Disturbed, PassType
  <2>4. (\E i \in Live : pass' = adopted(i)) \/ Goto("create")
        \/ pass' = [Disturbed(pass) EXCEPT !.at = "create"]
    BY DEF AdoptInvite
  <2> HIDE DEF adopted
  <2> QED
    BY <2>1, <2>2, <2>3, <2>4
<1>2. FlagsTell'
  BY <1>0, <1>1 DEF UndisturbedInv, FlagsTell
<1>3. AskedAsRead'
  BY <1>0, <1>1, StillAsked
<1>4. SecretAsRead'
  BY <1>0, <1>1 DEF UndisturbedInv, SecretAsRead, Untouched, BeforeSecret, AfterSecret
<1>5. SquattedAlone'
  BY <1>0 DEF UndisturbedInv, EndpointsAsApplied, SquattedAlone
<1> QED
  BY <1>1, <1>2, <1>3, <1>4, <1>5, BeforeHub

LEMMA CreateUndisturbed ==
    ASSUME TypeOK, UndisturbedInv, CreateInvite
    PROVE  UndisturbedInv'
<1> DEFINE created(i) == [pass EXCEPT !.at = "token", !.token = i, !.status.invite = i,
                                      !.status.authorized = pass.desired]
<1>0. /\ pass \in PassType /\ pass.status \in StatusType /\ pass.at = "create"
      /\ UNCHANGED <<tt, services, secret, cached, endpoints>>
  BY DEF TypeOK, PassType, CreateInvite, clusterVars
<1>1. pass' = Disturbed(Failed(pass)) \/ \E i \in Invites : pass' = created(i)
  BY DEF CreateInvite
<1>2. CASE pass' = Disturbed(Failed(pass))
  BY <1>0, <1>2, Fails
<1>3. ASSUME NEW i \in Invites, pass' = created(i)
      PROVE  UndisturbedInv'
  <2>1. /\ pass'.at = "token" /\ pass'.token = i /\ pass'.status.invite = i
        /\ pass'.stale = pass.stale /\ pass'.missing = pass.missing
        /\ pass'.desired = pass.desired /\ pass'.optOut = pass.optOut
        /\ pass'.disturbed = pass.disturbed
    BY <1>0, <1>3 DEF PassType, StatusType
  <2>2. FlagsTell'
    BY <1>0, <2>1 DEF UndisturbedInv, FlagsTell
  <2>3. AskedAsRead'
    BY <1>0, <2>1, StillAsked
  <2>4. SecretAsRead'
    BY <1>0, <2>1 DEF UndisturbedInv, SecretAsRead, Untouched, InHand, BeforeSecret, AfterSecret
  <2>5. SquattedAlone'
    BY <1>0 DEF UndisturbedInv, EndpointsAsApplied, SquattedAlone
  <2> QED
    BY <2>1, <2>2, <2>3, <2>4, <2>5, BeforeHub
<1> HIDE DEF created
<1> QED
  BY <1>1, <1>2, <1>3

LEMMA TokenUndisturbed ==
    ASSUME TypeOK, UndisturbedInv, EnsureTokenSecret
    PROVE  UndisturbedInv'
<1>0. /\ pass \in PassType /\ pass.at = "token"
      /\ UNCHANGED <<tt, services, cached, endpoints>>
  BY DEF TypeOK, EnsureTokenSecret
<1>1. \/ pass' \in {Failed(pass), Disturbed(Failed(pass))}
      \/ Goto("get") /\ SecretCurrent /\ UNCHANGED secret
      \/ Goto("get") /\ pass.token # NoInvite /\ secret' = [invite |-> pass.token, owner |-> tt.gen]
  BY DEF EnsureTokenSecret
<1>2. CASE pass' \in {Failed(pass), Disturbed(Failed(pass))}
  BY <1>0, <1>2, Fails
<1>3. CASE /\ Goto("get")
           /\ \/ SecretCurrent /\ UNCHANGED secret
              \/ pass.token # NoInvite /\ secret' = [invite |-> pass.token, owner |-> tt.gen]
  <2>1. /\ pass'.at = "get" /\ pass'.token = pass.token /\ pass'.status = pass.status
        /\ pass'.stale = pass.stale /\ pass'.missing = pass.missing
        /\ pass'.desired = pass.desired /\ pass'.optOut = pass.optOut
        /\ pass'.disturbed = pass.disturbed
    BY <1>0, <1>3 DEF Goto, PassType
  <2>2. FlagsTell'
    BY <1>0, <2>1 DEF UndisturbedInv, FlagsTell
  <2>3. AskedAsRead'
    BY <1>0, <2>1, StillAsked
  <2>4. ~pass.disturbed => secret'.invite = InHand
    BY <1>0, <1>3 DEF UndisturbedInv, SecretAsRead, Untouched, InHand, BeforeSecret, SecretCurrent
  <2>5. SecretAsRead'
    BY <2>1, <2>4 DEF SecretAsRead, Untouched, InHand, BeforeSecret, AfterSecret
  <2>6. SquattedAlone'
    BY <1>0 DEF UndisturbedInv, EndpointsAsApplied, SquattedAlone
  <2> QED
    BY <2>1, <2>2, <2>3, <2>5, <2>6, BeforeHub
<1> QED
  BY <1>1, <1>2, <1>3

\* From the GET to the sweep only the hub's hostnames change.
LEMMA AtTheHub ==
    ASSUME TypeOK, UndisturbedInv, HubAsRead', UNCHANGED <<tt, services, secret, endpoints>>,
           pass.at \in {"get", "add", "remove"}, pass'.at \in {"add", "remove", "sweep"},
           pass'.status.invite = pass.status.invite, pass'.desired = pass.desired,
           pass'.stale = pass.stale, pass'.disturbed = pass.disturbed,
           \/ pass'.missing = pass.missing /\ pass'.optOut = pass.optOut
           \/ pass'.missing /\ pass'.revoked /\ pass'.at = "sweep"
    PROVE  UndisturbedInv'
<1>1. ~pass.missing
  BY DEF UndisturbedInv, FlagsTell
<1>2. FlagsTell'
  BY <1>1 DEF UndisturbedInv, FlagsTell
<1>3. AskedAsRead'
  BY <1>1, StillAsked DEF AfterSecret
<1>4. SecretAsRead'
  BY DEF UndisturbedInv, SecretAsRead, Untouched, InHand, BeforeSecret, AfterSecret
<1>5. EndpointsAsApplied' /\ ReadyIsConverged'
  BY DEF UndisturbedInv, EndpointsAsApplied, ReadyIsConverged
<1> QED
  BY <1>2, <1>3, <1>4, <1>5 DEF UndisturbedInv

LEMMA GetUndisturbed ==
    ASSUME TypeOK, InviteInHand, ViewFaithful, UndisturbedInv, GetInvite
    PROVE  UndisturbedInv'
<1> DEFINE viewed == [pass EXCEPT !.at = "add", !.adds = pass.desired \ Observed,
                        !.removes = Observed \ pass.desired,
                        !.confirmed = Observed, !.hubTouched = FALSE]
           revoked == [pass EXCEPT !.at = "sweep", !.revoked = TRUE,
                        !.status.authorized = Observed,
                        !.status.synced = "False", !.hubTouched = FALSE]
           missing == [pass EXCEPT !.at = "sweep", !.revoked = TRUE, !.missing = TRUE,
                        !.optOut = {}, !.status.synced = "False", !.hubTouched = FALSE]
<1>0. /\ pass \in PassType /\ pass.status \in StatusType /\ pass.at = "get"
      /\ UNCHANGED <<tt, services, secret, endpoints, hub, foreign>>
  BY DEF TypeOK, PassType, GetInvite, clusterVars, hubVars
<1>1. \/ hub[InHand].state = "pending" /\ pass' = viewed
      \/ hub[InHand].state = "revoked" /\ pass' = revoked
      \/ hub[InHand].state = "deleted" /\ pass' = missing
      \/ pass' = Disturbed(HostnamesFailed(pass))
  BY DEF GetInvite, InHand
<1>2. CASE hub[InHand].state = "pending" /\ pass' = viewed
  <2>1. /\ pass'.at = "add" /\ pass'.status = pass.status /\ pass'.desired = pass.desired
        /\ pass'.stale = pass.stale /\ pass'.disturbed = pass.disturbed
        /\ pass'.missing = pass.missing /\ pass'.optOut = pass.optOut
        /\ pass'.adds = pass.desired \ Observed /\ pass'.removes = Observed \ pass.desired
        /\ pass'.confirmed = Observed
    BY <1>0, <1>2 DEF PassType
  <2>2. HubAsRead'
    BY <1>0, <1>2, <2>1 DEF HubAsRead, InHand, HeldNow, Pending, Observed
  <2> QED
    BY <1>0, <2>1, <2>2, AtTheHub
<1>3. CASE hub[InHand].state = "revoked" /\ pass' = revoked
  <2>1. /\ pass'.at = "sweep" /\ pass'.status.invite = pass.status.invite
        /\ pass'.desired = pass.desired
        /\ pass'.stale = pass.stale /\ pass'.disturbed = pass.disturbed
        /\ pass'.missing = pass.missing /\ pass'.optOut = pass.optOut /\ pass'.revoked
    BY <1>0, <1>3 DEF PassType, StatusType
  <2>2. HubAsRead'
    BY <1>0, <1>3, <2>1 DEF HubAsRead, InHand, Pending
  <2> QED
    BY <1>0, <2>1, <2>2, AtTheHub
<1>4. CASE hub[InHand].state = "deleted" /\ pass' = missing
  <2>1. /\ pass'.at = "sweep" /\ pass'.status.invite = pass.status.invite
        /\ pass'.desired = pass.desired
        /\ pass'.stale = pass.stale /\ pass'.disturbed = pass.disturbed
        /\ pass'.missing /\ pass'.revoked
    BY <1>0, <1>4 DEF PassType, StatusType
  <2>2. HubAsRead'
    BY <1>0, <1>4, <2>1 DEF HubAsRead, InHand, Pending
  <2> QED
    BY <1>0, <2>1, <2>2, AtTheHub
<1>5. CASE pass' = Disturbed(HostnamesFailed(pass))
  BY <1>0, <1>5, Fails
<1> HIDE DEF viewed, revoked, missing
<1> QED
  BY <1>1, <1>2, <1>3, <1>4, <1>5

LEMMA AddUndisturbed ==
    ASSUME TypeOK, InviteInHand, UndisturbedInv, AddHostname
    PROVE  UndisturbedInv'
<1> DEFINE i == pass.status.invite
<1>0. /\ pass \in PassType /\ pass.at = "add" /\ i \in Invites
      /\ UNCHANGED <<tt, services, secret, endpoints, foreign>>
      /\ hub \in [Invites -> InviteType]
  BY DEF TypeOK, AddHostname, clusterVars, InviteInHand, InviteSteps
<1>1. ~pass.disturbed =>
        /\ Pending(i) /\ pass.confirmed = hub[i].hosts
        /\ pass.removes = hub[i].hosts \ pass.desired
        /\ pass.adds \subseteq pass.desired \ hub[i].hosts
        /\ pass.desired \ hub[i].hosts \subseteq pass.adds \union ReservedFrom(i)
  BY <1>0 DEF UndisturbedInv, HubAsRead, Untouched, InHand, HeldNow
<1>2. CASE pass.adds = {} /\ Goto("remove") /\ UNCHANGED hub
  <2>1. /\ pass'.at = "remove" /\ pass'.status = pass.status /\ pass'.desired = pass.desired
        /\ pass'.stale = pass.stale /\ pass'.disturbed = pass.disturbed
        /\ pass'.missing = pass.missing /\ pass'.optOut = pass.optOut
        /\ pass'.removes = pass.removes /\ pass'.confirmed = pass.confirmed
    BY <1>0, <1>2 DEF Goto, PassType
  <2>2. ReservedFrom(i)' = ReservedFrom(i) /\ Pending(i)' = Pending(i)
    BY <1>0, <1>2, <2>1 DEF ReservedFrom, Pending
  <2>3. HubAsRead'
    BY <1>1, <1>2, <2>1, <2>2 DEF HubAsRead, Untouched, InHand, HeldNow
  <2> QED
    BY <1>0, <2>1, <2>3, AtTheHub
<1>3. ASSUME NEW h \in pass.adds, hub' = [hub EXCEPT ![i].hosts = @ \union {h}],
             pass' = [pass EXCEPT !.adds = @ \ {h}, !.confirmed = @ \union {h}]
      PROVE  UndisturbedInv'
  <2>1. /\ pass'.at = "add" /\ pass'.status = pass.status /\ pass'.desired = pass.desired
        /\ pass'.stale = pass.stale /\ pass'.disturbed = pass.disturbed
        /\ pass'.missing = pass.missing /\ pass'.optOut = pass.optOut
        /\ pass'.removes = pass.removes /\ pass'.confirmed = pass.confirmed \union {h}
        /\ pass'.adds = pass.adds \ {h}
    BY <1>0, <1>3 DEF PassType
  <2> DEFINE H == hub[i].hosts \union {h}
  <2>2. hub' = [hub EXCEPT ![i].hosts = H]
    BY <1>3
  <2> HIDE DEF H, i
  <2>3. /\ ReservedFrom(i)' = ReservedFrom(i) /\ hub'[i].hosts = H
        /\ hub'[i].state = hub[i].state
    <3>1. PICK j \in Invites : j = i
      BY <1>0
    <3>2. hub' = [hub EXCEPT ![j].hosts = H] /\ foreign' = foreign
      BY <1>0, <2>2, <3>1
    <3>3. /\ ReservedFrom(j)' = ReservedFrom(j) /\ hub'[j].hosts = H
          /\ hub'[j].state = hub[j].state
      BY <3>2, ReservedSame
    <3>4. i' = j
      BY <2>1, <3>1 DEF i
    <3> QED
      BY <3>1, <3>3, <3>4
  <2> USE DEF H, i
  <2>4. HubAsRead'
    BY <1>1, <1>3, <2>1, <2>3 DEF HubAsRead, Untouched, InHand, HeldNow, Pending
  <2> QED
    BY <1>0, <2>1, <2>4, AtTheHub
<1>4. ASSUME NEW h \in pass.adds, UNCHANGED hub, Conflict(i, h),
             pass' = [pass EXCEPT !.adds = @ \ {h}]
      PROVE  UndisturbedInv'
  <2>1. /\ pass'.at = "add" /\ pass'.status = pass.status /\ pass'.desired = pass.desired
        /\ pass'.stale = pass.stale /\ pass'.disturbed = pass.disturbed
        /\ pass'.missing = pass.missing /\ pass'.optOut = pass.optOut
        /\ pass'.removes = pass.removes /\ pass'.confirmed = pass.confirmed
        /\ pass'.adds = pass.adds \ {h}
    BY <1>0, <1>4 DEF PassType
  <2>2. ReservedFrom(i)' = ReservedFrom(i) /\ Pending(i)' = Pending(i)
    BY <1>0, <1>4, <2>1 DEF ReservedFrom, Pending
  <2>3. HubAsRead'
    BY <1>1, <1>4, <2>1, <2>2 DEF HubAsRead, Untouched, InHand, HeldNow, Conflict
  <2> QED
    BY <1>0, <2>1, <2>3, AtTheHub
<1>5. CASE pass' = Disturbed(HostnamesFailed(pass))
  BY <1>0, <1>5, Fails
<1>6. \/ pass.adds = {} /\ Goto("remove") /\ UNCHANGED hub
      \/ \E h \in pass.adds :
           /\ hub' = [hub EXCEPT ![i].hosts = @ \union {h}]
           /\ pass' = [pass EXCEPT !.adds = @ \ {h}, !.confirmed = @ \union {h}]
      \/ \E h \in pass.adds :
           UNCHANGED hub /\ Conflict(i, h) /\ pass' = [pass EXCEPT !.adds = @ \ {h}]
      \/ pass' = Disturbed(HostnamesFailed(pass))
  BY DEF AddHostname
<1> HIDE DEF i
<1> QED
  BY <1>2, <1>3, <1>4, <1>5, <1>6

LEMMA RemoveUndisturbed ==
    ASSUME TypeOK, InviteInHand, ViewFaithful, UndisturbedInv, RemoveHostname
    PROVE  UndisturbedInv'
<1> DEFINE i == pass.status.invite
           synced == [pass EXCEPT !.at = "sweep", !.status.synced = "True",
                                  !.status.authorized = pass.desired]
<1>0. /\ pass \in PassType /\ pass.status \in StatusType /\ pass.at = "remove"
      /\ i \in Invites /\ ~pass.revoked
      /\ UNCHANGED <<tt, services, secret, endpoints, foreign>>
      /\ hub \in [Invites -> InviteType]
  BY DEF TypeOK, PassType, RemoveHostname, clusterVars, InviteInHand, InviteSteps, ViewFaithful
<1>1. ~pass.disturbed =>
        /\ Pending(i) /\ pass.confirmed = hub[i].hosts
        /\ pass.removes = hub[i].hosts \ pass.desired
        /\ pass.desired \ hub[i].hosts \subseteq ReservedFrom(i)
  BY <1>0 DEF UndisturbedInv, HubAsRead, Untouched, InHand, HeldNow
<1>2. CASE pass.removes = {} /\ pass' = synced /\ UNCHANGED hub
  <2>1. /\ pass'.at = "sweep" /\ pass'.status.invite = i /\ pass'.desired = pass.desired
        /\ pass'.stale = pass.stale /\ pass'.disturbed = pass.disturbed
        /\ pass'.missing = pass.missing /\ pass'.optOut = pass.optOut
        /\ pass'.revoked = pass.revoked /\ pass'.confirmed = pass.confirmed
    BY <1>0, <1>2 DEF PassType, StatusType
  <2>2. ReservedFrom(i)' = ReservedFrom(i) /\ Pending(i)' = Pending(i)
    BY <1>0, <1>2, <2>1 DEF ReservedFrom, Pending
  <2>3. ~pass.disturbed => hub[i].hosts \subseteq pass.desired
    BY <1>1, <1>2
  <2>4. HubAsRead'
    BY <1>0, <1>1, <1>2, <2>1, <2>2, <2>3 DEF HubAsRead, Untouched, InHand, HeldNow
  <2> QED
    BY <1>0, <2>1, <2>4, AtTheHub
<1>3. ASSUME NEW h \in pass.removes, hub' = [hub EXCEPT ![i].hosts = @ \ {h}],
             pass' = [pass EXCEPT !.removes = @ \ {h}, !.confirmed = @ \ {h}]
      PROVE  UndisturbedInv'
  <2>1. /\ pass'.at = "remove" /\ pass'.status = pass.status /\ pass'.desired = pass.desired
        /\ pass'.stale = pass.stale /\ pass'.disturbed = pass.disturbed
        /\ pass'.missing = pass.missing /\ pass'.optOut = pass.optOut
        /\ pass'.removes = pass.removes \ {h} /\ pass'.confirmed = pass.confirmed \ {h}
    BY <1>0, <1>3 DEF PassType
  <2> DEFINE H == hub[i].hosts \ {h}
  <2>2. hub' = [hub EXCEPT ![i].hosts = H]
    BY <1>3
  <2> HIDE DEF H, i
  <2>3. /\ ReservedFrom(i)' = ReservedFrom(i) /\ hub'[i].hosts = H
        /\ hub'[i].state = hub[i].state
    <3>1. PICK j \in Invites : j = i
      BY <1>0
    <3>2. hub' = [hub EXCEPT ![j].hosts = H] /\ foreign' = foreign
      BY <1>0, <2>2, <3>1
    <3>3. /\ ReservedFrom(j)' = ReservedFrom(j) /\ hub'[j].hosts = H
          /\ hub'[j].state = hub[j].state
      BY <3>2, ReservedSame
    <3>4. i' = j
      BY <2>1, <3>1 DEF i
    <3> QED
      BY <3>1, <3>3, <3>4
  <2> USE DEF H, i
  <2>4. HubAsRead'
    BY <1>1, <1>3, <2>1, <2>3 DEF HubAsRead, Untouched, InHand, HeldNow, Pending
  <2> QED
    BY <1>0, <2>1, <2>4, AtTheHub
<1>4. CASE pass' = Disturbed(HostnamesFailed(pass))
  BY <1>0, <1>4, Fails
<1>5. \/ pass.removes = {} /\ pass' = synced /\ UNCHANGED hub
      \/ \E h \in pass.removes :
           /\ hub' = [hub EXCEPT ![i].hosts = @ \ {h}]
           /\ pass' = [pass EXCEPT !.removes = @ \ {h}, !.confirmed = @ \ {h}]
      \/ pass' = Disturbed(HostnamesFailed(pass))
  BY DEF RemoveHostname
<1> HIDE DEF i, synced
<1> QED
  BY <1>2, <1>3, <1>4, <1>5

\* What reconcileDNS leaves of the pass.
LEMMA DNSDoneKeeps ==
    ASSUME NEW p \in PassType, NEW c
    PROVE  LET q == DNSDone(p, c) IN
           /\ q.at = AfterDNS /\ q.spec = p.spec /\ q.status.invite = p.status.invite
           /\ q.desired = p.desired /\ q.optOut = p.optOut /\ q.confirmed = p.confirmed
           /\ q.revoked = p.revoked /\ q.missing = p.missing
           /\ q.stale = p.stale /\ q.disturbed = p.disturbed
<1>1. p.status \in StatusType
  BY DEF PassType
<1> QED
  BY <1>1 DEF DNSDone, PassType, StatusType

\* From the sweep to the ports only the DNSEndpoints change.
LEMMA AtTheDNS ==
    ASSUME TypeOK, UndisturbedInv, EndpointsAsApplied',
           UNCHANGED <<tt, services, secret, hub, foreign>>,
           pass.at \in {"sweep", "apply"}, pass'.at \in {"apply", "ports"},
           ~pass.missing, pass'.missing = pass.missing,
           pass'.status.invite = pass.status.invite, pass'.desired = pass.desired,
           pass'.optOut = pass.optOut, pass'.confirmed = pass.confirmed,
           pass'.revoked = pass.revoked,
           pass'.stale = pass.stale, pass'.disturbed = pass.disturbed
    PROVE  UndisturbedInv'
<1>1. FlagsTell'
  BY DEF UndisturbedInv, FlagsTell
<1>2. AskedAsRead'
  BY StillAsked DEF AfterSecret
<1>3. SecretAsRead'
  BY DEF UndisturbedInv, SecretAsRead, Untouched, InHand, BeforeSecret, AfterSecret
<1>4. /\ InHand' = InHand /\ HeldNow' = HeldNow /\ Pending(InHand)' = Pending(InHand)
      /\ ReservedFrom(InHand)' = ReservedFrom(InHand)
  BY DEF InHand, HeldNow, Pending, ReservedFrom
<1>5. HubAsRead'
  BY <1>4 DEF UndisturbedInv, HubAsRead, Untouched
<1>6. ReadyIsConverged'
  BY DEF ReadyIsConverged
<1> QED
  BY <1>1, <1>2, <1>3, <1>5, <1>6 DEF UndisturbedInv

\* A pass whose DNS step failed goes on, disturbed.
LEMMA DNSFailed ==
    ASSUME TypeOK, UndisturbedInv, SquattedAlone', pass.at \in {"sweep", "apply"},
           NEW c, pass' = DNSDone(Disturbed(pass), c)
    PROVE  UndisturbedInv'
<1>0. pass \in PassType /\ Disturbed(pass) \in PassType
  BY HelperTypes DEF TypeOK
<1>1. /\ Disturbed(pass).disturbed /\ Disturbed(pass).missing = pass.missing
      /\ Disturbed(pass).revoked = pass.revoked
  BY <1>0 DEF Disturbed, PassType
<1>2. pass'.disturbed /\ pass'.missing = pass.missing /\ pass'.revoked = pass.revoked
      /\ pass'.at = AfterDNS
  BY <1>0, <1>1, DNSDoneKeeps
<1>3. FlagsTell'
  BY <1>2 DEF UndisturbedInv, FlagsTell, AfterDNS
<1>4. pass'.at \in {"write", "ports"}
  BY <1>2 DEF AfterDNS
<1> QED
  BY <1>2, <1>3, <1>4, StaysDisturbed DEF BeforeSecret

LEMMA SweepUndisturbed ==
    ASSUME TypeOK, UndisturbedInv, SweepDNSEndpoints
    PROVE  UndisturbedInv'
<1> DEFINE keep == IF Withdrawing THEN {} ELSE {pass.spec.ns}
<1>0. /\ pass \in PassType /\ pass.at = "sweep"
      /\ UNCHANGED <<tt, services, secret, hub, foreign>>
  BY DEF TypeOK, SweepDNSEndpoints, hubVars
<1>1. \/ /\ ~Withdrawing /\ endpoints' = Without(Namespaces \ {pass.spec.ns})
         /\ pass' = [pass EXCEPT !.at = "apply"]
      \/ /\ Withdrawing /\ endpoints' = Without(Namespaces)
         /\ \E c : pass' = DNSDone(pass, c)
      \/ /\ \E deleted : endpoints' = Without(deleted)
         /\ pass' = DNSDone(Disturbed(pass), "False")
  BY Zenon DEF SweepDNSEndpoints
<1>2. SquattedAlone'
  BY <1>1, WithoutLess
<1>3. CASE /\ ~Withdrawing /\ endpoints' = Without(Namespaces \ {pass.spec.ns})
           /\ pass' = [pass EXCEPT !.at = "apply"]
  <2>1. /\ pass'.at = "apply" /\ pass'.spec = pass.spec /\ pass'.status = pass.status
        /\ pass'.desired = pass.desired /\ pass'.optOut = pass.optOut
        /\ pass'.confirmed = pass.confirmed /\ pass'.revoked = pass.revoked
        /\ pass'.missing = pass.missing
        /\ pass'.stale = pass.stale /\ pass'.disturbed = pass.disturbed
    BY <1>0, <1>3 DEF PassType
  <2>2. ~pass.missing
    BY <1>3 DEF UndisturbedInv, FlagsTell, Withdrawing
  <2>3. ~Withdrawing'
    BY <1>3, <2>1 DEF Withdrawing, Publishable
  <2>4. \A n \in Namespaces \ {pass'.spec.ns} : endpoints'[n] = {}
    BY <1>3, <2>1 DEF Without
  <2>5. EndpointsAsApplied'
    BY <1>2, <2>1, <2>3, <2>4 DEF EndpointsAsApplied, SquattedAlone
  <2> QED
    BY <1>0, <2>1, <2>2, <2>5, AtTheDNS
<1>4. ASSUME NEW c, Withdrawing, endpoints' = Without(Namespaces), pass' = DNSDone(pass, c)
      PROVE  UndisturbedInv'
  <2>1. /\ pass'.at = AfterDNS /\ pass'.spec = pass.spec
        /\ pass'.status.invite = pass.status.invite
        /\ pass'.desired = pass.desired /\ pass'.optOut = pass.optOut
        /\ pass'.confirmed = pass.confirmed /\ pass'.revoked = pass.revoked
        /\ pass'.missing = pass.missing
        /\ pass'.stale = pass.stale /\ pass'.disturbed = pass.disturbed
    BY <1>0, <1>4, DNSDoneKeeps
  <2>2. CASE pass.missing
    <3>1. pass'.at = "write" /\ pass'.status.ready = "False"
      <4>1. pass.status \in StatusType
        BY <1>0 DEF PassType
      <4> QED
        BY <1>0, <1>4, <2>2, <4>1 DEF DNSDone, AfterDNS, PassType, StatusType
    <3>2. FlagsTell'
      BY <2>1, <3>1 DEF UndisturbedInv, FlagsTell
    <3> QED
      BY <1>2, <3>1, <3>2, NothingInHand
  <2>3. CASE ~pass.missing
    <3>1. pass'.at = "ports"
      BY <2>1, <2>3 DEF AfterDNS
    <3>2. Withdrawing'
      BY <1>4, <2>1 DEF Withdrawing, Publishable
    <3>3. endpoints' = [n \in Namespaces |-> {}]
      BY <1>4 DEF Without
    <3>4. endpoints' = PassEndpoints'
      BY <3>2, <3>3 DEF PassEndpoints
    <3>5. EndpointsAsApplied'
      BY <1>2, <3>1, <3>4 DEF EndpointsAsApplied, SquattedAlone
    <3> QED
      BY <1>0, <2>1, <2>3, <3>1, <3>5, AtTheDNS
  <2> QED
    BY <2>2, <2>3
<1>5. CASE pass' = DNSDone(Disturbed(pass), "False")
  BY <1>0, <1>2, <1>5, DNSFailed
<1> QED
  BY <1>1, <1>3, <1>4, <1>5

LEMMA ApplyUndisturbed ==
    ASSUME TypeOK, UndisturbedInv, ApplyDNSEndpoint
    PROVE  UndisturbedInv'
<1> DEFINE applied == [endpoints EXCEPT ![pass.spec.ns] = Publishable]
<1>0. /\ pass \in PassType /\ pass.at = "apply" /\ endpoints \in [Namespaces -> SUBSET Hosts]
      /\ UNCHANGED <<tt, services, secret, hub, foreign>>
  BY DEF TypeOK, ApplyDNSEndpoint, hubVars
<1>1. \/ pass.spec.ns \in Squatted /\ pass' = DNSDone(pass, "False") /\ UNCHANGED endpoints
      \/ pass.spec.ns \notin Squatted /\ pass' = DNSDone(pass, "True") /\ endpoints' = applied
      \/ /\ pass.spec.ns \notin Squatted /\ pass' = DNSDone(Disturbed(pass), "False")
         /\ endpoints' \in {endpoints, applied}
  BY DEF ApplyDNSEndpoint
<1>2. SquattedAlone'
  BY <1>0, <1>1 DEF UndisturbedInv, EndpointsAsApplied, SquattedAlone
<1>3. ~pass.missing
  BY <1>0 DEF UndisturbedInv, FlagsTell
<1>4. ASSUME NEW c, pass' = DNSDone(pass, c),
             ~pass.disturbed => endpoints' = PassEndpoints
      PROVE  UndisturbedInv'
  <2>1. /\ pass'.at = "ports" /\ pass'.spec = pass.spec
        /\ pass'.status.invite = pass.status.invite
        /\ pass'.desired = pass.desired /\ pass'.optOut = pass.optOut
        /\ pass'.confirmed = pass.confirmed /\ pass'.revoked = pass.revoked
        /\ pass'.missing = pass.missing
        /\ pass'.stale = pass.stale /\ pass'.disturbed = pass.disturbed
    BY <1>0, <1>3, <1>4, DNSDoneKeeps DEF AfterDNS
  <2>2. PassEndpoints' = PassEndpoints
    BY <2>1 DEF PassEndpoints, Withdrawing, Publishable
  <2>3. EndpointsAsApplied'
    BY <1>2, <1>4, <2>1, <2>2 DEF EndpointsAsApplied, SquattedAlone, Untouched
  <2> QED
    BY <1>0, <1>3, <2>1, <2>3, AtTheDNS
<1>5. ~pass.disturbed =>
        /\ ~Withdrawing /\ \A n \in Namespaces \ {pass.spec.ns} : endpoints[n] = {}
        /\ \A n \in Namespaces \intersect Squatted : endpoints[n] = {}
  BY <1>0 DEF UndisturbedInv, EndpointsAsApplied, Untouched
<1>6. CASE pass.spec.ns \in Squatted /\ pass' = DNSDone(pass, "False") /\ UNCHANGED endpoints
  <2>1. ~pass.disturbed => endpoints' = PassEndpoints
    <3>1. SUFFICES ASSUME ~pass.disturbed PROVE endpoints = PassEndpoints
      BY <1>6
    <3>2. \A n \in Namespaces : endpoints[n] = {}
      BY <1>5, <1>6, <3>1
    <3>3. PassEndpoints = [n \in Namespaces |-> {}]
      BY <1>6 DEF PassEndpoints
    <3> QED
      BY <1>0, <3>2, <3>3
  <2> QED
    BY <1>4, <1>6, <2>1
<1>7. CASE pass.spec.ns \notin Squatted /\ pass' = DNSDone(pass, "True") /\ endpoints' = applied
  <2>1. ~pass.disturbed => endpoints' = PassEndpoints
    <3>1. SUFFICES ASSUME ~pass.disturbed PROVE applied = PassEndpoints
      BY <1>7
    <3>2. \A n \in Namespaces : PassEndpoints[n] = applied[n]
      BY <1>0, <1>5, <1>7, <3>1 DEF PassEndpoints
    <3> QED
      BY <1>0, <3>2 DEF PassEndpoints
  <2> QED
    BY <1>4, <1>7, <2>1
<1>8. CASE pass' = DNSDone(Disturbed(pass), "False")
  BY <1>0, <1>2, <1>8, DNSFailed
<1> QED
  BY <1>1, <1>6, <1>7, <1>8

\* What an undisturbed pass publishes is what spec, services and hub ask for.
LEMMA PassIntends ==
    ASSUME TypeOK, UndisturbedInv, Untouched, tt.spec = pass.spec, pass.at = "ports"
    PROVE  PassEndpoints = Intended(InHand)
<1>0. pass.spec.mode \in {"Disabled", "DNSEndpoint"}
  BY DEF TypeOK, PassType, SpecType
<1>1. pass.optOut = OptedOut /\ ~pass.missing
  BY DEF UndisturbedInv, FlagsTell, AskedAsRead, AfterSecret
<1>2. IF pass.revoked THEN ~Pending(InHand)
      ELSE Pending(InHand) /\ pass.confirmed = HeldNow
  BY DEF UndisturbedInv, HubAsRead
<1>3. ~pass.revoked =>
        Publishable = {h \in hub[InHand].hosts \ OptedOut : h \in Wildcards => tt.spec.wild}
  BY <1>1, <1>2 DEF Publishable, HeldNow
<1>4. ASSUME NEW n \in Namespaces
      PROVE  PassEndpoints[n] = Intended(InHand)[n]
  BY <1>0, <1>2, <1>3 DEF PassEndpoints, Intended, Withdrawing
<1> QED
  BY <1>4, Zenon DEF PassEndpoints, Intended

LEMMA PortsUndisturbed ==
    ASSUME TypeOK, InviteInHand, SnapshotCurrent, UndisturbedInv, ConvergePorts
    PROVE  UndisturbedInv'
<1> DEFINE done == [pass EXCEPT !.at = "write", !.status.issued = TRUE, !.status.ready = "True"]
<1>0. /\ pass \in PassType /\ pass.status \in StatusType /\ pass.at = "ports"
      /\ UNCHANGED <<tt, services, secret, endpoints, hub, foreign>>
  BY DEF TypeOK, PassType, ConvergePorts, clusterVars, hubVars
<1>1. pass' \in {done, Disturbed(Failed(pass))}
  BY DEF ConvergePorts
<1>2. CASE pass' = Disturbed(Failed(pass))
  BY <1>0, <1>2, Fails
<1>3. CASE pass' = done
  <2>1. /\ pass'.at = "write" /\ pass'.status.invite = pass.status.invite
        /\ pass'.stale = pass.stale /\ pass'.disturbed = pass.disturbed
        /\ pass'.missing = pass.missing /\ pass'.revoked = pass.revoked
    BY <1>0, <1>3 DEF PassType, StatusType
  <2>2. FlagsTell'
    BY <2>1 DEF UndisturbedInv, FlagsTell
  <2>3. AskedAsRead' /\ SecretAsRead' /\ HubAsRead'
    BY <2>1 DEF AskedAsRead, SecretAsRead, HubAsRead, BeforeSecret, AfterSecret
  <2>4. EndpointsAsApplied'
    BY <1>0, <2>1 DEF UndisturbedInv, EndpointsAsApplied
  <2>5. ASSUME ~pass.disturbed
        PROVE  ConvergedOn(InHand)
    <3>1. Untouched /\ ~pass.missing /\ tt.spec = pass.spec
      BY <1>0, <2>5 DEF Untouched, UndisturbedInv, FlagsTell, SnapshotCurrent
    <3>2. InHand \in Invites /\ secret.invite = InHand
      BY <1>0, <3>1 DEF UndisturbedInv, SecretAsRead, AfterSecret, InviteInHand, InviteSteps, InHand
    <3>3. pass.desired = Wanted
      BY <1>0, <3>1 DEF UndisturbedInv, AskedAsRead, AfterSecret
    <3>4. Pending(InHand) => /\ HeldNow \subseteq Wanted
                             /\ Wanted \ HeldNow \subseteq ReservedFrom(InHand)
      BY <1>0, <3>1, <3>3 DEF UndisturbedInv, HubAsRead
    <3>5. endpoints = Intended(InHand)
      BY <1>0, <3>1, PassIntends DEF UndisturbedInv, EndpointsAsApplied
    <3> QED
      BY <3>2, <3>4, <3>5 DEF ConvergedOn, HeldNow
  <2>6. ConvergedOn(InHand)' = ConvergedOn(InHand)
    BY <1>0, <2>1
       DEF ConvergedOn, InHand, Pending, Intended, ReservedFrom, Wanted, OptedOut
  <2>7. ReadyIsConverged'
    BY <2>1, <2>5, <2>6 DEF ReadyIsConverged, Untouched
  <2> QED
    BY <2>2, <2>3, <2>4, <2>7 DEF UndisturbedInv
<1> HIDE DEF done
<1> QED
  BY <1>1, <1>2, <1>3

LEMMA StutterUndisturbed ==
    ASSUME UndisturbedInv, UNCHANGED vars
    PROVE  UndisturbedInv'
BY DEF vars, clusterVars, hubVars, UndisturbedInv, FlagsTell, AskedAsRead, SecretAsRead, HubAsRead,
       EndpointsAsApplied, ReadyIsConverged, Untouched, InHand, HeldNow, Pending, ReservedFrom,
       Wanted, OptedOut, PassEndpoints, Withdrawing, Publishable, ConvergedOn, Intended

-----------------------------------------------------------------------------
(***************************************************************************)
(* The invariant holds, and what follows from it.                          *)
(***************************************************************************)

LEMMA InitUndisturbed == Init => UndisturbedInv
<1> SUFFICES ASSUME Init PROVE UndisturbedInv
  OBVIOUS
<1>1. pass = NoPass /\ endpoints = [n \in Namespaces |-> {}]
  BY DEF Init
<1>2. pass.at = "idle" /\ ~pass.stale /\ ~pass.missing
  BY <1>1 DEF NoPass
<1> QED
  BY <1>1, <1>2 DEF UndisturbedInv, FlagsTell, AskedAsRead, SecretAsRead, HubAsRead,
     EndpointsAsApplied, ReadyIsConverged, Untouched, BeforeSecret, AfterSecret

LEMMA NextUndisturbed == IInv /\ UndisturbedInv /\ [Next]_vars => UndisturbedInv'
<1> SUFFICES ASSUME IInv, UndisturbedInv, [Next]_vars PROVE UndisturbedInv'
  OBVIOUS
<1>0. TypeOK /\ InviteInHand /\ SnapshotCurrent /\ ViewFaithful
  BY DEF IInv
<1>1. CASE StartPass \/ AddFinalizer \/ WriteStatus \/ RemoveFinalizer \/ Crash
  BY <1>0, <1>1, StartUndisturbed, EndUndisturbed
<1>2. CASE ListAgents \/ AdoptInvite \/ CreateInvite \/ EnsureTokenSecret
  BY <1>0, <1>2, ListUndisturbed, AdoptUndisturbed, CreateUndisturbed, TokenUndisturbed
<1>3. CASE GetInvite \/ AddHostname \/ RemoveHostname
  BY <1>0, <1>3, GetUndisturbed, AddUndisturbed, RemoveUndisturbed
<1>4. CASE SweepDNSEndpoints \/ ApplyDNSEndpoint \/ ConvergePorts
  BY <1>0, <1>4, SweepUndisturbed, ApplyUndisturbed, PortsUndisturbed
<1>5. CASE DeleteSweep \/ DeletePorts \/ DeleteInvite
  BY <1>0, <1>5, DeleteUndisturbed
<1>6. CASE Others
  BY <1>0, <1>6, OthersUndisturbed
<1>7. CASE UNCHANGED vars
  BY <1>7, StutterUndisturbed
<1> QED
  BY <1>1, <1>2, <1>3, <1>4, <1>5, <1>6, <1>7 DEF Next, PassStep

\* At every step of Reconcile, and whoever acts or fails meanwhile, an undisturbed
\* pass holds in memory what objects and hub have, what it has behind it is done,
\* and no object is published where a foreign one has the name.
THEOREM UndisturbedInvariance == Spec => []UndisturbedInv
BY InitUndisturbed, NextUndisturbed, Invariance, PTL DEF Spec

\* A pass that nobody disturbed and that ends Ready leaves the hub's hostnames, the
\* token Secret and the DNSEndpoints of every namespace as spec, services and hub
\* ask (Reconcile, from its first read to writeStatus).
THEOREM UndisturbedPassLeavesConverged == Spec => UndisturbedPassConverges
<1>1. ASSUME IInv, UndisturbedInv, WriteStatus, ~pass.disturbed, pass.status.ready = "True"
      PROVE  Converged'
  <2>1. /\ tt \in TunnelType /\ pass.at = "write"
        /\ UNCHANGED <<services, secret, endpoints, hub, foreign>>
    BY <1>1 DEF IInv, TypeOK, WriteStatus, hubVars
  <2>2. ConvergedOn(InHand)
    BY <1>1, <2>1 DEF UndisturbedInv, ReadyIsConverged, Untouched
  <2>3. ~pass.stale /\ tt.status = pass.orig
    BY <1>1, <2>1 DEF UndisturbedInv, FlagsTell, IInv, SnapshotCurrent
  <2>4. tt'.spec = tt.spec /\ tt'.status = pass.status
    BY <1>1, <2>1, <2>3 DEF WriteStatus, TunnelType
  <2>5. Recorded' = InHand /\ InHand # NoInvite
    BY <2>2, <2>4, NoInviteAssumption DEF Recorded, InHand, ConvergedOn
  <2>6. Wanted' = Wanted /\ OptedOut' = OptedOut
    BY <2>1, <2>4 DEF Wanted, OptedOut
  <2>7. /\ Pending(Recorded)' = Pending(InHand) /\ hub'[Recorded'] = hub[InHand]
        /\ ReservedFrom(Recorded)' = ReservedFrom(InHand)
    BY <2>1, <2>5 DEF Pending, ReservedFrom
  <2>8. IntendedEndpoints' = Intended(InHand)
    BY <2>1, <2>4, <2>6, <2>7 DEF IntendedEndpoints, Publishing, Intended
  <2>9. Pending(Recorded)' => HostnamesConverged'
    BY <2>2, <2>6, <2>7 DEF ConvergedOn, HostnamesConverged
  <2> QED
    BY <2>1, <2>2, <2>5, <2>8, <2>9 DEF Converged, ConvergedOn
<1>2. IInv /\ UndisturbedInv =>
        [WriteStatus /\ ~pass.disturbed /\ pass.status.ready = "True" => Converged']_vars
  BY <1>1
<1> QED
  BY <1>2, Invariance, UndisturbedInvariance, PTL DEF UndisturbedPassConverges
=============================================================================
