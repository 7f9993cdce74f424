--------------------------- MODULE TowonelTunnel ---------------------------
(***************************************************************************)
(* The TowonelTunnel reconciler (internal/controller/towoneltunnel_*.go)   *)
(* of one tunnel, interleaved call by call with its users, with the other  *)
(* objects of the API server and with the hub.                             *)
(*                                                                         *)
(* A pass is one call of Reconcile.  Every request it makes (a read, a     *)
(* patch, a hub call) is one step; what it computes between two requests   *)
(* belongs to the step before.  Between two steps anyone else may act, and *)
(* a pass may be cut short by a crash: what it holds in memory is `pass'   *)
(* and is lost, what it already asked of the hub or the API server stays.  *)
(*                                                                         *)
(* Abstractions.                                                           *)
(*  - A resourceVersion is the flag pass.stale: "the tunnel object changed *)
(*    since this pass read it", which is what an Update is refused for.    *)
(*  - A DNSEndpoint is the set of its hostnames; {} is "no object", since  *)
(*    the code never leaves an object with no endpoint.                    *)
(*  - Ports are one step here that succeeds or fails (module TunnelPorts). *)
(*  - status.regionEndpoints, expiry, events and messages are left out.    *)
(*  - sort order of hostnames: the loops may take them in any order.       *)
(***************************************************************************)
EXTENDS Naturals, FiniteSets

CONSTANTS
    Hosts,         \* HTTPS hostnames
    Wildcards,     \* those of the form *.domain
    Agents,        \* TowonelAgents that reference the tunnel
    Namespaces,    \* namespaces a DNSEndpoint may be put in
    Squatted,      \* those where a foreign object already has its name
    Invites,       \* invite ids the hub may hand out
    NoInvite,      \* the empty status.inviteId
    Specs,         \* the specs users give the tunnel
    ServiceSets,   \* the HTTPS services users give the agents
    MaxTunnels,    \* bound: times the tunnel is created
    MaxEdits,      \* bound: edits by users
    MaxHubEdits,   \* bound: changes at the hub made by others
    MaxFaults      \* bound: failed, lost or cut short calls

Service == [agent : Agents, host : Hosts, record : BOOLEAN]
SpecType == [policy : {"Delete", "Retain"}, mode : {"Disabled", "DNSEndpoint"},
             ns : Namespaces, target : BOOLEAN, wild : BOOLEAN, extra : SUBSET Hosts]

ASSUME NamespacesAssumption == Namespaces # {}
ASSUME NoInviteAssumption == NoInvite \notin Invites
ASSUME InputAssumption == /\ Specs \subseteq SpecType
                          /\ ServiceSets \subseteq SUBSET Service
ASSUME BoundAssumption == {MaxTunnels, MaxEdits, MaxHubEdits, MaxFaults} \subseteq Nat

VARIABLES
    tt,         \* the TowonelTunnel object
    services,   \* the agents' spec.services
    key,        \* is an API key configured?
    secret,     \* the token Secret: whose token, and which tunnel owns it
    cached,     \* the Secret as the operator's informer has it
    endpoints,  \* the DNSEndpoints that carry this tunnel's ownership labels
    hub,        \* the invites named after this tunnel, at the hub
    foreign,    \* hostnames reserved by somebody else's invite
    pass,       \* what the running pass holds in memory
    budget,     \* how much of each bound is used
    tokenAtRisk \* history: the token Secret was deleted, or two invites of the
                \* tunnel's name were live at once

clusterVars == <<tt, services, key, secret, cached, endpoints>>
hubVars == <<hub, foreign>>
vars == <<clusterVars, hubVars, pass, budget, tokenAtRisk>>

MaybeInvite == Invites \union {NoInvite}
Condition == {"Unset", "True", "False"}
StatusType == [invite : MaybeInvite, authorized : SUBSET Hosts, records : SUBSET Hosts,
               issued : BOOLEAN, ready : Condition, synced : Condition, dns : Condition]
NoStatus == [invite |-> NoInvite, authorized |-> {}, records |-> {},
             issued |-> FALSE, ready |-> "Unset", synced |-> "Unset", dns |-> "Unset"]
NoSecret == [invite |-> NoInvite, owner |-> 0]

Steps == {"idle", "finalize", "list", "adopt", "create", "token", "get", "add",
          "remove", "sweep", "apply", "ports", "write",
          "delSweep", "delPorts", "delInvite", "unfinalize"}

NoPass == [at |-> "idle", spec |-> [policy |-> "Delete", mode |-> "Disabled",
              ns |-> CHOOSE n \in Namespaces : TRUE, target |-> FALSE,
              wild |-> FALSE, extra |-> {}],
           orig |-> NoStatus, status |-> NoStatus, token |-> NoInvite,
           desired |-> {}, optOut |-> {}, adds |-> {}, removes |-> {},
           confirmed |-> {}, revoked |-> FALSE, missing |-> FALSE,
           stale |-> FALSE, hubTouched |-> FALSE, disturbed |-> FALSE]

Pending(i) == hub[i].state = "pending"
Live == {i \in Invites : hub[i].state \in {"pending", "revoked"}}
Recorded == tt.status.invite

\* Hostnames that are not free for invite i: another active invite has them.
ReservedFrom(i) ==
    foreign \union UNION {hub[j].hosts : j \in {k \in Invites \ {i} : Pending(k)}}

Init ==
    /\ tt = [phase |-> "absent", fin |-> FALSE, gen |-> 0,
             spec |-> NoPass.spec, status |-> NoStatus]
    /\ services \in ServiceSets
    /\ key = TRUE
    /\ secret = NoSecret
    /\ cached = NoSecret
    /\ endpoints = [n \in Namespaces |-> {}]
    /\ hub = [i \in Invites |-> [state |-> "unused", hosts |-> {}]]
    /\ foreign \in SUBSET Hosts
    /\ pass = NoPass
    /\ budget = [edits |-> 0, hubEdits |-> 0, faults |-> 0]
    /\ tokenAtRisk = FALSE

-----------------------------------------------------------------------------
(* How a step of the pass ends.                                            *)

Goto(step) == pass' = [pass EXCEPT !.at = step]
EndPass == pass' = NoPass
NoFault == UNCHANGED budget
Fault == /\ budget.faults < MaxFaults
         /\ budget' = [budget EXCEPT !.faults = @ + 1]
\* What a failed call leaves: the pass is no longer undisturbed.
Disturbed(p) == [p EXCEPT !.disturbed = TRUE]

\* fail(): Ready=False, then the status is written.
Failed(p) == [p EXCEPT !.at = "write", !.status.ready = "False"]

-----------------------------------------------------------------------------
(* Reconcile.                                                              *)

\* The pass reads the tunnel from the API server, never from the cache.
StartPass ==
    /\ pass.at = "idle"
    /\ tt.phase # "absent"
    /\ pass' = [NoPass EXCEPT
                 !.at = IF tt.phase = "deleting" THEN "delSweep"
                        ELSE IF ~tt.fin THEN "finalize" ELSE "list",
                 !.spec = tt.spec, !.orig = tt.status, !.status = tt.status,
                 !.disturbed = cached # secret]
    /\ UNCHANGED <<clusterVars, hubVars, budget, tokenAtRisk>>

\* Variant: a refused Update is let go of, and the pass goes on.
AddFinalizerInPassing ==
    /\ pass.at = "finalize"
    /\ tt' = IF pass.stale THEN tt ELSE [tt EXCEPT !.fin = TRUE]
    /\ Goto("list")
    /\ UNCHANGED <<services, key, secret, cached, endpoints, hubVars, budget, tokenAtRisk>>

\* The finalizer is added by an Update of its own, and the pass ends.
AddFinalizer ==
    /\ pass.at = "finalize"
    /\ tt' = IF pass.stale THEN tt ELSE [tt EXCEPT !.fin = TRUE]
    /\ EndPass
    /\ UNCHANGED <<services, key, secret, cached, endpoints, hubVars, budget, tokenAtRisk>>

DesiredHostnames == pass.spec.extra \union {s.host : s \in services}
\* Variant: a hostname is opted out only where every agent opts it out.
OptOutUnanimous == {s.host : s \in services} \ {s.host : s \in {x \in services : x.record}}
OptOutHostnames == {s.host : s \in {x \in services : ~x.record}}

\* ensureInvite returns at once when the status has an invite.
\* Variant: it lists the hub's invites on every pass.
NeverKnown == FALSE
InviteKnown == pass.status.invite # NoInvite

\* resolveAPIKey, the list of agents and what is computed from it.
ListAgents ==
    /\ pass.at = "list"
    /\ \/ /\ ~key
          /\ pass' = Failed(pass)
          /\ NoFault
       \/ /\ key
          /\ Fault
          /\ pass' = Disturbed(Failed(pass))
       \/ /\ key
          /\ NoFault
          /\ pass' = IF DesiredHostnames = {} /\ ~InviteKnown
                     THEN Failed(pass)
                     ELSE [pass EXCEPT
                            !.at = IF InviteKnown THEN "token" ELSE "adopt",
                            !.desired = DesiredHostnames,
                            !.optOut = OptOutHostnames]
    /\ UNCHANGED <<clusterVars, hubVars, tokenAtRisk>>

\* ListInvites: an invite that carries the tunnel's name is adopted, whatever
\* its status; a failed list falls through to the create.
AdoptInvite ==
    /\ pass.at = "adopt"
    /\ \/ \E i \in Live :
            /\ pass' = [pass EXCEPT !.at = "token", !.status.invite = i,
                                    !.status.authorized = hub[i].hosts]
            /\ NoFault
       \/ /\ Live = {}
          /\ Goto("create")
          /\ NoFault
       \/ /\ Fault
          /\ pass' = [Disturbed(pass) EXCEPT !.at = "create"]
    /\ UNCHANGED <<clusterVars, hubVars, tokenAtRisk>>

\* The hub makes the invite and hands out its token, once.  It may refuse a
\* hostname another active invite has; its answer may be lost, or say no.
CreateInvite ==
    /\ pass.at = "create"
    /\ \/ \E i \in Invites, answered \in BOOLEAN :
            /\ hub[i].state = "unused"
            /\ hub' = [hub EXCEPT ![i] = [state |-> "pending", hosts |-> pass.desired]]
            /\ tokenAtRisk' = (tokenAtRisk \/ Live # {})
            /\ IF answered
               THEN /\ pass' = [pass EXCEPT !.at = "token", !.token = i,
                                  !.status.invite = i, !.status.authorized = pass.desired]
                    /\ NoFault
               ELSE /\ pass' = Disturbed(Failed(pass))
                    /\ Fault
       \/ /\ pass' = Disturbed(Failed(pass))
          /\ IF pass.desired \intersect ReservedFrom(NoInvite) # {} THEN NoFault ELSE Fault
          /\ UNCHANGED <<hub, tokenAtRisk>>
    /\ UNCHANGED <<clusterVars, foreign>>

\* tokenSecretNeedsWrite, negated.
\* Variant: any Secret of that name will do.
SecretPresent == cached # NoSecret
SecretCurrent == cached.invite = pass.status.invite

\* ensureTokenSecret: a cached Secret of the recorded invite is kept; else the
\* token in hand is applied; without one the pass stops at Ready=False.  The
\* owner is the tunnel the pass read: the finalizer keeps it there meanwhile.
EnsureTokenSecret ==
    /\ pass.at = "token"
    /\ \/ /\ SecretCurrent
          /\ Goto("get")
          /\ NoFault
          /\ UNCHANGED secret
       \/ /\ ~SecretCurrent
          /\ pass.token = NoInvite
          /\ pass' = Failed(pass)
          /\ NoFault
          /\ UNCHANGED secret
       \/ /\ pass' = Disturbed(Failed(pass))
          /\ Fault
          /\ UNCHANGED secret
       \/ /\ ~SecretCurrent
          /\ pass.token # NoInvite
          /\ LET written == [invite |-> pass.token, owner |-> tt.gen] IN
             \/ /\ secret' = written
                /\ Goto("get")
                /\ NoFault
             \/ /\ secret' = written
                /\ pass' = Disturbed(Failed(pass))
                /\ Fault
    /\ UNCHANGED <<tt, services, key, cached, endpoints, hubVars, tokenAtRisk>>

-----------------------------------------------------------------------------
(* convergeHostnames: what the invite holds is read from the hub, never    *)
(* from the status; missing hostnames are added one by one, then surplus   *)
(* ones removed.                                                           *)

\* Leaving convergeHostnames with an error: HostnamesSynced=False, then fail().
HostnamesFailed(p) == [Failed(p) EXCEPT !.status.synced = "False"]

\* The hostnames the invite has, to the operator.
\* Variant: as its own status has it.
ObservedInStatus == pass.status.authorized
Observed == hub[pass.status.invite].hosts

GetInvite ==
    /\ pass.at = "get"
    /\ LET invite == hub[pass.status.invite] IN
       \/ /\ invite.state = "pending"
          /\ NoFault
          /\ pass' = [pass EXCEPT !.at = "add",
                        !.adds = pass.desired \ Observed,
                        !.removes = Observed \ pass.desired,
                        !.confirmed = Observed, !.hubTouched = FALSE]
       \/ /\ invite.state = "revoked"
          /\ NoFault
          /\ pass' = [pass EXCEPT !.at = "sweep", !.revoked = TRUE,
                        !.status.authorized = Observed,
                        !.status.synced = "False", !.hubTouched = FALSE]
       \* 404: publish nothing, then fail.
       \/ /\ invite.state = "deleted"
          /\ NoFault
          /\ pass' = [pass EXCEPT !.at = "sweep", !.revoked = TRUE, !.missing = TRUE,
                        !.optOut = {}, !.status.synced = "False", !.hubTouched = FALSE]
       \/ /\ Fault
          /\ pass' = Disturbed(HostnamesFailed(pass))
    /\ UNCHANGED <<clusterVars, hubVars, tokenAtRisk>>

\* 409 hostname_conflict: another invite has the hostname, or another writer
\* put it on this one since the GET.  It is absorbed: listed, never confirmed.
Conflict(i, h) == h \in ReservedFrom(i) \union hub[i].hosts

AddHostname ==
    /\ pass.at = "add"
    /\ LET i == pass.status.invite
           known == hub[i].state # "deleted"
       IN
       IF pass.adds = {}
       THEN Goto("remove") /\ NoFault /\ UNCHANGED hub
       ELSE \E h \in pass.adds :
              LET added == IF known /\ ~Conflict(i, h)
                           THEN [hub EXCEPT ![i].hosts = @ \union {h}] ELSE hub
              IN
              \/ /\ known /\ ~Conflict(i, h)
                 /\ hub' = added
                 /\ pass' = [pass EXCEPT !.adds = @ \ {h}, !.confirmed = @ \union {h}]
                 /\ NoFault
              \/ /\ known /\ Conflict(i, h)
                 /\ pass' = [pass EXCEPT !.adds = @ \ {h}]
                 /\ NoFault /\ UNCHANGED hub
              \/ /\ hub' \in {hub, added}
                 /\ pass' = Disturbed(HostnamesFailed(pass))
                 /\ IF known THEN Fault ELSE NoFault
    /\ UNCHANGED <<clusterVars, foreign, tokenAtRisk>>

\* A 404 of a remove (someone else removed it first) is an error, too.  Once
\* the loops are done every hostname listed is a desired one.
RemoveHostname ==
    /\ pass.at = "remove"
    /\ LET i == pass.status.invite IN
       IF pass.removes = {}
       THEN /\ pass' = [pass EXCEPT !.at = "sweep", !.status.synced = "True",
                                    !.status.authorized = pass.desired]
            /\ NoFault /\ UNCHANGED hub
       ELSE \E h \in pass.removes :
              LET removed == [hub EXCEPT ![i].hosts = @ \ {h}] IN
              \/ /\ h \in hub[i].hosts
                 /\ hub' = removed
                 /\ pass' = [pass EXCEPT !.removes = @ \ {h}, !.confirmed = @ \ {h}]
                 /\ NoFault
              \/ /\ hub' \in {hub, removed}
                 /\ pass' = Disturbed(HostnamesFailed(pass))
                 /\ IF h \in hub[i].hosts THEN Fault ELSE NoFault
    /\ UNCHANGED <<clusterVars, foreign, tokenAtRisk>>

-----------------------------------------------------------------------------
(* reconcileDNS: withdraw everything, or sweep the other namespaces and    *)
(* apply the object.  It never fails the pass; after a 404 of the GET the  *)
(* pass fails next, otherwise the ports are next.                          *)

\* The endpoints of desiredDNSEndpoint.
\* Variant: of what the status lists, 409-absorbed hostnames included.
PublishableAuthorized == {h \in pass.desired : /\ h \in Wildcards => pass.spec.wild
                                               /\ h \notin pass.optOut}
Publishable == {h \in pass.confirmed : /\ h \in Wildcards => pass.spec.wild
                                       /\ h \notin pass.optOut}
Withdrawing == \/ pass.spec.mode = "Disabled"
               \/ pass.revoked
               \/ ~pass.spec.target
               \/ Publishable = {}

Records == IF pass.revoked \/ ~pass.spec.target THEN {} ELSE Publishable
AfterDNS == IF pass.missing THEN "write" ELSE "ports"
DNSDone(p, cond) ==
    [p EXCEPT !.at = AfterDNS, !.status.records = Records, !.status.dns = cond,
              !.status.ready = IF pass.missing THEN "False" ELSE @]

Owned == {n \in Namespaces : endpoints[n] # {}}
\* Variant: the namespaces are forgotten with their objects.
WithoutKeys(ns) == [n \in Namespaces \ ns |-> endpoints[n]]
Without(ns) == [n \in Namespaces |-> IF n \in ns THEN {} ELSE endpoints[n]]

\* sweepDNSEndpoints: every other object of this tunnel is deleted; a failed
\* delete does not stop the others.
SweepDNSEndpoints ==
    /\ pass.at = "sweep"
    /\ LET keep == IF Withdrawing THEN {} ELSE {pass.spec.ns} IN
       \/ /\ endpoints' = Without(Namespaces \ keep)
          /\ pass' = IF ~Withdrawing THEN [pass EXCEPT !.at = "apply"]
                     ELSE DNSDone(pass, IF pass.spec.mode = "Disabled" THEN "Unset"
                                        ELSE IF pass.revoked \/ ~pass.spec.target THEN "False"
                                        ELSE "True")
          /\ NoFault
       \/ /\ \E deleted \in SUBSET (Owned \ keep) : endpoints' = Without(deleted)
          /\ pass' = DNSDone(Disturbed(pass), "False")
          /\ Fault
    /\ UNCHANGED <<tt, services, key, secret, cached, hubVars, tokenAtRisk>>

\* An object of that name without the ownership labels is left alone.
ApplyDNSEndpoint ==
    /\ pass.at = "apply"
    /\ LET applied == [endpoints EXCEPT ![pass.spec.ns] = Publishable] IN
       \/ /\ pass.spec.ns \in Squatted
          /\ pass' = DNSDone(pass, "False")
          /\ NoFault
          /\ UNCHANGED endpoints
       \/ /\ pass.spec.ns \notin Squatted
          /\ endpoints' = applied
          /\ pass' = DNSDone(pass, "True")
          /\ NoFault
       \/ /\ pass.spec.ns \notin Squatted
          /\ endpoints' \in {endpoints, applied}
          /\ pass' = DNSDone(Disturbed(pass), "False")
          /\ Fault
    /\ UNCHANGED <<tt, services, key, secret, cached, hubVars, tokenAtRisk>>

-----------------------------------------------------------------------------

\* convergePorts, then rollupStatus: with an invite the tunnel is Ready.
ConvergePorts ==
    /\ pass.at = "ports"
    /\ \/ /\ pass' = [pass EXCEPT !.at = "write", !.status.issued = TRUE,
                                  !.status.ready = "True"]
          /\ NoFault
       \/ /\ pass' = Disturbed(Failed(pass))
          /\ Fault
    /\ UNCHANGED <<clusterVars, hubVars, tokenAtRisk>>

\* writeStatus: nothing to do when nothing changed; refused (a conflict) when
\* the object changed since it was read.  Either way the pass is over.
WriteStatus ==
    /\ pass.at = "write"
    /\ tt' = IF pass.stale \/ pass.status = pass.orig THEN tt
             ELSE [tt EXCEPT !.status = pass.status]
    /\ EndPass
    /\ UNCHANGED <<services, key, secret, cached, endpoints, hubVars, budget, tokenAtRisk>>

-----------------------------------------------------------------------------
(* reconcileDelete.                                                        *)

Releasing == pass.spec.policy # "Retain"

\* An error of the sweep ends the pass and keeps the finalizer.
\* Variant: the sweep is best effort, like that of the ports.
SweepErrorIgnored == [pass EXCEPT !.at = IF pass.status.invite = NoInvite
                                         THEN "unfinalize" ELSE "delPorts"]
SweepError == NoPass

\* The DNSEndpoints go first, before any hub access.  Then the API key, if there
\* is an invite to release: without one the pass ends here.
DeleteSweep ==
    /\ pass.at = "delSweep"
    /\ \/ /\ ~Releasing
          /\ Goto("unfinalize")
          /\ NoFault
          /\ UNCHANGED endpoints
       \/ /\ Releasing
          /\ endpoints' = Without(Namespaces)
          /\ IF pass.status.invite = NoInvite THEN Goto("unfinalize")
             ELSE IF key THEN Goto("delPorts") ELSE EndPass
          /\ NoFault
       \/ /\ Releasing
          /\ \E deleted \in SUBSET Owned : endpoints' = Without(deleted)
          /\ pass' = SweepError
          /\ Fault
    /\ UNCHANGED <<tt, services, key, secret, cached, hubVars, tokenAtRisk>>

\* releasePorts; an error ends the pass, as a crash does.
DeletePorts ==
    /\ pass.at = "delPorts"
    /\ Goto("delInvite")
    /\ UNCHANGED <<clusterVars, hubVars, budget, tokenAtRisk>>

\* Variant: a 404 is an error like any other.
DeleteInviteStrict ==
    /\ pass.at = "delInvite"
    /\ IF pass.status.invite \in Live THEN Goto("unfinalize") ELSE EndPass
    /\ hub' = [hub EXCEPT ![pass.status.invite] = [state |-> "deleted", hosts |-> {}]]
    /\ UNCHANGED <<clusterVars, foreign, budget, tokenAtRisk>>

\* A 404 is as good as a delete.  A lost answer ends the pass.
DeleteInvite ==
    /\ pass.at = "delInvite"
    /\ hub' = [hub EXCEPT ![pass.status.invite] = [state |-> "deleted", hosts |-> {}]]
    /\ \/ /\ Goto("unfinalize")
          /\ NoFault
       \/ /\ EndPass
          /\ Fault
    /\ UNCHANGED <<clusterVars, foreign, tokenAtRisk>>

\* Variant: a patch that does not mind a newer object.
RemoveFinalizerForced ==
    /\ pass.at = "unfinalize"
    /\ tt' = [tt EXCEPT !.phase = "absent", !.fin = FALSE]
    /\ EndPass
    /\ UNCHANGED <<services, key, secret, cached, endpoints, hubVars, budget, tokenAtRisk>>

\* The Update that drops the finalizer, and with it the object.
RemoveFinalizer ==
    /\ pass.at = "unfinalize"
    /\ tt' = IF pass.stale THEN tt ELSE [tt EXCEPT !.phase = "absent", !.fin = FALSE]
    /\ EndPass
    /\ UNCHANGED <<services, key, secret, cached, endpoints, hubVars, budget, tokenAtRisk>>

\* The process dies, or a call that only ends the pass fails: what the pass
\* held in memory is gone.
Crash ==
    /\ pass.at # "idle"
    /\ EndPass
    /\ Fault
    /\ UNCHANGED <<clusterVars, hubVars, tokenAtRisk>>

-----------------------------------------------------------------------------
(* Users.  A change to the tunnel object makes the running pass stale.     *)

Edit == /\ budget.edits < MaxEdits
        /\ budget' = [budget EXCEPT !.edits = @ + 1]
\* The running pass, if any, once somebody else acted.
Meanwhile(p) == IF pass.at = "idle" THEN pass ELSE Disturbed(p)
TunnelTouched == pass' = Meanwhile([pass EXCEPT !.stale = TRUE])
OthersActed == pass' = Meanwhile(pass)

CreateTunnel ==
    /\ tt.phase = "absent"
    /\ tt.gen < MaxTunnels
    /\ \E s \in Specs :
         tt' = [phase |-> "live", fin |-> FALSE, gen |-> tt.gen + 1,
                spec |-> s, status |-> NoStatus]
    /\ TunnelTouched
    /\ UNCHANGED <<services, key, secret, cached, endpoints, hubVars, budget, tokenAtRisk>>

EditSpec ==
    /\ tt.phase # "absent"
    /\ \E s \in Specs \ {tt.spec} : tt' = [tt EXCEPT !.spec = s]
    /\ Edit
    /\ TunnelTouched
    /\ UNCHANGED <<services, key, secret, cached, endpoints, hubVars, tokenAtRisk>>

\* With the finalizer the object stays until the operator drops it.
DeleteTunnel ==
    /\ tt.phase = "live"
    /\ tt' = [tt EXCEPT !.phase = IF tt.fin THEN "deleting" ELSE "absent"]
    /\ TunnelTouched
    /\ UNCHANGED <<services, key, secret, cached, endpoints, hubVars, budget, tokenAtRisk>>

EditServices ==
    /\ services' \in ServiceSets \ {services}
    /\ Edit
    /\ OthersActed
    /\ UNCHANGED <<tt, key, secret, cached, endpoints, hubVars, tokenAtRisk>>

EditKey ==
    /\ key' = ~key
    /\ Edit
    /\ OthersActed
    /\ UNCHANGED <<tt, services, secret, cached, endpoints, hubVars, tokenAtRisk>>

DeleteSecret ==
    /\ secret # NoSecret
    /\ secret' = NoSecret
    /\ tokenAtRisk' = TRUE
    /\ Edit
    /\ OthersActed
    /\ UNCHANGED <<tt, services, key, cached, endpoints, hubVars>>

-----------------------------------------------------------------------------
(* The API server and the informer.                                        *)

SyncCache ==
    /\ cached # secret
    /\ cached' = secret
    /\ UNCHANGED <<tt, services, key, secret, endpoints, hubVars, pass, budget, tokenAtRisk>>

\* Garbage collection of a Secret whose owner is gone.
CollectSecret ==
    /\ secret # NoSecret
    /\ tt.phase = "absent" \/ secret.owner # tt.gen
    /\ secret' = NoSecret
    /\ tokenAtRisk' = TRUE
    /\ OthersActed
    /\ UNCHANGED <<tt, services, key, cached, endpoints, hubVars, budget>>

-----------------------------------------------------------------------------
(* The hub's other users: its administrator, the operator of another       *)
(* cluster that shares the invite, and another tenant.                     *)

HubEdit == /\ budget.hubEdits < MaxHubEdits
           /\ budget' = [budget EXCEPT !.hubEdits = @ + 1]
           /\ pass' = Meanwhile([pass EXCEPT !.hubTouched = TRUE])

RevokeInvite ==
    /\ \E i \in Invites : /\ Pending(i)
                          /\ hub' = [hub EXCEPT ![i].state = "revoked"]
    /\ HubEdit
    /\ UNCHANGED <<clusterVars, foreign, tokenAtRisk>>

LoseInvite ==
    /\ \E i \in Live : hub' = [hub EXCEPT ![i] = [state |-> "deleted", hosts |-> {}]]
    /\ HubEdit
    /\ UNCHANGED <<clusterVars, foreign, tokenAtRisk>>

EditInvite ==
    /\ \E i \in Invites, h \in Hosts :
         /\ Pending(i)
         /\ \/ /\ ~Conflict(i, h)
               /\ hub' = [hub EXCEPT ![i].hosts = @ \union {h}]
            \/ /\ h \in hub[i].hosts
               /\ hub' = [hub EXCEPT ![i].hosts = @ \ {h}]
    /\ HubEdit
    /\ UNCHANGED <<clusterVars, foreign, tokenAtRisk>>

\* Another tenant reserves what is free, and gives up what it has.
EditForeign ==
    /\ \E h \in Hosts :
         \/ /\ h \notin ReservedFrom(NoInvite)
            /\ foreign' = foreign \union {h}
         \/ /\ h \in foreign
            /\ foreign' = foreign \ {h}
    /\ budget.hubEdits < MaxHubEdits
    /\ budget' = [budget EXCEPT !.hubEdits = @ + 1]
    /\ OthersActed
    /\ UNCHANGED <<clusterVars, hub, tokenAtRisk>>

-----------------------------------------------------------------------------

PassStep ==
    \/ StartPass \/ AddFinalizer \/ ListAgents \/ AdoptInvite \/ CreateInvite
    \/ EnsureTokenSecret \/ GetInvite \/ AddHostname \/ RemoveHostname
    \/ SweepDNSEndpoints \/ ApplyDNSEndpoint \/ ConvergePorts \/ WriteStatus
    \/ DeleteSweep \/ DeletePorts \/ DeleteInvite \/ RemoveFinalizer

Others ==
    \/ CreateTunnel \/ EditSpec \/ DeleteTunnel \/ EditServices \/ EditKey
    \/ DeleteSecret \/ SyncCache \/ CollectSecret
    \/ RevokeInvite \/ LoseInvite \/ EditInvite \/ EditForeign

Next == PassStep \/ Crash \/ Others

Spec == Init /\ [][Next]_vars

\* The work queue runs a pass again after every outcome (an error backs off, a
\* halt and a success set RequeueAfter), and a pass that runs goes on; the
\* informer catches up.  Nobody else owes the tunnel a step.
FairSpec == Spec /\ WF_vars(PassStep) /\ WF_vars(SyncCache)

-----------------------------------------------------------------------------

TunnelType == [phase : {"absent", "live", "deleting"}, fin : BOOLEAN, gen : Nat,
               spec : SpecType, status : StatusType]
SecretType == [invite : MaybeInvite, owner : Nat]
InviteType == [state : {"unused", "pending", "revoked", "deleted"}, hosts : SUBSET Hosts]
PassType == [at : Steps, spec : SpecType, orig : StatusType, status : StatusType,
             token : MaybeInvite, desired : SUBSET Hosts, optOut : SUBSET Hosts,
             adds : SUBSET Hosts, removes : SUBSET Hosts, confirmed : SUBSET Hosts,
             revoked : BOOLEAN, missing : BOOLEAN, stale : BOOLEAN,
             hubTouched : BOOLEAN, disturbed : BOOLEAN]

TypeOK ==
    /\ tt \in TunnelType
    /\ services \subseteq Service
    /\ key \in BOOLEAN
    /\ secret \in SecretType
    /\ cached \in SecretType
    /\ endpoints \in [Namespaces -> SUBSET Hosts]
    /\ hub \in [Invites -> InviteType]
    /\ foreign \subseteq Hosts
    /\ pass \in PassType
    /\ budget \in [edits : Nat, hubEdits : Nat, faults : Nat]
    /\ tokenAtRisk \in BOOLEAN

-----------------------------------------------------------------------------
(* What the tunnel asks for, read off the objects themselves.              *)

Wanted == tt.spec.extra \union {s.host : s \in services}
OptedOut == {s.host : s \in {x \in services : ~x.record}}
Publishing(n) == /\ tt.spec.mode = "DNSEndpoint"
                 /\ tt.spec.target
                 /\ n = tt.spec.ns
                 /\ n \notin Squatted
                 /\ Pending(Recorded)
IntendedEndpoints ==
    [n \in Namespaces |->
       IF Publishing(n)
       THEN {h \in hub[Recorded].hosts \ OptedOut : h \in Wildcards => tt.spec.wild}
       ELSE {}]
HostnamesConverged ==
    /\ hub[Recorded].hosts \subseteq Wanted
    /\ Wanted \ hub[Recorded].hosts \subseteq ReservedFrom(Recorded)

Converged ==
    /\ Recorded # NoInvite
    /\ secret.invite = Recorded
    /\ Pending(Recorded) => HostnamesConverged
    /\ endpoints = IntendedEndpoints

(* Safety.                                                                 *)

\* An undisturbed pass converges: when nobody else acted and no call failed
\* between its first read and its last write, a pass that ends Ready leaves the
\* hub's hostnames, the token Secret and the DNSEndpoints of every namespace as
\* spec, services and hub ask (Reconcile, towoneltunnel_controller.go).
UndisturbedPassConverges ==
    [][ WriteStatus /\ ~pass.disturbed /\ pass.status.ready = "True"
        => Converged' ]_vars

\* Whatever users do meanwhile, a DNSEndpoint is only ever given hostnames the
\* invite holds at that moment, unless someone else changed the invite at the
\* hub since the pass read it: a 409-absorbed hostname, which another tenant
\* may be serving, is not published (inviteView.Confirmed).
PublishesOnlyHeld ==
    [][ ApplyDNSEndpoint /\ endpoints' # endpoints /\ ~pass.hubTouched
        => /\ Pending(pass.status.invite)
           /\ endpoints'[pass.spec.ns] \subseteq hub[pass.status.invite].hosts ]_vars

\* Public records never outlive the hostnames a delete releases: no DNSEndpoint
\* is left, in any namespace, when DeleteInvite runs (reconcileDelete).
WithdrawBeforeRelease ==
    [][ DeleteInvite => Owned = {} ]_vars

\* The finalizer is dropped only when everything the status records has been
\* released, under the policy the tunnel has at that moment: an edit of the
\* policy during the pass is caught by the Update's conflict.
FinalizerReleases ==
    [][ tt.phase = "deleting" /\ tt'.phase = "absent" /\ tt.spec.policy = "Delete"
        => /\ Owned = {}
           /\ Recorded # NoInvite => hub[Recorded].state = "deleted" ]_vars

\* status.inviteId is authority: once written it is never exchanged for another
\* invite, however often lists, creates and writes fail (ensureInvite).
InviteIsAuthority ==
    [][ Recorded # NoInvite /\ tt'.gen = tt.gen => Recorded' = Recorded ]_vars

\* A Ready tunnel's token Secret holds the token of the recorded invite, as long
\* as nobody deleted the Secret and the hub never had two live invites of the
\* tunnel's name (ensureTokenSecret, tokenSecretNeedsWrite).  With two of them it
\* may not: one is adopted on the word of a cached Secret that is replaced already.
ReadyTokenMatches ==
    tt.phase = "live" /\ tt.status.ready = "True" /\ ~tokenAtRisk
    => secret.invite = Recorded

(* Liveness, under FairSpec.                                               *)

NothingWanted == Recorded = NoInvite /\ Wanted = {}
TokenLost == Recorded # NoInvite /\ secret.invite # Recorded
InviteGone == Recorded # NoInvite /\ hub[Recorded].state = "deleted"
CreateRefused == Recorded = NoInvite /\ Wanted \intersect ReservedFrom(NoInvite) # {}

\* Once users, hub and faults leave it alone the tunnel converges for good, or
\* is gone, or waits for one of the things the operator cannot bring about.
EventuallyConverged ==
    <>[](\/ tt.phase = "absent" \/ Converged
         \/ ~key \/ NothingWanted \/ TokenLost \/ InviteGone \/ CreateRefused)

\* A deletion completes, unless the API key is missing.
DeletionCompletes ==
    tt.phase = "deleting" ~> (tt.phase # "deleting" \/ ~key)

(* What the documentation says and the code does not do.                   *)

\* docs/crd-towoneltunnel.md: "A finalizer releases the invite ... on delete".
\* An invite whose id never reached the status is not released.
FinalizerLeavesNoInvite ==
    [][ tt.phase = "deleting" /\ tt'.phase = "absent" /\ tt.spec.policy = "Delete"
        => \A i \in Invites : hub[i].state \in {"unused", "deleted"} ]_vars

(* What the tunnel promises.                                               *)

Custody == INSTANCE TunnelCustody
    WITH phase <- tt.phase,
         guarded <- tt.fin,
         policy <- tt.spec.policy,
         invite <- IF tt.phase = "absent" THEN NoInvite ELSE Recorded,
         live <- Live,
         published <- Owned,
         Shared <- MaxHubEdits > 0

\* Call by call, over crashes, refused writes, lost answers and edits meanwhile,
\* the reconciler keeps custody of its invites and records: nothing is acquired
\* before the finalizer is stored (Reconcile), no second invite for a recorded
\* one, no release before the withdrawal, no end before the release.
ImplementsCustody == Custody!Spec
=============================================================================
