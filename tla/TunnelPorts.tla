---------------------------- MODULE TunnelPorts ----------------------------
(***************************************************************************)
(* The public TCP/UDP ports of one tunnel: convergePorts, which every pass *)
(* of the TowonelTunnel reconciler ends with, and the deletion pass, from  *)
(* releasePorts to the finalizer (towoneltunnel_ports.go, _delete.go).     *)
(* TowonelTunnel has all this as the steps ConvergePorts and DeletePorts.  *)
(*                                                                         *)
(* A socket is a protocol with a port.  The hub gives a socket to one      *)
(* tenant, with a label; the label the operator sends names the tunnel and *)
(* the service, so a socket of this tunnel is owned by a service name.     *)
(*                                                                         *)
(* Abstractions: the invite exists already, the finalizer is set and the   *)
(* policy is Delete; the steps of a pass before convergePorts (which do    *)
(* not touch ports) are part of its start; the edge's addresses are left   *)
(* out; nobody but this operator releases sockets of the tunnel's tenant.  *)
(***************************************************************************)
EXTENDS Naturals, FiniteSets

CONSTANTS
    Protocols,    \* tcp, udp
    Names,        \* names of l4 services
    Ports,        \* the hub's public ports
    Free, Other,  \* the owners that are not services of this tunnel
    Agents,       \* the agents, numbered in ns/name order
    ServiceSets,  \* the l4 services users give the agents
    Latencies,    \* how long a call to the hub may take, in ticks
    Window,       \* hubCallTimeout, in ticks
    MaxEdits,     \* bound: edits by users
    MaxForeign,   \* bound: sockets that other tenants take
    MaxFaults     \* bound: failed, lost or cut short calls

NoPort == 0
MaybePort == Ports \union {NoPort}
Key == [protocol : Protocols, name : Names]
L4Service == [agent : Agents, key : Key, preferred : MaybePort]

ASSUME PortsAssumption == Ports \subseteq Nat \ {NoPort}
ASSUME OwnersAssumption == Free # Other /\ {Free, Other} \intersect Names = {}
ASSUME AgentsAssumption == Agents \subseteq Nat
\* A list has one entry of a name (listMapKey=name).
ASSUME ServicesAssumption ==
    /\ ServiceSets \subseteq SUBSET L4Service
    /\ \A S \in ServiceSets : \A s, t \in S :
         s.agent = t.agent /\ s.key = t.key => s = t
ASSUME TimeAssumption == Latencies \subseteq Nat /\ Window \in Nat \ {0}
ASSUME BoundAssumption == {MaxEdits, MaxForeign, MaxFaults} \subseteq Nat

VARIABLES
    phase,     \* of the tunnel object: live, deleting, gone
    status,    \* its status
    services,  \* the agents' spec.tcp and spec.udp
    hub,       \* who owns each socket
    pass,      \* what the running pass holds in memory
    budget,    \* how much of each bound is used
    drift,     \* history: a recorded port was released and stayed recorded
    blind      \* history: a ListPorts failed

vars == <<phase, status, services, hub, pass, budget, drift, blind>>

NoAllocs == [k \in Key |-> NoPort]
\* known: status.inviteId and tenantId are set.
StatusType == [known : BOOLEAN, allocs : [Key -> MaybePort],
               reserved : {"Unset", "True", "False"}]
NoStatus == [known |-> FALSE, allocs |-> NoAllocs, reserved |-> "Unset"]
Steps == {"idle", "list", "reserve", "prune", "write",
          "release", "leaks", "sweep", "delInvite", "unfinalize"}
NoPass == [at |-> "idle", wants |-> {}, orig |-> NoStatus, allocs |-> NoAllocs,
           todo |-> {}, sockets |-> {}, failed |-> FALSE, pruned |-> FALSE,
           unlisted |-> FALSE, elapsed |-> 0, stale |-> FALSE]

Init ==
    /\ phase = "live"
    /\ status = NoStatus
    /\ services \in ServiceSets
    /\ hub = [s \in Protocols \X Ports |-> Free]
    /\ pass = NoPass
    /\ budget = [edits |-> 0, foreign |-> 0, faults |-> 0]
    /\ drift = FALSE
    /\ blind = FALSE

-----------------------------------------------------------------------------
(* desiredPorts: services of one protocol and name share one public port.  *)

Requested(svcs) == {s.key : s \in svcs}

\* The preferredPort of a key is that of the first agent that has one.
Preferred(svcs, k) ==
    LET pinned == {s \in svcs : s.key = k /\ s.preferred # NoPort}
    IN IF pinned = {} THEN NoPort
       ELSE (CHOOSE s \in pinned : \A t \in pinned : s.agent <= t.agent).preferred

Recorded(allocs) == {k \in Key : allocs[k] # NoPort}
SocketOf(k, port) == <<k.protocol, port>>
PortsHeld(k) == {p \in Ports : hub[SocketOf(k, p)] = k.name}
FreePorts(k) == {p \in Ports : hub[SocketOf(k, p)] = Free}
OurSockets == {s \in Protocols \X Ports : hub[s] \in Names}

\* The hub's answer to a release: 404 unless the tenant has the socket.
\* Variant: the socket is forgotten with its owner.
ReleasedForgotten(s) == [t \in DOMAIN hub \ {s} |-> hub[t]]
Released(s) == IF hub[s] \in Names THEN [hub EXCEPT ![s] = Free] ELSE hub

-----------------------------------------------------------------------------
NoFault == UNCHANGED budget
Fault == /\ budget.faults < MaxFaults
         /\ budget' = [budget EXCEPT !.faults = @ + 1]

\* A pass ends; drift is what its memory knew and the status does not.
Forget == pass' = NoPass /\ drift' = (drift \/ pass.pruned)

\* Keys the pass still needs a port for: what the status has is kept, whatever
\* the preference is by now.
\* Variant: a recorded port that is not the preferred one is reserved anew.
MissingOrMoved(svcs, allocs) ==
    {k \in Requested(svcs) : \/ allocs[k] = NoPort
                             \/ Preferred(svcs, k) \notin {NoPort, allocs[k]}}
\* Variant: only a tunnel without any port reserves.
MissingAtFirst(svcs, allocs) == IF allocs = NoAllocs THEN Requested(svcs) ELSE {}
Missing(svcs, allocs) == {k \in Requested(svcs) : allocs[k] = NoPort}

StartPass ==
    /\ pass.at = "idle"
    /\ phase # "gone"
    /\ LET missing == Missing(services, status.allocs)
           begun == [NoPass EXCEPT !.wants = services, !.orig = status]
       IN pass' =
            IF phase = "live"
            THEN [begun EXCEPT
                   !.at = IF missing = {} THEN "prune" ELSE "list",
                   !.allocs = [k \in Key |-> IF k \in Requested(services) \ missing
                                             THEN status.allocs[k] ELSE NoPort],
                   !.todo = IF missing = {}
                            THEN Recorded(status.allocs) \ Requested(services)
                            ELSE missing]
            ELSE [begun EXCEPT
                   !.at = IF status.known THEN "release" ELSE "unfinalize",
                   !.todo = Recorded(status.allocs)]
    /\ UNCHANGED <<phase, status, services, hub, budget, drift, blind>>

\* The list is asked for once, at the first key without a port.  A socket with
\* the key's protocol and label is adopted; a failed list adopts nothing.
\* Variant: the label alone decides.
AdoptableByLabel(k) == {p \in Ports : \E q \in Protocols : hub[<<q, p>>] = k.name}
\* Variant: nothing is adopted.
AdoptableNever(k) == {}
Adoptable(k) == PortsHeld(k)

ListPorts ==
    /\ pass.at = "list"
    /\ \/ \E found \in [pass.todo -> MaybePort] :
            /\ \A k \in pass.todo : IF Adoptable(k) = {} THEN found[k] = NoPort
                                    ELSE found[k] \in Adoptable(k)
            /\ pass' = [pass EXCEPT
                         !.at = "reserve",
                         !.allocs = [k \in Key |-> IF k \in pass.todo THEN found[k]
                                                   ELSE pass.allocs[k]],
                         !.todo = {k \in pass.todo : found[k] = NoPort}]
            /\ NoFault
            /\ UNCHANGED blind
       \/ /\ pass' = [pass EXCEPT !.at = "reserve"]
          /\ blind' = TRUE
          /\ Fault
    /\ UNCHANGED <<phase, status, services, hub, drift>>

\* One key after the other; the failure of one does not stop the others.
ReservePort ==
    /\ pass.at = "reserve"
    /\ IF pass.todo = {}
       THEN /\ pass' = [pass EXCEPT !.at = "prune",
                          !.todo = Recorded(pass.orig.allocs) \ Requested(pass.wants)]
            /\ NoFault
            /\ UNCHANGED hub
       ELSE \E k \in pass.todo :
              LET preferred == Preferred(pass.wants, k)
                  offered == IF preferred = NoPort THEN FreePorts(k)
                             ELSE FreePorts(k) \intersect {preferred}
                  handled == [pass EXCEPT !.todo = @ \ {k}]
              IN
              \/ \E p \in offered :
                   /\ hub' = [hub EXCEPT ![SocketOf(k, p)] = k.name]
                   /\ \/ /\ pass' = [handled EXCEPT !.allocs[k] = p]
                         /\ NoFault
                      \/ /\ pass' = [handled EXCEPT !.failed = TRUE]
                         /\ Fault
              \/ /\ pass' = [handled EXCEPT !.failed = TRUE]
                 /\ IF offered = {} THEN NoFault ELSE Fault
                 /\ UNCHANGED hub
    /\ UNCHANGED <<phase, status, services, drift, blind>>

\* Recorded ports nobody asks for any more are released, by protocol and port;
\* one whose release failed, or was not seen to succeed, stays in the status.
PrunePort ==
    /\ pass.at = "prune"
    /\ IF pass.todo = {}
       THEN /\ pass' = [pass EXCEPT !.at = "write"]
            /\ UNCHANGED <<hub, budget, drift>>
       ELSE \E k \in pass.todo :
              LET port == pass.orig.allocs[k]
                  handled == [pass EXCEPT !.todo = @ \ {k}, !.pruned = TRUE]
              IN
              \/ /\ hub' = Released(SocketOf(k, port))
                 /\ pass' = handled
                 /\ NoFault
                 /\ UNCHANGED drift
              \/ /\ hub' \in {hub, Released(SocketOf(k, port))}
                 /\ pass' = [handled EXCEPT !.failed = TRUE, !.allocs[k] = port]
                 /\ drift' = (drift \/ hub' # hub)
                 /\ Fault
    /\ UNCHANGED <<phase, status, services, blind>>

\* The status of the pass, refused when the object changed since it was read.
Result == [known |-> TRUE, allocs |-> pass.allocs,
           reserved |-> IF pass.failed THEN "False" ELSE "True"]
WriteStatus ==
    /\ pass.at = "write"
    /\ IF pass.stale
       THEN Forget /\ UNCHANGED status
       ELSE /\ status' = Result
            /\ pass' = NoPass
            /\ UNCHANGED drift
    /\ UNCHANGED <<phase, services, hub, budget, blind>>

-----------------------------------------------------------------------------
(* Deletion.  The deadline of DeleteInvite starts before the ports are     *)
(* released: elapsed is what those calls have used of it.                  *)

Capped(n) == IF n > Window THEN Window ELSE n
Later(p, d) == [p EXCEPT !.elapsed = Capped(@ + d)]

\* A release that does not answer ends the pass, and the finalizer stays.
\* Variant: a 404 is an error like any other.
ReleaseOfStrict(s, handled) ==
    /\ hub' = Released(s)
    /\ \/ /\ hub[s] \in Names
          /\ \E d \in Latencies : pass' = Later(handled, d)
          /\ NoFault
          /\ UNCHANGED drift
       \/ /\ Forget
          /\ IF hub[s] \in Names THEN Fault ELSE NoFault
ReleaseOf(s, handled) ==
    \/ /\ hub' = Released(s)
       /\ \E d \in Latencies : pass' = Later(handled, d)
       /\ NoFault
       /\ UNCHANGED drift
    \/ /\ hub' \in {hub, Released(s)}
       /\ Forget
       /\ Fault

ReleaseRecorded ==
    /\ pass.at = "release"
    /\ IF pass.todo = {}
       THEN /\ pass' = [pass EXCEPT !.at = "leaks"]
            /\ UNCHANGED <<hub, budget, drift>>
       ELSE \E k \in pass.todo :
              ReleaseOf(SocketOf(k, pass.orig.allocs[k]), [pass EXCEPT !.todo = @ \ {k}])
    /\ UNCHANGED <<phase, status, services, blind>>

\* Sockets that never reached the status; those released above are skipped.
\* Variant: skipped by port alone.
LeakedByPort(allocs) ==
    {s \in OurSockets : s[2] \notin {allocs[k] : k \in Recorded(allocs)}}
Leaked(allocs) == OurSockets \ {SocketOf(k, allocs[k]) : k \in Recorded(allocs)}

\* The sweep for what else carries the tunnel's label; a failed list skips it.
ListLeaks ==
    /\ pass.at = "leaks"
    /\ \E d \in Latencies :
         \/ /\ pass' = Later([pass EXCEPT !.at = "sweep",
                                          !.sockets = Leaked(pass.orig.allocs)], d)
            /\ NoFault
            /\ UNCHANGED blind
         \/ /\ pass' = Later([pass EXCEPT !.at = "delInvite", !.unlisted = TRUE], d)
            /\ blind' = TRUE
            /\ Fault
    /\ UNCHANGED <<phase, status, services, hub, drift>>

ReleaseLeaked ==
    /\ pass.at = "sweep"
    /\ IF pass.sockets = {}
       THEN /\ pass' = [pass EXCEPT !.at = "delInvite"]
            /\ UNCHANGED <<hub, budget, drift>>
       ELSE \E s \in pass.sockets : ReleaseOf(s, [pass EXCEPT !.sockets = @ \ {s}])
    /\ UNCHANGED <<phase, status, services, blind>>

\* Past its deadline the call fails without being sent.
DeleteInvite ==
    /\ pass.at = "delInvite"
    /\ \/ /\ pass.elapsed < Window
          /\ pass' = [pass EXCEPT !.at = "unfinalize"]
          /\ NoFault
          /\ UNCHANGED drift
       \/ /\ pass.elapsed < Window
          /\ Forget
          /\ Fault
       \/ /\ pass.elapsed >= Window
          /\ Forget
          /\ NoFault
    /\ UNCHANGED <<phase, status, services, hub, blind>>

RemoveFinalizer ==
    /\ pass.at = "unfinalize"
    /\ phase' = IF pass.stale THEN phase ELSE "gone"
    /\ Forget
    /\ UNCHANGED <<status, services, hub, budget, blind>>

Crash ==
    /\ pass.at # "idle"
    /\ Forget
    /\ Fault
    /\ UNCHANGED <<phase, status, services, hub, blind>>

-----------------------------------------------------------------------------
(* Users and other tenants.                                                *)

Edit == /\ budget.edits < MaxEdits
        /\ budget' = [budget EXCEPT !.edits = @ + 1]
TunnelTouched == pass' = IF pass.at = "idle" THEN pass ELSE [pass EXCEPT !.stale = TRUE]

EditServices ==
    /\ services' \in ServiceSets \ {services}
    /\ Edit
    /\ UNCHANGED <<phase, status, hub, pass, drift, blind>>

\* Any edit of the tunnel object: a label, an annotation, its spec.
EditTunnel ==
    /\ phase # "gone"
    /\ pass.at # "idle"
    /\ Edit
    /\ TunnelTouched
    /\ UNCHANGED <<phase, status, services, hub, drift, blind>>

DeleteTunnel ==
    /\ phase = "live"
    /\ phase' = "deleting"
    /\ TunnelTouched
    /\ UNCHANGED <<status, services, hub, budget, drift, blind>>

TakeSocket ==
    /\ \E s \in DOMAIN hub : hub[s] = Free /\ hub' = [hub EXCEPT ![s] = Other]
    /\ budget.foreign < MaxForeign
    /\ budget' = [budget EXCEPT !.foreign = @ + 1]
    /\ UNCHANGED <<phase, status, services, pass, drift, blind>>

GiveUpSocket ==
    /\ \E s \in DOMAIN hub : hub[s] = Other /\ hub' = [hub EXCEPT ![s] = Free]
    /\ UNCHANGED <<phase, status, services, pass, budget, drift, blind>>

-----------------------------------------------------------------------------
PassStep ==
    \/ StartPass \/ ListPorts \/ ReservePort \/ PrunePort \/ WriteStatus
    \/ ReleaseRecorded \/ ListLeaks \/ ReleaseLeaked \/ DeleteInvite \/ RemoveFinalizer
Others == EditServices \/ EditTunnel \/ DeleteTunnel \/ TakeSocket \/ GiveUpSocket

Next == PassStep \/ Crash \/ Others

Spec == Init /\ [][Next]_vars

\* The work queue runs a pass again after every outcome, and a running pass
\* goes on.
FairSpec == Spec /\ WF_vars(PassStep)

-----------------------------------------------------------------------------
TypeOK ==
    /\ phase \in {"live", "deleting", "gone"}
    /\ status \in StatusType
    /\ services \in ServiceSets
    /\ hub \in [Protocols \X Ports -> Names \union {Free, Other}]
    /\ pass \in [at : Steps, wants : SUBSET L4Service, orig : StatusType,
                 allocs : [Key -> MaybePort], todo : SUBSET Key,
                 sockets : SUBSET (Protocols \X Ports), failed : BOOLEAN,
                 pruned : BOOLEAN, unlisted : BOOLEAN, elapsed : 0..Window,
                 stale : BOOLEAN]
    /\ budget \in [edits : Nat, foreign : Nat, faults : Nat]
    /\ drift \in BOOLEAN
    /\ blind \in BOOLEAN

Held(k) == /\ status.allocs[k] # NoPort
           /\ hub[SocketOf(k, status.allocs[k])] = k.name

(* Safety.                                                                 *)

\* What the status lists, the hub has given to this tunnel under that name, as
\* long as every pass that released a recorded port also recorded that
\* (convergePorts keeps a recorded port unasked, so nothing would repair it).
RecordedPortsHeld ==
    phase = "live" /\ ~drift /\ ~pass.pruned
    => \A k \in Recorded(status.allocs) : Held(k)

\* A service never has two public ports, whatever reservations were made by
\* passes that crashed, lost the answer or lost their status write: the next
\* pass finds them by label, unless the list failed (convergePorts, adoption).
OnePortPerName ==
    ~blind => \A k \in Key : \A p, q \in PortsHeld(k) : p = q

\* The public port of a service is not exchanged for another one while the
\* status lists it, however preferences, agents and free ports change.
PublicPortStable ==
    [][ \A k \in Recorded(status.allocs) : status'.allocs[k] \in {NoPort, status.allocs[k]} ]_vars

\* The finalizer of a tunnel with a recorded invite is dropped only when the hub
\* has no socket of it left, those that never reached the status included,
\* unless the list of the leak sweep failed (releasePorts).
DeletionLeavesNoPorts ==
    [][ phase = "deleting" /\ phase' = "gone" /\ status.known /\ ~pass.unlisted
        => OurSockets = {} ]_vars

(* Liveness, under FairSpec.                                               *)

\* A requested key the hub cannot serve: its preferred port, or every port, is
\* somebody else's.
Refused ==
    \E k \in Requested(services) :
      /\ status.allocs[k] = NoPort
      /\ LET preferred == Preferred(services, k)
         IN FreePorts(k) = {} \/ (preferred # NoPort /\ preferred \notin FreePorts(k))

PortsConverged ==
    /\ Recorded(status.allocs) = Requested(services)
    /\ \A k \in Requested(services) : Held(k)

\* Left alone, the recorded ports become the requested ones, held at the hub.
EventuallyReserved ==
    <>[](phase = "live" => drift \/ Refused \/ PortsConverged)

\* A deletion completes, unless the port calls before it use up the window of
\* DeleteInvite again and again: callCtx is created before them, although
\* towoneltunnel_delete.go says "sharing one 20s window would starve
\* DeleteInvite on many-port tunnels".
DeletionCompletes ==
    <>[](pass.elapsed < Window) => (phase = "deleting" ~> phase = "gone")

(* What the documentation says and the code does not do.                   *)

\* docs/crd-towoneltunnel.md: PortsReserved is "All requested TCP/UDP ports are
\* reserved".  A release repeated from a status that missed its last write
\* frees a port that was meanwhile reserved for another name, for good.
PortsReservedHolds ==
    <>[](phase = "live" /\ status.reserved = "True"
         => \A k \in Requested(services) : Held(k))
=============================================================================
