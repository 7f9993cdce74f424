------------------------- MODULE TunnelPortsProofs -------------------------
(* Theorems about the public ports of a tunnel, for any protocols, names,  *)
(* ports, agents, services, latencies and bounds.                          *)
EXTENDS TunnelPorts, TLAPS

(***************************************************************************)
(* The inductive invariant.  What the properties say of the status is not  *)
(* inductive: it needs what the running pass has done so far, step by      *)
(* step, and the steps of a pass of a live tunnel are told apart from      *)
(* those of a deletion by the pass alone, because the object may be        *)
(* deleted under a running pass.                                           *)
(***************************************************************************)

LiveSteps == {"list", "reserve", "prune", "write"}
DeletionSteps == {"release", "leaks", "sweep", "delInvite", "unfinalize"}
PassType == [at : Steps, wants : SUBSET L4Service, orig : StatusType,
             allocs : [Key -> MaybePort], todo : SUBSET Key,
             sockets : SUBSET (Protocols \X Ports), failed : BOOLEAN,
             pruned : BOOLEAN, unlisted : BOOLEAN, elapsed : 0..Window,
             stale : BOOLEAN]
Sockets == Protocols \X Ports

\* A pass works on the status as it is, and on a live object unless it is stale.
PassInv ==
    /\ pass.at = "idle" => pass = NoPass
    /\ pass.at # "idle" => pass.orig = status
    /\ pass.at \in LiveSteps => phase = "live" \/ pass.stale
    /\ pass.at \in LiveSteps => phase # "gone"
    /\ pass.at \in DeletionSteps => phase = "deleting"
    /\ pass.at \in DeletionSteps \ {"unfinalize"} => status.known

\* The ports of the pass are the recorded ones, or new ones of keys without.
KeepInv ==
    pass.at \in LiveSteps =>
      /\ \A k \in Recorded(status.allocs) : pass.allocs[k] \in {NoPort, status.allocs[k]}
      /\ pass.at \in {"list", "reserve"} =>
           /\ ~pass.pruned
           /\ \A k \in pass.todo : status.allocs[k] = NoPort
           /\ pass.todo \subseteq Requested(pass.wants)
           /\ \A k \in Key : pass.allocs[k] # NoPort => k \in Requested(pass.wants)
      /\ pass.at = "prune" =>
           /\ pass.todo \subseteq Recorded(status.allocs)
           /\ \A k \in pass.todo : pass.allocs[k] = NoPort

\* What the status lists is held until a pass prunes; what that pass has in
\* memory, and what it has yet to prune, is held even then.
HeldInv ==
    ~drift =>
      /\ (phase = "live" \/ pass.at \in LiveSteps) /\ ~pass.pruned
           => \A k \in Recorded(status.allocs) : Held(k)
      /\ pass.at \in LiveSteps
           => \A k \in Recorded(pass.allocs) : hub[SocketOf(k, pass.allocs[k])] = k.name
      /\ pass.at = "prune" => \A k \in pass.todo : Held(k)

\* A key about to be reserved has no port.
OneInv ==
    ~blind =>
      /\ \A k \in Key : \A p, q \in PortsHeld(k) : p = q
      /\ pass.at = "reserve" => \A k \in pass.todo : PortsHeld(k) = {}

\* What a deletion has released so far.
RecordedSocket(k) == SocketOf(k, status.allocs[k])
ReleasedInv ==
    /\ pass.at = "release" =>
         /\ pass.todo \subseteq Recorded(status.allocs)
         /\ \A k \in Recorded(status.allocs) \ pass.todo : RecordedSocket(k) \notin OurSockets
    /\ pass.at = "leaks" =>
         \A k \in Recorded(status.allocs) : RecordedSocket(k) \notin OurSockets
    /\ pass.at = "sweep" => OurSockets \subseteq pass.sockets
    /\ pass.at \in {"delInvite", "unfinalize"} /\ status.known /\ ~pass.unlisted
         => OurSockets = {}

IInv == TypeOK /\ PassInv /\ KeepInv /\ HeldInv /\ OneInv /\ ReleasedInv

(***************************************************************************)
(* Types.                                                                  *)
(***************************************************************************)

\* TypeOK speaks of the pass as PassType does.
LEMMA TypeOKIsPassType == TypeOK => pass \in PassType
BY DEF TypeOK, PassType

\* A pass that has ended, and a status not yet written, are well typed.
LEMMA InitialTypes == NoStatus \in StatusType /\ NoPass \in PassType
<1>1. NoStatus \in StatusType
  BY DEF NoStatus, NoAllocs, StatusType, MaybePort
<1>2. 0 \in 0..Window
  BY TimeAssumption
<1> QED
  BY <1>1, <1>2 DEF NoPass, PassType, Steps, NoAllocs, MaybePort

\* Services are asked for under well-typed keys.
LEMMA RequestedType ==
    ASSUME NEW svcs \in SUBSET L4Service
    PROVE  Requested(svcs) \subseteq Key
BY DEF Requested, L4Service

\* The socket of a key and a public port.
LEMMA SocketType ==
    ASSUME NEW k \in Key, NEW p \in Ports
    PROVE  SocketOf(k, p) \in Sockets
BY DEF Key, SocketOf, Sockets

\* A recorded port is a port.
LEMMA RecordedType ==
    ASSUME NEW allocs \in [Key -> MaybePort], NEW k \in Recorded(allocs)
    PROVE  k \in Key /\ allocs[k] \in Ports /\ SocketOf(k, allocs[k]) \in Sockets
<1>1. k \in Key /\ allocs[k] \in Ports
  BY DEF Recorded, MaybePort
<1> QED
  BY <1>1, SocketType

\* A release leaves a map of the sockets to their owners.
LEMMA ReleasedType ==
    ASSUME TypeOK, NEW s
    PROVE  Released(s) \in [Sockets -> Names \union {Free, Other}]
BY DEF TypeOK, Released, Sockets

LEMMA LaterType ==
    ASSUME NEW p \in PassType, NEW d \in Latencies
    PROVE  Later(p, d) \in PassType
<1>1. Capped(p.elapsed + d) \in 0..Window
  BY TimeAssumption DEF PassType, Capped
<1>2. Later(p, d) = [p EXCEPT !.elapsed = Capped(p.elapsed + d)]
  BY DEF Later, PassType
<1> QED
  BY <1>1, <1>2 DEF PassType

LEMMA BudgetType ==
    ASSUME TypeOK, NoFault \/ Fault \/ Edit
    PROVE  budget' \in [edits : Nat, foreign : Nat, faults : Nat]
BY DEF TypeOK, NoFault, Fault, Edit

LEMMA ForgetType ==
    ASSUME TypeOK, Forget
    PROVE  pass' \in PassType /\ drift' \in BOOLEAN
<1>1. pass.pruned \in BOOLEAN /\ drift \in BOOLEAN
  BY DEF TypeOK
<1> QED
  BY <1>1, InitialTypes DEF Forget

\* A release that ends or goes on with a well-typed pass.
LEMMA ReleaseOfType ==
    ASSUME TypeOK, NEW s, NEW p \in PassType, ReleaseOf(s, p)
    PROVE  /\ pass' \in PassType
           /\ drift' \in BOOLEAN
           /\ hub' \in [Sockets -> Names \union {Free, Other}]
           /\ budget' \in [edits : Nat, foreign : Nat, faults : Nat]
<1>1. Released(s) \in [Sockets -> Names \union {Free, Other}]
  BY ReleasedType
<1>2. hub \in [Sockets -> Names \union {Free, Other}] /\ drift \in BOOLEAN
  BY DEF TypeOK, Sockets
<1>3. CASE /\ hub' = Released(s)
           /\ \E d \in Latencies : pass' = Later(p, d)
           /\ NoFault
           /\ UNCHANGED drift
  BY <1>1, <1>2, <1>3, LaterType, BudgetType
<1>4. CASE hub' \in {hub, Released(s)} /\ Forget /\ Fault
  BY <1>1, <1>2, <1>4, ForgetType, BudgetType
<1> QED
  BY <1>3, <1>4 DEF ReleaseOf

\* The start of a pass: what each field is, for a live tunnel and for one that
\* is being deleted.
LEMMA PassStarted ==
    ASSUME TypeOK, StartPass
    PROVE  /\ pass' \in PassType
           /\ pass'.orig = status
           /\ pass'.wants = services
           /\ ~pass'.pruned
           /\ ~pass'.stale
           /\ phase = "live" =>
                /\ pass'.at \in {"prune", "list"}
                /\ pass'.allocs = [k \in Key |-> IF /\ k \in Requested(services)
                                                    /\ status.allocs[k] # NoPort
                                                 THEN status.allocs[k] ELSE NoPort]
                /\ pass'.at = "list" => pass'.todo = Missing(services, status.allocs)
                /\ pass'.at = "prune" =>
                     pass'.todo = Recorded(status.allocs) \ Requested(services)
           /\ phase # "live" =>
                /\ pass'.at = IF status.known THEN "release" ELSE "unfinalize"
                /\ pass'.todo = Recorded(status.allocs)
<1> DEFINE missing == Missing(services, status.allocs)
           begun == [NoPass EXCEPT !.wants = services, !.orig = status]
           kept == [k \in Key |-> IF k \in Requested(services) \ missing
                                  THEN status.allocs[k] ELSE NoPort]
           start == [begun EXCEPT
                      !.at = IF missing = {} THEN "prune" ELSE "list",
                      !.allocs = kept,
                      !.todo = IF missing = {} THEN Recorded(status.allocs) \ Requested(services)
                               ELSE missing]
           finish == [begun EXCEPT
                       !.at = IF status.known THEN "release" ELSE "unfinalize",
                       !.todo = Recorded(status.allocs)]
<1>1. /\ services \in SUBSET L4Service
      /\ status \in StatusType
      /\ status.allocs \in [Key -> MaybePort]
  BY ServicesAssumption DEF TypeOK, StatusType
<1>2. begun \in PassType /\ begun.wants = services /\ begun.orig = status
      /\ ~begun.pruned /\ ~begun.stale
  BY <1>1, InitialTypes DEF PassType, NoPass
<1>3. missing \subseteq Key /\ Recorded(status.allocs) \subseteq Key
  BY <1>1, RequestedType DEF Missing, Recorded
<1>4. /\ kept \in [Key -> MaybePort]
      /\ kept = [k \in Key |-> IF k \in Requested(services) /\ status.allocs[k] # NoPort
                               THEN status.allocs[k] ELSE NoPort]
  BY <1>1 DEF Missing, MaybePort
<1> HIDE DEF begun, missing, kept
<1>5. CASE phase = "live"
  <2>1. pass' = start
    BY <1>5 DEF StartPass, begun, kept, missing
  <2>2. start \in PassType
    BY <1>2, <1>3, <1>4 DEF PassType, Steps
  <2>3. /\ start.orig = status /\ start.wants = services /\ ~start.pruned /\ ~start.stale
        /\ start.at \in {"prune", "list"} /\ start.allocs = kept
        /\ start.at = "list" => start.todo = missing
        /\ start.at = "prune" => start.todo = Recorded(status.allocs) \ Requested(services)
    BY <1>2 DEF PassType
  <2> QED
    BY <1>4, <1>5, <2>1, <2>2, <2>3 DEF missing
<1>6. CASE phase # "live"
  <2>1. pass' = finish
    BY <1>6 DEF StartPass, begun
  <2>2. finish \in PassType
    BY <1>2, <1>3 DEF PassType, Steps
  <2>3. /\ finish.orig = status /\ finish.wants = services /\ ~finish.pruned /\ ~finish.stale
        /\ finish.at = IF status.known THEN "release" ELSE "unfinalize"
        /\ finish.todo = Recorded(status.allocs)
    BY <1>2 DEF PassType
  <2> QED
    BY <1>6, <2>1, <2>2, <2>3
<1> QED
  BY <1>5, <1>6

LEMMA InitTypeOK == Init => TypeOK
<1> SUFFICES ASSUME Init PROVE TypeOK
  OBVIOUS
<1>1. pass \in PassType /\ status \in StatusType
  BY InitialTypes DEF Init
<1>2. budget \in [edits : Nat, foreign : Nat, faults : Nat]
  BY DEF Init
<1> QED
  BY <1>1, <1>2 DEF Init, TypeOK, PassType

\* The steps of a pass of a live tunnel keep the types.
LEMMA LivePassTypes ==
    ASSUME TypeOK, StartPass \/ ListPorts \/ ReservePort \/ PrunePort \/ WriteStatus
    PROVE  TypeOK'
<1>1. /\ pass \in PassType /\ status \in StatusType
      /\ pass.todo \subseteq Key
      /\ pass.allocs \in [Key -> MaybePort]
      /\ pass.orig.allocs \in [Key -> MaybePort]
      /\ hub \in [Sockets -> Names \union {Free, Other}]
  BY DEF TypeOK, PassType, StatusType, Sockets
<1>2. CASE StartPass
  BY <1>2, PassStarted DEF StartPass, TypeOK, PassType
<1>3. CASE ListPorts
  <2>1. pass' \in PassType
    <3>1. ASSUME NEW found \in [pass.todo -> MaybePort],
                 pass' = [pass EXCEPT
                           !.at = "reserve",
                           !.allocs = [k \in Key |-> IF k \in pass.todo THEN found[k]
                                                     ELSE pass.allocs[k]],
                           !.todo = {k \in pass.todo : found[k] = NoPort}]
          PROVE  pass' \in PassType
      <4>1. [k \in Key |-> IF k \in pass.todo THEN found[k] ELSE pass.allocs[k]]
              \in [Key -> MaybePort]
        BY <1>1
      <4>2. {k \in pass.todo : found[k] = NoPort} \subseteq Key
        BY <1>1
      <4> QED
        BY <1>1, <3>1, <4>1, <4>2 DEF PassType, Steps
    <3>2. CASE pass' = [pass EXCEPT !.at = "reserve"]
      BY <1>1, <3>2 DEF PassType, Steps
    <3> QED
      BY <1>3, <3>1, <3>2 DEF ListPorts
  <2>2. NoFault \/ Fault
    BY <1>3 DEF ListPorts
  <2>3. blind' \in BOOLEAN
    BY <1>3 DEF ListPorts, TypeOK
  <2> QED
    BY <1>3, <2>1, <2>2, <2>3, BudgetType DEF ListPorts, TypeOK, PassType
<1>4. CASE ReservePort
  <2>1. CASE pass.todo = {}
    <3>1. Recorded(pass.orig.allocs) \subseteq Key
      BY <1>1 DEF Recorded
    <3>2. pass' = [pass EXCEPT !.at = "prune",
                     !.todo = Recorded(pass.orig.allocs) \ Requested(pass.wants)]
      BY <1>4, <2>1 DEF ReservePort
    <3>3. pass' \in PassType
      BY <1>1, <3>1, <3>2 DEF PassType, Steps
    <3> QED
      BY <1>4, <2>1, <3>3, BudgetType DEF ReservePort, TypeOK, PassType
  <2>2. CASE pass.todo # {}
    <3>1. PICK k \in pass.todo :
            LET handled == [pass EXCEPT !.todo = @ \ {k}]
            IN  \/ \E p \in FreePorts(k) :
                     /\ hub' = [hub EXCEPT ![SocketOf(k, p)] = k.name]
                     /\ \/ pass' = [handled EXCEPT !.allocs[k] = p] /\ NoFault
                        \/ pass' = [handled EXCEPT !.failed = TRUE] /\ Fault
                \/ /\ pass' = [handled EXCEPT !.failed = TRUE]
                   /\ NoFault \/ Fault
                   /\ UNCHANGED hub
      BY <1>4, <2>2, Zenon DEF ReservePort
    <3>2. k \in Key /\ k.name \in Names
      BY <1>1 DEF Key
    <3>3. [pass EXCEPT !.todo = @ \ {k}, !.failed = TRUE] \in PassType
      BY <1>1 DEF PassType
    <3>4. ASSUME NEW p \in FreePorts(k)
          PROVE  /\ [hub EXCEPT ![SocketOf(k, p)] = k.name]
                       \in [Sockets -> Names \union {Free, Other}]
                 /\ [pass EXCEPT !.todo = @ \ {k}, !.allocs[k] = p] \in PassType
      <4>1. p \in Ports
        BY DEF FreePorts
      <4>2. [pass.allocs EXCEPT ![k] = p] \in [Key -> MaybePort]
        BY <1>1, <4>1 DEF MaybePort
      <4> QED
        BY <1>1, <3>2, <4>1, <4>2 DEF PassType
    <3>5. pass' \in PassType /\ hub' \in [Sockets -> Names \union {Free, Other}]
      BY <1>1, <3>1, <3>3, <3>4
    <3>6. NoFault \/ Fault
      BY <3>1
    <3> QED
      BY <1>4, <3>5, <3>6, BudgetType DEF ReservePort, TypeOK, PassType, Sockets
  <2> QED
    BY <2>1, <2>2
<1>5. CASE PrunePort
  <2>1. CASE pass.todo = {}
    <3>1. pass' \in PassType
      BY <1>1, <1>5, <2>1 DEF PrunePort, PassType, Steps
    <3> QED
      BY <1>5, <2>1, <3>1 DEF PrunePort, TypeOK, PassType
  <2>2. CASE pass.todo # {}
    <3>1. PICK k \in pass.todo :
            LET port == pass.orig.allocs[k]
                handled == [pass EXCEPT !.todo = @ \ {k}, !.pruned = TRUE]
            IN  \/ /\ hub' = Released(SocketOf(k, port))
                   /\ pass' = handled
                   /\ NoFault
                   /\ UNCHANGED drift
                \/ /\ hub' \in {hub, Released(SocketOf(k, port))}
                   /\ pass' = [handled EXCEPT !.failed = TRUE, !.allocs[k] = port]
                   /\ drift' = (drift \/ hub' # hub)
                   /\ Fault
      BY <1>5, <2>2 DEF PrunePort
    <3> DEFINE port == pass.orig.allocs[k]
               handled == [pass EXCEPT !.todo = @ \ {k}, !.pruned = TRUE]
    <3>2. port \in MaybePort /\ k \in Key
      BY <1>1
    <3>3. handled \in PassType /\ handled.allocs = pass.allocs
      BY <1>1 DEF PassType
    <3>4. [handled EXCEPT !.failed = TRUE, !.allocs[k] = port] \in PassType
      <4>1. [handled.allocs EXCEPT ![k] = port] \in [Key -> MaybePort]
        BY <1>1, <3>2, <3>3
      <4> HIDE DEF port, handled
      <4> QED
        BY <3>3, <4>1 DEF PassType
    <3>5. /\ pass' \in PassType
          /\ hub' \in [Sockets -> Names \union {Free, Other}]
          /\ drift' \in BOOLEAN
          /\ NoFault \/ Fault
      <4>1. drift \in BOOLEAN
        BY DEF TypeOK
      <4> QED
        BY <1>1, <3>1, <3>3, <3>4, <4>1, ReleasedType
    <3> QED
      BY <1>5, <3>5, BudgetType DEF PrunePort, TypeOK, PassType, Sockets
  <2> QED
    BY <2>1, <2>2
<1>6. CASE WriteStatus
  <2>1. Result \in StatusType
    BY <1>1 DEF Result, StatusType
  <2>2. CASE pass.stale
    BY <1>6, <2>2, ForgetType DEF WriteStatus, TypeOK, PassType
  <2>3. CASE ~pass.stale
    BY <1>6, <2>1, <2>3, InitialTypes DEF WriteStatus, TypeOK, PassType
  <2> QED
    BY <2>2, <2>3
<1> QED
  BY <1>2, <1>3, <1>4, <1>5, <1>6

\* The steps of a deletion keep the types.
LEMMA DeletionTypes ==
    ASSUME TypeOK, \/ ReleaseRecorded \/ ListLeaks \/ ReleaseLeaked
                   \/ DeleteInvite \/ RemoveFinalizer \/ Crash
    PROVE  TypeOK'
<1>1. pass \in PassType /\ pass.todo \subseteq Key
  BY DEF TypeOK, PassType
<1>2. CASE ReleaseRecorded
  <2>1. CASE pass.todo = {}
    <3>1. pass' \in PassType
      BY <1>1, <1>2, <2>1 DEF ReleaseRecorded, PassType, Steps
    <3> QED
      BY <1>2, <2>1, <3>1 DEF ReleaseRecorded, TypeOK, PassType
  <2>2. CASE pass.todo # {}
    <3>1. PICK k \in pass.todo :
            ReleaseOf(SocketOf(k, pass.orig.allocs[k]), [pass EXCEPT !.todo = @ \ {k}])
      BY <1>2, <2>2 DEF ReleaseRecorded
    <3>2. [pass EXCEPT !.todo = @ \ {k}] \in PassType
      BY <1>1 DEF PassType
    <3> QED
      BY <1>2, <3>1, <3>2, ReleaseOfType DEF ReleaseRecorded, TypeOK, PassType, Sockets
  <2> QED
    BY <2>1, <2>2
<1>3. CASE ListLeaks
  <2>1. PICK d \in Latencies :
          \/ /\ pass' = Later([pass EXCEPT !.at = "sweep",
                                           !.sockets = Leaked(pass.orig.allocs)], d)
             /\ NoFault
             /\ UNCHANGED blind
          \/ /\ pass' = Later([pass EXCEPT !.at = "delInvite", !.unlisted = TRUE], d)
             /\ blind' = TRUE
             /\ Fault
    BY <1>3 DEF ListLeaks
  <2>2. Leaked(pass.orig.allocs) \subseteq Sockets
    BY DEF Leaked, OurSockets, Sockets
  <2>3. /\ [pass EXCEPT !.at = "sweep", !.sockets = Leaked(pass.orig.allocs)] \in PassType
        /\ [pass EXCEPT !.at = "delInvite", !.unlisted = TRUE] \in PassType
    BY <1>1, <2>2 DEF PassType, Steps, Sockets
  <2>4. pass' \in PassType
    BY <2>1, <2>3, LaterType
  <2>5. blind' \in BOOLEAN /\ (NoFault \/ Fault)
    BY <2>1 DEF TypeOK
  <2> QED
    BY <1>3, <2>4, <2>5, BudgetType DEF ListLeaks, TypeOK, PassType
<1>4. CASE ReleaseLeaked
  <2>1. CASE pass.sockets = {}
    <3>1. pass' \in PassType
      BY <1>1, <1>4, <2>1 DEF ReleaseLeaked, PassType, Steps
    <3> QED
      BY <1>4, <2>1, <3>1 DEF ReleaseLeaked, TypeOK, PassType
  <2>2. CASE pass.sockets # {}
    <3>1. PICK s \in pass.sockets : ReleaseOf(s, [pass EXCEPT !.sockets = @ \ {s}])
      BY <1>4, <2>2 DEF ReleaseLeaked
    <3>2. [pass EXCEPT !.sockets = @ \ {s}] \in PassType
      BY <1>1 DEF PassType
    <3> QED
      BY <1>4, <3>1, <3>2, ReleaseOfType DEF ReleaseLeaked, TypeOK, PassType, Sockets
  <2> QED
    BY <2>1, <2>2
<1>5. CASE DeleteInvite
  <2>1. \/ pass' = [pass EXCEPT !.at = "unfinalize"] /\ UNCHANGED drift
        \/ Forget
    BY <1>5 DEF DeleteInvite
  <2>2. [pass EXCEPT !.at = "unfinalize"] \in PassType
    BY <1>1 DEF PassType, Steps
  <2>3. pass' \in PassType /\ drift' \in BOOLEAN
    BY <2>1, <2>2, ForgetType DEF TypeOK
  <2>4. NoFault \/ Fault
    BY <1>5 DEF DeleteInvite
  <2> QED
    BY <1>5, <2>3, <2>4, BudgetType DEF DeleteInvite, TypeOK, PassType
<1>6. CASE RemoveFinalizer
  BY <1>6, ForgetType DEF RemoveFinalizer, TypeOK, PassType
<1>7. CASE Crash
  BY <1>7, ForgetType, BudgetType DEF Crash, TypeOK, PassType
<1> QED
  BY <1>2, <1>3, <1>4, <1>5, <1>6, <1>7

\* What users and other tenants do keeps the types.
LEMMA OthersTypes ==
    ASSUME TypeOK, Others
    PROVE  TypeOK'
<1>1. /\ pass \in PassType
      /\ hub \in [Sockets -> Names \union {Free, Other}]
      /\ budget \in [edits : Nat, foreign : Nat, faults : Nat]
  BY DEF TypeOK, PassType, Sockets
<1>2. [pass EXCEPT !.stale = TRUE] \in PassType
  BY <1>1 DEF PassType
<1>3. TunnelTouched => pass' \in PassType
  BY <1>1, <1>2 DEF TunnelTouched
<1>4. CASE EditServices
  BY <1>4, BudgetType DEF EditServices, TypeOK
<1>5. CASE EditTunnel
  BY <1>3, <1>5, BudgetType DEF EditTunnel, TypeOK, PassType
<1>6. CASE DeleteTunnel
  BY <1>3, <1>6 DEF DeleteTunnel, TypeOK, PassType
<1>7. CASE TakeSocket
  <2>1. hub' \in [Sockets -> Names \union {Free, Other}]
    BY <1>1, <1>7 DEF TakeSocket
  <2>2. budget' \in [edits : Nat, foreign : Nat, faults : Nat]
    BY <1>1, <1>7 DEF TakeSocket
  <2> QED
    BY <1>7, <2>1, <2>2 DEF TakeSocket, TypeOK, Sockets
<1>8. CASE GiveUpSocket
  <2>1. hub' \in [Sockets -> Names \union {Free, Other}]
    BY <1>1, <1>8 DEF GiveUpSocket
  <2> QED
    BY <1>8, <2>1 DEF GiveUpSocket, TypeOK, Sockets
<1> QED
  BY <1>4, <1>5, <1>6, <1>7, <1>8 DEF Others

LEMMA NextTypeOK ==
    ASSUME TypeOK, [Next]_vars
    PROVE  TypeOK'
<1>1. CASE UNCHANGED vars
  BY <1>1 DEF vars, TypeOK
<1> QED
  BY <1>1, LivePassTypes, DeletionTypes, OthersTypes DEF Next, PassStep

(***************************************************************************)
(* What a step does to the sockets: a release takes nothing new, and what  *)
(* others do with free sockets leaves ours alone.                          *)
(***************************************************************************)

OnlyReleases == \A s \in Sockets : hub'[s] \in Names => hub'[s] = hub[s]
OursKept == \A s \in Sockets : hub[s] \in Names => hub'[s] = hub[s]

\* A release, answered or not, takes no socket and touches no other one.
LEMMA ReleaseEffect ==
    ASSUME TypeOK, NEW s \in Sockets, hub' \in {hub, Released(s)}
    PROVE  /\ OnlyReleases
           /\ \A t \in Sockets \ {s} : hub'[t] = hub[t]
           /\ hub' = Released(s) => hub'[s] \notin Names
<1>1. hub \in [Sockets -> Names \union {Free, Other}] /\ Free \notin Names
  BY OwnersAssumption DEF TypeOK, Sockets
<1> QED
  BY <1>1 DEF Released, OnlyReleases

\* Other tenants take free sockets and give theirs up.
LEMMA OthersEffect ==
    ASSUME TypeOK, TakeSocket \/ GiveUpSocket
    PROVE  OnlyReleases /\ OursKept
<1>1. hub \in [Sockets -> Names \union {Free, Other}] /\ {Free, Other} \intersect Names = {}
  BY OwnersAssumption DEF TypeOK, Sockets
<1> QED
  BY <1>1 DEF TakeSocket, GiveUpSocket, OnlyReleases, OursKept

LEMMA NothingTaken ==
    ASSUME OnlyReleases
    PROVE  /\ \A k \in Key : PortsHeld(k)' \subseteq PortsHeld(k)
           /\ OurSockets' \subseteq OurSockets
           /\ \A s \in Sockets : s \notin OurSockets => s \notin OurSockets'
<1>1. \A k \in Key, p \in Ports : k.name \in Names /\ SocketOf(k, p) \in Sockets
  BY SocketType DEF Key
<1>2. \A k \in Key : PortsHeld(k)' \subseteq PortsHeld(k)
  BY <1>1 DEF OnlyReleases, PortsHeld, SocketOf
<1> QED
  BY <1>2 DEF OnlyReleases, OurSockets, Sockets

\* A key that holds a port keeps it as long as ours are kept.
LEMMA HeldKept ==
    ASSUME OursKept, NEW k \in Key, NEW p \in Ports, hub[SocketOf(k, p)] = k.name
    PROVE  hub'[SocketOf(k, p)] = k.name
BY SocketType DEF OursKept, Key

\* A step that leaves the status alone keeps what the status lists held.
LEMMA RecordedKept ==
    ASSUME TypeOK, OursKept, UNCHANGED status, NEW k \in Recorded(status.allocs), Held(k)
    PROVE  Held(k)'
<1>1. k \in Key /\ status.allocs[k] \in Ports
  BY RecordedType DEF TypeOK, StatusType
<1> QED
  BY <1>1, HeldKept DEF Held, SocketOf

LEMMA NoPassIsIdle == /\ NoPass.at = "idle" /\ ~NoPass.pruned
                      /\ "idle" \notin LiveSteps \union DeletionSteps
                      /\ LiveSteps \intersect DeletionSteps = {}
BY DEF NoPass, LiveSteps, DeletionSteps

Unreleased == PassInv /\ KeepInv /\ HeldInv /\ OneInv

\* A pass that ends without writing: its memory is lost, and drift remembers
\* that it had released something.
LEMMA PassEnds ==
    ASSUME IInv, Forget, UNCHANGED <<status, blind>>, OnlyReleases,
           phase' \in {phase, "gone"}, phase' = "live" => hub' = hub
    PROVE  Unreleased' /\ ReleasedInv'
<1>1. pass'.at = "idle" /\ ~pass'.pruned /\ pass' = NoPass
  BY NoPassIsIdle DEF Forget
<1>2. PassInv' /\ KeepInv' /\ ReleasedInv'
  BY <1>1 DEF PassInv, KeepInv, ReleasedInv, LiveSteps, DeletionSteps
<1>3. HeldInv'
  <2>1. pass.at \in LiveSteps \/ phase = "live" \/ phase' # "live"
    OBVIOUS
  <2>2. ~drift' => ~drift /\ ~pass.pruned
    BY DEF Forget
  <2>3. ~drift' /\ phase' = "live" => \A k \in Recorded(status.allocs) : Held(k)
    BY <2>2 DEF IInv, HeldInv
  <2> QED
    BY <1>1, <2>3 DEF HeldInv, LiveSteps, Held
<1>4. OneInv'
  BY <1>1, NothingTaken DEF IInv, OneInv
<1> QED
  BY <1>2, <1>3, <1>4 DEF Unreleased

\* A deletion that goes on from one of its steps to the next.
LEMMA DeletionGoesOn ==
    ASSUME IInv, pass.at \in DeletionSteps, pass'.at \in DeletionSteps,
           pass'.orig = pass.orig, status.known,
           UNCHANGED <<phase, status>>, OnlyReleases, blind' \in {blind, TRUE}
    PROVE  Unreleased'
<1>1. pass'.at \notin LiveSteps /\ pass.at # "idle" /\ pass'.at # "idle"
  BY DEF LiveSteps, DeletionSteps
<1>2. phase = "deleting"
  BY DEF IInv, PassInv
<1>3. PassInv'
  BY <1>1, <1>2 DEF IInv, PassInv
<1>4. KeepInv' /\ HeldInv'
  BY <1>1, <1>2 DEF KeepInv, HeldInv, LiveSteps
<1>5. OneInv'
  BY <1>1, NothingTaken DEF IInv, OneInv, LiveSteps
<1> QED
  BY <1>3, <1>4, <1>5 DEF Unreleased

(***************************************************************************)
(* The steps of a deletion.                                                *)
(***************************************************************************)

\* Either the release is known to have succeeded, and its pass goes on, or the
\* pass is over.
LEMMA ReleaseOfEffect ==
    ASSUME TypeOK, NEW s \in Sockets, NEW p \in PassType, ReleaseOf(s, p)
    PROVE  /\ OnlyReleases
           /\ \/ Forget
              \/ /\ hub'[s] \notin Names
                 /\ \A f \in {"at", "orig", "todo", "sockets", "unlisted"} : pass'[f] = p[f]
<1>1. CASE /\ hub' = Released(s)
           /\ \E d \in Latencies : pass' = Later(p, d)
  <2>1. PICK d \in Latencies : pass' = Later(p, d)
    BY <1>1
  <2>2. \A f \in {"at", "orig", "todo", "sockets", "unlisted"} : pass'[f] = p[f]
    BY <2>1 DEF Later, PassType
  <2> QED
    BY <1>1, <2>2, ReleaseEffect
<1>2. CASE hub' \in {hub, Released(s)} /\ Forget
  BY <1>2, ReleaseEffect
<1> QED
  BY <1>1, <1>2 DEF ReleaseOf

LEMMA ReleaseRecordedStep ==
    ASSUME IInv, ReleaseRecorded
    PROVE  Unreleased' /\ ReleasedInv'
<1>1. /\ pass.at = "release" /\ pass \in PassType /\ phase = "deleting"
      /\ status.known /\ pass.orig = status /\ status.allocs \in [Key -> MaybePort]
      /\ UNCHANGED <<phase, status, services, blind>>
  BY TypeOKIsPassType DEF IInv, PassInv, DeletionSteps, ReleaseRecorded, TypeOK, StatusType
<1>2. CASE pass.todo = {}
  <2>1. pass' = [pass EXCEPT !.at = "leaks"] /\ hub' = hub
    BY <1>2 DEF ReleaseRecorded
  <2>2. pass'.at = "leaks" /\ pass'.orig = pass.orig
    BY <1>1, <2>1 DEF PassType
  <2>3. Unreleased'
    BY <1>1, <2>1, <2>2, DeletionGoesOn DEF DeletionSteps, OnlyReleases
  <2>4. \A k \in Recorded(status.allocs) : RecordedSocket(k) \notin OurSockets
    BY <1>1, <1>2 DEF IInv, ReleasedInv
  <2>5. ReleasedInv'
    BY <1>1, <2>1, <2>2, <2>4 DEF ReleasedInv, OurSockets, RecordedSocket, SocketOf
  <2> QED
    BY <2>3, <2>5
<1>3. CASE pass.todo # {}
  <2>1. PICK k \in pass.todo :
          ReleaseOf(SocketOf(k, pass.orig.allocs[k]), [pass EXCEPT !.todo = @ \ {k}])
    BY <1>3 DEF ReleaseRecorded
  <2> DEFINE p == [pass EXCEPT !.todo = @ \ {k}]
             s == RecordedSocket(k)
  <2>2. pass.todo \subseteq Recorded(status.allocs)
    BY <1>1 DEF IInv, ReleasedInv
  <2>3. s \in Sockets /\ \A j \in Recorded(status.allocs) : RecordedSocket(j) \in Sockets
    BY <1>1, <2>2, RecordedType DEF RecordedSocket
  <2>4. /\ p \in PassType /\ p.at = "release" /\ p.orig = pass.orig
        /\ p.todo = pass.todo \ {k}
    BY <1>1 DEF PassType
  <2>5. ReleaseOf(s, p)
    BY <1>1, <2>1 DEF RecordedSocket
  <2> HIDE DEF p, s
  <2>6. OnlyReleases /\ (Forget \/ /\ hub'[s] \notin Names
                                   /\ pass'.at = "release" /\ pass'.orig = pass.orig
                                   /\ pass'.todo = pass.todo \ {k})
    BY <2>3, <2>4, <2>5, ReleaseOfEffect DEF IInv
  <2>7. CASE Forget
    BY <1>1, <2>6, <2>7, PassEnds
  <2>8. CASE /\ hub'[s] \notin Names
             /\ pass'.at = "release" /\ pass'.orig = pass.orig
             /\ pass'.todo = pass.todo \ {k}
    <3>1. Unreleased'
      BY <1>1, <2>6, <2>8, DeletionGoesOn DEF DeletionSteps
    <3>2. RecordedSocket(k) \notin OurSockets'
      BY <2>8 DEF OurSockets, s
    <3>3. \A j \in Recorded(status.allocs) \ pass'.todo : RecordedSocket(j) \notin OurSockets'
      BY <1>1, <2>3, <2>6, <2>8, <3>2, NothingTaken DEF IInv, ReleasedInv
    <3>4. \A j \in Recorded(status.allocs) : RecordedSocket(j)' = RecordedSocket(j)
      BY <1>1 DEF RecordedSocket, SocketOf
    <3>5. ReleasedInv'
      BY <1>1, <2>2, <2>8, <3>3, <3>4 DEF ReleasedInv
    <3> QED
      BY <3>1, <3>5
  <2> QED
    BY <2>6, <2>7, <2>8
<1> QED
  BY <1>2, <1>3

LEMMA ListLeaksStep ==
    ASSUME IInv, ListLeaks
    PROVE  Unreleased' /\ ReleasedInv'
<1>1. /\ pass.at = "leaks" /\ pass \in PassType /\ phase = "deleting"
      /\ status.known /\ pass.orig = status
      /\ UNCHANGED <<phase, status, services, hub>>
  BY TypeOKIsPassType DEF IInv, PassInv, DeletionSteps, ListLeaks
<1>2. \/ pass'.at = "sweep" /\ pass'.sockets = Leaked(status.allocs) /\ UNCHANGED blind
      \/ pass'.at = "delInvite" /\ pass'.unlisted /\ blind' = TRUE
  BY <1>1 DEF ListLeaks, Later, PassType
<1>3. pass'.orig = pass.orig
  BY <1>1 DEF ListLeaks, Later, PassType
<1>4. Unreleased'
  BY <1>1, <1>2, <1>3, DeletionGoesOn DEF DeletionSteps, OnlyReleases
<1>5. Leaked(status.allocs) = OurSockets
  BY <1>1 DEF IInv, ReleasedInv, Leaked, RecordedSocket
<1>6. ReleasedInv'
  BY <1>1, <1>2, <1>5 DEF ReleasedInv, OurSockets
<1> QED
  BY <1>4, <1>6

LEMMA ReleaseLeakedStep ==
    ASSUME IInv, ReleaseLeaked
    PROVE  Unreleased' /\ ReleasedInv'
<1>1. /\ pass.at = "sweep" /\ pass \in PassType /\ phase = "deleting"
      /\ status.known /\ OurSockets \subseteq pass.sockets
      /\ UNCHANGED <<phase, status, services, blind>>
  BY TypeOKIsPassType DEF IInv, PassInv, DeletionSteps, ReleaseLeaked, ReleasedInv
<1>2. CASE pass.sockets = {}
  <2>1. pass' = [pass EXCEPT !.at = "delInvite"] /\ hub' = hub
    BY <1>2 DEF ReleaseLeaked
  <2>2. pass'.at = "delInvite" /\ pass'.orig = pass.orig
    BY <1>1, <2>1 DEF PassType
  <2>3. Unreleased'
    BY <1>1, <2>1, <2>2, DeletionGoesOn DEF DeletionSteps, OnlyReleases
  <2>4. OurSockets' = {}
    BY <1>1, <1>2, <2>1 DEF OurSockets
  <2>5. ReleasedInv'
    BY <2>2, <2>4 DEF ReleasedInv
  <2> QED
    BY <2>3, <2>5
<1>3. CASE pass.sockets # {}
  <2>1. PICK s \in pass.sockets : ReleaseOf(s, [pass EXCEPT !.sockets = @ \ {s}])
    BY <1>3 DEF ReleaseLeaked
  <2> DEFINE p == [pass EXCEPT !.sockets = @ \ {s}]
  <2>2. /\ s \in Sockets /\ p \in PassType /\ p.at = "sweep" /\ p.orig = pass.orig
        /\ p.sockets = pass.sockets \ {s}
    BY <1>1 DEF PassType, Sockets
  <2> HIDE DEF p
  <2>3. OnlyReleases /\ (Forget \/ /\ hub'[s] \notin Names
                                   /\ pass'.at = "sweep" /\ pass'.orig = pass.orig
                                   /\ pass'.sockets = pass.sockets \ {s})
    BY <2>1, <2>2, ReleaseOfEffect DEF IInv, p
  <2>4. CASE Forget
    BY <1>1, <2>3, <2>4, PassEnds
  <2>5. CASE /\ hub'[s] \notin Names
             /\ pass'.at = "sweep" /\ pass'.orig = pass.orig
             /\ pass'.sockets = pass.sockets \ {s}
    <3>1. Unreleased'
      BY <1>1, <2>3, <2>5, DeletionGoesOn DEF DeletionSteps
    <3>2. s \notin OurSockets'
      BY <2>5 DEF OurSockets
    <3>3. ReleasedInv'
      BY <1>1, <2>3, <2>5, <3>2, NothingTaken DEF ReleasedInv
    <3> QED
      BY <3>1, <3>3
  <2> QED
    BY <2>3, <2>4, <2>5
<1> QED
  BY <1>2, <1>3

LEMMA DeleteInviteStep ==
    ASSUME IInv, DeleteInvite
    PROVE  Unreleased' /\ ReleasedInv'
<1>1. /\ pass.at = "delInvite" /\ pass \in PassType /\ phase = "deleting" /\ status.known
      /\ UNCHANGED <<phase, status, services, hub, blind>>
  BY TypeOKIsPassType DEF IInv, PassInv, DeletionSteps, DeleteInvite
<1>2. OnlyReleases
  BY <1>1 DEF OnlyReleases
<1>3. CASE Forget
  BY <1>1, <1>2, <1>3, PassEnds
<1>4. CASE pass' = [pass EXCEPT !.at = "unfinalize"]
  <2>1. /\ pass'.at = "unfinalize" /\ pass'.orig = pass.orig
        /\ pass'.unlisted = pass.unlisted
    BY <1>1, <1>4 DEF PassType
  <2>2. Unreleased'
    BY <1>1, <1>2, <2>1, DeletionGoesOn DEF DeletionSteps
  <2>3. ReleasedInv'
    BY <1>1, <2>1 DEF IInv, ReleasedInv, OurSockets
  <2> QED
    BY <2>2, <2>3
<1> QED
  BY <1>3, <1>4 DEF DeleteInvite

LEMMA RemoveFinalizerStep ==
    ASSUME IInv, RemoveFinalizer
    PROVE  Unreleased' /\ ReleasedInv'
<1>1. phase = "deleting" /\ phase' \in {phase, "gone"}
  BY DEF IInv, PassInv, DeletionSteps, RemoveFinalizer
<1> QED
  BY <1>1, PassEnds DEF RemoveFinalizer, OnlyReleases

LEMMA CrashStep ==
    ASSUME IInv, Crash
    PROVE  Unreleased' /\ ReleasedInv'
BY PassEnds DEF Crash, OnlyReleases

(***************************************************************************)
(* The steps of a pass of a live tunnel.                                   *)
(***************************************************************************)

\* In a live step nothing has been released for a deletion.
LEMMA LiveReleasesNothing ==
    ASSUME pass.at \in LiveSteps \union {"idle"}
    PROVE  ReleasedInv
BY DEF LiveSteps, ReleasedInv

LEMMA StartPassStep ==
    ASSUME IInv, StartPass
    PROVE  Unreleased' /\ ReleasedInv'
<1>1. /\ pass.at = "idle" /\ pass = NoPass /\ phase \in {"live", "deleting"}
      /\ status.allocs \in [Key -> MaybePort]
      /\ UNCHANGED <<phase, status, services, hub, budget, drift, blind>>
  BY DEF IInv, PassInv, StartPass, TypeOK, StatusType
<1>2. /\ pass'.orig = status /\ pass'.wants = services /\ ~pass'.pruned /\ ~pass.pruned
  BY <1>1, PassStarted, NoPassIsIdle DEF IInv
<1>3. phase = "live" /\ ~drift => \A k \in Recorded(status.allocs) : Held(k)
  BY <1>1, <1>2 DEF IInv, HeldInv
<1>4. CASE phase = "live"
  <2>1. /\ pass'.at \in {"prune", "list"}
        /\ pass'.allocs = [k \in Key |-> IF /\ k \in Requested(services)
                                            /\ status.allocs[k] # NoPort
                                         THEN status.allocs[k] ELSE NoPort]
        /\ pass'.at = "list" => pass'.todo = Missing(services, status.allocs)
        /\ pass'.at = "prune" => pass'.todo = Recorded(status.allocs) \ Requested(services)
    BY <1>4, PassStarted DEF IInv
  <2>2. PassInv'
    BY <1>1, <1>2, <1>4, <2>1 DEF PassInv, LiveSteps, DeletionSteps
  <2>3. KeepInv'
    <3>1. \A k \in Recorded(status.allocs) : pass'.allocs[k] \in {NoPort, status.allocs[k]}
      BY <1>1, <2>1 DEF Recorded
    <3>2. pass'.at = "list" =>
            /\ \A k \in pass'.todo : status.allocs[k] = NoPort
            /\ pass'.todo \subseteq Requested(services)
            /\ \A k \in Key : pass'.allocs[k] # NoPort => k \in Requested(services)
      BY <2>1 DEF Missing
    <3>3. pass'.at = "prune" =>
            /\ pass'.todo \subseteq Recorded(status.allocs)
            /\ \A k \in pass'.todo : pass'.allocs[k] = NoPort
      BY <2>1 DEF Recorded
    <3> QED
      BY <1>1, <1>2, <2>1, <3>1, <3>2, <3>3 DEF KeepInv
  <2>4. HeldInv'
    <3>1. Recorded(pass'.allocs) \subseteq Recorded(status.allocs)
      BY <2>1 DEF Recorded
    <3>2. \A k \in Recorded(pass'.allocs) : pass'.allocs[k] = status.allocs[k]
      BY <2>1 DEF Recorded
    <3>3. pass'.at = "prune" => pass'.todo \subseteq Recorded(status.allocs)
      BY <2>1
    <3>4. \A k \in Recorded(status.allocs) : Held(k)' <=> Held(k)
      BY <1>1 DEF Held, SocketOf
    <3> QED
      BY <1>1, <1>3, <1>4, <3>1, <3>2, <3>3, <3>4 DEF HeldInv, Held, SocketOf
  <2>5. OneInv'
    BY <1>1, <2>1 DEF IInv, OneInv, PortsHeld, SocketOf
  <2>6. ReleasedInv'
    BY <2>1 DEF ReleasedInv
  <2> QED
    BY <2>2, <2>3, <2>4, <2>5, <2>6 DEF Unreleased
<1>5. CASE phase = "deleting"
  <2>1. /\ pass'.at = IF status.known THEN "release" ELSE "unfinalize"
        /\ pass'.todo = Recorded(status.allocs)
    BY <1>5, PassStarted DEF IInv
  <2>2. PassInv'
    BY <1>1, <1>2, <1>5, <2>1 DEF PassInv, LiveSteps, DeletionSteps
  <2>3. KeepInv' /\ HeldInv'
    BY <1>1, <1>5, <2>1 DEF KeepInv, HeldInv, LiveSteps
  <2>4. OneInv'
    BY <1>1, <2>1 DEF IInv, OneInv, PortsHeld, SocketOf
  <2>5. ReleasedInv'
    BY <1>1, <2>1 DEF ReleasedInv
  <2> QED
    BY <2>2, <2>3, <2>4, <2>5 DEF Unreleased
<1> QED
  BY <1>1, <1>4, <1>5

LEMMA ListPortsStep ==
    ASSUME IInv, ListPorts
    PROVE  Unreleased' /\ ReleasedInv'
<1>1. /\ pass.at = "list" /\ pass \in PassType /\ pass.orig = status
      /\ status.allocs \in [Key -> MaybePort] /\ pass.todo \subseteq Key
      /\ UNCHANGED <<phase, status, services, hub, drift>>
  BY TypeOKIsPassType DEF IInv, PassInv, ListPorts, TypeOK, StatusType
<1>2. /\ pass'.at = "reserve" /\ pass'.orig = pass.orig /\ pass'.wants = pass.wants
      /\ pass'.pruned = pass.pruned /\ pass'.stale = pass.stale
      /\ pass'.todo \subseteq pass.todo
  <2>1. \/ \E allocs, missing : /\ missing \subseteq pass.todo
                                /\ pass' = [pass EXCEPT !.at = "reserve", !.allocs = allocs,
                                                        !.todo = missing]
        \/ pass' = [pass EXCEPT !.at = "reserve"]
    BY DEF ListPorts
  <2> QED
    BY <1>1, <2>1 DEF PassType
<1>3. \/ /\ \A k \in Key : IF k \in pass.todo /\ PortsHeld(k) # {}
                           THEN pass'.allocs[k] \in PortsHeld(k)
                           ELSE pass'.allocs[k] \in {NoPort, pass.allocs[k]}
         /\ \A k \in pass'.todo : PortsHeld(k) = {}
         /\ UNCHANGED blind
      \/ pass'.allocs = pass.allocs /\ blind' = TRUE
  <2>1. ASSUME NEW found \in [pass.todo -> MaybePort],
               \A k \in pass.todo : IF Adoptable(k) = {} THEN found[k] = NoPort
                                    ELSE found[k] \in Adoptable(k),
               pass' = [pass EXCEPT
                         !.at = "reserve",
                         !.allocs = [k \in Key |-> IF k \in pass.todo THEN found[k]
                                                   ELSE pass.allocs[k]],
                         !.todo = {k \in pass.todo : found[k] = NoPort}]
        PROVE  /\ \A k \in Key : IF k \in pass.todo /\ PortsHeld(k) # {}
                                 THEN pass'.allocs[k] \in PortsHeld(k)
                                 ELSE pass'.allocs[k] \in {NoPort, pass.allocs[k]}
               /\ \A k \in pass'.todo : PortsHeld(k) = {}
    <3>1. /\ pass'.allocs = [k \in Key |-> IF k \in pass.todo THEN found[k]
                                           ELSE pass.allocs[k]]
          /\ pass'.todo = {k \in pass.todo : found[k] = NoPort}
      BY <1>1, <2>1 DEF PassType
    <3>2. \A k \in Key : NoPort \notin PortsHeld(k)
      BY PortsAssumption DEF PortsHeld
    <3> QED
      BY <1>1, <2>1, <3>1, <3>2 DEF Adoptable
  <2>2. CASE pass' = [pass EXCEPT !.at = "reserve"] /\ blind' = TRUE
    BY <1>1, <2>2 DEF PassType
  <2> QED
    BY <1>1, <2>1, <2>2 DEF ListPorts
<1>4. PassInv'
  BY <1>1, <1>2 DEF IInv, PassInv, LiveSteps, DeletionSteps
<1>5. KeepInv'
  <2>1. /\ \A k \in Recorded(status.allocs) : pass.allocs[k] \in {NoPort, status.allocs[k]}
        /\ \A k \in pass.todo : status.allocs[k] = NoPort
        /\ pass.todo \subseteq Requested(pass.wants)
        /\ \A k \in Key : pass.allocs[k] # NoPort => k \in Requested(pass.wants)
        /\ ~pass.pruned
    BY <1>1 DEF IInv, KeepInv, LiveSteps
  <2>2. \A k \in Key : \/ k \in pass.todo
                       \/ pass'.allocs[k] \in {NoPort, pass.allocs[k]}
    BY <1>3
  <2>3. \A k \in Recorded(status.allocs) : pass'.allocs[k] \in {NoPort, status.allocs[k]}
    BY <2>1, <2>2 DEF Recorded
  <2>4. \A k \in Key : pass'.allocs[k] # NoPort => k \in Requested(pass.wants)
    BY <2>1, <2>2
  <2> QED
    BY <1>1, <1>2, <2>1, <2>3, <2>4 DEF KeepInv
<1>6. HeldInv'
  <2>1. \A k \in Key : \A p \in PortsHeld(k) : hub[SocketOf(k, p)] = k.name
    BY DEF PortsHeld
  <2>2. ~drift => \A k \in Recorded(pass.allocs) : hub[SocketOf(k, pass.allocs[k])] = k.name
    BY <1>1 DEF IInv, HeldInv, LiveSteps
  <2>3. ~drift => \A k \in Recorded(pass'.allocs) : hub[SocketOf(k, pass'.allocs[k])] = k.name
    BY <1>3, <2>1, <2>2 DEF Recorded
  <2>4. ~drift /\ ~pass.pruned => \A k \in Recorded(status.allocs) : Held(k)
    BY <1>1 DEF IInv, HeldInv, LiveSteps
  <2> QED
    BY <1>1, <1>2, <2>3, <2>4 DEF HeldInv, Held, SocketOf
<1>7. OneInv'
  BY <1>1, <1>2, <1>3 DEF IInv, OneInv, PortsHeld, SocketOf
<1>8. ReleasedInv'
  BY <1>2 DEF ReleasedInv
<1> QED
  BY <1>4, <1>5, <1>6, <1>7, <1>8 DEF Unreleased

\* A reservation takes a free socket.
LEMMA ReservationEffect ==
    ASSUME TypeOK, NEW k \in Key, NEW p \in FreePorts(k),
           hub' = [hub EXCEPT ![SocketOf(k, p)] = k.name]
    PROVE  /\ OursKept
           /\ PortsHeld(k)' = PortsHeld(k) \union {p}
           /\ \A j \in Key \ {k} : PortsHeld(j)' = PortsHeld(j)
           /\ hub'[SocketOf(k, p)] = k.name
<1>1. p \in Ports /\ hub[SocketOf(k, p)] = Free /\ SocketOf(k, p) \in Sockets
  BY SocketType DEF FreePorts
<1>2. hub \in [Sockets -> Names \union {Free, Other}] /\ Free \notin Names
  BY OwnersAssumption DEF TypeOK, Sockets
<1>3. \A s \in Sockets : hub'[s] = IF s = SocketOf(k, p) THEN k.name ELSE hub[s]
  BY <1>1, <1>2
<1>4. OursKept
  BY <1>1, <1>2, <1>3 DEF OursKept
<1>5. \A j \in Key, q \in Ports :
        hub'[SocketOf(j, q)] = IF j.protocol = k.protocol /\ q = p THEN k.name
                               ELSE hub[SocketOf(j, q)]
  <2>1. \A j \in Key, q \in Ports :
          SocketOf(j, q) = SocketOf(k, p) <=> j.protocol = k.protocol /\ q = p
    BY DEF SocketOf
  <2> QED
    BY <1>3, <2>1, SocketType
<1>6. \A j \in Key : PortsHeld(j)' = {q \in Ports : hub'[SocketOf(j, q)] = j.name}
  BY DEF PortsHeld, SocketOf
<1>7. PortsHeld(k)' = PortsHeld(k) \union {p}
  BY <1>1, <1>5, <1>6 DEF PortsHeld
<1>8. ASSUME NEW j \in Key \ {k}
      PROVE  PortsHeld(j)' = PortsHeld(j)
  <2>1. j.name \in Names /\ (j.protocol = k.protocol => j.name # k.name)
    BY DEF Key
  <2>2. \A q \in Ports : hub'[SocketOf(j, q)] = j.name <=> hub[SocketOf(j, q)] = j.name
    BY <1>1, <1>2, <1>5, <2>1 DEF SocketOf
  <2> QED
    BY <1>6, <2>2 DEF PortsHeld
<1> QED
  BY <1>1, <1>3, <1>4, <1>7, <1>8

LEMMA ReservePortStep ==
    ASSUME IInv, ReservePort
    PROVE  Unreleased' /\ ReleasedInv'
<1>1. /\ pass.at = "reserve" /\ pass \in PassType /\ pass.orig = status
      /\ status.allocs \in [Key -> MaybePort] /\ pass.allocs \in [Key -> MaybePort]
      /\ pass.todo \subseteq Key
      /\ UNCHANGED <<phase, status, services, drift, blind>>
  BY TypeOKIsPassType DEF IInv, PassInv, ReservePort, TypeOK, StatusType
<1>2. /\ \A k \in Recorded(status.allocs) : pass.allocs[k] \in {NoPort, status.allocs[k]}
      /\ \A k \in pass.todo : status.allocs[k] = NoPort
      /\ pass.todo \subseteq Requested(pass.wants)
      /\ \A k \in Key : pass.allocs[k] # NoPort => k \in Requested(pass.wants)
      /\ ~pass.pruned
  BY <1>1 DEF IInv, KeepInv, LiveSteps
<1>3. /\ ~drift /\ ~pass.pruned => \A k \in Recorded(status.allocs) : Held(k)
      /\ ~drift => \A k \in Recorded(pass.allocs) : hub[SocketOf(k, pass.allocs[k])] = k.name
  BY <1>1 DEF IInv, HeldInv, LiveSteps
<1>4. CASE pass.todo = {}
  <2>1. /\ pass' = [pass EXCEPT !.at = "prune",
                     !.todo = Recorded(pass.orig.allocs) \ Requested(pass.wants)]
        /\ hub' = hub
    BY <1>4 DEF ReservePort
  <2>2. /\ pass'.at = "prune" /\ pass'.orig = pass.orig /\ pass'.allocs = pass.allocs
        /\ pass'.todo = Recorded(status.allocs) \ Requested(pass.wants)
        /\ pass'.pruned = pass.pruned /\ pass'.stale = pass.stale
    BY <1>1, <2>1 DEF PassType
  <2>3. PassInv'
    BY <1>1, <2>2 DEF IInv, PassInv, LiveSteps, DeletionSteps
  <2>4. \A k \in pass'.todo : k \in Key /\ pass'.allocs[k] = NoPort
    BY <1>2, <2>2 DEF Recorded
  <2>5. KeepInv'
    BY <1>1, <1>2, <2>2, <2>4 DEF KeepInv
  <2>6. HeldInv'
    BY <1>1, <1>2, <1>3, <2>1, <2>2 DEF HeldInv, Held, SocketOf
  <2>7. OneInv'
    BY <1>1, <2>1, <2>2 DEF IInv, OneInv, PortsHeld, SocketOf
  <2>8. ReleasedInv'
    BY <2>2 DEF ReleasedInv
  <2> QED
    BY <2>3, <2>5, <2>6, <2>7, <2>8 DEF Unreleased
<1>5. CASE pass.todo # {}
  <2>1. PICK k \in pass.todo :
          LET handled == [pass EXCEPT !.todo = @ \ {k}]
          IN  \/ \E p \in FreePorts(k) :
                   /\ hub' = [hub EXCEPT ![SocketOf(k, p)] = k.name]
                   /\ \/ pass' = [handled EXCEPT !.allocs[k] = p] /\ NoFault
                      \/ pass' = [handled EXCEPT !.failed = TRUE] /\ Fault
              \/ /\ pass' = [handled EXCEPT !.failed = TRUE]
                 /\ NoFault \/ Fault
                 /\ UNCHANGED hub
    BY <1>5, Zenon DEF ReservePort
  <2>2. /\ k \in Key /\ pass'.at = "reserve" /\ pass'.todo = pass.todo \ {k}
        /\ pass'.orig = pass.orig /\ pass'.wants = pass.wants
        /\ pass'.pruned = pass.pruned /\ pass'.stale = pass.stale
    BY <1>1, <2>1 DEF PassType
  <2>3. \/ /\ pass'.allocs = pass.allocs /\ hub' = hub
        \/ \E p \in FreePorts(k) :
             /\ hub' = [hub EXCEPT ![SocketOf(k, p)] = k.name]
             /\ pass'.allocs \in {pass.allocs, [pass.allocs EXCEPT ![k] = p]}
    BY <1>1, <2>1 DEF PassType
  <2>4. OursKept
    BY <2>2, <2>3, ReservationEffect DEF IInv, OursKept
  <2>5. \A j \in Key : pass'.allocs[j] # pass.allocs[j] =>
          /\ j = k
          /\ pass'.allocs[j] \in Ports
          /\ hub'[SocketOf(j, pass'.allocs[j])] = j.name
    <3>1. ASSUME NEW p \in FreePorts(k),
                 hub' = [hub EXCEPT ![SocketOf(k, p)] = k.name],
                 pass'.allocs = [pass.allocs EXCEPT ![k] = p],
                 NEW j \in Key, pass'.allocs[j] # pass.allocs[j]
          PROVE  j = k /\ pass'.allocs[j] = p
      BY <1>1, <3>1
    <3>2. FreePorts(k) \subseteq Ports
      BY DEF FreePorts
    <3> QED
      BY <2>2, <2>3, <3>1, <3>2, ReservationEffect DEF IInv
  <2>6. PassInv'
    BY <1>1, <2>2 DEF IInv, PassInv, LiveSteps, DeletionSteps
  <2>7. KeepInv'
    <3>1. \A j \in Recorded(status.allocs) : pass'.allocs[j] = pass.allocs[j]
      BY <1>2, <2>5 DEF Recorded
    <3>2. \A j \in Key : pass'.allocs[j] # NoPort => j \in Requested(pass.wants)
      BY <1>2, <2>5
    <3> QED
      BY <1>1, <1>2, <2>2, <3>1, <3>2 DEF KeepInv
  <2>8. HeldInv'
    <3>1. ~drift => \A j \in Recorded(status.allocs) : Held(j)'
      BY <1>1, <1>2, <1>3, <2>4, RecordedKept DEF IInv
    <3>2. ~drift => \A j \in Recorded(pass'.allocs) : hub'[SocketOf(j, pass'.allocs[j])] = j.name
      <4> SUFFICES ASSUME ~drift, NEW j \in Key, pass'.allocs[j] # NoPort
                   PROVE  hub'[SocketOf(j, pass'.allocs[j])] = j.name
        BY DEF Recorded
      <4>1. CASE pass'.allocs[j] # pass.allocs[j]
        BY <2>5, <4>1
      <4>2. CASE pass'.allocs[j] = pass.allocs[j]
        <5>1. j \in Recorded(pass.allocs) /\ pass.allocs[j] \in Ports
          BY <1>1, <4>2 DEF Recorded, MaybePort
        <5> QED
          BY <1>3, <2>4, <4>2, <5>1, HeldKept
      <4> QED
        BY <4>1, <4>2
    <3> QED
      BY <1>1, <2>2, <3>1, <3>2 DEF HeldInv, Held, SocketOf
  <2>9. OneInv'
    <3> SUFFICES ASSUME ~blind
                 PROVE  /\ \A j \in Key : \A p, q \in PortsHeld(j)' : p = q
                        /\ \A j \in pass'.todo : PortsHeld(j)' = {}
      BY <1>1 DEF OneInv
    <3>1. /\ \A j \in Key : \A p, q \in PortsHeld(j) : p = q
          /\ \A j \in pass.todo : PortsHeld(j) = {}
      BY <1>1 DEF IInv, OneInv
    <3>2. \A j \in Key \ {k} : PortsHeld(j)' = PortsHeld(j)
      BY <2>2, <2>3, ReservationEffect DEF IInv, PortsHeld, SocketOf
    <3>3. \A p, q \in PortsHeld(k)' : p = q
      <4>1. CASE hub' = hub
        <5>1. PortsHeld(k)' = PortsHeld(k)
          BY <4>1 DEF PortsHeld, SocketOf
        <5> QED
          BY <2>2, <3>1, <5>1
      <4>2. ASSUME NEW p \in FreePorts(k), hub' = [hub EXCEPT ![SocketOf(k, p)] = k.name]
            PROVE  PortsHeld(k)' = {p}
        <5>1. PortsHeld(k)' = PortsHeld(k) \union {p}
          BY <2>2, <4>2, ReservationEffect DEF IInv
        <5>2. PortsHeld(k) = {}
          BY <3>1
        <5> QED
          BY <5>1, <5>2
      <4>3. CASE hub' # hub
        <5>1. PICK p \in FreePorts(k) : hub' = [hub EXCEPT ![SocketOf(k, p)] = k.name]
          BY <2>3, <4>3
        <5>2. PortsHeld(k)' = {p}
          BY <4>2, <5>1
        <5> QED
          BY <5>2
      <4> QED
        BY <4>1, <4>3
    <3> QED
      BY <1>1, <2>2, <3>1, <3>2, <3>3
  <2>10. ReleasedInv'
    BY <2>2 DEF ReleasedInv
  <2> QED
    BY <2>6, <2>7, <2>8, <2>9, <2>10 DEF Unreleased
<1> QED
  BY <1>4, <1>5

LEMMA PrunePortStep ==
    ASSUME IInv, PrunePort
    PROVE  Unreleased' /\ ReleasedInv'
<1>1. /\ pass.at = "prune" /\ pass \in PassType /\ pass.orig = status
      /\ status.allocs \in [Key -> MaybePort] /\ pass.allocs \in [Key -> MaybePort]
      /\ UNCHANGED <<phase, status, services, blind>>
  BY TypeOKIsPassType DEF IInv, PassInv, PrunePort, TypeOK, StatusType
<1>2. /\ \A k \in Recorded(status.allocs) : pass.allocs[k] \in {NoPort, status.allocs[k]}
      /\ pass.todo \subseteq Recorded(status.allocs)
      /\ \A k \in pass.todo : pass.allocs[k] = NoPort
  BY <1>1 DEF IInv, KeepInv, LiveSteps
<1>3. ~drift =>
        /\ ~pass.pruned => \A k \in Recorded(status.allocs) : Held(k)
        /\ \A k \in Recorded(pass.allocs) : hub[SocketOf(k, pass.allocs[k])] = k.name
        /\ \A k \in pass.todo : Held(k)
  BY <1>1 DEF IInv, HeldInv, LiveSteps
<1>4. CASE pass.todo = {}
  <2>1. pass' = [pass EXCEPT !.at = "write"] /\ hub' = hub /\ drift' = drift
    BY <1>4 DEF PrunePort
  <2>2. /\ pass'.at = "write" /\ pass'.orig = pass.orig /\ pass'.allocs = pass.allocs
        /\ pass'.pruned = pass.pruned /\ pass'.stale = pass.stale
    BY <1>1, <2>1 DEF PassType
  <2>3. PassInv'
    BY <1>1, <2>2 DEF IInv, PassInv, LiveSteps, DeletionSteps
  <2>4. KeepInv'
    BY <1>1, <1>2, <2>2 DEF KeepInv
  <2>5. HeldInv'
    BY <1>1, <1>3, <2>1, <2>2 DEF HeldInv, Held, SocketOf
  <2>6. OneInv'
    BY <1>1, <2>1, <2>2 DEF IInv, OneInv, PortsHeld, SocketOf
  <2>7. ReleasedInv'
    BY <2>2 DEF ReleasedInv
  <2> QED
    BY <2>3, <2>4, <2>5, <2>6, <2>7 DEF Unreleased
<1>5. CASE pass.todo # {}
  <2>1. PICK k \in pass.todo :
          LET port == pass.orig.allocs[k]
              handled == [pass EXCEPT !.todo = @ \ {k}, !.pruned = TRUE]
          IN  \/ /\ hub' = Released(SocketOf(k, port))
                 /\ pass' = handled
                 /\ NoFault
                 /\ UNCHANGED drift
              \/ /\ hub' \in {hub, Released(SocketOf(k, port))}
                 /\ pass' = [handled EXCEPT !.failed = TRUE, !.allocs[k] = port]
                 /\ drift' = (drift \/ hub' # hub)
                 /\ Fault
    BY <1>5 DEF PrunePort
  <2> DEFINE s == RecordedSocket(k)
  <2>2. k \in Key /\ status.allocs[k] \in Ports /\ s \in Sockets
    BY <1>1, <1>2, RecordedType DEF RecordedSocket
  <2>3. /\ pass'.at = "prune" /\ pass'.orig = pass.orig /\ pass'.todo = pass.todo \ {k}
        /\ pass'.pruned /\ pass'.stale = pass.stale
    BY <1>1, <2>1 DEF PassType
  <2>4. /\ hub' \in {hub, Released(s)}
        /\ \/ pass'.allocs = pass.allocs /\ drift' = drift
           \/ /\ pass'.allocs = [pass.allocs EXCEPT ![k] = status.allocs[k]]
              /\ drift' = (drift \/ hub' # hub)
    BY <1>1, <2>1 DEF PassType, RecordedSocket
  <2>5. OnlyReleases /\ \A t \in Sockets \ {s} : hub'[t] = hub[t]
    BY <2>2, <2>4, ReleaseEffect DEF IInv
  \* Of another key, the socket would have another owner.
  <2>6. ASSUME ~drift, NEW j \in Key \ {k}, NEW p \in Ports, hub[SocketOf(j, p)] = j.name
        PROVE  hub'[SocketOf(j, p)] = j.name
    <3>1. SocketOf(j, p) \in Sockets
      BY SocketType
    <3>2. hub[s] = k.name
      BY <1>3, <2>6 DEF Held, RecordedSocket
    <3>3. SocketOf(j, p) # s
      BY <2>2, <2>6, <3>2 DEF SocketOf, RecordedSocket, Key
    <3> QED
      BY <2>5, <2>6, <3>1, <3>3
  <2>7. PassInv'
    BY <1>1, <2>3 DEF IInv, PassInv, LiveSteps, DeletionSteps
  <2>8. KeepInv'
    <3>1. \A j \in Key \ {k} : pass'.allocs[j] = pass.allocs[j]
      BY <1>1, <2>4
    <3>2. pass'.allocs[k] \in {NoPort, status.allocs[k]}
      BY <1>1, <1>2, <2>2, <2>4
    <3>3. \A j \in Recorded(status.allocs) : pass'.allocs[j] \in {NoPort, status.allocs[j]}
      BY <1>2, <3>1, <3>2 DEF Recorded
    <3>4. \A j \in pass'.todo : pass'.allocs[j] = NoPort
      BY <1>2, <2>3, <3>1 DEF Recorded
    <3> QED
      BY <1>1, <1>2, <2>3, <3>3, <3>4 DEF KeepInv
  <2>9. HeldInv'
    <3> SUFFICES ASSUME ~drift'
                 PROVE  /\ \A j \in Recorded(pass'.allocs) :
                             hub'[SocketOf(j, pass'.allocs[j])] = j.name
                        /\ \A j \in pass'.todo : Held(j)'
      BY <2>3 DEF HeldInv
    <3>1. ~drift
      BY <2>4
    <3>2. ASSUME NEW j \in Recorded(pass'.allocs)
          PROVE  hub'[SocketOf(j, pass'.allocs[j])] = j.name
      <4>1. CASE j # k
        <5>1. j \in Recorded(pass.allocs) /\ pass'.allocs[j] = pass.allocs[j]
          BY <1>1, <2>4, <3>2, <4>1 DEF Recorded
        <5>2. j \in Key /\ pass.allocs[j] \in Ports
          BY <1>1, <5>1, RecordedType
        <5> QED
          BY <1>3, <2>6, <3>1, <4>1, <5>1, <5>2
      <4>2. CASE j = k
        <5>1. pass'.allocs[k] = status.allocs[k] /\ hub' = hub
          BY <1>1, <1>2, <2>2, <2>4, <3>2, <4>2 DEF Recorded
        <5> QED
          BY <1>3, <3>1, <4>2, <5>1 DEF Held
      <4> QED
        BY <4>1, <4>2
    <3>3. ASSUME NEW j \in pass'.todo
          PROVE  Held(j)'
      <4>1. /\ j \in Key \ {k} /\ status.allocs[j] \in Ports
            /\ hub[SocketOf(j, status.allocs[j])] = j.name
        BY <1>1, <1>2, <1>3, <2>3, <3>1, RecordedType DEF Held
      <4> QED
        BY <1>1, <2>6, <3>1, <4>1, PortsAssumption DEF Held, SocketOf
    <3> QED
      BY <3>2, <3>3
  <2>10. OneInv'
    BY <1>1, <2>3, <2>5, NothingTaken DEF IInv, OneInv
  <2>11. ReleasedInv'
    BY <2>3 DEF ReleasedInv
  <2> QED
    BY <2>7, <2>8, <2>9, <2>10, <2>11 DEF Unreleased
<1> QED
  BY <1>4, <1>5

LEMMA WriteStatusStep ==
    ASSUME IInv, WriteStatus
    PROVE  Unreleased' /\ ReleasedInv'
<1>1. /\ pass.at = "write" /\ UNCHANGED <<phase, hub, blind>>
  BY DEF WriteStatus
<1>2. OnlyReleases
  BY <1>1 DEF OnlyReleases
<1>3. CASE pass.stale
  BY <1>1, <1>2, <1>3, PassEnds DEF WriteStatus
<1>4. CASE ~pass.stale
  <2>1. status' = Result /\ pass' = NoPass /\ UNCHANGED drift
    BY <1>4 DEF WriteStatus
  <2>2. pass'.at = "idle" /\ status'.allocs = pass.allocs
    BY <2>1, NoPassIsIdle DEF Result
  <2>3. PassInv' /\ KeepInv' /\ ReleasedInv'
    BY <2>1, <2>2 DEF PassInv, KeepInv, ReleasedInv, LiveSteps, DeletionSteps
  <2>4. ~drift => \A k \in Recorded(pass.allocs) : hub[SocketOf(k, pass.allocs[k])] = k.name
    BY <1>1 DEF IInv, HeldInv, LiveSteps
  <2>5. HeldInv'
    BY <1>1, <2>1, <2>2, <2>4 DEF HeldInv, Held, SocketOf, Recorded, LiveSteps
  <2>6. OneInv'
    BY <1>1, <1>2, <2>2, NothingTaken DEF IInv, OneInv
  <2> QED
    BY <2>3, <2>5, <2>6 DEF Unreleased
<1> QED
  BY <1>3, <1>4

(***************************************************************************)
(* Users and other tenants.                                                *)
(***************************************************************************)

\* A step that leaves the status, ours and the pass alone, except that the pass
\* may become stale, and the object may come to be deleted under it.
LEMMA OthersStep ==
    ASSUME IInv, Others
    PROVE  Unreleased' /\ ReleasedInv'
<1>1. /\ UNCHANGED <<status, drift, blind>>
      /\ hub' = hub \/ TakeSocket \/ GiveUpSocket
      /\ pass \in PassType
      /\ status.allocs \in [Key -> MaybePort] /\ pass.allocs \in [Key -> MaybePort]
  BY TypeOKIsPassType DEF IInv, TypeOK, StatusType, Others, EditServices, EditTunnel,
     DeleteTunnel, TakeSocket, GiveUpSocket
<1>2. OnlyReleases /\ OursKept
  <2>1. hub' = hub => OnlyReleases /\ OursKept
    BY DEF OnlyReleases, OursKept
  <2> QED
    BY <1>1, <2>1, OthersEffect DEF IInv
<1>3. /\ pass' = pass \/ (pass.at # "idle" /\ pass' = [pass EXCEPT !.stale = TRUE])
      /\ \/ phase' = phase
         \/ phase = "live" /\ phase' = "deleting" /\ (pass.at = "idle" \/ pass'.stale)
  BY <1>1 DEF Others, EditServices, EditTunnel, DeleteTunnel, TakeSocket, GiveUpSocket,
     TunnelTouched, PassType
<1>4. /\ pass'.at = pass.at /\ pass'.orig = pass.orig /\ pass'.allocs = pass.allocs
      /\ pass'.todo = pass.todo /\ pass'.wants = pass.wants /\ pass'.pruned = pass.pruned
      /\ pass'.sockets = pass.sockets /\ pass'.unlisted = pass.unlisted
      /\ pass.stale => pass'.stale
      /\ pass.at = "idle" => pass' = pass
  BY <1>1, <1>3 DEF PassType
<1>5. PassInv'
  BY <1>1, <1>3, <1>4 DEF IInv, PassInv, LiveSteps, DeletionSteps
<1>6. KeepInv'
  BY <1>1, <1>4 DEF IInv, KeepInv
<1>7. HeldInv'
  <2>1. \A k \in Recorded(status.allocs) : Held(k) => Held(k)'
    BY <1>1, <1>2, RecordedKept DEF IInv
  <2>2. \A k \in Recorded(pass.allocs) :
          hub[SocketOf(k, pass.allocs[k])] = k.name => hub'[SocketOf(k, pass.allocs[k])] = k.name
    BY <1>1, <1>2, RecordedType, HeldKept
  <2>3. pass.at = "prune" => pass.todo \subseteq Recorded(status.allocs)
    BY DEF IInv, KeepInv, LiveSteps
  <2>4. phase' = "live" => phase = "live"
    BY <1>3
  <2> QED
    BY <1>1, <1>4, <2>1, <2>2, <2>3, <2>4 DEF IInv, HeldInv
<1>8. OneInv'
  <2>1. \A k \in pass.todo : k \in Key
    BY <1>1 DEF PassType
  <2> QED
    BY <1>1, <1>2, <1>4, <2>1, NothingTaken DEF IInv, OneInv
<1>9. ReleasedInv'
  <2>1. \A k \in Recorded(status.allocs) : RecordedSocket(k)' = RecordedSocket(k)
                                           /\ RecordedSocket(k) \in Sockets
    BY <1>1, RecordedType DEF RecordedSocket, SocketOf
  <2> QED
    BY <1>1, <1>2, <1>4, <2>1, NothingTaken DEF IInv, ReleasedInv
<1> QED
  BY <1>5, <1>6, <1>7, <1>8, <1>9 DEF Unreleased

(***************************************************************************)
(* The theorems.                                                           *)
(***************************************************************************)

LEMMA InitIInv == Init => IInv
<1> SUFFICES ASSUME Init PROVE IInv
  OBVIOUS
<1>1. pass.at = "idle" /\ pass = NoPass
  BY NoPassIsIdle DEF Init
<1>2. PassInv /\ KeepInv /\ ReleasedInv
  BY <1>1 DEF PassInv, KeepInv, ReleasedInv, LiveSteps, DeletionSteps
<1>3. HeldInv
  BY <1>1 DEF Init, HeldInv, LiveSteps, NoStatus, NoAllocs, Recorded
<1>4. OneInv
  <2>1. \A k \in Key : PortsHeld(k) = {}
    <3>1. \A k \in Key, p \in Ports : hub[SocketOf(k, p)] = Free /\ k.name # Free
      BY SocketType, OwnersAssumption DEF Init, Sockets, Key
    <3> QED
      BY <3>1 DEF PortsHeld
  <2> QED
    BY <1>1, <2>1 DEF OneInv
<1> QED
  BY <1>2, <1>3, <1>4, InitTypeOK DEF IInv

LEMMA NextIInv ==
    ASSUME IInv, [Next]_vars
    PROVE  IInv'
<1>1. TypeOK'
  BY NextTypeOK DEF IInv
<1>2. CASE UNCHANGED vars
  BY <1>1, <1>2 DEF vars, IInv, PassInv, KeepInv, HeldInv, OneInv, ReleasedInv, Held,
     SocketOf, PortsHeld, OurSockets, RecordedSocket
<1>3. CASE Next
  <2>1. Unreleased' /\ ReleasedInv'
    BY <1>3, StartPassStep, ListPortsStep, ReservePortStep, PrunePortStep, WriteStatusStep,
       ReleaseRecordedStep, ListLeaksStep, ReleaseLeakedStep, DeleteInviteStep,
       RemoveFinalizerStep, CrashStep, OthersStep DEF Next, PassStep
  <2> QED
    BY <1>1, <2>1 DEF IInv, Unreleased
<1> QED
  BY <1>2, <1>3

\* What every reachable state has: a pass works on the recorded status, its
\* ports extend the recorded ones, what it has in memory the hub has given to
\* the tunnel, and a deletion has released what its step says.
THEOREM PortsInvariance == Spec => []IInv
<1>1. Init => IInv
  BY InitIInv
<1>2. IInv /\ [Next]_vars => IInv'
  BY NextIInv
<1> QED
  BY <1>1, <1>2, PTL DEF Spec

\* Every variable stays within its type.
THEOREM PortsTypeCorrect == Spec => []TypeOK
<1>1. IInv => TypeOK
  BY DEF IInv
<1> QED
  BY <1>1, PortsInvariance, PTL

\* What the status lists, the hub has given to this tunnel (convergePorts keeps
\* a recorded port unasked), unless a pass released a recorded port and could
\* not record that.
THEOREM RecordedPortsAreHeld == Spec => []RecordedPortsHeld
<1>1. IInv => RecordedPortsHeld
  BY DEF IInv, HeldInv, RecordedPortsHeld
<1> QED
  BY <1>1, PortsInvariance, PTL

\* However many passes crash, lose an answer or lose their status write, no
\* service has two public ports, unless a list failed (adoption by label).
THEOREM NoSecondPort == Spec => []OnePortPerName
<1>1. IInv => OnePortPerName
  BY DEF IInv, OneInv, OnePortPerName
<1> QED
  BY <1>1, PortsInvariance, PTL

\* A recorded public port is dropped or kept, never exchanged.
THEOREM PublicPortsAreStable == Spec => PublicPortStable
<1> DEFINE Stable == \A k \in Recorded(status.allocs) :
                       status'.allocs[k] \in {NoPort, status.allocs[k]}
<1>1. ASSUME IInv, [Next]_vars
      PROVE  Stable
  <2>1. CASE status' = status
    BY <2>1
  <2>2. CASE WriteStatus /\ ~pass.stale
    <3>1. status'.allocs = pass.allocs /\ pass.at = "write"
      BY <2>2 DEF WriteStatus, Result
    <3> QED
      BY <1>1, <3>1 DEF IInv, KeepInv, LiveSteps
  <2> QED
    BY <1>1, <2>1, <2>2 DEF Next, PassStep, Others, vars, StartPass, ListPorts, ReservePort,
       PrunePort, WriteStatus, ReleaseRecorded, ListLeaks, ReleaseLeaked, DeleteInvite,
       RemoveFinalizer, Crash, EditServices, EditTunnel, DeleteTunnel, TakeSocket,
       GiveUpSocket
<1>2. IInv /\ [Next]_vars => [Stable]_vars
  BY <1>1
<1> QED
  BY <1>2, PortsInvariance, PTL DEF Spec, PublicPortStable

\* The finalizer of a tunnel with a recorded invite goes only when the hub has
\* no socket of it left, unless the list of the leak sweep failed.
THEOREM DeletionReleasesAllPorts == Spec => DeletionLeavesNoPorts
<1> DEFINE Clean == phase = "deleting" /\ phase' = "gone" /\ status.known /\ ~pass.unlisted
                    => OurSockets = {}
<1>1. ASSUME IInv, [Next]_vars
      PROVE  Clean
  <2>1. CASE RemoveFinalizer
    <3>1. pass.at = "unfinalize"
      BY <2>1 DEF RemoveFinalizer
    <3> QED
      BY <1>1, <3>1 DEF IInv, ReleasedInv
  <2>2. CASE phase' = phase \/ phase' = "deleting"
    BY <2>2
  <2> QED
    BY <1>1, <2>1, <2>2 DEF Next, PassStep, Others, vars, StartPass, ListPorts, ReservePort,
       PrunePort, WriteStatus, ReleaseRecorded, ListLeaks, ReleaseLeaked, DeleteInvite,
       Crash, EditServices, EditTunnel, DeleteTunnel, TakeSocket, GiveUpSocket
<1>2. IInv /\ [Next]_vars => [Clean]_vars
  BY <1>1
<1> QED
  BY <1>2, PortsInvariance, PTL DEF Spec, DeletionLeavesNoPorts
=============================================================================
