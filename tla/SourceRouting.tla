---------------------------- MODULE SourceRouting ----------------------------
(***************************************************************************)
(* What the three source controllers compute from the annotations of a     *)
(* Service, a Gateway or an HTTPRoute: whether it takes part, for which    *)
(* tunnel, with which agent, with which entries; and which sources a watch *)
(* event of another object is mapped to.                                   *)
(*                                                                         *)
(* Abstractions: an annotation value is "true", "other" (what ParseTruthy  *)
(* takes for false or does not know) or None (absent); a reference is split *)
(* at its slash already; an origin is a pair of host and port; the parents *)
(* of a route that are not Gateways are left out, and so is edgeTLSMode;    *)
(* auto-routes-namespaces is the set it names, "all" being every namespace. *)
(***************************************************************************)
EXTENDS Integers, FiniteSets, Sequences, SequencesExt

CONSTANTS
    None,
    Malformed,       \* a reference that parseTunnelRef refuses
    Services, Gateways, Routes,
    NamespaceOf,     \* [Sources -> namespaces]
    Tunnels,         \* names [ns, name] a TowonelTunnel may have
    AgentNamespace   \* --agent-namespace, or None

Sources == Services \cup Gateways \cup Routes

\* ParseTruthy: what is not recognised is not true.
Truthy(value) == value = "true"

----------------------------------------------------------------------------
(* Tunnels and agents.                                                     *)

ParseTunnelRef(raw, namespace) ==
    IF raw = Malformed THEN Malformed
    ELSE [ns |-> IF raw.ns = None THEN namespace ELSE raw.ns, name |-> raw.name]

\* The tunnel a source is for: the one it names, or the only one there is.
\* None stands for "not ok".
ResolveTunnel(manifest, namespace, tunnels) ==
    IF manifest.tunnelRef # None
    THEN LET t == ParseTunnelRef(manifest.tunnelRef, namespace)
         IN IF t = Malformed THEN None ELSE t
    ELSE IF Cardinality(tunnels) = 1 THEN CHOOSE t \in tunnels : TRUE ELSE None

AgentNamespaceFor(tunnel) == IF AgentNamespace = None THEN tunnel.ns ELSE AgentNamespace

\* The name is hashed over the tunnel's: two tunnels never share one.
DefaultAgent(tunnel) == [ns |-> AgentNamespaceFor(tunnel), name |-> tunnel]

TargetAgent(manifest, tunnel) ==
    IF manifest.agentRef = None THEN DefaultAgent(tunnel)
    ELSE [ns |-> AgentNamespaceFor(tunnel), name |-> manifest.agentRef]

----------------------------------------------------------------------------
(* Entries.  An agent's spec.services is a map by hostname, tcp and udp are *)
(* maps by name: kind and key identify an entry.                           *)

Entry(kind, key, origin) ==
    [kind |-> kind, key |-> key, origin |-> origin, pin |-> 0, hidden |-> FALSE]

SameKey(e, f) == e.kind = f.kind /\ e.key = f.key

\* Two managers may own an entry together unless they give a field of it
\* different values.
Conflicting(e, f) ==
    /\ SameKey(e, f)
    /\ e.origin # f.origin \/ (e.pin # 0 /\ f.pin # 0 /\ e.pin # f.pin)

\* The API server refuses a list that has a key twice.
RepeatsKey(routing) ==
    \E i, j \in DOMAIN routing : i # j /\ SameKey(routing[i], routing[j])

ValidPorts == 1 .. 65535

\* applyPublicPorts: 0 is no preference; a number out of range is none.
PublicPort(manifest, name) ==
    LET pins == {k.value : k \in {p \in manifest.scoped :
                    p.suffix = "public-port" /\ p.name = name /\ p.value \in ValidPorts}}
    IN IF pins = {} THEN 0 ELSE CHOOSE n \in pins : TRUE

\* The value of a tcp or udp key is not looked at.
\* Halt (None): an Event is emitted and what the source contributed stays.
ScopedRouting(manifest) ==
    LET exposures == {k \in manifest.scoped : k.suffix # "public-port"}
        portOf(name) == CHOOSE i \in DOMAIN manifest.ports : manifest.ports[i].name = name
        origin(name) == <<manifest.clusterIP, manifest.ports[portOf(name)].port>>
        raw(k) == [Entry(k.suffix, k.name, origin(k.name)) EXCEPT
                       !.pin = PublicPort(manifest, k.name)]
        ordered == SetToSeq(exposures)
    IN IF \/ exposures = {}
          \/ \E k \in exposures : \A i \in DOMAIN manifest.ports : manifest.ports[i].name # k.name
       THEN None
       ELSE [i \in DOMAIN ordered |->
                LET k == ordered[i]
                IN IF k.suffix = "hostname" THEN Entry("hostname", k.value, origin(k.name))
                   ELSE raw(k)]

\* One exposure of the whole Service: by hostname, or raw under its own name.
SingleRouting(service, manifest) ==
    LET origin == IF manifest.origin # None THEN manifest.origin
                  ELSE IF manifest.ports = <<>> \/ manifest.clusterIP = None THEN None
                  ELSE <<manifest.clusterIP, manifest.ports[1].port>>
    IN IF origin = None \/ manifest.protocol \notin {None, "tcp", "udp"} THEN None
       ELSE IF manifest.protocol # None THEN << Entry(manifest.protocol, service, origin) >>
       ELSE IF manifest.hostname = None THEN None
       ELSE << Entry("hostname", manifest.hostname, origin) >>

DeriveServiceRouting(service, manifest) ==
    IF manifest.scoped # {} THEN ScopedRouting(manifest) ELSE SingleRouting(service, manifest)

\* parseGatewayServiceRef, the proxy Service's address and effectiveServicePort:
\* proxies maps a reference to the origin it comes to, None if it comes to none.
ProxyOrigin(gateway, proxies) ==
    IF gateway = None \/ gateway.service = None THEN None ELSE proxies[gateway.service]

\* A hostname that several listeners have is exposed once.
DeriveGatewayRouting(manifest, proxies) ==
    LET origin == ProxyOrigin(manifest, proxies)
        hosts == SetToSeq(ToSet(manifest.listeners) \ {None})
    IN IF origin = None \/ hosts = <<>> THEN None
       ELSE [i \in DOMAIN hosts |-> Entry("hostname", hosts[i], origin)]

\* Exactly one origin among the parents that have one.
ResolveParentGatewayProxy(manifest, gatewayOf, proxies) ==
    LET origins == {ProxyOrigin(gatewayOf[g], proxies) : g \in manifest.parents} \ {None}
    IN IF Cardinality(origins) = 1 THEN CHOOSE o \in origins : TRUE ELSE None

\* A hostname that is listed twice is exposed twice, and the apply refused.
DeriveHTTPRouteRouting(manifest, gatewayOf, proxies) ==
    LET origin == ResolveParentGatewayProxy(manifest, gatewayOf, proxies)
    IN IF manifest.hosts = <<>> \/ origin = None THEN None
       ELSE [i \in DOMAIN manifest.hosts |-> Entry("hostname", manifest.hosts[i], origin)]

\* An unrecognised value opts out, like "false".
ApplyDNSRecordAnnotation(routing, value) ==
    IF value = None \/ Truthy(value) THEN routing
    ELSE [i \in DOMAIN routing |->
             [routing[i] EXCEPT !.hidden = routing[i].kind = "hostname"]]

----------------------------------------------------------------------------
(* Auto-routes.                                                            *)

GatewayAllowsRouteNamespace(gateway, gatewayNS, routeNS) ==
    gatewayNS = routeNS \/ routeNS \in gateway.autoNamespaces

AutoRoutes(g, gateway, route) ==
    /\ gateway # None
    /\ GatewayAllowsRouteNamespace(gateway, NamespaceOf[g], NamespaceOf[route])
    /\ Truthy(gateway.auto)

AutoSelectedByGateway(route, manifest, gatewayOf) ==
    \E g \in manifest.parents :
        AutoRoutes(g, gatewayOf[g], route) /\ gatewayOf[g].service # None

----------------------------------------------------------------------------
(* What a watch event is mapped to.  objects maps each source to its        *)
(* manifest, or to None when the object does not exist.                    *)

\* The key is there, whatever its value.
Annotated(manifest) == manifest # None /\ manifest.tunnel # None

\* sourcePredicate, and httpRouteSourcePredicate for routes.
Admits(s, manifest) ==
    \/ Annotated(manifest)
    \/ s \in Routes /\ manifest # None /\ manifest.parents # {}

SourceTargetsAgent(s, manifest, agent) ==
    /\ manifest.agentRef # None
    /\ manifest.agentRef = agent.name
    /\ manifest.tunnelRef \notin {None, Malformed}
    /\ AgentNamespaceFor(ParseTunnelRef(manifest.tunnelRef, NamespaceOf[s])) = agent.ns

AgentSourceRequests(objects, agent) ==
    {s \in Sources : Annotated(objects[s]) /\ SourceTargetsAgent(s, objects[s], agent)}

SourceTargetsTunnel(s, manifest, tunnel) ==
    \/ manifest.tunnelRef = None
    \/ manifest.tunnelRef # None /\ ParseTunnelRef(manifest.tunnelRef, NamespaceOf[s]) = tunnel

\* sourcesForTunnel: an unannotated route without a tunnel-ref counts if a
\* parent's auto-routes covers it.
TunnelSourceRequests(objects, tunnel) ==
    {s \in Sources :
        /\ objects[s] # None
        /\ SourceTargetsTunnel(s, objects[s], tunnel)
        /\ \/ Annotated(objects[s])
           \/ /\ s \in Routes
              /\ \/ objects[s].tunnelRef # None
                 \/ \E g \in objects[s].parents : AutoRoutes(g, objects[g], s)}

\* Every route under the Gateway, whether its auto-routes covers the route or not.
\* Variant: only the routes it covers.
CoveredRoutes(objects, gateway) ==
    {r \in Routes : /\ objects[r] # None /\ gateway \in objects[r].parents
                    /\ AutoRoutes(gateway, objects[gateway], r)}
RoutesForGateway(objects, gateway) ==
    {r \in Routes : objects[r] # None /\ gateway \in objects[r].parents}
==============================================================================
