------------------------------ MODULE MCSources ------------------------------
(* Instances of Sources for TLC.                                           *)
EXTENDS Sources

CONSTANTS svc, gw, route, n1

MCTunnels == {[ns |-> "a", name |-> "t1"], [ns |-> "a", name |-> "t2"]}
T1 == [ns |-> "a", name |-> "t1"]
T2 == [ns |-> "a", name |-> "t2"]
Default(t) == [ns |-> "a", name |-> t]
Named == [ns |-> "a", name |-> n1]
MCAgents == {Default(T1), Default(T2), Named}

\* The route is in another namespace than its Gateway.
MCNamespaceOf == [s \in {svc, gw, route} |-> IF s = route THEN "b" ELSE "a"]

Ref(t) == [ns |-> IF t = T1 THEN None ELSE "a", name |-> t.name]

Service(tunnel, ref, agent, scoped, dns) ==
    [tunnel |-> tunnel, tunnelRef |-> ref, agentRef |-> agent, dns |-> dns, scoped |-> scoped,
     ports |-> << [name |-> "web", port |-> 80] >>, clusterIP |-> "ip1",
     origin |-> None, protocol |-> None, hostname |-> "h1"]
Raw == {[name |-> "web", suffix |-> "tcp", value |-> 0],
        [name |-> "web", suffix |-> "public-port", value |-> 8080]}

Gateway(tunnel, auto, namespaces) ==
    [tunnel |-> tunnel, tunnelRef |-> Ref(T1), agentRef |-> None, dns |-> None,
     service |-> "p1", listeners |-> <<"h1", None, "h1">>, auto |-> auto,
     autoNamespaces |-> namespaces]

Route(tunnel, ref, hosts) ==
    [tunnel |-> tunnel, tunnelRef |-> ref, agentRef |-> None, dns |-> "other",
     parents |-> {gw}, hosts |-> hosts]

MCManifests == [s \in {svc, gw, route} |->
    CASE s = svc -> {Service("true", Ref(T1), None, {}, None),
                     Service("true", Ref(T1), n1, Raw, None),
                     Service("other", None, None, {}, None)}
      [] s = gw -> {Gateway("true", "true", {"b"}), Gateway(None, "true", {})}
      [] s = route -> {Route(None, None, <<"h2">>), Route("true", Ref(T2), <<"h2">>),
                       Route(None, None, <<"h2", "h2">>)}]

MCOrigins == [p \in {"p1"} |-> {<<"ip2", 443>>, None}]
UserSpec(mode, entries) == [mode |-> mode, tunnel |-> T1, entries |-> entries]
Written(u) == [kind |-> "user", mode |-> u.mode, tunnel |-> u.tunnel,
               owned |-> [NoAgent.owned EXCEPT ![User] = u.entries]]
UserEntries == {Entry("hostname", "h2", <<"ip9", 9>>)}
MCUserSpecs == [a \in MCAgents |->
    CASE a = Default(T1) -> {UserSpec("ObserveOnly", UserEntries)}
      [] a = Default(T2) -> {}
      [] a = Named -> {UserSpec("Managed", {}), UserSpec("ObserveOnly", {})}]
MCInitialWorlds ==
    {[objects |-> [s \in {svc, gw, route} |->
                      CASE s = svc -> Service("true", Ref(T1), None, {}, None)
                        [] s = gw -> Gateway("true", "true", {"b"})
                        [] s = route -> Route(None, None, <<"h2">>)],
      proxies |-> [p \in {"p1"} |-> <<"ip2", 443>>],
      tunnels |-> {T1},
      agents |-> [[a \in MCAgents |-> NoAgent] EXCEPT
                     ![Named] = Written(UserSpec("Managed", {}))]]}
=============================================================================
