---------------------------- MODULE SourcesProofs ----------------------------
(* Theorems about the source layer, for any sources, agents, tunnels,      *)
(* manifests and bounds.                                                   *)
EXTENDS Sources, FiniteSetTheorems, TLAPS

(***************************************************************************)
(* The inductive invariant: what the steps of a pass rely on, although     *)
(* others move between them.                                               *)
(***************************************************************************)

\* A pass that writes has something to write, and somewhere.
WritesSomething(p) ==
    /\ p.at \in {"create", "apply"} => DOMAIN p.routing # {} /\ p.tunnel # None
    /\ p.at \in {"apply", "delete"} => p.target # None
    /\ p.at = "release" => p.target \notin p.todo
PassInv == \A k \in Kinds : WritesSomething(pass[k])

\* Between the read of an orphan and its deletion, whoever gives it an entry takes
\* the precondition away.
IntactInv ==
    \A k \in Kinds : pass[k].at = "delete" /\ pass[k].intact => Entries(agents[pass[k].target]) = {}

\* A pass that releases what is elsewhere still has its entries at its target, or
\* a user deleted that.
HeldInv ==
    \A k \in Kinds : pass[k].at = "release" /\ pass[k].target # None =>
        pass[k].source \in unheard \/ agents[pass[k].target].owned[pass[k].source] # {}

IInv == TypeOK /\ PassInv /\ IntactInv /\ HeldInv

(***************************************************************************)
(* What the controllers compute.                                           *)
(***************************************************************************)

\* A finite set that has members is listed.
LEMMA ListOfSet ==
    ASSUME NEW S, IsFiniteSet(S)
    PROVE  /\ Cardinality(S) \in Nat
           /\ SetToSeq(S) \in [1 .. Cardinality(S) -> S]
           /\ S # {} => DOMAIN SetToSeq(S) # {}
<1>1. Cardinality(S) \in Nat /\ ExistsBijection(1 .. Cardinality(S), S)
  BY FS_CardinalityType
<1>2. PICK f \in [1 .. Cardinality(S) -> S] : IsInjective(f)
  BY <1>1 DEF ExistsBijection, Bijection, Injection
<1>3. SetToSeq(S) \in [1 .. Cardinality(S) -> S]
  BY <1>2 DEF SetToSeq
<1>4. Cardinality(S) = 0 <=> S = {}
  BY FS_EmptySet
<1> QED
  BY <1>1, <1>3, <1>4

\* The members of a sequence are finitely many.
LEMMA MembersFinite ==
    ASSUME NEW q, q \in Seq(ToSet(q))
    PROVE  IsFiniteSet(ToSet(q))
<1>1. PICK n \in Nat : DOMAIN q = 1 .. n
  BY DEF ToSet
<1>2. IsFiniteSet(1 .. n)
  BY <1>1, FS_Interval
<1>3. q \in Surjection(1 .. n, ToSet(q))
  BY <1>1 DEF Surjection, ToSet
<1> QED
  BY <1>2, <1>3, FS_Surjection

\* A source that exists has a manifest somebody wrote.
LEMMA ObjectWritten ==
    ASSUME TypeOK, NEW s \in Sources, OptedIn(s)
    PROVE  objects[s] \in Manifests[s]
BY DEF TypeOK, WorldOK, OptedIn

\* The tunnel a source resolves to is one there may be.
LEMMA TunnelType ==
    ASSUME TypeOK, NEW s \in Sources, OptedIn(s)
    PROVE  TunnelOf(s) \in Tunnels \cup {None}
<1> DEFINE m == objects[s]
<1>1. m \in Manifests[s] /\ tunnels \subseteq Tunnels
  BY ObjectWritten DEF TypeOK, WorldOK
<1>2. m.tunnelRef = None
        \/ ParseTunnelRef(m.tunnelRef, NamespaceOf[s]) \in Tunnels \cup {Malformed}
  BY <1>1, ManifestsAssumption
<1>3. Cardinality(tunnels) = 1 => tunnels # {}
  BY FS_EmptySet
<1> QED
  BY <1>1, <1>2, <1>3 DEF TunnelOf, ResolveTunnel

LEMMA ScopedSomething ==
    ASSUME NEW m, IsFiniteSet(m.scoped), ScopedRouting(m) # None
    PROVE  DOMAIN ScopedRouting(m) # {}
<1> DEFINE exposures == {k \in m.scoped : k.suffix # "public-port"}
<1>1. IsFiniteSet(exposures)
  BY FS_Subset
<1>2. exposures # {}
  BY DEF ScopedRouting
<1>3. DOMAIN SetToSeq(exposures) # {}
  BY <1>1, <1>2, ListOfSet
<1>4. DOMAIN ScopedRouting(m) = DOMAIN SetToSeq(exposures)
  BY DEF ScopedRouting
<1> QED
  BY <1>3, <1>4

LEMMA SingleSomething ==
    ASSUME NEW s, NEW m, SingleRouting(s, m) # None
    PROVE  DOMAIN SingleRouting(s, m) # {}
<1>1. \E e : SingleRouting(s, m) = <<e>>
  BY Zenon DEF SingleRouting
<1> QED
  BY <1>1

LEMMA GatewaySomething ==
    ASSUME NEW m, m.listeners \in Seq(ToSet(m.listeners)),
           DeriveGatewayRouting(m, proxies) # None
    PROVE  DOMAIN DeriveGatewayRouting(m, proxies) # {}
<1> DEFINE names == ToSet(m.listeners) \ {None}
<1>1. IsFiniteSet(names)
  BY MembersFinite, FS_Subset
<1>2. SetToSeq(names) # <<>>
  BY DEF DeriveGatewayRouting
<1>3. DOMAIN SetToSeq(names) # {}
  <2>1. CASE names # {}
    BY <1>1, <2>1, ListOfSet
  <2>2. CASE names = {}
    <3>1. SetToSeq(names) \in [{} -> {}]
      BY <1>1, <2>2, ListOfSet, FS_EmptySet
    <3>2. SetToSeq(names) = <<>>
      BY <3>1
    <3> QED
      BY <1>2, <3>2
  <2> QED
    BY <2>1, <2>2
<1>4. DOMAIN DeriveGatewayRouting(m, proxies) = DOMAIN SetToSeq(names)
  BY DEF DeriveGatewayRouting
<1> QED
  BY <1>3, <1>4

LEMMA RouteSomething ==
    ASSUME NEW m, m.hosts \in Seq(ToSet(m.hosts)),
           DeriveHTTPRouteRouting(m, objects, proxies) # None
    PROVE  DOMAIN DeriveHTTPRouteRouting(m, objects, proxies) # {}
<1>1. m.hosts # <<>>
  BY DEF DeriveHTTPRouteRouting
<1>2. DOMAIN m.hosts # {}
  <2>1. PICK n \in Nat : m.hosts \in [1 .. n -> ToSet(m.hosts)]
    OBVIOUS
  <2>2. CASE n = 0
    <3>1. m.hosts \in [{} -> ToSet(m.hosts)]
      BY <2>1, <2>2
    <3>2. m.hosts = <<>>
      BY <3>1
    <3> QED
      BY <1>1, <3>2
  <2>3. CASE n # 0
    <3>1. DOMAIN m.hosts = 1 .. n
      BY <2>1
    <3>2. 1 \in 1 .. n
      BY <2>3
    <3> QED
      BY <3>1, <3>2
  <2> QED
    BY <2>2, <2>3
<1>3. DOMAIN DeriveHTTPRouteRouting(m, objects, proxies) = DOMAIN m.hosts
  BY DEF DeriveHTTPRouteRouting
<1> QED
  BY <1>2, <1>3

\* A source that does not halt has an entry to apply.
LEMMA RoutingSomething ==
    ASSUME TypeOK, NEW s \in Sources, OptedIn(s), RoutingOf(s) # None
    PROVE  DOMAIN RoutingOf(s) # {}
<1> DEFINE m == objects[s]
           derived == IF s \in Services THEN DeriveServiceRouting(s, m)
                      ELSE IF s \in Gateways THEN DeriveGatewayRouting(m, proxies)
                      ELSE DeriveHTTPRouteRouting(m, objects, proxies)
<1>1. m \in Manifests[s]
  BY ObjectWritten
<1>2. derived # None
  BY DEF RoutingOf
<1>3. DOMAIN derived # {}
  <2>1. CASE s \in Services
    <3>1. IsFiniteSet(m.scoped)
      BY <1>1, <2>1, ManifestsAssumption
    <3> QED
      BY <1>2, <2>1, <3>1, ScopedSomething, SingleSomething DEF DeriveServiceRouting
  <2>2. CASE s \in Gateways \ Services
    <3>1. m.listeners \in Seq(ToSet(m.listeners))
      BY <1>1, <2>2, ManifestsAssumption
    <3> QED
      BY <1>2, <2>2, <3>1, GatewaySomething
  <2>3. CASE s \in Routes \ (Services \cup Gateways)
    <3>1. m.hosts \in Seq(ToSet(m.hosts))
      BY <1>1, <2>3, ManifestsAssumption
    <3> QED
      BY <1>2, <2>3, <3>1, RouteSomething
  <2> QED
    BY <2>1, <2>2, <2>3 DEF Sources
<1>4. DOMAIN ApplyDNSRecordAnnotation(derived, m.dns) = DOMAIN derived
  BY DEF ApplyDNSRecordAnnotation
<1> QED
  BY <1>2, <1>3, <1>4 DEF RoutingOf

(***************************************************************************)
(* Passes and agents.                                                      *)
(***************************************************************************)

GoodPass(k, p) ==
    /\ IsPass(p)
    /\ p.at = "idle" => p = NoPass
    /\ p.at # "idle" => p.source # None /\ KindOf(p.source) = k
    /\ WritesSomething(p)
PassesOK(passes) == DOMAIN passes = Kinds /\ \A k \in Kinds : GoodPass(k, passes[k])

LEMMA PassesAre == TypeOK /\ PassInv <=> TypeOK /\ PassesOK(pass)
BY DEF TypeOK, PassInv, PassesOK, GoodPass

LEMMA NoPassGood == \A k \in Kinds : GoodPass(k, NoPass)
BY DEF NoPass, GoodPass, IsPass, WritesSomething, Steps

LEMMA NoAgentIs == IsAgent(NoAgent) /\ IsAgent(Ghost)
                   /\ \A o \in Owners : NoAgent.owned[o] = {} /\ Ghost.owned[o] = {}
BY DEF IsAgent, NoAgent, Ghost

LEMMA AutoAgentIs ==
    ASSUME NEW t \in Tunnels
    PROVE  IsAgent(AutoAgent(t)) /\ \A o \in Owners : AutoAgent(t).owned[o] = {}
BY DEF IsAgent, NoAgent, AutoAgent

\* What a pass becomes, when it goes on to collect or to release.
LEMMA CollectingGood ==
    ASSUME NEW k \in Kinds, NEW p, IsPass(p), p.source # None, KindOf(p.source) = k
    PROVE  /\ GoodPass(k, Collecting(p))
           /\ Collecting(p).at \in {"idle", "collect"}
<1> DEFINE listed == {a \in Agents : cache[a].kind = "auto"}
<1>1. CASE listed = {}
  BY <1>1, NoPassGood DEF Collecting, NoPass
<1>2. CASE listed # {}
  <2>1. Collecting(p) = [p EXCEPT !.at = "collect", !.todo = listed, !.target = None]
    BY <1>2 DEF Collecting
  <2>2. Collecting(p).at = "collect" /\ Collecting(p).source = p.source
    BY <2>1 DEF IsPass
  <2>3. IsPass(Collecting(p))
    BY <2>1 DEF IsPass, Steps
  <2> QED
    BY <2>2, <2>3 DEF GoodPass, WritesSomething
<1> QED
  BY <1>1, <1>2

LEMMA ReleasingGood ==
    ASSUME NEW k \in Kinds, NEW p, IsPass(p), p.source # None, KindOf(p.source) = k,
           NEW todo \in SUBSET Agents, p.target \notin todo
    PROVE  /\ GoodPass(k, Releasing(p, todo))
           /\ Releasing(p, todo).at \in {"idle", "collect", "release"}
           /\ Releasing(p, todo).at = "release" =>
                /\ Releasing(p, todo).target = p.target
                /\ Releasing(p, todo).source = p.source
<1>1. CASE todo # {}
  <2>1. Releasing(p, todo) = [p EXCEPT !.at = "release", !.todo = todo]
    BY <1>1 DEF Releasing
  <2>2. /\ Releasing(p, todo).at = "release" /\ Releasing(p, todo).source = p.source
        /\ Releasing(p, todo).target = p.target /\ Releasing(p, todo).todo = todo
    BY <2>1 DEF IsPass
  <2>3. IsPass(Releasing(p, todo))
    BY <2>1 DEF IsPass, Steps
  <2> QED
    BY <2>2, <2>3 DEF GoodPass, WritesSomething
<1>2. CASE todo = {} /\ p.leaving
  BY <1>2, CollectingGood DEF Releasing
<1>3. CASE todo = {} /\ ~p.leaving
  BY <1>3, NoPassGood DEF Releasing, NoPass
<1> QED
  BY <1>1, <1>2, <1>3

LEMMA ReleaseOthersGood ==
    ASSUME NEW k \in Kinds, NEW p, IsPass(p), p.source # None, KindOf(p.source) = k,
           NEW keep \in Agents \cup {None}
    PROVE  /\ GoodPass(k, ReleaseOthers(p, keep))
           /\ ReleaseOthers(p, keep).at \in {"idle", "collect", "release"}
           /\ ReleaseOthers(p, keep).at = "release" =>
                /\ ReleaseOthers(p, keep).target = keep
                /\ ReleaseOthers(p, keep).source = p.source
<1> DEFINE q == [p EXCEPT !.target = keep]
           todo == {a \in Others(keep) : cache[a].owned[p.source] # {}}
<1>1. IsPass(q) /\ q.source = p.source /\ q.target = keep
  BY DEF IsPass
<1>2. todo \in SUBSET Agents /\ keep \notin todo
  BY DEF Others
<1>3. ReleaseOthers(p, keep) = Releasing(q, todo)
  BY DEF ReleaseOthers
<1> HIDE DEF q, todo
<1> QED
  BY <1>1, <1>2, <1>3, ReleasingGood

LEMMA CollectedGood ==
    ASSUME NEW k \in Kinds, NEW p, IsPass(p), p.source # None, KindOf(p.source) = k, NEW a
    PROVE  /\ GoodPass(k, Collected(p, a))
           /\ Collected(p, a).at \in {"idle", "collect"}
<1>1. CASE p.todo = {a} \/ p.todo = {}
  BY <1>1, NoPassGood DEF Collected, NoPass
<1>2. CASE ~(p.todo = {a} \/ p.todo = {})
  <2>1. Collected(p, a) = [p EXCEPT !.at = "collect", !.todo = @ \ {a}, !.target = None,
                                    !.intact = FALSE]
    BY <1>2 DEF Collected
  <2>2. Collected(p, a).at = "collect" /\ Collected(p, a).source = p.source
    BY <2>1 DEF IsPass
  <2>3. IsPass(Collected(p, a))
    BY <2>1 DEF IsPass, Steps
  <2> QED
    BY <2>2, <2>3 DEF GoodPass, WritesSomething
<1> QED
  BY <1>1, <1>2

\* A write takes the precondition of whoever is about to delete the agent.
LEMMA ClearedPasses ==
    ASSUME NEW a, NEW passes, PassesOK(passes), NEW q, q = WithoutPrecondition(a, passes)
    PROVE  /\ PassesOK(q)
           /\ \A k \in Kinds : /\ q[k].at = passes[k].at
                               /\ q[k].source = passes[k].source
                               /\ q[k].target = passes[k].target
                               /\ q[k].at = "delete" /\ q[k].intact =>
                                    passes[k].intact /\ q[k].target # a
<1>1. DOMAIN q = Kinds
  BY DEF WithoutPrecondition
<1>2. ASSUME NEW k \in Kinds
      PROVE  /\ GoodPass(k, q[k])
             /\ q[k].at = passes[k].at
             /\ q[k].source = passes[k].source
             /\ q[k].target = passes[k].target
             /\ q[k].at = "delete" /\ q[k].intact => passes[k].intact /\ q[k].target # a
  <2>1. GoodPass(k, passes[k])
    BY DEF PassesOK
  <2>2. CASE passes[k].at = "delete" /\ passes[k].target = a
    <3>1. q[k] = [passes[k] EXCEPT !.intact = FALSE]
      BY <2>2 DEF WithoutPrecondition
    <3> QED
      BY <2>1, <2>2, <3>1 DEF GoodPass, IsPass, WritesSomething
  <2>3. CASE ~(passes[k].at = "delete" /\ passes[k].target = a)
    <3>1. q[k] = passes[k]
      BY <2>3 DEF WithoutPrecondition
    <3> QED
      BY <2>1, <2>3, <3>1
  <2> QED
    BY <2>2, <2>3
<1> QED
  BY <1>1, <1>2 DEF PassesOK

LEMMA SetAgentEffect ==
    ASSUME TypeOK, NEW a \in Agents, NEW new, IsAgent(new),
           NEW passes, PassesOK(passes), SetAgent(a, new, passes)
    PROVE  /\ DOMAIN agents' = Agents /\ news' \subseteq Agents
           /\ \A b \in Agents : /\ IsAgent(agents'[b])
                                /\ agents'[b] = IF b = a THEN new ELSE agents[b]
           /\ PassesOK(pass')
           /\ \A k \in Kinds : /\ pass'[k].at = passes[k].at
                               /\ pass'[k].source = passes[k].source
                               /\ pass'[k].target = passes[k].target
                               /\ pass'[k].at = "delete" /\ pass'[k].intact =>
                                    /\ passes[k].intact
                                    /\ agents'[pass'[k].target] = agents[pass'[k].target]
<1>1. DOMAIN agents = Agents /\ \A b \in Agents : IsAgent(agents[b])
  BY DEF TypeOK, WorldOK
<1>2. DOMAIN agents' = Agents /\ \A b \in Agents : agents'[b] = IF b = a THEN new ELSE agents[b]
  BY <1>1 DEF SetAgent
<1>3. \A b \in Agents : IsAgent(agents'[b])
  BY <1>1, <1>2
<1>4. news' \subseteq Agents
  BY DEF SetAgent, TypeOK
<1>5. \A k \in Kinds : passes[k].at = "delete" => passes[k].target \in Agents
  BY DEF PassesOK, GoodPass, IsPass, WritesSomething
<1>6. CASE new = agents[a]
  <2>1. pass' = passes /\ \A b \in Agents : agents'[b] = agents[b]
    BY <1>2, <1>6 DEF SetAgent
  <2> QED
    BY <1>2, <1>3, <1>4, <1>5, <2>1
<1>7. CASE new # agents[a]
  <2>1. pass' = WithoutPrecondition(a, passes)
    BY <1>7 DEF SetAgent
  <2>2. /\ PassesOK(pass')
        /\ \A k \in Kinds : /\ pass'[k].at = passes[k].at
                            /\ pass'[k].source = passes[k].source
                            /\ pass'[k].target = passes[k].target
                            /\ pass'[k].at = "delete" /\ pass'[k].intact =>
                                 passes[k].intact /\ pass'[k].target # a
    BY <2>1, ClearedPasses
  <2> QED
    BY <1>2, <1>3, <1>4, <1>5, <2>2
<1> QED
  BY <1>6, <1>7

(***************************************************************************)
(* What a step of controller k has to show: that it leaves the others' own *)
(* passes what they rely on.                                               *)
(***************************************************************************)

BudgetType == [edits : Nat, restarts : Nat, faults : Nat]

LEMMA SpendType ==
    ASSUME budget \in BudgetType
    PROVE  /\ Spend("edits") => budget' \in BudgetType /\ budget'.edits # budget.edits
           /\ Spend("restarts") => budget' \in BudgetType
           /\ Spend("faults") => budget' \in BudgetType
<1>1. Spend("edits") => budget' = [budget EXCEPT !.edits = budget.edits + 1]
  BY DEF Spend
<1>2. Spend("restarts") => budget' = [budget EXCEPT !.restarts = budget.restarts + 1]
  BY DEF Spend
<1>3. Spend("faults") => budget' = [budget EXCEPT !.faults = budget.faults + 1]
  BY DEF Spend
<1> QED
  BY <1>1, <1>2, <1>3 DEF BudgetType

\* What the other controllers' sources have not been heard of stays unheard.
UnheardKept(k) ==
    /\ unheard' \subseteq Sources \cup Agents
    /\ \A s \in unheard : s \in unheard' \/ s \in Agents \/ KindOf(s) = k

\* The entries of the other controllers' sources in agent a stay.
OthersKept(k, a, new) ==
    \A s \in Sources : KindOf(s) # k /\ agents[a].owned[s] # {} => new.owned[s] # {}

LEMMA PassFacts ==
    ASSUME IInv, NEW k \in Kinds
    PROVE  /\ GoodPass(k, pass[k])
           /\ PassesOK(pass)
           /\ pass[k].at # "idle" => pass[k].source \in Sources /\ KindOf(pass[k].source) = k
BY PassesAre DEF IInv, PassesOK, GoodPass, IsPass

LEMMA Assembled ==
    ASSUME IInv, UNCHANGED <<worldVars, cache>>, queue' \subseteq Sources,
           budget' \in BudgetType, unheard' \subseteq Sources \cup Agents,
           DOMAIN agents' = Agents, \A b \in Agents : IsAgent(agents'[b]),
           news' \subseteq Agents, PassesOK(pass'), IntactInv', HeldInv'
    PROVE  IInv'
<1>1. TypeOK' <=> /\ WorldOK(objects, proxies, tunnels, agents)'
                  /\ WorldOK(objects, proxies, tunnels, cache)'
                  /\ queue' \subseteq Sources /\ news' \subseteq Agents
                  /\ DOMAIN pass' = Kinds
                  /\ \A k \in Kinds :
                        /\ IsPass(pass'[k])
                        /\ pass'[k].at = "idle" => pass'[k] = NoPass
                        /\ pass'[k].at # "idle" =>
                             pass'[k].source # None /\ KindOf(pass'[k].source) = k
                  /\ budget' \in BudgetType
                  /\ unheard' \subseteq Sources \cup Agents
  BY DEF TypeOK, BudgetType
<1>2. WorldOK(objects, proxies, tunnels, agents) /\ WorldOK(objects, proxies, tunnels, cache)
  BY DEF IInv, TypeOK
<1>3. objects' = objects /\ proxies' = proxies /\ tunnels' = tunnels /\ cache' = cache
  BY DEF worldVars
<1>4. WorldOK(objects, proxies, tunnels, agents)' /\ WorldOK(objects, proxies, tunnels, cache)'
  BY <1>2, <1>3 DEF WorldOK
<1>5. TypeOK' /\ PassInv'
  BY <1>1, <1>4 DEF PassesOK, GoodPass, PassInv
<1> QED
  BY <1>5 DEF IInv

\* The pass goes on as q, and nothing is written.
LEMMA GoesOn ==
    ASSUME IInv, NEW k \in Kinds, NEW q, GoodPass(k, q),
           UNCHANGED <<worldVars, agentVars, cache>>,
           pass' = Becomes(k, q) \/ (pass' = pass /\ q = pass[k]),
           queue' \subseteq Sources, budget' \in BudgetType, UnheardKept(k),
           q.at = "delete" /\ q.intact => Entries(agents[q.target]) = {},
           q.at = "release" /\ q.target # None =>
               q.source \in unheard' \/ agents[q.target].owned[q.source] # {}
    PROVE  IInv'
<1>1. PassesOK(pass) /\ agents' = agents /\ news' = news
  BY PassFacts DEF agentVars
<1>2. pass'[k] = q /\ DOMAIN pass' = Kinds /\ \A j \in Kinds \ {k} : pass'[j] = pass[j]
  BY <1>1 DEF Becomes, PassesOK
<1>3. PassesOK(pass')
  BY <1>1, <1>2 DEF PassesOK
<1>4. IntactInv'
  BY <1>1, <1>2 DEF IInv, IntactInv, Entries
<1>5. ASSUME NEW j \in Kinds, pass'[j].at = "release", pass'[j].target # None
      PROVE  pass'[j].source \in unheard' \/ agents[pass'[j].target].owned[pass'[j].source] # {}
  <2>1. CASE j = k
    BY <1>2, <1>5, <2>1
  <2>2. CASE j # k
    <3>1. pass'[j] = pass[j]
      BY <1>2, <2>2
    <3>2. pass[j].source \in Sources /\ KindOf(pass[j].source) = j
      BY <1>5, <3>1, PassFacts
    <3>3. pass[j].source \notin Agents
      BY <3>2, NamesAssumption
    <3>4. pass[j].source \in unheard => pass[j].source \in unheard'
      BY <2>2, <3>2, <3>3 DEF UnheardKept
    <3> QED
      BY <1>5, <3>1, <3>4 DEF IInv, HeldInv
  <2> QED
    BY <2>1, <2>2
<1>6. HeldInv'
  BY <1>1, <1>5 DEF HeldInv
<1>7. /\ DOMAIN agents' = Agents /\ \A b \in Agents : IsAgent(agents'[b])
      /\ news' \subseteq Agents
  BY <1>1 DEF IInv, TypeOK, WorldOK
<1>8. UNCHANGED <<worldVars, cache>> /\ unheard' \subseteq Sources \cup Agents
  BY DEF UnheardKept
<1> QED
  BY <1>3, <1>4, <1>6, <1>7, <1>8, Assembled

\* The invariant of the passes through a write of agent a.
LEMMA WriteKeeps ==
    ASSUME IInv, NEW a \in Agents, NEW new, IsAgent(new), NEW passes, PassesOK(passes),
           SetAgent(a, new, passes),
           \A j \in Kinds : passes[j].at = "delete" => passes[j] = pass[j],
           \A j \in Kinds : passes[j].at = "release" /\ passes[j].target # None =>
               \/ passes[j].source \in unheard'
               \/ agents'[passes[j].target].owned[passes[j].source] # {}
    PROVE  /\ DOMAIN agents' = Agents /\ news' \subseteq Agents
           /\ \A b \in Agents : IsAgent(agents'[b])
           /\ PassesOK(pass')
           /\ IntactInv'
           /\ HeldInv'
<1>1. TypeOK
  BY DEF IInv
<1>2. /\ DOMAIN agents' = Agents /\ news' \subseteq Agents
      /\ \A b \in Agents : IsAgent(agents'[b])
      /\ PassesOK(pass')
      /\ \A j \in Kinds : /\ pass'[j].at = passes[j].at
                          /\ pass'[j].source = passes[j].source
                          /\ pass'[j].target = passes[j].target
                          /\ pass'[j].at = "delete" /\ pass'[j].intact =>
                               /\ passes[j].intact
                               /\ agents'[pass'[j].target] = agents[pass'[j].target]
  BY <1>1, SetAgentEffect
<1>3. ASSUME NEW j \in Kinds, pass'[j].at = "delete", pass'[j].intact
      PROVE  Entries(agents'[pass'[j].target]) = {}
  <2>1. /\ passes[j] = pass[j] /\ passes[j].intact /\ passes[j].at = "delete"
        /\ pass'[j].target = pass[j].target
        /\ agents'[pass'[j].target] = agents[pass[j].target]
    BY <1>2, <1>3
  <2>2. Entries(agents[pass[j].target]) = {}
    BY <2>1 DEF IInv, IntactInv
  <2> QED
    BY <2>1, <2>2
<1>4. IntactInv'
  BY <1>3 DEF IntactInv, Entries
<1>5. HeldInv'
  BY <1>2 DEF HeldInv
<1> QED
  BY <1>2, <1>4, <1>5

\* Agent a is written, and the pass goes on as q.
LEMMA Writes ==
    ASSUME IInv, NEW k \in Kinds, NEW q, GoodPass(k, q), q.at # "delete",
           NEW a \in Agents, NEW new, IsAgent(new), OthersKept(k, a, new),
           UNCHANGED <<worldVars, cache>>, SetAgent(a, new, Becomes(k, q)),
           queue' \subseteq Sources, budget' \in BudgetType, UnheardKept(k),
           q.at = "release" /\ q.target # None =>
               \/ q.source \in unheard'
               \/ q.target = a /\ new.owned[q.source] # {}
               \/ q.target # a /\ agents[q.target].owned[q.source] # {}
    PROVE  IInv'
<1>1. PassesOK(pass) /\ TypeOK
  BY PassFacts DEF IInv
<1> DEFINE passes == Becomes(k, q)
<1>2. passes[k] = q /\ DOMAIN passes = Kinds /\ \A j \in Kinds \ {k} : passes[j] = pass[j]
  BY <1>1 DEF Becomes, PassesOK
<1>3. PassesOK(passes)
  BY <1>1, <1>2 DEF PassesOK
<1>4. \A b \in Agents : agents'[b] = IF b = a THEN new ELSE agents[b]
  BY <1>1, <1>3, SetAgentEffect
<1>5. \A j \in Kinds : passes[j].at = "delete" => passes[j] = pass[j]
  BY <1>2
<1>6. ASSUME NEW j \in Kinds, passes[j].at = "release", passes[j].target # None
      PROVE  \/ passes[j].source \in unheard'
             \/ agents'[passes[j].target].owned[passes[j].source] # {}
  <2>1. passes[j].target \in Agents
    BY <1>3, <1>6 DEF PassesOK, GoodPass, IsPass
  <2>2. CASE j = k
    BY <1>2, <1>4, <1>6, <2>1, <2>2
  <2>3. CASE j # k
    <3>1. passes[j] = pass[j]
      BY <1>2, <2>3
    <3>2. pass[j].source \in Sources /\ KindOf(pass[j].source) = j
      BY <1>6, <3>1, PassFacts
    <3>3. pass[j].source \notin Agents
      BY <3>2, NamesAssumption
    <3>4. pass[j].source \in unheard => pass[j].source \in unheard'
      BY <2>3, <3>2, <3>3 DEF UnheardKept
    <3>5. pass[j].source \in unheard \/ agents[pass[j].target].owned[pass[j].source] # {}
      BY <1>6, <3>1 DEF IInv, HeldInv
    <3>6. agents[pass[j].target].owned[pass[j].source] # {} =>
            agents'[pass[j].target].owned[pass[j].source] # {}
      BY <1>4, <2>1, <2>3, <3>1, <3>2 DEF OthersKept
    <3> QED
      BY <3>1, <3>4, <3>5, <3>6
  <2> QED
    BY <2>2, <2>3
<1> HIDE DEF passes
<1>7. SetAgent(a, new, passes)
  BY DEF passes
<1>8. /\ DOMAIN agents' = Agents /\ news' \subseteq Agents
      /\ \A b \in Agents : IsAgent(agents'[b])
      /\ PassesOK(pass')
      /\ IntactInv'
      /\ HeldInv'
  BY <1>3, <1>5, <1>6, <1>7, WriteKeeps
<1> QED
  BY <1>8, Assembled DEF UnheardKept

LEMMA RefusedStep ==
    ASSUME IInv, NEW k \in Kinds, pass[k].at # "idle", Refused(k)
    PROVE  IInv'
<1>1. GoodPass(k, NoPass) /\ NoPass.at = "idle"
  BY NoPassGood DEF NoPass
<1>2. pass[k].source \in Sources /\ queue \subseteq Sources /\ budget \in BudgetType
        /\ unheard \subseteq Sources \cup Agents
  BY PassFacts DEF IInv, TypeOK, BudgetType
<1>3. /\ UNCHANGED <<worldVars, agentVars, cache>>
      /\ pass' = Becomes(k, NoPass)
      /\ queue' \subseteq Sources
      /\ UnheardKept(k)
  BY <1>2 DEF Refused, Fails, Ends, Becomes, UnheardKept
<1>4. budget' \in BudgetType
  BY <1>2, SpendType DEF Refused
<1> QED
  BY <1>1, <1>3, <1>4, GoesOn

LEMMA AnswerLostStep ==
    ASSUME IInv, NEW k \in Kinds, pass[k].at # "idle", NEW a \in Agents, NEW new,
           IsAgent(new), OthersKept(k, a, new), AnswerLost(k, a, new)
    PROVE  IInv'
<1>1. GoodPass(k, NoPass) /\ NoPass.at = "idle"
  BY NoPassGood DEF NoPass
<1>2. pass[k].source \in Sources /\ queue \subseteq Sources /\ budget \in BudgetType
        /\ unheard \subseteq Sources \cup Agents
  BY PassFacts DEF IInv, TypeOK, BudgetType
<1>3. /\ UNCHANGED <<worldVars, cache>>
      /\ SetAgent(a, new, Becomes(k, NoPass))
      /\ queue' \subseteq Sources
      /\ UnheardKept(k)
  BY <1>2 DEF AnswerLost, Fails, Ends, Becomes, UnheardKept
<1>4. budget' \in BudgetType
  BY <1>2, SpendType DEF AnswerLost
<1> QED
  BY <1>1, <1>3, <1>4, Writes

(***************************************************************************)
(* The steps of a pass.                                                    *)
(***************************************************************************)

\* What every step of a pass leaves alone.
LEMMA Typed ==
    ASSUME IInv
    PROVE  /\ TypeOK
           /\ queue \subseteq Sources /\ news \subseteq Agents /\ budget \in BudgetType
           /\ unheard \subseteq Sources \cup Agents
           /\ \A a \in Agents : IsAgent(agents[a]) /\ IsAgent(cache[a])
BY DEF IInv, TypeOK, WorldOK, BudgetType

LEMMA MissedType ==
    ASSUME NEW p, NEW keep, IsPass(p)
    PROVE  Missed(p, keep) \subseteq Sources \cup Agents
BY DEF Missed, IsPass

\* More is unheard, or the controller's own source is heard again.
LEMMA UnheardGrows ==
    ASSUME IInv, NEW k \in Kinds, NEW s, KindOf(s) = k, NEW M \in SUBSET (Sources \cup Agents),
           unheard' = (unheard \ {s}) \cup M \/ unheard' = unheard \cup M
             \/ unheard' = unheard \ {s} \/ unheard' = unheard
    PROVE  UnheardKept(k)
BY Typed DEF UnheardKept

LEMMA WriteTargetType ==
    ASSUME NEW s, NEW t, NEW store
    PROVE  WriteTarget(s, t, store) \in Agents \cup {None}
BY DEF WriteTarget

LEMMA StartStep ==
    ASSUME IInv, NEW k \in Kinds, StartPass(k)
    PROVE  IInv'
<1>1. PICK s \in queue :
        LET begun == [NoPass EXCEPT !.source = s]
            leaving == [begun EXCEPT !.leaving = TRUE]
            tunnel == TunnelOf(s)
            resolved == [begun EXCEPT !.tunnel = tunnel, !.routing = RoutingOf(s)]
            target == WriteTarget(s, tunnel, cache)
            missing == /\ objects[s].agentRef = None
                       /\ cache[DefaultAgent(tunnel)].kind = "absent"
        IN /\ KindOf(s) = k
           /\ queue' = queue \ {s}
           /\ \/ /\ ~OptedIn(s)
                 /\ pass' = Becomes(k, ReleaseOthers(leaving, None))
                 /\ unheard' = (unheard \ {s}) \cup Missed(leaving, None)
              \/ /\ Halts(s)
                 /\ unheard' = unheard \ {s}
                 /\ UNCHANGED pass
              \/ /\ OptedIn(s) /\ ~Halts(s)
                 /\ \/ /\ target # None
                       /\ pass' = Becomes(k, [resolved EXCEPT !.at = "apply", !.target = target])
                       /\ unheard' = unheard \ {s}
                    \/ /\ missing
                       /\ pass' = Becomes(k, [resolved EXCEPT !.at = "create"])
                       /\ unheard' = unheard \ {s}
                    \/ /\ target = None /\ ~missing
                       /\ pass' = Becomes(k, ReleaseOthers(resolved, None))
                       /\ unheard' = (unheard \ {s}) \cup Missed(begun, None)
  BY Zenon DEF StartPass
<1> DEFINE begun == [NoPass EXCEPT !.source = s]
           leaving == [begun EXCEPT !.leaving = TRUE]
           tunnel == TunnelOf(s)
           resolved == [begun EXCEPT !.tunnel = tunnel, !.routing = RoutingOf(s)]
           target == WriteTarget(s, tunnel, cache)
<1>2. /\ s \in Sources /\ s # None /\ KindOf(s) = k /\ queue' = queue \ {s} /\ TypeOK
      /\ queue' \subseteq Sources
  BY <1>1, Typed, NamesAssumption
<1>3. UNCHANGED <<worldVars, agentVars, cache, budget>>
  BY DEF StartPass
<1>4. IsPass(NoPass)
  BY NoPassGood, <1>2 DEF GoodPass
<1>5. /\ IsPass(begun) /\ begun.source = s
      /\ IsPass(leaving) /\ leaving.source = s
  BY <1>2, <1>4 DEF IsPass, NoPass
<1>6. budget' \in BudgetType
  BY <1>3, Typed
<1>7. CASE ~OptedIn(s)
  <2>1. pass' = Becomes(k, ReleaseOthers(leaving, None))
        /\ unheard' = (unheard \ {s}) \cup Missed(leaving, None)
    BY <1>1, <1>7 DEF Halts
  <2>2. Missed(leaving, None) \subseteq Sources \cup Agents
    BY <1>5, MissedType
  <2>3. UnheardKept(k)
    BY <1>2, <2>1, <2>2, UnheardGrows
  <2> DEFINE q == ReleaseOthers(leaving, None)
  <2> HIDE DEF leaving
  <2>4. /\ GoodPass(k, q)
        /\ q.at \in {"idle", "collect", "release"}
        /\ q.at = "release" => q.target = None
    BY <1>2, <1>5, ReleaseOthersGood
  <2> HIDE DEF q
  <2>5. pass' = Becomes(k, q)
    BY <2>1 DEF q
  <2> QED
    BY <1>2, <1>3, <1>6, <2>3, <2>4, <2>5, GoesOn
<1>8. CASE Halts(s)
  <2>1. pass' = pass /\ unheard' = unheard \ {s}
    BY <1>1, <1>8 DEF Halts
  <2>2. UnheardKept(k)
    BY <1>2, <2>1, UnheardGrows
  <2>3. pass[k] = NoPass
    BY PassFacts DEF StartPass, GoodPass
  <2>4. GoodPass(k, NoPass) /\ NoPass.at = "idle"
    BY NoPassGood DEF NoPass
  <2> QED
    BY <1>2, <1>3, <1>6, <2>1, <2>2, <2>3, <2>4, GoesOn
<1>9. CASE OptedIn(s) /\ ~Halts(s)
  <2>1. /\ TunnelOf(s) # None /\ RoutingOf(s) # None /\ TunnelOf(s) \in Tunnels \cup {None}
        /\ DOMAIN RoutingOf(s) # {}
    BY <1>2, <1>9, TunnelType, RoutingSomething DEF Halts
  <2>2. /\ IsPass(resolved) /\ resolved.source = s /\ resolved.tunnel = tunnel
        /\ resolved.routing = RoutingOf(s)
    BY <1>5, <2>1 DEF IsPass, NoPass
  <2>3. CASE /\ target # None
             /\ pass' = Becomes(k, [resolved EXCEPT !.at = "apply", !.target = target])
             /\ unheard' = unheard \ {s}
    <3> DEFINE q == [resolved EXCEPT !.at = "apply", !.target = target]
    <3>1. target \in Agents
      BY <2>3, WriteTargetType
    <3>2. /\ IsPass(q) /\ q.at = "apply" /\ q.target = target /\ q.source = s
          /\ q.tunnel = tunnel /\ q.routing = RoutingOf(s)
      BY <2>2, <3>1 DEF IsPass, Steps
    <3>3. GoodPass(k, q)
      BY <1>2, <2>1, <2>3, <3>2 DEF GoodPass, WritesSomething
    <3>4. UnheardKept(k)
      BY <1>2, <2>3, UnheardGrows
    <3> HIDE DEF q
    <3>5. pass' = Becomes(k, q)
      BY <2>3 DEF q
    <3> QED
      BY <1>2, <1>3, <1>6, <3>2, <3>3, <3>4, <3>5, GoesOn
  <2>4. CASE /\ pass' = Becomes(k, [resolved EXCEPT !.at = "create"])
             /\ unheard' = unheard \ {s}
    <3> DEFINE q == [resolved EXCEPT !.at = "create"]
    <3>1. /\ IsPass(q) /\ q.at = "create" /\ q.source = s
          /\ q.tunnel = tunnel /\ q.routing = RoutingOf(s)
      BY <2>2 DEF IsPass, Steps
    <3>2. GoodPass(k, q)
      BY <1>2, <2>1, <3>1 DEF GoodPass, WritesSomething
    <3>3. UnheardKept(k)
      BY <1>2, <2>4, UnheardGrows
    <3> HIDE DEF q
    <3>4. pass' = Becomes(k, q)
      BY <2>4 DEF q
    <3> QED
      BY <1>2, <1>3, <1>6, <3>1, <3>2, <3>3, <3>4, GoesOn
  <2>5. CASE /\ pass' = Becomes(k, ReleaseOthers(resolved, None))
             /\ unheard' = (unheard \ {s}) \cup Missed(begun, None)
    <3> DEFINE q == ReleaseOthers(resolved, None)
    <3>2. Missed(begun, None) \subseteq Sources \cup Agents
      BY <1>5, MissedType
    <3>3. UnheardKept(k)
      BY <1>2, <2>5, <3>2, UnheardGrows
    <3> HIDE DEF resolved
    <3>1. /\ GoodPass(k, q)
          /\ q.at \in {"idle", "collect", "release"}
          /\ q.at = "release" => q.target = None
      BY <1>2, <2>2, ReleaseOthersGood
    <3> HIDE DEF q
    <3>4. pass' = Becomes(k, q)
      BY <2>5 DEF q
    <3> QED
      BY <1>2, <1>3, <1>6, <3>1, <3>3, <3>4, GoesOn
  <2> QED
    BY <1>1, <1>9, <2>3, <2>4, <2>5
<1> QED
  BY <1>7, <1>8, <1>9 DEF Halts

\* An agent that is absent has nobody's entries.
LEMMA AbsentEmpty ==
    ASSUME IInv, NEW a \in Agents, agents[a].kind \in {"absent", "ghost"}
    PROVE  \A o \in Owners : agents[a].owned[o] = {}
<1>1. agents[a] \in {NoAgent, Ghost}
  BY Typed DEF IsAgent
<1> QED
  BY <1>1, NoAgentIs

LEMMA CreateStep ==
    ASSUME IInv, NEW k \in Kinds, CreateDefaultAgent(k)
    PROVE  IInv'
<1> DEFINE p == pass[k]
           a == DefaultAgent(p.tunnel)
           found == [p EXCEPT !.at = "apply", !.target = a]
           new == AutoAgent(p.tunnel)
<1>1. /\ p.at = "create" /\ GoodPass(k, p) /\ IsPass(p)
      /\ p.source \in Sources /\ p.source # None /\ KindOf(p.source) = k
  BY PassFacts, NamesAssumption DEF CreateDefaultAgent, GoodPass
<1>2. p.tunnel \in Tunnels /\ DOMAIN p.routing # {}
  BY <1>1 DEF GoodPass, WritesSomething, IsPass
<1>3. a \in Agents
  BY <1>2, AgentsAssumption
<1>4. GoodPass(k, found) /\ found.at = "apply"
  <2>1. /\ IsPass(found) /\ found.at = "apply" /\ found.target = a /\ found.source = p.source
        /\ found.tunnel = p.tunnel /\ found.routing = p.routing
    BY <1>1, <1>3 DEF IsPass, Steps
  <2> QED
    BY <1>1, <1>2, <1>3, <2>1, NamesAssumption DEF GoodPass, WritesSomething
<1>5. IsAgent(new) /\ (agents[a].kind = "absent" => OthersKept(k, a, new))
  <2>1. IsAgent(new)
    BY <1>2, AutoAgentIs
  <2> QED
    BY <1>3, <2>1, AbsentEmpty DEF OthersKept, Owners
<1>6. CASE Refused(k)
  BY <1>1, <1>6, RefusedStep
<1>7. CASE agents[a].kind = "absent" /\ AnswerLost(k, a, new)
  BY <1>1, <1>3, <1>5, <1>7, AnswerLostStep
<1>8. CASE /\ agents[a].kind = "absent"
           /\ SetAgent(a, new, Becomes(k, found))
           /\ UNCHANGED <<worldVars, cache, queue, budget, unheard>>
  <2>1. UnheardKept(k) /\ queue' \subseteq Sources /\ budget' \in BudgetType
    BY <1>1, <1>8, UnheardGrows, Typed
  <2> HIDE DEF found, new, a
  <2> QED
    BY <1>3, <1>4, <1>5, <1>8, <2>1, Writes
<1>9. CASE /\ UNCHANGED <<agentVars, budget>>
           /\ cache[a].kind = "absent"
           /\ Fails(k)
           /\ pass' = Ends(k)
  <2>1. GoodPass(k, NoPass) /\ NoPass.at = "idle" /\ pass' = Becomes(k, NoPass)
    BY <1>9, NoPassGood DEF NoPass, Ends, Becomes
  <2>2. /\ UnheardKept(k) /\ queue' \subseteq Sources /\ budget' \in BudgetType
        /\ UNCHANGED <<worldVars, agentVars, cache>>
    BY <1>1, <1>9, UnheardGrows, Typed DEF Fails
  <2> QED
    BY <2>1, <2>2, GoesOn
<1>10. CASE /\ UNCHANGED <<agentVars, budget>>
            /\ pass' = Becomes(k, found)
            /\ UNCHANGED <<worldVars, cache, queue, unheard>>
  <2>1. UnheardKept(k) /\ queue' \subseteq Sources /\ budget' \in BudgetType
    BY <1>1, <1>10, UnheardGrows, Typed
  <2> HIDE DEF found
  <2> QED
    BY <1>4, <1>10, <2>1, GoesOn
<1>11. CASE /\ UNCHANGED <<agentVars, budget>>
            /\ pass' = Becomes(k, ReleaseOthers(p, None))
            /\ unheard' = unheard \cup Missed(p, None)
            /\ UNCHANGED <<worldVars, cache, queue>>
  <2> DEFINE q == ReleaseOthers(p, None)
  <2>1. /\ GoodPass(k, q)
        /\ q.at \in {"idle", "collect", "release"}
        /\ q.at = "release" => q.target = None
    BY <1>1, ReleaseOthersGood
  <2>2. Missed(p, None) \subseteq Sources \cup Agents
    BY <1>1, MissedType
  <2>3. UnheardKept(k) /\ queue' \subseteq Sources /\ budget' \in BudgetType
    BY <1>1, <1>11, <2>2, UnheardGrows, Typed
  <2>4. pass' = Becomes(k, q)
    BY <1>11
  <2> HIDE DEF q
  <2> QED
    BY <1>11, <2>1, <2>3, <2>4, GoesOn
<1> QED
  BY <1>6, <1>7, <1>8, <1>9, <1>10, <1>11, Zenon DEF CreateDefaultAgent

LEMMA ApplyStep ==
    ASSUME IInv, NEW k \in Kinds, ApplyRouting(k)
    PROVE  IInv'
<1> DEFINE p == pass[k]
           s == p.source
           a == p.target
           new == [agents[a] EXCEPT !.owned[s] = ToSet(p.routing)]
           invalid == agents[a].kind \in {"absent", "ghost"} \/ RepeatsKey(p.routing)
<1>1. /\ p.at = "apply" /\ GoodPass(k, p) /\ IsPass(p)
      /\ s \in Sources /\ s # None /\ KindOf(s) = k
  BY PassFacts, NamesAssumption DEF ApplyRouting, GoodPass
<1>2. a \in Agents /\ a # None /\ DOMAIN p.routing # {}
  BY <1>1, NamesAssumption DEF GoodPass, WritesSomething, IsPass
<1>3. \E conflict \in BOOLEAN :
        \/ /\ invalid
           /\ Fails(k)
           /\ pass' = Ends(k)
           /\ UNCHANGED <<agentVars, budget>>
        \/ /\ ~invalid /\ conflict
           /\ pass' = Ends(k)
           /\ queue' = queue \cup RetriedAfterConflict(s)
           /\ unheard' = unheard \cup {s}
           /\ UNCHANGED <<worldVars, agentVars, cache, budget>>
        \/ /\ ~invalid /\ ~conflict
           /\ SetAgent(a, new, Becomes(k, ReleaseOthers(p, a)))
           /\ unheard' = unheard \cup Missed(p, a)
           /\ UNCHANGED <<worldVars, cache, queue, budget>>
        \/ Refused(k)
        \/ ~invalid /\ ~conflict /\ AnswerLost(k, a, new)
  BY Zenon DEF ApplyRouting
<1>4. ~invalid => IsAgent(new) /\ OthersKept(k, a, new) /\ new.owned[s] # {}
  <2> SUFFICES ASSUME agents[a].kind \notin {"absent", "ghost"}
               PROVE  IsAgent(new) /\ OthersKept(k, a, new) /\ new.owned[s] # {}
    OBVIOUS
  <2>1. IsAgent(agents[a])
    BY <1>2, Typed
  <2>2. /\ new.kind = agents[a].kind
        /\ DOMAIN new.owned = Owners
        /\ \A o \in Owners : new.owned[o] = IF o = s THEN ToSet(p.routing) ELSE agents[a].owned[o]
    BY <1>1, <2>1 DEF IsAgent, Owners
  <2>3. IsAgent(new)
    BY <2>1, <2>2 DEF IsAgent
  <2>4. ToSet(p.routing) # {}
    BY <1>2 DEF ToSet
  <2> HIDE DEF new
  <2> QED
    BY <1>1, <2>2, <2>3, <2>4 DEF OthersKept, Owners
<1>5. CASE Refused(k)
  BY <1>1, <1>5, RefusedStep
<1>6. CASE ~invalid /\ AnswerLost(k, a, new)
  <2> HIDE DEF new
  <2> QED
    BY <1>1, <1>2, <1>4, <1>6, AnswerLostStep
<1>7. CASE pass' = Ends(k) /\ UNCHANGED <<worldVars, agentVars, cache, budget>>
           /\ queue' \subseteq Sources
           /\ (unheard' = unheard \/ unheard' = unheard \cup {s})
  <2>1. GoodPass(k, NoPass) /\ NoPass.at = "idle" /\ pass' = Becomes(k, NoPass)
    BY <1>7, NoPassGood DEF NoPass, Ends, Becomes
  <2>2. UnheardKept(k) /\ budget' \in BudgetType
    BY <1>1, <1>7, UnheardGrows, Typed
  <2> QED
    BY <1>7, <2>1, <2>2, GoesOn
<1>8. CASE /\ ~invalid
           /\ SetAgent(a, new, Becomes(k, ReleaseOthers(p, a)))
           /\ unheard' = unheard \cup Missed(p, a)
           /\ UNCHANGED <<worldVars, cache, queue, budget>>
  <2> DEFINE q == ReleaseOthers(p, a)
  <2>1. /\ GoodPass(k, q)
        /\ q.at \in {"idle", "collect", "release"}
        /\ q.at = "release" => q.target = a /\ q.source = s
    BY <1>1, <1>2, ReleaseOthersGood
  <2>2. Missed(p, a) \subseteq Sources \cup Agents
    BY <1>1, MissedType
  <2>3. UnheardKept(k) /\ queue' \subseteq Sources /\ budget' \in BudgetType
    BY <1>1, <1>8, <2>2, UnheardGrows, Typed
  <2>4. SetAgent(a, new, Becomes(k, q))
    BY <1>8
  <2> HIDE DEF q, new
  <2>5. q.at # "delete" /\ (q.at = "release" /\ q.target # None =>
                              q.target = a /\ new.owned[q.source] # {})
    BY <1>4, <1>8, <2>1
  <2> QED
    BY <1>2, <1>4, <1>8, <2>1, <2>3, <2>4, <2>5, Writes
<1>9. (invalid /\ Fails(k) /\ pass' = Ends(k) /\ UNCHANGED <<agentVars, budget>>) => IInv'
  <2>1. Fails(k) => /\ queue' \subseteq Sources /\ unheard' = unheard
                    /\ UNCHANGED <<worldVars, cache>>
    BY <1>1, Typed DEF Fails
  <2> QED
    BY <1>7, <2>1
<1>10. queue' = queue \cup RetriedAfterConflict(s) => queue' \subseteq Sources
  BY Typed DEF RetriedAfterConflict
<1> HIDE DEF new, invalid
<1> QED
  BY <1>3, <1>5, <1>6, <1>7, <1>8, <1>9, <1>10

\* What releasing s leaves of an agent.
Released(s, agent) == IF agent.kind = "absent" THEN Ghost ELSE [agent EXCEPT !.owned[s] = {}]

LEMMA ReleasedIs ==
    ASSUME IInv, NEW s \in Sources, NEW a \in Agents
    PROVE  /\ IsAgent(Released(s, agents[a]))
           /\ \A o \in Owners : Released(s, agents[a]).owned[o]
                                  = IF o = s THEN {} ELSE agents[a].owned[o]
           /\ Released(s, agents[a]).kind = "auto" => agents[a].kind = "auto"
<1> DEFINE new == Released(s, agents[a])
<1>1. CASE agents[a].kind = "absent"
  BY <1>1, AbsentEmpty, NoAgentIs DEF Released, Ghost, NoAgent
<1>2. CASE agents[a].kind = "ghost"
  <2> DEFINE none == [o \in Owners |-> {}]
  <2>1. agents[a] \in {NoAgent, Ghost}
    BY <1>2, Typed DEF IsAgent
  <2>2. agents[a] = Ghost
    BY <1>2, <2>1 DEF NoAgent, Ghost
  <2>3. Ghost = [kind |-> "ghost", mode |-> "Managed", tunnel |-> None, owned |-> none]
    BY DEF Ghost, NoAgent
  <2>4. [none EXCEPT ![s] = {}] = none
    OBVIOUS
  <2> HIDE DEF none
  <2>5. [Ghost EXCEPT !.owned[s] = {}] = [Ghost EXCEPT !.owned = [none EXCEPT ![s] = {}]]
    BY <2>3
  <2>6. new = Ghost
    BY <1>2, <2>2, <2>3, <2>4, <2>5 DEF Released
  <2> QED
    BY <2>2, <2>3, <2>6, NoAgentIs
<1>3. CASE agents[a].kind \notin {"absent", "ghost"}
  <2>1. IsAgent(agents[a])
    BY Typed
  <2>2. /\ new.kind = agents[a].kind
        /\ DOMAIN new.owned = Owners
        /\ \A o \in Owners : new.owned[o] = IF o = s THEN {} ELSE agents[a].owned[o]
    BY <1>3, <2>1 DEF Released, IsAgent, Owners
  <2> QED
    BY <1>3, <2>1, <2>2 DEF Released, IsAgent
<1> QED
  BY <1>1, <1>2, <1>3

LEMMA ReleaseStep ==
    ASSUME IInv, NEW k \in Kinds, ReleaseRouting(k)
    PROVE  IInv'
<1> DEFINE p == pass[k]
           new(a) == IF agents[a].kind = "absent" THEN Ghost
                     ELSE [agents[a] EXCEPT !.owned[p.source] = {}]
<1>1. /\ p.at = "release" /\ GoodPass(k, p) /\ IsPass(p)
      /\ p.source \in Sources /\ p.source # None /\ KindOf(p.source) = k
  BY PassFacts, NamesAssumption DEF ReleaseRouting, GoodPass
<1>2. PICK a \in p.todo :
        \/ /\ SetAgent(a, new(a), Becomes(k, Releasing(p, p.todo \ {a})))
           /\ unheard' = unheard \cup (Missed(p, p.target) \cap Agents)
           /\ UNCHANGED <<worldVars, cache, queue, budget>>
        \/ Refused(k)
        \/ AnswerLost(k, a, new(a))
  BY Zenon DEF ReleaseRouting
<1>3. a \in Agents /\ p.target \notin p.todo /\ p.target # a /\ p.todo \in SUBSET Agents
  BY <1>1, <1>2 DEF GoodPass, IsPass, WritesSomething
<1>4. IsAgent(new(a)) /\ \A o \in Owners : o # p.source => new(a).owned[o] = agents[a].owned[o]
  <2>1. new(a) = Released(p.source, agents[a])
    BY DEF Released
  <2> HIDE DEF new
  <2> QED
    BY <1>1, <1>3, <2>1, ReleasedIs
<1>5. OthersKept(k, a, new(a))
  BY <1>1, <1>4 DEF OthersKept, Owners
<1>6. CASE Refused(k)
  BY <1>1, <1>6, RefusedStep
<1>7. CASE AnswerLost(k, a, new(a))
  <2> HIDE DEF new
  <2> QED
    BY <1>1, <1>3, <1>4, <1>5, <1>7, AnswerLostStep
<1>8. CASE /\ SetAgent(a, new(a), Becomes(k, Releasing(p, p.todo \ {a})))
           /\ unheard' = unheard \cup (Missed(p, p.target) \cap Agents)
           /\ UNCHANGED <<worldVars, cache, queue, budget>>
  <2> DEFINE q == Releasing(p, p.todo \ {a})
  <2>1. /\ GoodPass(k, q)
        /\ q.at \in {"idle", "collect", "release"}
        /\ q.at = "release" => q.target = p.target /\ q.source = p.source
    <3>1. p.todo \ {a} \in SUBSET Agents /\ p.target \notin p.todo \ {a}
      BY <1>3
    <3> QED
      BY <1>1, <3>1, ReleasingGood
  <2>2. UnheardKept(k) /\ queue' \subseteq Sources /\ budget' \in BudgetType
    BY <1>1, <1>8, UnheardGrows, Typed
  <2>3. SetAgent(a, new(a), Becomes(k, q))
    BY <1>8
  <2>4. p.target # None => p.source \in unheard \/ agents[p.target].owned[p.source] # {}
    BY <1>1 DEF IInv, HeldInv
  <2> HIDE DEF q, new
  <2>5. q.at # "delete" /\ (q.at = "release" /\ q.target # None =>
                              \/ q.source \in unheard'
                              \/ q.target # a /\ agents[q.target].owned[q.source] # {})
    BY <1>3, <1>8, <2>1, <2>4
  <2> QED
    BY <1>3, <1>4, <1>5, <1>8, <2>1, <2>2, <2>3, <2>5, Writes
<1> QED
  BY <1>2, <1>6, <1>7, <1>8

LEMMA ReadOrphanStep ==
    ASSUME IInv, NEW k \in Kinds, ReadOrphan(k)
    PROVE  IInv'
<1> DEFINE p == pass[k]
<1>1. /\ p.at = "collect" /\ GoodPass(k, p) /\ IsPass(p)
      /\ p.source \in Sources /\ p.source # None /\ KindOf(p.source) = k
  BY PassFacts, NamesAssumption DEF ReadOrphan, GoodPass
<1>2. CASE Refused(k)
  BY <1>1, <1>2, RefusedStep
<1>3. ASSUME NEW a \in p.todo,
             \/ /\ Entries(agents[a]) = {}
                /\ pass' = Becomes(k, [p EXCEPT !.at = "delete", !.target = a,
                                               !.todo = @ \ {a}, !.intact = TRUE])
             \/ pass' = Becomes(k, Collected(p, a)),
             unheard' = unheard \ {a},
             UNCHANGED <<worldVars, agentVars, cache, queue, budget>>
      PROVE  IInv'
  <2>1. a \in Agents /\ a # None
    BY <1>1, NamesAssumption DEF IsPass
  <2>2. UnheardKept(k) /\ queue' \subseteq Sources /\ budget' \in BudgetType
    BY <1>3, <2>1, Typed DEF UnheardKept
  <2>3. CASE /\ Entries(agents[a]) = {}
             /\ pass' = Becomes(k, [p EXCEPT !.at = "delete", !.target = a,
                                             !.todo = @ \ {a}, !.intact = TRUE])
    <3> DEFINE q == [p EXCEPT !.at = "delete", !.target = a, !.todo = @ \ {a}, !.intact = TRUE]
    <3>1. /\ IsPass(q) /\ q.at = "delete" /\ q.target = a /\ q.source = p.source
      BY <1>1, <2>1 DEF IsPass, Steps
    <3>2. GoodPass(k, q)
      BY <1>1, <2>1, <3>1 DEF GoodPass, WritesSomething
    <3>3. pass' = Becomes(k, q)
      BY <2>3
    <3> HIDE DEF q
    <3> QED
      BY <1>3, <2>2, <2>3, <3>1, <3>2, <3>3, GoesOn
  <2>4. CASE pass' = Becomes(k, Collected(p, a))
    <3> DEFINE q == Collected(p, a)
    <3>1. GoodPass(k, q) /\ q.at \in {"idle", "collect"}
      BY <1>1, CollectedGood
    <3>2. pass' = Becomes(k, q)
      BY <2>4
    <3> HIDE DEF q
    <3> QED
      BY <1>3, <2>2, <3>1, <3>2, GoesOn
  <2> QED
    BY <1>3, <2>3, <2>4
<1> QED
  BY <1>2, <1>3, Zenon DEF ReadOrphan, OrphanView

\* An agent is deleted only as it was read: with nobody's entries.
LEMMA DeletesEmpty ==
    ASSUME IInv, NEW k \in Kinds, pass[k].at = "delete", PreconditionHolds(pass[k])
    PROVE  \A o \in Owners : agents[pass[k].target].owned[o] = {}
<1>1. Entries(agents[pass[k].target]) = {}
  BY DEF IInv, IntactInv, PreconditionHolds
<1> QED
  BY <1>1 DEF Entries

LEMMA DeleteOrphanStep ==
    ASSUME IInv, NEW k \in Kinds, DeleteOrphan(k)
    PROVE  IInv'
<1> DEFINE p == pass[k]
           a == p.target
           q == Collected(p, a)
<1>1. /\ p.at = "delete" /\ GoodPass(k, p) /\ IsPass(p)
      /\ p.source \in Sources /\ p.source # None /\ KindOf(p.source) = k
  BY PassFacts, NamesAssumption DEF DeleteOrphan, GoodPass
<1>2. a \in Agents
  BY <1>1 DEF GoodPass, WritesSomething, IsPass
<1>3. GoodPass(k, q) /\ q.at \in {"idle", "collect"}
  BY <1>1, CollectedGood
<1>4. IsAgent(NoAgent) /\ (PreconditionHolds(p) => OthersKept(k, a, NoAgent))
  BY <1>1, DeletesEmpty, NoAgentIs DEF OthersKept, Owners
<1>5. CASE Refused(k)
  BY <1>1, <1>5, RefusedStep
<1>6. CASE PreconditionHolds(p) /\ AnswerLost(k, a, NoAgent)
  BY <1>1, <1>2, <1>4, <1>6, AnswerLostStep
<1>7. CASE /\ PreconditionHolds(p)
           /\ SetAgent(a, NoAgent, Becomes(k, Collected(p, a)))
           /\ UNCHANGED <<worldVars, cache, queue, budget, unheard>>
  <2>1. UnheardKept(k) /\ queue' \subseteq Sources /\ budget' \in BudgetType
    BY <1>1, <1>7, UnheardGrows, Typed
  <2>2. SetAgent(a, NoAgent, Becomes(k, q))
    BY <1>7
  <2> HIDE DEF q
  <2> QED
    BY <1>2, <1>3, <1>4, <1>7, <2>1, <2>2, Writes
<1>8. CASE /\ pass' = Becomes(k, Collected(p, a))
           /\ unheard' = unheard \cup {a}
           /\ UNCHANGED <<worldVars, agentVars, cache, queue, budget>>
  <2>1. UnheardKept(k) /\ queue' \subseteq Sources /\ budget' \in BudgetType
    BY <1>1, <1>2, <1>8, UnheardGrows, Typed
  <2>2. pass' = Becomes(k, q)
    BY <1>8
  <2> HIDE DEF q
  <2> QED
    BY <1>3, <1>8, <2>1, <2>2, GoesOn
<1> HIDE DEF q
<1> QED
  BY <1>5, <1>6, <1>7, <1>8, Zenon DEF DeleteOrphan

(***************************************************************************)
(* The informers, users, the agent reconciler, restarts.                   *)
(***************************************************************************)

\* The pieces of the next state, whatever changed.
LEMMA WorldAssembled ==
    ASSUME WorldOK(objects', proxies', tunnels', agents'),
           WorldOK(objects', proxies', tunnels', cache'),
           queue' \subseteq Sources, news' \subseteq Agents, budget' \in BudgetType,
           unheard' \subseteq Sources \cup Agents,
           PassesOK(pass'), IntactInv', HeldInv'
    PROVE  IInv'
<1>1. TypeOK'
  BY DEF TypeOK, BudgetType, PassesOK, GoodPass
<1>2. PassInv'
  BY DEF PassesOK, GoodPass, PassInv
<1> QED
  BY <1>1, <1>2 DEF IInv

\* The passes do not notice.
LEMMA PassesAside ==
    ASSUME IInv, UNCHANGED <<agents, pass>>, unheard \subseteq unheard'
    PROVE  PassesOK(pass') /\ IntactInv' /\ HeldInv'
<1>1. PassesOK(pass) /\ agents' = agents /\ pass' = pass
  BY PassesAre DEF IInv
<1>2. IntactInv' /\ HeldInv'
  BY <1>1 DEF IInv, IntactInv, HeldInv, Entries
<1> QED
  BY <1>1, <1>2

LEMMA WorldTyped ==
    ASSUME IInv
    PROVE  WorldOK(objects, proxies, tunnels, agents) /\ WorldOK(objects, proxies, tunnels, cache)
BY DEF IInv, TypeOK

LEMMA SyncAgentStep ==
    ASSUME IInv, NEW a \in Agents, SyncAgent(a)
    PROVE  IInv'
<1>1. /\ cache' = [cache EXCEPT ![a] = agents[a]]
      /\ objects' = objects /\ proxies' = proxies /\ tunnels' = tunnels
      /\ agents' = agents /\ pass' = pass /\ budget' = budget
  BY DEF SyncAgent, worldVars
<1>2. queue' \subseteq Sources
  BY Typed DEF SyncAgent, AgentSourceRequests
<1>3. unheard \subseteq unheard' /\ unheard' \subseteq Sources \cup Agents
  BY Typed DEF SyncAgent, NotToldOf
<1>4. WorldOK(objects', proxies', tunnels', agents') /\ WorldOK(objects', proxies', tunnels', cache')
  BY <1>1, WorldTyped DEF WorldOK
<1>5. budget' \in BudgetType /\ news' \subseteq Agents
  BY <1>1, Typed DEF SyncAgent
<1>6. PassesOK(pass') /\ IntactInv' /\ HeldInv'
  BY <1>1, <1>3, PassesAside
<1> QED
  BY <1>2, <1>3, <1>4, <1>5, <1>6, WorldAssembled

LEMMA EditSourceStep ==
    ASSUME IInv, NEW s \in Sources, EditSource(s)
    PROVE  IInv'
<1>1. PICK m \in (Manifests[s] \cup {None}) \ {objects[s]} :
        /\ objects' = [objects EXCEPT ![s] = m]
        /\ queue' = queue
               \cup {x \in {s} : Admits(x, objects[x]) \/ Admits(x, m)}
               \cup (IF s \in Gateways THEN RoutesForGateway(objects, s) ELSE {})
  BY DEF EditSource
<1>2. /\ Spend("edits") /\ proxies' = proxies /\ tunnels' = tunnels /\ agents' = agents /\ news' = news
      /\ cache' = cache /\ pass' = pass /\ unheard' = unheard
  BY DEF EditSource, agentVars
<1>3. queue' \subseteq Sources
  BY <1>1, Typed DEF RoutesForGateway, Sources
<1>4. WorldOK(objects', proxies', tunnels', agents') /\ WorldOK(objects', proxies', tunnels', cache')
  BY <1>1, <1>2, WorldTyped DEF WorldOK
<1>5. budget' \in BudgetType /\ news' \subseteq Agents
  BY <1>2, Typed, SpendType
<1>6. PassesOK(pass') /\ IntactInv' /\ HeldInv'
  BY <1>2, PassesAside
<1>7. unheard' \subseteq Sources \cup Agents
  BY <1>2, Typed
<1> QED
  BY <1>3, <1>4, <1>5, <1>6, <1>7, WorldAssembled

LEMMA EditTunnelStep ==
    ASSUME IInv, NEW t \in Tunnels, EditTunnel(t)
    PROVE  IInv'
<1>1. /\ Spend("edits") /\ objects' = objects /\ proxies' = proxies /\ agents' = agents /\ news' = news
      /\ cache' = cache /\ pass' = pass /\ unheard' = unheard
  BY DEF EditTunnel, agentVars
<1>2. queue' \subseteq Sources
  BY Typed DEF EditTunnel, TunnelSourceRequests
<1>3. tunnels' \subseteq Tunnels
  BY WorldTyped DEF EditTunnel, WorldOK
<1>4. WorldOK(objects', proxies', tunnels', agents') /\ WorldOK(objects', proxies', tunnels', cache')
  BY <1>1, <1>3, WorldTyped DEF WorldOK
<1>5. budget' \in BudgetType /\ news' \subseteq Agents
  BY <1>1, Typed, SpendType
<1>6. PassesOK(pass') /\ IntactInv' /\ HeldInv'
  BY <1>1, PassesAside
<1>7. unheard' \subseteq Sources \cup Agents
  BY <1>1, Typed
<1> QED
  BY <1>2, <1>4, <1>5, <1>6, <1>7, WorldAssembled

LEMMA EditProxyStep ==
    ASSUME IInv, NEW ref \in DOMAIN Origins, EditProxy(ref)
    PROVE  IInv'
<1>1. /\ Spend("edits") /\ objects' = objects /\ tunnels' = tunnels /\ agents' = agents /\ news' = news
      /\ cache' = cache /\ pass' = pass /\ queue' = queue
  BY DEF EditProxy, agentVars
<1>2. PICK origin \in Origins[ref] : proxies' = [proxies EXCEPT ![ref] = origin]
  BY DEF EditProxy
<1>3. unheard \subseteq unheard' /\ unheard' \subseteq Sources \cup Agents
  BY Typed DEF EditProxy
<1>4. WorldOK(objects', proxies', tunnels', agents') /\ WorldOK(objects', proxies', tunnels', cache')
  BY <1>1, <1>2, WorldTyped DEF WorldOK
<1>5. news' \subseteq Agents /\ budget' \in BudgetType /\ queue' \subseteq Sources
  BY <1>1, Typed, SpendType
<1>6. PassesOK(pass') /\ IntactInv' /\ HeldInv'
  BY <1>1, <1>3, PassesAside
<1> QED
  BY <1>3, <1>4, <1>5, <1>6, WorldAssembled

\* A user who writes agent a leaves the entries of the sources alone.
LEMMA WriteAgentStep ==
    ASSUME IInv, NEW a \in Agents, WriteAgent(a)
    PROVE  IInv'
<1> DEFINE new(u) == [kind |-> IF agents[a].kind = "auto" THEN "auto" ELSE "user",
                      mode |-> u.mode, tunnel |-> u.tunnel,
                      owned |-> [agents[a].owned EXCEPT ![User] = u.entries]]
<1>1. PICK u \in UserSpecs[a] : SetAgent(a, new(u), pass)
  BY DEF WriteAgent
<1>2. /\ Spend("edits") /\ objects' = objects /\ proxies' = proxies /\ tunnels' = tunnels
      /\ cache' = cache /\ queue' = queue
  BY DEF WriteAgent, worldVars
<1>3. unheard \subseteq unheard' /\ unheard' \subseteq Sources \cup Agents
  BY Typed DEF WriteAgent, NotToldOf
<1>4. IsAgent(agents[a])
  BY Typed
<1>5. IsAgent(new(u)) /\ \A s \in Sources : new(u).owned[s] = agents[a].owned[s]
  <2>1. u.mode \in {"Managed", "ObserveOnly"} /\ u.tunnel \in Tunnels \cup {None}
    BY <1>1, UserSpecsAssumption
  <2>2. DOMAIN new(u).owned = Owners /\ new(u).kind \in {"auto", "user"}
    BY <1>4 DEF IsAgent
  <2>3. IsAgent(new(u))
    BY <2>1, <2>2 DEF IsAgent
  <2>4. \A s \in Sources : new(u).owned[s] = agents[a].owned[s]
    BY <1>4, NamesAssumption DEF IsAgent, Owners
  <2> QED
    BY <2>3, <2>4
<1> HIDE DEF new
<1>6. PassesOK(pass) /\ TypeOK
  BY PassesAre DEF IInv
<1>7. \A b \in Agents : agents'[b] = IF b = a THEN new(u) ELSE agents[b]
  BY <1>1, <1>5, <1>6, SetAgentEffect
<1>8. ASSUME NEW j \in Kinds, pass[j].at = "release", pass[j].target # None
      PROVE  pass[j].source \in unheard' \/ agents'[pass[j].target].owned[pass[j].source] # {}
  <2>1. pass[j].source \in Sources /\ pass[j].target \in Agents
    BY <1>6, <1>8, PassFacts DEF PassesOK, GoodPass, IsPass
  <2>2. agents'[pass[j].target].owned[pass[j].source] = agents[pass[j].target].owned[pass[j].source]
    BY <1>5, <1>7, <2>1
  <2> QED
    BY <1>3, <1>8, <2>2 DEF IInv, HeldInv
<1>9. /\ DOMAIN agents' = Agents /\ news' \subseteq Agents
      /\ \A b \in Agents : IsAgent(agents'[b])
      /\ PassesOK(pass')
      /\ IntactInv'
      /\ HeldInv'
  BY <1>1, <1>5, <1>6, <1>8, WriteKeeps
<1>10. WorldOK(objects', proxies', tunnels', agents') /\ WorldOK(objects', proxies', tunnels', cache')
  BY <1>2, <1>9, WorldTyped DEF WorldOK
<1>11. budget' \in BudgetType /\ queue' \subseteq Sources
  BY <1>2, Typed, SpendType
<1> QED
  BY <1>3, <1>9, <1>10, <1>11, WorldAssembled

LEMMA DeleteAgentStep ==
    ASSUME IInv, NEW a \in Agents, DeleteAgent(a)
    PROVE  IInv'
<1>1. /\ Spend("edits") /\ objects' = objects /\ proxies' = proxies /\ tunnels' = tunnels
      /\ cache' = cache /\ queue' = queue /\ SetAgent(a, NoAgent, pass)
  BY DEF DeleteAgent, worldVars
<1>2. unheard' = unheard \cup NotToldOf(a)
                   \cup ({pass[k].source : k \in {c \in Kinds : pass[c].target = a}} \ {None})
  BY DEF DeleteAgent
<1>3. PassesOK(pass) /\ TypeOK /\ \A k \in Kinds : IsPass(pass[k])
  BY PassesAre DEF IInv, PassesOK, GoodPass
<1>4. unheard \subseteq unheard' /\ unheard' \subseteq Sources \cup Agents
  BY <1>2, <1>3, Typed DEF NotToldOf, IsPass
<1>5. IsAgent(NoAgent)
  BY NoAgentIs
<1>6. \A b \in Agents : agents'[b] = IF b = a THEN NoAgent ELSE agents[b]
  BY <1>1, <1>3, <1>5, SetAgentEffect
<1>7. ASSUME NEW j \in Kinds, pass[j].at = "release", pass[j].target # None
      PROVE  pass[j].source \in unheard' \/ agents'[pass[j].target].owned[pass[j].source] # {}
  <2>1. pass[j].source \in Sources /\ pass[j].source # None /\ pass[j].target \in Agents
    BY <1>3, <1>7, PassFacts, NamesAssumption DEF IsPass
  <2>2. CASE pass[j].target = a
    BY <1>2, <2>1, <2>2
  <2>3. CASE pass[j].target # a
    BY <1>4, <1>6, <1>7, <2>1, <2>3 DEF IInv, HeldInv
  <2> QED
    BY <2>2, <2>3
<1>8. /\ DOMAIN agents' = Agents /\ news' \subseteq Agents
      /\ \A b \in Agents : IsAgent(agents'[b])
      /\ PassesOK(pass')
      /\ IntactInv'
      /\ HeldInv'
  BY <1>1, <1>3, <1>5, <1>7, WriteKeeps
<1>9. WorldOK(objects', proxies', tunnels', agents') /\ WorldOK(objects', proxies', tunnels', cache')
  BY <1>1, <1>8, WorldTyped DEF WorldOK
<1>10. budget' \in BudgetType /\ queue' \subseteq Sources
  BY <1>1, Typed, SpendType
<1> QED
  BY <1>4, <1>8, <1>9, <1>10, WorldAssembled

LEMMA WriteAgentStatusStep ==
    ASSUME IInv, NEW a \in Agents, WriteAgentStatus(a)
    PROVE  IInv'
<1>1. /\ pass' = WithoutPrecondition(a, pass)
      /\ objects' = objects /\ proxies' = proxies /\ tunnels' = tunnels /\ agents' = agents /\ news' = news
      /\ cache' = cache /\ queue' = queue /\ budget' = budget /\ unheard' = unheard
  BY DEF WriteAgentStatus, worldVars, agentVars
<1>2. PassesOK(pass)
  BY PassFacts, PassesAre DEF IInv
<1>3. /\ PassesOK(pass')
      /\ \A k \in Kinds : /\ pass'[k].at = pass[k].at
                          /\ pass'[k].source = pass[k].source
                          /\ pass'[k].target = pass[k].target
                          /\ pass'[k].at = "delete" /\ pass'[k].intact => pass[k].intact
  BY <1>1, <1>2, ClearedPasses
<1>4. IntactInv' /\ HeldInv'
  BY <1>1, <1>3 DEF IInv, IntactInv, HeldInv, Entries
<1>5. WorldOK(objects', proxies', tunnels', agents') /\ WorldOK(objects', proxies', tunnels', cache')
  BY <1>1, WorldTyped
<1>6. news' \subseteq Agents /\ budget' \in BudgetType /\ queue' \subseteq Sources /\ unheard' \subseteq Sources \cup Agents
  BY <1>1, Typed
<1> QED
  BY <1>3, <1>4, <1>5, <1>6, WorldAssembled

LEMMA RestartStep ==
    ASSUME IInv, Restart
    PROVE  IInv'
<1>1. /\ Spend("restarts") /\ proxies' = proxies /\ tunnels' = tunnels /\ agents' = agents
      /\ cache' = agents /\ news' = {} /\ pass' = [k \in Kinds |-> NoPass]
  BY DEF Restart
<1>2. DOMAIN objects' = Sources /\ \A s \in Sources : objects'[s] \in Manifests[s] \cup {None}
  <2>1. CASE objects' = objects
    BY <2>1, WorldTyped DEF WorldOK
  <2>2. CASE \E s \in Sources : \E m \in (Manifests[s] \cup {None}) \ {objects[s]} :
               objects' = [objects EXCEPT ![s] = m]
    BY <2>2, WorldTyped DEF WorldOK
  <2> QED
    BY <2>1, <2>2 DEF Restart
<1>3. WorldOK(objects', proxies', tunnels', agents') /\ WorldOK(objects', proxies', tunnels', cache')
  BY <1>1, <1>2, WorldTyped DEF WorldOK
<1>4. PassesOK(pass') /\ NoPass.at = "idle"
  BY <1>1, NoPassGood DEF PassesOK, NoPass
<1>5. IntactInv' /\ HeldInv'
  BY <1>1, <1>4 DEF IntactInv, HeldInv
<1>6. queue' \subseteq Sources
  BY DEF Restart
<1>7. \A k \in Kinds : pass[k].source \in Sources \cup {None}
  BY DEF IInv, TypeOK, IsPass
<1>8. unheard' \subseteq Sources \cup Agents
  BY <1>7, Typed DEF Restart
<1>9. budget' \in BudgetType /\ news' \subseteq Agents
  BY <1>1, Typed, SpendType
<1> QED
  BY <1>3, <1>4, <1>5, <1>6, <1>8, <1>9, WorldAssembled

LEMMA InitInv == Init => IInv
<1> SUFFICES ASSUME Init PROVE IInv
  OBVIOUS
<1>1. WorldOK(objects, proxies, tunnels, agents) /\ WorldOK(objects, proxies, tunnels, cache)
  BY WorldsAssumption DEF Init
<1>2. PassesOK(pass) /\ NoPass.at = "idle"
  BY NoPassGood DEF Init, PassesOK, NoPass
<1>3. IntactInv /\ HeldInv
  BY <1>2 DEF Init, IntactInv, HeldInv
<1>4. news \subseteq Agents /\ queue \subseteq Sources /\ unheard \subseteq Sources \cup Agents /\ budget \in BudgetType
  BY DEF Init, BudgetType, LeftBehind
<1>5. TypeOK
  BY <1>1, <1>2, <1>4 DEF TypeOK, BudgetType, PassesOK, GoodPass
<1>6. PassInv
  BY <1>2 DEF PassInv, PassesOK, GoodPass
<1> QED
  BY <1>3, <1>5, <1>6 DEF IInv

LEMMA StutterStep ==
    ASSUME IInv, UNCHANGED vars
    PROVE  IInv'
BY DEF vars, worldVars, agentVars, IInv, TypeOK, WorldOK, IsAgent, IsPass, PassInv, WritesSomething,
       IntactInv, HeldInv, Entries

LEMMA NextInv == IInv /\ [Next]_vars => IInv'
<1> SUFFICES ASSUME IInv, [Next]_vars PROVE IInv'
  OBVIOUS
<1>1. ASSUME NEW k \in Kinds, PassStep(k) PROVE IInv'
  BY <1>1, StartStep, CreateStep, ApplyStep, ReleaseStep, ReadOrphanStep, DeleteOrphanStep
  DEF PassStep
<1>2. ASSUME NEW a \in Agents,
             SyncAgent(a) \/ WriteAgent(a) \/ DeleteAgent(a) \/ WriteAgentStatus(a)
      PROVE  IInv'
  BY <1>2, SyncAgentStep, WriteAgentStep, DeleteAgentStep, WriteAgentStatusStep
<1> QED
  BY <1>1, <1>2, EditSourceStep, EditTunnelStep, EditProxyStep, RestartStep, StutterStep
  DEF Next

(***************************************************************************)
(* Who takes what from whom.                                               *)
(***************************************************************************)

\* A step of a pass leaves an owner's entries alone, but for its own source's: those
\* it replaces at the agent it applies to, and takes from the one it releases.
LEMMA PassWrites ==
    ASSUME IInv, NEW k \in Kinds, PassStep(k), NEW b \in Agents, NEW o \in Owners
    PROVE  \/ agents'[b].owned[o] = agents[b].owned[o]
           \/ /\ pass[k].source = o /\ pass[k].at = "apply"
              /\ agents'[b].owned[o] # {}
           \/ /\ pass[k].source = o /\ pass[k].at = "release"
              /\ b \in pass[k].todo
<1> DEFINE p == pass[k]
<1>1. DOMAIN agents = Agents
  BY Typed DEF TypeOK, WorldOK
<1>2. ASSUME NEW a \in Agents, NEW new, agents' = [agents EXCEPT ![a] = new], a # b
      PROVE  agents'[b].owned[o] = agents[b].owned[o]
  BY <1>1, <1>2
<1>3. CASE UNCHANGED agents
  BY <1>3
<1>4. CASE CreateDefaultAgent(k)
  <2> DEFINE a == DefaultAgent(p.tunnel)
             new == AutoAgent(p.tunnel)
  <2>1. p.tunnel \in Tunnels /\ a \in Agents
    BY <1>4, PassFacts, AgentsAssumption
    DEF CreateDefaultAgent, GoodPass, IsPass, WritesSomething
  <2>2. \/ UNCHANGED agents
        \/ agents[a].kind = "absent" /\ agents' = [agents EXCEPT ![a] = new]
    BY <1>4, Zenon DEF CreateDefaultAgent, SetAgent, Refused, AnswerLost, agentVars
  <2>3. agents[a].kind = "absent" => agents[a].owned[o] = {}
    BY <2>1, AbsentEmpty
  <2>4. new.owned[o] = {}
    BY <2>1, AutoAgentIs
  <2> HIDE DEF a, new
  <2>5. CASE agents[a].kind = "absent" /\ agents' = [agents EXCEPT ![a] = new] /\ a = b
    BY <1>1, <2>1, <2>3, <2>4, <2>5
  <2> QED
    BY <1>2, <1>3, <2>1, <2>2, <2>5
<1>5. CASE ApplyRouting(k)
  <2> DEFINE a == p.target
             new == [agents[a] EXCEPT !.owned[p.source] = ToSet(p.routing)]
  <2>1. /\ p.at = "apply" /\ a \in Agents /\ p.source \in Sources /\ DOMAIN p.routing # {}
    BY <1>5, PassFacts DEF ApplyRouting, GoodPass, IsPass, WritesSomething
  <2>2. UNCHANGED agents \/ agents' = [agents EXCEPT ![a] = new]
    BY <1>5, Zenon DEF ApplyRouting, SetAgent, Refused, AnswerLost, agentVars
  <2>3. new.owned[o] = IF o = p.source THEN ToSet(p.routing) ELSE agents[a].owned[o]
    BY <2>1, Typed DEF IsAgent
  <2>4. ToSet(p.routing) # {}
    BY <2>1 DEF ToSet
  <2> HIDE DEF new
  <2>5. CASE agents' = [agents EXCEPT ![a] = new] /\ a = b
    BY <1>1, <2>1, <2>3, <2>4, <2>5
  <2> QED
    BY <1>2, <1>3, <2>1, <2>2, <2>5
<1>6. CASE ReleaseRouting(k)
  <2> DEFINE new(a) == IF agents[a].kind = "absent" THEN Ghost
                       ELSE [agents[a] EXCEPT !.owned[p.source] = {}]
  <2>1. /\ p.at = "release" /\ p.todo \in SUBSET Agents /\ p.source \in Sources
    BY <1>6, PassFacts DEF ReleaseRouting, GoodPass, IsPass
  <2>2. UNCHANGED agents \/ \E a \in p.todo : agents' = [agents EXCEPT ![a] = new(a)]
    BY <1>6, Zenon DEF ReleaseRouting, SetAgent, Refused, AnswerLost, agentVars
  <2>3. ASSUME NEW a \in p.todo, agents' = [agents EXCEPT ![a] = new(a)]
        PROVE  \/ agents'[b].owned[o] = agents[b].owned[o]
               \/ p.source = o /\ b \in p.todo
    <3>1. a \in Agents
      BY <2>1
    <3>2. CASE a # b
      BY <1>2, <2>3, <3>1, <3>2
    <3>3. CASE a = b /\ o # p.source
      <4>1. new(a).owned[o] = agents[a].owned[o]
        <5>1. CASE agents[a].kind = "absent"
          BY <3>1, <5>1, AbsentEmpty, NoAgentIs
        <5>2. CASE agents[a].kind # "absent"
          BY <3>1, <3>3, <5>2, Typed DEF IsAgent
        <5> QED
          BY <5>1, <5>2
      <4> QED
        BY <1>1, <2>3, <3>1, <3>3, <4>1
    <3> QED
      BY <3>2, <3>3
  <2> HIDE DEF new
  <2> QED
    BY <1>3, <2>1, <2>2, <2>3
<1>7. CASE DeleteOrphan(k)
  <2> DEFINE a == p.target
  <2>1. /\ p.at = "delete" /\ a \in Agents
    BY <1>7, PassFacts DEF DeleteOrphan, GoodPass, IsPass, WritesSomething
  <2>2. UNCHANGED agents \/ (PreconditionHolds(p) /\ agents' = [agents EXCEPT ![a] = NoAgent])
    BY <1>7, Zenon DEF DeleteOrphan, SetAgent, Refused, AnswerLost, agentVars
  <2>3. PreconditionHolds(p) => agents[a].owned[o] = {}
    BY <2>1, DeletesEmpty
  <2>4. NoAgent.owned[o] = {}
    BY NoAgentIs
  <2>5. CASE PreconditionHolds(p) /\ agents' = [agents EXCEPT ![a] = NoAgent] /\ a = b
    BY <1>1, <2>1, <2>3, <2>4, <2>5
  <2> QED
    BY <1>2, <1>3, <2>1, <2>2, <2>5
<1>8. CASE StartPass(k) \/ ReadOrphan(k)
  BY <1>3, <1>8 DEF StartPass, ReadOrphan, Refused, agentVars
<1> QED
  BY <1>4, <1>5, <1>6, <1>7, <1>8 DEF PassStep

\* The other steps write no agent, or are edits of a user.
LEMMA OthersWrite ==
    ASSUME IInv, Next, ~ \E k \in Kinds : PassStep(k), agents' # agents
    PROVE  budget'.edits # budget.edits
<1>1. budget \in BudgetType
  BY Typed
<1>2. \A a \in Agents : SyncAgent(a) \/ WriteAgentStatus(a) => agents' = agents
  BY DEF SyncAgent, WriteAgentStatus, agentVars
<1>3. /\ \A s \in Sources : EditSource(s) => agents' = agents
      /\ \A t \in Tunnels : EditTunnel(t) => agents' = agents
      /\ \A ref \in DOMAIN Origins : EditProxy(ref) => agents' = agents
      /\ Restart => agents' = agents
  BY DEF EditSource, EditTunnel, EditProxy, Restart, agentVars
<1>4. \A a \in Agents : WriteAgent(a) \/ DeleteAgent(a) => Spend("edits")
  BY DEF WriteAgent, DeleteAgent
<1> QED
  BY <1>1, <1>2, <1>3, <1>4, SpendType DEF Next

LEMMA KeptStep ==
    ASSUME IInv, Next, NEW a \in Agents, NEW o \in Owners,
           ~(agents[a].owned[o] \subseteq agents'[a].owned[o])
    PROVE  \/ budget'.edits # budget.edits
           \/ \E k \in Kinds : pass[k].source = o /\ pass[k].at \in {"apply", "release"}
<1>1. CASE \E k \in Kinds : PassStep(k)
  <2>1. PICK k \in Kinds : PassStep(k)
    BY <1>1
  <2> QED
    BY <2>1, PassWrites
<1>2. CASE ~ \E k \in Kinds : PassStep(k)
  BY <1>2, OthersWrite
<1> QED
  BY <1>1, <1>2

LEMMA ServedStep ==
    ASSUME IInv, Next, NEW s \in Sources, NEW a \in Agents, agents[a].owned[s] # {},
           \A b \in Agents : agents'[b].owned[s] = {}
    PROVE  \/ budget'.edits # budget.edits \/ s \in unheard
           \/ \E k \in Kinds : /\ pass[k].source = s
                               /\ pass[k].at = "release" /\ pass[k].target = None
<1>1. CASE \E k \in Kinds : PassStep(k)
  <2>1. PICK k \in Kinds : PassStep(k)
    BY <1>1
  <2>2. s \in Owners
    BY DEF Owners
  <2>3. pass[k].source = s /\ pass[k].at = "release"
    BY <2>1, <2>2, PassWrites
  <2>4. pass[k].target \in Agents \cup {None} /\ pass[k].target \notin pass[k].todo
    BY <2>3, PassFacts DEF GoodPass, IsPass, WritesSomething
  <2>5. CASE pass[k].target = None
    BY <2>3, <2>5
  <2>6. CASE pass[k].target \in Agents /\ pass[k].target # None
    <3>1. agents'[pass[k].target].owned[s] = agents[pass[k].target].owned[s]
      BY <2>1, <2>2, <2>3, <2>4, <2>6, PassWrites
    <3>2. s \in unheard \/ agents[pass[k].target].owned[s] # {}
      BY <2>3, <2>6 DEF IInv, HeldInv
    <3> QED
      BY <2>6, <3>1, <3>2
  <2> QED
    BY <2>4, <2>5, <2>6
<1>2. CASE ~ \E k \in Kinds : PassStep(k)
  BY <1>2, OthersWrite
<1> QED
  BY <1>1, <1>2

(***************************************************************************)
(* What an undisturbed source has: the inductive invariant behind           *)
(* SourcesSettled.                                                         *)
(***************************************************************************)

\* A pass of s is still to come, or is sure to come with the news of an agent.
Told(s) == s \in queue \/ \E a \in news : s \in AgentSourceRequests(objects, a)
Excused(s) == s \in unheard \/ Told(s) \/ Halts(s)

\* The agent s resolves to, and whether the informer says that s may write to it
\* (or create it).
Target(s) == TargetAgent(objects[s], TunnelOf(s))
Writable(s) ==
    /\ OptedIn(s) /\ Target(s) \in Agents
    /\ IF objects[s].agentRef = None THEN cache[Target(s)].kind \in {"auto", "absent"}
       ELSE /\ cache[Target(s)].kind # "absent"
            /\ cache[Target(s)].mode = "Managed"
            /\ cache[Target(s)].tunnel = TunnelOf(s)
Spared(s) == IF Writable(s) THEN Target(s) ELSE None
Due(s, a) == IF Writable(s) /\ a = Target(s) THEN ToSet(RoutingOf(s)) ELSE {}

\* What pass p of source s holds in memory, while the agents are those in store.
Current(s, p) == /\ p.tunnel = TunnelOf(s) /\ p.routing = RoutingOf(s)
                 /\ ~p.leaving /\ Writable(s)
Ended(s, store) == \A a \in Agents : store[a].owned[s] = Due(s, a)
Running(s, p, store) ==
    /\ p.at = "create" => Current(s, p) /\ objects[s].agentRef = None
    /\ p.at = "apply" => Current(s, p) /\ p.target = Target(s)
    /\ p.at = "release" =>
         /\ p.leaving <=> ~OptedIn(s)
         /\ p.target = Spared(s)
         /\ \A a \in Agents \ p.todo : store[a].owned[s] = Due(s, a)
    /\ p.at \in {"collect", "delete"} => ~OptedIn(s) /\ p.leaving /\ Ended(s, store)
After(s, p, store) == IF p.source = s THEN Running(s, p, store) ELSE Ended(s, store)

Settled(s) == ~Excused(s) => After(s, pass[KindOf(s)], agents)
SettledInv == \A s \in Sources : Settled(s)

\* An agent whose copy resolveTarget would judge otherwise has an event under way.
NewsInv == \A a \in Agents : Differs(cache[a], agents[a]) => a \in news

\* An agent without entries is on the list of a pass that collects, or will be.
Abandoned(agent) == agent.kind = "auto" /\ Entries(agent) = {}
Remembered(a, p) ==
    \/ p.at = "release" /\ p.leaving
    \/ p.at = "collect" /\ a \in p.todo
    \/ p.at = "delete" /\ (p.target = a \/ a \in p.todo)
Taken == \E s \in Sources : OptedIn(s) \/ s \in unheard \/ Told(s)
OrphanInv ==
    \A a \in Agents \ unheard : Abandoned(agents[a]) =>
        Taken \/ \E k \in Kinds : Remembered(a, pass[k])

SInv == IInv /\ NewsInv /\ SettledInv /\ OrphanInv

(***************************************************************************)
(* What a source's view of the world is made of.                           *)
(***************************************************************************)

LEMMA KindIs == \A s \in Sources : KindOf(s) \in Kinds
BY DEF KindOf, Kinds

\* A source that takes part passes the predicate of its watch.
LEMMA OptedInAdmitted ==
    ASSUME NEW s \in Sources, OptedIn(s)
    PROVE  Admits(s, objects[s])
<1>1. CASE s \in Routes /\ objects[s].tunnel = None
  BY <1>1 DEF OptedIn, AutoSelectedByGateway, Admits
<1>2. CASE ~(s \in Routes /\ objects[s].tunnel = None)
  BY <1>2, NamesAssumption DEF OptedIn, Admits, Annotated
<1> QED
  BY <1>1, <1>2

LEMMA OptedInAdmittedNext ==
    ASSUME NEW s \in Sources, OptedIn(s)'
    PROVE  Admits(s, objects'[s])
<1>1. CASE s \in Routes /\ objects'[s].tunnel = None
  BY <1>1 DEF OptedIn, AutoSelectedByGateway, Admits
<1>2. CASE ~(s \in Routes /\ objects'[s].tunnel = None)
  BY <1>2, NamesAssumption DEF OptedIn, Admits, Annotated
<1> QED
  BY <1>1, <1>2

LEMMA RequestAdmitted ==
    ASSUME NEW s, NEW a, s \in AgentSourceRequests(objects, a)
    PROVE  Admits(s, objects[s])
BY DEF AgentSourceRequests, Admits

\* What a pass of s computes is what it was; a source that takes no part computes
\* nothing.
SameView(s) ==
    /\ OptedIn(s)' <=> OptedIn(s)
    /\ OptedIn(s) => /\ objects'[s] = objects[s]
                     /\ TunnelOf(s)' = TunnelOf(s)
                     /\ RoutingOf(s)' = RoutingOf(s)

LEMMA SameWorld ==
    ASSUME UNCHANGED worldVars, NEW s
    PROVE  /\ SameView(s)
           /\ \A a : AgentSourceRequests(objects, a)' = AgentSourceRequests(objects, a)
<1>1. objects' = objects /\ proxies' = proxies /\ tunnels' = tunnels
  BY DEF worldVars
<1>2. OptedIn(s)' <=> OptedIn(s)
  BY <1>1 DEF OptedIn
<1>3. TunnelOf(s)' = TunnelOf(s)
  BY <1>1 DEF TunnelOf
<1>4. RoutingOf(s)' = RoutingOf(s)
  BY <1>1 DEF RoutingOf
<1> QED
  BY <1>1, <1>2, <1>3, <1>4 DEF SameView

LEMMA SameCopies ==
    ASSUME NEW s, SameView(s), OptedIn(s) => UNCHANGED cache
    PROVE  Writable(s)' <=> Writable(s)
<1>1. OptedIn(s) => Target(s)' = Target(s)
  BY DEF SameView, Target
<1> QED
  BY <1>1 DEF SameView, Writable

\* With the same view, and its agent as writable as before, a source is due the same.
LEMMA SameDue ==
    ASSUME NEW s, SameView(s), Writable(s)' <=> Writable(s)
    PROVE  /\ Halts(s)' <=> Halts(s)
           /\ Spared(s)' = Spared(s)
           /\ \A a : Due(s, a)' = Due(s, a)
           /\ \A q, st : After(s, q, st) => After(s, q, st)'
<1>1. Halts(s)' <=> Halts(s)
  BY DEF SameView, Halts
<1>2. OptedIn(s) => Target(s)' = Target(s)
  BY DEF SameView, Target
<1>3. Writable(s)' <=> Writable(s)
  OBVIOUS
<1>4. Writable(s) => OptedIn(s)
  BY DEF Writable
<1>5. Spared(s)' = Spared(s)
  BY <1>2, <1>3, <1>4 DEF Spared
<1>6. \A a : Due(s, a)' = Due(s, a)
  BY <1>2, <1>3, <1>4 DEF Due, SameView
<1>7. ASSUME NEW q, NEW st, After(s, q, st)
      PROVE  After(s, q, st)'
  <2>1. Ended(s, st) => Ended(s, st)'
    BY <1>6 DEF Ended
  <2>2. Current(s, q) => Current(s, q)' /\ OptedIn(s)
    BY <1>3, <1>4 DEF Current, SameView
  <2>3. Running(s, q, st) => Running(s, q, st)'
    BY <1>2, <1>5, <1>6, <2>1, <2>2 DEF Running, SameView
  <2> QED
    BY <1>7, <2>1, <2>3 DEF After
<1> QED
  BY <1>1, <1>5, <1>6, <1>7

(***************************************************************************)
(* Steps that leave a source and its pass alone.                           *)
(***************************************************************************)

\* Whether the precondition of a deletion holds makes no difference to a source.
SamePass(p, q) == q = p \/ q = [p EXCEPT !.intact = FALSE]

LEMMA SamePassAfter ==
    ASSUME NEW p, NEW q, IsPass(p), SamePass(p, q)
    PROVE  /\ q.source = p.source
           /\ \A s, st : After(s, p, st) => After(s, q, st)
           /\ \A a : Remembered(a, p) => Remembered(a, q)
<1>1. /\ q.at = p.at /\ q.source = p.source /\ q.tunnel = p.tunnel /\ q.target = p.target
      /\ q.routing = p.routing /\ q.todo = p.todo /\ q.leaving = p.leaving
  BY DEF SamePass, IsPass
<1>2. \A s, st : Running(s, p, st) => Running(s, q, st)
  BY <1>1 DEF Running, Current
<1> QED
  BY <1>1, <1>2 DEF After, Remembered

LEMMA ClearedSame ==
    ASSUME NEW a, NEW passes, PassesOK(passes), NEW q, q = WithoutPrecondition(a, passes)
    PROVE  \A k \in Kinds : SamePass(passes[k], q[k])
BY DEF WithoutPrecondition, SamePass, PassesOK

\* Only the entries of s count, agent by agent; nothing is wrong with what is due.
LEMMA SameEntries ==
    ASSUME NEW s, NEW p, NEW old, NEW new, After(s, p, old),
           \A a \in Agents : \/ new[a].owned[s] = old[a].owned[s]
                            \/ new[a].owned[s] = Due(s, a)
    PROVE  After(s, p, new)
<1>1. Ended(s, old) => Ended(s, new)
  BY DEF Ended
<1>2. Running(s, p, old) => Running(s, p, new)
  BY <1>1 DEF Running
<1> QED
  BY <1>1, <1>2 DEF After

\* A source whose view, pass and entries stay is as settled as before.
LEMMA Bystander ==
    ASSUME SInv, NEW s \in Sources, SameView(s), Writable(s)' <=> Writable(s),
           Excused(s) => Excused(s)',
           \A a \in Agents : \/ agents'[a].owned[s] = agents[a].owned[s]
                            \/ agents'[a].owned[s] = Due(s, a),
           \/ SamePass(pass[KindOf(s)], pass'[KindOf(s)])
           \/ pass[KindOf(s)].source # s /\ pass'[KindOf(s)].source # s
    PROVE  Settled(s)'
<1> SUFFICES ASSUME ~Excused(s)' PROVE After(s, pass[KindOf(s)], agents)'
  BY DEF Settled
<1> DEFINE k == KindOf(s)
<1>1. k \in Kinds /\ IsPass(pass[k])
  BY KindIs, PassFacts DEF SInv, GoodPass
<1>2. After(s, pass[k], agents)
  BY DEF SInv, SettledInv, Settled
<1>3. PICK q, st : q = pass'[k] /\ st = agents'
  OBVIOUS
<1>4. After(s, q, agents)
  <2>1. CASE SamePass(pass[k], q)
    BY <1>1, <1>2, <2>1, SamePassAfter
  <2>2. CASE pass[k].source # s /\ q.source # s
    BY <1>2, <2>2 DEF After
  <2> QED
    BY <1>3, <2>1, <2>2
<1>5. After(s, q, st)
  BY <1>3, <1>4, SameEntries
<1>6. After(s, q, st)'
  BY <1>5, SameDue
<1> QED
  BY <1>3, <1>6

\* How an edit of the world, or a restart, may touch source s.
Reached(s) == s \in unheard' \/ Told(s)'
Untouched(s) == SameView(s) /\ s \notin unheard /\ ~Told(s)

LEMMA EditSourceReaches ==
    ASSUME SInv, NEW x \in Sources, EditSource(x), NEW s \in Sources
    PROVE  Reached(s) \/ Untouched(s)
<1> SUFFICES ASSUME ~Reached(s) PROVE Untouched(s)
  OBVIOUS
<1>1. PICK m \in (Manifests[x] \cup {None}) \ {objects[x]} :
        /\ objects' = [objects EXCEPT ![x] = m]
        /\ queue' = queue
               \cup {y \in {x} : Admits(y, objects[y]) \/ Admits(y, m)}
               \cup (IF x \in Gateways THEN RoutesForGateway(objects, x) ELSE {})
  BY DEF EditSource
<1>2. /\ proxies' = proxies /\ tunnels' = tunnels /\ news' = news /\ unheard' = unheard
      /\ DOMAIN objects = Sources
  BY WorldTyped DEF EditSource, agentVars, SInv, WorldOK
<1>3. s \notin unheard /\ s \notin queue' /\ s \notin queue
  BY <1>1, <1>2 DEF Reached, Told
<1>4. CASE s = x
  <2>1. objects'[s] = m /\ ~Admits(s, objects[s]) /\ ~Admits(s, m)
    BY <1>1, <1>2, <1>3, <1>4
  <2>2. ~OptedIn(s) /\ ~OptedIn(s)'
    BY <2>1, OptedInAdmitted, OptedInAdmittedNext
  <2>3. ~Told(s)
    BY <1>3, <2>1, RequestAdmitted DEF Told
  <2> QED
    BY <1>3, <2>2, <2>3 DEF Untouched, SameView
<1>5. CASE s # x
  <2>1. objects'[s] = objects[s]
    BY <1>1, <1>2, <1>5
  <2>2. ASSUME objects[s] # None, s \in Routes, NEW g \in objects[s].parents
        PROVE  objects'[g] = objects[g]
    <3>1. objects[s].parents \subseteq Gateways
      BY <2>2, WorldTyped, ManifestsAssumption DEF SInv, WorldOK
    <3>2. g # x
      BY <1>1, <1>3, <2>2, <3>1 DEF RoutesForGateway
    <3> QED
      BY <1>1, <1>2, <2>2, <3>1, <3>2 DEF Sources
  <2>3. OptedIn(s)' <=> OptedIn(s)
    <3>1. objects[s] # None /\ s \in Routes =>
            (AutoSelectedByGateway(s, objects'[s], objects') <=>
               AutoSelectedByGateway(s, objects[s], objects))
      BY <2>1, <2>2 DEF AutoSelectedByGateway
    <3> QED
      BY <2>1, <3>1 DEF OptedIn
  <2>4. TunnelOf(s)' = TunnelOf(s)
    BY <1>2, <2>1 DEF TunnelOf
  <2>5. ASSUME OptedIn(s) PROVE RoutingOf(s)' = RoutingOf(s)
    <3>1. objects[s] # None
      BY <2>5 DEF OptedIn
    <3>2. CASE s \in Services \cup Gateways
      BY <1>2, <2>1, <3>2 DEF RoutingOf
    <3>3. CASE s \notin Services \cup Gateways
      <4>1. s \in Routes
        BY <3>3 DEF Sources
      <4>2. {ProxyOrigin(objects'[g], proxies) : g \in objects[s].parents}
              = {ProxyOrigin(objects[g], proxies) : g \in objects[s].parents}
        BY <2>2, <3>1, <4>1
      <4>3. ResolveParentGatewayProxy(objects[s], objects', proxies)
              = ResolveParentGatewayProxy(objects[s], objects, proxies)
        <5> DEFINE old == {ProxyOrigin(objects[g], proxies) : g \in objects[s].parents}
                   new == {ProxyOrigin(objects'[g], proxies) : g \in objects[s].parents}
                   Only(S) == IF Cardinality(S \ {None}) = 1
                              THEN CHOOSE o \in S \ {None} : TRUE ELSE None
        <5>1. /\ ResolveParentGatewayProxy(objects[s], objects, proxies) = Only(old)
              /\ ResolveParentGatewayProxy(objects[s], objects', proxies) = Only(new)
          BY Zenon DEF ResolveParentGatewayProxy
        <5>2. old = new
          BY <4>2
        <5> HIDE DEF old, new, Only
        <5> QED
          BY <5>1, <5>2
      <4>4. DeriveHTTPRouteRouting(objects[s], objects', proxies)
              = DeriveHTTPRouteRouting(objects[s], objects, proxies)
        BY <4>3 DEF DeriveHTTPRouteRouting
      <4> QED
        BY <1>2, <2>1, <3>3, <4>4 DEF RoutingOf
    <3> QED
      BY <3>2, <3>3
  <2>6. ~Told(s)
    <3>1. \A a : s \in AgentSourceRequests(objects, a) => s \in AgentSourceRequests(objects', a)
      BY <2>1 DEF AgentSourceRequests
    <3> QED
      BY <1>2, <1>3, <3>1 DEF Reached, Told
  <2> QED
    BY <1>3, <2>1, <2>3, <2>4, <2>5, <2>6 DEF Untouched, SameView
<1> QED
  BY <1>4, <1>5

LEMMA EditTunnelReaches ==
    ASSUME SInv, NEW t \in Tunnels, EditTunnel(t), NEW s \in Sources
    PROVE  Reached(s) \/ Untouched(s)
<1> SUFFICES ASSUME ~Reached(s) PROVE Untouched(s)
  OBVIOUS
<1>1. /\ objects' = objects /\ proxies' = proxies /\ news' = news /\ unheard' = unheard
      /\ queue' = queue \cup TunnelSourceRequests(objects, t)
  BY DEF EditTunnel, agentVars
<1>2. s \notin unheard /\ s \notin queue' /\ s \notin queue /\ ~Told(s)
  BY <1>1 DEF Reached, Told
<1>3. OptedIn(s)' <=> OptedIn(s)
  BY <1>1 DEF OptedIn
<1>4. RoutingOf(s)' = RoutingOf(s)
  BY <1>1 DEF RoutingOf
<1>5. ASSUME OptedIn(s) PROVE TunnelOf(s)' = TunnelOf(s)
  <2>1. objects[s].tunnelRef # None
    <3> SUFFICES ASSUME objects[s].tunnelRef = None PROVE FALSE
      OBVIOUS
    <3>1. objects[s] # None /\ SourceTargetsTunnel(s, objects[s], t)
      BY <1>5 DEF OptedIn, SourceTargetsTunnel
    <3>2. \/ Annotated(objects[s])
          \/ s \in Routes /\ \E g \in objects[s].parents : AutoRoutes(g, objects[g], s)
      BY <1>5, NamesAssumption DEF OptedIn, Annotated, AutoSelectedByGateway
    <3>3. s \in TunnelSourceRequests(objects, t)
      BY <3>1, <3>2 DEF TunnelSourceRequests
    <3> QED
      BY <1>1, <1>2, <3>3
  <2> QED
    BY <1>1, <2>1 DEF TunnelOf, ResolveTunnel
<1> QED
  BY <1>1, <1>2, <1>3, <1>4, <1>5 DEF Untouched, SameView

LEMMA EditProxyReaches ==
    ASSUME SInv, NEW ref \in DOMAIN Origins, EditProxy(ref), NEW s \in Sources
    PROVE  Reached(s) \/ Untouched(s)
<1> SUFFICES ASSUME ~Reached(s) PROVE Untouched(s)
  OBVIOUS
<1>1. /\ objects' = objects /\ tunnels' = tunnels /\ news' = news /\ queue' = queue
      /\ unheard' = unheard \cup {x \in Sources : OptedIn(x) /\ RoutingOf(x)' # RoutingOf(x)}
  BY DEF EditProxy, agentVars
<1>2. s \notin unheard /\ (OptedIn(s) => RoutingOf(s)' = RoutingOf(s))
  BY <1>1 DEF Reached
<1>3. ~Told(s)
  BY <1>1 DEF Reached, Told
<1>4. (OptedIn(s)' <=> OptedIn(s)) /\ TunnelOf(s)' = TunnelOf(s)
  BY <1>1 DEF OptedIn, TunnelOf
<1> QED
  BY <1>1, <1>2, <1>3, <1>4 DEF Untouched, SameView

\* A restart: what was not told or in a pass, and is not now, has not changed.
LEMMA RestartReaches ==
    ASSUME SInv, Restart, NEW s \in Sources
    PROVE  \/ Reached(s)
           \/ Untouched(s) /\ ~OptedIn(s) /\ pass[KindOf(s)].source # s
<1> SUFFICES ASSUME ~Reached(s)
             PROVE  Untouched(s) /\ ~OptedIn(s) /\ pass[KindOf(s)].source # s
  OBVIOUS
<1>1. /\ queue' = {x \in Sources : Admits(x, objects'[x])}
      /\ unheard' = unheard \cup (({x \in Sources : objects'[x] # objects[x]} \cup queue
                                   \cup {pass[k].source : k \in Kinds}) \ (queue' \cup {None}))
  BY DEF Restart
<1>2. s \notin queue' /\ s \notin unheard' /\ s # None
  BY NamesAssumption DEF Reached, Told
<1>3. /\ s \notin unheard /\ s \notin queue /\ objects'[s] = objects[s]
      /\ pass[KindOf(s)].source # s
  BY <1>1, <1>2, KindIs
<1>4. ~Admits(s, objects[s]) /\ ~Admits(s, objects'[s])
  BY <1>1, <1>2, <1>3
<1>5. ~OptedIn(s) /\ ~OptedIn(s)'
  BY <1>4, OptedInAdmitted, OptedInAdmittedNext
<1>6. ~Told(s)
  BY <1>3, <1>4, RequestAdmitted DEF Told
<1> QED
  BY <1>3, <1>5, <1>6 DEF Untouched, SameView

(***************************************************************************)
(* The informers, users and restarts, for SInv.                            *)
(***************************************************************************)

\* The parts of the invariant that are about sources, agents and their copies.
SourceInv == NewsInv /\ SettledInv /\ OrphanInv

LEMMA ToldGrows ==
    ASSUME UNCHANGED worldVars, queue \subseteq queue', news \subseteq news', NEW s, Told(s)
    PROVE  Told(s)'
<1>1. \A a : AgentSourceRequests(objects, a)' = AgentSourceRequests(objects, a)
  BY SameWorld
<1> QED
  BY <1>1 DEF Told

\* Who had taken part, or was about to be looked at, still does.
LEMMA TakenStays ==
    ASSUME UNCHANGED worldVars, unheard \cap Sources \subseteq unheard',
           \A s \in Sources : Told(s) => Told(s)', Taken
    PROVE  Taken'
BY SameWorld DEF Taken, SameView

\* Sources, tunnels or proxies change, and nothing else.
LEMMA WorldKeeps ==
    ASSUME SInv, UNCHANGED <<agentVars, cache, pass>>, unheard \subseteq unheard',
           \A s \in Sources : Reached(s) \/ Untouched(s)
    PROVE  SourceInv'
<1>1. agents' = agents /\ news' = news /\ cache' = cache /\ pass' = pass
  BY DEF agentVars
<1>2. NewsInv'
  BY <1>1 DEF SInv, NewsInv
<1>3. ASSUME NEW s \in Sources PROVE Settled(s)'
  <2>1. CASE Reached(s)
    BY <2>1 DEF Reached, Settled, Excused
  <2>2. CASE Untouched(s)
    <3>1. SameView(s) /\ s \notin unheard /\ ~Told(s)
      BY <2>2 DEF Untouched
    <3>2. Writable(s)' <=> Writable(s)
      BY <1>1, <3>1, SameCopies
    <3>3. Excused(s) => Excused(s)'
      BY <3>1, <3>2, SameDue DEF Excused
    <3> QED
      BY <1>1, <3>1, <3>2, <3>3, Bystander DEF SamePass
  <2> QED
    BY <2>1, <2>2
<1>4. OrphanInv'
  <2> SUFFICES ASSUME ~Taken' PROVE OrphanInv'
    BY DEF OrphanInv
  <2>1. \A s \in Sources : Untouched(s)
    BY DEF Taken, Reached
  <2>2. ~Taken
    BY <2>1 DEF Taken, Untouched, SameView
  <2> QED
    BY <1>1, <2>2 DEF SInv, OrphanInv, Abandoned, Entries
<1> QED
  BY <1>2, <1>3, <1>4 DEF SourceInv, SettledInv

LEMMA EditSourceKeeps ==
    ASSUME SInv, NEW x \in Sources, EditSource(x)
    PROVE  SourceInv'
BY EditSourceReaches, WorldKeeps DEF EditSource

LEMMA EditTunnelKeeps ==
    ASSUME SInv, NEW t \in Tunnels, EditTunnel(t)
    PROVE  SourceInv'
BY EditTunnelReaches, WorldKeeps DEF EditTunnel

LEMMA EditProxyKeeps ==
    ASSUME SInv, NEW ref \in DOMAIN Origins, EditProxy(ref)
    PROVE  SourceInv'
<1>1. UNCHANGED <<agentVars, cache, pass>> /\ unheard \subseteq unheard'
  BY DEF EditProxy, agentVars
<1> QED
  BY <1>1, EditProxyReaches, WorldKeeps

LEMMA RestartKeeps ==
    ASSUME SInv, Restart
    PROVE  SourceInv'
<1>1. /\ agents' = agents /\ cache' = agents /\ news' = {}
      /\ pass' = [k \in Kinds |-> NoPass] /\ unheard \subseteq unheard'
  BY DEF Restart
<1>2. NewsInv'
  BY <1>1 DEF NewsInv, Differs
<1>3. ASSUME NEW s \in Sources PROVE Settled(s)'
  <2>1. CASE Reached(s)
    BY <2>1 DEF Reached, Settled, Excused
  <2>2. CASE Untouched(s) /\ ~OptedIn(s) /\ pass[KindOf(s)].source # s
    <3>1. SameView(s) /\ s \notin unheard /\ ~Told(s) /\ ~OptedIn(s)
      BY <2>2 DEF Untouched
    <3>2. ~Writable(s) /\ ~Writable(s)'
      BY <3>1 DEF Writable, SameView
    <3>3. ~Halts(s)
      BY <3>1 DEF Halts
    <3>4. pass'[KindOf(s)].source # s
      BY <1>1, KindIs, NamesAssumption DEF NoPass
    <3> QED
      BY <1>1, <2>2, <3>1, <3>2, <3>3, <3>4, Bystander DEF Excused
  <2> QED
    BY <2>1, <2>2, RestartReaches
<1>4. OrphanInv'
  <2> SUFFICES ASSUME ~Taken' PROVE OrphanInv'
    BY DEF OrphanInv
  <2>1. \A s \in Sources : Untouched(s) /\ ~OptedIn(s) /\ pass[KindOf(s)].source # s
    BY RestartReaches DEF Taken, Reached
  <2>2. ~Taken
    BY <2>1 DEF Taken, Untouched
  <2>3. ASSUME NEW k \in Kinds, NEW a, Remembered(a, pass[k]) PROVE FALSE
    <3>1. pass[k].at # "idle"
      BY <2>3 DEF Remembered
    <3> QED
      BY <2>1, <3>1, PassFacts DEF SInv
  <2> QED
    BY <1>1, <2>2, <2>3 DEF SInv, OrphanInv, Abandoned, Entries
<1> QED
  BY <1>2, <1>3, <1>4 DEF SourceInv, SettledInv

\* The informer catches up with agent a: whoever would now decide otherwise is told,
\* or noted as unheard.
LEMMA SyncAgentKeeps ==
    ASSUME SInv, NEW a \in Agents, SyncAgent(a)
    PROVE  SourceInv'
<1>1. /\ cache' = [cache EXCEPT ![a] = agents[a]] /\ news' = news \ {a}
      /\ queue' = IF a \in news THEN queue \cup AgentSourceRequests(objects, a) ELSE queue
      /\ unheard' = unheard \cup
                       {s \in NotToldOf(a) : /\ Differs(cache[a], agents[a])
                                            /\ \/ objects[s].agentRef # None
                                               \/ Foreign(cache[a], agents[a])}
      /\ UNCHANGED worldVars /\ agents' = agents /\ pass' = pass
  BY DEF SyncAgent
<1>2. DOMAIN cache = Agents /\ \A b \in Agents : IsAgent(cache[b]) /\ IsAgent(agents[b])
  BY WorldTyped, Typed DEF SInv, WorldOK
<1>3. \A b \in Agents : cache'[b] = IF b = a THEN agents[a] ELSE cache[b]
  BY <1>1, <1>2
<1>4. NewsInv'
  BY <1>1, <1>3 DEF SInv, NewsInv, Differs
<1>5. \A s \in Sources : Told(s) => Told(s)'
  BY <1>1, SameWorld DEF Told
<1>6. ASSUME NEW s \in Sources PROVE Settled(s)'
  <2> SUFFICES ASSUME ~Excused(s)' PROVE Settled(s)'
    BY DEF Settled
  <2>1. SameView(s) /\ (Halts(s)' <=> Halts(s))
    BY <1>1, SameWorld DEF SameView, Halts
  <2>2. ~Excused(s)
    BY <1>1, <1>5, <2>1 DEF Excused
  <2>3. Writable(s)' <=> Writable(s)
    <3>1. CASE ~OptedIn(s)
      BY <2>1, <3>1 DEF Writable, SameView
    <3>2. CASE OptedIn(s) /\ Target(s) # a
      BY <1>3, <2>1, <3>2 DEF Writable, SameView, Target
    <3>3. CASE OptedIn(s) /\ Target(s) = a /\ ~Differs(cache[a], agents[a])
      BY <1>3, <2>1, <3>3 DEF Writable, SameView, Target, Differs
    <3>4. CASE OptedIn(s) /\ Target(s) = a /\ Differs(cache[a], agents[a])
      <4>1. a \in news
        BY <3>4 DEF SInv, NewsInv
      <4>2. s \notin AgentSourceRequests(objects, a)
        BY <1>1, <4>1 DEF Excused, Told
      <4>3. s \in NotToldOf(a)
        BY <2>2, <3>4, <4>2 DEF NotToldOf, Excused, Target
      <4>4. objects[s].agentRef = None /\ ~Foreign(cache[a], agents[a])
        BY <1>1, <3>4, <4>3 DEF Excused
      <4>5. cache[a].kind \in {"absent", "auto"} /\ agents[a].kind \in {"absent", "auto"}
        BY <1>2, <4>4 DEF Foreign, IsAgent
      <4> QED
        BY <1>3, <2>1, <3>4, <4>4, <4>5 DEF Writable, SameView, Target
    <3> QED
      BY <3>1, <3>2, <3>3, <3>4
  <2> QED
    BY <1>1, <2>1, <2>2, <2>3, Bystander DEF SamePass
<1>7. OrphanInv'
  <2>1. Taken => Taken'
    BY <1>1, <1>5, TakenStays
  <2> QED
    BY <1>1, <2>1 DEF SInv, OrphanInv, Abandoned, Entries
<1> QED
  BY <1>4, <1>6, <1>7 DEF SourceInv, SettledInv

(***************************************************************************)
(* Writes of agents, for SInv.                                             *)
(***************************************************************************)

\* Agent a is written: what others read of it has news.
LEMMA WriteIsNews ==
    ASSUME SInv, NEW a \in Agents, NEW new, IsAgent(new), NEW passes, PassesOK(passes),
           SetAgent(a, new, passes), UNCHANGED <<worldVars, cache>>, queue \subseteq queue'
    PROVE  /\ NewsInv'
           /\ \A s \in Sources : Told(s) => Told(s)'
           /\ \A b \in Agents : agents'[b] = IF b = a THEN new ELSE agents[b]
           /\ \A j \in Kinds : SamePass(passes[j], pass'[j])
           /\ new.kind # agents[a].kind => a \in news'
<1>1. TypeOK
  BY DEF SInv, IInv
<1>2. \A b \in Agents : agents'[b] = IF b = a THEN new ELSE agents[b]
  BY <1>1, SetAgentEffect
<1>3. news' = IF Watched(new) = Watched(agents[a]) THEN news ELSE news \cup {a}
  BY DEF SetAgent
<1>4. Watched(new) = Watched(agents[a]) =>
        new.kind = agents[a].kind /\ new.mode = agents[a].mode /\ new.tunnel = agents[a].tunnel
  BY DEF Watched
<1>5. NewsInv'
  <2>1. ASSUME NEW b \in Agents, Differs(cache[b], agents'[b]) PROVE b \in news'
    <3>1. CASE b # a
      BY <1>2, <1>3, <2>1, <3>1 DEF SInv, NewsInv
    <3>2. CASE b = a /\ Watched(new) = Watched(agents[a])
      <4>1. Differs(cache[a], agents[a])
        BY <1>2, <1>4, <2>1, <3>2 DEF Differs
      <4> QED
        BY <1>3, <3>2, <4>1 DEF SInv, NewsInv
    <3>3. CASE b = a /\ Watched(new) # Watched(agents[a])
      BY <1>3, <3>3
    <3> QED
      BY <3>1, <3>2, <3>3
  <2> QED
    BY <2>1 DEF NewsInv, Differs
<1>6. \A s \in Sources : Told(s) => Told(s)'
  BY <1>3, ToldGrows
<1>7. \A j \in Kinds : SamePass(passes[j], pass'[j])
  BY ClearedSame DEF SetAgent, SamePass
<1> QED
  BY <1>2, <1>3, <1>4, <1>5, <1>6, <1>7

\* A user writes or deletes agent a: whoever then misses an entry is told, or noted.
LEMMA UserKeeps ==
    ASSUME SInv, NEW a \in Agents, NEW new, IsAgent(new), SetAgent(a, new, pass),
           UNCHANGED <<worldVars, cache, queue>>, unheard \subseteq unheard',
           \A s \in Sources : \/ s \in unheard' \/ Told(s)' \/ Halts(s)
                              \/ new.owned[s] = agents[a].owned[s]
                              \/ new.owned[s] = Due(s, a),
           Abandoned(new) => a \in unheard'
    PROVE  SourceInv'
<1>1. PassesOK(pass) /\ \A j \in Kinds : IsPass(pass[j])
  BY PassesAre DEF SInv, IInv, PassesOK, GoodPass
<1>2. /\ NewsInv'
      /\ \A s \in Sources : Told(s) => Told(s)'
      /\ \A b \in Agents : agents'[b] = IF b = a THEN new ELSE agents[b]
      /\ \A j \in Kinds : SamePass(pass[j], pass'[j])
  BY <1>1, WriteIsNews
<1>3. ASSUME NEW s \in Sources, ~Excused(s)' PROVE Settled(s)'
  <2>1. SameView(s) /\ (Writable(s)' <=> Writable(s)) /\ (Halts(s)' <=> Halts(s))
    BY SameWorld, SameCopies, SameDue
  <2>2. Excused(s) => Excused(s)'
    BY <1>2, <2>1 DEF Excused
  <2>3. \A b \in Agents : agents'[b].owned[s] = agents[b].owned[s]
                            \/ agents'[b].owned[s] = Due(s, b)
    BY <1>2, <1>3, <2>1 DEF Excused
  <2>4. SamePass(pass[KindOf(s)], pass'[KindOf(s)])
    BY <1>2, KindIs
  <2> QED
    BY <2>1, <2>2, <2>3, <2>4, Bystander
<1>4. OrphanInv'
  <2>1. Taken => Taken'
    BY <1>2, TakenStays
  <2>2. \A b \in Agents : Abandoned(agents'[b]) => b \in unheard' \/ Abandoned(agents[b])
    BY <1>2
  <2>3. \A b : \A j \in Kinds : Remembered(b, pass[j]) => Remembered(b, pass'[j])
    BY <1>1, <1>2, SamePassAfter
  <2>4. ASSUME NEW b \in Agents \ unheard', Abandoned(agents'[b])
        PROVE  Taken' \/ \E j \in Kinds : Remembered(b, pass'[j])
    <3>1. Taken \/ \E j \in Kinds : Remembered(b, pass[j])
      BY <2>2, <2>4 DEF SInv, OrphanInv
    <3> QED
      BY <2>1, <2>3, <3>1
  <2> QED
    BY <2>4 DEF OrphanInv, Abandoned, Entries, Remembered
<1> QED
  BY <1>2, <1>3, <1>4 DEF SourceInv, SettledInv, Settled

LEMMA WriteAgentKeeps ==
    ASSUME SInv, NEW a \in Agents, WriteAgent(a)
    PROVE  SourceInv'
<1> DEFINE new(u) == [kind |-> IF agents[a].kind = "auto" THEN "auto" ELSE "user",
                      mode |-> u.mode, tunnel |-> u.tunnel,
                      owned |-> [agents[a].owned EXCEPT ![User] = u.entries]]
<1>1. PICK u \in UserSpecs[a] :
        /\ SetAgent(a, new(u), pass)
        /\ unheard' = unheard \cup NotToldOf(a)
                         \cup (IF Entries(new(u)) = {} THEN {a} ELSE {})
  BY DEF WriteAgent
<1>2. UNCHANGED <<worldVars, cache, queue>>
  BY DEF WriteAgent
<1>3. IsAgent(agents[a])
  BY Typed DEF SInv
<1>4. IsAgent(new(u)) /\ \A s \in Sources : new(u).owned[s] = agents[a].owned[s]
  <2>1. u.mode \in {"Managed", "ObserveOnly"} /\ u.tunnel \in Tunnels \cup {None}
    BY <1>1, UserSpecsAssumption
  <2>2. DOMAIN new(u).owned = Owners /\ new(u).kind \in {"auto", "user"}
    BY <1>3 DEF IsAgent
  <2>3. IsAgent(new(u))
    BY <2>1, <2>2 DEF IsAgent
  <2>4. \A s \in Sources : new(u).owned[s] = agents[a].owned[s]
    BY <1>3, NamesAssumption DEF IsAgent, Owners
  <2> QED
    BY <2>3, <2>4
<1> HIDE DEF new
<1>5. Abandoned(new(u)) => a \in unheard'
  BY <1>1 DEF Abandoned
<1>6. unheard \subseteq unheard'
  BY <1>1
<1> QED
  BY <1>1, <1>2, <1>4, <1>5, <1>6, UserKeeps

LEMMA DeleteAgentKeeps ==
    ASSUME SInv, NEW a \in Agents, DeleteAgent(a)
    PROVE  SourceInv'
<1>1. /\ agents[a].kind # "absent" /\ SetAgent(a, NoAgent, pass)
      /\ UNCHANGED <<worldVars, cache, queue>>
      /\ unheard \subseteq unheard' /\ NotToldOf(a) \subseteq unheard'
  BY DEF DeleteAgent
<1>2. PassesOK(pass) /\ IsAgent(NoAgent) /\ NoAgent.kind = "absent"
  BY PassesAre, NoAgentIs DEF SInv, IInv, NoAgent
<1>3. a \in news'
  BY <1>1, <1>2, WriteIsNews
<1>4. ASSUME NEW s \in Sources, s \notin unheard', ~Told(s)', ~Halts(s)
      PROVE  NoAgent.owned[s] = agents[a].owned[s] \/ NoAgent.owned[s] = Due(s, a)
  <2>1. NoAgent.owned[s] = {}
    BY NoAgentIs DEF Owners
  <2>2. CASE Due(s, a) = {}
    BY <2>1, <2>2
  <2>3. CASE Due(s, a) # {}
    <3>1. OptedIn(s) /\ Target(s) = a
      BY <2>3 DEF Due, Writable
    <3>2. s \in AgentSourceRequests(objects, a) \/ s \in NotToldOf(a)
      BY <1>4, <3>1 DEF NotToldOf, Target
    <3>3. AgentSourceRequests(objects, a)' = AgentSourceRequests(objects, a)
      BY <1>1, SameWorld
    <3> QED
      BY <1>1, <1>3, <1>4, <3>2, <3>3 DEF Told
  <2> QED
    BY <2>2, <2>3
<1> QED
  BY <1>1, <1>2, <1>4, UserKeeps DEF Abandoned

LEMMA WriteAgentStatusKeeps ==
    ASSUME SInv, NEW a \in Agents, WriteAgentStatus(a)
    PROVE  SourceInv'
<1>1. /\ pass' = WithoutPrecondition(a, pass)
      /\ UNCHANGED <<worldVars, cache>> /\ agents' = agents /\ news' = news
      /\ queue' = queue /\ unheard' = unheard
  BY DEF WriteAgentStatus, agentVars
<1>2. PassesOK(pass) /\ \A j \in Kinds : IsPass(pass[j])
  BY PassesAre DEF SInv, IInv, PassesOK, GoodPass
<1>3. \A j \in Kinds : SamePass(pass[j], pass'[j])
  BY <1>1, <1>2, ClearedSame
<1>4. NewsInv'
  BY <1>1 DEF SInv, NewsInv
<1>5. \A s \in Sources : Told(s) => Told(s)'
  BY <1>1, ToldGrows
<1>6. ASSUME NEW s \in Sources PROVE Settled(s)'
  <2>1. SameView(s) /\ (Writable(s)' <=> Writable(s)) /\ (Halts(s)' <=> Halts(s))
    BY <1>1, SameWorld, SameCopies, SameDue
  <2>2. Excused(s) => Excused(s)'
    BY <1>1, <1>5, <2>1 DEF Excused
  <2> QED
    BY <1>1, <1>3, <2>1, <2>2, KindIs, Bystander
<1>7. OrphanInv'
  <2>1. Taken => Taken'
    BY <1>1, <1>5, TakenStays
  <2>2. \A b : \A j \in Kinds : Remembered(b, pass[j]) => Remembered(b, pass'[j])
    BY <1>2, <1>3, SamePassAfter
  <2> QED
    BY <1>1, <2>1, <2>2 DEF SInv, OrphanInv, Abandoned, Entries, Remembered
<1> QED
  BY <1>4, <1>6, <1>7 DEF SourceInv, SettledInv

(***************************************************************************)
(* The steps of a pass, for SInv: what each has to show of its own source.  *)
(***************************************************************************)

\* The pass of s goes on as q, and nothing is written.
LEMMA MovesOn ==
    ASSUME SInv, NEW k \in Kinds, NEW s \in Sources, KindOf(s) = k, NEW q,
           UNCHANGED <<worldVars, agentVars, cache>>,
           pass' = Becomes(k, q) \/ (pass' = pass /\ q = pass[k]),
           pass[k].source \in {s, None}, q.source \in {s, None},
           \A x \in Sources \ {s} : /\ x \in unheard => x \in unheard'
                                    /\ x \in queue => x \in queue',
           ~Excused(s)' => After(s, q, agents),
           \A b \in Agents \ unheard' : ~Taken' /\ Abandoned(agents[b]) =>
               \/ Remembered(b, q)
               \/ ~Taken /\ b \notin unheard /\ (Remembered(b, pass[k]) => Remembered(b, q))
    PROVE  SourceInv'
<1>1. agents' = agents /\ news' = news /\ cache' = cache
  BY DEF agentVars
<1>2. pass'[k] = q /\ \A j \in Kinds \ {k} : pass'[j] = pass[j]
  BY PassFacts DEF SInv, Becomes, PassesOK
<1>3. NewsInv'
  BY <1>1 DEF SInv, NewsInv
<1>4. ASSUME NEW x \in Sources PROVE Settled(x)'
  <2>1. SameView(x) /\ (Writable(x)' <=> Writable(x)) /\ (Halts(x)' <=> Halts(x))
    BY SameWorld, SameCopies, SameDue
  <2>2. CASE x = s
    <3> SUFFICES ASSUME ~Excused(s)' PROVE After(s, pass[k], agents)'
      BY <2>2 DEF Settled
    <3>1. PICK st : st = agents
      OBVIOUS
    <3>2. After(s, q, st)'
      BY <2>1, <2>2, <3>1, SameDue
    <3> QED
      BY <1>1, <1>2, <3>1, <3>2
  <2>3. CASE x # s
    <3>1. Told(x) => Told(x)'
      BY <1>1, <2>3, SameWorld DEF Told
    <3>2. Excused(x) => Excused(x)'
      BY <2>1, <2>3, <3>1 DEF Excused
    <3>3. \/ SamePass(pass[KindOf(x)], pass'[KindOf(x)])
          \/ pass[KindOf(x)].source # x /\ pass'[KindOf(x)].source # x
      BY <1>2, <2>3, KindIs, NamesAssumption DEF SamePass
    <3> QED
      BY <1>1, <2>1, <3>2, <3>3, Bystander
  <2> QED
    BY <2>2, <2>3
<1>5. ASSUME NEW b \in Agents \ unheard', ~Taken', Abandoned(agents[b])
      PROVE  \E j \in Kinds : Remembered(b, pass'[j])
  <2>1. CASE Remembered(b, q)
    BY <1>2, <2>1
  <2>2. CASE ~Taken /\ b \notin unheard /\ (Remembered(b, pass[k]) => Remembered(b, q))
    <3>1. PICK j \in Kinds : Remembered(b, pass[j])
      BY <1>5, <2>2 DEF SInv, OrphanInv
    <3> QED
      BY <1>2, <2>2, <3>1
  <2> QED
    BY <1>5, <2>1, <2>2
<1>6. OrphanInv'
  BY <1>1, <1>5 DEF OrphanInv, Abandoned, Entries, Remembered
<1> QED
  BY <1>3, <1>4, <1>6 DEF SourceInv, SettledInv

\* The pass of s writes agent a and goes on as q.
LEMMA WritesOn ==
    ASSUME SInv, NEW k \in Kinds, NEW s \in Sources, KindOf(s) = k, pass[k].source = s,
           NEW q, GoodPass(k, q), q.source \in {s, None},
           NEW a \in Agents, NEW new, IsAgent(new),
           UNCHANGED <<worldVars, cache>>, SetAgent(a, new, Becomes(k, q)),
           queue \subseteq queue', unheard \subseteq unheard',
           \A x \in Sources \ {s} : new.owned[x] = agents[a].owned[x],
           ~Excused(s)' => After(s, q, [agents EXCEPT ![a] = new]),
           \A b \in Agents \ unheard' :
               ~Taken' /\ Abandoned(IF b = a THEN new ELSE agents[b]) =>
                   \/ Remembered(b, q)
                   \/ ~Taken /\ Abandoned(agents[b]) /\ (Remembered(b, pass[k]) => Remembered(b, q))
    PROVE  SourceInv'
<1> DEFINE passes == Becomes(k, q)
<1>1. PassesOK(passes) /\ passes[k] = q /\ \A j \in Kinds \ {k} : passes[j] = pass[j]
  BY PassFacts DEF SInv, Becomes, PassesOK
<1>2. SetAgent(a, new, passes)
  OBVIOUS
<1> HIDE DEF passes
<1>3. /\ NewsInv'
      /\ \A x \in Sources : Told(x) => Told(x)'
      /\ \A b \in Agents : agents'[b] = IF b = a THEN new ELSE agents[b]
      /\ \A j \in Kinds : SamePass(passes[j], pass'[j])
  BY <1>1, <1>2, WriteIsNews
<1>4. /\ IsPass(q) /\ SamePass(q, pass'[k]) /\ pass'[k].source = q.source
      /\ agents' = [agents EXCEPT ![a] = new]
  BY <1>1, <1>3, SamePassAfter DEF SetAgent, GoodPass
<1>5. ASSUME NEW x \in Sources PROVE Settled(x)'
  <2>1. SameView(x) /\ (Writable(x)' <=> Writable(x)) /\ (Halts(x)' <=> Halts(x))
    BY SameWorld, SameCopies, SameDue
  <2>2. CASE x = s
    <3> SUFFICES ASSUME ~Excused(s)' PROVE After(s, pass[k], agents)'
      BY <2>2 DEF Settled
    <3>1. PICK st, p : st = agents' /\ p = pass'[k]
      OBVIOUS
    <3>2. After(s, q, st)
      BY <1>4, <3>1
    <3>3. After(s, p, st)
      BY <1>4, <3>1, <3>2, SamePassAfter
    <3>4. After(s, p, st)'
      BY <2>1, <2>2, <3>3, SameDue
    <3> QED
      BY <3>1, <3>4
  <2>3. CASE x # s
    <3>1. Excused(x) => Excused(x)'
      BY <1>3, <2>1 DEF Excused
    <3>2. \/ SamePass(pass[KindOf(x)], pass'[KindOf(x)])
          \/ pass[KindOf(x)].source # x /\ pass'[KindOf(x)].source # x
      BY <1>1, <1>3, <1>4, <2>3, KindIs, NamesAssumption
    <3>3. \A b \in Agents : agents'[b].owned[x] = agents[b].owned[x]
      BY <1>3, <2>3
    <3> QED
      BY <2>1, <3>1, <3>2, <3>3, Bystander
  <2> QED
    BY <2>2, <2>3
<1>6. ASSUME NEW b \in Agents \ unheard', ~Taken', Abandoned(agents'[b])
      PROVE  \E j \in Kinds : Remembered(b, pass'[j])
  <2>1. CASE Remembered(b, q)
    BY <1>4, <2>1, SamePassAfter
  <2>2. CASE /\ ~Taken /\ Abandoned(agents[b])
             /\ Remembered(b, pass[k]) => Remembered(b, q)
    <3>1. PICK j \in Kinds : Remembered(b, pass[j])
      BY <1>6, <2>2 DEF SInv, OrphanInv
    <3>2. j # k => Remembered(b, pass'[j])
      BY <1>1, <1>3, <3>1, SamePassAfter DEF PassesOK, GoodPass
    <3> QED
      BY <1>4, <2>2, <3>1, <3>2, SamePassAfter
  <2> QED
    BY <1>3, <1>6, <2>1, <2>2
<1>7. OrphanInv'
  BY <1>6 DEF OrphanInv, Abandoned, Entries, Remembered
<1> QED
  BY <1>3, <1>5, <1>7 DEF SourceInv, SettledInv

\* The source of a pass that is running.
LEMMA OwnSource ==
    ASSUME SInv, NEW k \in Kinds, pass[k].at # "idle"
    PROVE  /\ pass[k].source \in Sources /\ pass[k].source # None
           /\ KindOf(pass[k].source) = k
           /\ GoodPass(k, pass[k]) /\ IsPass(pass[k])
BY PassFacts, NamesAssumption DEF SInv, GoodPass

\* What it holds in memory is true, unless its source is excused already.
LEMMA OwnRunning ==
    ASSUME SInv, NEW k \in Kinds, pass[k].at # "idle", NEW s, s = pass[k].source,
           UNCHANGED worldVars, unheard \cap Sources \subseteq unheard',
           queue \subseteq queue', news \subseteq news'
    PROVE  /\ ~Excused(s)' => Running(s, pass[k], agents)
           /\ ~Taken' => ~Taken /\ ~OptedIn(s) /\ Running(s, pass[k], agents)
<1>1. s \in Sources /\ KindOf(s) = k
  BY OwnSource
<1>2. SameView(s) /\ (Halts(s)' <=> Halts(s))
  BY SameWorld DEF SameView, Halts
<1>3. \A x \in Sources : Told(x) => Told(x)'
  BY ToldGrows
<1>4. Excused(s) => Excused(s)'
  BY <1>1, <1>2, <1>3 DEF Excused
<1>5. ~Excused(s)' => Running(s, pass[k], agents)
  BY <1>1, <1>4 DEF SInv, SettledInv, Settled, After
<1>6. Taken => Taken'
  BY <1>3, TakenStays
<1>7. ~Taken' => ~OptedIn(s) /\ ~Excused(s)'
  BY <1>1, <1>2 DEF Taken, Excused, SameView, Halts
<1> QED
  BY <1>5, <1>6, <1>7

\* A call fails: its source is queued again.
LEMMA FailKeeps ==
    ASSUME SInv, NEW k \in Kinds, pass[k].at # "idle", UNCHANGED agentVars,
           Fails(k), pass' = Ends(k)
    PROVE  SourceInv'
<1>1. PICK s : s = pass[k].source
  OBVIOUS
<1>2. s \in Sources /\ KindOf(s) = k
  BY <1>1, OwnSource
<1>3. /\ UNCHANGED <<worldVars, agentVars, cache>> /\ unheard' = unheard
      /\ pass' = Becomes(k, NoPass) /\ queue' = queue \cup {s} /\ NoPass.source = None
  BY <1>1 DEF Fails, Ends, Becomes, NoPass
<1>4. Excused(s)' /\ Taken'
  BY <1>2, <1>3 DEF Excused, Told, Taken
<1>5. \A x \in Sources \ {s} : /\ x \in unheard => x \in unheard'
                               /\ x \in queue => x \in queue'
  BY <1>3
<1> QED
  BY <1>1, <1>2, <1>3, <1>4, <1>5, MovesOn

LEMMA RefusedKeeps ==
    ASSUME SInv, NEW k \in Kinds, pass[k].at # "idle", Refused(k)
    PROVE  SourceInv'
BY FailKeeps DEF Refused

LEMMA AnswerLostKeeps ==
    ASSUME SInv, NEW k \in Kinds, pass[k].at # "idle", NEW a \in Agents, NEW new,
           IsAgent(new), AnswerLost(k, a, new),
           \A x \in Sources \ {pass[k].source} : new.owned[x] = agents[a].owned[x]
    PROVE  SourceInv'
<1>1. PICK s : s = pass[k].source
  OBVIOUS
<1>2. s \in Sources /\ KindOf(s) = k
  BY <1>1, OwnSource
<1>3. /\ UNCHANGED <<worldVars, cache>> /\ unheard' = unheard
      /\ SetAgent(a, new, Becomes(k, NoPass)) /\ queue' = queue \cup {s}
      /\ GoodPass(k, NoPass) /\ NoPass.source = None
  BY <1>1, NoPassGood DEF AnswerLost, Fails, Ends, Becomes, NoPass
<1>4. Excused(s)' /\ Taken'
  BY <1>2, <1>3 DEF Excused, Told, Taken
<1>5. queue \subseteq queue' /\ unheard \subseteq unheard'
  BY <1>3
<1> QED
  BY <1>1, <1>2, <1>3, <1>4, <1>5, WritesOn

(***************************************************************************)
(* What the next part of a pass may rely on.                               *)
(***************************************************************************)

LEMMA CollectingAfter ==
    ASSUME NEW s \in Sources, NEW p, IsPass(p), p.source = s, p.leaving, ~OptedIn(s),
           NEW st, Ended(s, st)
    PROVE  After(s, Collecting(p), st)
<1> DEFINE listed == {a \in Agents : cache[a].kind = "auto"}
<1>1. CASE listed = {}
  BY <1>1, NamesAssumption DEF Collecting, NoPass, After
<1>2. CASE listed # {}
  <2>1. Collecting(p) = [p EXCEPT !.at = "collect", !.todo = listed, !.target = None]
    BY <1>2 DEF Collecting
  <2>2. /\ Collecting(p).at = "collect" /\ Collecting(p).source = s
        /\ Collecting(p).leaving
    BY <2>1 DEF IsPass
  <2> QED
    BY <2>2 DEF After, Running
<1> QED
  BY <1>1, <1>2

LEMMA ReleasingAfter ==
    ASSUME NEW s \in Sources, NEW p, IsPass(p), p.source = s, p.leaving <=> ~OptedIn(s),
           p.target = Spared(s), NEW todo, NEW st,
           \A a \in Agents \ todo : st[a].owned[s] = Due(s, a)
    PROVE  After(s, Releasing(p, todo), st)
<1>1. CASE todo # {}
  <2>1. Releasing(p, todo) = [p EXCEPT !.at = "release", !.todo = todo]
    BY <1>1 DEF Releasing
  <2>2. /\ Releasing(p, todo).at = "release" /\ Releasing(p, todo).source = s
        /\ Releasing(p, todo).target = p.target /\ Releasing(p, todo).todo = todo
        /\ Releasing(p, todo).leaving = p.leaving
    BY <2>1 DEF IsPass
  <2> QED
    BY <2>2 DEF After, Running
<1>2. CASE todo = {}
  <2>1. Ended(s, st)
    BY <1>2 DEF Ended
  <2>2. CASE p.leaving
    BY <1>2, <2>1, <2>2, CollectingAfter DEF Releasing
  <2>3. CASE ~p.leaving
    BY <1>2, <2>1, <2>3, NamesAssumption DEF Releasing, NoPass, After
  <2> QED
    BY <2>2, <2>3
<1> QED
  BY <1>1, <1>2

\* The list of the agents to release is complete, unless it missed one.
LEMMA ReleaseOthersAfter ==
    ASSUME NEW s \in Sources, NEW p, IsPass(p), p.source = s, p.leaving <=> ~OptedIn(s),
           NEW missing, missing.source = s, s \notin Missed(missing, Spared(s)),
           NEW st, Writable(s) => st[Target(s)].owned[s] = Due(s, Target(s)),
           \A a \in Agents \ {Spared(s)} : st[a].owned[s] = agents[a].owned[s]
    PROVE  After(s, ReleaseOthers(p, Spared(s)), st)
<1> DEFINE keep == Spared(s)
           q == [p EXCEPT !.target = keep]
           todo == {a \in Agents \ {keep} : cache[a].owned[s] # {}}
<1>1. ReleaseOthers(p, keep) = Releasing(q, todo)
  BY DEF ReleaseOthers, Others
<1>2. q.source = s /\ q.target = keep /\ (q.leaving <=> ~OptedIn(s))
  BY DEF IsPass
<1>3. Target(s) \in Agents \/ ~Writable(s)
  BY DEF Writable
<1>4. keep \in Agents \cup {None}
  BY <1>3 DEF Spared
<1>5. IsPass(q)
  BY <1>4 DEF IsPass
<1>6. s # None
  BY NamesAssumption
<1>7. \A a \in Agents \ {keep} : agents[a].owned[s] # {} => cache[a].owned[s] # {}
  BY <1>6 DEF Missed
<1>8. ASSUME NEW a \in Agents \ todo PROVE st[a].owned[s] = Due(s, a)
  <2>1. CASE a = keep
    BY <2>1, NamesAssumption DEF Spared
  <2>2. CASE a # keep
    <3>1. agents[a].owned[s] = {}
      BY <1>7, <2>2
    <3>2. Due(s, a) = {}
      BY <2>2 DEF Due, Spared
    <3> QED
      BY <2>2, <3>1, <3>2
  <2> QED
    BY <2>1, <2>2
<1> HIDE DEF q, todo
<1> QED
  BY <1>1, <1>2, <1>5, <1>8, ReleasingAfter

\* A pass that leaves will look at every agent the operator created that the list
\* does not miss.
LEMMA ReleasingRemembers ==
    ASSUME NEW p, IsPass(p), p.leaving, NEW todo, NEW keep, NEW b \in Agents,
           agents[b].kind = "auto", b \notin Missed(p, keep)
    PROVE  Remembered(b, Releasing(p, todo))
<1>1. CASE todo # {}
  <2>1. Releasing(p, todo) = [p EXCEPT !.at = "release", !.todo = todo]
    BY <1>1 DEF Releasing
  <2>2. Releasing(p, todo).at = "release" /\ Releasing(p, todo).leaving
    BY <2>1 DEF IsPass
  <2> QED
    BY <2>2 DEF Remembered
<1>2. CASE todo = {}
  <2> DEFINE listed == {a \in Agents : cache[a].kind = "auto"}
  <2>1. b \in listed
    BY DEF Missed
  <2>2. Releasing(p, todo) = [p EXCEPT !.at = "collect", !.todo = listed, !.target = None]
    BY <1>2, <2>1 DEF Releasing, Collecting
  <2>3. Releasing(p, todo).at = "collect" /\ Releasing(p, todo).todo = listed
    BY <2>2 DEF IsPass
  <2> QED
    BY <2>1, <2>3 DEF Remembered
<1> QED
  BY <1>1, <1>2

\* An agent that is not the one just looked at stays on the list.
LEMMA CollectedIs ==
    ASSUME NEW k \in Kinds, NEW p, GoodPass(k, p), p.at \in {"collect", "delete"}, NEW a
    PROVE  /\ Collected(p, a).source \in {p.source, None}
           /\ \A s \in Sources : \A st : s = p.source /\ ~OptedIn(s) /\ p.leaving /\ Ended(s, st) =>
                  After(s, Collected(p, a), st)
           /\ \A b : b # a /\ Remembered(b, p) /\ (p.at = "delete" => p.target = a) =>
                  Remembered(b, Collected(p, a))
<1>1. CASE p.todo = {a} \/ p.todo = {}
  <2>1. Collected(p, a) = NoPass /\ NoPass.source = None
    BY <1>1 DEF Collected, NoPass
  <2>2. \A b : b # a /\ Remembered(b, p) /\ (p.at = "delete" => p.target = a) => FALSE
    BY <1>1 DEF Remembered
  <2> QED
    BY <2>1, <2>2, NamesAssumption DEF After
<1>2. CASE ~(p.todo = {a} \/ p.todo = {})
  <2>1. Collected(p, a) = [p EXCEPT !.at = "collect", !.todo = @ \ {a}, !.target = None,
                                    !.intact = FALSE]
    BY <1>2 DEF Collected
  <2>2. /\ Collected(p, a).at = "collect" /\ Collected(p, a).source = p.source
        /\ Collected(p, a).leaving = p.leaving /\ Collected(p, a).todo = p.todo \ {a}
    BY <2>1 DEF GoodPass, IsPass
  <2>3. \A b : b # a /\ Remembered(b, p) /\ (p.at = "delete" => p.target = a) =>
            Remembered(b, Collected(p, a))
    BY <2>2 DEF Remembered
  <2> QED
    BY <2>2, <2>3 DEF After, Running
<1> QED
  BY <1>1, <1>2

(***************************************************************************)
(* The steps of a pass, for SInv.                                          *)
(***************************************************************************)

LEMMA ReleasingSource ==
    ASSUME NEW p, IsPass(p), NEW todo
    PROVE  Releasing(p, todo).source \in {p.source, None}
<1>1. NoPass.source = None
  BY DEF NoPass
<1>2. \A listed : [p EXCEPT !.at = "collect", !.todo = listed, !.target = None].source = p.source
  BY DEF IsPass
<1>3. Collecting(p).source \in {p.source, None}
  BY <1>1, <1>2 DEF Collecting
<1>4. [p EXCEPT !.at = "release", !.todo = todo].source = p.source
  BY DEF IsPass
<1> QED
  BY <1>1, <1>3, <1>4 DEF Releasing

LEMMA ReleaseOthersSource ==
    ASSUME NEW p, IsPass(p), NEW keep \in Agents \cup {None}
    PROVE  ReleaseOthers(p, keep).source \in {p.source, None}
<1> DEFINE q == [p EXCEPT !.target = keep]
           todo == {a \in Others(keep) : cache[a].owned[p.source] # {}}
<1>1. IsPass(q) /\ q.source = p.source
  BY DEF IsPass
<1>2. ReleaseOthers(p, keep) = Releasing(q, todo)
  BY DEF ReleaseOthers
<1> HIDE DEF q, todo
<1> QED
  BY <1>1, <1>2, ReleasingSource

\* A pass that starts decides by what is so now.
LEMMA WriteTargetIs ==
    ASSUME NEW s, OptedIn(s)
    PROVE  /\ WriteTarget(s, TunnelOf(s), cache) # None =>
                Writable(s) /\ WriteTarget(s, TunnelOf(s), cache) = Target(s)
           /\ Writable(s) /\ WriteTarget(s, TunnelOf(s), cache) = None =>
                objects[s].agentRef = None /\ cache[Target(s)].kind = "absent"
<1> DEFINE a == TargetAgent(objects[s], TunnelOf(s))
           writable == IF objects[s].agentRef = None THEN cache[a].kind = "auto"
                       ELSE /\ cache[a].kind # "absent"
                            /\ cache[a].mode = "Managed"
                            /\ cache[a].tunnel = TunnelOf(s)
<1>1. WriteTarget(s, TunnelOf(s), cache) = IF a \in Agents /\ writable THEN a ELSE None
  BY DEF WriteTarget
<1>2. a = Target(s)
  BY DEF Target
<1> HIDE DEF a
<1> QED
  BY <1>1, <1>2, NamesAssumption DEF Writable

LEMMA DefaultTarget ==
    ASSUME NEW s, objects[s].agentRef = None
    PROVE  Target(s) = DefaultAgent(TunnelOf(s))
BY DEF Target, TargetAgent

LEMMA StartKeeps ==
    ASSUME SInv, NEW k \in Kinds, StartPass(k)
    PROVE  SourceInv'
<1>1. PICK s \in queue :
        LET begun == [NoPass EXCEPT !.source = s]
            leaving == [begun EXCEPT !.leaving = TRUE]
            tunnel == TunnelOf(s)
            resolved == [begun EXCEPT !.tunnel = tunnel, !.routing = RoutingOf(s)]
            target == WriteTarget(s, tunnel, cache)
            missing == /\ objects[s].agentRef = None
                       /\ cache[DefaultAgent(tunnel)].kind = "absent"
        IN /\ KindOf(s) = k
           /\ queue' = queue \ {s}
           /\ \/ /\ ~OptedIn(s)
                 /\ pass' = Becomes(k, ReleaseOthers(leaving, None))
                 /\ unheard' = (unheard \ {s}) \cup Missed(leaving, None)
              \/ /\ Halts(s)
                 /\ unheard' = unheard \ {s}
                 /\ UNCHANGED pass
              \/ /\ OptedIn(s) /\ ~Halts(s)
                 /\ \/ /\ target # None
                       /\ pass' = Becomes(k, [resolved EXCEPT !.at = "apply", !.target = target])
                       /\ unheard' = unheard \ {s}
                    \/ /\ missing
                       /\ pass' = Becomes(k, [resolved EXCEPT !.at = "create"])
                       /\ unheard' = unheard \ {s}
                    \/ /\ target = None /\ ~missing
                       /\ pass' = Becomes(k, ReleaseOthers(resolved, None))
                       /\ unheard' = (unheard \ {s}) \cup Missed(begun, None)
  BY Zenon DEF StartPass
<1> DEFINE begun == [NoPass EXCEPT !.source = s]
           leaving == [begun EXCEPT !.leaving = TRUE]
           tunnel == TunnelOf(s)
           resolved == [begun EXCEPT !.tunnel = tunnel, !.routing = RoutingOf(s)]
           target == WriteTarget(s, tunnel, cache)
<1>2. /\ s \in Sources /\ s # None /\ KindOf(s) = k /\ queue' = queue \ {s} /\ TypeOK /\ IInv
  BY <1>1, Typed, NamesAssumption DEF SInv
<1>3. UNCHANGED <<worldVars, agentVars, cache>>
  BY DEF StartPass
<1>4. pass[k] = NoPass /\ pass[k].source = None /\ IsPass(NoPass)
  <2>1. pass[k] = NoPass
    BY <1>2, PassFacts DEF StartPass, GoodPass
  <2>2. NoPass.source = None
    BY DEF NoPass
  <2> QED
    BY <2>1, <2>2, NoPassGood DEF GoodPass
<1>5. /\ IsPass(begun) /\ begun.source = s /\ ~begun.leaving
      /\ IsPass(leaving) /\ leaving.source = s /\ leaving.leaving
  <2>1. IsPass(NoPass) /\ ~NoPass.leaving
    BY <1>4 DEF NoPass
  <2> QED
    BY <1>2, <2>1 DEF IsPass
<1>6. SameView(s) /\ (Halts(s)' <=> Halts(s))
  BY <1>3, SameWorld DEF SameView, Halts
<1>7. \A x \in Sources \ {s} : x \in queue => x \in queue'
  BY <1>2
<1>8. OptedIn(s) => Taken'
  BY <1>2, <1>6 DEF Taken, SameView
<1>9. CASE ~OptedIn(s)
  <2> DEFINE q == ReleaseOthers(leaving, None)
  <2>1. pass' = Becomes(k, q)
        /\ unheard' = (unheard \ {s}) \cup Missed(leaving, None)
    BY <1>1, <1>9 DEF Halts
  <2>2. Spared(s) = None /\ ~Writable(s)
    BY <1>9 DEF Spared, Writable
  <2>3. q.source \in {s, None}
    <3> HIDE DEF leaving
    <3> QED
      BY <1>2, <1>5, ReleaseOthersSource
  <2>4. ~Excused(s)' => After(s, q, agents)
    <3>1. ~Excused(s)' => s \notin Missed(leaving, None)
      BY <2>1 DEF Excused
    <3> HIDE DEF leaving
    <3>2. \A a \in Agents \ {Spared(s)} : agents[a].owned[s] = agents[a].owned[s]
      OBVIOUS
    <3> QED
      BY <1>2, <1>5, <1>9, <2>2, <3>1, <3>2, ReleaseOthersAfter
  <2>5. ASSUME NEW b \in Agents \ unheard', Abandoned(agents[b])
        PROVE  Remembered(b, q)
    <3> DEFINE r == [leaving EXCEPT !.target = None]
               todo == {a \in Others(None) : cache[a].owned[leaving.source] # {}}
    <3>1. q = Releasing(r, todo)
      BY DEF ReleaseOthers
    <3>2. IsPass(r) /\ r.leaving /\ r.source = s
      BY <1>5 DEF IsPass
    <3>3. b \notin Missed(leaving, None) /\ agents[b].kind = "auto"
      BY <2>1, <2>5 DEF Abandoned
    <3>4. b \notin Missed(r, None)
      BY <1>5, <3>2, <3>3 DEF Missed
    <3> HIDE DEF r, todo, q
    <3> QED
      BY <3>1, <3>2, <3>3, <3>4, ReleasingRemembers
  <2>6. \A x \in Sources \ {s} : x \in unheard => x \in unheard'
    BY <2>1
  <2> HIDE DEF q
  <2> QED
    BY <1>2, <1>3, <1>4, <1>7, <2>1, <2>3, <2>4, <2>5, <2>6, MovesOn
<1>10. CASE Halts(s)
  <2>1. pass' = pass /\ unheard' = unheard \ {s}
    BY <1>1, <1>10 DEF Halts
  <2>2. pass' = pass /\ NoPass = pass[k]
    BY <1>4, <2>1
  <2>3. Excused(s)' /\ Taken'
    BY <1>6, <1>8, <1>10 DEF Excused, Halts
  <2>4. NoPass.source = None /\ \A x \in Sources \ {s} : x \in unheard => x \in unheard'
    BY <2>1 DEF NoPass
  <2> QED
    BY <1>2, <1>3, <1>4, <1>7, <2>2, <2>3, <2>4, MovesOn
<1>11. CASE OptedIn(s) /\ ~Halts(s)
  <2>1. TunnelOf(s) # None /\ RoutingOf(s) # None /\ TunnelOf(s) \in Tunnels
    BY <1>2, <1>11, TunnelType DEF Halts
  <2>2. /\ IsPass(resolved) /\ resolved.source = s /\ resolved.tunnel = tunnel
        /\ resolved.routing = RoutingOf(s) /\ ~resolved.leaving
    BY <1>5, <2>1 DEF IsPass
  <2>3. CASE /\ target # None
             /\ pass' = Becomes(k, [resolved EXCEPT !.at = "apply", !.target = target])
             /\ unheard' = unheard \ {s}
    <3> DEFINE q == [resolved EXCEPT !.at = "apply", !.target = target]
    <3>1. Writable(s) /\ target = Target(s)
      BY <1>11, <2>3, WriteTargetIs
    <3>2. /\ q.at = "apply" /\ q.target = Target(s) /\ q.source = s
          /\ q.tunnel = TunnelOf(s) /\ q.routing = RoutingOf(s) /\ ~q.leaving
      BY <2>2, <3>1 DEF IsPass
    <3>3. After(s, q, agents)
      BY <3>1, <3>2 DEF After, Running, Current
    <3>4. pass' = Becomes(k, q) /\ \A x \in Sources \ {s} : x \in unheard => x \in unheard'
      BY <2>3
    <3> HIDE DEF q
    <3> QED
      BY <1>2, <1>3, <1>4, <1>7, <1>8, <1>11, <3>2, <3>3, <3>4, MovesOn
  <2>4. CASE /\ objects[s].agentRef = None /\ cache[DefaultAgent(tunnel)].kind = "absent"
             /\ pass' = Becomes(k, [resolved EXCEPT !.at = "create"])
             /\ unheard' = unheard \ {s}
    <3> DEFINE q == [resolved EXCEPT !.at = "create"]
    <3>1. Writable(s)
      BY <1>11, <2>1, <2>4, DefaultTarget, AgentsAssumption DEF Writable
    <3>2. /\ q.at = "create" /\ q.source = s
          /\ q.tunnel = TunnelOf(s) /\ q.routing = RoutingOf(s) /\ ~q.leaving
      BY <2>2 DEF IsPass
    <3>3. After(s, q, agents)
      BY <2>4, <3>1, <3>2 DEF After, Running, Current
    <3>4. pass' = Becomes(k, q) /\ \A x \in Sources \ {s} : x \in unheard => x \in unheard'
      BY <2>4
    <3> HIDE DEF q
    <3> QED
      BY <1>2, <1>3, <1>4, <1>7, <1>8, <1>11, <3>2, <3>3, <3>4, MovesOn
  <2>5. CASE /\ target = None
             /\ ~(objects[s].agentRef = None /\ cache[DefaultAgent(tunnel)].kind = "absent")
             /\ pass' = Becomes(k, ReleaseOthers(resolved, None))
             /\ unheard' = (unheard \ {s}) \cup Missed(begun, None)
    <3> DEFINE q == ReleaseOthers(resolved, None)
    <3>1. ~Writable(s) /\ Spared(s) = None
      BY <1>11, <2>5, WriteTargetIs, DefaultTarget DEF Spared
    <3>2. ~Excused(s)' => s \notin Missed(begun, None)
      BY <2>5 DEF Excused
    <3>3. pass' = Becomes(k, q) /\ \A x \in Sources \ {s} : x \in unheard => x \in unheard'
      BY <2>5
    <3> HIDE DEF begun, resolved
    <3>4. q.source \in {s, None}
      BY <1>2, <2>2, ReleaseOthersSource
    <3>5. \A a \in Agents \ {Spared(s)} : agents[a].owned[s] = agents[a].owned[s]
      OBVIOUS
    <3>6. ~Excused(s)' => After(s, q, agents)
      BY <1>2, <1>5, <1>11, <2>2, <3>1, <3>2, <3>5, ReleaseOthersAfter
    <3> HIDE DEF q
    <3> QED
      BY <1>2, <1>3, <1>4, <1>7, <1>8, <1>11, <3>3, <3>4, <3>6, MovesOn
  <2> QED
    BY <1>1, <1>11, <2>3, <2>4, <2>5
<1> QED
  BY <1>9, <1>10, <1>11 DEF Halts

\* A pass that is about to create or to apply is one of a source that takes part.
LEMMA OwnCurrent ==
    ASSUME SInv, NEW k \in Kinds, pass[k].at \in {"create", "apply"},
           NEW s, s = pass[k].source,
           UNCHANGED worldVars, unheard \subseteq unheard', queue \subseteq queue', news \subseteq news'
    PROVE  /\ Taken'
           /\ ~Excused(s)' => /\ Current(s, pass[k])
                              /\ pass[k].at = "create" => objects[s].agentRef = None
                              /\ pass[k].at = "apply" => pass[k].target = Target(s)
<1>1. pass[k].at # "idle" /\ unheard \cap Sources \subseteq unheard'
  OBVIOUS
<1>2. /\ ~Excused(s)' => Running(s, pass[k], agents)
      /\ ~Taken' => ~OptedIn(s) /\ Running(s, pass[k], agents)
  BY <1>1, OwnRunning
<1>3. Running(s, pass[k], agents) => Current(s, pass[k])
  BY DEF Running
<1>4. Current(s, pass[k]) => OptedIn(s)
  BY DEF Current, Writable
<1> QED
  BY <1>2, <1>3, <1>4 DEF Running

LEMMA CreateKeeps ==
    ASSUME SInv, NEW k \in Kinds, CreateDefaultAgent(k)
    PROVE  SourceInv'
<1> DEFINE p == pass[k]
           a == DefaultAgent(p.tunnel)
           found == [p EXCEPT !.at = "apply", !.target = a]
           new == AutoAgent(p.tunnel)
<1>1. PICK s : s = p.source
  OBVIOUS
<1>2. p.at = "create" /\ p.at # "idle" /\ p.at \in {"create", "apply"} /\ IInv
  BY DEF CreateDefaultAgent, SInv
<1>3. s \in Sources /\ s # None /\ KindOf(s) = k /\ GoodPass(k, p) /\ IsPass(p)
  BY <1>1, <1>2, OwnSource
<1>4. p.tunnel \in Tunnels /\ DOMAIN p.routing # {}
  BY <1>2, <1>3 DEF GoodPass, WritesSomething, IsPass
<1>5. a \in Agents
  BY <1>4, AgentsAssumption
<1>6. /\ found.at = "apply" /\ found.target = a /\ found.source = s /\ IsPass(found)
      /\ found.tunnel = p.tunnel /\ found.routing = p.routing /\ found.leaving = p.leaving
  BY <1>1, <1>3, <1>5 DEF IsPass, Steps
<1>7. GoodPass(k, found)
  BY <1>3, <1>4, <1>5, <1>6, NamesAssumption DEF GoodPass, WritesSomething
<1>8. IsAgent(new) /\ \A o \in Owners : new.owned[o] = {}
  BY <1>4, AutoAgentIs
<1>9. agents[a].kind = "absent" => \A x \in Sources : new.owned[x] = agents[a].owned[x]
  BY <1>2, <1>5, <1>8, AbsentEmpty DEF Owners
<1>10. ASSUME UNCHANGED worldVars, unheard \subseteq unheard', queue = queue', news \subseteq news'
       PROVE  /\ Taken'
              /\ ~Excused(s)' => /\ cache[a].kind \in {"auto", "absent"}
                                 /\ \A st : After(s, found, st)
  <2>1. /\ Taken'
        /\ ~Excused(s)' => Current(s, p) /\ objects[s].agentRef = None
    BY <1>1, <1>2, <1>10, OwnCurrent
  <2>2. Current(s, p) /\ objects[s].agentRef = None =>
          a = Target(s) /\ cache[a].kind \in {"auto", "absent"}
    BY DefaultTarget DEF Current, Writable
  <2>3. Current(s, p) => Current(s, found)
    BY <1>6 DEF Current
  <2> HIDE DEF found, a
  <2>4. Current(s, found) /\ a = Target(s) => \A st : After(s, found, st)
    BY <1>6 DEF After, Running
  <2> QED
    BY <2>1, <2>2, <2>3, <2>4
<1>11. CASE Refused(k)
  BY <1>2, <1>11, RefusedKeeps
<1>12. CASE agents[a].kind = "absent" /\ AnswerLost(k, a, new)
  <2> HIDE DEF new, a
  <2> QED
    BY <1>2, <1>5, <1>8, <1>9, <1>12, AnswerLostKeeps
<1>13. CASE /\ agents[a].kind = "absent"
            /\ SetAgent(a, new, Becomes(k, found))
            /\ UNCHANGED <<worldVars, cache, queue, budget, unheard>>
  <2>1. news \subseteq news'
    BY <1>13 DEF SetAgent
  <2>2. Taken' /\ (~Excused(s)' => \A st : After(s, found, st))
    BY <1>10, <1>13, <2>1
  <2> HIDE DEF found, new, a
  <2>3. ~Excused(s)' => After(s, found, [agents EXCEPT ![a] = new])
    BY <2>2
  <2>4. queue \subseteq queue' /\ unheard \subseteq unheard'
    BY <1>13
  <2> QED
    BY <1>1, <1>3, <1>5, <1>6, <1>7, <1>8, <1>9, <1>13, <2>2, <2>3, <2>4, WritesOn
<1>14. CASE UNCHANGED agentVars /\ Fails(k) /\ pass' = Ends(k)
  BY <1>2, <1>14, FailKeeps
<1>15. CASE /\ UNCHANGED <<agentVars, budget>>
            /\ pass' = Becomes(k, found)
            /\ UNCHANGED <<worldVars, cache, queue, unheard>>
  <2>1. Taken' /\ (~Excused(s)' => \A st : After(s, found, st))
    BY <1>10, <1>15 DEF agentVars
  <2> HIDE DEF found
  <2>2. \A x \in Sources \ {s} : (x \in unheard => x \in unheard') /\ (x \in queue => x \in queue')
    BY <1>15
  <2> QED
    BY <1>1, <1>3, <1>6, <1>15, <2>1, <2>2, MovesOn
<1>16. CASE /\ UNCHANGED <<agentVars, budget>>
            /\ cache[a].kind \in {"user", "ghost"}
            /\ pass' = Becomes(k, ReleaseOthers(p, None))
            /\ unheard' = unheard \cup Missed(p, None)
            /\ UNCHANGED <<worldVars, cache, queue>>
  <2> DEFINE q == ReleaseOthers(p, None)
  <2>1. Taken' /\ Excused(s)'
    BY <1>10, <1>16 DEF agentVars
  <2>2. q.source \in {s, None}
    BY <1>1, <1>3, ReleaseOthersSource
  <2>3. pass' = Becomes(k, q)
    BY <1>16
  <2> HIDE DEF q
  <2>4. \A x \in Sources \ {s} : (x \in unheard => x \in unheard') /\ (x \in queue => x \in queue')
    BY <1>16
  <2> QED
    BY <1>1, <1>3, <1>16, <2>1, <2>2, <2>3, <2>4, MovesOn
<1> QED
  BY <1>11, <1>12, <1>13, <1>14, <1>15, <1>16, Zenon DEF CreateDefaultAgent

\* The entries a source applies are those it is due; a conflict excuses it.
LEMMA ApplyKeeps ==
    ASSUME SInv, NEW k \in Kinds, ApplyRouting(k)
    PROVE  SourceInv'
<1> DEFINE p == pass[k]
           a == p.target
           new == [agents[a] EXCEPT !.owned[p.source] = ToSet(p.routing)]
           invalid == agents[a].kind \in {"absent", "ghost"} \/ RepeatsKey(p.routing)
<1>1. PICK s : s = p.source
  OBVIOUS
<1>2. p.at = "apply" /\ p.at # "idle" /\ p.at \in {"create", "apply"} /\ IInv
  BY DEF ApplyRouting, SInv
<1>3. s \in Sources /\ s # None /\ KindOf(s) = k /\ GoodPass(k, p) /\ IsPass(p)
  BY <1>1, <1>2, OwnSource
<1>4. a \in Agents /\ a # None
  BY <1>2, <1>3, NamesAssumption DEF GoodPass, WritesSomething, IsPass
<1>5. \E conflict \in BOOLEAN :
        \/ /\ invalid
           /\ Fails(k)
           /\ pass' = Ends(k)
           /\ UNCHANGED <<agentVars, budget>>
        \/ /\ ~invalid /\ conflict
           /\ pass' = Ends(k)
           /\ queue' = queue \cup RetriedAfterConflict(p.source)
           /\ unheard' = unheard \cup {p.source}
           /\ UNCHANGED <<worldVars, agentVars, cache, budget>>
        \/ /\ ~invalid /\ ~conflict
           /\ SetAgent(a, new, Becomes(k, ReleaseOthers(p, a)))
           /\ unheard' = unheard \cup Missed(p, a)
           /\ UNCHANGED <<worldVars, cache, queue, budget>>
        \/ Refused(k)
        \/ ~invalid /\ ~conflict /\ AnswerLost(k, a, new)
  BY Zenon DEF ApplyRouting
<1>6. ~invalid => /\ IsAgent(new)
                  /\ \A o \in Owners : new.owned[o] = IF o = s THEN ToSet(p.routing)
                                                               ELSE agents[a].owned[o]
  <2> SUFFICES ASSUME agents[a].kind \notin {"absent", "ghost"}
               PROVE  /\ IsAgent(new)
                      /\ \A o \in Owners : new.owned[o] = IF o = s THEN ToSet(p.routing)
                                                                   ELSE agents[a].owned[o]
    OBVIOUS
  <2>1. IsAgent(agents[a])
    BY <1>2, <1>4, Typed
  <2>2. /\ new.kind = agents[a].kind
        /\ DOMAIN new.owned = Owners
        /\ \A o \in Owners : new.owned[o] = IF o = s THEN ToSet(p.routing) ELSE agents[a].owned[o]
    BY <1>1, <1>3, <2>1 DEF IsAgent, Owners
  <2> QED
    BY <2>1, <2>2 DEF IsAgent
<1>7. ~invalid => \A x \in Sources \ {s} : new.owned[x] = agents[a].owned[x]
  BY <1>6 DEF Owners
<1>8. CASE Refused(k)
  BY <1>2, <1>8, RefusedKeeps
<1>9. CASE ~invalid /\ AnswerLost(k, a, new)
  <2> HIDE DEF new, a, invalid
  <2> QED
    BY <1>1, <1>2, <1>4, <1>6, <1>7, <1>9, AnswerLostKeeps
<1>10. CASE UNCHANGED agentVars /\ Fails(k) /\ pass' = Ends(k)
  BY <1>2, <1>10, FailKeeps
<1>11. CASE /\ pass' = Ends(k)
            /\ queue' = queue \cup RetriedAfterConflict(p.source)
            /\ unheard' = unheard \cup {p.source}
            /\ UNCHANGED <<worldVars, agentVars, cache, budget>>
  <2>1. Excused(s)' /\ Taken'
    BY <1>1, <1>3, <1>11 DEF Excused, Taken
  <2>2. pass' = Becomes(k, NoPass) /\ NoPass.source = None
    BY <1>11 DEF Ends, Becomes, NoPass
  <2>3. \A x \in Sources \ {s} : (x \in unheard => x \in unheard') /\ (x \in queue => x \in queue')
    BY <1>11
  <2> QED
    BY <1>1, <1>3, <1>11, <2>1, <2>2, <2>3, MovesOn
<1>12. CASE /\ ~invalid
            /\ SetAgent(a, new, Becomes(k, ReleaseOthers(p, a)))
            /\ unheard' = unheard \cup Missed(p, a)
            /\ UNCHANGED <<worldVars, cache, queue, budget>>
  <2> DEFINE q == ReleaseOthers(p, a)
             st == [agents EXCEPT ![a] = new]
  <2>1. news \subseteq news' /\ queue \subseteq queue' /\ unheard \subseteq unheard'
    BY <1>12 DEF SetAgent
  <2>2. /\ Taken'
        /\ ~Excused(s)' => Current(s, p) /\ a = Target(s)
    BY <1>1, <1>2, <1>12, <2>1, OwnCurrent
  <2>3. GoodPass(k, q) /\ q.source \in {s, None}
    BY <1>1, <1>3, <1>4, ReleaseOthersGood, ReleaseOthersSource
  <2>4. ASSUME ~Excused(s)' PROVE After(s, q, st)
    <3>1. /\ Writable(s) /\ OptedIn(s) /\ ~p.leaving /\ a = Target(s) /\ a = Spared(s)
          /\ p.routing = RoutingOf(s)
      BY <2>2, <2>4 DEF Current, Writable, Spared
    <3>2. s \notin Missed(p, Spared(s))
      BY <1>12, <2>4, <3>1 DEF Excused
    <3>3. st[a].owned[s] = Due(s, a)
      <4>1. st[a] = new
        BY <1>2, <1>4, Typed DEF TypeOK, WorldOK
      <4>2. new.owned[s] = ToSet(p.routing)
        BY <1>3, <1>6, <1>12 DEF Owners
      <4> HIDE DEF new, st
      <4> QED
        BY <3>1, <4>1, <4>2 DEF Due
    <3>4. \A b \in Agents \ {a} : st[b].owned[s] = agents[b].owned[s]
      BY <1>2, <1>4, Typed DEF TypeOK, WorldOK
    <3>5. q = ReleaseOthers(p, Spared(s))
      BY <3>1
    <3> HIDE DEF st, new, q, a
    <3> QED
      BY <1>1, <1>3, <3>1, <3>2, <3>3, <3>4, <3>5, ReleaseOthersAfter
  <2>5. SetAgent(a, new, Becomes(k, q))
    BY <1>12
  <2> HIDE DEF q, new, a, invalid
  <2>6. ~Excused(s)' => After(s, q, [agents EXCEPT ![a] = new])
    BY <2>4
  <2> HIDE DEF st
  <2> QED
    BY <1>1, <1>3, <1>4, <1>6, <1>7, <1>12, <2>1, <2>2, <2>3, <2>5, <2>6, WritesOn
<1> HIDE DEF new, invalid
<1> QED
  BY <1>5, <1>8, <1>9, <1>10, <1>11, <1>12

LEMMA ReleaseKeeps ==
    ASSUME SInv, NEW k \in Kinds, ReleaseRouting(k)
    PROVE  SourceInv'
<1> DEFINE p == pass[k]
           new(a) == IF agents[a].kind = "absent" THEN Ghost
                     ELSE [agents[a] EXCEPT !.owned[p.source] = {}]
<1>1. PICK s : s = p.source
  OBVIOUS
<1>2. p.at = "release" /\ p.at # "idle" /\ IInv
  BY DEF ReleaseRouting, SInv
<1>3. s \in Sources /\ s # None /\ KindOf(s) = k /\ GoodPass(k, p) /\ IsPass(p)
  BY <1>1, <1>2, OwnSource
<1>4. PICK a \in p.todo :
        \/ /\ SetAgent(a, new(a), Becomes(k, Releasing(p, p.todo \ {a})))
           /\ unheard' = unheard \cup (Missed(p, p.target) \cap Agents)
           /\ UNCHANGED <<worldVars, cache, queue, budget>>
        \/ Refused(k)
        \/ AnswerLost(k, a, new(a))
  BY Zenon DEF ReleaseRouting
<1>5. a \in Agents /\ p.target # a /\ p.target \notin p.todo /\ p.todo \in SUBSET Agents
  BY <1>2, <1>3, <1>4 DEF GoodPass, IsPass, WritesSomething
<1>6. /\ IsAgent(new(a))
      /\ \A o \in Owners : new(a).owned[o] = IF o = s THEN {} ELSE agents[a].owned[o]
      /\ new(a).kind = "auto" => agents[a].kind = "auto"
  <2>1. new(a) = Released(s, agents[a])
    BY <1>1 DEF Released
  <2> HIDE DEF new
  <2> QED
    BY <1>2, <1>3, <1>5, <2>1, ReleasedIs
<1>7. \A x \in Sources \ {s} : new(a).owned[x] = agents[a].owned[x]
  BY <1>6 DEF Owners
<1>8. CASE Refused(k)
  BY <1>2, <1>8, RefusedKeeps
<1>9. CASE AnswerLost(k, a, new(a))
  <2> HIDE DEF new
  <2> QED
    BY <1>1, <1>2, <1>5, <1>6, <1>7, <1>9, AnswerLostKeeps
<1>10. CASE /\ SetAgent(a, new(a), Becomes(k, Releasing(p, p.todo \ {a})))
            /\ unheard' = unheard \cup (Missed(p, p.target) \cap Agents)
            /\ UNCHANGED <<worldVars, cache, queue, budget>>
  <2> DEFINE todo == p.todo \ {a}
             q == Releasing(p, todo)
             st == [agents EXCEPT ![a] = new(a)]
  <2>1. /\ news \subseteq news' /\ queue \subseteq queue' /\ unheard \subseteq unheard'
        /\ unheard \cap Sources \subseteq unheard'
    BY <1>10 DEF SetAgent
  <2>2. /\ ~Excused(s)' => Running(s, p, agents)
        /\ ~Taken' => ~Taken /\ ~OptedIn(s) /\ Running(s, p, agents)
    BY <1>1, <1>2, <1>10, <2>1, OwnRunning
  <2>3. GoodPass(k, q) /\ q.source \in {s, None}
    <3>1. todo \in SUBSET Agents /\ p.target \notin todo
      BY <1>5
    <3> HIDE DEF todo
    <3> QED
      BY <1>1, <1>3, <3>1, ReleasingGood, ReleasingSource
  <2>4. ASSUME ~Excused(s)' PROVE After(s, q, st)
    <3>1. /\ p.leaving <=> ~OptedIn(s)
          /\ p.target = Spared(s)
          /\ \A b \in Agents \ p.todo : agents[b].owned[s] = Due(s, b)
      BY <1>2, <2>2, <2>4 DEF Running
    <3>2. ASSUME NEW b \in Agents \ todo PROVE st[b].owned[s] = Due(s, b)
      <4>1. CASE b = a
        <5>1. st[b] = new(a)
          BY <1>2, <1>5, <4>1, Typed DEF TypeOK, WorldOK
        <5>2. new(a).owned[s] = {}
          BY <1>3, <1>6 DEF Owners
        <5>3. Due(s, a) = {}
          BY <1>5, <3>1 DEF Due, Spared
        <5> QED
          BY <4>1, <5>1, <5>2, <5>3
      <4>2. CASE b # a
        BY <1>2, <1>5, <3>1, <4>2, Typed DEF TypeOK, WorldOK
      <4> QED
        BY <4>1, <4>2
    <3> HIDE DEF todo, st
    <3> QED
      BY <1>1, <1>3, <3>1, <3>2, ReleasingAfter
  <2>5. ASSUME NEW b \in Agents \ unheard', ~Taken',
               Abandoned(IF b = a THEN new(a) ELSE agents[b])
        PROVE  Remembered(b, q)
    <3>1. p.leaving
      BY <1>2, <2>2, <2>5 DEF Running
    <3>2. agents[b].kind = "auto" /\ b \notin Missed(p, p.target)
      BY <1>6, <1>10, <2>5 DEF Abandoned
    <3> HIDE DEF todo
    <3> QED
      BY <1>3, <3>1, <3>2, ReleasingRemembers
  <2>6. SetAgent(a, new(a), Becomes(k, q))
    BY <1>10
  <2>7. ~Excused(s)' => After(s, q, [agents EXCEPT ![a] = new(a)])
    BY <2>4
  <2> HIDE DEF q, st, new
  <2> QED
    BY <1>1, <1>3, <1>5, <1>6, <1>7, <1>10, <2>1, <2>3, <2>5, <2>6, <2>7, WritesOn
<1> QED
  BY <1>4, <1>8, <1>9, <1>10

\* An agent that is looked at is not abandoned, or is deleted next.
LEMMA ReadOrphanKeeps ==
    ASSUME SInv, NEW k \in Kinds, ReadOrphan(k)
    PROVE  SourceInv'
<1> DEFINE p == pass[k]
<1>1. PICK s : s = p.source
  OBVIOUS
<1>2. p.at = "collect" /\ p.at # "idle" /\ IInv
  BY DEF ReadOrphan, SInv
<1>3. s \in Sources /\ s # None /\ KindOf(s) = k /\ GoodPass(k, p) /\ IsPass(p)
  BY <1>1, <1>2, OwnSource
<1>4. CASE Refused(k)
  BY <1>2, <1>4, RefusedKeeps
<1>5. ASSUME NEW a \in p.todo,
             \/ pass' = Becomes(k, [p EXCEPT !.at = "delete", !.target = a,
                                             !.todo = @ \ {a}, !.intact = TRUE])
             \/ ~Abandoned(agents[a]) /\ pass' = Becomes(k, Collected(p, a)),
             unheard' = unheard \ {a},
             UNCHANGED <<worldVars, agentVars, cache, queue, budget>>
      PROVE  SourceInv'
  <2>1. a \in Agents /\ a \notin Sources
    BY <1>3, <1>5, NamesAssumption DEF IsPass
  <2>2. /\ unheard \cap Sources \subseteq unheard'
        /\ \A x \in Sources \ {s} : (x \in unheard => x \in unheard') /\ (x \in queue => x \in queue')
        /\ news \subseteq news' /\ queue \subseteq queue'
    BY <1>5, <2>1 DEF agentVars
  <2>3. /\ ~Excused(s)' => Running(s, p, agents)
        /\ ~Taken' => ~Taken
    BY <1>1, <1>2, <1>5, <2>2, OwnRunning
  <2>4. ~Excused(s)' => ~OptedIn(s) /\ p.leaving /\ Ended(s, agents)
    BY <1>2, <2>3 DEF Running
  <2>5. CASE pass' = Becomes(k, [p EXCEPT !.at = "delete", !.target = a,
                                          !.todo = @ \ {a}, !.intact = TRUE])
    <3> DEFINE q == [p EXCEPT !.at = "delete", !.target = a, !.todo = @ \ {a}, !.intact = TRUE]
    <3>1. /\ q.at = "delete" /\ q.target = a /\ q.source = s /\ q.leaving = p.leaving
          /\ q.todo = p.todo \ {a}
      BY <1>1, <1>3 DEF IsPass
    <3>2. pass' = Becomes(k, q)
      BY <2>5
    <3> HIDE DEF q
    <3>3. ~Excused(s)' => After(s, q, agents)
      BY <2>4, <3>1 DEF After, Running
    <3>4. ASSUME NEW b \in Agents \ unheard', ~Taken'
          PROVE  \/ Remembered(b, q)
                 \/ ~Taken /\ b \notin unheard /\ (Remembered(b, p) => Remembered(b, q))
      BY <1>2, <1>5, <2>3, <3>1, <3>4 DEF Remembered
    <3> QED
      BY <1>1, <1>3, <1>5, <2>2, <3>1, <3>2, <3>3, <3>4, MovesOn
  <2>6. CASE ~Abandoned(agents[a]) /\ pass' = Becomes(k, Collected(p, a))
    <3> DEFINE q == Collected(p, a)
    <3>1. p.at \in {"collect", "delete"} /\ p.at # "delete"
      BY <1>2
    <3>2. q.source \in {s, None}
      BY <1>1, <1>3, <3>1, CollectedIs
    <3>3. ~Excused(s)' => After(s, q, agents)
      BY <1>1, <1>3, <2>4, <3>1, CollectedIs
    <3>4. ASSUME NEW b \in Agents \ unheard', ~Taken', Abandoned(agents[b])
          PROVE  ~Taken /\ b \notin unheard /\ (Remembered(b, p) => Remembered(b, q))
      BY <1>3, <1>5, <2>3, <2>6, <3>1, <3>4, CollectedIs
    <3>5. pass' = Becomes(k, q)
      BY <2>6
    <3> HIDE DEF q
    <3> QED
      BY <1>1, <1>3, <1>5, <2>2, <3>2, <3>3, <3>4, <3>5, MovesOn
  <2> QED
    BY <1>5, <2>5, <2>6
<1>6. CASE Refused(k) \/
           \E a \in p.todo :
               /\ pass' = Becomes(k, IF Abandoned(agents[a])
                                     THEN [p EXCEPT !.at = "delete", !.target = a,
                                                    !.todo = @ \ {a}, !.intact = TRUE]
                                     ELSE Collected(p, a))
               /\ unheard' = unheard \ {a}
               /\ UNCHANGED <<worldVars, agentVars, cache, queue, budget>>
  BY <1>4, <1>5, <1>6
<1> QED
  BY <1>6, Zenon DEF ReadOrphan, OrphanView, Abandoned

LEMMA DeleteOrphanKeeps ==
    ASSUME SInv, NEW k \in Kinds, DeleteOrphan(k)
    PROVE  SourceInv'
<1> DEFINE p == pass[k]
           a == p.target
           q == Collected(p, a)
<1>1. PICK s : s = p.source
  OBVIOUS
<1>2. p.at = "delete" /\ p.at # "idle" /\ p.at \in {"collect", "delete"} /\ IInv
  BY DEF DeleteOrphan, SInv
<1>3. s \in Sources /\ s # None /\ KindOf(s) = k /\ GoodPass(k, p) /\ IsPass(p)
  BY <1>1, <1>2, OwnSource
<1>4. a \in Agents
  BY <1>2, <1>3 DEF GoodPass, WritesSomething, IsPass
<1>5. GoodPass(k, q) /\ q.source \in {s, None}
  BY <1>1, <1>2, <1>3, CollectedGood, CollectedIs
<1>6. \A b : b # a /\ Remembered(b, p) => Remembered(b, q)
  BY <1>2, <1>3, CollectedIs
<1>7. \A st : ~OptedIn(s) /\ p.leaving /\ Ended(s, st) => After(s, q, st)
  BY <1>1, <1>2, <1>3, CollectedIs
<1>8. IsAgent(NoAgent) /\ NoAgent.kind # "auto"
  BY NoAgentIs DEF NoAgent
<1>9. PreconditionHolds(p) => \A x \in Sources : NoAgent.owned[x] = agents[a].owned[x]
  BY <1>2, DeletesEmpty, NoAgentIs DEF Owners
<1>10. ASSUME UNCHANGED worldVars, queue' = queue, news \subseteq news',
              unheard \subseteq unheard'
       PROVE  /\ ~Excused(s)' => ~OptedIn(s) /\ p.leaving /\ Ended(s, agents)
              /\ ~Taken' => ~Taken
  <2>1. unheard \cap Sources \subseteq unheard' /\ queue \subseteq queue'
    BY <1>10
  <2> QED
    BY <1>1, <1>2, <1>10, <2>1, OwnRunning DEF Running
<1>11. CASE Refused(k)
  BY <1>2, <1>11, RefusedKeeps
<1>12. CASE PreconditionHolds(p) /\ AnswerLost(k, a, NoAgent)
  BY <1>2, <1>4, <1>8, <1>9, <1>12, AnswerLostKeeps
<1>13. CASE /\ PreconditionHolds(p)
            /\ SetAgent(a, NoAgent, Becomes(k, q))
            /\ UNCHANGED <<worldVars, cache, queue, budget, unheard>>
  <2> DEFINE st == [agents EXCEPT ![a] = NoAgent]
  <2>1. news \subseteq news' /\ queue \subseteq queue' /\ unheard \subseteq unheard'
    BY <1>13 DEF SetAgent
  <2>2. /\ ~Excused(s)' => ~OptedIn(s) /\ p.leaving /\ Ended(s, agents)
        /\ ~Taken' => ~Taken
    BY <1>10, <1>13, <2>1
  <2>3. \A b \in Agents : st[b].owned[s] = agents[b].owned[s]
    <3>1. \A b \in Agents : st[b] = IF b = a THEN NoAgent ELSE agents[b]
      BY <1>2, <1>4, Typed DEF TypeOK, WorldOK
    <3> HIDE DEF st, a
    <3> QED
      BY <1>3, <1>9, <1>13, <3>1
  <2>4. Ended(s, agents) => Ended(s, st)
    BY <2>3 DEF Ended
  <2>5. ~Excused(s)' => After(s, q, st)
    <3> HIDE DEF st, q
    <3> QED
      BY <1>7, <2>2, <2>4
  <2> HIDE DEF q, a
  <2>6. ASSUME NEW b \in Agents \ unheard', ~Taken',
               Abandoned(IF b = a THEN NoAgent ELSE agents[b])
        PROVE  ~Taken /\ Abandoned(agents[b]) /\ (Remembered(b, p) => Remembered(b, q))
    <3>1. b # a
      BY <1>8, <2>6 DEF Abandoned
    <3> QED
      BY <1>6, <2>2, <2>6, <3>1
  <2> QED
    BY <1>1, <1>3, <1>4, <1>5, <1>8, <1>9, <1>13, <2>1, <2>5, <2>6, WritesOn
<1>14. CASE /\ pass' = Becomes(k, q)
            /\ unheard' = unheard \cup {a}
            /\ UNCHANGED <<worldVars, agentVars, cache, queue, budget>>
  <2>1. /\ ~Excused(s)' => ~OptedIn(s) /\ p.leaving /\ Ended(s, agents)
        /\ ~Taken' => ~Taken
    BY <1>10, <1>14 DEF agentVars
  <2>2. ~Excused(s)' => After(s, q, agents)
    BY <1>7, <2>1
  <2> HIDE DEF q
  <2>3. ASSUME NEW b \in Agents \ unheard', ~Taken'
        PROVE  ~Taken /\ b \notin unheard /\ (Remembered(b, p) => Remembered(b, q))
    BY <1>6, <1>14, <2>1, <2>3
  <2>4. \A x \in Sources \ {s} : (x \in unheard => x \in unheard') /\ (x \in queue => x \in queue')
    BY <1>14
  <2> QED
    BY <1>1, <1>3, <1>5, <1>14, <2>2, <2>3, <2>4, MovesOn
<1> HIDE DEF q
<1> QED
  BY <1>11, <1>12, <1>13, <1>14, Zenon DEF DeleteOrphan, q

(***************************************************************************)
(* SInv is inductive, and says enough.                                     *)
(***************************************************************************)

LEMMA SettledInit == Init => SInv
<1> SUFFICES ASSUME Init PROVE SInv
  OBVIOUS
<1>1. cache = agents /\ queue = {s \in Sources : Admits(s, objects[s])} /\ unheard = LeftBehind(queue)
  BY DEF Init
<1>2. NewsInv
  BY <1>1 DEF NewsInv, Differs
<1>3. ASSUME NEW s \in Sources, ~Excused(s) PROVE After(s, pass[KindOf(s)], agents)
  <2>1. s \notin queue /\ s \notin unheard
    BY <1>3 DEF Excused, Told
  <2>2. \A a \in Agents : agents[a].owned[s] = {}
    BY <1>1, <2>1 DEF LeftBehind
  <2>3. ~OptedIn(s)
    BY <1>1, <2>1, OptedInAdmitted
  <2>4. Ended(s, agents)
    BY <2>2, <2>3 DEF Ended, Due, Writable
  <2>5. pass[KindOf(s)].source = None
    BY KindIs DEF Init, NoPass
  <2> QED
    BY <2>4, <2>5, NamesAssumption DEF After
<1>4. OrphanInv
  BY <1>1 DEF OrphanInv, Abandoned, LeftBehind
<1> QED
  BY <1>2, <1>3, <1>4, InitInv DEF SInv, SettledInv, Settled

LEMMA StutterKeeps ==
    ASSUME SInv, UNCHANGED vars
    PROVE  SourceInv'
<1>1. /\ UNCHANGED <<agentVars, cache, pass>> /\ UNCHANGED worldVars
      /\ unheard \subseteq unheard' /\ queue \subseteq queue' /\ news \subseteq news'
  BY DEF vars, agentVars
<1>2. ASSUME NEW s \in Sources PROVE Reached(s) \/ Untouched(s)
  <2>1. SameView(s)
    BY <1>1, SameWorld
  <2>2. Told(s) => Told(s)'
    BY <1>1, ToldGrows
  <2> QED
    BY <1>1, <2>1, <2>2 DEF Reached, Untouched
<1> QED
  BY <1>1, <1>2, WorldKeeps

LEMMA SettledNext == SInv /\ [Next]_vars => SInv'
<1> SUFFICES ASSUME SInv, [Next]_vars PROVE SInv'
  OBVIOUS
<1>1. ASSUME NEW k \in Kinds, PassStep(k) PROVE SourceInv'
  BY <1>1, StartKeeps, CreateKeeps, ApplyKeeps, ReleaseKeeps, ReadOrphanKeeps, DeleteOrphanKeeps
  DEF PassStep
<1>2. ASSUME NEW a \in Agents,
             SyncAgent(a) \/ WriteAgent(a) \/ DeleteAgent(a) \/ WriteAgentStatus(a)
      PROVE  SourceInv'
  BY <1>2, SyncAgentKeeps, WriteAgentKeeps, DeleteAgentKeeps, WriteAgentStatusKeeps
<1>3. SourceInv'
  BY <1>1, <1>2, EditSourceKeeps, EditTunnelKeeps, EditProxyKeeps, RestartKeeps, StutterKeeps
  DEF Next
<1>4. IInv'
  BY NextInv DEF SInv
<1> QED
  BY <1>3, <1>4 DEF SInv, SourceInv

\* Once nothing is left to do, no pass is running.
LEMMA AtRest ==
    ASSUME SInv, Quiet
    PROVE  /\ \A s : ~Told(s)
           /\ \A k \in Kinds : pass[k].at = "idle"
BY DEF Quiet, CaughtUp, Told

\* A source that rests has what it is due.
LEMMA EndedAtRest ==
    ASSUME SInv, NEW s \in Sources \ unheard, Rests(s), ~Halts(s)
    PROVE  Ended(s, agents)
<1>1. ~Told(s)
  BY DEF Rests, CaughtUp, Told
<1>2. After(s, pass[KindOf(s)], agents)
  BY <1>1 DEF SInv, SettledInv, Settled, Excused
<1> QED
  BY <1>2, KindIs DEF Rests, After

LEMMA SettledAtRest == SInv => SourcesSettled
<1> SUFFICES ASSUME SInv, NEW s \in Sources \ unheard, Rests(s), ~Halts(s)
             PROVE  /\ \A a \in Agents : agents[a].owned[s] = Asked(s, a)
                    /\ OptedIn(s) /\ objects[s].agentRef = None =>
                           agents[DefaultAgent(TunnelOf(s))].kind # "absent"
  BY DEF SourcesSettled
<1>1. IInv /\ TypeOK /\ cache = agents
  BY Typed DEF SInv, Rests, CaughtUp
<1>2. \A a \in Agents : agents[a].owned[s] = Due(s, a)
  BY EndedAtRest DEF Ended
<1>3. ASSUME Writable(s) PROVE cache[Target(s)].kind # "absent"
  <2>1. OptedIn(s) /\ Target(s) \in Agents
    BY <1>3 DEF Writable
  <2>2. ToSet(RoutingOf(s)) # {}
    BY <1>1, <2>1, RoutingSomething DEF Halts, ToSet
  <2>3. agents[Target(s)].owned[s] # {}
    BY <1>2, <1>3, <2>1, <2>2 DEF Due
  <2> QED
    BY <1>1, <2>1, <2>3, AbsentEmpty DEF Owners
<1>4. ASSUME NEW a \in Agents PROVE Due(s, a) = Asked(s, a)
  <2>1. OptedIn(s) => (WriteTarget(s, TunnelOf(s), cache) = a <=> Writable(s) /\ a = Target(s))
    BY <1>3, WriteTargetIs, NamesAssumption
  <2> QED
    BY <1>1, <2>1 DEF Due, Asked, Writable
<1>5. ASSUME OptedIn(s), objects[s].agentRef = None
      PROVE  agents[DefaultAgent(TunnelOf(s))].kind # "absent"
  <2>1. TunnelOf(s) \in Tunnels
    BY <1>1, <1>5, TunnelType DEF Halts
  <2>2. Target(s) = DefaultAgent(TunnelOf(s)) /\ Target(s) \in Agents
    BY <1>5, <2>1, DefaultTarget, AgentsAssumption
  <2>3. cache[Target(s)].kind = "absent" => Writable(s)
    BY <1>5, <2>2 DEF Writable
  <2> QED
    BY <1>1, <1>3, <2>2, <2>3
<1> QED
  BY <1>2, <1>4, <1>5

LEMMA CollectedAtRest == SInv => OrphansCollected
<1> SUFFICES ASSUME SInv, Quiet, \A s \in Sources : ~OptedIn(s) /\ s \notin unheard,
                    NEW a \in Agents \ unheard, agents[a].kind = "auto"
             PROVE  Entries(agents[a]) # {}
  BY DEF OrphansCollected
<1>1. ~Taken /\ \A k \in Kinds : ~Remembered(a, pass[k])
  BY AtRest DEF Taken, Remembered
<1> QED
  BY <1>1 DEF SInv, OrphanInv, Abandoned

(***************************************************************************)
(* The theorems.                                                           *)
(***************************************************************************)

\* What a pass read and still relies on stays so, or is known not to: the inductive
\* invariant, for any sources, agents, tunnels, manifests and bounds.
THEOREM SourcesInvariance == Spec => []IInv
<1> QED
  BY InitInv, NextInv, PTL DEF Spec

\* Every variable keeps its type, the passes of the three controllers included; a
\* pass of a controller is about a source of its kind.
THEOREM SourcesTypeCorrect == Spec => []TypeOK
<1>1. IInv => TypeOK
  BY DEF IInv
<1> QED
  BY <1>1, SourcesInvariance, PTL

\* Nobody but its own pass takes an entry from a source or from a user, short of a
\* user who deletes or rewrites the agent (contributeRouting, releaseRouting,
\* orphanGCIfEmpty).
THEOREM NobodyTakesRouting == Spec => RoutingKept
<1>1. IInv /\ [Next]_vars =>
        [\A a \in Agents, o \in Owners :
            ~(agents[a].owned[o] \subseteq agents'[a].owned[o]) =>
                \/ budget'.edits # budget.edits
                \/ \E k \in Kinds : pass[k].source = o /\ pass[k].at \in {"apply", "release"}]_vars
  BY KeptStep
<1> QED
  BY <1>1, SourcesInvariance, PTL DEF Spec, RoutingKept

\* A source that takes part keeps an entry somewhere while it moves from one agent to
\* another (releaseFromOtherAgents runs after contributeRouting, and spares its
\* target).
THEOREM MovesWithoutAGap == Spec => ServedThroughout
<1>1. IInv /\ [Next]_vars =>
        [\A s \in Sources :
            (\E a \in Agents : agents[a].owned[s] # {})
              /\ (\A a \in Agents : agents'[a].owned[s] = {}) =>
                \/ budget'.edits # budget.edits \/ s \in unheard
                \/ \E k \in Kinds : /\ pass[k].source = s
                                    /\ pass[k].at = "release" /\ pass[k].target = None]_vars
  BY ServedStep
<1> QED
  BY <1>1, SourcesInvariance, PTL DEF Spec, ServedThroughout
\* What a source that nothing has disturbed has, and what its pass holds in memory, is
\* what it asks for now: the inductive invariant behind the next two theorems, for any
\* sources, agents, tunnels, manifests and bounds.
THEOREM SettledInvariance == Spec => []SInv
<1> QED
  BY SettledInit, SettledNext, PTL DEF Spec

\* Whatever users did, in whatever order, and whatever failed: once nothing is left to
\* do for it, a source has the entries it asks for at the agent it resolves to, and none
\* elsewhere (Reconcile, ensureDefaultAgent, contributeRouting,
\* releaseFromOtherAgents).  Excused is only what no watch tells of.
THEOREM SourcesAreSettled == Spec => []SourcesSettled
<1> QED
  BY SettledInvariance, SettledAtRest, PTL

\* Once no source takes part and nothing is left to do, no agent the operator created
\* stays without entries (releaseAndGC, orphanGCIfEmpty).
THEOREM EmptyAgentsAreCollected == Spec => []OrphansCollected
<1> QED
  BY SettledInvariance, CollectedAtRest, PTL
=============================================================================
