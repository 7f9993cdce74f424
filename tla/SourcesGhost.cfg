SPECIFICATION Spec
CONSTANTS
    None = None  Malformed = Malformed  User = User
    svc = svc  gw = gw  route = route  n1 = n1
    Services = {svc}
    Gateways = {gw}
    Routes = {route}
    NamespaceOf <- MCNamespaceOf
    Tunnels <- MCTunnels
    AgentNamespace = None
    Agents <- MCAgents
    Manifests <- MCManifests
    Origins <- MCOrigins
    UserSpecs <- MCUserSpecs
    InitialWorlds <- MCInitialWorlds
    MaxEdits = 2
    MaxRestarts = 1
    MaxFaults = 1
    MaxEvents = 2
INVARIANT ReleaseCreatesNothing
CHECK_DEADLOCK FALSE
