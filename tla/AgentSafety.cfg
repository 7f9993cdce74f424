SPECIFICATION Spec
CONSTANTS
    tA = tA  tB = tB  i1 = i1  i2 = i2  web = web  api = api  one = one  two = two
    Tunnels = {tA}
    Invites = {i1, i2}
    NoInvite = NoInvite
    Routes = {web, api}
    Scales = {one, two}
    Specs <- LiveSpecs
    MaxAgents = 1
    MaxEdits = 1
    MaxMeddling = 0
    MaxFaults = 1
SYMMETRY Symmetric
INVARIANT TypeOK
INVARIANT CopyIsGenuine
INVARIANT NothingForgotten
INVARIANT RotationReachesPods
PROPERTY ConsistentSnapshot
CHECK_DEADLOCK FALSE
