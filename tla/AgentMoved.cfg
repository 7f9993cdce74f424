SPECIFICATION Spec
CONSTANTS
    tA = tA  tB = tB  i1 = i1  i2 = i2  web = web  api = api  one = one  two = two
    Tunnels = {tA, tB}
    Invites = {i1, i2}
    NoInvite = NoInvite
    Routes = {web, api}
    Scales = {one, two}
    Specs <- MovedSpecs
    MaxAgents = 1
    MaxEdits = 2
    MaxMeddling = 0
    MaxFaults = 0
SYMMETRY Symmetric
INVARIANT RotationReachesPods
CHECK_DEADLOCK FALSE
