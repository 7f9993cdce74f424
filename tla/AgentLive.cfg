SPECIFICATION FairSpec
CONSTANTS
    tA = tA  tB = tB  i1 = i1  i2 = i2  web = web  api = api  one = one  two = two
    Tunnels = {tA}
    Invites = {i1}
    NoInvite = NoInvite
    Routes = {web, api}
    Scales = {one, two}
    Specs <- LiveSpecs
    MaxAgents = 2
    MaxEdits = 0
    MaxMeddling = 1
    MaxFaults = 0
PROPERTY EventuallySettled
PROPERTY ChildrenCollected
CHECK_DEADLOCK FALSE
