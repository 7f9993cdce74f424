SPECIFICATION Spec
CONSTANTS
    h1 = h1  h2 = h2  a1 = a1  a2 = a2  n1 = n1  n2 = n2  n3 = n3  i1 = i1  i2 = i2
    Hosts = {h1, h2}
    Wildcards = {}
    Agents = {a1, a2}
    Namespaces = {n1, n2}
    Squatted = {}
    Invites = {i1}
    NoInvite = NoInvite
    Specs <- OneSpec
    ServiceSets <- OneService
    MaxTunnels = 1
    MaxEdits = 0
    MaxHubEdits = 0
    MaxFaults = 0
PROPERTY FinalizerLeavesNoInvite
CHECK_DEADLOCK FALSE
