SPECIFICATION FairSpec
CONSTANTS
    h1 = h1  h2 = h2  a1 = a1  a2 = a2  n1 = n1  n2 = n2  n3 = n3  i1 = i1  i2 = i2
    Hosts = {h1, h2}
    Wildcards = {}
    Agents = {a1, a2}
    Namespaces = {n1}
    Squatted = {}
    Invites = {i1, i2}
    NoInvite = NoInvite
    Specs <- OneSpec
    ServiceSets <- TwoServices
    MaxTunnels = 1
    MaxEdits = 1
    MaxHubEdits = 1
    MaxFaults = 1
PROPERTY EventuallyConverged
PROPERTY DeletionCompletes
CHECK_DEADLOCK FALSE
