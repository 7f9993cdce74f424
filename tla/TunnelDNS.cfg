SPECIFICATION Spec
CONSTANTS
    h1 = h1  h2 = h2  a1 = a1  a2 = a2  n1 = n1  n2 = n2  n3 = n3  i1 = i1  i2 = i2
    Hosts = {h1, h2}
    Wildcards = {h2}
    Agents = {a1, a2}
    Namespaces = {n1, n2, n3}
    Squatted = {n3}
    Invites = {i1, i2}
    NoInvite = NoInvite
    Specs <- DNSSpecs
    ServiceSets <- DNSServices
    MaxTunnels = 1
    MaxEdits = 1
    MaxHubEdits = 1
    MaxFaults = 1
SYMMETRY Symmetric
INVARIANT TypeOK
PROPERTY UndisturbedPassConverges
PROPERTY PublishesOnlyHeld
PROPERTY WithdrawBeforeRelease
CHECK_DEADLOCK FALSE
