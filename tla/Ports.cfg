SPECIFICATION FairSpec
CONSTANTS
    tcp = tcp  udp = udp  dns = dns  web = web
    Protocols = {tcp, udp}
    Names = {dns}
    Ports = {1, 2}
    Free = Free
    Other = Other
    Agents = {1, 2}
    ServiceSets <- SafetyServices
    Latencies = {0, 1}
    Window = 2
    MaxEdits = 2
    MaxForeign = 1
    MaxFaults = 2
INVARIANT TypeOK
INVARIANT RecordedPortsHeld
INVARIANT OnePortPerName
PROPERTY PublicPortStable
PROPERTY DeletionLeavesNoPorts
PROPERTY EventuallyReserved
PROPERTY DeletionCompletes
CHECK_DEADLOCK FALSE
