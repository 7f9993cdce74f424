SPECIFICATION FairSpec
CONSTANTS
    tcp = tcp  udp = udp  dns = dns  web = web
    Protocols = {tcp}
    Names = {dns, web}
    Ports = {1}
    Free = Free
    Other = Other
    Agents = {1, 2}
    ServiceSets <- OneProtocol
    Latencies = {0}
    Window = 1
    MaxEdits = 3
    MaxForeign = 0
    MaxFaults = 0
PROPERTY PortsReservedHolds
CHECK_DEADLOCK FALSE
