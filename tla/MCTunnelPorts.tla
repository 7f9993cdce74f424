--------------------------- MODULE MCTunnelPorts ---------------------------
(* Instances of TunnelPorts for TLC.                                       *)
EXTENDS TunnelPorts, TLC

CONSTANTS tcp, udp, dns, web

Wants(agent, protocol, name, preferred) ==
    [agent |-> agent, key |-> [protocol |-> protocol, name |-> name], preferred |-> preferred]

\* A name in both protocols, and pins the agents disagree about.
SafetyServices ==
    {{}, {Wants(1, tcp, dns, 0), Wants(1, udp, dns, 0)},
     {Wants(1, tcp, dns, 0), Wants(2, tcp, dns, 2)},
     {Wants(1, tcp, dns, 1), Wants(2, tcp, dns, 2), Wants(2, udp, dns, 1)}}

OneProtocol == {{}, {Wants(1, tcp, dns, 1)}, {Wants(1, tcp, web, 1)}}
=============================================================================
