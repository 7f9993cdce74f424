-------------------------- MODULE MCTowonelTunnel --------------------------
(* Instances of TowonelTunnel for TLC.                                     *)
EXTENDS TowonelTunnel, TLC

CONSTANTS h1, h2, a1, a2, n1, n2, n3, i1, i2

Base == [policy |-> "Delete", mode |-> "DNSEndpoint", ns |-> n1, target |-> TRUE,
         wild |-> FALSE, extra |-> {}]
Serves(a, h) == [agent |-> a, host |-> h, record |-> TRUE]
Hides(a, h) == [agent |-> a, host |-> h, record |-> FALSE]

\* The DNS side: another namespace, no target, switched off.
DNSSpecs == {Base, [Base EXCEPT !.ns = n2, !.extra = {h1}, !.wild = TRUE], [Base EXCEPT !.ns = n3],
             [Base EXCEPT !.target = FALSE], [Base EXCEPT !.mode = "Disabled"]}
DNSServices == {{Serves(a1, h1)}, {Serves(a1, h1), Hides(a2, h1), Serves(a2, h2)}}

\* The invite's life: retained or released, recreated.
InviteSpecs == {Base, [Base EXCEPT !.policy = "Retain"]}
InviteServices == {{Serves(a1, h1)}, {Serves(a1, h1), Serves(a1, h2)}}

OneSpec == {Base}
OneService == {{Serves(a1, h1)}}
TwoServices == {{Serves(a1, h1)}, {Serves(a1, h2)}}

Symmetric == Permutations({i1, i2})
=============================================================================
