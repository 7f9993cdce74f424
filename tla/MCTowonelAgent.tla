-------------------------- MODULE MCTowonelAgent --------------------------
(* Instances of TowonelAgent for TLC.                                      *)
EXTENDS TowonelAgent, TLC

CONSTANTS tA, tB, i1, i2, web, api, one, two

Asks(tunnel, routes, l4, scale) ==
    [tunnel |-> tunnel, routes |-> routes, l4 |-> l4, scale |-> scale]

\* One tunnel, whose invite may be replaced.
LiveSpecs == {Asks(tA, web, TRUE, one), Asks(tA, api, FALSE, two)}

\* The agent is moved to another tunnel, and back.
MovedSpecs == {Asks(tA, web, FALSE, one), Asks(tB, web, FALSE, one)}

Symmetric == Permutations({i1, i2})
=============================================================================
