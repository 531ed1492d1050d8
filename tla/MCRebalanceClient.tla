------------------------- MODULE MCRebalanceClient -------------------------
(* The instances of RebalanceClient that TLC checks.                       *)
EXTENDS RebalanceClient, TLC

CONSTANTS p1, p2, guardian, app, k1, k2, k3

Exit(p) == [policy |-> p, action |-> "EXIT", sizeBps |-> 10000]
Reduce(p) == [policy |-> p, action |-> "REDUCE", sizeBps |-> 5000]

(* Two processes, the agent loop and the app, with one call each.          *)
TwoClients == {guardian, app}
OneEach == (k1 :> guardian) @@ (k2 :> app)

(* And with two overlapping calls on the agent loop's client.              *)
TwoAndOne == OneEach @@ (k3 :> guardian)
SameClient == Permutations({k1, k3})

(* The agent loop alone is equipped to execute.                            *)
Guardian == {guardian}

OnePolicy == {p1}
TwoPolicies == {p1, p2}
SoundPlans == {Exit(p1), Reduce(p1)}
PlansForBoth == {Exit(p1), Exit(p2)}

SkewedRestarts == {"timeout", "restart", "skew"}
SkewAndDrops == {"skew", "drop"}
=============================================================================
