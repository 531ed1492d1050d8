----------------------------- MODULE MCAgentLoop -----------------------------
(* The instances of AgentLoop that TLC checks: a tick of two units that    *)
(* may be off by one, windows of one and of two ticks, and a drift curve   *)
(* shortened to a few ticks.                                               *)
EXTENDS AgentLoop, TLC

CONSTANTS pool, guardian, h1, h2

(* Every fault the loop allows.                                            *)
Lossy == {"timeout", "drop"}

AnyHandler == Permutations(Handlers)
=============================================================================
