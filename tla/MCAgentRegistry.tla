--------------------------- MODULE MCAgentRegistry ---------------------------
(* The instances of AgentRegistry that TLC checks.                         *)
EXTENDS AgentRegistry, TLC

CONSTANTS m1, m2

AllZones == <<"read", "compute", "execute">>
TwoZones == <<"read", "execute">>
AllFaults == Fault
FetchOnly == {"fetchError"}
AnyMachine == Permutations(Machines)
=============================================================================
