----------------------------- MODULE MCSmokeRun -----------------------------
(* The instance of SmokeRun that TLC checks: contents of one bit.          *)
EXTENDS SmokeRun

CONSTANTS operator, stranger, smoke, agent, editor

MCDemo == [k \in 0 .. 0 |-> 1]
MCOther == [k \in 0 .. 0 |-> 0]
MCFaults == {"readError", "timeout", "drop"}
=============================================================================
