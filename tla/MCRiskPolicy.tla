---------------------------- MODULE MCRiskPolicy ----------------------------
(* The instance of RiskPolicy that TLC checks: the proportions of the code *)
(* (a ciphertext of two tags and a handle of one), with a tag of two bytes *)
(* and every ciphertext.                                                   *)
EXTENDS RiskPolicy

CONSTANTS v1, v2

MCVaults == {v1, v2}
MCCiphertexts == Bits(CtLen)
ZeroHandle == [k \in 0 .. HandleLen - 1 |-> 0]
MCHandles == {ZeroHandle, [ZeroHandle EXCEPT ![0] = 1]}
=============================================================================
