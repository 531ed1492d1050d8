--------------------------- MODULE MCPolicyClient ---------------------------
(* The instances of PolicyClient that TLC checks: two vaults, two contents *)
(* of two bytes, one that is too short, and a wallet that is not the vault.*)
EXTENDS PolicyClient, TLC

CONSTANTS v1, v2, k1, k2

Low == [k \in 0 .. CtLen - 1 |-> k]
High == [k \in 0 .. CtLen - 1 |-> 1]
Short == [k \in 0 .. CtLen - 2 |-> 1]

Sub(v, ct, s) == [vault |-> v, ciphertext |-> ct, signer |-> s]

MCVaults == {v1, v2}
AllSubmissions == {Sub(v1, Low, v1), Sub(v1, High, v1), Sub(v2, Low, v2),
                   Sub(v1, High, v2), Sub(v1, Short, v1)}

AnyCall == Permutations(Calls)
AllFaults == Fault
=============================================================================
