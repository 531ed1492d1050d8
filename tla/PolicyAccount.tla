---------------------------- MODULE PolicyAccount ----------------------------
(***************************************************************************)
(* The RiskPolicy accounts of the on-chain program risk_policy, one per    *)
(* multisig vault: what they hold, what policy_hash is of the rest, and    *)
(* what an auditor may rely on.  RiskPolicy has the instructions that      *)
(* write them, PolicyClient whoever sends these.                           *)
(* policy_hash is an xor-fold of the ciphertext and the Arcium handle; xor *)
(* works on every bit position of a byte alike, so one bit stands for each *)
(* byte.                                                                   *)
(***************************************************************************)
EXTENDS Integers, FiniteSets

CONSTANTS
  Vaults,       \* Squads vaults; a vault's policy is the PDA of its key
  CtLen,        \* length of ciphertext_ref (64 in the code)
  HandleLen,    \* length of arcium_handle (32)
  TagLen        \* length of policy_hash (32)

VARIABLES
  clock,    \* Clock::get()?.unix_timestamp
  exists,   \* vaults whose policy account has been created
  policy    \* the accounts; blank where there is none

Bit == {0, 1}
Bits(n) == [0 .. n - 1 -> Bit]

Account == [owningVault : Vaults, ciphertext : Bits(CtLen), handle : Bits(HandleLen),
            hash : Bits(TagLen), updatedAt : Nat, lastCheckAt : Nat]

-----------------------------------------------------------------------------
(* recompute_hash: byte k of ciphertext_ref followed by arcium_handle is   *)
(* xor-ed into byte k % TagLen of the tag.                                 *)

ByteAt(ct, h, k) == IF k < CtLen THEN ct[k] ELSE h[k - CtLen]

Ones(ct, h, i) ==
  {k \in 0 .. CtLen + HandleLen - 1 : k % TagLen = i /\ ByteAt(ct, h, k) = 1}

XorFold_CiphertextOnly(ct, h) ==
  [i \in 0 .. TagLen - 1 |-> Cardinality({k \in Ones(ct, h, i) : k < CtLen}) % 2]

XorFold_Sum(ct, h) == [i \in 0 .. TagLen - 1 |-> Cardinality(Ones(ct, h, i))]

XorFold(ct, h) == [i \in 0 .. TagLen - 1 |-> Cardinality(Ones(ct, h, i)) % 2]

-----------------------------------------------------------------------------
AccountsTyped ==
  /\ clock \in Nat
  /\ exists \subseteq Vaults
  /\ policy \in [Vaults -> Account]

(* policy_hash always answers for the content beside it, after any series  *)
(* of inits and updates: an auditor who recomputes the fold finds it equal.*)
HashMatchesContent ==
  \A v \in Vaults : policy[v].hash = XorFold(policy[v].ciphertext, policy[v].handle)

(* The bytes in which an account differs from another one.                 *)
Differing(a, b) ==
  {k \in 0 .. CtLen + HandleLen - 1 :
     ByteAt(a.ciphertext, a.handle, k) # ByteAt(b.ciphertext, b.handle, k)}

(* recompute_hash is "unique enough to detect accidental tampering": an    *)
(* update that changes a single byte changes the hash.                     *)
SingleChangeShows ==
  [][\A v \in Vaults :
       Cardinality(Differing(policy[v], policy'[v])) = 1 => policy'[v].hash # policy[v].hash]_policy
=============================================================================
