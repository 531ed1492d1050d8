----------------------------- MODULE RiskPolicy -----------------------------
(***************************************************************************)
(* The on-chain program risk_policy: one RiskPolicy account per multisig   *)
(* vault, created by init_policy and rewritten by update_policy, both only *)
(* with the vault's signature.  The accounts are those of PolicyAccount.   *)
(***************************************************************************)
EXTENDS PolicyAccount

CONSTANTS
  Ciphertexts,  \* the ciphertexts submitted
  Handles,      \* the handles submitted
  StartTime,
  MaxTime       \* bound on the clock

ASSUME LengthAssumption == CtLen \in Nat /\ HandleLen \in Nat /\ TagLen \in Nat \ {0}
ASSUME ContentAssumption == Ciphertexts \subseteq Bits(CtLen) /\ Handles \subseteq Bits(HandleLen)
ASSUME TimeAssumption == StartTime \in Nat \ {0} /\ MaxTime \in Nat

vars == <<clock, exists, policy>>

Blank(v) ==
  [owningVault |-> v, ciphertext |-> [k \in 0 .. CtLen - 1 |-> 0],
   handle |-> [k \in 0 .. HandleLen - 1 |-> 0], hash |-> [k \in 0 .. TagLen - 1 |-> 0],
   updatedAt |-> 0, lastCheckAt |-> 0]

Init ==
  /\ clock = StartTime
  /\ exists = {}
  /\ policy = [v \in Vaults |-> Blank(v)]

-----------------------------------------------------------------------------
(* init_policy: the account must not exist, and the signing vault is the   *)
(* one its address is derived from.                                        *)
InitPolicy(v, ct, h) ==
  /\ v \notin exists
  /\ exists' = exists \cup {v}
  /\ policy' = [policy EXCEPT ![v] =
       [owningVault |-> v, ciphertext |-> ct, handle |-> h, hash |-> XorFold(ct, h),
        updatedAt |-> clock, lastCheckAt |-> 0]]
  /\ UNCHANGED clock

MayUpdate(v, signer) ==
  /\ v \in exists
  /\ signer = v                      \* seeds = [b"policy", signer]
  /\ policy[v].owningVault = signer  \* has_one = owning_multisig_vault

UpdatePolicy_StaleHash(v, signer, ct, h) ==
  /\ MayUpdate(v, signer)
  /\ policy' = [policy EXCEPT ![v].ciphertext = ct, ![v].handle = h, ![v].updatedAt = clock]
  /\ UNCHANGED <<clock, exists>>

UpdatePolicy(v, signer, ct, h) ==
  /\ MayUpdate(v, signer)
  /\ policy' = [policy EXCEPT ![v].ciphertext = ct, ![v].handle = h,
                              ![v].hash = XorFold(ct, h), ![v].updatedAt = clock]
  /\ UNCHANGED <<clock, exists>>

RefuseInit(v) == v \in exists /\ UNCHANGED vars
RefuseUpdate(v, signer) == ~ MayUpdate(v, signer) /\ UNCHANGED vars

Tick ==
  /\ clock < MaxTime
  /\ clock' = clock + 1
  /\ UNCHANGED <<exists, policy>>

Next ==
  \/ \E v \in Vaults, ct \in Ciphertexts, h \in Handles :
       \/ InitPolicy(v, ct, h)
       \/ \E signer \in Vaults : UpdatePolicy(v, signer, ct, h)
  \/ \E v \in Vaults : RefuseInit(v) \/ \E signer \in Vaults : RefuseUpdate(v, signer)
  \/ Tick

Spec == Init /\ [][Next]_vars

=============================================================================
