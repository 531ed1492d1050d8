------------------------------ MODULE Threshold ------------------------------
(***************************************************************************)
(* The v1 ciphertext of a threshold: encryptThreshold of encrypt.ts packs  *)
(* the number into the first bytes and a tag into the last ones.  Nothing  *)
(* in v1 compares a score with what is stored: the client's verdict is a   *)
(* fixed 2500 bps and the Arcis circuit is not connected.  No state; the   *)
(* modules that store ciphertexts extend it.                               *)
(***************************************************************************)
EXTENDS Integers, FiniteSetsExt

CONSTANTS
  Base,    \* values of a byte (256 in the code)
  Width,   \* bytes of the number (8, a u64)
  TagAt,   \* where the tag starts (48)
  CtLen,   \* bytes of a ciphertext (64)
  STUB     \* the bytes of "RISKCLAW_V1_STUB"

ASSUME LayoutAssumption ==
  /\ Base \in Nat \ {0, 1}
  /\ Width \in Nat /\ TagAt \in Nat /\ CtLen \in Nat
  /\ Width <= TagAt /\ TagAt <= CtLen
  /\ STUB \in [0 .. CtLen - TagAt - 1 -> 0 .. Base - 1]

(* What a byte at position k counts for.                                   *)
Weight[k \in 0 .. Width] == IF k = 0 THEN 1 ELSE Base * Weight[k - 1]

u64 == 0 .. Weight[Width] - 1

Byte_BigEndian(n, k) == (n \div Weight[Width - 1 - k]) % Base

(* setBigUint64(0, n, true): little-endian, and modulo 2^64 for a number   *)
(* that is negative or too wide.                                           *)
Byte(n, k) == (n \div Weight[k]) % Base

encryptThreshold(n) ==
  [k \in 0 .. CtLen - 1 |-> IF k < Width THEN Byte(n, k)
                            ELSE IF k < TagAt THEN 0 ELSE STUB[k - TagAt]]

(* _testDecryptPlaceholder: the number that can be read off the bytes.     *)
decrypt(ct) == MapThenSumSet(LAMBDA k : ct[k] * Weight[k], 0 .. Width - 1)

HasTag(ct) == \A k \in TagAt .. CtLen - 1 : ct[k] = STUB[k - TagAt]
=============================================================================
