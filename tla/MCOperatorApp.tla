---------------------------- MODULE MCOperatorApp ----------------------------
(* The instance of OperatorApp that TLC checks: ciphertexts of bits, two   *)
(* for the number and one for the tag.                                     *)
EXTENDS OperatorApp, TLC

CONSTANTS w1, w2, none, guardian, k1, k2

MCStub == 0 :> 1
MCFaults == {"timeout"}
=============================================================================
