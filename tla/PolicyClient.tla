---------------------------- MODULE PolicyClient ----------------------------
(***************************************************************************)
(* RealClient.setEncryptedPolicy over the on-chain program risk_policy.    *)
(* A call asks whether the policy account exists, and sends update_policy  *)
(* or init_policy according to the answer: between the answer and the      *)
(* landing of the transaction other calls, other tabs and transactions of  *)
(* calls already given up may change the account.                          *)
(***************************************************************************)
EXTENDS PolicyAccount, Sequences

CONSTANTS
  Submissions,   \* what editors submit: [vault, ciphertext, signer]
  Calls,         \* concurrent invocations of setEncryptedPolicy
  Equipped,      \* those made on a client constructed with the risk_policy IDL
  Faults,        \* what may go wrong, a subset of Fault
  StartTime, MaxTime,
  MaxTxs         \* bound on the transactions submitted

(* readError: getAccountInfo fails.  timeout: .rpc() fails for a reason of *)
(* its own.  drop: a transaction never lands.                              *)
Fault == {"readError", "timeout", "drop"}

ASSUME FaultsAssumption == Faults \subseteq Fault

(* A submission names a known vault and carries a string of bits; whether  *)
(* it has the right length is for the client to find out, and who signs it *)
(* for the runtime.                                                        *)
ASSUME SubmissionsAssumption ==
  /\ Submissions # {}
  /\ \A s \in Submissions : /\ s.vault \in Vaults
                            /\ s.ciphertext \in [DOMAIN s.ciphertext -> {0, 1}]

ASSUME AccountAssumption ==
  /\ CtLen \in Nat /\ HandleLen \in Nat /\ TagLen \in Nat \ {0}
  /\ StartTime \in Nat \ {0} /\ MaxTime \in Nat
  /\ MaxTxs \in Nat

VARIABLES
  calls,                   \* the invocations
  txs,                     \* transactions submitted; a signature is an index;
                           \* seen: how many had landed before the read
  landed                   \* signatures that changed the chain, in order

chainVars == <<clock, exists, policy>>
vars == <<clock, exists, policy, calls, txs, landed>>

Ciphertexts == {s.ciphertext : s \in Submissions} \cap [0 .. CtLen - 1 -> {0, 1}]

(* v1: zeros until the Arcium computation is deployed.                     *)
ArciumHandle == [k \in 0 .. HandleLen - 1 |-> 0]

Chain == INSTANCE RiskPolicy WITH Handles <- {ArciumHandle}

Kind == {"init", "update"}
Error == {"none", "NotImplemented", "OnchainRejection", "Unwrapped"}

Call == [phase : {"idle", "reading", "waiting", "resolved", "rejected"},
         sub : Submissions, tx : Nat, error : Error]
Tx == [sub : Submissions, kind : Kind, status : {"flight", "dropped", "refused", "Ok"},
       seen : Nat]

(* A call before, between and after its two awaits, with what it submits.  *)
Idle(s) == [phase |-> "idle", sub |-> s, tx |-> 0, error |-> "none"]
Settled(c, phase, e) ==
  calls' = [calls EXCEPT ![c].phase = phase, ![c].error = e]

Init ==
  /\ Chain!Init
  /\ calls = [c \in Calls |-> Idle(CHOOSE s \in Submissions : TRUE)]
  /\ txs = <<>>
  /\ landed = <<>>

Busy(c) == calls[c].phase \in {"reading", "waiting"}

-----------------------------------------------------------------------------
WellFormed(s) == DOMAIN s.ciphertext = 0 .. CtLen - 1

RefuseLocally(c, s) ==
  /\ ~ Busy(c)
  /\ c \notin Equipped \/ ~ WellFormed(s)
  /\ calls' = [calls EXCEPT ![c] =
       [Idle(s) EXCEPT !.phase = "rejected",
                       !.error = IF c \in Equipped THEN "OnchainRejection" ELSE "NotImplemented"]]
  /\ UNCHANGED <<chainVars, txs, landed>>

Begin(c, s) ==
  /\ ~ Busy(c)
  /\ c \in Equipped
  /\ WellFormed(s)
  /\ calls' = [calls EXCEPT ![c] = [Idle(s) EXCEPT !.phase = "reading"]]
  /\ UNCHANGED <<chainVars, txs, landed>>

(* getAccountInfo answers; the kind of the transaction is decided here.    *)
KindFor_AlwaysInit(v) == "init"
KindFor(v) == IF v \in exists THEN "update" ELSE "init"

Submit(c) ==
  /\ calls[c].phase = "reading"
  /\ Len(txs) < MaxTxs
  /\ txs' = Append(txs, [sub |-> calls[c].sub, kind |-> KindFor(calls[c].sub.vault),
                         status |-> "flight", seen |-> Len(landed)])
  /\ calls' = [calls EXCEPT ![c].phase = "waiting", ![c].tx = Len(txs) + 1]
  /\ UNCHANGED <<chainVars, landed>>

(* The read stands before the try block: its failure reaches the caller as *)
(* it is.                                                                  *)
ReadFails(c) ==
  /\ "readError" \in Faults
  /\ calls[c].phase = "reading"
  /\ Settled(c, "rejected", "Unwrapped")
  /\ UNCHANGED <<chainVars, txs, landed>>

-----------------------------------------------------------------------------
(* The transaction names the vault of the submission as its signer; the    *)
(* wallet that signs must be that vault.                                   *)
Signed_Unchecked(tx) == tx.sub.signer \in Vaults
Signed(tx) == tx.sub.signer = tx.sub.vault

Effective(tx) ==
  /\ Signed(tx)
  /\ \/ tx.kind = "init" /\ Chain!InitPolicy(tx.sub.vault, tx.sub.ciphertext, ArciumHandle)
     \/ tx.kind = "update"
        /\ Chain!UpdatePolicy(tx.sub.vault, tx.sub.signer, tx.sub.ciphertext, ArciumHandle)

Ineffective(tx) ==
  \/ ~ Signed(tx) /\ UNCHANGED chainVars
  \/ Signed(tx) /\ tx.kind = "init" /\ Chain!RefuseInit(tx.sub.vault)
  \/ Signed(tx) /\ tx.kind = "update" /\ Chain!RefuseUpdate(tx.sub.vault, tx.sub.signer)

Land(t) ==
  /\ txs[t].status = "flight"
  /\ \/ /\ Effective(txs[t])
        /\ txs' = [txs EXCEPT ![t].status = "Ok"]
        /\ landed' = Append(landed, t)
     \/ /\ Ineffective(txs[t])
        /\ txs' = [txs EXCEPT ![t].status = "refused"]
        /\ UNCHANGED landed
  /\ UNCHANGED calls

Drop(t) ==
  /\ "drop" \in Faults
  /\ txs[t].status = "flight"
  /\ txs' = [txs EXCEPT ![t].status = "dropped"]
  /\ UNCHANGED <<chainVars, calls, landed>>

-----------------------------------------------------------------------------
Confirm_OnSend(c) ==
  /\ calls[c].phase = "waiting"
  /\ Settled(c, "resolved", "none")
  /\ UNCHANGED <<chainVars, txs, landed>>

Confirm(c) ==
  /\ calls[c].phase = "waiting"
  /\ txs[calls[c].tx].status = "Ok"
  /\ Settled(c, "resolved", "none")
  /\ UNCHANGED <<chainVars, txs, landed>>

Reject_Raw(c) ==
  /\ calls[c].phase = "waiting"
  /\ txs[calls[c].tx].status \in {"refused", "dropped"}
  /\ Settled(c, "rejected", txs[calls[c].tx].status)
  /\ UNCHANGED <<chainVars, txs, landed>>

(* Every failure of .rpc(), the program's or its own, is wrapped alike.    *)
Reject(c) ==
  /\ calls[c].phase = "waiting"
  /\ txs[calls[c].tx].status \in {"refused", "dropped"} \/ "timeout" \in Faults
  /\ Settled(c, "rejected", "OnchainRejection")
  /\ UNCHANGED <<chainVars, txs, landed>>

Tick == Chain!Tick /\ UNCHANGED <<calls, txs, landed>>

Next ==
  \/ \E c \in Calls :
       \/ \E s \in Submissions : RefuseLocally(c, s) \/ Begin(c, s)
       \/ Submit(c) \/ ReadFails(c) \/ Confirm(c) \/ Reject(c)
  \/ \E t \in DOMAIN txs : Land(t) \/ Drop(t)
  \/ Tick

Spec == Init /\ [][Next]_vars

-----------------------------------------------------------------------------
TypeOK ==
  /\ AccountsTyped
  /\ calls \in [Calls -> Call]
  /\ txs \in Seq(Tx)
  /\ landed \in Seq(Nat)
  /\ \A c \in Calls : calls[c].tx <= Len(txs)
  /\ \A t \in DOMAIN txs : txs[t].seen <= Len(landed)
  /\ \A i \in DOMAIN landed : landed[i] \in DOMAIN txs

(* The landed transactions of a vault, latest last.                        *)
LandedFor(v) == {i \in DOMAIN landed : txs[landed[i]].sub.vault = v}
IsLatest(i, v) == i \in LandedFor(v) /\ \A j \in LandedFor(v) : j <= i

(* What is on the chain is the last submission that landed for the vault,  *)
(* in the order of landing and not of calling, signed by the vault itself, *)
(* and the account exists exactly when one has landed.                     *)
PolicyIsLastLanded ==
  \A v \in Vaults :
    /\ v \in exists <=> LandedFor(v) # {}
    /\ \A i \in DOMAIN landed : IsLatest(i, v) =>
         /\ policy[v].ciphertext = txs[landed[i]].sub.ciphertext
         /\ txs[landed[i]].sub.signer = v

(* "proposed" on the page means that this very submission has been written *)
(* to the chain, whatever else was going on.                               *)
ResolvedHasLanded ==
  \A c \in Calls : calls[c].phase = "resolved" =>
    /\ txs[calls[c].tx].sub = calls[c].sub
    /\ \E i \in DOMAIN landed : landed[i] = calls[c].tx

(* A submission the vault signs is refused only when another one for that  *)
(* vault landed after the read that chose between init and update: without *)
(* a race the choice always fits.                                          *)
RefusedOnlyIfOvertaken ==
  \A t \in DOMAIN txs : Signed(txs[t]) /\ txs[t].status = "refused" =>
    \E i \in LandedFor(txs[t].sub.vault) : i > txs[t].seen
=============================================================================
