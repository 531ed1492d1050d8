----------------------- MODULE RebalanceClientProofs -----------------------
(***************************************************************************)
(* executePrivateRebalance for any clients, calls, policies, plans, faults *)
(* and windows.  What the client and the network do to the chain is what   *)
(* the program lets anybody do (ImplementsChain), so the program's theorem *)
(* about spaced executions is the client's about double swaps.  What the   *)
(* caches hold and the calls return needs an invariant of its own: every   *)
(* signature that the client keeps anywhere, in a cache, in the local      *)
(* variable of a call or in a result, is that of an exit that ran.         *)
(***************************************************************************)
EXTENDS RebalanceClient, TLAPS

ChainProofs == INSTANCE SwigDelegationProofs WITH Guardians <- Clients, Requests <- Submittable

(* Signature s is that of an exit of policy p.                             *)
IsExit(s, p) ==
  /\ s \in DOMAIN txs
  /\ txs[s].status = "Ok"
  /\ txs[s].request.policy = p

(* A call that waits has a transaction of its own, for its policy and      *)
(* signed by its client, and has read an entry of that policy's exits.     *)
CallsHoldTheirTxs ==
  \A c \in Calls : calls[c].phase = "waiting" =>
    /\ calls[c].tx \in DOMAIN txs
    /\ txs[calls[c].tx].request.policy = calls[c].policy
    /\ txs[calls[c].tx].request.guardian = ClientOf[c]
    /\ Hit(calls[c].cachedWrite) => IsExit(calls[c].cachedWrite.lastTxSig, calls[c].policy)

SigInv == CallsHoldTheirTxs /\ CacheHoldsOwnExits /\ ResolvedSigIsAnExit

IInv == TypeOK /\ SigInv

-----------------------------------------------------------------------------
(* What clients submit are instructions the program can be given.          *)
LEMMA SubmittableRequests ==
  /\ Submittable \subseteq Chain!Request
  /\ Submittable \subseteq ChainProofs!Request
BY CallsAssumption DEF Submittable, RequestOf, Plan, Chain!Request, Chain!RebalanceAction,
   ChainProofs!Request, ChainProofs!RebalanceAction

(* Every request is the one of a client for a plan.                        *)
LEMMA RequestsKnown ==
  ASSUME NEW cl \in Clients, NEW plan \in Plans
  PROVE  /\ RequestOf(cl, plan) \in Submittable
         /\ RequestOf(cl, plan).policy = plan.policy
         /\ RequestOf(cl, plan).guardian = cl
         /\ plan.policy \in Policies
BY CallsAssumption DEF Submittable, RequestOf, Plan

(* What a call that has settled looks like.                                *)
LEMMA SettledTyped ==
  ASSUME NEW ph \in {"idle", "resolved", "rejected"}, NEW p \in Policies, NEW t \in Nat,
         NEW s \in Nat, NEW e \in Error
  PROVE  Settled(ph, p, t, s, e) \in Call
BY DEF Settled, Call, NoEntry, Entry

(* A transaction keeps its request, and one that has an outcome keeps it.  *)
TxsKept ==
  \A s \in DOMAIN txs :
    /\ s \in DOMAIN txs'
    /\ txs'[s].request = txs[s].request
    /\ txs[s].status # "flight" => txs'[s].status = txs[s].status

(* An entry of the transaction list is a Tx.                               *)
LEMMA TxsTyped ==
  ASSUME TypeOK, NEW t \in DOMAIN txs
  PROVE  /\ txs[t] \in Tx /\ t \in Nat \ {0} /\ t <= Len(txs)
         /\ txs[t].request \in Submittable
<1>1. txs \in Seq(Tx)
  BY DEF TypeOK
<1>2. txs[t] \in Tx /\ t \in 1 .. Len(txs) /\ Len(txs) \in Nat
  BY <1>1
<1>3. txs[t].request \in Submittable
  BY <1>2 DEF Tx
<1>4. QED BY <1>2, <1>3

(* Dispatch appends the transaction of the call.                           *)
LEMMA DispatchAppends ==
  ASSUME TypeOK, NEW c \in Calls, NEW plan \in Plans, Dispatch(c, plan)
  PROVE  /\ txs' \in Seq(Tx) /\ TxsKept
         /\ calls' \in [Calls -> Call]
         /\ calls'[c].phase = "waiting" /\ calls'[c].policy = plan.policy
         /\ calls'[c].cachedWrite = writeCache[ClientOf[c]][plan.policy]
         /\ calls'[c].tx \in DOMAIN txs'
         /\ txs'[calls'[c].tx].request = RequestOf(ClientOf[c], plan)
         /\ txs'[calls'[c].tx].status = "flight"
         /\ \A t \in DOMAIN txs' : t # calls'[c].tx => t \in DOMAIN txs /\ txs'[t] = txs[t]
         /\ \A d \in Calls : d # c => calls'[d] = calls[d]
<1> DEFINE new == [request |-> RequestOf(ClientOf[c], plan), status |-> "flight", event |-> 0]
           call == [phase |-> "waiting", policy |-> plan.policy, tx |-> Len(txs) + 1,
                    cachedWrite |-> CachedWrite(c, plan), sig |-> 0, error |-> "none"]
<1>1. ClientOf[c] \in Clients
  BY CallsAssumption
<1>2. RequestOf(ClientOf[c], plan) \in Submittable /\ plan.policy \in Policies
  BY <1>1, RequestsKnown
<1>3. new \in Tx
  BY <1>2 DEF Tx, TxStatus
<1>4. txs \in Seq(Tx) /\ txs' = Append(txs, new) /\ Len(txs) \in Nat
  BY DEF TypeOK, Dispatch
<1>5. CachedWrite(c, plan) \in Entry
  BY <1>1, <1>2 DEF TypeOK, CachedWrite
<1>6. call \in Call
  BY <1>2, <1>4, <1>5 DEF Call, Error
<1>7. calls' = [calls EXCEPT ![c] = call] /\ calls \in [Calls -> Call]
  BY DEF TypeOK, Dispatch
<1> HIDE DEF new
<1>8. /\ txs' \in Seq(Tx) /\ DOMAIN txs' = 1 .. Len(txs) + 1 /\ DOMAIN txs = 1 .. Len(txs)
      /\ \A s \in 1 .. Len(txs) : txs'[s] = txs[s]
      /\ txs'[Len(txs) + 1] = new
  BY <1>3, <1>4
<1>9. TxsKept
  BY <1>4, <1>8 DEF TxsKept
<1> HIDE DEF call
<1>10. calls' \in [Calls -> Call] /\ calls'[c] = call
       /\ \A d \in Calls : d # c => calls'[d] = calls[d]
  BY <1>6, <1>7
<1>11. Len(txs) + 1 \in DOMAIN txs'
  BY <1>4, <1>8
<1>12. new.request = RequestOf(ClientOf[c], plan) /\ new.status = "flight"
  BY DEF new
<1>13. \A t \in DOMAIN txs' : t # Len(txs) + 1 => t \in DOMAIN txs /\ txs'[t] = txs[t]
  BY <1>4, <1>8
<1>14. QED BY <1>8, <1>9, <1>10, <1>11, <1>12, <1>13 DEF call, CachedWrite

(* The program's answer is a status.                                       *)
LEMMA OutcomeTyped ==
  ASSUME NEW r \in Submittable
  PROVE  Chain!Outcome(r) \in TxStatus
BY DEF Chain!Outcome, TxStatus

(* Landing and dropping touch the status of a transaction in flight only.  *)
LEMMA LandKeeps ==
  ASSUME TypeOK, NEW t \in DOMAIN txs, Land(t) \/ Drop(t)
  PROVE  /\ txs' \in Seq(Tx) /\ TxsKept
         /\ DOMAIN txs' = DOMAIN txs
         /\ \A s \in DOMAIN txs : s # t => txs'[s] = txs[s]
<1>1. /\ txs \in Seq(Tx) /\ txs[t] \in Tx /\ txs[t].request \in Submittable
      /\ txs[t].status = "flight"
  BY TxsTyped DEF TypeOK, Land, Drop
<1>2. Len(events) + 1 \in Nat
  BY DEF TypeOK
<1>3. PICK new \in Tx : txs' = [txs EXCEPT ![t] = new] /\ new.request = txs[t].request
  <2>1. CASE txs' = [txs EXCEPT ![t].status = "Ok", ![t].event = Len(events) + 1]
    <3>1. [txs[t] EXCEPT !.status = "Ok", !.event = Len(events) + 1] \in Tx
      BY <1>1, <1>2 DEF Tx, TxStatus
    <3>2. [txs[t] EXCEPT !.status = "Ok", !.event = Len(events) + 1].request = txs[t].request
      BY <1>1 DEF Tx
    <3>3. txs' = [txs EXCEPT ![t] = [txs[t] EXCEPT !.status = "Ok", !.event = Len(events) + 1]]
      BY <2>1, <1>1
    <3>4. QED BY <3>1, <3>2, <3>3
  <2>2. ASSUME NEW st \in TxStatus, txs' = [txs EXCEPT ![t].status = st]
        PROVE  \E new \in Tx : txs' = [txs EXCEPT ![t] = new] /\ new.request = txs[t].request
    <3>1. [txs[t] EXCEPT !.status = st] \in Tx
      BY <1>1 DEF Tx
    <3>2. [txs[t] EXCEPT !.status = st].request = txs[t].request
      BY <1>1 DEF Tx
    <3>3. txs' = [txs EXCEPT ![t] = [txs[t] EXCEPT !.status = st]]
      BY <2>2
    <3>4. QED BY <3>1, <3>2, <3>3
  <2>3. Chain!Outcome(txs[t].request) \in TxStatus /\ "dropped" \in TxStatus
    BY <1>1, OutcomeTyped DEF TxStatus
  <2>4. \/ txs' = [txs EXCEPT ![t].status = "Ok", ![t].event = Len(events) + 1]
        \/ txs' = [txs EXCEPT ![t].status = Chain!Outcome(txs[t].request)]
        \/ txs' = [txs EXCEPT ![t].status = "dropped"]
    BY DEF Land, Drop
  <2>5. QED BY <2>1, <2>2, <2>3, <2>4
<1>4. /\ DOMAIN txs' = DOMAIN txs /\ txs'[t] = new
      /\ \A s \in DOMAIN txs : s # t => txs'[s] = txs[s]
  BY <1>1, <1>3
<1>5. txs' \in Seq(Tx)
  BY <1>1, <1>3
<1>6. QED BY <1>1, <1>3, <1>4, <1>5 DEF TxsKept

-----------------------------------------------------------------------------
(* Types.                                                                  *)

(* The chain's own type invariant is part of this module's.                *)
LEMMA ChainTyped == TypeOK <=> /\ ChainProofs!TypeOK
                               /\ wall \in Nat
                               /\ writeCache \in [Clients -> [Policies -> Entry]]
                               /\ calls \in [Calls -> Call]
                               /\ txs \in Seq(Tx)
BY DEF TypeOK, ChainProofs!TypeOK, Chain!Event, ChainProofs!Event,
   Chain!RebalanceAction, ChainProofs!RebalanceAction

(* A step of the client, the network or the clock is, to the chain, one    *)
(* that the program lets anybody take, or none at all.                     *)
LEMMA StepOfChain ==
  ASSUME TypeOK, [Next]_vars
  PROVE  [Chain!Next]_(Chain!vars)
<1>1. ASSUME NEW t \in DOMAIN txs, Land(t) PROVE Chain!Next
  BY <1>1, TxsTyped DEF Land, Chain!Next
<1>2. ASSUME NEW t \in DOMAIN txs, Drop(t) PROVE UNCHANGED chainVars
  BY <1>2 DEF Drop
<1>3. ASSUME NEW c \in Calls, Start(c) PROVE UNCHANGED chainVars
  BY <1>3 DEF Start, RefuseLocally, Shortcut, Submit
<1>4. ASSUME NEW c \in Calls, Settle(c) PROVE UNCHANGED chainVars
  BY <1>4 DEF Settle, Confirm, CatchTooSoon, Rethrow, Abandon
<1>5. ASSUME NEW cl \in Clients, Restart(cl) PROVE UNCHANGED chainVars
  BY <1>5 DEF Restart
<1>6. ASSUME Tick \/ ChainDrift PROVE Chain!Next
  BY <1>6 DEF Tick, ChainDrift, Chain!Next
<1>7. ASSUME WallDrift PROVE UNCHANGED chainVars
  BY <1>7 DEF WallDrift
<1>8. UNCHANGED vars => UNCHANGED chainVars
  BY DEF vars, chainVars
<1>9. UNCHANGED chainVars => UNCHANGED Chain!vars
  BY DEF chainVars, Chain!vars
<1>10. QED BY <1>1, <1>2, <1>3, <1>4, <1>5, <1>6, <1>7, <1>8, <1>9 DEF Next

(* The instance of the program whose theorems are proved is the instance   *)
(* that this module runs.                                                  *)
LEMMA SameChain ==
  /\ Chain!Init <=> ChainProofs!Init
  /\ [Chain!Next]_(Chain!vars) <=> [ChainProofs!Next]_(ChainProofs!vars)
<1>1. Chain!Init <=> ChainProofs!Init
  BY DEF Chain!Init, ChainProofs!Init
<1>2. ASSUME NEW r PROVE /\ Chain!Outcome(r) = ChainProofs!Outcome(r)
                         /\ Chain!EventOf(r) = ChainProofs!EventOf(r)
  BY DEF Chain!Outcome, ChainProofs!Outcome, Chain!TooSoon, ChainProofs!TooSoon,
     Chain!ToleranceUnderflows, ChainProofs!ToleranceUnderflows, Chain!SlippageGate,
     ChainProofs!SlippageGate, Chain!BPS, ChainProofs!BPS, Chain!EventOf, ChainProofs!EventOf
<1>3. Chain!vars = ChainProofs!vars
  BY DEF Chain!vars, ChainProofs!vars
<1>4. ASSUME NEW r PROVE /\ Chain!Execute(r) <=> ChainProofs!Execute(r)
                         /\ Chain!Refuse(r) <=> ChainProofs!Refuse(r)
  BY <1>2, <1>3 DEF Chain!Execute, ChainProofs!Execute, Chain!Refuse, ChainProofs!Refuse,
     Chain!vars, ChainProofs!vars
<1>5. Chain!Tick <=> ChainProofs!Tick
  BY DEF Chain!Tick, ChainProofs!Tick
<1>6. Chain!Next <=> ChainProofs!Next
  BY <1>4, <1>5 DEF Chain!Next, ChainProofs!Next
<1>7. (UNCHANGED Chain!vars) <=> UNCHANGED ChainProofs!vars
  BY DEF Chain!vars, ChainProofs!vars
<1>8. QED BY <1>1, <1>6, <1>7

(* What the chain's own theorems assume, from this module's assumptions.   *)
LEMMA ChainAssumptions ==
  /\ RateLimit \in Nat \ {0}
  /\ StartTime \in Nat \ {0} /\ MaxTime \in Nat
  /\ Submittable \subseteq ChainProofs!Request
BY ChainAssumption, SubmittableRequests

(* A call that settles, whichever way, leaves the calls typed.             *)
LEMMA SettleTyped ==
  ASSUME TypeOK, NEW c \in Calls, NEW ph \in {"idle", "resolved", "rejected"},
         NEW p \in Policies, NEW t \in Nat, NEW s \in Nat, NEW e \in Error,
         calls' = [calls EXCEPT ![c] = Settled(ph, p, t, s, e)]
  PROVE  calls' \in [Calls -> Call]
<1>1. Settled(ph, p, t, s, e) \in Call /\ calls \in [Calls -> Call]
  BY SettledTyped DEF TypeOK
<1>2. QED BY <1>1

(* The parts of a call are what Call says.                                 *)
LEMMA CallParts ==
  ASSUME TypeOK, NEW c \in Calls
  PROVE  /\ ClientOf[c] \in Clients
         /\ calls[c].policy \in Policies /\ calls[c].tx \in Nat /\ calls[c].sig \in Nat
         /\ calls[c].cachedWrite \in Entry /\ calls[c].cachedWrite.lastTxSig \in Nat
         /\ \A p \in Policies : /\ writeCache[ClientOf[c]][p] \in Entry
                                /\ writeCache[ClientOf[c]][p].lastTxSig \in Nat
BY CallsAssumption DEF TypeOK, Call, Entry

(* Types are preserved by every step.                                      *)
LEMMA TypePreserved == TypeOK /\ [Next]_vars => TypeOK'
<1> SUFFICES ASSUME TypeOK, [Next]_vars PROVE TypeOK'
  OBVIOUS
<1> DEFINE Client == /\ wall' \in Nat
                     /\ writeCache' \in [Clients -> [Policies -> Entry]]
                     /\ calls' \in [Calls -> Call]
                     /\ txs' \in Seq(Tx)
<1>1. ChainProofs!TypeOK'
  BY StepOfChain, SameChain, ChainTyped, ChainAssumptions, ChainProofs!TypePreserved
<1>2. ASSUME NEW c \in Calls, NEW plan \in Plans, RefuseLocally(c, plan) PROVE Client
  <2>1. calls' = [calls EXCEPT ![c] = Settled("rejected", plan.policy, 0, 0, "NotImplemented")]
    BY <1>2 DEF RefuseLocally, Throw
  <2>2. plan.policy \in Policies /\ "NotImplemented" \in Error
    BY CallsAssumption DEF Plan, Error
  <2>3. calls' \in [Calls -> Call]
    BY <2>1, <2>2, SettleTyped
  <2>4. QED BY <1>2, <2>3 DEF RefuseLocally, TypeOK
<1>3. ASSUME NEW c \in Calls, NEW plan \in Plans, Shortcut(c, plan) PROVE Client
  <2>1. calls' = [calls EXCEPT ![c] = Settled("resolved", plan.policy, 0,
                                              CachedWrite(c, plan).lastTxSig, "none")]
    BY <1>3 DEF Shortcut, Resolve
  <2>2. plan.policy \in Policies /\ "none" \in Error
    BY CallsAssumption DEF Plan, Error
  <2>3. CachedWrite(c, plan).lastTxSig \in Nat
    BY <2>2, CallParts DEF CachedWrite
  <2>4. calls' \in [Calls -> Call]
    BY <2>1, <2>2, <2>3, SettleTyped
  <2>5. QED BY <1>3, <2>4 DEF Shortcut, TypeOK
<1>4. ASSUME NEW c \in Calls, NEW plan \in Plans, Submit(c, plan) PROVE Client
  BY <1>4, DispatchAppends DEF Submit, TypeOK
<1>5. ASSUME NEW c \in Calls, Confirm(c) PROVE Client
  <2>1. calls' = [calls EXCEPT ![c] = Settled("resolved", calls[c].policy, 0, calls[c].tx, "none")]
    BY <1>5 DEF Confirm, Resolve
  <2>2. calls' \in [Calls -> Call]
    BY <2>1, CallParts, SettleTyped DEF Error
  <2>3. NewEntry(c) \in Entry
    BY CallParts DEF NewEntry, Entry, TypeOK
  <2>4. writeCache' \in [Clients -> [Policies -> Entry]]
    BY <1>5, <2>3, CallParts DEF Confirm, TypeOK
  <2>5. QED BY <1>5, <2>2, <2>4 DEF Confirm, TypeOK
<1>6. ASSUME NEW c \in Calls, CatchTooSoon(c) PROVE Client
  <2>1. calls' = [calls EXCEPT ![c] = Settled("resolved", calls[c].policy, 0,
                                              calls[c].cachedWrite.lastTxSig, "none")]
    BY <1>6 DEF CatchTooSoon, Resolve
  <2>2. calls' \in [Calls -> Call]
    BY <2>1, CallParts, SettleTyped DEF Error
  <2>3. QED BY <1>6, <2>2 DEF CatchTooSoon, TypeOK
<1>7. ASSUME NEW c \in Calls, Rethrow(c) \/ Abandon(c) PROVE Client
  <2>1. PICK e \in Error : calls' = [calls EXCEPT ![c] =
                                       Settled("rejected", calls[c].policy, calls[c].tx, 0, e)]
    BY <1>7 DEF Rethrow, Abandon, Throw, Error, ErrorOf
  <2>2. calls' \in [Calls -> Call]
    BY <2>1, CallParts, SettleTyped
  <2>3. QED BY <1>7, <2>2 DEF Rethrow, Abandon, TypeOK
<1>8. ASSUME NEW t \in DOMAIN txs, Land(t) \/ Drop(t) PROVE Client
  BY <1>8, LandKeeps DEF Land, Drop, TypeOK
<1>9. ASSUME NEW cl \in Clients, Restart(cl) PROVE Client
  <2>1. \A c \in Calls : Settled("idle", calls[c].policy, 0, 0, "none") \in Call
    BY CallParts, SettledTyped DEF Error
  <2>2. calls' \in [Calls -> Call]
    BY <1>9, <2>1 DEF Restart, TypeOK
  <2>3. NoEntry \in Entry
    BY DEF NoEntry, Entry
  <2>4. writeCache' \in [Clients -> [Policies -> Entry]]
    BY <1>9, <2>3 DEF Restart, TypeOK
  <2>5. QED BY <1>9, <2>2, <2>4 DEF Restart, TypeOK
<1>10. ASSUME Tick \/ ChainDrift \/ WallDrift PROVE Client
  BY <1>10 DEF Tick, ChainDrift, WallDrift, TypeOK
<1>11. ASSUME UNCHANGED vars PROVE Client
  BY <1>11 DEF vars, TypeOK
<1>12. Client
  <2> HIDE DEF Client
  <2>1. QED BY <1>2, <1>3, <1>4, <1>5, <1>6, <1>7, <1>8, <1>9, <1>10, <1>11
            DEF Next, Start, Settle
<1>13. QED
  BY <1>1, <1>12 DEF TypeOK, ChainProofs!TypeOK, Chain!Event, ChainProofs!Event,
     Chain!RebalanceAction, ChainProofs!RebalanceAction

-----------------------------------------------------------------------------
(* Signatures.                                                             *)

(* An exit stays an exit as long as the transactions are kept.             *)
LEMMA ExitStays ==
  ASSUME TxsKept, NEW s, NEW p, IsExit(s, p)
  PROVE  IsExit(s, p)'
BY DEF TxsKept, IsExit

(* What one call relies on.                                                *)
CallSound(c) ==
  /\ calls[c].phase = "waiting" =>
       /\ calls[c].tx \in DOMAIN txs
       /\ txs[calls[c].tx].request.policy = calls[c].policy
       /\ txs[calls[c].tx].request.guardian = ClientOf[c]
       /\ Hit(calls[c].cachedWrite) => IsExit(calls[c].cachedWrite.lastTxSig, calls[c].policy)
  /\ calls[c].phase = "resolved" => IsExit(calls[c].sig, calls[c].policy)

(* What one cache entry is worth.                                          *)
EntrySound(cl, p) ==
  Hit(writeCache[cl][p]) =>
    /\ IsExit(writeCache[cl][p].lastTxSig, p)
    /\ txs[writeCache[cl][p].lastTxSig].request.guardian = cl
    /\ writeCache[cl][p].lastExecutedAt <= wall

(* The invariant, call by call and entry by entry.                         *)
LEMMA SigInvParts ==
  SigInv <=> /\ \A c \in Calls : CallSound(c)
             /\ \A cl \in Clients, p \in Policies : EntrySound(cl, p)
BY DEF SigInv, CallsHoldTheirTxs, CacheHoldsOwnExits, ResolvedSigIsAnExit,
   CallSound, EntrySound, IsExit

(* A call that a step does not touch stays sound.                          *)
LEMMA CallStays ==
  ASSUME TxsKept, NEW c \in Calls, CallSound(c), calls'[c] = calls[c]
  PROVE  CallSound(c)'
BY DEF TxsKept, CallSound, IsExit, Hit

(* Time does not make an entry unsound.                                    *)
LEMMA EntryStays ==
  ASSUME TypeOK, TxsKept, NEW cl \in Clients, NEW p \in Policies, EntrySound(cl, p),
         writeCache'[cl][p] = writeCache[cl][p], wall' \in Nat, wall' >= wall
  PROVE  EntrySound(cl, p)'
<1>1. writeCache[cl][p].lastExecutedAt \in Nat /\ wall \in Nat
  BY DEF TypeOK, Entry
<1>2. QED BY <1>1 DEF TxsKept, EntrySound, IsExit, Hit

(* Whatever is untouched leaves the transactions kept.                     *)
LEMMA KeptWhenUnchanged == UNCHANGED txs => TxsKept
BY DEF TxsKept

(* Steps that leave the caches, the transactions and Date.now() alone and  *)
(* end or start one call keep the invariant if that call stays sound.      *)
LEMMA OneCallMoves ==
  ASSUME IInv, NEW c \in Calls, TxsKept, CallSound(c)',
         \A d \in Calls : d # c => calls'[d] = calls[d],
         UNCHANGED <<wall, writeCache>>
  PROVE  SigInv'
<1>1. ASSUME NEW d \in Calls PROVE CallSound(d)'
  BY CallStays, SigInvParts DEF IInv
<1>2. ASSUME NEW cl \in Clients, NEW p \in Policies PROVE EntrySound(cl, p)'
  <2>1. wall' \in Nat /\ wall' >= wall
    BY DEF IInv, TypeOK
  <2>2. QED BY <2>1, EntryStays, SigInvParts DEF IInv
<1>3. QED
  BY <1>1, <1>2 DEF SigInv, CallsHoldTheirTxs, CacheHoldsOwnExits, ResolvedSigIsAnExit,
     CallSound, EntrySound, IsExit

(* Every step keeps the invariant.                                         *)
LEMMA SigPreserved == IInv /\ [Next]_vars => SigInv'
<1> SUFFICES ASSUME IInv, [Next]_vars PROVE SigInv'
  OBVIOUS
<1> USE DEF IInv
<1>1. ASSUME NEW c \in Calls, NEW plan \in Plans, RefuseLocally(c, plan) PROVE SigInv'
  <2>1. calls' = [calls EXCEPT ![c] = Settled("rejected", plan.policy, 0, 0, "NotImplemented")]
    BY <1>1 DEF RefuseLocally, Throw
  <2>2. calls'[c].phase = "rejected" /\ \A d \in Calls : d # c => calls'[d] = calls[d]
    BY <2>1 DEF Settled, TypeOK
  <2>3. CallSound(c)'
    BY <2>2 DEF CallSound
  <2>4. QED BY <1>1, <2>2, <2>3, OneCallMoves, KeptWhenUnchanged DEF RefuseLocally
<1>2. ASSUME NEW c \in Calls, NEW plan \in Plans, Shortcut(c, plan) PROVE SigInv'
  <2>1. calls' = [calls EXCEPT ![c] = Settled("resolved", plan.policy, 0,
                                              CachedWrite(c, plan).lastTxSig, "none")]
    BY <1>2 DEF Shortcut, Resolve
  <2>2. plan.policy \in Policies
    BY CallsAssumption DEF Plan
  <2>3. ClientOf[c] \in Clients
    BY CallsAssumption
  <2>4. EntrySound(ClientOf[c], plan.policy) /\ Hit(CachedWrite(c, plan))
    BY <1>2, <2>2, <2>3, SigInvParts DEF Shortcut, Fresh
  <2>5. IsExit(CachedWrite(c, plan).lastTxSig, plan.policy)
    BY <2>4 DEF EntrySound, CachedWrite
  <2>6. /\ calls'[c].phase = "resolved" /\ calls'[c].policy = plan.policy
        /\ calls'[c].sig = CachedWrite(c, plan).lastTxSig
        /\ \A d \in Calls : d # c => calls'[d] = calls[d]
    BY <2>1 DEF Settled, TypeOK
  <2>7. TxsKept
    BY <1>2, KeptWhenUnchanged DEF Shortcut
  <2>8. CallSound(c)'
    BY <2>6, <2>5, <1>2 DEF CallSound, Shortcut, IsExit
  <2>9. QED BY <1>2, <2>6, <2>7, <2>8, OneCallMoves DEF Shortcut
<1>3. ASSUME NEW c \in Calls, NEW plan \in Plans, Submit(c, plan) PROVE SigInv'
  <2>1. /\ TxsKept
        /\ calls'[c].phase = "waiting" /\ calls'[c].policy = plan.policy
        /\ calls'[c].cachedWrite = writeCache[ClientOf[c]][plan.policy]
        /\ calls'[c].tx \in DOMAIN txs'
        /\ txs'[calls'[c].tx].request = RequestOf(ClientOf[c], plan)
        /\ \A d \in Calls : d # c => calls'[d] = calls[d]
    BY <1>3, DispatchAppends DEF Submit
  <2>2. ClientOf[c] \in Clients /\ plan.policy \in Policies
        /\ RequestOf(ClientOf[c], plan).policy = plan.policy
        /\ RequestOf(ClientOf[c], plan).guardian = ClientOf[c]
    BY CallParts, RequestsKnown
  <2>3. EntrySound(ClientOf[c], plan.policy)
    BY <2>2, SigInvParts
  <2>4. Hit(calls'[c].cachedWrite) => IsExit(calls'[c].cachedWrite.lastTxSig, plan.policy)
    BY <2>1, <2>3 DEF EntrySound
  <2>5. Hit(calls'[c].cachedWrite) => IsExit(calls[c].cachedWrite.lastTxSig, plan.policy)'
    BY <2>1, <2>4 DEF TxsKept, IsExit
  <2>6. CallSound(c)'
    BY <2>1, <2>2, <2>5 DEF CallSound, Hit, IsExit
  <2>7. QED BY <1>3, <2>1, <2>6, OneCallMoves DEF Submit
<1>4. ASSUME NEW c \in Calls, Confirm(c) PROVE SigInv'
  <2>1. calls' = [calls EXCEPT ![c] = Settled("resolved", calls[c].policy, 0, calls[c].tx, "none")]
    BY <1>4 DEF Confirm, Resolve
  <2>2. /\ calls'[c].phase = "resolved" /\ calls'[c].policy = calls[c].policy
        /\ calls'[c].sig = calls[c].tx
        /\ \A d \in Calls : d # c => calls'[d] = calls[d]
    BY <2>1 DEF Settled, TypeOK
  <2>3. /\ IsExit(calls[c].tx, calls[c].policy)
        /\ txs[calls[c].tx].request.guardian = ClientOf[c]
    BY <1>4, SigInvParts DEF Confirm, StatusSeen, CallSound, IsExit
  <2>4. UNCHANGED <<txs, wall>> /\ TxsKept
    BY <1>4, KeptWhenUnchanged DEF Confirm
  <2>5. CallSound(c)'
    BY <2>2, <2>3, <2>4 DEF CallSound, IsExit
  <2>6. ASSUME NEW d \in Calls PROVE CallSound(d)'
    BY <2>2, <2>4, <2>5, CallStays, SigInvParts
  <2>7. ASSUME NEW cl \in Clients, NEW p \in Policies PROVE EntrySound(cl, p)'
    <3>1. /\ writeCache' = [writeCache EXCEPT ![ClientOf[c]][calls[c].policy] = NewEntry(c)]
          /\ writeCache \in [Clients -> [Policies -> Entry]]
          /\ ClientOf[c] \in Clients /\ calls[c].policy \in Policies
      BY <1>4, CallParts DEF Confirm, TypeOK
    <3>2. CASE cl = ClientOf[c] /\ p = calls[c].policy
      <4>1. writeCache'[cl][p] = NewEntry(c)
        BY <3>1, <3>2
      <4>2. wall \in Nat
        BY DEF TypeOK
      <4>3. QED BY <2>3, <2>4, <3>2, <4>1, <4>2 DEF EntrySound, NewEntry, IsExit
    <3>3. CASE ~ (cl = ClientOf[c] /\ p = calls[c].policy)
      <4>1. writeCache'[cl][p] = writeCache[cl][p]
        BY <3>1, <3>3
      <4>2. wall' \in Nat /\ wall' >= wall
        BY <2>4 DEF TypeOK
      <4>3. QED BY <2>4, <4>1, <4>2, EntryStays, SigInvParts
    <3>4. QED BY <3>2, <3>3
  <2>8. QED
    BY <2>6, <2>7 DEF SigInv, CallsHoldTheirTxs, CacheHoldsOwnExits, ResolvedSigIsAnExit,
       CallSound, EntrySound, IsExit
<1>5. ASSUME NEW c \in Calls, CatchTooSoon(c) PROVE SigInv'
  <2>1. calls' = [calls EXCEPT ![c] = Settled("resolved", calls[c].policy, 0,
                                              calls[c].cachedWrite.lastTxSig, "none")]
    BY <1>5 DEF CatchTooSoon, Resolve
  <2>2. /\ calls'[c].phase = "resolved" /\ calls'[c].policy = calls[c].policy
        /\ calls'[c].sig = calls[c].cachedWrite.lastTxSig
        /\ \A d \in Calls : d # c => calls'[d] = calls[d]
    BY <2>1 DEF Settled, TypeOK
  <2>3. IsExit(calls[c].cachedWrite.lastTxSig, calls[c].policy)
    BY <1>5, SigInvParts DEF CatchTooSoon, CallSound
  <2>4. CallSound(c)'
    BY <1>5, <2>2, <2>3 DEF CatchTooSoon, CallSound, IsExit
  <2>5. QED BY <1>5, <2>2, <2>4, OneCallMoves, KeptWhenUnchanged DEF CatchTooSoon
<1>6. ASSUME NEW c \in Calls, Rethrow(c) \/ Abandon(c) PROVE SigInv'
  <2>1. PICK e \in Error : calls' = [calls EXCEPT ![c] =
                                       Settled("rejected", calls[c].policy, calls[c].tx, 0, e)]
    BY <1>6 DEF Rethrow, Abandon, Throw, Error, ErrorOf
  <2>2. calls'[c].phase = "rejected" /\ \A d \in Calls : d # c => calls'[d] = calls[d]
    BY <2>1 DEF Settled, TypeOK
  <2>3. CallSound(c)'
    BY <2>2 DEF CallSound
  <2>4. QED BY <1>6, <2>2, <2>3, OneCallMoves, KeptWhenUnchanged DEF Rethrow, Abandon
<1>7. ASSUME TxsKept, UNCHANGED <<calls, writeCache>>, wall' \in Nat, wall' >= wall PROVE SigInv'
  <2>1. ASSUME NEW c \in Calls PROVE CallSound(c)'
    BY <1>7, CallStays, SigInvParts
  <2>2. ASSUME NEW cl \in Clients, NEW p \in Policies PROVE EntrySound(cl, p)'
    BY <1>7, EntryStays, SigInvParts
  <2>3. QED
    BY <2>1, <2>2 DEF SigInv, CallsHoldTheirTxs, CacheHoldsOwnExits, ResolvedSigIsAnExit,
       CallSound, EntrySound, IsExit
<1>8. ASSUME NEW t \in DOMAIN txs, Land(t) \/ Drop(t) PROVE SigInv'
  <2>1. TxsKept
    BY <1>8, LandKeeps
  <2>2. UNCHANGED <<calls, writeCache>> /\ wall' \in Nat /\ wall' >= wall
    BY <1>8 DEF Land, Drop, TypeOK
  <2>3. QED BY <1>7, <2>1, <2>2
<1>9. ASSUME NEW cl \in Clients, Restart(cl) PROVE SigInv'
  <2>1. UNCHANGED <<txs, wall>> /\ TxsKept
    BY <1>9, KeptWhenUnchanged DEF Restart
  <2>2. ASSUME NEW c \in Calls PROVE CallSound(c)'
    <3>1. CASE ClientOf[c] = cl
      <4>1. calls'[c].phase = "idle"
        BY <1>9, <3>1 DEF Restart, Settled
      <4>2. QED BY <4>1 DEF CallSound
    <3>2. CASE ClientOf[c] # cl
      <4>1. calls'[c] = calls[c]
        BY <1>9, <3>2 DEF Restart
      <4>2. QED BY <2>1, <4>1, CallStays, SigInvParts
    <3>3. QED BY <3>1, <3>2
  <2>3. ASSUME NEW k \in Clients, NEW p \in Policies PROVE EntrySound(k, p)'
    <3>1. CASE k = cl
      <4>1. writeCache'[k][p] = NoEntry
        BY <1>9, <3>1 DEF Restart, TypeOK
      <4>2. QED BY <4>1 DEF EntrySound, Hit, NoEntry
    <3>2. CASE k # cl
      <4>1. writeCache'[k][p] = writeCache[k][p]
        BY <1>9, <3>2 DEF Restart, TypeOK
      <4>2. wall' \in Nat /\ wall' >= wall
        BY <2>1 DEF TypeOK
      <4>3. QED BY <2>1, <4>1, <4>2, EntryStays, SigInvParts
    <3>3. QED BY <3>1, <3>2
  <2>4. QED
    BY <2>2, <2>3 DEF SigInv, CallsHoldTheirTxs, CacheHoldsOwnExits, ResolvedSigIsAnExit,
       CallSound, EntrySound, IsExit
<1>10. ASSUME Tick \/ ChainDrift \/ WallDrift \/ UNCHANGED vars PROVE SigInv'
  BY <1>7, <1>10, KeptWhenUnchanged DEF Tick, ChainDrift, WallDrift, vars, TypeOK
<1>11. QED
  BY <1>1, <1>2, <1>3, <1>4, <1>5, <1>6, <1>8, <1>9, <1>10 DEF Next, Start, Settle

-----------------------------------------------------------------------------
(* The theorems.                                                           *)

(* At the start every call is idle and every cache empty.                  *)
LEMMA InitIInv == Init => IInv
<1> SUFFICES ASSUME Init PROVE IInv
  OBVIOUS
<1>1. (CHOOSE p \in Policies : TRUE) \in Policies
  BY CallsAssumption
<1>2. /\ calls \in [Calls -> Call]
      /\ \A c \in Calls : calls[c].phase = "idle"
  BY <1>1, SettledTyped DEF Init, Error, Settled
<1>3. NoEntry \in Entry /\ ~ Hit(NoEntry)
  BY DEF NoEntry, Entry, Hit
<1>4. writeCache \in [Clients -> [Policies -> Entry]]
  BY <1>3 DEF Init
<1>5. events \in Seq(Chain!Event) /\ txs \in Seq(Tx)
  BY DEF Init, Chain!Init
<1>6. TypeOK
  BY <1>2, <1>4, <1>5, ChainAssumption DEF Init, Chain!Init, TypeOK
<1>7. CacheHoldsOwnExits
  BY <1>3 DEF Init, CacheHoldsOwnExits
<1>8. CallsHoldTheirTxs /\ ResolvedSigIsAnExit
  BY <1>2 DEF CallsHoldTheirTxs, ResolvedSigIsAnExit
<1>9. QED BY <1>6, <1>7, <1>8 DEF IInv, SigInv

(* The inductive invariant holds in every behaviour.                       *)
THEOREM Invariance == Spec => []IInv
<1>1. IInv /\ [Next]_vars => IInv'
  BY TypePreserved, SigPreserved DEF IInv
<1>2. QED BY <1>1, InitIInv, PTL DEF Spec

(* Type correctness of the client, its transactions and its chain.         *)
THEOREM TypeCorrect == Spec => []TypeOK
<1>1. IInv => TypeOK
  BY DEF IInv
<1>2. QED BY <1>1, Invariance, PTL

(* executePrivateRebalance: whatever path a call took and whatever broke   *)
(* meanwhile, the signature it resolves with is that of an exit of the     *)
(* plan's policy that ran on the chain.                                    *)
THEOREM ResolvedCorrect == Spec => []ResolvedSigIsAnExit
<1>1. IInv => ResolvedSigIsAnExit
  BY DEF IInv, SigInv
<1>2. QED BY <1>1, Invariance, PTL

(* writeCache: an entry is an exit of its key's policy that this client    *)
(* signed, dated no later than Date.now().                                 *)
THEOREM CacheCorrect == Spec => []CacheHoldsOwnExits
<1>1. IInv => CacheHoldsOwnExits
  BY DEF IInv, SigInv
<1>2. QED BY <1>1, Invariance, PTL

(* Clients, network and clocks together do to the chain what the program   *)
(* swig_delegation lets its signers do, and nothing else.                  *)
THEOREM ImplementsChain == Spec => Chain!Spec
<1>1. Init => Chain!Init
  BY DEF Init
<1>2. TypeOK /\ [Next]_vars => [Chain!Next]_(Chain!vars)
  BY StepOfChain
<1>3. QED BY <1>1, <1>2, TypeCorrect, PTL DEF Spec, Chain!Spec

(* The same, in the words of the program's own theorems.                   *)
LEMMA ImplementsProvedChain == Spec => ChainProofs!Spec
<1>1. Init => ChainProofs!Init
  BY SameChain DEF Init
<1>2. TypeOK /\ [Next]_vars => [ChainProofs!Next]_(ChainProofs!vars)
  BY StepOfChain, SameChain
<1>3. QED BY <1>1, <1>2, TypeCorrect, PTL DEF Spec, ChainProofs!Spec

(* "No double-swap": with any number of clients, overlapping calls, lost   *)
(* transactions, lost answers, restarts and clocks that disagree, two      *)
(* exits of one policy are a rate-limit window apart.                      *)
THEOREM DoubleSwapExcluded == Spec => []NoDoubleSwap
<1>1. RateLimit \in Nat \ {0}
  BY ChainAssumption
<1>2. StartTime \in Nat \ {0} /\ MaxTime \in Nat
  BY ChainAssumption
<1>3. Submittable \subseteq ChainProofs!Request
  BY SubmittableRequests
<1>4. ChainProofs!Spec => []ChainProofs!SpacedExecutions
  BY <1>1, <1>2, <1>3, ChainProofs!SpacingCorrect
<1>5. NoDoubleSwap <=> ChainProofs!SpacedExecutions
  BY DEF NoDoubleSwap, Chain!SpacedExecutions, ChainProofs!SpacedExecutions
<1>6. QED BY <1>4, <1>5, ImplementsProvedChain, PTL

-----------------------------------------------------------------------------
(* A client that is alone: one call at a time on the clients that can      *)
(* submit, an answer to every call, and no restart.  Its calls never fail  *)
(* because the chain's anchor is never ahead of what the client remembers. *)

OneCaller == \A c, d \in Calls : {ClientOf[c], ClientOf[d]} \subseteq Equipped => c = d
AnswersArrive == "timeout" \notin Faults /\ "restart" \notin Faults
SizesValid == \A plan \in Plans : plan.sizeBps <= Chain!BPS

Awaits(c, t) == calls[c].phase = "waiting" /\ calls[c].tx = t

(* A transaction in flight is one that a call waits for.                   *)
FlightIsAwaited ==
  \A t \in DOMAIN txs : txs[t].status = "flight" => \E c \in Calls : Awaits(c, t)

(* An exit that ran is in the cache, or about to be.                       *)
ExitIsRemembered ==
  \A t \in DOMAIN txs : txs[t].status = "Ok" =>
    \/ Hit(writeCache[txs[t].request.guardian][txs[t].request.policy])
    \/ \E c \in Calls : Awaits(c, t)

(* The chain refuses because of an exit that a client submitted.           *)
AnchorIsAnExit ==
  \A p \in Policies : lastRebalanced[p] # 0 => \E t \in DOMAIN txs : IsExit(t, p)

(* What the call read before its await is what the cache still holds, and  *)
(* a refusal is one that the catch clause turns into a signature.          *)
RefusalIsCaught ==
  \A c \in Calls : calls[c].phase = "waiting" =>
    /\ calls[c].cachedWrite = writeCache[ClientOf[c]][calls[c].policy]
    /\ \/ txs[calls[c].tx].status \in {"flight", "dropped", "Ok"}
       \/ txs[calls[c].tx].status = "RebalanceTooSoon" /\ Hit(calls[c].cachedWrite)

(* Only calls on equipped clients submit and wait.                         *)
CallersEquipped ==
  /\ \A t \in DOMAIN txs : \E c \in Calls : /\ ClientOf[c] \in Equipped
                                           /\ txs[t].request.guardian = ClientOf[c]
  /\ \A c \in Calls : calls[c].phase = "waiting" => ClientOf[c] \in Equipped

(* A call that failed holds a transaction that was submitted, or none.     *)
RejectedHoldsTx ==
  \A c \in Calls : calls[c].phase = "rejected" => calls[c].tx \in {0} \cup DOMAIN txs

AloneInv ==
  /\ FlightIsAwaited
  /\ ExitIsRemembered
  /\ AnchorIsAnExit
  /\ RefusalIsCaught
  /\ CallersEquipped
  /\ RejectedHoldsTx
  /\ NeverRefused

(* A valid exit is refused for being early or not at all.                  *)
LEMMA AloneOutcome ==
  ASSUME SizesValid, NEW r \in Submittable
  PROVE  /\ Chain!Outcome(r) \in {"Ok", "RebalanceTooSoon"}
         /\ Chain!Outcome(r) = "RebalanceTooSoon" => lastRebalanced[r.policy] # 0
<1>1. PICK cl \in Clients, plan \in Plans : r = RequestOf(cl, plan)
  BY DEF Submittable
<1>2. r.action = "exit" /\ r.sizeBps = plan.sizeBps /\ r.maxSlippageBps = 100
      /\ r.expectedOut = 1000 /\ r.minOut = 995
  BY <1>1 DEF RequestOf
<1>3. plan.sizeBps \in Nat /\ plan.sizeBps <= 10000
  BY CallsAssumption DEF Plan, SizesValid, Chain!BPS
<1>4. ~ (r.sizeBps > Chain!BPS) /\ ~ Chain!ToleranceUnderflows(r) /\ Chain!SlippageGate(r)
  BY <1>2, <1>3 DEF Chain!BPS, Chain!ToleranceUnderflows, Chain!SlippageGate
<1>5. QED BY <1>2, <1>4 DEF Chain!Outcome, Chain!TooSoon

(* A call that ends, or begins and ends at once, with nothing in flight    *)
(* and nothing to remember behind it.                                      *)
LEMMA AloneSettle ==
  ASSUME AloneInv, NEW c \in Calls,
         UNCHANGED <<lastRebalanced, writeCache, txs>>,
         \A d \in Calls : d # c => calls'[d] = calls[d],
         calls'[c].phase # "waiting",
         calls[c].phase = "waiting" => StatusSeen(c) \notin {"flight", "Ok"},
         calls'[c].phase = "rejected" =>
           /\ calls'[c].tx \in {0} \cup DOMAIN txs
           /\ \/ calls'[c].error = "NotImplemented"
              \/ calls'[c].tx # 0 /\ txs[calls'[c].tx].status = "dropped"
  PROVE  AloneInv'
<1>1. ASSUME NEW t \in DOMAIN txs, txs[t].status \in {"flight", "Ok"},
             NEW d \in Calls, Awaits(d, t)
      PROVE  Awaits(d, t)'
  <2>1. d # c
    BY <1>1 DEF Awaits, StatusSeen
  <2>2. QED BY <1>1, <2>1 DEF Awaits
<1>2. FlightIsAwaited'
  BY <1>1 DEF AloneInv, FlightIsAwaited
<1>3. ExitIsRemembered'
  BY <1>1 DEF AloneInv, ExitIsRemembered, Hit
<1>4. AnchorIsAnExit'
  BY DEF AloneInv, AnchorIsAnExit, IsExit
<1>5. RefusalIsCaught'
  BY DEF AloneInv, RefusalIsCaught, Hit
<1>6. CallersEquipped'
  BY DEF AloneInv, CallersEquipped
<1>7. NeverRefused'
  BY DEF AloneInv, NeverRefused
<1>8. RejectedHoldsTx'
  BY DEF AloneInv, RejectedHoldsTx
<1>9. QED BY <1>2, <1>3, <1>4, <1>5, <1>6, <1>7, <1>8 DEF AloneInv

(* Every step of a client that is alone keeps its invariant.               *)
LEMMA AlonePreserved ==
  ASSUME OneCaller, AnswersArrive, SizesValid, IInv, AloneInv, [Next]_vars
  PROVE  AloneInv'
<1>1. TypeOK /\ SigInv
  BY DEF IInv
<1>2. ASSUME NEW c \in Calls, NEW plan \in Plans, RefuseLocally(c, plan) \/ Shortcut(c, plan)
      PROVE  AloneInv'
  <2>1. PICK ph, s, e :
          /\ ph \in {"resolved", "rejected"}
          /\ calls' = [calls EXCEPT ![c] = Settled(ph, plan.policy, 0, s, e)]
          /\ ph = "rejected" => e = "NotImplemented"
    BY <1>2 DEF RefuseLocally, Shortcut, Throw, Resolve
  <2>2. /\ calls'[c].phase = ph /\ calls'[c].error = e /\ calls'[c].tx = 0
        /\ \A d \in Calls : d # c => calls'[d] = calls[d]
    BY <1>1, <2>1 DEF Settled, TypeOK
  <2>3. UNCHANGED <<lastRebalanced, writeCache, txs>> /\ calls[c].phase # "waiting"
    BY <1>2 DEF RefuseLocally, Shortcut, chainVars
  <2>4. QED BY <2>1, <2>2, <2>3, AloneSettle
<1>3. ASSUME NEW c \in Calls, CatchTooSoon(c) \/ Rethrow(c) \/ Abandon(c) PROVE AloneInv'
  <2>1. UNCHANGED <<lastRebalanced, writeCache, txs>> /\ calls[c].phase = "waiting"
    BY <1>3 DEF CatchTooSoon, Rethrow, Abandon, chainVars
  <2>2. ~ Rethrow(c)
    BY <2>1 DEF AloneInv, RefusalIsCaught, Rethrow, StatusSeen
  <2>3. StatusSeen(c) \notin {"flight", "Ok"}
    BY <1>3, <2>2 DEF AnswersArrive, CatchTooSoon, Abandon
  <2>4. PICK ph, t, s, e :
          /\ ph \in {"resolved", "rejected"}
          /\ calls' = [calls EXCEPT ![c] = Settled(ph, calls[c].policy, t, s, e)]
          /\ ph = "rejected" => t = calls[c].tx /\ StatusSeen(c) = "dropped"
    BY <1>3, <2>2 DEF AnswersArrive, CatchTooSoon, Abandon, Throw, Resolve
  <2>5. /\ calls'[c].phase = ph /\ calls'[c].tx = t
        /\ \A d \in Calls : d # c => calls'[d] = calls[d]
    BY <1>1, <2>4 DEF Settled, TypeOK
  <2>6. calls[c].tx # 0 /\ calls[c].tx \in DOMAIN txs
    BY <1>1, <2>1, TxsTyped DEF SigInv, CallsHoldTheirTxs
  <2>7. QED BY <2>1, <2>3, <2>4, <2>5, <2>6, AloneSettle DEF StatusSeen
<1>4. ASSUME NEW c \in Calls, NEW plan \in Plans, Submit(c, plan) PROVE AloneInv'
  <2> DEFINE t0 == calls'[c].tx
  <2> HIDE DEF t0
  <2>1. /\ TxsKept
        /\ calls'[c].phase = "waiting" /\ calls'[c].policy = plan.policy
        /\ calls'[c].cachedWrite = writeCache[ClientOf[c]][plan.policy]
        /\ calls'[c].tx = t0
        /\ txs'[t0].request = RequestOf(ClientOf[c], plan) /\ txs'[t0].status = "flight"
        /\ \A t \in DOMAIN txs' : t # t0 => t \in DOMAIN txs /\ txs'[t] = txs[t]
        /\ \A d \in Calls : d # c => calls'[d] = calls[d]
    BY <1>1, <1>4, DispatchAppends DEF Submit, t0
  <2>2. /\ UNCHANGED <<lastRebalanced, writeCache>> /\ calls[c].phase # "waiting"
        /\ ClientOf[c] \in Equipped
    BY <1>4 DEF Submit, Dispatch, NotShipped, chainVars
  <2>3. RequestOf(ClientOf[c], plan).guardian = ClientOf[c]
    BY RequestsKnown, CallsAssumption
  <2>4. \A t, d \in DOMAIN txs \cup Calls : d \in Calls /\ Awaits(d, t) => Awaits(d, t)'
    BY <2>1, <2>2 DEF Awaits
  <2>5. FlightIsAwaited'
    BY <2>1, <2>4 DEF AloneInv, FlightIsAwaited, Awaits
  <2>6. ExitIsRemembered'
    BY <2>1, <2>2, <2>4 DEF AloneInv, ExitIsRemembered, Hit
  <2>7. AnchorIsAnExit'
    BY <2>1, <2>2 DEF AloneInv, AnchorIsAnExit, IsExit, TxsKept
  <2>8. CallersEquipped'
    BY <2>1, <2>2, <2>3 DEF AloneInv, CallersEquipped
  <2>9. RefusalIsCaught'
    <3>1. ASSUME NEW d \in Calls, calls'[d].phase = "waiting" PROVE d = c
      BY <2>1, <2>2, <3>1 DEF AloneInv, CallersEquipped, OneCaller
    <3>2. QED BY <2>1, <2>2, <3>1 DEF RefusalIsCaught, Hit
  <2>10. NeverRefused'
    <3>1. ASSUME NEW d \in Calls, calls'[d].phase = "rejected", calls'[d].error # "NotImplemented"
          PROVE  calls'[d].tx # 0 /\ txs'[calls'[d].tx].status = "dropped"
      <4>1. d # c /\ calls'[d] = calls[d]
        BY <2>1, <3>1
      <4>2. calls[d].tx # 0 /\ txs[calls[d].tx].status = "dropped"
        BY <3>1, <4>1 DEF AloneInv, NeverRefused
      <4>3. calls[d].tx \in DOMAIN txs
        BY <3>1, <4>1, <4>2 DEF AloneInv, RejectedHoldsTx
      <4>4. QED BY <2>1, <4>1, <4>2, <4>3 DEF TxsKept
    <3>2. QED BY <3>1 DEF NeverRefused
  <2>11. RejectedHoldsTx'
    BY <2>1 DEF AloneInv, RejectedHoldsTx, TxsKept
  <2>12. QED BY <2>5, <2>6, <2>7, <2>8, <2>9, <2>10, <2>11 DEF AloneInv
<1>5. ASSUME NEW c \in Calls, Confirm(c) PROVE AloneInv'
  <2> DEFINE cl == ClientOf[c]
             p == calls[c].policy
  <2>1. /\ calls[c].phase = "waiting" /\ txs[calls[c].tx].status = "Ok"
        /\ calls[c].tx \in DOMAIN txs
        /\ txs[calls[c].tx].request.policy = p /\ txs[calls[c].tx].request.guardian = cl
        /\ cl \in Equipped
    BY <1>1, <1>5 DEF Confirm, StatusSeen, SigInv, CallsHoldTheirTxs, AloneInv, CallersEquipped
  <2>2. UNCHANGED <<lastRebalanced, txs>>
    BY <1>5 DEF Confirm, chainVars
  <2>3. /\ calls'[c].phase = "resolved"
        /\ \A d \in Calls : d # c => calls'[d] = calls[d]
    BY <1>1, <1>5 DEF Confirm, Resolve, Settled, TypeOK
  <2>4. calls[c].tx # 0
    BY <1>1, <2>1, TxsTyped
  <2>5. /\ Hit(NewEntry(c))
        /\ \A k \in Clients, q \in Policies :
             writeCache'[k][q] = IF k = cl /\ q = p THEN NewEntry(c) ELSE writeCache[k][q]
    BY <1>1, <1>5, <2>4, CallParts DEF Confirm, NewEntry, Hit, TypeOK
  <2>6. ASSUME NEW d \in Calls, calls'[d].phase = "waiting" PROVE FALSE
    BY <2>1, <2>3, <2>6 DEF AloneInv, CallersEquipped, OneCaller
  <2>7. ASSUME NEW t \in DOMAIN txs, NEW d \in Calls, Awaits(d, t) PROVE d = c /\ t = calls[c].tx
    BY <2>1, <2>7 DEF AloneInv, CallersEquipped, OneCaller, Awaits
  <2>8. FlightIsAwaited'
    BY <2>1, <2>2, <2>7 DEF AloneInv, FlightIsAwaited
  <2>9. ExitIsRemembered'
    <3>1. ASSUME NEW t \in DOMAIN txs, txs[t].status = "Ok"
          PROVE  Hit(writeCache'[txs[t].request.guardian][txs[t].request.policy])
      <4>1. txs[t].request.guardian \in Clients /\ txs[t].request.policy \in Policies
        BY <1>1, TxsTyped, SubmittableRequests DEF Chain!Request
      <4>2. CASE Hit(writeCache[txs[t].request.guardian][txs[t].request.policy])
        BY <2>5, <4>1, <4>2
      <4>3. CASE t = calls[c].tx
        BY <2>1, <2>5, <4>1, <4>3
      <4>4. QED BY <2>7, <3>1, <4>2, <4>3 DEF AloneInv, ExitIsRemembered
    <3>2. QED BY <2>2, <3>1 DEF ExitIsRemembered, Hit
  <2>10. AnchorIsAnExit'
    BY <2>2 DEF AloneInv, AnchorIsAnExit, IsExit
  <2>11. RefusalIsCaught'
    BY <2>6 DEF RefusalIsCaught
  <2>12. CallersEquipped'
    BY <2>2, <2>6 DEF AloneInv, CallersEquipped
  <2>13. RejectedHoldsTx'
    BY <2>2, <2>3 DEF AloneInv, RejectedHoldsTx
  <2>14. NeverRefused'
    BY <2>2, <2>3 DEF AloneInv, NeverRefused
  <2>15. QED BY <2>8, <2>9, <2>10, <2>11, <2>12, <2>13, <2>14 DEF AloneInv
<1>6. ASSUME NEW t0 \in DOMAIN txs, Land(t0) \/ Drop(t0) PROVE AloneInv'
  <2>1. /\ TxsKept /\ DOMAIN txs' = DOMAIN txs
        /\ \A s \in DOMAIN txs : s # t0 => txs'[s] = txs[s]
        /\ txs'[t0].request = txs[t0].request
    BY <1>1, <1>6, LandKeeps DEF TxsKept
  <2>2. UNCHANGED <<calls, writeCache>> /\ txs[t0].status = "flight"
    BY <1>6 DEF Land, Drop
  <2>3. PICK c \in Calls : Awaits(c, t0)
    BY <2>2 DEF AloneInv, FlightIsAwaited
  <2>4. \A d \in Calls : calls[d].phase = "waiting" => d = c
    BY <2>3 DEF AloneInv, CallersEquipped, OneCaller, Awaits
  <2>5. /\ txs[t0].request \in Submittable /\ txs[t0].request.policy \in Policies
        /\ txs[t0].request.policy = calls[c].policy
        /\ txs[t0].request.guardian = ClientOf[c]
    BY <1>1, <2>3, TxsTyped, SubmittableRequests DEF Chain!Request, SigInv, CallsHoldTheirTxs, Awaits
  <2>6. \/ /\ txs'[t0].status = "Ok"
           /\ lastRebalanced' = [lastRebalanced EXCEPT ![txs[t0].request.policy] = clock]
        \/ /\ txs'[t0].status = "dropped" /\ UNCHANGED lastRebalanced
        \/ /\ txs'[t0].status = "RebalanceTooSoon" /\ UNCHANGED lastRebalanced
           /\ lastRebalanced[txs[t0].request.policy] # 0
    <3>1. txs[t0] \in Tx /\ txs \in Seq(Tx)
      BY <1>1, TxsTyped DEF TypeOK
    <3>2. CASE Drop(t0)
      BY <3>1, <3>2 DEF Drop, Tx, chainVars
    <3>3. CASE Chain!Execute(txs[t0].request) /\ Land(t0)
      <4>1. txs' = [txs EXCEPT ![t0].status = "Ok", ![t0].event = Len(events) + 1]
        BY <3>3 DEF Land, Chain!Execute, Chain!Refuse
      <4>2. txs'[t0] = [txs[t0] EXCEPT !.status = "Ok", !.event = Len(events) + 1]
        BY <3>1, <4>1
      <4>3. txs'[t0].status = "Ok"
        BY <3>1, <4>2 DEF Tx
      <4>4. QED BY <3>3, <4>3 DEF Chain!Execute
    <3>4. CASE Chain!Refuse(txs[t0].request) /\ Land(t0)
      <4>1. txs' = [txs EXCEPT ![t0].status = Chain!Outcome(txs[t0].request)]
        BY <3>4 DEF Land, Chain!Execute, Chain!Refuse
      <4>2. txs'[t0] = [txs[t0] EXCEPT !.status = Chain!Outcome(txs[t0].request)]
        BY <3>1, <4>1
      <4>3. txs'[t0].status = Chain!Outcome(txs[t0].request)
        BY <3>1, <4>2 DEF Tx
      <4>4. QED BY <2>5, <3>4, <4>3, AloneOutcome DEF Chain!Refuse, Chain!vars
    <3>5. QED BY <1>6, <3>2, <3>3, <3>4 DEF Land
  <2>7. FlightIsAwaited'
    BY <2>1, <2>2, <2>3 DEF AloneInv, FlightIsAwaited, Awaits
  <2>8. ExitIsRemembered'
    BY <2>1, <2>2, <2>3 DEF AloneInv, ExitIsRemembered, Awaits, Hit
  <2>9. AnchorIsAnExit'
    <3>1. ASSUME NEW p \in Policies, lastRebalanced[p] # 0
          PROVE  \E t \in DOMAIN txs' : IsExit(t, p)'
      BY <2>1, <2>2, <3>1 DEF AloneInv, AnchorIsAnExit, IsExit, TxsKept
    <3>2. CASE txs'[t0].status = "Ok"
      BY <1>1, <2>1, <2>5, <2>6, <3>1, <3>2 DEF AnchorIsAnExit, IsExit, TypeOK
    <3>3. CASE UNCHANGED lastRebalanced
      BY <3>1, <3>3 DEF AnchorIsAnExit
    <3>4. QED BY <2>6, <3>2, <3>3
  <2>10. RefusalIsCaught'
    <3>1. calls[c].cachedWrite = writeCache[ClientOf[c]][calls[c].policy] /\ calls[c].tx = t0
      BY <2>3 DEF AloneInv, RefusalIsCaught, Awaits
    <3>2. ASSUME lastRebalanced[txs[t0].request.policy] # 0 PROVE Hit(calls[c].cachedWrite)
      <4>1. PICK t \in DOMAIN txs : IsExit(t, txs[t0].request.policy)
        BY <2>5, <3>2 DEF AloneInv, AnchorIsAnExit
      <4>2. txs[t].request.guardian = ClientOf[c]
        BY <2>3 DEF AloneInv, CallersEquipped, OneCaller, Awaits
      <4>3. \A d \in Calls : ~ Awaits(d, t)
        BY <2>2, <2>3, <2>4, <4>1 DEF Awaits, IsExit
      <4>4. QED BY <2>5, <3>1, <4>1, <4>2, <4>3 DEF AloneInv, ExitIsRemembered, IsExit
    <3>3. QED BY <2>2, <2>4, <2>6, <3>1, <3>2 DEF RefusalIsCaught, Hit
  <2>11. CallersEquipped'
    BY <2>1, <2>2 DEF AloneInv, CallersEquipped, TxsKept
  <2>12. RejectedHoldsTx'
    BY <2>1, <2>2 DEF AloneInv, RejectedHoldsTx
  <2>13. NeverRefused'
    BY <2>1, <2>2 DEF AloneInv, NeverRefused, RejectedHoldsTx, TxsKept
  <2>14. QED BY <2>7, <2>8, <2>9, <2>10, <2>11, <2>12, <2>13 DEF AloneInv
<1>7. ASSUME UNCHANGED <<lastRebalanced, writeCache, calls, txs>> PROVE AloneInv'
  BY <1>7 DEF AloneInv, FlightIsAwaited, ExitIsRemembered, AnchorIsAnExit, RefusalIsCaught,
     CallersEquipped, RejectedHoldsTx, NeverRefused, Awaits, IsExit, Hit
<1>8. ASSUME Tick \/ ChainDrift \/ WallDrift \/ UNCHANGED vars PROVE AloneInv'
  BY <1>7, <1>8 DEF Tick, ChainDrift, WallDrift, vars, chainVars, Chain!Tick
<1>9. \A cl \in Clients : ~ Restart(cl)
  BY DEF AnswersArrive, Restart
<1>10. QED BY <1>2, <1>3, <1>4, <1>5, <1>6, <1>8, <1>9 DEF Next, Start, Settle

(* Nothing is in flight, remembered or refused at the start.               *)
LEMMA InitAlone == Init => AloneInv
<1> SUFFICES ASSUME Init PROVE AloneInv
  OBVIOUS
<1>1. \A c \in Calls : calls[c].phase = "idle"
  BY DEF Init, Settled
<1>2. DOMAIN txs = {} /\ \A p \in Policies : lastRebalanced[p] = 0
  BY DEF Init, Chain!Init
<1>3. FlightIsAwaited /\ ExitIsRemembered /\ AnchorIsAnExit
  BY <1>2 DEF FlightIsAwaited, ExitIsRemembered, AnchorIsAnExit
<1>4. RefusalIsCaught /\ CallersEquipped /\ RejectedHoldsTx /\ NeverRefused
  BY <1>1, <1>2 DEF RefusalIsCaught, CallersEquipped, RejectedHoldsTx, NeverRefused
<1>5. QED BY <1>3, <1>4 DEF AloneInv

(* FR-8b where it is sound: a client that is alone with its policies, that *)
(* hears what became of every transaction and is not restarted never sees  *)
(* a valid exit refused, whatever the two windows and however far apart    *)
(* the two clocks run; a call fails only if its transaction never landed.  *)
THEOREM AloneNeverRefused ==
  ASSUME OneCaller, AnswersArrive, SizesValid
  PROVE  Spec => []NeverRefused
<1>1. IInv /\ AloneInv /\ [Next]_vars => AloneInv'
  BY AlonePreserved
<1>2. AloneInv => NeverRefused
  BY DEF AloneInv
<1>3. QED BY <1>1, <1>2, InitAlone, Invariance, PTL DEF Spec

-----------------------------------------------------------------------------
(* A client that is alone resolves with the latest exit.                   *)

(* Signature s is at least as late as every exit of policy p.              *)
Latest(s, p) ==
  \A t \in DOMAIN txs :
    txs[t].status = "Ok" /\ txs[t].request.policy = p => txs[t].event <= txs[s].event

(* The exit that call c waits for has run, and it has not heard.           *)
RanFor(c, p) == calls[c].phase = "waiting" /\ calls[c].policy = p /\ StatusSeen(c) = "Ok"

(* An exit ran as one of the events so far.                                *)
EventsPast ==
  \A t \in DOMAIN txs : txs[t].status = "Ok" => txs[t].event <= Len(events)

(* The exit that a call is about to hear of is the latest, and until one   *)
(* runs the cache's is.                                                    *)
AwaitedIsLatest ==
  \A c \in Calls, p \in Policies : RanFor(c, p) => Latest(calls[c].tx, p)
CachedIsLatest ==
  \A c \in Calls, p \in Policies :
    LET e == writeCache[ClientOf[c]][p] IN
    ClientOf[c] \in Equipped /\ Hit(e) /\ ~ RanFor(c, p) => Latest(e.lastTxSig, p)

LatestInv == EventsPast /\ AwaitedIsLatest /\ CachedIsLatest

(* A call that begins or ends without an exit leaves what is latest.       *)
LEMMA LatestKept ==
  ASSUME LatestInv, UNCHANGED <<events, writeCache, txs>>,
         \A d \in Calls : \/ calls'[d] = calls[d]
                          \/ \A p \in Policies : ~ RanFor(d, p) /\ ~ RanFor(d, p)'
  PROVE  LatestInv'
<1>1. ASSUME NEW d \in Calls, NEW p \in Policies
      PROVE  /\ RanFor(d, p)' <=> RanFor(d, p)
             /\ RanFor(d, p) => calls'[d] = calls[d]
  BY DEF RanFor, StatusSeen
<1>2. ASSUME NEW s, NEW p PROVE Latest(s, p)' <=> Latest(s, p)
  BY DEF Latest
<1>3. EventsPast'
  BY DEF LatestInv, EventsPast
<1>4. AwaitedIsLatest'
  BY <1>1 DEF LatestInv, AwaitedIsLatest, Latest
<1>5. CachedIsLatest'
  BY <1>1 DEF LatestInv, CachedIsLatest, Latest, Hit
<1>6. QED BY <1>3, <1>4, <1>5 DEF LatestInv

(* The event of a transaction that runs is the last one so far.            *)
LEMMA LandRuns ==
  ASSUME TypeOK, NEW t \in DOMAIN txs, Land(t) \/ Drop(t)
  PROVE  \/ /\ txs'[t].status = "Ok" /\ txs'[t].event = Len(events) + 1
            /\ Len(events') = Len(events) + 1
         \/ txs'[t].status # "Ok" /\ UNCHANGED events
<1>1. txs[t] \in Tx /\ txs \in Seq(Tx)
  BY TxsTyped DEF TypeOK
<1>2. CASE Drop(t)
  BY <1>1, <1>2 DEF Drop, Tx, chainVars
<1>3. CASE Chain!Execute(txs[t].request) /\ Land(t)
  <2>1. txs' = [txs EXCEPT ![t].status = "Ok", ![t].event = Len(events) + 1]
    BY <1>3 DEF Land, Chain!Execute, Chain!Refuse
  <2>2. txs'[t] = [txs[t] EXCEPT !.status = "Ok", !.event = Len(events) + 1]
    BY <1>1, <2>1
  <2>3. txs'[t].status = "Ok" /\ txs'[t].event = Len(events) + 1
    BY <1>1, <2>2 DEF Tx
  <2>4. PICK e : events' = Append(events, e)
    BY <1>3 DEF Chain!Execute
  <2>5. Len(events') = Len(events) + 1
    BY <2>4 DEF TypeOK
  <2>6. QED BY <2>3, <2>5
<1>4. CASE Chain!Refuse(txs[t].request) /\ Land(t)
  <2>1. txs' = [txs EXCEPT ![t].status = Chain!Outcome(txs[t].request)]
    BY <1>4 DEF Land, Chain!Execute, Chain!Refuse
  <2>2. txs'[t] = [txs[t] EXCEPT !.status = Chain!Outcome(txs[t].request)]
    BY <1>1, <2>1
  <2>3. txs'[t].status = Chain!Outcome(txs[t].request)
    BY <1>1, <2>2 DEF Tx
  <2>4. QED BY <1>4, <2>3 DEF Chain!Refuse, Chain!vars
<1>5. QED BY <1>2, <1>3, <1>4 DEF Land

(* Every step of a client that is alone keeps what is latest.              *)
LEMMA LatestPreserved ==
  ASSUME OneCaller, AnswersArrive, SizesValid, IInv, AloneInv, LatestInv, [Next]_vars
  PROVE  LatestInv'
<1>1. TypeOK /\ SigInv
  BY DEF IInv
<1>2. \A c, d \in Calls : ClientOf[c] \in Equipped /\ calls[d].phase = "waiting"
                          /\ ClientOf[d] \in Equipped => c = d
  BY DEF OneCaller
<1>3. \A d \in Calls : calls[d].phase = "waiting" => ClientOf[d] \in Equipped
  BY DEF AloneInv, CallersEquipped
<1>4. ASSUME NEW d \in Calls, NEW p \in Policies, ClientOf[d] \in Equipped,
             Hit(writeCache[ClientOf[d]][p])
      PROVE  IsExit(writeCache[ClientOf[d]][p].lastTxSig, p)
  BY <1>1, <1>4, CallParts DEF SigInv, CacheHoldsOwnExits, IsExit
<1>5. ASSUME NEW c \in Calls, NEW plan \in Plans, RefuseLocally(c, plan) \/ Shortcut(c, plan)
      PROVE  LatestInv'
  <2>1. UNCHANGED <<events, writeCache, txs>> /\ calls[c].phase # "waiting"
    BY <1>5 DEF RefuseLocally, Shortcut, chainVars
  <2>2. PICK ph, s, e : /\ ph \in {"resolved", "rejected"}
                        /\ calls' = [calls EXCEPT ![c] = Settled(ph, plan.policy, 0, s, e)]
    BY <1>5 DEF RefuseLocally, Shortcut, Throw, Resolve
  <2>3. /\ calls'[c].phase # "waiting"
        /\ \A d \in Calls : d # c => calls'[d] = calls[d]
    BY <1>1, <2>2 DEF Settled, TypeOK
  <2>4. QED BY <2>1, <2>3, LatestKept DEF RanFor
<1>6. ASSUME NEW c \in Calls, CatchTooSoon(c) \/ Rethrow(c) \/ Abandon(c) PROVE LatestInv'
  <2>1. UNCHANGED <<events, writeCache, txs>> /\ StatusSeen(c) # "Ok"
    BY <1>6 DEF CatchTooSoon, Rethrow, Abandon, chainVars, AnswersArrive
  <2>2. PICK ph, t, s, e : /\ ph \in {"resolved", "rejected"}
                           /\ calls' = [calls EXCEPT ![c] = Settled(ph, calls[c].policy, t, s, e)]
    BY <1>6 DEF CatchTooSoon, Rethrow, Abandon, Throw, Resolve
  <2>3. /\ calls'[c].phase # "waiting"
        /\ \A d \in Calls : d # c => calls'[d] = calls[d]
    BY <1>1, <2>2 DEF Settled, TypeOK
  <2>4. QED BY <2>1, <2>3, LatestKept DEF RanFor
<1>7. ASSUME NEW c \in Calls, NEW plan \in Plans, Submit(c, plan) PROVE LatestInv'
  <2> DEFINE t0 == calls'[c].tx
  <2> HIDE DEF t0
  <2>1. /\ TxsKept
        /\ calls'[c].phase = "waiting" /\ calls'[c].tx = t0
        /\ txs'[t0].status = "flight"
        /\ \A t \in DOMAIN txs' : t # t0 => t \in DOMAIN txs /\ txs'[t] = txs[t]
        /\ \A d \in Calls : d # c => calls'[d] = calls[d]
    BY <1>1, <1>7, DispatchAppends DEF Submit, t0
  <2>2. UNCHANGED <<events, writeCache>> /\ calls[c].phase # "waiting" /\ ClientOf[c] \in Equipped
    BY <1>7 DEF Submit, Dispatch, NotShipped, chainVars
  <2>3. ASSUME NEW t \in DOMAIN txs', txs'[t].status = "Ok"
        PROVE  t \in DOMAIN txs /\ txs'[t] = txs[t]
    BY <2>1, <2>3
  <2>4. ASSUME NEW t \in DOMAIN txs, txs[t].status = "Ok"
        PROVE  t \in DOMAIN txs' /\ txs'[t] = txs[t]
    BY <2>1, <2>4 DEF TxsKept
  <2>5. ASSUME NEW d \in Calls, calls'[d].phase = "waiting" PROVE d = c
    BY <1>2, <1>3, <2>1, <2>2, <2>5
  <2>6. ASSUME NEW d \in Calls, NEW p \in Policies PROVE ~ RanFor(d, p)'
    BY <2>1, <2>5 DEF RanFor, StatusSeen
  <2>7. ASSUME NEW d \in Calls, NEW p \in Policies, ClientOf[d] \in Equipped
        PROVE  ~ RanFor(d, p)
    BY <1>2, <1>3, <2>2, <2>7 DEF RanFor
  <2>8. EventsPast'
    BY <2>2, <2>3 DEF LatestInv, EventsPast
  <2>9. AwaitedIsLatest'
    BY <2>6 DEF AwaitedIsLatest
  <2>10. CachedIsLatest'
    <3>1. ASSUME NEW d \in Calls, NEW p \in Policies, ClientOf[d] \in Equipped,
                 Hit(writeCache[ClientOf[d]][p])
          PROVE  Latest(writeCache[ClientOf[d]][p].lastTxSig, p)'
      <4>1. Latest(writeCache[ClientOf[d]][p].lastTxSig, p)
        BY <2>7, <3>1 DEF LatestInv, CachedIsLatest
      <4>2. txs'[writeCache[ClientOf[d]][p].lastTxSig] = txs[writeCache[ClientOf[d]][p].lastTxSig]
        BY <1>4, <2>4, <3>1 DEF IsExit
      <4>3. QED BY <2>2, <2>3, <4>1, <4>2 DEF Latest
    <3>2. QED BY <2>2, <3>1 DEF CachedIsLatest, Hit
  <2>11. QED BY <2>8, <2>9, <2>10 DEF LatestInv
<1>8. ASSUME NEW c \in Calls, Confirm(c) PROVE LatestInv'
  <2>1. UNCHANGED <<events, txs>> /\ RanFor(c, calls[c].policy)
    BY <1>8 DEF Confirm, RanFor, chainVars
  <2>2. /\ calls'[c].phase = "resolved"
        /\ \A d \in Calls : d # c => calls'[d] = calls[d]
    BY <1>1, <1>8 DEF Confirm, Resolve, Settled, TypeOK
  <2>3. /\ ClientOf[c] \in Clients /\ calls[c].policy \in Policies
        /\ NewEntry(c).lastTxSig = calls[c].tx
    BY <1>1, CallParts DEF NewEntry
  <2>4. \A p \in Policies : writeCache'[ClientOf[c]][p] =
          IF p = calls[c].policy THEN NewEntry(c) ELSE writeCache[ClientOf[c]][p]
    BY <1>1, <1>8, <2>3 DEF Confirm, TypeOK
  <2>5. ASSUME NEW d \in Calls, ClientOf[d] \in Equipped PROVE d = c
    BY <1>2, <1>3, <2>1, <2>5 DEF RanFor
  <2>6. ASSUME NEW d \in Calls, NEW p \in Policies PROVE ~ RanFor(d, p)'
    BY <1>3, <2>2, <2>5 DEF RanFor
  <2>7. Latest(calls[c].tx, calls[c].policy)
    BY <2>1, <2>3 DEF LatestInv, AwaitedIsLatest
  <2>8. EventsPast'
    BY <2>1 DEF LatestInv, EventsPast
  <2>9. AwaitedIsLatest'
    BY <2>6 DEF AwaitedIsLatest
  <2>10. CachedIsLatest'
    <3>1. ASSUME NEW d \in Calls, NEW p \in Policies, ClientOf[d] \in Equipped,
                 Hit(writeCache'[ClientOf[d]][p])
          PROVE  Latest(writeCache'[ClientOf[d]][p].lastTxSig, p)
      <4>1. d = c
        BY <2>5, <3>1
      <4>2. CASE p = calls[c].policy
        BY <2>3, <2>4, <2>7, <4>1, <4>2
      <4>3. CASE p # calls[c].policy
        <5>1. writeCache'[ClientOf[c]][p] = writeCache[ClientOf[c]][p] /\ ~ RanFor(c, p)
          BY <2>4, <4>3 DEF RanFor
        <5>2. QED BY <3>1, <4>1, <5>1 DEF LatestInv, CachedIsLatest
      <4>4. QED BY <4>2, <4>3
    <3>2. QED BY <2>1, <3>1 DEF CachedIsLatest, Hit, Latest
  <2>11. QED BY <2>8, <2>9, <2>10 DEF LatestInv
<1>9. ASSUME NEW t0 \in DOMAIN txs, Land(t0) \/ Drop(t0) PROVE LatestInv'
  <2>1. /\ DOMAIN txs' = DOMAIN txs
        /\ \A s \in DOMAIN txs : s # t0 => txs'[s] = txs[s]
        /\ txs'[t0].request = txs[t0].request
    BY <1>1, <1>9, LandKeeps DEF TxsKept
  <2>2. UNCHANGED <<calls, writeCache>> /\ txs[t0].status = "flight"
    BY <1>9 DEF Land, Drop
  <2>3. PICK c \in Calls : Awaits(c, t0)
    BY <2>2 DEF AloneInv, FlightIsAwaited
  <2>4. ASSUME NEW d \in Calls, ClientOf[d] \in Equipped PROVE d = c
    BY <1>2, <1>3, <2>3, <2>4 DEF Awaits
  <2>5. txs[t0].request.policy = calls[c].policy
    BY <1>1, <2>3 DEF SigInv, CallsHoldTheirTxs, Awaits
  <2>6. ASSUME NEW d \in Calls, NEW p \in Policies
        PROVE  /\ ~ RanFor(d, p)
               /\ RanFor(d, p)' => /\ d = c /\ p = calls[c].policy
                                   /\ txs'[t0].status = "Ok"
    BY <1>3, <2>2, <2>3, <2>4 DEF RanFor, StatusSeen, Awaits
  <2>7. ASSUME NEW t \in DOMAIN txs, txs'[t].status = "Ok", t # t0
        PROVE  txs[t].status = "Ok" /\ txs'[t] = txs[t] /\ txs[t].event <= Len(events)
    BY <2>1, <2>7 DEF LatestInv, EventsPast
  <2>8. Len(events) \in Nat /\ \A t \in DOMAIN txs : txs[t].event \in Nat
    BY <1>1, TxsTyped DEF TypeOK, Tx
  <2>9. EventsPast'
    <3>1. ASSUME NEW t \in DOMAIN txs, txs'[t].status = "Ok" PROVE txs'[t].event <= Len(events')
      <4>1. Len(events') >= Len(events) /\ Len(events') \in Nat
        BY <1>1, <1>9, <2>8, LandRuns
      <4>2. CASE t = t0
        BY <1>1, <1>9, <2>8, <3>1, <4>2, LandRuns
      <4>3. CASE t # t0
        BY <2>7, <2>8, <3>1, <4>1, <4>3
      <4>4. QED BY <4>2, <4>3
    <3>2. QED BY <2>1, <3>1 DEF EventsPast
  <2>10. AwaitedIsLatest'
    <3>1. ASSUME txs'[t0].status = "Ok", NEW t \in DOMAIN txs, txs'[t].status = "Ok"
          PROVE  txs'[t].event <= txs'[t0].event
      <4>1. txs'[t0].event = Len(events) + 1
        BY <1>1, <1>9, <3>1, LandRuns
      <4>2. QED BY <2>7, <2>8, <3>1, <4>1
    <3>2. ASSUME NEW d \in Calls, NEW p \in Policies, RanFor(d, p)'
          PROVE  Latest(calls[d].tx, p)'
      <4>1. calls'[d].tx = t0 /\ txs'[t0].status = "Ok"
        BY <2>2, <2>3, <2>6, <3>2 DEF Awaits
      <4>2. QED BY <2>1, <3>1, <4>1 DEF Latest
    <3>3. QED BY <3>2 DEF AwaitedIsLatest
  <2>11. CachedIsLatest'
    <3>1. ASSUME NEW d \in Calls, NEW p \in Policies, ClientOf[d] \in Equipped,
                 Hit(writeCache[ClientOf[d]][p]), ~ RanFor(d, p)'
          PROVE  Latest(writeCache[ClientOf[d]][p].lastTxSig, p)'
      <4> DEFINE s == writeCache[ClientOf[d]][p].lastTxSig
      <4>1. s \in DOMAIN txs /\ txs[s].status = "Ok"
        BY <1>4, <3>1 DEF IsExit
      <4>2. txs'[s] = txs[s]
        BY <2>1, <2>2, <4>1
      <4>3. Latest(s, p)
        BY <2>6, <3>1 DEF LatestInv, CachedIsLatest
      <4>4. ~ (txs'[t0].status = "Ok" /\ txs[t0].request.policy = p)
        <5>1. d = c
          BY <2>4, <3>1
        <5>2. QED BY <2>2, <2>3, <2>5, <3>1, <5>1 DEF RanFor, StatusSeen, Awaits
      <4>5. s' = s
        BY <2>2
      <4> HIDE DEF s
      <4>6. \A t \in DOMAIN txs' : txs'[t].status = "Ok" /\ txs'[t].request.policy = p
              => txs'[t].event <= txs'[s].event
        BY <2>1, <2>7, <4>2, <4>3, <4>4 DEF Latest
      <4>7. QED BY <4>5, <4>6 DEF Latest, s
    <3>2. QED BY <2>2, <3>1 DEF CachedIsLatest, Hit
  <2>12. QED BY <2>9, <2>10, <2>11 DEF LatestInv
<1>10. ASSUME UNCHANGED <<events, writeCache, calls, txs>> PROVE LatestInv'
  BY <1>10, LatestKept
<1>11. ASSUME Tick \/ ChainDrift \/ WallDrift \/ UNCHANGED vars PROVE LatestInv'
  BY <1>10, <1>11 DEF Tick, ChainDrift, WallDrift, vars, chainVars, Chain!Tick
<1>12. \A cl \in Clients : ~ Restart(cl)
  BY DEF AnswersArrive, Restart
<1>13. QED BY <1>5, <1>6, <1>7, <1>8, <1>9, <1>11, <1>12 DEF Next, Start, Settle

(* What a step of such a client resolves is the latest exit.               *)
LEMMA StepResolvesLatest ==
  ASSUME IInv, AloneInv, LatestInv, [Next]_vars,
         NEW c \in Calls, calls'[c] # calls[c], calls'[c].phase = "resolved"
  PROVE  Latest(calls[c].sig, calls[c].policy)'
<1>1. TypeOK
  BY DEF IInv
<1>2. ASSUME NEW d \in Calls, NEW e, calls' = [calls EXCEPT ![d] = e]
      PROVE  d = c /\ calls'[c] = e
  BY <1>1, <1>2 DEF TypeOK
<1>3. ASSUME NEW d \in Calls, NEW plan \in Plans, Shortcut(d, plan)
      PROVE  Latest(calls[c].sig, calls[c].policy)'
  <2> DEFINE e == writeCache[ClientOf[c]][plan.policy]
  <2>1. calls' = [calls EXCEPT ![d] =
          Settled("resolved", plan.policy, 0, CachedWrite(d, plan).lastTxSig, "none")]
    BY <1>3 DEF Shortcut, Resolve
  <2>2. d = c /\ calls'[c].sig = e.lastTxSig /\ calls'[c].policy = plan.policy
    BY <1>2, <2>1 DEF Settled, CachedWrite
  <2>3. /\ Hit(e) /\ ClientOf[c] \in Equipped /\ UNCHANGED txs
        /\ ~ RanFor(c, plan.policy) /\ plan.policy \in Policies
    BY <1>3, <2>2, CallsAssumption
       DEF Shortcut, NotShipped, Fresh, CachedWrite, RanFor, Plan
  <2>4. Latest(e.lastTxSig, plan.policy)
    BY <2>3 DEF LatestInv, CachedIsLatest
  <2>5. QED BY <2>2, <2>3, <2>4 DEF Latest
<1>4. ASSUME NEW d \in Calls, Confirm(d) PROVE Latest(calls[c].sig, calls[c].policy)'
  <2>1. calls' = [calls EXCEPT ![d] = Settled("resolved", calls[d].policy, 0, calls[d].tx, "none")]
    BY <1>4 DEF Confirm, Resolve
  <2>2. d = c /\ calls'[c].sig = calls[c].tx /\ calls'[c].policy = calls[c].policy
    BY <1>2, <2>1 DEF Settled
  <2>3. UNCHANGED txs /\ RanFor(c, calls[c].policy) /\ calls[c].policy \in Policies
    BY <1>1, <1>4, <2>2, CallParts DEF Confirm, RanFor
  <2>4. Latest(calls[c].tx, calls[c].policy)
    BY <2>3 DEF LatestInv, AwaitedIsLatest
  <2>5. QED BY <2>2, <2>3, <2>4 DEF Latest
<1>5. ASSUME NEW d \in Calls, CatchTooSoon(d) PROVE Latest(calls[c].sig, calls[c].policy)'
  <2> DEFINE e == writeCache[ClientOf[c]][calls[c].policy]
  <2>1. calls' = [calls EXCEPT ![d] =
          Settled("resolved", calls[d].policy, 0, calls[d].cachedWrite.lastTxSig, "none")]
    BY <1>5 DEF CatchTooSoon, Resolve
  <2>2. d = c /\ calls'[c].sig = calls[c].cachedWrite.lastTxSig
        /\ calls'[c].policy = calls[c].policy
    BY <1>2, <2>1 DEF Settled
  <2>3. /\ UNCHANGED txs /\ Hit(calls[c].cachedWrite) /\ calls[c].phase = "waiting"
        /\ ~ RanFor(c, calls[c].policy) /\ calls[c].policy \in Policies
    BY <1>1, <1>5, <2>2, CallParts DEF CatchTooSoon, RanFor
  <2>4. calls[c].cachedWrite = e /\ ClientOf[c] \in Equipped
    BY <2>3 DEF AloneInv, RefusalIsCaught, CallersEquipped
  <2>5. Latest(e.lastTxSig, calls[c].policy)
    BY <2>3, <2>4 DEF LatestInv, CachedIsLatest
  <2>6. QED BY <2>2, <2>3, <2>4, <2>5 DEF Latest
<1>6. ASSUME NEW d \in Calls, NEW plan \in Plans, RefuseLocally(d, plan) PROVE FALSE
  <2>1. calls' = [calls EXCEPT ![d] = Settled("rejected", plan.policy, 0, 0, "NotImplemented")]
    BY <1>6 DEF RefuseLocally, Throw
  <2>2. QED BY <1>2, <2>1 DEF Settled
<1>7. ASSUME NEW d \in Calls, NEW plan \in Plans, Submit(d, plan) PROVE FALSE
  BY <1>1, <1>7, DispatchAppends DEF Submit
<1>8. ASSUME NEW d \in Calls, Rethrow(d) \/ Abandon(d) PROVE FALSE
  <2>1. PICK e : calls' = [calls EXCEPT ![d] = Settled("rejected", calls[d].policy, calls[d].tx, 0, e)]
    BY <1>8 DEF Rethrow, Abandon, Throw
  <2>2. QED BY <1>2, <2>1 DEF Settled
<1>9. ASSUME NEW cl \in Clients, Restart(cl) PROVE FALSE
  BY <1>9 DEF Restart, Settled
<1>10. ASSUME \/ \E t \in DOMAIN txs : Land(t) \/ Drop(t)
              \/ Tick \/ ChainDrift \/ WallDrift \/ UNCHANGED vars
       PROVE  FALSE
  BY <1>10 DEF Land, Drop, Tick, ChainDrift, WallDrift, vars
<1>11. QED BY <1>3, <1>4, <1>5, <1>6, <1>7, <1>8, <1>9, <1>10 DEF Next, Start, Settle

(* Nothing has run at the start.                                           *)
LEMMA InitLatest == Init => LatestInv
<1> SUFFICES ASSUME Init PROVE LatestInv
  OBVIOUS
<1>1. DOMAIN txs = {} /\ \A c \in Calls : calls[c].phase = "idle"
  BY DEF Init, Settled
<1>2. QED
  BY <1>1 DEF LatestInv, EventsPast, AwaitedIsLatest, CachedIsLatest, RanFor, Latest

(* FR-8b where it is sound: a client that is alone with its policies       *)
(* resolves every call with the most recent exit of the plan's policy,     *)
(* whether the chain confirmed, the cache answered or the catch clause     *)
(* did, for any two windows and any two clocks.                            *)
THEOREM AloneResolvesLatest ==
  ASSUME OneCaller, AnswersArrive, SizesValid
  PROVE  Spec => ResolvesWithLatest
<1>1. IInv /\ AloneInv /\ [Next]_vars => AloneInv'
  BY AlonePreserved
<1>2. IInv /\ AloneInv /\ LatestInv /\ [Next]_vars => LatestInv'
  BY LatestPreserved
<1>3. IInv /\ AloneInv /\ LatestInv /\ [Next]_vars =>
        [\A c \in Calls :
           calls'[c] # calls[c] /\ calls'[c].phase = "resolved" =>
             \A t \in DOMAIN txs' :
               txs'[t].status = "Ok" /\ txs'[t].request.policy = calls'[c].policy
                 => txs'[t].event <= txs'[calls'[c].sig].event]_vars
  BY StepResolvesLatest DEF Latest
<1>4. QED
  BY <1>1, <1>2, <1>3, InitAlone, InitLatest, Invariance, PTL DEF Spec, ResolvesWithLatest
=============================================================================
