--------------------------- MODULE RebalanceClient ---------------------------
(***************************************************************************)
(* RealClient.executePrivateRebalance over the on-chain program: client    *)
(* instances that each keep a write cache, calls that overlap because      *)
(* every await lets another one run, and a network between client and      *)
(* chain that may lose a transaction or lose its answer.  The chain is     *)
(* SwigDelegation; this module adds what happens on the way to it.         *)
(*                                                                         *)
(* A call is synchronous up to .rpc() and again from the moment .rpc()     *)
(* settles, so it is two steps; between them its transaction is in flight. *)
(***************************************************************************)
EXTENDS Integers, Sequences, FiniteSets

CONSTANTS
  Policies,
  Clients,        \* RealClient instances, each with a wallet that signs
  Calls,          \* concurrent invocations of executePrivateRebalance
  ClientOf,       \* the client a call is made on
  Equipped,       \* clients constructed with the swig_delegation IDL
  Plans,          \* the RebalancePlans callers pass, a subset of Plan
  RateLimit,      \* the chain's window
  WriteThrottle,  \* writeThrottleMs, the client's window
  StartTime,
  Faults,         \* what may go wrong, a subset of Fault
  MaxTime,        \* bound on both clocks
  MaxTxs          \* bound on the transactions submitted

Plan == [policy : Policies, action : {"EXIT", "REDUCE", "HEDGE"}, sizeBps : Nat]

(* timeout: .rpc() fails for a reason of its own, whatever became of the   *)
(*   transaction.  drop: a transaction never lands.  restart: the process  *)
(*   of a client dies and a new one starts.  skew: the chain's clock and   *)
(*   Date.now() advance independently.                                     *)
Fault == {"timeout", "drop", "restart", "skew"}

ASSUME CallsAssumption ==
  /\ ClientOf \in [Calls -> Clients]
  /\ Plans \subseteq Plan
  /\ Faults \subseteq Fault
  /\ WriteThrottle \in Nat
  /\ MaxTxs \in Nat
  /\ Policies # {}

(* What the program assumes of its window and of its clock, which starts   *)
(* together with the client's.                                             *)
ASSUME ChainAssumption ==
  /\ RateLimit \in Nat \ {0}
  /\ StartTime \in Nat \ {0}
  /\ MaxTime \in Nat

VARIABLES
  clock, initialized, lastRebalanced, events,   \* the chain
  wall,         \* Date.now(), in the unit of the chain's clock
  writeCache,   \* per client and policy the last success, or NoEntry
  calls,        \* the invocations
  txs           \* transactions submitted so far; a signature is an index

chainVars == <<clock, initialized, lastRebalanced, events>>
vars == <<clock, initialized, lastRebalanced, events, wall, writeCache, calls, txs>>

-----------------------------------------------------------------------------
(* V1 demo numbers: every exit carries the same quote, whatever the plan.  *)
RequestOf(cl, plan) ==
  [policy |-> plan.policy, guardian |-> cl, action |-> "exit", sizeBps |-> plan.sizeBps,
   maxSlippageBps |-> 100, expectedOut |-> 1000, minOut |-> 995]

Submittable == {RequestOf(cl, plan) : cl \in Clients, plan \in Plans}

Chain == INSTANCE SwigDelegation WITH Guardians <- Clients, Requests <- Submittable

(* {lastTxSig, lastExecutedAt}; no transaction has signature 0.            *)
Entry == [lastTxSig : Nat, lastExecutedAt : Nat]
NoEntry == [lastTxSig |-> 0, lastExecutedAt |-> 0]
Hit(e) == e.lastTxSig # 0
Fresh(e) == Hit(e) /\ wall - e.lastExecutedAt < WriteThrottle

Error == {"none", "NotImplemented", "SlippageRejected", "OnchainRejection"}
TxStatus == {"flight", "dropped", "Ok", "RebalanceTooSoon", "NotImplemented",
             "InvalidSize", "Aborted", "SlippageTooHigh"}

Call == [phase : {"idle", "waiting", "resolved", "rejected"}, policy : Policies,
         tx : Nat, cachedWrite : Entry, sig : Nat, error : Error]
Tx == [request : Submittable, status : TxStatus, event : Nat]

Settled(phase, p, t, s, e) ==
  [phase |-> phase, policy |-> p, tx |-> t, cachedWrite |-> NoEntry, sig |-> s, error |-> e]

Resolve(c, p, s) == calls' = [calls EXCEPT ![c] = Settled("resolved", p, 0, s, "none")]
Throw(c, p, t, e) == calls' = [calls EXCEPT ![c] = Settled("rejected", p, t, 0, e)]

Init ==
  /\ Chain!Init
  /\ wall = StartTime
  /\ writeCache = [cl \in Clients |-> [p \in Policies |-> NoEntry]]
  /\ calls = [c \in Calls |-> Settled("idle", CHOOSE p \in Policies : TRUE, 0, 0, "none")]
  /\ txs = <<>>

-----------------------------------------------------------------------------
(* From the call to its first await.                                       *)

NotShipped(c, plan) ==
  plan.action \in {"REDUCE", "HEDGE"} \/ ClientOf[c] \notin Equipped

CachedWrite_AnyPolicy(c, plan) ==
  LET hits == {p \in Policies : Hit(writeCache[ClientOf[c]][p])} IN
  IF hits = {} THEN NoEntry ELSE writeCache[ClientOf[c]][CHOOSE p \in hits : TRUE]

CachedWrite(c, plan) == writeCache[ClientOf[c]][plan.policy]

RefuseLocally(c, plan) ==
  /\ calls[c].phase # "waiting"
  /\ NotShipped(c, plan)
  /\ Throw(c, plan.policy, 0, "NotImplemented")
  /\ UNCHANGED <<chainVars, wall, writeCache, txs>>

Shortcut(c, plan) ==
  /\ calls[c].phase # "waiting"
  /\ ~ NotShipped(c, plan)
  /\ Fresh(CachedWrite(c, plan))
  /\ Resolve(c, plan.policy, CachedWrite(c, plan).lastTxSig)
  /\ UNCHANGED <<chainVars, wall, writeCache, txs>>

(* The cache entry read here, stale or missing, is what the catch clause   *)
(* uses when the answer arrives.                                           *)
Dispatch(c, plan) ==
  /\ calls[c].phase # "waiting"
  /\ ~ NotShipped(c, plan)
  /\ ~ Fresh(CachedWrite(c, plan))
  /\ Len(txs) < MaxTxs
  /\ txs' = Append(txs, [request |-> RequestOf(ClientOf[c], plan),
                         status |-> "flight", event |-> 0])
  /\ calls' = [calls EXCEPT ![c] =
       [phase |-> "waiting", policy |-> plan.policy, tx |-> Len(txs) + 1,
        cachedWrite |-> CachedWrite(c, plan), sig |-> 0, error |-> "none"]]

Submit_CachesFirst(c, plan) ==
  /\ Dispatch(c, plan)
  /\ writeCache' = [writeCache EXCEPT ![ClientOf[c]][plan.policy] =
                      [lastTxSig |-> Len(txs) + 1, lastExecutedAt |-> wall]]
  /\ UNCHANGED <<chainVars, wall>>

Submit(c, plan) ==
  /\ Dispatch(c, plan)
  /\ UNCHANGED <<chainVars, wall, writeCache>>

-----------------------------------------------------------------------------
(* The transaction.  It lands even when nobody waits for it any more.      *)

Land(t) ==
  /\ txs[t].status = "flight"
  /\ \/ /\ Chain!Execute(txs[t].request)
        /\ txs' = [txs EXCEPT ![t].status = "Ok", ![t].event = Len(events) + 1]
     \/ /\ Chain!Refuse(txs[t].request)
        /\ txs' = [txs EXCEPT ![t].status = Chain!Outcome(txs[t].request)]
  /\ UNCHANGED <<wall, writeCache, calls>>

Drop(t) ==
  /\ "drop" \in Faults
  /\ txs[t].status = "flight"
  /\ txs' = [txs EXCEPT ![t].status = "dropped"]
  /\ UNCHANGED <<chainVars, wall, writeCache, calls>>

-----------------------------------------------------------------------------
(* From the moment .rpc() settles to the end of the call.                  *)

StatusSeen(c) == txs[calls[c].tx].status

Remembered(c) == writeCache[ClientOf[c]][calls[c].policy]

NewEntry_Forgotten(c) == Remembered(c)
NewEntry_KeepsFirst(c) ==
  IF Hit(Remembered(c)) THEN Remembered(c)
  ELSE [lastTxSig |-> calls[c].tx, lastExecutedAt |-> wall]

(* The entry is dated when the confirmation arrives, not when the exit     *)
(* ran, and replaces whatever another call stored in the meantime.         *)
NewEntry(c) == [lastTxSig |-> calls[c].tx, lastExecutedAt |-> wall]

Confirm(c) ==
  /\ calls[c].phase = "waiting"
  /\ StatusSeen(c) = "Ok"
  /\ writeCache' = [writeCache EXCEPT ![ClientOf[c]][calls[c].policy] = NewEntry(c)]
  /\ Resolve(c, calls[c].policy, calls[c].tx)
  /\ UNCHANGED <<chainVars, wall, txs>>

ErrorOf_Raw(status) == status

ErrorOf(status) ==
  CASE status = "SlippageTooHigh" -> "SlippageRejected"
    [] status = "NotImplemented"  -> "NotImplemented"
    [] OTHER                      -> "OnchainRejection"

CatchTooSoon_Restores(c) ==
  /\ calls[c].phase = "waiting"
  /\ StatusSeen(c) = "RebalanceTooSoon"
  /\ Hit(calls[c].cachedWrite)
  /\ writeCache' = [writeCache EXCEPT ![ClientOf[c]][calls[c].policy] =
                      [calls[c].cachedWrite EXCEPT !.lastExecutedAt = wall]]
  /\ Resolve(c, calls[c].policy, calls[c].cachedWrite.lastTxSig)
  /\ UNCHANGED <<chainVars, wall, txs>>

CatchTooSoon(c) ==
  /\ calls[c].phase = "waiting"
  /\ StatusSeen(c) = "RebalanceTooSoon"
  /\ Hit(calls[c].cachedWrite)
  /\ Resolve(c, calls[c].policy, calls[c].cachedWrite.lastTxSig)
  /\ UNCHANGED <<chainVars, wall, writeCache, txs>>

Rethrow(c) ==
  /\ calls[c].phase = "waiting"
  /\ StatusSeen(c) \notin {"flight", "dropped", "Ok"}
  /\ ~ (StatusSeen(c) = "RebalanceTooSoon" /\ Hit(calls[c].cachedWrite))
  /\ Throw(c, calls[c].policy, calls[c].tx, ErrorOf(StatusSeen(c)))
  /\ UNCHANGED <<chainVars, wall, writeCache, txs>>

Abandon_WaitsForever(c) ==
  /\ calls[c].phase = "waiting"
  /\ "timeout" \in Faults
  /\ Throw(c, calls[c].policy, calls[c].tx, "OnchainRejection")
  /\ UNCHANGED <<chainVars, wall, writeCache, txs>>

(* An error that is not the program's: the block hash expired, the         *)
(* connection broke, the logs could not be fetched.                        *)
Abandon(c) ==
  /\ calls[c].phase = "waiting"
  /\ "timeout" \in Faults \/ StatusSeen(c) = "dropped"
  /\ Throw(c, calls[c].policy, calls[c].tx, "OnchainRejection")
  /\ UNCHANGED <<chainVars, wall, writeCache, txs>>

Settle(c) == Confirm(c) \/ CatchTooSoon(c) \/ Rethrow(c) \/ Abandon(c)

-----------------------------------------------------------------------------
(* Caches clear on instantiation; the calls of the old process are gone,   *)
(* their transactions are not.                                             *)
Restart(cl) ==
  /\ "restart" \in Faults
  /\ writeCache' = [writeCache EXCEPT ![cl] = [p \in Policies |-> NoEntry]]
  /\ calls' = [c \in Calls |->
       IF ClientOf[c] = cl THEN Settled("idle", calls[c].policy, 0, 0, "none") ELSE calls[c]]
  /\ UNCHANGED <<chainVars, wall, txs>>

Tick ==
  /\ wall < MaxTime
  /\ Chain!Tick
  /\ wall' = wall + 1
  /\ UNCHANGED <<writeCache, calls, txs>>

ChainDrift ==
  /\ "skew" \in Faults
  /\ Chain!Tick
  /\ UNCHANGED <<wall, writeCache, calls, txs>>

WallDrift ==
  /\ "skew" \in Faults
  /\ wall < MaxTime
  /\ wall' = wall + 1
  /\ UNCHANGED <<chainVars, writeCache, calls, txs>>

Start(c) == \E plan \in Plans : RefuseLocally(c, plan) \/ Shortcut(c, plan) \/ Submit(c, plan)

Next ==
  \/ \E c \in Calls : Start(c) \/ Settle(c)
  \/ \E t \in DOMAIN txs : Land(t) \/ Drop(t)
  \/ \E cl \in Clients : Restart(cl)
  \/ Tick \/ ChainDrift \/ WallDrift

Spec == Init /\ [][Next]_vars

(* A transaction lands or expires with its block hash, and .rpc() comes    *)
(* back; nobody has to call, and nothing has to break.                     *)
Fairness ==
  /\ \A t \in 1 .. MaxTxs : WF_vars(t \in DOMAIN txs /\ (Land(t) \/ Drop(t)))
  /\ \A c \in Calls : WF_vars(Settle(c))

FairSpec == Spec /\ Fairness

-----------------------------------------------------------------------------
TypeOK ==
  /\ clock \in Nat /\ wall \in Nat
  /\ initialized \subseteq Policies
  /\ lastRebalanced \in [Policies -> Nat]
  /\ events \in Seq(Chain!Event)
  /\ writeCache \in [Clients -> [Policies -> Entry]]
  /\ calls \in [Calls -> Call]
  /\ txs \in Seq(Tx)

(* Whatever path a call took (confirmation, shortcut, catch clause) and    *)
(* whatever broke meanwhile, the signature it resolves with is that of an  *)
(* exit that really ran on the chain, for the policy of the plan.          *)
ResolvedSigIsAnExit ==
  \A c \in Calls : calls[c].phase = "resolved" =>
    /\ calls[c].sig \in DOMAIN txs
    /\ txs[calls[c].sig].status = "Ok"
    /\ txs[calls[c].sig].request.policy = calls[c].policy

(* A cache never holds a failed transaction, one of another policy or one  *)
(* another client signed, and is never dated in the future of Date.now().  *)
CacheHoldsOwnExits ==
  \A cl \in Clients, p \in Policies :
    LET e == writeCache[cl][p] IN
    Hit(e) => /\ e.lastTxSig \in DOMAIN txs
              /\ txs[e.lastTxSig].status = "Ok"
              /\ txs[e.lastTxSig].request.policy = p
              /\ txs[e.lastTxSig].request.guardian = cl
              /\ e.lastExecutedAt <= wall

(* "No double-swap": two exits of one policy are a window apart on the     *)
(* chain.  No client can break it, since the chain alone keeps it (see     *)
(* SwigDelegation): what is proved of a client starts from it.             *)
NoDoubleSwap == Chain!SpacedExecutions

(* FR-8b where it is sound: a client that is alone with its policies and   *)
(* has one call at a time never sees a call for an exit fail, unless the   *)
(* exit never reached the chain: not even when Date.now() runs ahead of    *)
(* the chain's clock and the chain still refuses what the cache lets pass, *)
(* nor in the call after one that was lost.                                *)
NeverRefused ==
  \A c \in Calls : calls[c].phase = "rejected" =>
    \/ calls[c].error = "NotImplemented"
    \/ calls[c].tx # 0 /\ txs[calls[c].tx].status = "dropped"

(* FR-8b: a call resolves with the most recent exit of its policy.         *)
ResolvesWithLatest ==
  [][\A c \in Calls :
       calls'[c] # calls[c] /\ calls'[c].phase = "resolved" =>
         \A t \in DOMAIN txs' :
           txs'[t].status = "Ok" /\ txs'[t].request.policy = calls'[c].policy
             => txs'[t].event <= txs'[calls'[c].sig].event]_vars

(* Every call comes to an end, even when its transaction never lands.      *)
EveryCallSettles ==
  \A c \in Calls : calls[c].phase = "waiting" ~> calls[c].phase # "waiting"
=============================================================================
