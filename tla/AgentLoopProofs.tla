--------------------------- MODULE AgentLoopProofs ---------------------------
(***************************************************************************)
(* The agent process for any period, jitter, windows, latency, drift curve *)
(* and number of handlers.  The process is a RebalanceClient with one      *)
(* client and one plan (ImplementsClient): what is proved there of any     *)
(* client holds of its.  The rest is arithmetic on times: how old a cached *)
(* verdict can be when a tick finds it, how long after a breach the chain  *)
(* can be without an exit, how far a confirmation can be overtaken; and an *)
(* account of every transaction, which tells why a handler can fail.       *)
(***************************************************************************)
EXTENDS AgentLoop, TLAPS

ClientProofs == INSTANCE RebalanceClientProofs WITH
  Policies <- {Position}, Clients <- {Process}, Calls <- Handlers, Equipped <- {Process},
  ClientOf <- [h \in Handlers |-> Process], Plans <- {ExitPlan}

Anchor == lastRebalanced[Position]
Cached == writeCache[Process][Position]
StatusOf(h) == txs[calls[h].tx].status

-----------------------------------------------------------------------------
(* The invariants.                                                         *)

(* What AgentLoop adds to its client is typed, and its times are past.     *)
LoopTyped ==
  /\ alive \in BOOLEAN
  /\ tick \in Nat /\ lastFire \in 0 .. wall
  /\ readCache \in [at : 0 .. wall, breached : BOOLEAN]
  /\ startedAt \in [Handlers -> 0 .. wall] /\ alone \in [Handlers -> BOOLEAN]
  /\ lag \in Nat /\ breachedSince \in 0 .. wall
  /\ unanswered \subseteq DOMAIN txs /\ failedAt \in 0 .. wall

(* A verdict that was right says whether the last tick was breached; one   *)
(* that was wrong says the opposite, and was a tick old when it was given. *)
VerdictSound ==
  /\ readCache.at <= lastFire /\ breachedSince <= lastFire
  /\ lag = 0 => (breachedSince # 0 <=> readCache.breached)
  /\ lag # 0 =>
       /\ lag = 1
       /\ readCache.at # 0 /\ readCache.at + TickMs - Jitter <= lastFire
       /\ breachedSince # 0 <=> ~ readCache.breached
       /\ breachedSince # 0 => breachedSince = lastFire

(* Nothing is late: one clock, the timer on time, answers within bounds.   *)
TimesKept ==
  /\ clock = wall /\ wall # 0
  /\ wall <= lastFire + TickMs + Jitter
  /\ \A h \in Handlers : InFlight(h) => wall <= startedAt[h] + MaxLatency

(* The process submits valid exits: each runs, is refused as too early or  *)
(* never lands.                                                            *)
TxsValid ==
  \A t \in DOMAIN txs :
    txs[t].status \in {"flight", "dropped", "Ok", "RebalanceTooSoon"}

(* What is known of the last exit: the chain's anchor is no older than a   *)
(* call that ran after it, nor than a cache entry by more than an answer.  *)
AnchorKnown ==
  /\ Anchor # 0 => Position \in initialized
  /\ \A h \in Handlers : InFlight(h) /\ StatusOf(h) = "Ok" =>
       Anchor # 0 /\ startedAt[h] <= Anchor
  /\ Client!Hit(Cached) => /\ Anchor # 0
                           /\ Cached.lastExecutedAt <= Anchor + MaxLatency
                           /\ Cached.lastExecutedAt <= wall

(* The Guardian's call at time x is covered by an exit, or not answered.   *)
Covered(x) == Anchor # 0 /\ x < Anchor + WriteThrottle + MaxLatency
Pending(x) ==
  \E h \in Handlers :
    InFlight(h) /\ startedAt[h] = x /\ StatusOf(h) \in {"flight", "dropped"}

(* While a breach lasts and the verdict knows it, no stretch of a period   *)
(* since the last call that was given up is without a call of the Guardian.*)
CallsFollowBreach ==
  breachedSince # 0 /\ lag = 0 =>
    \A z \in breachedSince .. lastFire : z > failedAt =>
      \E y \in z .. lastFire :
        y <= z + TickMs + Jitter /\ (Covered(y) \/ Pending(y))

(* A call that overlaps no other read what the cache still holds, and no   *)
(* transaction follows its own; refused, it has an exit before it.         *)
AloneSound ==
  \A h \in Handlers : InFlight(h) /\ alone[h] =>
    /\ \A k \in Handlers : InFlight(k) => k = h
    /\ calls[h].cachedWrite = Cached
    /\ \A s \in DOMAIN txs : s <= calls[h].tx
    /\ StatusOf(h) = "RebalanceTooSoon" => ExitsBefore(calls[h].tx) # {}

(* A transaction in flight was given up, or a handler waits for it; an     *)
(* exit that ran was given up, is waited for, or left a cache entry.       *)
Awaited(t) == \E h \in Handlers : InFlight(h) /\ calls[h].tx = t
Accounted ==
  \A t \in DOMAIN txs : txs[t].status \in {"flight", "Ok"} =>
    \/ t \in unanswered
    \/ Awaited(t)
    \/ txs[t].status = "Ok" /\ Client!Hit(Cached)

(* The chain's anchor is the stamp of a transaction of this process.       *)
ExitIsLogged == Anchor # 0 => \E t \in DOMAIN txs : txs[t].status = "Ok"

(* Whoever fails alone and with an answer had exits before it, and was     *)
(* never told of any, nor of any that may still run.                       *)
RejectedSound ==
  \A h \in Handlers :
    calls[h].phase = "rejected" /\ alone[h] /\ calls[h].tx \notin unanswered =>
      /\ calls[h].tx \in DOMAIN txs
      /\ ExitsBefore(calls[h].tx) # {}
      /\ \A s \in DOMAIN txs :
           s < calls[h].tx /\ txs[s].status \in {"flight", "Ok"} => s \in unanswered

FailureInv == AloneSound /\ Accounted /\ ExitIsLogged /\ RejectedSound

IInv ==
  /\ LoopTyped
  /\ VerdictSound
  /\ TimesKept
  /\ TxsValid
  /\ AnchorKnown
  /\ CallsFollowBreach
  /\ FailureInv

(* What the loop uses of its client: types, and that a call that waits     *)
(* has a transaction.                                                      *)
ClientKnown ==
  /\ clock \in Nat /\ wall \in Nat
  /\ lastRebalanced \in [{Position} -> Nat]
  /\ writeCache \in [{Process} -> [{Position} -> Client!Entry]]
  /\ calls \in [Handlers -> Client!Call]
  /\ txs \in Seq(Client!Tx) /\ events \in Seq(Client!Chain!Event)
  /\ \A h \in Handlers : InFlight(h) => calls[h].tx \in DOMAIN txs

(* The latest exit of the process, in terms of events: an exit a handler   *)
(* waits for ran after its call began, and all of them are past.           *)
EventsSound ==
  /\ \A i \in DOMAIN events : events[i].policy = Position /\ events[i].ts <= clock
  /\ \A t \in DOMAIN txs : txs[t].status = "Ok" => txs[t].event \in DOMAIN events
  /\ \A h \in Handlers : InFlight(h) /\ StatusOf(h) = "Ok" =>
       startedAt[h] <= events[txs[calls[h].tx].event].ts
CachedSound ==
  Client!Hit(Cached) =>
    Cached.lastTxSig \in DOMAIN txs /\ txs[Cached.lastTxSig].status = "Ok"
NotAfterCached(t) == Client!Hit(Cached) /\ txs[t].event <= txs[Cached.lastTxSig].event
LatestInv ==
  /\ EventsSound
  /\ CachedSound
  /\ MaxLatency < RateLimit => \A t \in DOMAIN txs : Answered(t) => NotAfterCached(t)

-----------------------------------------------------------------------------
(* The process is a client.                                                *)

(* The instance whose theorems are proved is the instance that runs: the   *)
(* same operators over the chain ...                                       *)
LEMMA SameOutcomes ==
  ASSUME NEW r
  PROVE  /\ Client!Chain!Outcome(r) = ClientProofs!Chain!Outcome(r)
         /\ Client!Chain!Execute(r) <=> ClientProofs!Chain!Execute(r)
         /\ Client!Chain!Refuse(r) <=> ClientProofs!Chain!Refuse(r)
<1>1. Client!Chain!Outcome(r) = ClientProofs!Chain!Outcome(r)
  BY DEF Client!Chain!Outcome, ClientProofs!Chain!Outcome, Client!Chain!TooSoon,
     ClientProofs!Chain!TooSoon, Client!Chain!ToleranceUnderflows,
     ClientProofs!Chain!ToleranceUnderflows, Client!Chain!SlippageGate,
     ClientProofs!Chain!SlippageGate, Client!Chain!BPS, ClientProofs!Chain!BPS
<1>2. QED
  BY <1>1 DEF Client!Chain!Execute, ClientProofs!Chain!Execute, Client!Chain!Refuse,
     ClientProofs!Chain!Refuse, Client!Chain!EventOf, ClientProofs!Chain!EventOf,
     Client!Chain!vars, ClientProofs!Chain!vars

(* ... and the same actions of the calls.                                  *)
LEMMA SameCalls ==
  ASSUME NEW h \in Handlers
  PROVE  /\ Client!Shortcut(h, ExitPlan) <=> ClientProofs!Shortcut(h, ExitPlan)
         /\ Client!Submit(h, ExitPlan) <=> ClientProofs!Submit(h, ExitPlan)
         /\ Client!Confirm(h) <=> ClientProofs!Confirm(h)
         /\ Client!CatchTooSoon(h) <=> ClientProofs!CatchTooSoon(h)
         /\ Client!Rethrow(h) <=> ClientProofs!Rethrow(h)
         /\ Client!Abandon(h) <=> ClientProofs!Abandon(h)
<1> USE DEF Client!CachedWrite, ClientProofs!CachedWrite, Client!Hit, ClientProofs!Hit,
     Client!Resolve, ClientProofs!Resolve, Client!Throw, ClientProofs!Throw,
     Client!Settled, ClientProofs!Settled, Client!NoEntry, ClientProofs!NoEntry,
     Client!chainVars, ClientProofs!chainVars, Client!StatusSeen, ClientProofs!StatusSeen
<1>1. Client!Shortcut(h, ExitPlan) <=> ClientProofs!Shortcut(h, ExitPlan)
  BY DEF Client!Shortcut, ClientProofs!Shortcut, Client!NotShipped, ClientProofs!NotShipped,
     Client!Fresh, ClientProofs!Fresh
<1>2. Client!Dispatch(h, ExitPlan) <=> ClientProofs!Dispatch(h, ExitPlan)
  BY DEF Client!Dispatch, ClientProofs!Dispatch, Client!NotShipped, ClientProofs!NotShipped,
     Client!Fresh, ClientProofs!Fresh, Client!RequestOf, ClientProofs!RequestOf
<1>3. Client!Submit(h, ExitPlan) <=> ClientProofs!Submit(h, ExitPlan)
  BY <1>2 DEF Client!Submit, ClientProofs!Submit
<1>4. Client!Confirm(h) <=> ClientProofs!Confirm(h)
  BY DEF Client!Confirm, ClientProofs!Confirm, Client!NewEntry, ClientProofs!NewEntry
<1>5. Client!CatchTooSoon(h) <=> ClientProofs!CatchTooSoon(h)
  BY DEF Client!CatchTooSoon, ClientProofs!CatchTooSoon
<1>6. Client!Rethrow(h) <=> ClientProofs!Rethrow(h)
  BY DEF Client!Rethrow, ClientProofs!Rethrow, Client!ErrorOf, ClientProofs!ErrorOf
<1>7. Client!Abandon(h) <=> ClientProofs!Abandon(h)
  BY DEF Client!Abandon, ClientProofs!Abandon
<1>8. QED BY <1>1, <1>3, <1>4, <1>5, <1>6, <1>7

(* Each step of the loop is one of its client, or none.                    *)
LEMMA StepOfClient ==
  ASSUME [Next]_vars
  PROVE  /\ [Client!Next]_(Client!vars)
         /\ [ClientProofs!Next]_(ClientProofs!vars)
<1> DEFINE Steps == Client!Next /\ ClientProofs!Next
<1>1. ASSUME NEW h \in Handlers,
             \/ Client!Shortcut(h, ExitPlan) \/ Client!Submit(h, ExitPlan)
             \/ Client!Confirm(h) \/ Client!CatchTooSoon(h)
             \/ Client!Rethrow(h) \/ Client!Abandon(h)
      PROVE  Steps
  <2>1. Client!Start(h) \/ Client!Settle(h)
    BY <1>1 DEF Client!Start, Client!Settle
  <2>2. ClientProofs!Start(h) \/ ClientProofs!Settle(h)
    BY <1>1, SameCalls DEF ClientProofs!Start, ClientProofs!Settle
  <2>3. QED BY <2>1, <2>2 DEF Client!Next, ClientProofs!Next
<1>2. ASSUME Fire PROVE Steps \/ UNCHANGED clientVars
  BY <1>1, <1>2 DEF Fire, Execute
<1>3. ASSUME NEW h \in Handlers, Finish(h) \/ Fail(h) PROVE Steps
  BY <1>1, <1>3 DEF Finish, Fail, Refused, GivenUp
<1>4. ASSUME NEW t \in DOMAIN txs, Land(t) PROVE Steps
  <2>1. Client!Land(t) \/ Client!Drop(t)
    BY <1>4 DEF Land
  <2>2. Client!Land(t) => ClientProofs!Land(t)
    BY SameOutcomes DEF Client!Land, ClientProofs!Land
  <2>3. Client!Drop(t) => ClientProofs!Drop(t)
    BY DEF Client!Drop, ClientProofs!Drop, Client!chainVars, ClientProofs!chainVars
  <2>4. QED BY <2>1, <2>2, <2>3 DEF Client!Next, ClientProofs!Next
<1>5. ASSUME Advance PROVE Steps
  <2>1. Client!Tick
    BY <1>5 DEF Advance
  <2>2. ClientProofs!Tick
    BY <2>1 DEF Client!Tick, ClientProofs!Tick, Client!Chain!Tick, ClientProofs!Chain!Tick
  <2>3. QED BY <2>1, <2>2 DEF Client!Next, ClientProofs!Next
<1>6. UNCHANGED vars => UNCHANGED clientVars
  BY DEF vars
<1>7. UNCHANGED clientVars => UNCHANGED Client!vars /\ UNCHANGED ClientProofs!vars
  BY DEF clientVars, Client!vars, ClientProofs!vars
<1>8. QED BY <1>2, <1>3, <1>4, <1>5, <1>6, <1>7 DEF Next

(* The loop starts as its client does.                                     *)
LEMMA InitOfClient == Init => Client!Init /\ ClientProofs!Init
BY DEF Init, Client!Init, ClientProofs!Init, Client!Chain!Init, ClientProofs!Chain!Init,
   Client!NoEntry, ClientProofs!NoEntry, Client!Settled, ClientProofs!Settled

(* agents/src/run.ts drives a RealClient: whatever the timer, the handlers *)
(* and the drift curve do, the client and its chain behave as those of     *)
(* RebalanceClient with one client, one plan and a network that may lose   *)
(* transactions and answers.                                               *)
THEOREM ImplementsClient == Spec => Client!Spec
BY InitOfClient, StepOfClient, PTL DEF Spec, Client!Spec

(* The same, in the words of the client's own theorems.                    *)
LEMMA ImplementsProvedClient == Spec => ClientProofs!Spec
BY InitOfClient, StepOfClient, PTL DEF Spec, ClientProofs!Spec

(* What the client's theorems assume, from this module's assumptions.      *)
LEMMA CallsAssumed ==
  /\ [h \in Handlers |-> Process] \in [Handlers -> {Process}]
  /\ {ExitPlan} \subseteq ClientProofs!Plan
  /\ Faults \subseteq ClientProofs!Fault
  /\ WriteThrottle \in Nat
  /\ MaxTxs \in Nat
  /\ {Position} # {}
BY ClientAssumption, FaultsAssumption DEF ExitPlan, ClientProofs!Plan, ClientProofs!Fault

(* And what the program's do.                                              *)
LEMMA ChainAssumed ==
  /\ RateLimit \in Nat \ {0}
  /\ StartTime \in Nat \ {0}
  /\ MaxTime \in Nat
BY ClientAssumption

(* The client's inductive invariant, in the loop's words.                  *)
LEMMA ClientIsKnown == Spec => []ClientKnown
<1>1. ClientProofs!Spec => []ClientProofs!IInv
  BY CallsAssumed, ChainAssumed, ClientProofs!Invariance
<1>2. ClientProofs!IInv => ClientKnown
  <2> SUFFICES ASSUME ClientProofs!IInv PROVE ClientKnown
    OBVIOUS
  <2>1. ClientProofs!TypeOK /\ ClientProofs!CallsHoldTheirTxs
    BY DEF ClientProofs!IInv, ClientProofs!SigInv
  <2>2. /\ Client!Entry = ClientProofs!Entry /\ Client!Call = ClientProofs!Call
        /\ Client!Tx = ClientProofs!Tx /\ Client!Chain!Event = ClientProofs!Chain!Event
    BY DEF Client!Entry, ClientProofs!Entry, Client!Call, ClientProofs!Call, Client!Tx,
       ClientProofs!Tx, Client!Error, ClientProofs!Error, Client!TxStatus,
       ClientProofs!TxStatus, Client!Submittable, ClientProofs!Submittable,
       Client!RequestOf, ClientProofs!RequestOf, Client!Chain!Event, ClientProofs!Chain!Event,
       Client!Chain!RebalanceAction, ClientProofs!Chain!RebalanceAction
  <2>3. \A h \in Handlers : InFlight(h) => calls[h].tx \in DOMAIN txs
    BY <2>1 DEF ClientProofs!CallsHoldTheirTxs, InFlight
  <2>4. QED BY <2>1, <2>2, <2>3 DEF ClientProofs!TypeOK, ClientKnown
<1>3. QED BY <1>1, <1>2, ImplementsProvedClient, PTL

-----------------------------------------------------------------------------
(* What each action does, in the loop's words.                             *)

(* A call starts: the handler was not waiting, and the others still do     *)
(* what they did.                                                          *)
OthersKept(h) == \A k \in Handlers : k # h => calls'[k] = calls[k]
ChainKept == UNCHANGED <<clock, initialized, lastRebalanced, events, wall>>

(* The cache answers the Guardian: the last exit it knows of is recent.    *)
LEMMA ShortcutEffect ==
  ASSUME ClientKnown, NEW h \in Handlers, Client!Shortcut(h, ExitPlan)
  PROVE  /\ ~ InFlight(h) /\ calls'[h].phase = "resolved" /\ OthersKept(h)
         /\ ChainKept /\ UNCHANGED <<writeCache, txs>>
         /\ Client!Hit(Cached) /\ wall - Cached.lastExecutedAt < WriteThrottle
<1>1. ExitPlan.policy = Position
  BY DEF ExitPlan
<1>2. calls' = [calls EXCEPT ![h] =
        Client!Settled("resolved", Position, 0, Client!CachedWrite(h, ExitPlan).lastTxSig, "none")]
  BY <1>1 DEF Client!Shortcut, Client!Resolve
<1>3. calls'[h].phase = "resolved" /\ OthersKept(h)
  BY <1>2 DEF ClientKnown, Client!Settled, OthersKept
<1>4. Client!CachedWrite(h, ExitPlan) = Cached
  BY <1>1 DEF Client!CachedWrite, Cached
<1>5. QED BY <1>3, <1>4 DEF Client!Shortcut, Client!Fresh, InFlight, ChainKept, Client!chainVars

(* The Guardian's call submits an exit and waits.                          *)
LEMMA SubmitEffect ==
  ASSUME ClientKnown, NEW h \in Handlers, Client!Submit(h, ExitPlan)
  PROVE  /\ ~ InFlight(h) /\ calls'[h].phase = "waiting" /\ OthersKept(h)
         /\ ChainKept /\ UNCHANGED writeCache
         /\ calls'[h].cachedWrite = Cached
         /\ DOMAIN txs \subseteq DOMAIN txs'
         /\ calls'[h].tx \in DOMAIN txs' /\ txs'[calls'[h].tx].status = "flight"
         /\ \A t \in DOMAIN txs' :
              t # calls'[h].tx => t \in DOMAIN txs /\ txs'[t] = txs[t]
         /\ \A t \in DOMAIN txs : txs'[t] = txs[t] /\ t < calls'[h].tx
<1> DEFINE new == [request |-> Client!RequestOf(Process, ExitPlan), status |-> "flight",
                   event |-> 0]
<1>1. ExitPlan.policy = Position /\ [k \in Handlers |-> Process][h] = Process
  BY DEF ExitPlan
<1>2. calls' = [calls EXCEPT ![h] =
        [phase |-> "waiting", policy |-> Position, tx |-> Len(txs) + 1,
         cachedWrite |-> Cached, sig |-> 0, error |-> "none"]]
  BY <1>1 DEF Client!Submit, Client!Dispatch, Client!CachedWrite, Cached
<1>3. /\ calls'[h].phase = "waiting" /\ calls'[h].tx = Len(txs) + 1
      /\ calls'[h].cachedWrite = Cached /\ OthersKept(h)
  BY <1>2 DEF ClientKnown, OthersKept
<1>4. txs' = Append(txs, new) /\ Len(txs) \in Nat
  BY <1>1 DEF Client!Submit, Client!Dispatch, ClientKnown
<1>5. new.status = "flight"
  OBVIOUS
<1> HIDE DEF new
<1>6. /\ DOMAIN txs = 1 .. Len(txs) /\ DOMAIN txs' = 1 .. Len(txs) + 1
      /\ \A t \in 1 .. Len(txs) : txs'[t] = txs[t]
      /\ txs'[Len(txs) + 1] = new
  BY <1>4 DEF ClientKnown
<1>7. ~ InFlight(h) /\ ChainKept /\ UNCHANGED writeCache
  BY DEF Client!Submit, Client!Dispatch, InFlight, ChainKept, Client!chainVars
<1>8. DOMAIN txs \subseteq DOMAIN txs' /\ Len(txs) + 1 \in DOMAIN txs'
  BY <1>4, <1>6
<1>9. \A t \in DOMAIN txs' : t # Len(txs) + 1 => t \in DOMAIN txs /\ txs'[t] = txs[t]
  BY <1>4, <1>6
<1>10. \A t \in DOMAIN txs : t < Len(txs) + 1
  BY <1>4, <1>6
<1>11. QED BY <1>3, <1>5, <1>6, <1>7, <1>8, <1>9, <1>10

(* The chain refuses a valid exit for being early, or not at all.          *)
LEMMA ExitOutcome ==
  ASSUME ClientKnown, NEW t \in DOMAIN txs
  PROVE  /\ txs[t].request.policy = Position
         /\ \/ Client!Chain!Outcome(txs[t].request) = "Ok"
            \/ /\ Client!Chain!Outcome(txs[t].request) = "RebalanceTooSoon"
               /\ Anchor # 0 /\ clock - Anchor < RateLimit
<1>1. txs[t].request = Client!RequestOf(Process, ExitPlan)
  <2>1. txs[t] \in Client!Tx
    BY DEF ClientKnown
  <2>2. txs[t].request \in Client!Submittable
    BY <2>1 DEF Client!Tx
  <2>3. QED BY <2>2 DEF Client!Submittable
<1>2. /\ txs[t].request.policy = Position /\ txs[t].request.action = "exit"
      /\ txs[t].request.sizeBps = 10000 /\ txs[t].request.maxSlippageBps = 100
      /\ txs[t].request.expectedOut = 1000 /\ txs[t].request.minOut = 995
  BY <1>1 DEF Client!RequestOf, ExitPlan
<1> DEFINE r == txs[t].request
<1>3. ~ (r.sizeBps > Client!Chain!BPS) /\ ~ Client!Chain!ToleranceUnderflows(r)
      /\ Client!Chain!SlippageGate(r)
  BY <1>2 DEF Client!Chain!BPS, Client!Chain!ToleranceUnderflows, Client!Chain!SlippageGate
<1>4. QED BY <1>2, <1>3 DEF Client!Chain!Outcome, Client!Chain!TooSoon, Anchor

(* A transaction lands: it stamps the anchor, or finds it fresh.           *)
LEMMA LandEffect ==
  ASSUME ClientKnown, NEW t \in DOMAIN txs, Client!Land(t)
  PROVE  /\ UNCHANGED <<clock, wall, writeCache, calls>>
         /\ DOMAIN txs' = DOMAIN txs /\ txs[t].status = "flight"
         /\ \A s \in DOMAIN txs : s # t => txs'[s] = txs[s]
         /\ \/ /\ txs'[t].status = "Ok"
               /\ Anchor' = clock /\ Position \in initialized'
            \/ /\ txs'[t].status = "RebalanceTooSoon"
               /\ UNCHANGED <<initialized, lastRebalanced>>
               /\ Anchor # 0 /\ clock - Anchor < RateLimit
<1> DEFINE r == txs[t].request
<1>1. UNCHANGED <<wall, writeCache, calls>> /\ txs[t].status = "flight"
  BY DEF Client!Land
<1>2. CASE /\ Client!Chain!Execute(r)
           /\ txs' = [txs EXCEPT ![t].status = "Ok", ![t].event = Len(events) + 1]
  <2>1. r.policy = Position
    BY ExitOutcome
  <2>2. UNCHANGED clock /\ Anchor' = clock /\ Position \in initialized'
    BY <1>2, <2>1 DEF Client!Chain!Execute, ClientKnown, Anchor
  <2>3. /\ DOMAIN txs' = DOMAIN txs
        /\ \A s \in DOMAIN txs : s # t => txs'[s] = txs[s]
    BY <1>2
  <2>4. txs'[t].status = "Ok"
    <3>1. txs[t] \in Client!Tx
      BY DEF ClientKnown
    <3>2. txs'[t] = [txs[t] EXCEPT !.status = "Ok", !.event = Len(events) + 1]
      BY <1>2
    <3>3. QED BY <3>1, <3>2 DEF Client!Tx
  <2>5. QED BY <1>1, <2>2, <2>3, <2>4
<1>3. CASE /\ Client!Chain!Refuse(r)
           /\ txs' = [txs EXCEPT ![t].status = Client!Chain!Outcome(r)]
  <2>1. Client!Chain!Outcome(r) = "RebalanceTooSoon" /\ Anchor # 0 /\ clock - Anchor < RateLimit
    BY <1>3, ExitOutcome DEF Client!Chain!Refuse
  <2>2. UNCHANGED <<clock, initialized, lastRebalanced>>
    BY <1>3 DEF Client!Chain!Refuse, Client!Chain!vars
  <2>3. /\ DOMAIN txs' = DOMAIN txs
        /\ \A s \in DOMAIN txs : s # t => txs'[s] = txs[s]
    BY <1>3
  <2>4. txs'[t].status = "RebalanceTooSoon"
    <3>1. txs[t] \in Client!Tx
      BY DEF ClientKnown
    <3>2. txs'[t] = [txs[t] EXCEPT !.status = "RebalanceTooSoon"]
      BY <1>3, <2>1
    <3>3. QED BY <3>1, <3>2 DEF Client!Tx
  <2>5. QED BY <1>1, <2>1, <2>2, <2>3, <2>4
<1>4. QED BY <1>2, <1>3 DEF Client!Land

(* An exit that runs is the last event, stamped with the chain's clock.    *)
LEMMA LandEvents ==
  ASSUME ClientKnown, NEW t \in DOMAIN txs, Client!Land(t)
  PROVE  \/ /\ txs'[t].status = "Ok" /\ txs'[t].event = Len(events) + 1
            /\ DOMAIN events = 1 .. Len(events) /\ Len(events) \in Nat
            /\ DOMAIN events' = 1 .. Len(events) + 1
            /\ \A i \in DOMAIN events : events'[i] = events[i]
            /\ events'[Len(events) + 1].policy = Position
            /\ events'[Len(events) + 1].ts = clock
         \/ txs'[t].status = "RebalanceTooSoon" /\ UNCHANGED events
<1> DEFINE r == txs[t].request
           e == Client!Chain!EventOf(r)
<1>1. e.policy = Position /\ e.ts = clock
  BY ExitOutcome DEF Client!Chain!EventOf
<1>2. txs[t] \in Client!Tx /\ Len(events) \in Nat /\ DOMAIN events = 1 .. Len(events)
  BY DEF ClientKnown
<1>3. CASE /\ Client!Chain!Execute(r)
           /\ txs' = [txs EXCEPT ![t].status = "Ok", ![t].event = Len(events) + 1]
  <2>1. events' = Append(events, e)
    BY <1>3 DEF Client!Chain!Execute
  <2> HIDE DEF e
  <2>2. /\ DOMAIN events' = 1 .. Len(events) + 1
        /\ \A i \in DOMAIN events : events'[i] = events[i]
        /\ events'[Len(events) + 1] = e
    BY <1>2, <2>1 DEF ClientKnown
  <2>3. txs'[t] = [txs[t] EXCEPT !.status = "Ok", !.event = Len(events) + 1]
    BY <1>3
  <2>4. txs'[t].status = "Ok" /\ txs'[t].event = Len(events) + 1
    BY <1>2, <2>3 DEF Client!Tx
  <2>5. QED BY <1>1, <1>2, <2>2, <2>4
<1>4. CASE /\ Client!Chain!Refuse(r)
           /\ txs' = [txs EXCEPT ![t].status = Client!Chain!Outcome(r)]
  <2>1. Client!Chain!Outcome(r) = "RebalanceTooSoon" /\ UNCHANGED events
    BY <1>4, ExitOutcome DEF Client!Chain!Refuse, Client!Chain!vars
  <2>2. txs'[t] = [txs[t] EXCEPT !.status = "RebalanceTooSoon"]
    BY <1>4, <2>1
  <2>3. txs'[t].status = "RebalanceTooSoon"
    BY <1>2, <2>2 DEF Client!Tx
  <2>4. QED BY <2>1, <2>3
<1>5. QED BY <1>3, <1>4 DEF Client!Land

(* A transaction expires: nothing else happens.                            *)
LEMMA DropEffect ==
  ASSUME ClientKnown, NEW t \in DOMAIN txs, Client!Drop(t)
  PROVE  /\ UNCHANGED <<clock, initialized, lastRebalanced, events, wall, writeCache, calls>>
         /\ DOMAIN txs' = DOMAIN txs /\ txs[t].status = "flight"
         /\ \A s \in DOMAIN txs : s # t => txs'[s] = txs[s]
         /\ txs'[t].status = "dropped"
<1>1. txs[t] \in Client!Tx
  BY DEF ClientKnown
<1>2. txs' = [txs EXCEPT ![t] = [txs[t] EXCEPT !.status = "dropped"]]
  BY DEF Client!Drop
<1>3. txs'[t].status = "dropped"
  BY <1>1, <1>2 DEF Client!Tx
<1>4. QED BY <1>2, <1>3 DEF Client!Drop, Client!chainVars

(* A call ends.  A confirmation dates the cache with its own arrival; an   *)
(* answer that is not an exit is one the catch clause had an entry for, or *)
(* the handler throws.                                                     *)
LEMMA ConfirmEffect ==
  ASSUME ClientKnown, NEW h \in Handlers, Client!Confirm(h)
  PROVE  /\ InFlight(h) /\ calls'[h].phase = "resolved" /\ OthersKept(h)
         /\ ChainKept /\ UNCHANGED txs /\ StatusOf(h) = "Ok"
         /\ Client!Hit(Cached)' /\ Cached'.lastExecutedAt = wall
         /\ Cached'.lastTxSig = calls[h].tx
<1>1. InFlight(h) /\ StatusOf(h) = "Ok" /\ ChainKept /\ UNCHANGED txs
  BY DEF Client!Confirm, InFlight, Client!StatusSeen, StatusOf, ChainKept, Client!chainVars
<1>2. calls[h] \in Client!Call /\ calls[h].policy = Position
  BY DEF ClientKnown, Client!Call
<1>3. calls'[h].phase = "resolved" /\ OthersKept(h)
  BY DEF Client!Confirm, Client!Resolve, Client!Settled, ClientKnown, OthersKept
<1>4. [k \in Handlers |-> Process][h] = Process
  OBVIOUS
<1>5. writeCache' = [writeCache EXCEPT ![Process][Position] = Client!NewEntry(h)]
  BY <1>2, <1>4 DEF Client!Confirm
<1>6. Cached' = Client!NewEntry(h)
  BY <1>5 DEF ClientKnown, Cached
<1>7. calls[h].tx # 0
  BY <1>1 DEF ClientKnown
<1>8. QED BY <1>1, <1>3, <1>6, <1>7 DEF Client!NewEntry, Client!Hit

(* A refusal leaves the cache and the transactions alone.                  *)
LEMMA RefusalEffect ==
  ASSUME ClientKnown, NEW h \in Handlers, Client!CatchTooSoon(h) \/ Client!Rethrow(h)
  PROVE  /\ InFlight(h) /\ calls'[h].phase \in {"resolved", "rejected"} /\ OthersKept(h)
         /\ ChainKept /\ UNCHANGED <<txs, writeCache>>
         /\ StatusOf(h) \notin {"flight", "dropped", "Ok"}
         /\ calls'[h].phase = "rejected" =>
              /\ calls'[h].tx = calls[h].tx
              /\ ~ (StatusOf(h) = "RebalanceTooSoon" /\ Client!Hit(calls[h].cachedWrite))
BY DEF Client!CatchTooSoon, Client!Rethrow, Client!Resolve, Client!Throw, Client!Settled,
   ClientKnown, InFlight, OthersKept, ChainKept, Client!chainVars, Client!StatusSeen, StatusOf

(* So does a call that is given up, whatever became of its transaction.    *)
LEMMA AbandonEffect ==
  ASSUME ClientKnown, NEW h \in Handlers, Client!Abandon(h)
  PROVE  /\ InFlight(h) /\ calls'[h].phase = "rejected" /\ OthersKept(h)
         /\ calls'[h].tx = calls[h].tx
         /\ ChainKept /\ UNCHANGED <<txs, writeCache>>
BY DEF Client!Abandon, Client!Throw, Client!Settled, ClientKnown, InFlight, OthersKept,
   ChainKept, Client!chainVars

-----------------------------------------------------------------------------
(* A tick of the timer.                                                    *)

(* The ranges of the loop's variables, spelled out.                        *)
LEMMA LoopBounds ==
  ASSUME ClientKnown, LoopTyped
  PROVE  /\ wall \in Nat /\ lastFire \in Nat /\ lastFire <= wall
         /\ readCache.at \in Nat /\ readCache.at <= wall /\ readCache.breached \in BOOLEAN
         /\ lag \in Nat /\ breachedSince \in Nat /\ breachedSince <= wall
         /\ \A h \in Handlers : /\ startedAt[h] \in Nat /\ startedAt[h] <= wall
                                /\ alone[h] \in BOOLEAN
         /\ failedAt \in Nat /\ failedAt <= wall
BY DEF ClientKnown, LoopTyped

(* A verdict from the cache lags once: two periods are as long as the      *)
(* throttle, however early the timer fires.  And if the tick sees a breach *)
(* and the verdict knows it, the Guardian acts on this tick.               *)
LEMMA FireVerdict ==
  ASSUME ClientKnown, LoopTyped, VerdictSound, TimesKept, Fire, UNCHANGED wall
  PROVE  /\ VerdictSound'
         /\ tick' \in Nat /\ lastFire' = wall /\ lag' \in Nat /\ breachedSince' \in 0 .. wall
         /\ readCache' \in [at : 0 .. wall, breached : BOOLEAN]
         /\ breachedSince' # 0 /\ lag' = 0 =>
              /\ Acts(tick + 1)
              /\ \/ breachedSince' = wall
                 \/ /\ breachedSince' = breachedSince /\ breachedSince # 0
                    /\ lag = 0 \/ breachedSince = lastFire
<1> DEFINE b == Breached(tick + 1)
<1>1. /\ wall \in Nat \ {0} /\ lastFire \in Nat /\ lastFire <= wall /\ lag \in Nat
      /\ readCache.at \in Nat /\ readCache.at <= lastFire /\ readCache.breached \in BOOLEAN
      /\ breachedSince \in Nat /\ breachedSince <= lastFire
      /\ TickMs \in Nat /\ Jitter \in Nat /\ Jitter < TickMs
  BY LoopBounds, TimerAssumption DEF VerdictSound, TimesKept
<1>2. /\ wall >= lastFire + TickMs - Jitter /\ tick' = tick + 1 /\ lastFire' = wall
      /\ readCache' = Check(tick + 1)
      /\ lag' = IF Check(tick + 1).breached = b THEN 0 ELSE lag + 1
      /\ breachedSince' = IF ~ b THEN 0 ELSE IF breachedSince = 0 THEN wall ELSE breachedSince
  BY DEF Fire, Observe
<1>3. b \in BOOLEAN /\ tick' \in Nat
  BY <1>2 DEF Breached, LoopTyped
<1>4. /\ Acts(tick + 1) <=> readCache'.breached
      /\ readCache' \in [at : 0 .. wall, breached : BOOLEAN]
      /\ \/ ReadHit /\ readCache' = readCache
         \/ ~ ReadHit /\ readCache'.at = wall /\ readCache'.breached = b
  <2>1. CASE ReadHit
    BY <1>2, <2>1 DEF Check, Acts, LoopTyped
  <2>2. CASE ~ ReadHit
    <3>1. Check(tick + 1) = [at |-> wall, breached |-> b]
      BY <2>2 DEF Check
    <3> HIDE DEF b
    <3>2. QED BY <1>1, <1>2, <1>3, <2>2, <3>1 DEF Acts
  <2>3. QED BY <2>1, <2>2
<1>5. ReadHit => readCache.at # 0 /\ wall - readCache.at < ReadThrottle
  BY DEF ReadHit
<1>6. lag' = (IF readCache'.breached = b THEN 0 ELSE lag + 1) /\ readCache'.at <= wall
  BY <1>1, <1>2, <1>4
<1> HIDE DEF b
<1>7. CASE ~ ReadHit
  <2>1. lag' = 0 /\ readCache'.breached = b /\ (breachedSince' # 0 <=> b)
    BY <1>1, <1>2, <1>3, <1>4, <1>6, <1>7
  <2>2. VerdictSound'
    BY <1>1, <1>2, <1>3, <1>6, <2>1 DEF VerdictSound
  <2>3. breachedSince' # 0 => \/ breachedSince' = wall
                              \/ breachedSince' = breachedSince /\ breachedSince # 0
    BY <1>2
  <2>4. lag # 0 /\ breachedSince # 0 => breachedSince = lastFire
    BY DEF VerdictSound
  <2>5. QED BY <1>1, <1>2, <1>3, <1>4, <2>1, <2>2, <2>3, <2>4
<1>8. CASE ReadHit
  <2>1. lag = 0
    <3>1. lag # 0 => readCache.at + TickMs - Jitter <= lastFire
      BY DEF VerdictSound
    <3>2. ReadThrottle \in Nat /\ ReadThrottle <= 2 * (TickMs - Jitter)
      BY WindowsAssumption
    <3>3. QED BY <1>1, <1>2, <1>5, <1>8, <3>1, <3>2
  <2>2. (breachedSince # 0 <=> readCache.breached) /\ readCache' = readCache
    BY <1>4, <1>8, <2>1 DEF VerdictSound
  <2>3. readCache.at # 0 /\ readCache.at + TickMs - Jitter <= wall
    BY <1>1, <1>2, <1>5, <1>8
  <2>4. CASE readCache.breached = b
    <3>1. lag' = 0 /\ readCache'.breached = b /\ (breachedSince' # 0 <=> b)
      BY <1>1, <1>2, <1>6, <2>2, <2>4
    <3>2. VerdictSound'
      BY <1>1, <1>2, <1>3, <1>6, <3>1 DEF VerdictSound
    <3>3. breachedSince' # 0 => breachedSince' = wall \/ (breachedSince' = breachedSince /\ breachedSince # 0)
      BY <1>2
    <3>4. QED BY <1>1, <1>2, <1>3, <1>4, <2>1, <3>1, <3>2, <3>3
  <2>5. CASE readCache.breached # b
    <3>1. lag' = 1
      BY <1>6, <2>1, <2>2, <2>5
    <3>2. breachedSince' = IF b THEN wall ELSE 0
      BY <1>1, <1>2, <1>3, <2>2, <2>5
    <3>3. VerdictSound'
      BY <1>1, <1>2, <1>3, <2>2, <2>3, <2>5, <3>1, <3>2 DEF VerdictSound
    <3>4. QED BY <1>1, <1>2, <1>3, <1>4, <3>1, <3>2, <3>3
  <2>6. QED BY <2>4, <2>5
<1>9. QED BY <1>7, <1>8

(* What covered or pended still does, and this tick's own call does: no    *)
(* stretch of a period is without one.                                     *)
LEMMA FireFollowsBreach ==
  ASSUME ClientKnown, LoopTyped, VerdictSound, TimesKept, CallsFollowBreach, Fire, UNCHANGED wall,
         Acts(tick + 1) =>
           /\ \A y \in Nat : Covered(y) \/ Pending(y) => Covered(y)' \/ Pending(y)'
           /\ Covered(wall)' \/ Pending(wall)'
  PROVE  CallsFollowBreach'
<1> SUFFICES ASSUME breachedSince' # 0, lag' = 0, NEW z \in breachedSince' .. lastFire',
                    z > failedAt
             PROVE  \E y \in z .. lastFire' :
                      y <= z + TickMs + Jitter /\ (Covered(y)' \/ Pending(y)')
  BY DEF CallsFollowBreach, Fire
<1>1. /\ wall \in Nat /\ lastFire \in Nat /\ lastFire <= wall /\ breachedSince \in Nat
      /\ wall <= lastFire + TickMs + Jitter
      /\ TickMs \in Nat /\ Jitter \in Nat
  BY LoopBounds, TimerAssumption DEF TimesKept
<1>2. /\ lastFire' = wall /\ Acts(tick + 1)
      /\ \/ breachedSince' = wall
         \/ /\ breachedSince' = breachedSince /\ breachedSince # 0
            /\ lag = 0 \/ breachedSince = lastFire
  BY FireVerdict
<1>3. /\ \A y \in Nat : Covered(y) \/ Pending(y) => Covered(y)' \/ Pending(y)'
      /\ Covered(wall)' \/ Pending(wall)'
  BY <1>2
<1>4. z \in Nat /\ z <= wall
  BY <1>1, <1>2
<1>5. CASE z >= lastFire
  <2>1. wall \in z .. wall /\ wall <= z + TickMs + Jitter
    BY <1>1, <1>4, <1>5
  <2>2. QED BY <1>2, <1>3, <2>1
<1>6. CASE z < lastFire
  <2>1. z \in breachedSince .. lastFire /\ breachedSince # 0 /\ lag = 0
    BY <1>1, <1>2, <1>4, <1>6
  <2>2. PICK y \in z .. lastFire : y <= z + TickMs + Jitter /\ (Covered(y) \/ Pending(y))
    BY <2>1 DEF CallsFollowBreach
  <2>3. y \in Nat /\ y \in z .. wall
    BY <1>1, <1>4, <2>2
  <2>4. QED BY <1>2, <1>3, <2>2, <2>3
<1>7. QED BY <1>1, <1>4, <1>5, <1>6

(* How the Guardian's call changes the histories of the handlers.          *)
LEMMA ExecuteEffect ==
  ASSUME ClientKnown, LoopTyped, NEW h \in Handlers, Execute(h), UNCHANGED wall
  PROVE  /\ startedAt' \in [Handlers -> 0 .. wall] /\ alone' \in [Handlers -> BOOLEAN]
         /\ startedAt'[h] = wall
         /\ alone'[h] => \A k \in Handlers : ~ InFlight(k)
         /\ \A k \in Handlers : k # h =>
              startedAt'[k] = startedAt[k] /\ (alone'[k] => alone[k] /\ ~ InFlight(k))
<1>1. wall \in Nat /\ startedAt \in [Handlers -> 0 .. wall] /\ alone \in [Handlers -> BOOLEAN]
  BY DEF ClientKnown, LoopTyped
<1>2. startedAt' = [startedAt EXCEPT ![h] = wall]
  BY DEF Execute
<1>3. /\ startedAt' \in [Handlers -> 0 .. wall] /\ startedAt'[h] = wall
      /\ \A k \in Handlers : k # h => startedAt'[k] = startedAt[k]
  BY <1>1, <1>2
<1>4. alone' = [k \in Handlers |->
        IF k = h THEN \A other \in Handlers : ~ InFlight(other) ELSE alone[k] /\ ~ InFlight(k)]
  BY DEF Execute
<1>5. /\ alone'[h] => \A k \in Handlers : ~ InFlight(k)
      /\ \A k \in Handlers : k # h => (alone'[k] => alone[k] /\ ~ InFlight(k))
  BY <1>4
<1>6. alone' \in [Handlers -> BOOLEAN]
  <2>1. \A k \in Handlers :
          (IF k = h THEN \A other \in Handlers : ~ InFlight(other)
           ELSE alone[k] /\ ~ InFlight(k)) \in BOOLEAN
    BY ZenonT(20)
  <2>2. QED BY <1>4, <2>1
<1>7. QED BY <1>3, <1>5, <1>6

(* A tick on which nobody acts.                                            *)
LEMMA IdlePreserves ==
  ASSUME ClientKnown, IInv, Fire, ~ Acts(tick + 1)
  PROVE  IInv'
<1>1. UNCHANGED <<clientVars, startedAt, alone, alive, unanswered, failedAt>>
  BY DEF Fire
<1>2. /\ UNCHANGED <<clock, initialized, lastRebalanced, wall, writeCache, calls, txs>>
      /\ UNCHANGED <<startedAt, alone, alive, unanswered, failedAt>>
  BY <1>1 DEF clientVars
<1>3. LoopTyped /\ VerdictSound /\ TimesKept /\ CallsFollowBreach
  BY DEF IInv
<1>4. /\ VerdictSound'
      /\ tick' \in Nat /\ lastFire' = wall /\ lag' \in Nat /\ breachedSince' \in 0 .. wall
      /\ readCache' \in [at : 0 .. wall, breached : BOOLEAN]
  BY <1>2, <1>3, FireVerdict
<1>5. wall \in Nat /\ TickMs \in Nat /\ Jitter \in Nat
  BY TimerAssumption DEF ClientKnown
<1>6. LoopTyped'
  BY <1>2, <1>3, <1>4, <1>5 DEF LoopTyped
<1>7. TimesKept'
  BY <1>2, <1>3, <1>4, <1>5 DEF TimesKept, InFlight
<1>8. CallsFollowBreach'
  BY <1>2, <1>3, FireFollowsBreach
<1>9. TxsValid' /\ AnchorKnown' /\ FailureInv'
  BY <1>2 DEF IInv, TxsValid, AnchorKnown, FailureInv, AloneSound, Accounted, Awaited,
     ExitIsLogged, RejectedSound, ExitsBefore, Anchor, Cached, StatusOf, InFlight
<1>10. QED BY <1>4, <1>6, <1>7, <1>8, <1>9 DEF IInv

(* A tick whose handler's call is answered by the write cache: the exit it *)
(* knows of covers this tick.                                              *)
LEMMA ShortcutPreserves ==
  ASSUME ClientKnown, IInv, Fire, NEW h \in Handlers, Execute(h), Client!Shortcut(h, ExitPlan)
  PROVE  IInv'
<1>1. /\ ~ InFlight(h) /\ calls'[h].phase = "resolved"
      /\ \A k \in Handlers : k # h => calls'[k] = calls[k]
      /\ UNCHANGED <<clock, initialized, lastRebalanced, wall, writeCache, txs>>
      /\ Client!Hit(Cached) /\ wall - Cached.lastExecutedAt < WriteThrottle
  BY ShortcutEffect DEF OthersKept, ChainKept
<1>2. /\ LoopTyped /\ VerdictSound /\ TimesKept /\ CallsFollowBreach
      /\ UNCHANGED <<alive, unanswered, failedAt>>
  BY DEF IInv, Fire
<1>3. /\ startedAt' \in [Handlers -> 0 .. wall] /\ alone' \in [Handlers -> BOOLEAN]
      /\ startedAt'[h] = wall
      /\ \A k \in Handlers : k # h =>
           startedAt'[k] = startedAt[k] /\ (alone'[k] => alone[k] /\ ~ InFlight(k))
  BY <1>1, <1>2, ExecuteEffect
<1>4. /\ VerdictSound'
      /\ tick' \in Nat /\ lastFire' = wall /\ lag' \in Nat /\ breachedSince' \in 0 .. wall
      /\ readCache' \in [at : 0 .. wall, breached : BOOLEAN]
  BY <1>1, <1>2, FireVerdict
<1>5. /\ wall \in Nat /\ TickMs \in Nat /\ Jitter \in Nat /\ MaxLatency \in Nat
      /\ WriteThrottle \in Nat
  BY TimerAssumption, ClientAssumption, WindowsAssumption DEF ClientKnown
<1>6. \A k \in Handlers :
        /\ InFlight(k)' <=> (k # h /\ InFlight(k))
        /\ InFlight(k)' => /\ StatusOf(k)' = StatusOf(k) /\ startedAt'[k] = startedAt[k]
                           /\ ~ alone'[k]
        /\ InFlight(k) => /\ InFlight(k)' /\ StatusOf(k)' = StatusOf(k)
                          /\ startedAt'[k] = startedAt[k] /\ calls'[k].tx = calls[k].tx
  BY <1>1, <1>3 DEF InFlight, StatusOf
<1>7. Anchor' = Anchor /\ Cached' = Cached
  BY <1>1 DEF Anchor, Cached
<1>8. LoopTyped'
  BY <1>1, <1>2, <1>3, <1>4, <1>5 DEF LoopTyped
<1>9. TimesKept'
  BY <1>1, <1>2, <1>4, <1>5, <1>6 DEF TimesKept
<1>10. TxsValid'
  BY <1>1 DEF IInv, TxsValid
<1>11. AnchorKnown'
  BY <1>1, <1>6, <1>7 DEF IInv, AnchorKnown, Client!Hit
<1>12. CallsFollowBreach'
  <2>1. Covered(wall)'
    <3>1. Anchor # 0 /\ Cached.lastExecutedAt <= Anchor + MaxLatency
      BY <1>1 DEF IInv, AnchorKnown
    <3>2. Anchor \in Nat /\ Cached.lastExecutedAt \in Nat
      BY DEF ClientKnown, Anchor, Cached, Client!Entry
    <3>3. wall < Anchor + WriteThrottle + MaxLatency
      BY <1>1, <1>5, <3>1, <3>2
    <3>4. QED BY <1>1, <1>7, <3>1, <3>3 DEF Covered
  <2>2. ASSUME NEW y \in Nat, Covered(y) \/ Pending(y) PROVE Covered(y)' \/ Pending(y)'
    <3>1. Covered(y) => Covered(y)'
      BY <1>7 DEF Covered
    <3>2. Pending(y) => Pending(y)'
      BY <1>6 DEF Pending
    <3>3. QED BY <2>2, <3>1, <3>2
  <2>3. QED BY <1>1, <1>2, <2>1, <2>2, FireFollowsBreach
<1>13. AloneSound'
  BY <1>6 DEF AloneSound
<1>14. Accounted'
  <2>1. \A t : Awaited(t) => Awaited(t)'
    BY <1>6 DEF Awaited
  <2>2. QED BY <1>1, <1>2, <1>7, <2>1 DEF IInv, FailureInv, Accounted, Client!Hit
<1>15. ExitIsLogged'
  BY <1>1, <1>7 DEF IInv, FailureInv, ExitIsLogged
<1>16. RejectedSound'
  BY <1>1, <1>2, <1>3 DEF IInv, FailureInv, RejectedSound, ExitsBefore
<1>17. QED
  BY <1>4, <1>8, <1>9, <1>10, <1>11, <1>12, <1>13, <1>14, <1>15, <1>16 DEF IInv, FailureInv

(* A tick whose handler's call submits an exit: the call pends from now.   *)
LEMMA SubmitPreserves ==
  ASSUME ClientKnown, IInv, Fire, NEW h \in Handlers, Execute(h), Client!Submit(h, ExitPlan)
  PROVE  IInv'
<1>1. /\ ~ InFlight(h) /\ calls'[h].phase = "waiting"
      /\ \A k \in Handlers : k # h => calls'[k] = calls[k]
      /\ UNCHANGED <<clock, initialized, lastRebalanced, wall, writeCache>>
      /\ calls'[h].cachedWrite = Cached
  BY SubmitEffect DEF OthersKept, ChainKept
<1>2. /\ DOMAIN txs \subseteq DOMAIN txs'
      /\ calls'[h].tx \in DOMAIN txs' /\ txs'[calls'[h].tx].status = "flight"
      /\ \A t \in DOMAIN txs' :
           t # calls'[h].tx => t \in DOMAIN txs /\ txs'[t] = txs[t]
      /\ \A t \in DOMAIN txs : txs'[t] = txs[t] /\ t < calls'[h].tx
      /\ DOMAIN txs = 1 .. Len(txs) /\ Len(txs) \in Nat
  BY SubmitEffect DEF ClientKnown
<1>3. /\ LoopTyped /\ VerdictSound /\ TimesKept /\ CallsFollowBreach
      /\ UNCHANGED <<alive, unanswered, failedAt>>
  BY DEF IInv, Fire
<1>4. /\ startedAt' \in [Handlers -> 0 .. wall] /\ alone' \in [Handlers -> BOOLEAN]
      /\ startedAt'[h] = wall
      /\ alone'[h] => \A k \in Handlers : ~ InFlight(k)
      /\ \A k \in Handlers : k # h =>
           startedAt'[k] = startedAt[k] /\ (alone'[k] => alone[k] /\ ~ InFlight(k))
  BY <1>1, <1>3, ExecuteEffect
<1>5. /\ VerdictSound'
      /\ tick' \in Nat /\ lastFire' = wall /\ lag' \in Nat /\ breachedSince' \in 0 .. wall
      /\ readCache' \in [at : 0 .. wall, breached : BOOLEAN]
  BY <1>1, <1>3, FireVerdict
<1>6. wall \in Nat /\ TickMs \in Nat /\ Jitter \in Nat /\ MaxLatency \in Nat
  BY TimerAssumption, WindowsAssumption DEF ClientKnown
<1>7. \A k \in Handlers : k # h =>
        /\ InFlight(k)' <=> InFlight(k)
        /\ InFlight(k) => /\ StatusOf(k)' = StatusOf(k) /\ startedAt'[k] = startedAt[k]
                          /\ calls'[k].tx = calls[k].tx /\ ~ alone'[k]
  BY <1>1, <1>2, <1>4 DEF InFlight, StatusOf, ClientKnown
<1>8. InFlight(h)' /\ StatusOf(h)' = "flight"
  BY <1>1, <1>2 DEF InFlight, StatusOf
<1>9. Anchor' = Anchor /\ Cached' = Cached
  BY <1>1 DEF Anchor, Cached
<1>10. LoopTyped'
  BY <1>1, <1>2, <1>3, <1>4, <1>5, <1>6 DEF LoopTyped
<1>11. TimesKept'
  BY <1>1, <1>3, <1>4, <1>5, <1>6, <1>7 DEF TimesKept
<1>12. TxsValid'
  BY <1>2 DEF IInv, TxsValid
<1>13. AnchorKnown'
  BY <1>1, <1>7, <1>8, <1>9 DEF IInv, AnchorKnown, Client!Hit
<1>14. CallsFollowBreach'
  <2>1. Pending(wall)'
    BY <1>1, <1>4, <1>8 DEF Pending
  <2>2. ASSUME NEW y \in Nat, Covered(y) \/ Pending(y) PROVE Covered(y)' \/ Pending(y)'
    <3>1. Covered(y) => Covered(y)'
      BY <1>9 DEF Covered
    <3>2. Pending(y) => Pending(y)'
      BY <1>1, <1>7 DEF Pending
    <3>3. QED BY <2>2, <3>1, <3>2
  <2>3. QED BY <1>1, <1>3, <2>1, <2>2, FireFollowsBreach
<1>15. AloneSound'
  <2>1. \A k \in Handlers : InFlight(k)' /\ alone'[k] => k = h
    BY <1>7
  <2>2. alone'[h] => \A k \in Handlers : InFlight(k)' => k = h
    BY <1>4, <1>7
  <2>3. \A s \in DOMAIN txs' : s <= calls'[h].tx
    <3>1. calls'[h].tx \in Nat
      <4>1. calls'[h].tx = Len(txs) + 1
        BY DEF Client!Submit, Client!Dispatch, ClientKnown
      <4>2. QED BY <1>2, <4>1
    <3>2. \A s \in DOMAIN txs' : s = calls'[h].tx \/ s < calls'[h].tx
      BY <1>2
    <3>3. QED BY <1>2, <3>1, <3>2
  <2>4. QED BY <1>1, <1>8, <1>9, <2>1, <2>2, <2>3 DEF AloneSound
<1>16. Accounted'
  <2>1. \A t : Awaited(t) => Awaited(t)'
    BY <1>1, <1>7 DEF Awaited
  <2>2. \A t : t = calls'[h].tx => Awaited(t)'
    BY <1>8 DEF Awaited
  <2>3. QED BY <1>2, <1>3, <1>9, <2>1, <2>2 DEF IInv, FailureInv, Accounted, Client!Hit
<1>17. ExitIsLogged'
  BY <1>2, <1>9 DEF IInv, FailureInv, ExitIsLogged
<1>18. RejectedSound'
  <2>1. ASSUME NEW k \in Handlers, calls'[k].phase = "rejected", alone'[k],
               calls'[k].tx \notin unanswered
        PROVE  /\ calls'[k].tx \in DOMAIN txs'
               /\ ExitsBefore(calls[k].tx)' # {}
               /\ \A s \in DOMAIN txs' :
                    s < calls'[k].tx /\ txs'[s].status \in {"flight", "Ok"}
                      => s \in unanswered
    <3>1. k # h /\ calls'[k] = calls[k] /\ alone[k]
      BY <1>1, <1>4, <2>1
    <3>2. /\ calls[k].tx \in DOMAIN txs /\ ExitsBefore(calls[k].tx) # {}
          /\ \A s \in DOMAIN txs :
               s < calls[k].tx /\ txs[s].status \in {"flight", "Ok"} => s \in unanswered
      BY <2>1, <3>1 DEF IInv, FailureInv, RejectedSound
    <3>3. 1 .. calls[k].tx - 1 \subseteq DOMAIN txs
      BY <1>2, <3>2
    <3>4. ExitsBefore(calls[k].tx)' = ExitsBefore(calls[k].tx)
      BY <1>2, <3>1, <3>3 DEF ExitsBefore
    <3>5. \A s \in DOMAIN txs' : s < calls[k].tx => s \in DOMAIN txs /\ txs'[s] = txs[s]
      <4>1. calls[k].tx < calls'[h].tx
        BY <1>2, <3>2
      <4>2. calls'[h].tx \in Nat
        <5>1. calls'[h].tx = Len(txs) + 1
          BY DEF Client!Submit, Client!Dispatch, ClientKnown
        <5>2. QED BY <1>2, <5>1
      <4>3. QED BY <1>2, <3>2, <4>1, <4>2
    <3>6. QED BY <1>2, <3>1, <3>2, <3>4, <3>5
  <2>2. QED BY <1>3, <2>1 DEF RejectedSound
<1>19. QED
  BY <1>5, <1>10, <1>11, <1>12, <1>13, <1>14, <1>15, <1>16, <1>17, <1>18 DEF IInv, FailureInv

-----------------------------------------------------------------------------
(* Between the ticks.                                                      *)

(* A call comes back, to its handler or as what the handler throws.        *)
LEMMA EndPreserves ==
  ASSUME ClientKnown, IInv, NEW h \in Handlers, Finish(h) \/ Fail(h)
  PROVE  IInv'
<1> DEFINE Told == UNCHANGED <<unanswered, failedAt>>
           GaveUp == unanswered' = unanswered \cup {calls[h].tx} /\ failedAt' = wall
<1>1. /\ \/ Client!Confirm(h) /\ Told
         \/ (Client!CatchTooSoon(h) \/ Client!Rethrow(h)) /\ Told
         \/ Client!Abandon(h) /\ GaveUp
      /\ startedAt' = [startedAt EXCEPT ![h] = 0]
      /\ UNCHANGED <<tick, lastFire, readCache, alone, lag, breachedSince>>
      /\ alive' \in BOOLEAN
  BY DEF Finish, Fail, Refused, GivenUp, history, IInv, LoopTyped
<1>2. /\ InFlight(h) /\ calls'[h].phase \in {"resolved", "rejected"}
      /\ \A k \in Handlers : k # h => calls'[k] = calls[k]
      /\ UNCHANGED <<clock, initialized, lastRebalanced, wall, txs>>
      /\ calls'[h].phase = "rejected" => calls'[h].tx = calls[h].tx
      /\ \/ /\ StatusOf(h) = "Ok" /\ Client!Hit(Cached)' /\ Cached'.lastExecutedAt = wall
            /\ calls'[h].phase = "resolved" /\ Told
         \/ /\ UNCHANGED writeCache /\ StatusOf(h) \notin {"flight", "dropped", "Ok"}
            /\ calls'[h].phase = "rejected" =>
                 ~ (StatusOf(h) = "RebalanceTooSoon" /\ Client!Hit(calls[h].cachedWrite))
            /\ Told
         \/ UNCHANGED writeCache /\ GaveUp
  <2>1. CASE Client!Confirm(h) /\ Told
    BY <2>1, ConfirmEffect DEF OthersKept, ChainKept
  <2>2. CASE (Client!CatchTooSoon(h) \/ Client!Rethrow(h)) /\ Told
    BY <2>2, RefusalEffect DEF OthersKept, ChainKept
  <2>3. CASE Client!Abandon(h) /\ GaveUp
    BY <2>3, AbandonEffect DEF OthersKept, ChainKept
  <2>4. QED BY <1>1, <2>1, <2>2, <2>3
<1>3. /\ startedAt' \in [Handlers -> 0 .. wall]
      /\ \A k \in Handlers : k # h => startedAt'[k] = startedAt[k]
  BY <1>1 DEF IInv, LoopTyped, ClientKnown
<1>4. \A k \in Handlers :
        /\ InFlight(k)' <=> (k # h /\ InFlight(k))
        /\ InFlight(k)' => /\ StatusOf(k)' = StatusOf(k) /\ startedAt'[k] = startedAt[k]
                           /\ calls'[k].tx = calls[k].tx
  BY <1>2, <1>3 DEF InFlight, StatusOf
<1>5. /\ Anchor' = Anchor
      /\ \/ Cached' = Cached
         \/ StatusOf(h) = "Ok" /\ Client!Hit(Cached)' /\ Cached'.lastExecutedAt = wall
  BY <1>2 DEF Anchor, Cached
<1>6. LoopTyped'
  <2>1. unanswered' \subseteq DOMAIN txs' /\ failedAt' \in 0 .. wall'
    BY <1>2 DEF IInv, LoopTyped, ClientKnown
  <2>2. QED BY <1>1, <1>2, <1>3, <2>1 DEF IInv, LoopTyped
<1>7. VerdictSound'
  BY <1>1 DEF IInv, VerdictSound
<1>8. TimesKept'
  BY <1>1, <1>2, <1>4 DEF IInv, TimesKept
<1>9. TxsValid'
  BY <1>2 DEF IInv, TxsValid
<1>10. AnchorKnown'
  <2>1. Anchor' # 0 => Position \in initialized'
    BY <1>2, <1>5 DEF IInv, AnchorKnown
  <2>2. \A k \in Handlers : InFlight(k)' /\ StatusOf(k)' = "Ok" =>
          Anchor' # 0 /\ startedAt'[k] <= Anchor'
    BY <1>4, <1>5 DEF IInv, AnchorKnown
  <2>3. CASE StatusOf(h) = "Ok" /\ Client!Hit(Cached)' /\ Cached'.lastExecutedAt = wall
    <3>1. Anchor # 0 /\ startedAt[h] <= Anchor /\ wall <= startedAt[h] + MaxLatency
      BY <1>2, <2>3 DEF IInv, AnchorKnown, TimesKept
    <3>2. Cached'.lastExecutedAt = wall /\ wall' = wall
      BY <1>2, <2>3
    <3>3. Anchor \in Nat /\ startedAt[h] \in Nat /\ wall \in Nat /\ MaxLatency \in Nat
      BY LoopBounds, WindowsAssumption DEF IInv, ClientKnown, Anchor
    <3>4. wall <= Anchor + MaxLatency
      BY <3>1, <3>3
    <3>5. QED BY <1>5, <2>1, <2>2, <3>1, <3>2, <3>3, <3>4 DEF AnchorKnown
  <2>4. CASE Cached' = Cached
    BY <1>2, <1>5, <2>1, <2>2, <2>4 DEF IInv, AnchorKnown, Client!Hit
  <2>5. QED BY <1>5, <2>3, <2>4
<1>11. CallsFollowBreach'
  <2>1. CASE GaveUp
    <3>1. lastFire' <= failedAt' /\ lastFire' \in Nat /\ failedAt' \in Nat /\ breachedSince' \in Nat
      BY <1>1, <2>1, LoopBounds DEF IInv
    <3>2. \A z \in breachedSince' .. lastFire' : ~ (z > failedAt')
      BY <3>1
    <3>3. QED BY <3>2 DEF CallsFollowBreach
  <2>2. CASE Told /\ StatusOf(h) \notin {"flight", "dropped"}
    <3>1. ASSUME NEW y PROVE Covered(y) \/ Pending(y) => Covered(y)' \/ Pending(y)'
      <4>1. Covered(y) => Covered(y)'
        BY <1>5 DEF Covered
      <4>2. Pending(y) => Pending(y)'
        BY <1>4, <2>2 DEF Pending
      <4>3. QED BY <4>1, <4>2
    <3>2. QED BY <1>1, <2>2, <3>1 DEF IInv, CallsFollowBreach
  <2>3. QED BY <1>2, <2>1, <2>2
<1>12. AloneSound'
  <2>1. \A k \in Handlers : InFlight(k)' => ~ alone'[k]
    BY <1>1, <1>2, <1>4 DEF IInv, FailureInv, AloneSound
  <2>2. QED BY <2>1 DEF AloneSound
<1>13. Accounted'
  <2>1. unanswered \subseteq unanswered'
    BY <1>2
  <2>2. \A t : Awaited(t) => Awaited(t)' \/ t = calls[h].tx
    BY <1>4 DEF Awaited
  <2>3. \/ calls[h].tx \in unanswered'
        \/ StatusOf(h) = "Ok" /\ Client!Hit(Cached)'
        \/ StatusOf(h) \notin {"flight", "Ok"}
    BY <1>2
  <2>4. Client!Hit(Cached) => Client!Hit(Cached)'
    BY <1>5 DEF Client!Hit
  <2>5. QED BY <1>2, <2>1, <2>2, <2>3, <2>4 DEF IInv, FailureInv, Accounted, StatusOf
<1>14. ExitIsLogged'
  BY <1>2, <1>5 DEF IInv, FailureInv, ExitIsLogged
<1>15. RejectedSound'
  <2>1. unanswered \subseteq unanswered'
    BY <1>2
  <2>2. ASSUME NEW k \in Handlers, k # h, calls'[k].phase = "rejected", alone'[k],
               calls'[k].tx \notin unanswered'
        PROVE  /\ calls'[k].tx \in DOMAIN txs'
               /\ ExitsBefore(calls[k].tx)' # {}
               /\ \A s \in DOMAIN txs' :
                    s < calls'[k].tx /\ txs'[s].status \in {"flight", "Ok"}
                      => s \in unanswered'
    BY <1>1, <1>2, <2>1, <2>2 DEF IInv, FailureInv, RejectedSound, ExitsBefore
  <2>3. ASSUME calls'[h].phase = "rejected", alone'[h], calls'[h].tx \notin unanswered'
        PROVE  /\ calls'[h].tx \in DOMAIN txs'
               /\ ExitsBefore(calls[h].tx)' # {}
               /\ \A s \in DOMAIN txs' :
                    s < calls'[h].tx /\ txs'[s].status \in {"flight", "Ok"}
                      => s \in unanswered'
    <3>1. /\ calls'[h].tx = calls[h].tx /\ calls[h].tx \in DOMAIN txs /\ InFlight(h) /\ alone[h]
      BY <1>1, <1>2, <2>3 DEF ClientKnown
    <3>2. /\ StatusOf(h) \notin {"flight", "dropped", "Ok"}
          /\ ~ (StatusOf(h) = "RebalanceTooSoon" /\ Client!Hit(calls[h].cachedWrite))
      BY <1>2, <2>3, <3>1
    <3>3. StatusOf(h) = "RebalanceTooSoon" /\ ~ Client!Hit(calls[h].cachedWrite)
      BY <3>1, <3>2 DEF IInv, TxsValid, StatusOf
    <3>4. /\ \A k \in Handlers : InFlight(k) => k = h
          /\ ~ Client!Hit(Cached) /\ ExitsBefore(calls[h].tx) # {}
      BY <3>1, <3>3 DEF IInv, FailureInv, AloneSound
    <3>5. ASSUME NEW s \in DOMAIN txs, s < calls[h].tx, txs[s].status \in {"flight", "Ok"}
          PROVE  s \in unanswered
      <4>1. calls[h].tx \in Nat
        BY <3>1 DEF ClientKnown
      <4>2. calls[h].tx # s
        BY <3>5, <4>1
      <4>3. ~ Awaited(s)
        BY <3>4, <4>2 DEF Awaited
      <4>4. QED BY <3>4, <3>5, <4>3 DEF IInv, FailureInv, Accounted
    <3>6. ExitsBefore(calls[h].tx)' = ExitsBefore(calls[h].tx)
      BY <1>2, <3>1 DEF ExitsBefore
    <3>7. QED BY <1>2, <2>1, <3>1, <3>4, <3>5, <3>6
  <2>4. QED BY <2>2, <2>3 DEF RejectedSound
<1>16. QED
  BY <1>6, <1>7, <1>8, <1>9, <1>10, <1>11, <1>12, <1>13, <1>14, <1>15 DEF IInv, FailureInv

(* A transaction lands: whether it runs or finds the window occupied, the  *)
(* chain has an exit that covers every call made so far.                   *)
LEMMA LandPreserves ==
  ASSUME ClientKnown, IInv, NEW t \in DOMAIN txs, Land(t), Client!Land(t)
  PROVE  IInv'
<1>1. /\ UNCHANGED <<clock, wall, writeCache, calls>>
      /\ DOMAIN txs' = DOMAIN txs /\ txs[t].status = "flight"
      /\ \A s \in DOMAIN txs : s # t => txs'[s] = txs[s]
      /\ \/ /\ txs'[t].status = "Ok"
            /\ Anchor' = clock /\ Position \in initialized'
         \/ /\ txs'[t].status = "RebalanceTooSoon"
            /\ UNCHANGED <<initialized, lastRebalanced>>
            /\ Anchor # 0 /\ clock - Anchor < RateLimit
  BY LandEffect
<1>2. /\ UNCHANGED <<alive, tick, lastFire, readCache, startedAt, alone, lag, breachedSince>>
      /\ UNCHANGED <<unanswered, failedAt>>
  BY DEF Land, history
<1>3. /\ clock = wall /\ wall \in Nat \ {0} /\ Anchor \in Nat /\ lastFire \in Nat
      /\ lastFire <= wall /\ breachedSince \in Nat
      /\ RateLimit \in Nat \ {0} /\ RateLimit <= WriteThrottle /\ WriteThrottle \in Nat
      /\ MaxLatency \in Nat /\ TickMs \in Nat /\ Jitter \in Nat
      /\ \A h \in Handlers : startedAt[h] \in Nat /\ startedAt[h] <= wall
  BY LoopBounds, TimerAssumption, ClientAssumption, WindowsAssumption
     DEF IInv, TimesKept, ClientKnown, Anchor
<1>4. Cached' = Cached /\ \A h \in Handlers : InFlight(h)' <=> InFlight(h)
  BY <1>1 DEF Cached, InFlight
<1>5. \A h \in Handlers : InFlight(h) =>
        IF calls[h].tx = t THEN StatusOf(h) = "flight" /\ StatusOf(h)' = txs'[t].status
        ELSE StatusOf(h)' = StatusOf(h)
  BY <1>1 DEF StatusOf, ClientKnown
<1>6. LoopTyped' /\ VerdictSound' /\ TimesKept'
  BY <1>1, <1>2, <1>4 DEF IInv, LoopTyped, VerdictSound, TimesKept
<1>7. TxsValid'
  BY <1>1 DEF IInv, TxsValid
<1>8. ASSUME NEW y \in Nat, y <= wall PROVE Covered(y)'
  <2>1. CASE Anchor' = clock
    BY <1>1, <1>3, <1>8, <2>1 DEF Covered
  <2>2. CASE UNCHANGED lastRebalanced /\ Anchor # 0 /\ clock - Anchor < RateLimit
    <3>1. Anchor' = Anchor /\ y < Anchor + WriteThrottle + MaxLatency
      BY <1>3, <1>8, <2>2 DEF Anchor
    <3>2. QED BY <2>2, <3>1 DEF Covered
  <2>3. QED BY <1>1, <2>1, <2>2
<1>9. CallsFollowBreach'
  <2>1. ASSUME NEW z \in breachedSince .. lastFire
        PROVE  z \in z .. lastFire /\ z <= z + TickMs + Jitter /\ Covered(z)'
    BY <1>3, <1>8, <2>1
  <2>2. QED BY <1>2, <2>1 DEF CallsFollowBreach
<1>10. AnchorKnown'
  <2>1. CASE txs'[t].status = "Ok" /\ Anchor' = clock /\ Position \in initialized'
    <3>1. \A h \in Handlers : Anchor' # 0 /\ startedAt'[h] <= Anchor'
      BY <1>2, <1>3, <2>1
    <3>2. Client!Hit(Cached) => Cached.lastExecutedAt <= wall /\ Cached.lastExecutedAt \in Nat
      BY DEF IInv, AnchorKnown, ClientKnown, Cached, Client!Entry
    <3>3. Client!Hit(Cached)' => /\ Cached'.lastExecutedAt <= Anchor' + MaxLatency
                                 /\ Cached'.lastExecutedAt <= wall' /\ Anchor' # 0
      BY <1>1, <1>3, <1>4, <2>1, <3>2 DEF Client!Hit
    <3>4. QED BY <2>1, <3>1, <3>3 DEF AnchorKnown
  <2>2. CASE /\ txs'[t].status = "RebalanceTooSoon" /\ UNCHANGED <<initialized, lastRebalanced>>
    <3>1. \A h \in Handlers : InFlight(h)' /\ StatusOf(h)' = "Ok" => StatusOf(h) = "Ok"
      BY <1>4, <1>5, <2>2
    <3>2. Anchor' = Anchor
      BY <2>2 DEF Anchor
    <3>3. QED BY <1>1, <1>2, <1>4, <2>2, <3>1, <3>2 DEF IInv, AnchorKnown, Client!Hit
  <2>3. QED BY <1>1, <2>1, <2>2
<1>11. AloneSound'
  <2>1. ASSUME NEW h \in Handlers, InFlight(h), alone[h]
        PROVE  /\ \A other \in Handlers : InFlight(other) => other = h
               /\ calls[h].cachedWrite = Cached
               /\ \A s \in DOMAIN txs : s <= calls[h].tx
               /\ StatusOf(h)' = "RebalanceTooSoon" => ExitsBefore(calls[h].tx)' # {}
    <3>1. /\ \A other \in Handlers : InFlight(other) => other = h
          /\ calls[h].cachedWrite = Cached
          /\ \A s \in DOMAIN txs : s <= calls[h].tx
          /\ StatusOf(h) = "RebalanceTooSoon" => ExitsBefore(calls[h].tx) # {}
      BY <2>1 DEF IInv, FailureInv, AloneSound
    <3>2. ASSUME StatusOf(h)' = "RebalanceTooSoon" PROVE ExitsBefore(calls[h].tx)' # {}
      <4>1. CASE calls[h].tx = t
        <5>1. PICK s \in DOMAIN txs : txs[s].status = "Ok"
          BY <1>1, <1>5, <2>1, <3>2, <4>1 DEF IInv, FailureInv, ExitIsLogged
        <5>2. s # t /\ txs'[s].status = "Ok"
          BY <1>1, <5>1
        <5>3. s \in 1 .. t - 1
          BY <3>1, <4>1, <5>1, <5>2 DEF ClientKnown
        <5>4. QED BY <1>1, <4>1, <5>2, <5>3 DEF ExitsBefore, ClientKnown
      <4>2. CASE calls[h].tx # t
        <5>1. PICK s \in 1 .. calls[h].tx - 1 : txs[s].status = "Ok"
          BY <1>5, <2>1, <3>1, <3>2, <4>2 DEF ExitsBefore
        <5>2. calls[h].tx \in DOMAIN txs /\ s \in DOMAIN txs
          BY <2>1, <5>1 DEF ClientKnown
        <5>3. txs'[s].status = "Ok"
          BY <1>1, <5>1, <5>2
        <5>4. QED BY <1>1, <5>1, <5>3 DEF ExitsBefore, ClientKnown
      <4>3. QED BY <4>1, <4>2
    <3>3. QED BY <3>1, <3>2
  <2>2. QED BY <1>1, <1>2, <1>4, <2>1 DEF AloneSound, Client!Hit
<1>12. Accounted'
  <2>1. \A s : Awaited(s)' <=> Awaited(s)
    BY <1>1, <1>4 DEF Awaited
  <2>2. \A s \in DOMAIN txs : s # t /\ txs'[s].status \in {"flight", "Ok"} =>
          s \in unanswered \/ Awaited(s) \/ (txs'[s].status = "Ok" /\ Client!Hit(Cached))
    BY <1>1 DEF IInv, FailureInv, Accounted
  <2>3. t \in unanswered \/ Awaited(t)
    BY <1>1 DEF IInv, FailureInv, Accounted
  <2>4. QED BY <1>1, <1>2, <1>4, <2>1, <2>2, <2>3 DEF Accounted, Client!Hit
<1>13. ExitIsLogged'
  <2>1. CASE txs'[t].status = "Ok"
    BY <1>1, <2>1 DEF ExitIsLogged
  <2>2. CASE Anchor # 0
    <3>1. PICK s \in DOMAIN txs : txs[s].status = "Ok"
      BY <2>2 DEF IInv, FailureInv, ExitIsLogged
    <3>2. QED BY <1>1, <3>1 DEF ExitIsLogged
  <2>3. QED BY <1>1, <2>1, <2>2
<1>14. RejectedSound'
  <2>1. ASSUME NEW h \in Handlers, calls[h].phase = "rejected", alone[h],
               calls[h].tx \notin unanswered
        PROVE  /\ calls[h].tx \in DOMAIN txs
               /\ ExitsBefore(calls[h].tx)' # {}
               /\ \A s \in DOMAIN txs :
                    s < calls[h].tx /\ txs'[s].status \in {"flight", "Ok"}
                      => s \in unanswered
    <3>1. /\ calls[h].tx \in DOMAIN txs /\ ExitsBefore(calls[h].tx) # {}
          /\ \A s \in DOMAIN txs :
               s < calls[h].tx /\ txs[s].status \in {"flight", "Ok"} => s \in unanswered
      BY <2>1 DEF IInv, FailureInv, RejectedSound
    <3>2. PICK s \in 1 .. calls[h].tx - 1 : txs[s].status = "Ok"
      BY <3>1 DEF ExitsBefore
    <3>3. s \in DOMAIN txs
      BY <3>1, <3>2 DEF ClientKnown
    <3>4. txs'[s].status = "Ok"
      BY <1>1, <3>2, <3>3
    <3>5. ExitsBefore(calls[h].tx)' # {}
      BY <1>1, <3>2, <3>4 DEF ExitsBefore
    <3>6. QED BY <1>1, <3>1, <3>5
  <2>2. QED BY <1>1, <1>2, <2>1 DEF RejectedSound
<1>15. QED
  BY <1>6, <1>7, <1>9, <1>10, <1>11, <1>12, <1>13, <1>14 DEF IInv, FailureInv

(* A transaction expires: who waits for it still does, until told.         *)
LEMMA DropPreserves ==
  ASSUME ClientKnown, IInv, NEW t \in DOMAIN txs, Land(t), Client!Drop(t)
  PROVE  IInv'
<1>1. /\ UNCHANGED <<clock, initialized, lastRebalanced, wall, writeCache, calls>>
      /\ DOMAIN txs' = DOMAIN txs /\ txs[t].status = "flight"
      /\ \A s \in DOMAIN txs : s # t => txs'[s] = txs[s]
      /\ txs'[t].status = "dropped"
  BY DropEffect
<1>2. /\ UNCHANGED <<alive, tick, lastFire, readCache, startedAt, alone, lag, breachedSince>>
      /\ UNCHANGED <<unanswered, failedAt>>
  BY DEF Land, history
<1>3. Cached' = Cached /\ Anchor' = Anchor /\ \A h \in Handlers : InFlight(h)' <=> InFlight(h)
  BY <1>1 DEF Cached, Anchor, InFlight
<1>4. \A h \in Handlers : InFlight(h) =>
        IF calls[h].tx = t THEN StatusOf(h) = "flight" /\ StatusOf(h)' = "dropped"
        ELSE StatusOf(h)' = StatusOf(h)
  BY <1>1 DEF StatusOf, ClientKnown
<1>5. LoopTyped' /\ VerdictSound' /\ TimesKept' /\ TxsValid'
  BY <1>1, <1>2, <1>3 DEF IInv, LoopTyped, VerdictSound, TimesKept, TxsValid
<1>6. AnchorKnown'
  <2>1. \A h \in Handlers : InFlight(h)' /\ StatusOf(h)' = "Ok" => InFlight(h) /\ StatusOf(h) = "Ok"
    BY <1>3, <1>4
  <2>2. QED BY <1>1, <1>2, <1>3, <2>1 DEF IInv, AnchorKnown, Client!Hit
<1>7. CallsFollowBreach'
  <2>1. ASSUME NEW y PROVE Covered(y) \/ Pending(y) => Covered(y)' \/ Pending(y)'
    <3>1. Covered(y) => Covered(y)'
      BY <1>3 DEF Covered
    <3>2. Pending(y) => Pending(y)'
      BY <1>2, <1>3, <1>4 DEF Pending
    <3>3. QED BY <3>1, <3>2
  <2>2. QED BY <1>2, <2>1 DEF IInv, CallsFollowBreach
<1>8. \A s \in DOMAIN txs :
        /\ txs'[s].status = "Ok" <=> txs[s].status = "Ok"
        /\ txs'[s].status = "flight" => txs[s].status = "flight"
  BY <1>1
<1>9. ASSUME NEW n \in DOMAIN txs PROVE ExitsBefore(n)' = ExitsBefore(n)
  <2>1. 1 .. n - 1 \subseteq DOMAIN txs
    BY DEF ClientKnown
  <2>2. QED BY <1>8, <2>1 DEF ExitsBefore
<1>10. AloneSound'
  <2>1. ASSUME NEW h \in Handlers, InFlight(h), alone[h]
        PROVE  StatusOf(h)' = "RebalanceTooSoon" => ExitsBefore(calls[h].tx)' # {}
    <3>1. ExitsBefore(calls[h].tx)' = ExitsBefore(calls[h].tx)
      BY <1>1, <1>9, <2>1 DEF ExitsBefore, ClientKnown
    <3>2. StatusOf(h)' = "RebalanceTooSoon" => StatusOf(h) = "RebalanceTooSoon"
      BY <1>4, <2>1
    <3>3. QED BY <2>1, <3>1, <3>2 DEF IInv, FailureInv, AloneSound
  <2>2. QED BY <1>1, <1>2, <1>3, <2>1 DEF IInv, FailureInv, AloneSound
<1>11. Accounted'
  <2>1. \A s : Awaited(s)' <=> Awaited(s)
    BY <1>1, <1>3 DEF Awaited
  <2>2. QED BY <1>1, <1>2, <1>3, <1>8, <2>1 DEF IInv, FailureInv, Accounted, Client!Hit
<1>12. ExitIsLogged'
  BY <1>1, <1>3, <1>8 DEF IInv, FailureInv, ExitIsLogged
<1>13. RejectedSound'
  <2>1. ASSUME NEW h \in Handlers, calls[h].tx \in DOMAIN txs
        PROVE  ExitsBefore(calls[h].tx)' = ExitsBefore(calls[h].tx)
    BY <1>1, <1>9, <2>1 DEF ExitsBefore
  <2>2. QED BY <1>1, <1>2, <1>8, <2>1 DEF IInv, FailureInv, RejectedSound
<1>14. QED
  BY <1>5, <1>6, <1>7, <1>10, <1>11, <1>12, <1>13 DEF IInv, FailureInv

(* Time passes, no further than a tick or an answer that is due.           *)
LEMMA AdvancePreserves ==
  ASSUME ClientKnown, IInv, Advance
  PROVE  IInv'
<1>1. /\ wall' = wall + 1 /\ clock' = clock + 1
      /\ wall < lastFire + TickMs + Jitter
      /\ \A h \in Handlers : InFlight(h) => wall < startedAt[h] + MaxLatency
      /\ UNCHANGED <<initialized, lastRebalanced, writeCache, calls, txs>>
      /\ UNCHANGED <<alive, tick, lastFire, readCache, startedAt, alone, lag, breachedSince>>
      /\ UNCHANGED <<unanswered, failedAt>>
  BY DEF Advance, Client!Tick, Client!Chain!Tick, history
<1>2. /\ wall \in Nat \ {0} /\ lastFire \in Nat /\ lastFire <= wall
      /\ readCache.at \in Nat /\ readCache.at <= wall
      /\ TickMs \in Nat /\ Jitter \in Nat /\ MaxLatency \in Nat
      /\ breachedSince \in Nat /\ breachedSince <= wall
      /\ \A h \in Handlers : startedAt[h] \in Nat /\ startedAt[h] <= wall
  BY LoopBounds, TimerAssumption, WindowsAssumption DEF IInv, TimesKept
<1>3. Anchor' = Anchor /\ Cached' = Cached
  BY <1>1 DEF Anchor, Cached
<1>4. \A h \in Handlers : (InFlight(h)' <=> InFlight(h)) /\ StatusOf(h)' = StatusOf(h)
  BY <1>1 DEF InFlight, StatusOf
<1>5. 0 .. wall \subseteq 0 .. wall'
  BY <1>1, <1>2
<1>6. LoopTyped'
  <2>1. LoopTyped
    BY DEF IInv
  <2>2. readCache' \in [at : 0 .. wall', breached : BOOLEAN]
    BY <1>1, <1>5, <2>1 DEF LoopTyped
  <2>3. startedAt' \in [Handlers -> 0 .. wall']
    BY <1>1, <1>5, <2>1 DEF LoopTyped
  <2>4. lastFire' \in 0 .. wall' /\ breachedSince' \in 0 .. wall' /\ failedAt' \in 0 .. wall'
    BY <1>1, <1>5, <2>1 DEF LoopTyped
  <2>5. QED BY <1>1, <2>1, <2>2, <2>3, <2>4 DEF LoopTyped
<1>7. VerdictSound'
  BY <1>1 DEF IInv, VerdictSound
<1>8. TimesKept'
  BY <1>1, <1>2, <1>4 DEF IInv, TimesKept
<1>9. TxsValid'
  BY <1>1 DEF IInv, TxsValid
<1>10. AnchorKnown'
  <2>1. Client!Hit(Cached) => Cached.lastExecutedAt <= wall /\ Cached.lastExecutedAt \in Nat
    BY DEF IInv, AnchorKnown, ClientKnown, Cached, Client!Entry
  <2>2. Client!Hit(Cached) => Cached.lastExecutedAt <= wall'
    BY <1>1, <1>2, <2>1
  <2>3. QED BY <1>1, <1>3, <1>4, <2>2 DEF IInv, AnchorKnown, Client!Hit
<1>11. CallsFollowBreach'
  BY <1>1, <1>3, <1>4 DEF IInv, CallsFollowBreach, Covered, Pending
<1>12. FailureInv'
  BY <1>1, <1>3, <1>4 DEF IInv, FailureInv, AloneSound, Accounted, Awaited, ExitIsLogged,
     RejectedSound, ExitsBefore, Client!Hit
<1>13. QED BY <1>6, <1>7, <1>8, <1>9, <1>10, <1>11, <1>12 DEF IInv

-----------------------------------------------------------------------------
(* The latest exit.                                                        *)

(* A step that runs no exit, stores none and ends no call with one, keeps  *)
(* what is latest.                                                         *)
LEMMA LatestKept ==
  ASSUME ClientKnown, LatestInv, clock \in Nat, clock' \in Nat, clock <= clock',
         UNCHANGED <<events, writeCache, unanswered>>, DOMAIN txs \subseteq DOMAIN txs',
         \A t \in DOMAIN txs' : txs'[t].status = "Ok" => t \in DOMAIN txs /\ txs'[t] = txs[t],
         \A t \in DOMAIN txs : txs[t].status = "Ok" => txs'[t] = txs[t],
         \A h \in Handlers : InFlight(h)' /\ StatusOf(h)' = "Ok" =>
           /\ InFlight(h) /\ StatusOf(h) = "Ok"
           /\ calls'[h].tx = calls[h].tx /\ startedAt'[h] = startedAt[h],
         \A h \in Handlers : InFlight(h) /\ StatusOf(h) = "Ok" =>
           InFlight(h)' /\ calls'[h].tx = calls[h].tx
  PROVE  LatestInv'
<1>1. Cached' = Cached
  BY DEF Cached
<1>2. \A i \in DOMAIN events : events[i].ts \in Nat
  <2>1. \A i \in DOMAIN events : events[i] \in Client!Chain!Event
    BY DEF ClientKnown
  <2>2. QED BY <2>1 DEF Client!Chain!Event
<1>3. EventsSound'
  <2>1. \A i \in DOMAIN events' : events'[i].policy = Position /\ events'[i].ts <= clock'
    BY <1>2 DEF LatestInv, EventsSound
  <2>2. \A t \in DOMAIN txs' : txs'[t].status = "Ok" => txs'[t].event \in DOMAIN events'
    BY DEF LatestInv, EventsSound
  <2>3. \A h \in Handlers : InFlight(h)' /\ StatusOf(h)' = "Ok" =>
          startedAt'[h] <= events'[txs'[calls'[h].tx].event].ts
    <3>1. ASSUME NEW h \in Handlers, InFlight(h)', StatusOf(h)' = "Ok"
          PROVE  startedAt'[h] <= events'[txs'[calls'[h].tx].event].ts
      <4>1. /\ InFlight(h) /\ StatusOf(h) = "Ok" /\ calls'[h].tx = calls[h].tx
            /\ startedAt'[h] = startedAt[h] /\ calls[h].tx \in DOMAIN txs
        BY <3>1 DEF ClientKnown
      <4>2. txs'[calls[h].tx] = txs[calls[h].tx]
        BY <4>1 DEF StatusOf
      <4>3. QED BY <4>1, <4>2 DEF LatestInv, EventsSound
    <3>2. QED BY <3>1
  <2>4. QED BY <2>1, <2>2, <2>3 DEF EventsSound
<1>4. CachedSound'
  BY <1>1 DEF LatestInv, CachedSound, Client!Hit
<1>5. ASSUME MaxLatency < RateLimit, NEW t \in DOMAIN txs', Answered(t)'
      PROVE  NotAfterCached(t)'
  <2>1. t \in DOMAIN txs /\ txs[t].status = "Ok" /\ txs'[t] = txs[t] /\ t \notin unanswered
    BY <1>5 DEF Answered
  <2>2. \A h \in Handlers : InFlight(h) => calls[h].tx # t
    BY <1>5, <2>1 DEF Answered, StatusOf
  <2>3. NotAfterCached(t)
    BY <1>5, <2>1, <2>2 DEF Answered, LatestInv
  <2>4. txs'[Cached.lastTxSig] = txs[Cached.lastTxSig]
    BY <2>3 DEF NotAfterCached, LatestInv, CachedSound
  <2>5. QED BY <1>1, <2>1, <2>3, <2>4 DEF NotAfterCached, Client!Hit
<1>6. QED BY <1>3, <1>4, <1>5 DEF LatestInv

(* A tick of the timer starts a call, or none.                             *)
LEMMA FireKeepsLatest ==
  ASSUME ClientKnown, LatestInv, Fire
  PROVE  LatestInv'
<1>1. UNCHANGED unanswered /\ clock \in Nat
  BY DEF Fire, ClientKnown
<1>2. CASE ~ Acts(tick + 1)
  <2>1. UNCHANGED <<clock, events, writeCache, calls, txs, startedAt>>
    BY <1>2 DEF Fire, clientVars
  <2>2. QED BY <1>1, <2>1, LatestKept DEF InFlight, StatusOf
<1>3. ASSUME NEW h \in Handlers, Execute(h), Client!Shortcut(h, ExitPlan)
      PROVE  LatestInv'
  <2>1. /\ ~ InFlight(h) /\ calls'[h].phase = "resolved"
        /\ \A k \in Handlers : k # h => calls'[k] = calls[k]
        /\ UNCHANGED <<clock, events, wall, writeCache, txs>>
    BY <1>3, ShortcutEffect DEF OthersKept, ChainKept
  <2>2. \A k \in Handlers : k # h => startedAt'[k] = startedAt[k] \/ ~ InFlight(k)
    BY <1>3 DEF Execute
  <2>3. \A k \in Handlers :
          /\ InFlight(k)' <=> InFlight(k)
          /\ InFlight(k) => /\ StatusOf(k)' = StatusOf(k) /\ calls'[k].tx = calls[k].tx
                            /\ startedAt'[k] = startedAt[k]
    BY <2>1, <2>2 DEF InFlight, StatusOf
  <2>4. QED BY <1>1, <2>1, <2>3, LatestKept
<1>4. ASSUME NEW h \in Handlers, Execute(h), Client!Submit(h, ExitPlan)
      PROVE  LatestInv'
  <2>1. /\ ~ InFlight(h) /\ calls'[h].phase = "waiting"
        /\ \A k \in Handlers : k # h => calls'[k] = calls[k]
        /\ UNCHANGED <<clock, events, wall, writeCache>>
    BY <1>4, SubmitEffect DEF OthersKept, ChainKept
  <2>2. /\ DOMAIN txs \subseteq DOMAIN txs'
        /\ calls'[h].tx \in DOMAIN txs' /\ txs'[calls'[h].tx].status = "flight"
        /\ \A t \in DOMAIN txs' : t # calls'[h].tx => t \in DOMAIN txs /\ txs'[t] = txs[t]
        /\ \A t \in DOMAIN txs : txs'[t] = txs[t]
    BY <1>4, SubmitEffect
  <2>3. \A k \in Handlers : k # h => startedAt'[k] = startedAt[k] \/ ~ InFlight(k)
    BY <1>4 DEF Execute
  <2>4. \A k \in Handlers : k # h =>
          /\ InFlight(k)' <=> InFlight(k)
          /\ InFlight(k) => /\ StatusOf(k)' = StatusOf(k) /\ calls'[k].tx = calls[k].tx
                            /\ startedAt'[k] = startedAt[k]
    BY <2>1, <2>2, <2>3 DEF InFlight, StatusOf, ClientKnown
  <2>5. StatusOf(h)' = "flight"
    BY <2>2 DEF StatusOf
  <2>6. \A t \in DOMAIN txs' : txs'[t].status = "Ok" => t \in DOMAIN txs /\ txs'[t] = txs[t]
    BY <2>2
  <2>7. \A k \in Handlers : InFlight(k)' /\ StatusOf(k)' = "Ok" =>
          /\ InFlight(k) /\ StatusOf(k) = "Ok"
          /\ calls'[k].tx = calls[k].tx /\ startedAt'[k] = startedAt[k]
    BY <2>4, <2>5
  <2>8. \A k \in Handlers : InFlight(k) /\ StatusOf(k) = "Ok" =>
          InFlight(k)' /\ calls'[k].tx = calls[k].tx
    BY <2>1, <2>4
  <2>9. QED BY <1>1, <2>1, <2>2, <2>6, <2>7, <2>8, LatestKept
<1>5. QED BY <1>2, <1>3, <1>4 DEF Fire, Execute

(* A confirmed exit is the latest: a later one would be a window younger,  *)
(* so younger than the confirmation takes.                                 *)
LEMMA ConfirmedIsLatest ==
  ASSUME ClientKnown, IInv, LatestInv, Client!NoDoubleSwap, MaxLatency < RateLimit,
         NEW h \in Handlers, InFlight(h), StatusOf(h) = "Ok",
         NEW t \in DOMAIN txs, txs[t].status = "Ok"
  PROVE  txs[t].event <= txs[calls[h].tx].event
<1> DEFINE c == txs[calls[h].tx].event
           e == txs[t].event
<1>1. /\ c \in DOMAIN events /\ e \in DOMAIN events
      /\ events[c].policy = Position /\ events[e].policy = Position
      /\ events[e].ts <= clock /\ startedAt[h] <= events[c].ts
  BY DEF LatestInv, EventsSound, StatusOf, ClientKnown
<1>2. c \in Nat /\ e \in Nat /\ events[c].ts \in Nat /\ events[e].ts \in Nat
  <2>1. /\ events[c] \in Client!Chain!Event /\ events[e] \in Client!Chain!Event
        /\ DOMAIN events \subseteq Nat
    BY <1>1 DEF ClientKnown
  <2> HIDE DEF c, e
  <2>2. QED BY <1>1, <2>1 DEF Client!Chain!Event
<1>3. /\ clock = wall /\ wall <= startedAt[h] + MaxLatency
      /\ startedAt[h] \in Nat /\ clock \in Nat /\ MaxLatency \in Nat /\ RateLimit \in Nat
  BY LoopBounds, WindowsAssumption, ClientAssumption DEF IInv, TimesKept, ClientKnown
<1>4. c < e => events[e].ts - events[c].ts >= RateLimit
  BY <1>1 DEF Client!NoDoubleSwap, Client!Chain!SpacedExecutions
<1> HIDE DEF c, e
<1>5. e <= c
  BY <1>1, <1>2, <1>3, <1>4
<1>6. QED BY <1>5 DEF c, e

(* A call comes back.                                                      *)
LEMMA EndKeepsLatest ==
  ASSUME ClientKnown, IInv, LatestInv, Client!NoDoubleSwap,
         NEW h \in Handlers, Finish(h) \/ Fail(h)
  PROVE  LatestInv'
<1>1. startedAt' = [startedAt EXCEPT ![h] = 0] /\ clock \in Nat
  BY DEF Finish, Fail, ClientKnown
<1>2. \A k \in Handlers : k # h => startedAt'[k] = startedAt[k]
  BY <1>1 DEF IInv, LoopTyped
<1>3. ASSUME InFlight(h), calls'[h].phase \in {"resolved", "rejected"},
             \A k \in Handlers : k # h => calls'[k] = calls[k], UNCHANGED txs
      PROVE  \A k \in Handlers :
               /\ InFlight(k)' <=> (k # h /\ InFlight(k))
               /\ k # h /\ InFlight(k) => /\ StatusOf(k)' = StatusOf(k)
                                          /\ startedAt'[k] = startedAt[k]
                                          /\ calls'[k].tx = calls[k].tx
  BY <1>2, <1>3 DEF InFlight, StatusOf
<1>4. CASE (Client!CatchTooSoon(h) \/ Client!Rethrow(h)) /\ UNCHANGED unanswered
  <2>1. /\ InFlight(h) /\ calls'[h].phase \in {"resolved", "rejected"}
        /\ \A k \in Handlers : k # h => calls'[k] = calls[k]
        /\ UNCHANGED <<clock, events, writeCache, txs>> /\ StatusOf(h) # "Ok"
    BY <1>4, RefusalEffect DEF OthersKept, ChainKept
  <2>2. QED BY <1>1, <1>3, <1>4, <2>1, LatestKept
<1>5. CASE Client!Abandon(h) /\ unanswered' = unanswered \cup {calls[h].tx}
  <2>1. /\ InFlight(h) /\ calls'[h].phase \in {"resolved", "rejected"}
        /\ \A k \in Handlers : k # h => calls'[k] = calls[k]
        /\ UNCHANGED <<clock, events, writeCache, txs>>
    BY <1>5, AbandonEffect DEF OthersKept, ChainKept
  <2>2. Cached' = Cached
    BY <2>1 DEF Cached
  <2>3. EventsSound' /\ CachedSound'
    BY <1>3, <2>1, <2>2 DEF LatestInv, EventsSound, CachedSound, Client!Hit
  <2>4. ASSUME NEW t \in DOMAIN txs, Answered(t)' PROVE Answered(t)
    <3>1. txs[t].status = "Ok" /\ t \notin unanswered /\ t # calls[h].tx
      BY <1>5, <2>1, <2>4 DEF Answered
    <3>2. \A k \in Handlers : InFlight(k) => calls[k].tx # t
      BY <1>3, <2>1, <2>4, <3>1 DEF Answered
    <3>3. QED BY <3>1, <3>2 DEF Answered
  <2>5. \A t \in DOMAIN txs : NotAfterCached(t) => NotAfterCached(t)'
    BY <2>1, <2>2 DEF NotAfterCached, Client!Hit
  <2>6. QED BY <2>1, <2>3, <2>4, <2>5 DEF LatestInv
<1>6. CASE Client!Confirm(h)
  <2>1. /\ InFlight(h) /\ calls'[h].phase \in {"resolved", "rejected"}
        /\ \A k \in Handlers : k # h => calls'[k] = calls[k]
        /\ UNCHANGED <<clock, events, txs>> /\ StatusOf(h) = "Ok"
        /\ Client!Hit(Cached)' /\ Cached'.lastTxSig = calls[h].tx
    BY <1>6, ConfirmEffect DEF OthersKept, ChainKept
  <2>2. EventsSound'
    BY <1>3, <2>1 DEF LatestInv, EventsSound
  <2>3. CachedSound'
    BY <2>1 DEF CachedSound, StatusOf, ClientKnown
  <2>4. ASSUME MaxLatency < RateLimit, NEW t \in DOMAIN txs', Answered(t)'
        PROVE  NotAfterCached(t)'
    <3>1. t \in DOMAIN txs /\ txs[t].status = "Ok"
      BY <2>1, <2>4 DEF Answered
    <3>2. txs[t].event <= txs[calls[h].tx].event
      BY <2>1, <2>4, <3>1, ConfirmedIsLatest
    <3>3. QED BY <2>1, <3>2 DEF NotAfterCached
  <2>5. QED BY <2>2, <2>3, <2>4 DEF LatestInv
<1>7. QED BY <1>4, <1>5, <1>6 DEF Finish, Fail, Refused, GivenUp, history

(* An exit that runs is one nobody was told of yet.                        *)
LEMMA LandKeepsLatest ==
  ASSUME ClientKnown, IInv, LatestInv, NEW t \in DOMAIN txs, Land(t), Client!Land(t)
  PROVE  LatestInv'
<1>1. /\ UNCHANGED <<clock, writeCache, calls>> /\ UNCHANGED <<startedAt, unanswered>>
      /\ DOMAIN txs' = DOMAIN txs /\ txs[t].status = "flight"
      /\ \A s \in DOMAIN txs : s # t => txs'[s] = txs[s]
  BY LandEffect DEF Land, history
<1>2. Cached' = Cached /\ \A h \in Handlers : InFlight(h)' <=> InFlight(h)
  BY <1>1 DEF Cached, InFlight
<1>3. \A h \in Handlers : InFlight(h) =>
        IF calls[h].tx = t THEN StatusOf(h) = "flight" /\ StatusOf(h)' = txs'[t].status
        ELSE StatusOf(h)' = StatusOf(h)
  BY <1>1 DEF StatusOf, ClientKnown
<1>4. CASE txs'[t].status = "RebalanceTooSoon" /\ UNCHANGED events
  <2>1. clock \in Nat /\ clock' \in Nat /\ clock <= clock'
    BY <1>1 DEF ClientKnown
  <2>2. \A s \in DOMAIN txs' : txs'[s].status = "Ok" => s \in DOMAIN txs /\ txs'[s] = txs[s]
    BY <1>1, <1>4
  <2>3. \A s \in DOMAIN txs : txs[s].status = "Ok" => txs'[s] = txs[s]
    BY <1>1
  <2>4. \A h \in Handlers : InFlight(h)' /\ StatusOf(h)' = "Ok" =>
          /\ InFlight(h) /\ StatusOf(h) = "Ok"
          /\ calls'[h].tx = calls[h].tx /\ startedAt'[h] = startedAt[h]
    BY <1>1, <1>2, <1>3, <1>4
  <2>5. QED BY <1>1, <1>2, <1>4, <2>1, <2>2, <2>3, <2>4, LatestKept
<1>5. CASE /\ txs'[t].status = "Ok" /\ txs'[t].event = Len(events) + 1
           /\ DOMAIN events = 1 .. Len(events) /\ Len(events) \in Nat
           /\ DOMAIN events' = 1 .. Len(events) + 1
           /\ \A i \in DOMAIN events : events'[i] = events[i]
           /\ events'[Len(events) + 1].policy = Position
           /\ events'[Len(events) + 1].ts = clock
  <2>1. \A i \in DOMAIN events' : events'[i].policy = Position /\ events'[i].ts <= clock'
    <3>1. \A i \in DOMAIN events' : i \in DOMAIN events \/ i = Len(events) + 1
      BY <1>5
    <3>2. clock <= clock
      BY DEF ClientKnown
    <3>3. QED BY <1>1, <1>5, <3>1, <3>2 DEF LatestInv, EventsSound
  <2>2. \A s \in DOMAIN txs' : txs'[s].status = "Ok" => txs'[s].event \in DOMAIN events'
    <3>1. \A s \in DOMAIN txs : s # t /\ txs'[s].status = "Ok" => txs'[s].event \in DOMAIN events
      BY <1>1 DEF LatestInv, EventsSound
    <3>2. DOMAIN events \subseteq DOMAIN events' /\ Len(events) + 1 \in DOMAIN events'
      BY <1>5
    <3>3. QED BY <1>1, <1>5, <3>1, <3>2
  <2>3. ASSUME NEW h \in Handlers, InFlight(h)', StatusOf(h)' = "Ok"
        PROVE  startedAt'[h] <= events'[txs'[calls'[h].tx].event].ts
    <3>1. CASE calls[h].tx = t
      <4>1. startedAt[h] <= clock
        BY LoopBounds DEF IInv, TimesKept
      <4>2. QED BY <1>1, <1>5, <3>1, <4>1
    <3>2. CASE calls[h].tx # t
      <4>1. InFlight(h) /\ StatusOf(h) = "Ok" /\ calls[h].tx \in DOMAIN txs
        BY <1>2, <1>3, <2>3, <3>2 DEF ClientKnown
      <4>2. /\ startedAt[h] <= events[txs[calls[h].tx].event].ts
            /\ txs[calls[h].tx].event \in DOMAIN events
        BY <4>1 DEF LatestInv, EventsSound, StatusOf
      <4>3. QED BY <1>1, <1>5, <3>2, <4>1, <4>2
    <3>3. QED BY <3>1, <3>2
  <2>4. EventsSound'
    BY <2>1, <2>2, <2>3 DEF EventsSound
  <2>5. Client!Hit(Cached) => /\ Cached.lastTxSig \in DOMAIN txs /\ Cached.lastTxSig # t
                              /\ txs'[Cached.lastTxSig] = txs[Cached.lastTxSig]
                              /\ txs[Cached.lastTxSig].status = "Ok"
    BY <1>1 DEF LatestInv, CachedSound
  <2>6. CachedSound'
    BY <1>1, <1>2, <2>5 DEF CachedSound, Client!Hit
  <2>7. ASSUME MaxLatency < RateLimit, NEW s \in DOMAIN txs', Answered(s)'
        PROVE  NotAfterCached(s)'
    <3>1. \A h \in Handlers : InFlight(h) => calls[h].tx # s
      BY <1>1, <1>2, <2>7 DEF Answered
    <3>2. s \notin unanswered
      BY <1>1, <2>7 DEF Answered
    <3>3. s # t
      BY <1>1, <3>1, <3>2 DEF IInv, FailureInv, Accounted, Awaited
    <3>4. txs'[s] = txs[s] /\ Answered(s)
      BY <1>1, <2>7, <3>1, <3>2, <3>3 DEF Answered
    <3>5. NotAfterCached(s)
      BY <1>1, <2>7, <3>4 DEF LatestInv
    <3>6. QED BY <1>2, <2>5, <3>4, <3>5 DEF NotAfterCached, Client!Hit
  <2>8. QED BY <2>4, <2>6, <2>7 DEF LatestInv
<1>6. QED BY <1>4, <1>5, LandEvents

(* The remaining steps leave the exits and who waits for them alone.       *)
LEMMA StepLatest ==
  ClientKnown /\ IInv /\ Client!NoDoubleSwap /\ LatestInv /\ [Next]_vars => LatestInv'
<1> SUFFICES ASSUME ClientKnown, IInv, Client!NoDoubleSwap, LatestInv, [Next]_vars
             PROVE  LatestInv'
  OBVIOUS
<1>1. clock \in Nat
  BY DEF ClientKnown
<1>2. ASSUME NEW t \in DOMAIN txs, Land(t), Client!Drop(t) PROVE LatestInv'
  <2>1. /\ UNCHANGED <<clock, events, writeCache, calls>> /\ UNCHANGED <<startedAt, unanswered>>
        /\ DOMAIN txs' = DOMAIN txs /\ txs[t].status = "flight" /\ txs'[t].status = "dropped"
        /\ \A s \in DOMAIN txs : s # t => txs'[s] = txs[s]
    BY <1>2, DropEffect DEF Land, history
  <2>2. \A h \in Handlers : InFlight(h)' <=> InFlight(h)
    BY <2>1 DEF InFlight
  <2>3. \A h \in Handlers : InFlight(h) =>
          IF calls[h].tx = t THEN StatusOf(h) = "flight" /\ StatusOf(h)' = "dropped"
          ELSE StatusOf(h)' = StatusOf(h)
    BY <2>1 DEF StatusOf, ClientKnown
  <2>4. \A s \in DOMAIN txs : txs'[s].status = "Ok" \/ txs[s].status = "Ok" => txs'[s] = txs[s]
    BY <2>1
  <2>5. QED BY <1>1, <2>1, <2>2, <2>3, <2>4, LatestKept
<1>3. CASE Advance
  <2>1. /\ clock' = clock + 1 /\ UNCHANGED <<events, writeCache, calls, txs>>
        /\ UNCHANGED <<startedAt, unanswered>>
    BY <1>3 DEF Advance, Client!Tick, Client!Chain!Tick, history
  <2>2. \A h \in Handlers : (InFlight(h)' <=> InFlight(h)) /\ StatusOf(h)' = StatusOf(h)
    BY <2>1 DEF InFlight, StatusOf
  <2>3. QED BY <1>1, <2>1, <2>2, LatestKept
<1>4. CASE UNCHANGED vars
  <2>1. /\ UNCHANGED <<clock, events, writeCache, calls, txs>>
        /\ UNCHANGED <<startedAt, unanswered>>
    BY <1>4 DEF vars, clientVars, history
  <2>2. \A h \in Handlers : (InFlight(h)' <=> InFlight(h)) /\ StatusOf(h)' = StatusOf(h)
    BY <2>1 DEF InFlight, StatusOf
  <2>3. QED BY <1>1, <2>1, <2>2, LatestKept
<1>5. QED
  BY <1>2, <1>3, <1>4, FireKeepsLatest, EndKeepsLatest, LandKeepsLatest DEF Next, Land

-----------------------------------------------------------------------------
(* The theorems.                                                           *)

(* The invariant holds when the process starts.                            *)
LEMMA InitIInv == Init => IInv
<1> SUFFICES ASSUME Init PROVE IInv
  OBVIOUS
<1>1. /\ clock = StartTime /\ wall = StartTime /\ txs = <<>> /\ lastRebalanced[Position] = 0
      /\ writeCache[Process][Position] = Client!NoEntry
  BY DEF Init, Client!Init, Client!Chain!Init
<1>2. \A h \in Handlers : calls[h].phase = "idle"
  BY DEF Init, Client!Init, Client!Settled
<1>3. /\ alive = TRUE /\ tick = 0 /\ lastFire = StartTime /\ readCache = NoCheck
      /\ startedAt = [h \in Handlers |-> 0] /\ alone = [h \in Handlers |-> TRUE]
      /\ lag = 0 /\ breachedSince = 0 /\ unanswered = {} /\ failedAt = 0
  BY DEF Init
<1>4. /\ StartTime \in Nat \ {0} /\ TickMs \in Nat /\ Jitter \in Nat
  BY ClientAssumption, TimerAssumption
<1>5. Anchor = 0 /\ ~ Client!Hit(Cached)
  BY <1>1 DEF Anchor, Cached, Client!Hit, Client!NoEntry
<1>6. LoopTyped
  BY <1>1, <1>3, <1>4 DEF LoopTyped, NoCheck
<1>7. VerdictSound
  BY <1>3, <1>4 DEF VerdictSound, NoCheck
<1>8. TimesKept
  BY <1>1, <1>2, <1>3, <1>4 DEF TimesKept, InFlight
<1>9. TxsValid /\ Accounted
  BY <1>1 DEF TxsValid, Accounted
<1>10. AnchorKnown /\ AloneSound /\ ExitIsLogged /\ RejectedSound
  BY <1>2, <1>5 DEF AnchorKnown, AloneSound, ExitIsLogged, RejectedSound, InFlight
<1>11. CallsFollowBreach
  BY <1>3 DEF CallsFollowBreach
<1>12. QED BY <1>6, <1>7, <1>8, <1>9, <1>10, <1>11 DEF IInv, FailureInv

(* Every step keeps it.                                                    *)
LEMMA StepIInv == ClientKnown /\ IInv /\ [Next]_vars => IInv'
<1> SUFFICES ASSUME ClientKnown, IInv, [Next]_vars PROVE IInv'
  OBVIOUS
<1>1. CASE Fire
  <2>1. CASE Acts(tick + 1)
    <3>1. PICK h \in Handlers : Execute(h)
      BY <1>1, <2>1 DEF Fire
    <3>2. Client!Shortcut(h, ExitPlan) \/ Client!Submit(h, ExitPlan)
      BY <3>1 DEF Execute
    <3>3. QED BY <1>1, <3>1, <3>2, ShortcutPreserves, SubmitPreserves
  <2>2. CASE ~ Acts(tick + 1)
    BY <1>1, <2>2, IdlePreserves
  <2>3. QED BY <2>1, <2>2
<1>2. CASE UNCHANGED vars
  BY <1>2 DEF vars, clientVars, history, IInv, LoopTyped, VerdictSound, TimesKept, TxsValid,
     AnchorKnown, CallsFollowBreach, Covered, Pending, FailureInv, AloneSound, Accounted,
     Awaited, ExitIsLogged, RejectedSound, ExitsBefore, Anchor, Cached, StatusOf, InFlight,
     Client!Hit
<1>3. QED
  BY <1>1, <1>2, EndPreserves, LandPreserves, DropPreserves, AdvancePreserves DEF Next, Land

(* The inductive invariant holds in every behaviour.                       *)
THEOREM Invariance == Spec => []IInv
BY InitIInv, StepIInv, ClientIsKnown, PTL DEF Spec

(* Type correctness of the process, its client and its chain.              *)
THEOREM TypeCorrect == Spec => []TypeOK
<1>1. ClientProofs!Spec => []ClientProofs!TypeOK
  BY CallsAssumed, ChainAssumed, ClientProofs!TypeCorrect
<1>2. ClientProofs!TypeOK <=> Client!TypeOK
  BY DEF ClientProofs!TypeOK, Client!TypeOK, Client!Entry, ClientProofs!Entry, Client!Call,
     ClientProofs!Call, Client!Tx, ClientProofs!Tx, Client!Error, ClientProofs!Error,
     Client!TxStatus, ClientProofs!TxStatus, Client!Submittable, ClientProofs!Submittable,
     Client!RequestOf, ClientProofs!RequestOf, Client!Chain!Event, ClientProofs!Chain!Event,
     Client!Chain!RebalanceAction, ClientProofs!Chain!RebalanceAction
<1>3. IInv /\ Client!TypeOK => TypeOK
  BY DEF IInv, LoopTyped, TypeOK
<1>4. QED BY <1>1, <1>2, <1>3, Invariance, ImplementsProvedClient, PTL

(* "No double-swap", of the process: two exits of the position are a       *)
(* window apart, at any tick rate and with any number of handlers.         *)
THEOREM DoubleSwapExcluded == Spec => []Client!NoDoubleSwap
<1>1. ClientProofs!Spec => []ClientProofs!NoDoubleSwap
  BY CallsAssumed, ChainAssumed, ClientProofs!DoubleSwapExcluded
<1>2. ClientProofs!NoDoubleSwap <=> Client!NoDoubleSwap
  BY DEF ClientProofs!NoDoubleSwap, Client!NoDoubleSwap, Client!Chain!SpacedExecutions,
     ClientProofs!Chain!SpacedExecutions
<1>3. QED BY <1>1, <1>2, ImplementsProvedClient, PTL

(* FR-5b: checkThresholdBreach, called on every tick, answers against the  *)
(* metrics of its tick once in a row at most, whatever the drift curve.    *)
THEOREM VerdictCorrect == Spec => []VerdictLagsOneTick
<1>1. IInv => VerdictLagsOneTick
  BY DEF IInv, LoopTyped, VerdictSound, VerdictLagsOneTick
<1>2. QED BY <1>1, Invariance, PTL

(* The Guardian's call throws only if another handler's overlapped it, its *)
(* answer was lost, or every exit that ran before it had been given up.    *)
THEOREM FailureCorrect == Spec => []FailureHasCause
<1>1. ClientKnown /\ IInv => FailureHasCause
  <2> SUFFICES ASSUME ClientKnown, IInv, NEW h \in Handlers, calls[h].phase = "rejected",
                      alone[h], calls[h].tx \notin unanswered
               PROVE  /\ ExitsBefore(calls[h].tx) # {}
                      /\ ExitsBefore(calls[h].tx) \subseteq unanswered
    BY DEF FailureHasCause
  <2>1. /\ calls[h].tx \in DOMAIN txs /\ ExitsBefore(calls[h].tx) # {}
        /\ \A s \in DOMAIN txs :
             s < calls[h].tx /\ txs[s].status \in {"flight", "Ok"} => s \in unanswered
    BY DEF IInv, FailureInv, RejectedSound
  <2>2. \A s \in 1 .. calls[h].tx - 1 : s \in DOMAIN txs /\ s < calls[h].tx
    BY <2>1 DEF ClientKnown
  <2>3. QED BY <2>1, <2>2 DEF ExitsBefore
<1>2. QED BY <1>1, Invariance, ClientIsKnown, PTL

(* A breach seen for a tick and a confirmation has an exit on the chain,   *)
(* and while it lasts the latest exit is never older than the write        *)
(* window, two confirmations and a tick, once a tick and a confirmation    *)
(* have passed since the last call that the network failed.                *)
THEOREM BreachCorrect == Spec => []BreachIsExited
<1>1. ClientKnown /\ IInv => BreachIsExited
  <2> SUFFICES ASSUME ClientKnown, IInv, breachedSince # 0,
                      wall - breachedSince > TickMs + Jitter + MaxLatency,
                      wall - (failedAt + 1) > TickMs + Jitter + MaxLatency
               PROVE  /\ Position \in initialized
                      /\ clock - Anchor <= WriteThrottle + 2 * MaxLatency + TickMs + Jitter
    BY DEF BreachIsExited, Waited, Anchor
  <2>1. /\ clock = wall /\ wall <= lastFire + TickMs + Jitter
        /\ wall \in Nat /\ lastFire \in Nat /\ breachedSince \in Nat /\ lag \in Nat
        /\ failedAt \in Nat
        /\ TickMs \in Nat /\ Jitter \in Nat /\ Jitter < TickMs
        /\ MaxLatency \in Nat /\ WriteThrottle \in Nat /\ Anchor \in Nat
    BY LoopBounds, TimerAssumption, ClientAssumption, WindowsAssumption
       DEF IInv, TimesKept, ClientKnown, Anchor
  <2>2. lag = 0
    <3>1. lag # 0 => breachedSince = lastFire
      BY DEF IInv, VerdictSound
    <3>2. breachedSince # lastFire
      BY <2>1
    <3>3. QED BY <3>1, <3>2
  <2> DEFINE z == wall - MaxLatency - TickMs - Jitter - 1
  <2>3. z \in breachedSince .. lastFire /\ z > failedAt
    BY <2>1
  <2>4. PICK y \in z .. lastFire : y <= z + TickMs + Jitter /\ (Covered(y) \/ Pending(y))
    BY <2>2, <2>3 DEF IInv, CallsFollowBreach
  <2>5. z \in Nat /\ y \in Nat /\ z <= y /\ y + MaxLatency < wall
    BY <2>1, <2>3, <2>4
  <2>6. ~ Pending(y)
    <3>1. ASSUME NEW h \in Handlers, InFlight(h), startedAt[h] = y PROVE FALSE
      BY <2>5, <3>1, <2>1 DEF IInv, TimesKept
    <3>2. QED BY <3>1 DEF Pending
  <2>7. Anchor # 0 /\ y < Anchor + WriteThrottle + MaxLatency
    BY <2>4, <2>6 DEF Covered
  <2>8. clock - Anchor <= WriteThrottle + 2 * MaxLatency + TickMs + Jitter
    BY <2>1, <2>5, <2>7
  <2>9. Position \in initialized
    BY <2>7 DEF IInv, AnchorKnown
  <2>10. QED BY <2>8, <2>9
<1>2. QED BY <1>1, Invariance, ClientIsKnown, PTL

(* FR-8b, "the prior TxSig": the cache names the latest exit of all whose  *)
(* confirmation came, in whatever order the confirmations of overlapping   *)
(* calls arrive, if one takes less than the program's window.              *)
THEOREM LatestCorrect == Spec => []CacheIsLatest
<1>1. Init => LatestInv
  <2> SUFFICES ASSUME Init PROVE LatestInv
    OBVIOUS
  <2>1. txs = <<>> /\ events = <<>> /\ Cached = Client!NoEntry
    BY DEF Init, Client!Init, Client!Chain!Init, Cached
  <2>2. \A h \in Handlers : ~ InFlight(h)
    BY DEF Init, Client!Init, Client!Settled, InFlight
  <2>3. QED BY <2>1, <2>2 DEF LatestInv, EventsSound, CachedSound, Client!Hit, Client!NoEntry
<1>2. LatestInv => CacheIsLatest
  BY DEF LatestInv, CacheIsLatest, NotAfterCached, Cached
<1>3. QED
  BY <1>1, <1>2, StepLatest, ClientIsKnown, Invariance, DoubleSwapExcluded, PTL DEF Spec
=============================================================================
