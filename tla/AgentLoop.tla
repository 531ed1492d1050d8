------------------------------ MODULE AgentLoop ------------------------------
(***************************************************************************)
(* The agent process of agents/src/run.ts over a RealClient: an interval   *)
(* timer in the Observer, the Analyst's throttled threshold check and the  *)
(* Guardian's call of executePrivateRebalance.  The handler is started by  *)
(* the timer and awaited by nobody: up to the .rpc() of the rebalance it   *)
(* runs in one piece, after it the next tick may start another handler.    *)
(* The client, its write cache and the chain are RebalanceClient.          *)
(***************************************************************************)
EXTENDS Integers, Sequences

CONSTANTS
  Position,       \* POSITION_IDS[0], the only position the timer reports
  Process,        \* the RealClient of the process
  Handlers,       \* the handlers that may be in flight at once
  TickMs,         \* tickMs, the period of the timer (5 s in the code)
  Jitter,         \* how far a tick may be from the period after the last one
  Cycle, PeakBps, \* the drift curve: its length in ticks (60), its top (4000)
  BreachBps,      \* the drawdown that checkThresholdBreach calls a breach (2500)
  ReadThrottle,   \* readThrottleMs (5 s)
  RateLimit,      \* the chain's window (30 s)
  WriteThrottle,  \* writeThrottleMs (30 s)
  MaxLatency,     \* bound on the time from a submission to its answer or failure
  Faults,         \* what may go wrong between client and chain
  StartTime, MaxTime, MaxTxs

ASSUME TimerAssumption == TickMs \in Nat /\ Jitter \in Nat /\ Jitter < TickMs
ASSUME CurveAssumption == Cycle \in Nat \ {0} /\ PeakBps \in Nat

(* An answer may be lost and a transaction may never land.  The process is *)
(* not restarted (the model ends with it), and the clocks agree.           *)
ASSUME FaultsAssumption == Faults \subseteq {"timeout", "drop"}

(* What the client and the chain assume of their windows and clocks.       *)
ASSUME ClientAssumption ==
  /\ RateLimit \in Nat \ {0} /\ WriteThrottle \in Nat
  /\ StartTime \in Nat \ {0} /\ MaxTime \in Nat
  /\ MaxTxs \in Nat

(* The windows as they relate in the code's defaults: the read throttle is *)
(* one period of the timer, so less than two periods that jitter shortens, *)
(* and the write throttle is the program's window.                         *)
ASSUME WindowsAssumption ==
  /\ ReadThrottle \in Nat /\ ReadThrottle <= 2 * (TickMs - Jitter)
  /\ RateLimit <= WriteThrottle
  /\ MaxLatency \in Nat

VARIABLES
  clock, initialized, lastRebalanced, events,   \* the chain
  wall, writeCache, calls, txs,                 \* the client, a call per handler
  alive,          \* the process runs; a rejected handler may end it
  tick, lastFire, \* the Observer's counter, and when its timer last fired
  readCache,      \* the last check that was not answered from the cache
  startedAt,      \* per handler in flight, when it called the Guardian; else 0
  alone,          \* history: no other handler was in flight during its call
  lag,            \* history: ticks in a row answered against their metrics
  breachedSince,  \* history: the first of the latest breached ticks, or 0
  unanswered,     \* history: transactions whose outcome no handler was told
  failedAt        \* history: when the latest of them was given up, or 0

clientVars == <<clock, initialized, lastRebalanced, events, wall, writeCache, calls, txs>>
history == <<alone, lag, breachedSince, unanswered, failedAt>>
vars == <<clientVars, alive, tick, lastFire, readCache, startedAt, history>>

ExitPlan == [policy |-> Position, action |-> "EXIT", sizeBps |-> 10000]

Client == INSTANCE RebalanceClient WITH
  Policies <- {Position}, Clients <- {Process}, Calls <- Handlers, Equipped <- {Process},
  ClientOf <- [h \in Handlers |-> Process], Plans <- {ExitPlan}

NoCheck == [at |-> 0, breached |-> FALSE]

Init ==
  /\ Client!Init
  /\ alive = TRUE
  /\ tick = 0
  /\ lastFire = StartTime
  /\ readCache = NoCheck
  /\ startedAt = [h \in Handlers |-> 0]
  /\ alone = [h \in Handlers |-> TRUE]
  /\ lag = 0
  /\ breachedSince = 0
  /\ unanswered = {}
  /\ failedAt = 0

-----------------------------------------------------------------------------
(* The drift curve, and checkThresholdBreach.                              *)

Lesser(a, b) == IF a < b THEN a ELSE b
Drawdown(t) == Lesser(PeakBps, ((t % Cycle) * PeakBps) \div Cycle)
Breached(t) == Drawdown(t) >= BreachBps

ReadHit == readCache.at # 0 /\ wall - readCache.at < ReadThrottle

(* The cache is written on a miss only: it holds the time of the check it  *)
(* answers for.                                                            *)
Check_Sliding(t) ==
  IF ReadHit THEN [readCache EXCEPT !.at = wall] ELSE [at |-> wall, breached |-> Breached(t)]
Check_Expiry(t) ==
  IF ReadHit THEN readCache ELSE [at |-> wall + ReadThrottle, breached |-> Breached(t)]
Check(t) == IF ReadHit THEN readCache ELSE [at |-> wall, breached |-> Breached(t)]

Acts_OnEdge(t) == Check(t).breached /\ ~ readCache.breached
Acts(t) == Check(t).breached

InFlight(h) == calls[h].phase = "waiting"

Execute(h) ==
  /\ Client!Shortcut(h, ExitPlan) \/ Client!Submit(h, ExitPlan)
  /\ startedAt' = [startedAt EXCEPT ![h] = wall]
  /\ alone' = [k \in Handlers |->
       IF k = h THEN \A other \in Handlers : ~ InFlight(other)
       ELSE alone[k] /\ ~ InFlight(k)]

Observe(t) ==
  /\ lag' = IF Check(t).breached = Breached(t) THEN 0 ELSE lag + 1
  /\ breachedSince' = IF ~ Breached(t) THEN 0
                      ELSE IF breachedSince = 0 THEN wall ELSE breachedSince

(* One tick of the timer and its handler, to the handler's first real wait.*)
Fire ==
  /\ alive
  /\ wall >= lastFire + TickMs - Jitter
  /\ tick' = tick + 1
  /\ lastFire' = wall
  /\ readCache' = Check(tick + 1)
  /\ Observe(tick + 1)
  /\ IF Acts(tick + 1)
     THEN \E h \in Handlers : Execute(h)
     ELSE UNCHANGED <<clientVars, startedAt, alone>>
  /\ UNCHANGED <<alive, unanswered, failedAt>>

(* The Guardian's call comes back to the handler.                          *)
Finish(h) ==
  /\ alive
  /\ Client!Confirm(h) \/ Client!CatchTooSoon(h)
  /\ startedAt' = [startedAt EXCEPT ![h] = 0]
  /\ UNCHANGED <<alive, tick, lastFire, readCache, history>>

(* The chain refused the exit, or .rpc() failed for a reason of its own.   *)
Refused(h) == Client!Rethrow(h) /\ UNCHANGED <<unanswered, failedAt>>
GivenUp(h) ==
  /\ Client!Abandon(h)
  /\ unanswered' = unanswered \cup {calls[h].tx}
  /\ failedAt' = wall

(* Nobody catches what the handler throws: whether an unhandled rejection  *)
(* ends the process is the runtime's choice.                               *)
Fail(h) ==
  /\ alive
  /\ Refused(h) \/ GivenUp(h)
  /\ alive' \in BOOLEAN
  /\ startedAt' = [startedAt EXCEPT ![h] = 0]
  /\ UNCHANGED <<tick, lastFire, readCache, alone, lag, breachedSince>>

(* A transaction lands, awaited or given up, or expires.                   *)
Land(t) ==
  /\ Client!Land(t) \/ Client!Drop(t)
  /\ UNCHANGED <<alive, tick, lastFire, readCache, startedAt, history>>

(* Time passes, but not over a tick that is due nor over an answer, good   *)
(* or bad, that the network's latency makes due.  The model ends with the  *)
(* process.                                                                *)
Advance ==
  /\ alive
  /\ wall < lastFire + TickMs + Jitter
  /\ \A h \in Handlers : InFlight(h) => wall < startedAt[h] + MaxLatency
  /\ Client!Tick
  /\ UNCHANGED <<alive, tick, lastFire, readCache, startedAt, history>>

Next ==
  \/ Fire
  \/ \E h \in Handlers : Finish(h) \/ Fail(h)
  \/ \E t \in DOMAIN txs : Land(t)
  \/ Advance

Spec == Init /\ [][Next]_vars

-----------------------------------------------------------------------------
TypeOK ==
  /\ Client!TypeOK
  /\ alive \in BOOLEAN
  /\ tick \in Nat /\ lastFire \in 0 .. wall
  /\ readCache \in [at : 0 .. wall, breached : BOOLEAN]
  /\ startedAt \in [Handlers -> 0 .. wall] /\ alone \in [Handlers -> BOOLEAN]
  /\ lag \in Nat /\ breachedSince \in 0 .. wall
  /\ unanswered \subseteq DOMAIN txs /\ failedAt \in 0 .. wall

(* FR-5b: "Builder A's tick-driven Analyst loop is correct under it".  A   *)
(* timer as fast as the throttle may find the cache still valid, but never *)
(* twice in a row: a verdict lags behind the metrics by one tick at most,  *)
(* into a breach and out of it.                                            *)
VerdictLagsOneTick == lag <= 1

(* The point of the system, as a bounded response: once a breach has been  *)
(* observed for a tick and a confirmation, there is an exit, and while it  *)
(* lasts the latest one is never older than the write window, two          *)
(* confirmations and a tick.  A call that the network fails puts this off  *)
(* by a tick and a confirmation, in which the next one has its turn.       *)
Waited(since) == wall - since > TickMs + Jitter + MaxLatency

BreachIsExited ==
  alive /\ breachedSince # 0 /\ Waited(breachedSince) /\ Waited(failedAt + 1)
    => /\ Position \in initialized
       /\ clock - lastRebalanced[Position] <=
            WriteThrottle + 2 * MaxLatency + TickMs + Jitter

(* Why a handler fails.  Another one was in flight during its call; or its *)
(* own answer was lost; or it was refused for an exit the process was      *)
(* never told of, because every exit that ran before was given up.  With   *)
(* one confirmed exit in the cache a lone handler that gets its answer     *)
(* never fails, however long ago that was.                                 *)
ExitsBefore(t) == {s \in 1 .. t - 1 : txs[s].status = "Ok"}

FailureHasCause ==
  \A h \in Handlers : calls[h].phase = "rejected" =>
    \/ ~ alone[h]
    \/ calls[h].tx \in unanswered
    \/ ExitsBefore(calls[h].tx) # {} /\ ExitsBefore(calls[h].tx) \subseteq unanswered

(* FR-8b, "the prior TxSig": although confirmations of overlapping calls   *)
(* may come in any order, each replacing the entry, the cache names the    *)
(* latest exit of all whose confirmation came, as long as one takes less   *)
(* than the program's window.                                              *)
Answered(t) ==
  /\ txs[t].status = "Ok"
  /\ t \notin unanswered
  /\ \A h \in Handlers : InFlight(h) => calls[h].tx # t

CacheIsLatest ==
  MaxLatency < RateLimit =>
    \A t \in DOMAIN txs : Answered(t) =>
      LET e == writeCache[Process][Position] IN
      Client!Hit(e) /\ txs[t].event <= txs[e.lastTxSig].event

(* B3/FR-8b: the client absorbs RebalanceTooSoon, the Guardian "sees a     *)
(* normal success", "under any tick rate".                                 *)
GuardianSeesSuccess == \A h \in Handlers : calls[h].phase # "rejected"
=============================================================================
