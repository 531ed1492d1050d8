--------------------------- MODULE SwigDelegation ---------------------------
(***************************************************************************)
(* The on-chain program swig_delegation: one instruction,                  *)
(* execute_rebalance, that passes four gates in a fixed order and then     *)
(* stamps the policy's LastRebalanced account and emits an event.  The     *)
(* runtime executes instructions that write one account one after the      *)
(* other and rolls a failed transaction back, so an instruction is one     *)
(* step; the clock is the bank's, and never runs backwards.                *)
(***************************************************************************)
EXTENDS Integers, Sequences

CONSTANTS
  Policies,     \* RiskPolicy accounts named as rate-limit seeds
  Guardians,    \* signers that submit instructions
  Requests,     \* instructions that are submitted, a subset of Request
  RateLimit,    \* LastRebalanced::RATE_LIMIT_SECS (30 in the code)
  StartTime,    \* unix time of the first block considered
  MaxTime       \* bound on the clock

BPS == 10000    \* one hundred percent, in basis points

RebalanceAction == {"reduce", "exit", "hedge"}

(* The arguments and the accounts of one instruction.                      *)
Request == [policy : Policies, guardian : Guardians, action : RebalanceAction,
            sizeBps : Nat, maxSlippageBps : Nat, expectedOut : Nat, minOut : Nat]

ASSUME RateLimitAssumption == RateLimit \in Nat \ {0}
(* 0 is the timestamp of an account that was never stamped: the program    *)
(* relies on the clock having left 0 behind.                               *)
ASSUME ClockAssumption == StartTime \in Nat \ {0} /\ MaxTime \in Nat
ASSUME RequestsAssumption == Requests \subseteq Request

VARIABLES
  clock,           \* Clock::get()?.unix_timestamp
  initialized,     \* policies whose LastRebalanced account exists
  lastRebalanced,  \* LastRebalanced.timestamp; 0 where there is no account
  events           \* RebalanceExecutedEvent, in the order emitted

vars == <<clock, initialized, lastRebalanced, events>>

Event == [policy : Policies, guardian : Guardians, action : RebalanceAction,
          sizeBps : Nat, ts : Nat]

Init ==
  /\ clock = StartTime
  /\ initialized = {}
  /\ lastRebalanced = [p \in Policies |-> 0]
  /\ events = <<>>

-----------------------------------------------------------------------------
(* An operator named X_Y, here and in the other modules, is X with the bug *)
(* Y: no behaviour uses it, the mutants of PROJECT.json put it in place of *)
(* X to show that a property would notice.                                 *)

(* The gates, in the order handle() tries them.  0 marks an account that   *)
(* init_if_needed has just created.                                        *)

TooSoon_OneSecondShort(p) ==
  /\ lastRebalanced[p] # 0
  /\ clock - lastRebalanced[p] < RateLimit - 1

TooSoon_OneSecondLong(p) ==
  /\ lastRebalanced[p] # 0
  /\ clock - lastRebalanced[p] <= RateLimit

TooSoon(p) ==
  /\ lastRebalanced[p] # 0
  /\ clock - lastRebalanced[p] < RateLimit

(* 10_000u128 - max_slippage_bps: the release profile checks overflow, so  *)
(* a tolerance above 100% aborts the transaction with no typed error.      *)
ToleranceUnderflows(r) == r.maxSlippageBps > BPS

SlippageGate(r) == r.minOut * BPS >= r.expectedOut * (BPS - r.maxSlippageBps)

Outcome(r) ==
  IF TooSoon(r.policy) THEN "RebalanceTooSoon"
  ELSE IF r.action # "exit" THEN "NotImplemented"
  ELSE IF r.sizeBps > BPS THEN "InvalidSize"
  ELSE IF ToleranceUnderflows(r) THEN "Aborted"
  ELSE IF ~ SlippageGate(r) THEN "SlippageTooHigh"
  ELSE "Ok"

EventOf_AccountsSwapped(r) ==
  [policy |-> r.guardian, guardian |-> r.policy, action |-> r.action,
   sizeBps |-> r.sizeBps, ts |-> clock]

EventOf(r) == [policy |-> r.policy, guardian |-> r.guardian, action |-> r.action,
               sizeBps |-> r.sizeBps, ts |-> clock]

Execute_NoStamp(r) ==
  /\ Outcome(r) = "Ok"
  /\ initialized' = initialized \cup {r.policy}
  /\ events' = Append(events, EventOf(r))
  /\ UNCHANGED <<clock, lastRebalanced>>

Execute(r) ==
  /\ Outcome(r) = "Ok"
  /\ initialized' = initialized \cup {r.policy}
  /\ lastRebalanced' = [lastRebalanced EXCEPT ![r.policy] = clock]
  /\ events' = Append(events, EventOf(r))
  /\ UNCHANGED clock

(* A failing gate fails the transaction: the account that init_if_needed   *)
(* created for it is rolled back with everything else.                     *)
Refuse_KeepsAccount(r) ==
  /\ Outcome(r) # "Ok"
  /\ initialized' = initialized \cup {r.policy}
  /\ UNCHANGED <<clock, lastRebalanced, events>>

Refuse(r) ==
  /\ Outcome(r) # "Ok"
  /\ UNCHANGED vars

Tick ==
  /\ clock < MaxTime
  /\ clock' = clock + 1
  /\ UNCHANGED <<initialized, lastRebalanced, events>>

Next ==
  \/ \E r \in Requests : Execute(r) \/ Refuse(r)
  \/ Tick

Spec == Init /\ [][Next]_vars

-----------------------------------------------------------------------------
TypeOK ==
  /\ clock \in Nat
  /\ initialized \subseteq Policies
  /\ lastRebalanced \in [Policies -> Nat]
  /\ events \in Seq(Event)

(* execute_rebalance, step 0: whatever is submitted, by whichever guardian *)
(* and in whichever order, two executions for one policy are a rate-limit  *)
(* window apart.  The program remembers the last one only; the property    *)
(* speaks of all of them.                                                  *)
SpacedExecutions ==
  \A i, j \in DOMAIN events :
    i < j /\ events[i].policy = events[j].policy
      => events[j].ts - events[i].ts >= RateLimit

(* RebalanceTooSoon is the answer exactly when there is an execution for   *)
(* this policy inside the window: a client that resolves a refused call    *)
(* with the earlier signature has one to resolve with, no other policy     *)
(* can cause the refusal, and the policy is open again on the very second  *)
(* the window ends.                                                        *)
RefusalIsJustified ==
  \A r \in Requests :
    Outcome(r) = "RebalanceTooSoon" <=>
      \E i \in DOMAIN events : events[i].policy = r.policy
                             /\ clock - events[i].ts < RateLimit

(* The account and the event log tell the same story: a policy has a       *)
(* LastRebalanced account exactly when it was rebalanced, and the account  *)
(* holds the time of its last event.  A refused first call must not leave  *)
(* the account that init_if_needed created behind.                         *)
AnchorIsLastEvent ==
  /\ \A i \in DOMAIN events :
       /\ events[i].policy \in initialized
       /\ events[i].ts <= lastRebalanced[events[i].policy]
  /\ \A p \in Policies :
       IF p \in initialized
       THEN \E i \in DOMAIN events : /\ events[i].policy = p
                                    /\ events[i].ts = lastRebalanced[p]
       ELSE lastRebalanced[p] = 0

(* The program implements the abstract rate limiter: each event is a       *)
(* grant, everything else a stutter or the passing of time.                *)
Limiter == INSTANCE RateLimiter WITH
  Subjects <- Policies,
  Window   <- RateLimit,
  now      <- clock,
  grants   <- [i \in DOMAIN events |-> [subject |-> events[i].policy, at |-> events[i].ts]]

LimiterSpec == Limiter!Spec
=============================================================================
