------------------------ MODULE SwigDelegationProofs ------------------------
(***************************************************************************)
(* What execute_rebalance guarantees for any policies, guardians, requests *)
(* and window.  It implements the abstract rate limiter, and that limiter  *)
(* spaces its grants.  All of it rests on AnchorIsLastEvent: the one       *)
(* timestamp the program keeps for a policy speaks for every event it ever *)
(* emitted for that policy.                                                *)
(***************************************************************************)
EXTENDS SwigDelegation, TLAPS

(* No event carries 0, the timestamp of an account never stamped, or a     *)
(* time that has not come.                                                 *)
ClockRuns ==
  /\ clock \in Nat \ {0}
  /\ \A i \in DOMAIN events : events[i].ts \in 1 .. clock

IInv == TypeOK /\ ClockRuns /\ AnchorIsLastEvent

-----------------------------------------------------------------------------
(* Every entry of the log is an event.                                     *)
LEMMA EventsTyped ==
  ASSUME TypeOK, NEW i \in DOMAIN events
  PROVE  events[i] \in Event /\ events[i].policy \in Policies /\ events[i].ts \in Nat
<1>1. events \in Seq(Event)
  BY DEF TypeOK
<1>2. events[i] \in Event
  <2> HIDE DEF Event
  <2>1. QED BY <1>1
<1>3. QED BY <1>2 DEF Event

(* What an execution does to the log: it keeps every event and appends one *)
(* for its policy, stamped with the time it ran.                           *)
LEMMA ExecuteAppends ==
  ASSUME TypeOK, NEW r \in Requests, Execute(r)
  PROVE  /\ Len(events) \in Nat
         /\ DOMAIN events = 1 .. Len(events)
         /\ DOMAIN events' = 1 .. Len(events) + 1
         /\ \A k \in 1 .. Len(events) : events'[k] = events[k]
         /\ events'[Len(events) + 1] = EventOf(r)
         /\ events' \in Seq(Event)
<1>1. r \in Request
  BY RequestsAssumption
<1>2. EventOf(r) \in Event
  BY <1>1 DEF EventOf, Request, Event, TypeOK
<1>3. events \in Seq(Event) /\ events' = Append(events, EventOf(r))
  BY DEF TypeOK, Execute
<1>4. QED BY <1>2, <1>3

(* What an execution does to the account: its policy's is created and      *)
(* stamped with the time, no other one moves.                              *)
LEMMA ExecuteStamps ==
  ASSUME IInv, NEW r \in Requests, Execute(r)
  PROVE  /\ r.policy \in Policies
         /\ clock' = clock
         /\ initialized' = initialized \cup {r.policy}
         /\ lastRebalanced' \in [Policies -> Nat]
         /\ lastRebalanced'[r.policy] = clock
         /\ \A p \in Policies : p # r.policy => lastRebalanced'[p] = lastRebalanced[p]
<1>1. r.policy \in Policies
  BY RequestsAssumption DEF Request
<1>2. QED BY <1>1 DEF Execute, IInv, TypeOK, ClockRuns

(* Step 0 lets a request through only when no event of its policy is       *)
(* younger than the window.                                                *)
LEMMA GateSeesEveryEvent ==
  ASSUME IInv, NEW p \in Policies
  PROVE  TooSoon(p) <=> \E i \in DOMAIN events :
                          events[i].policy = p /\ clock - events[i].ts < RateLimit
<1> DEFINE Recent(i) == events[i].policy = p /\ clock - events[i].ts < RateLimit
<1>1. \A i \in DOMAIN events : events[i].policy \in Policies /\ events[i].ts \in Nat
  BY EventsTyped DEF IInv
<1>2. lastRebalanced[p] \in Nat /\ clock \in Nat /\ RateLimit \in Nat
  BY RateLimitAssumption DEF IInv, TypeOK
<1>3. ASSUME TooSoon(p) PROVE \E i \in DOMAIN events : Recent(i)
  <2>1. p \in initialized
    BY <1>3 DEF TooSoon, IInv, AnchorIsLastEvent
  <2>2. PICK i \in DOMAIN events : events[i].policy = p /\ events[i].ts = lastRebalanced[p]
    BY <2>1 DEF IInv, AnchorIsLastEvent
  <2>3. QED BY <1>3, <2>2 DEF TooSoon
<1>4. ASSUME NEW i \in DOMAIN events, Recent(i) PROVE TooSoon(p)
  <2>1. p \in initialized /\ events[i].ts <= lastRebalanced[p]
    BY <1>4 DEF IInv, AnchorIsLastEvent
  <2>2. PICK k \in DOMAIN events : events[k].policy = p /\ events[k].ts = lastRebalanced[p]
    BY <2>1 DEF IInv, AnchorIsLastEvent
  <2>3. lastRebalanced[p] # 0
    BY <1>1, <2>2 DEF IInv, ClockRuns
  <2>4. QED BY <1>1, <1>2, <1>4, <2>1, <2>3 DEF TooSoon
<1>5. QED BY <1>3, <1>4

-----------------------------------------------------------------------------
(* The inductive invariant, one lemma per conjunct and one step per action.*)

(* No step leaves the types.                                               *)
LEMMA TypePreserved == TypeOK /\ [Next]_vars => TypeOK'
<1> SUFFICES ASSUME TypeOK, [Next]_vars PROVE TypeOK'
  OBVIOUS
<1>1. ASSUME NEW r \in Requests, Execute(r) PROVE TypeOK'
  <2>1. r.policy \in Policies
    BY RequestsAssumption DEF Request
  <2>2. events' \in Seq(Event)
    BY <1>1, ExecuteAppends
  <2>3. QED BY <1>1, <2>1, <2>2 DEF Execute, TypeOK
<1>2. ASSUME NEW r \in Requests, Refuse(r) PROVE TypeOK'
  BY <1>2 DEF Refuse, vars, TypeOK
<1>3. CASE Tick
  BY <1>3 DEF Tick, TypeOK
<1>4. CASE UNCHANGED vars
  BY <1>4 DEF vars, TypeOK
<1>5. QED BY <1>1, <1>2, <1>3, <1>4 DEF Next

(* Events are stamped with the present, so none is in the future.          *)
LEMMA ClockPreserved == IInv /\ [Next]_vars => ClockRuns'
<1> SUFFICES ASSUME IInv, [Next]_vars PROVE ClockRuns'
  OBVIOUS
<1>1. ASSUME NEW r \in Requests, Execute(r) PROVE ClockRuns'
  <2>1. clock' = clock /\ EventOf(r).ts = clock
    BY <1>1 DEF Execute, EventOf
  <2>2. \A i \in DOMAIN events' : \/ i \in DOMAIN events /\ events'[i] = events[i]
                                  \/ events'[i] = EventOf(r)
    BY <1>1, ExecuteAppends DEF IInv
  <2>3. QED BY <2>1, <2>2 DEF IInv, ClockRuns
<1>2. ASSUME NEW r \in Requests, Refuse(r) PROVE ClockRuns'
  BY <1>2 DEF Refuse, vars, IInv, ClockRuns
<1>3. CASE Tick
  BY <1>3 DEF Tick, IInv, ClockRuns
<1>4. CASE UNCHANGED vars
  BY <1>4 DEF vars, IInv, ClockRuns
<1>5. QED BY <1>1, <1>2, <1>3, <1>4 DEF Next

(* The accounts and the log keep telling the same story.                   *)
LEMMA AnchorPreserved == IInv /\ [Next]_vars => AnchorIsLastEvent'
<1> SUFFICES ASSUME IInv, [Next]_vars PROVE AnchorIsLastEvent'
  OBVIOUS
<1>1. ASSUME NEW r \in Requests, Execute(r) PROVE AnchorIsLastEvent'
  <2>1. EventOf(r).policy = r.policy /\ EventOf(r).ts = clock
    BY DEF EventOf
  <2>2. ASSUME NEW i \in DOMAIN events'
        PROVE  /\ events'[i].policy \in initialized'
               /\ events'[i].ts <= lastRebalanced'[events'[i].policy]
    <3>1. CASE i \in DOMAIN events
      <4>1. events'[i] = events[i] /\ events[i].policy \in Policies
        BY <1>1, <3>1, ExecuteAppends, EventsTyped DEF IInv
      <4>2. /\ events[i].policy \in initialized
            /\ events[i].ts <= lastRebalanced[events[i].policy]
            /\ events[i].ts <= clock
        BY <3>1 DEF IInv, AnchorIsLastEvent, ClockRuns
      <4>3. QED BY <1>1, <4>1, <4>2, ExecuteStamps
    <3>2. CASE i \notin DOMAIN events
      <4>1. events'[i] = EventOf(r)
        BY <1>1, <2>2, <3>2, ExecuteAppends DEF IInv
      <4>2. QED BY <1>1, <2>1, <4>1, ExecuteStamps DEF IInv, ClockRuns
    <3>3. QED BY <3>1, <3>2
  <2>3. ASSUME NEW p \in Policies, p \in initialized'
        PROVE  \E i \in DOMAIN events' : /\ events'[i].policy = p
                                        /\ events'[i].ts = lastRebalanced'[p]
    <3>1. CASE p = r.policy
      <4>1. Len(events) + 1 \in DOMAIN events' /\ events'[Len(events) + 1] = EventOf(r)
        BY <1>1, ExecuteAppends DEF IInv
      <4>2. QED BY <1>1, <2>1, <3>1, <4>1, ExecuteStamps
    <3>2. CASE p # r.policy
      <4>1. p \in initialized /\ lastRebalanced'[p] = lastRebalanced[p]
        BY <1>1, <2>3, <3>2, ExecuteStamps
      <4>2. PICK i \in DOMAIN events : events[i].policy = p /\ events[i].ts = lastRebalanced[p]
        BY <4>1 DEF IInv, AnchorIsLastEvent
      <4>3. i \in DOMAIN events' /\ events'[i] = events[i]
        BY <1>1, <4>2, ExecuteAppends DEF IInv
      <4>4. QED BY <4>1, <4>2, <4>3
    <3>3. QED BY <3>1, <3>2
  <2>4. ASSUME NEW p \in Policies, p \notin initialized' PROVE lastRebalanced'[p] = 0
    BY <1>1, <2>4, ExecuteStamps DEF IInv, AnchorIsLastEvent
  <2>5. QED BY <2>2, <2>3, <2>4 DEF AnchorIsLastEvent
<1>2. ASSUME NEW r \in Requests, Refuse(r) PROVE AnchorIsLastEvent'
  BY <1>2 DEF Refuse, vars, IInv, AnchorIsLastEvent
<1>3. CASE Tick
  BY <1>3 DEF Tick, IInv, AnchorIsLastEvent
<1>4. CASE UNCHANGED vars
  BY <1>4 DEF vars, IInv, AnchorIsLastEvent
<1>5. QED BY <1>1, <1>2, <1>3, <1>4 DEF Next

(* It holds before any instruction.                                        *)
LEMMA InitIInv == Init => IInv
<1> SUFFICES ASSUME Init PROVE IInv
  OBVIOUS
<1>1. TypeOK /\ ClockRuns
  BY ClockAssumption DEF Init, TypeOK, ClockRuns
<1>2. AnchorIsLastEvent
  BY DEF Init, AnchorIsLastEvent
<1>3. QED BY <1>1, <1>2 DEF IInv

(* The inductive invariant holds in every state of the program.            *)
THEOREM Invariance == Spec => []IInv
<1>1. IInv /\ [Next]_vars => IInv'
  BY TypePreserved, ClockPreserved, AnchorPreserved DEF IInv
<1>2. QED BY <1>1, InitIInv, PTL DEF Spec

-----------------------------------------------------------------------------
(* The state of the program is well typed.                                 *)
THEOREM TypeCorrect == Spec => []TypeOK
<1>1. IInv => TypeOK
  BY DEF IInv
<1>2. QED BY <1>1, Invariance, PTL

(* The LastRebalanced accounts and the event log always agree.             *)
THEOREM AnchorCorrect == Spec => []AnchorIsLastEvent
<1>1. IInv => AnchorIsLastEvent
  BY DEF IInv
<1>2. QED BY <1>1, Invariance, PTL

(* RebalanceTooSoon is answered exactly inside the window of an earlier    *)
(* execution for the same policy.                                          *)
THEOREM RefusalCorrect == Spec => []RefusalIsJustified
<1>1. IInv => RefusalIsJustified
  <2> SUFFICES ASSUME IInv, NEW r \in Requests
               PROVE  Outcome(r) = "RebalanceTooSoon" <=>
                        \E i \in DOMAIN events : events[i].policy = r.policy
                                               /\ clock - events[i].ts < RateLimit
    BY DEF RefusalIsJustified
  <2>1. r.policy \in Policies
    BY RequestsAssumption DEF Request
  <2>2. Outcome(r) = "RebalanceTooSoon" <=> TooSoon(r.policy)
    BY DEF Outcome
  <2>3. QED BY <2>1, <2>2, GateSeesEveryEvent
<1>2. QED BY <1>1, Invariance, PTL

-----------------------------------------------------------------------------
(* The slippage gate, over the widths of its arguments: u64 amounts, u16   *)
(* basis points.  Both products fit the u128 they are computed in, and the *)
(* gate is the documented ratio min_out / expected_out with its division   *)
(* cleared: it bounds the loss by the tolerated share of the quote.        *)

U64Max == 18446744073709551615
U128Max == 340282366920938463463374607431768211455

(* A u64 times ten thousand, and anything below it, fits a u128.           *)
LEMMA ProductsFit ==
  ASSUME NEW a \in Nat, NEW b \in Nat, a <= U64Max, b <= a * 10000
  PROVE  b <= U128Max
BY DEF U64Max, U128Max

(* Step 3 never overflows its u128 arithmetic once the tolerance is at     *)
(* most 100%, and it decides the loss inequality it is documented with.    *)
THEOREM SlippageGateFits ==
  ASSUME NEW r \in Request, r.minOut <= U64Max, r.expectedOut <= U64Max,
         ~ ToleranceUnderflows(r)
  PROVE  /\ r.minOut * BPS <= U128Max
         /\ r.expectedOut * (BPS - r.maxSlippageBps) \in Nat
         /\ r.expectedOut * (BPS - r.maxSlippageBps) <= U128Max
         /\ SlippageGate(r) <=>
              (r.expectedOut - r.minOut) * BPS <= r.expectedOut * r.maxSlippageBps
<1> DEFINE e == r.expectedOut  m == r.minOut  s == r.maxSlippageBps
<1>1. m \in Nat /\ e \in Nat /\ s \in Nat
  BY DEF Request
<1>2. s <= 10000
  BY <1>1 DEF ToleranceUnderflows, BPS
<1>3. m <= U64Max /\ e <= U64Max
  OBVIOUS
<1>4. SlippageGate(r) <=> m * 10000 >= e * (10000 - s)
  BY DEF SlippageGate, BPS
<1>5. /\ m * 10000 <= U128Max
      /\ e * (10000 - s) \in Nat
      /\ e * (10000 - s) <= U128Max
      /\ m * 10000 >= e * (10000 - s) <=> (e - m) * 10000 <= e * s
  <2> HIDE DEF e, m, s
  <2>1. m * 10000 <= U128Max
    <3>1. m * 10000 \in Nat
      BY <1>1
    <3>2. QED BY <1>1, <1>3, <3>1, ProductsFit
  <2>2. /\ e * (10000 - s) \in Nat
        /\ e * (10000 - s) <= e * 10000
        /\ m * 10000 >= e * (10000 - s) <=> (e - m) * 10000 <= e * s
    <3>1. e * (10000 - s) = e * 10000 - e * s
      BY <1>1
    <3>2. 0 <= e * s /\ e * s <= e * 10000 /\ e * s \in Int
      BY <1>1, <1>2
    <3>3. QED BY <1>1, <3>1, <3>2
  <2>3. QED BY <1>1, <1>3, <2>1, <2>2, ProductsFit
<1>6. QED BY <1>4, <1>5 DEF BPS

-----------------------------------------------------------------------------
(* Refinement.                                                             *)

Grants == [i \in DOMAIN events |-> [subject |-> events[i].policy, at |-> events[i].ts]]

(* An execution is a grant of the abstract limiter for the same policy.    *)
LEMMA ExecuteIsGrant ==
  ASSUME IInv, NEW r \in Requests, Execute(r)
  PROVE  Limiter!Grant(r.policy)
<1> DEFINE new == [subject |-> r.policy, at |-> clock]
<1>1. \A i \in DOMAIN Grants : Grants[i].subject = r.policy => clock - Grants[i].at >= RateLimit
  <2>1. r.policy \in Policies
    BY RequestsAssumption DEF Request
  <2>2. ~ TooSoon(r.policy)
    BY DEF Execute, Outcome
  <2>3. \A i \in DOMAIN events :
           events[i].policy = r.policy => ~ (clock - events[i].ts < RateLimit)
    BY <2>1, <2>2, GateSeesEveryEvent
  <2>4. \A i \in DOMAIN events : clock - events[i].ts \in Int
    BY EventsTyped DEF IInv, TypeOK
  <2>5. QED BY <2>3, <2>4, RateLimitAssumption DEF Grants
<1>2. Grants' = Append(Grants, new)
  <2>1. /\ Len(events) \in Nat
        /\ DOMAIN events = 1 .. Len(events)
        /\ DOMAIN events' = 1 .. Len(events) + 1
        /\ \A k \in 1 .. Len(events) : events'[k] = events[k]
        /\ events'[Len(events) + 1] = EventOf(r)
    BY ExecuteAppends DEF IInv
  <2>2. Grants = [i \in 1 .. Len(events) |-> [subject |-> events[i].policy, at |-> events[i].ts]]
    BY <2>1 DEF Grants
  <2>3. /\ Grants' = [i \in 1 .. Len(events) + 1 |-> [subject |-> events'[i].policy, at |-> events'[i].ts]]
        /\ Grants'[Len(events) + 1] = new
    BY <2>1 DEF Grants, EventOf
  <2>4. Append(Grants, new) = [i \in 1 .. Len(events) + 1 |->
                                IF i = Len(events) + 1 THEN new ELSE Grants[i]]
    <3>1. Len(Grants) = Len(events)
      BY <2>1, <2>2
    <3>2. QED BY <2>1, <2>2, <3>1
  <2>5. QED BY <2>1, <2>2, <2>3, <2>4
<1>3. UNCHANGED clock
  BY DEF Execute
<1>4. QED BY <1>1, <1>2, <1>3 DEF Limiter!Grant, Grants

(* swig_delegation implements the abstract rate limiter: remembering the   *)
(* last execution of a policy is as good as remembering them all.          *)
THEOREM Refinement == Spec => LimiterSpec
<1>1. Init => Limiter!Init
  BY ClockAssumption DEF Init, Limiter!Init
<1>2. IInv /\ [Next]_vars => [Limiter!Next]_(Limiter!vars)
  <2> SUFFICES ASSUME IInv, [Next]_vars PROVE [Limiter!Next]_(Limiter!vars)
    OBVIOUS
  <2>1. ASSUME NEW r \in Requests, Execute(r) PROVE Limiter!Next
    <3>1. r.policy \in Policies
      BY RequestsAssumption DEF Request
    <3>2. QED BY <2>1, <3>1, ExecuteIsGrant DEF Limiter!Next
  <2>2. ASSUME NEW r \in Requests, Refuse(r) PROVE UNCHANGED Limiter!vars
    BY <2>2 DEF Refuse, vars, Limiter!vars
  <2>3. CASE Tick
    BY <2>3 DEF Tick, IInv, ClockRuns, Limiter!Next, Limiter!Advance
  <2>4. CASE UNCHANGED vars
    BY <2>4 DEF vars, Limiter!vars
  <2>5. QED BY <2>1, <2>2, <2>3, <2>4 DEF Next
<1>3. QED BY <1>1, <1>2, Invariance, PTL DEF Spec, LimiterSpec, Limiter!Spec

-----------------------------------------------------------------------------
(* What the abstract limiter promises, seen through the refinement.        *)

LimiterTyped == clock \in Nat /\ Grants \in Seq(Limiter!Grants)

(* The limiter's variables are the clock and the log of grants.            *)
LEMMA LimiterSteps ==
  /\ Limiter!Init => clock \in Nat /\ Grants = <<>>
  /\ Limiter!Advance => clock' \in Nat /\ Grants' = Grants
  /\ \A s \in Policies : Limiter!Grant(s) =>
       /\ clock' = clock /\ Grants' = Append(Grants, [subject |-> s, at |-> clock])
       /\ \A i \in DOMAIN Grants : Grants[i].subject = s => clock - Grants[i].at >= RateLimit
  /\ UNCHANGED Limiter!vars => clock' = clock /\ Grants' = Grants
  /\ Limiter!Spaced <=> \A i, j \in DOMAIN Grants :
       i < j /\ Grants[i].subject = Grants[j].subject => Grants[j].at - Grants[i].at >= RateLimit
BY DEF Limiter!Init, Limiter!Advance, Limiter!Grant, Limiter!vars, Limiter!Spaced, Grants

(* The log of grants is well formed at all times.                          *)
LEMMA LimiterTyping == LimiterSpec => []LimiterTyped
<1>1. Limiter!Init => LimiterTyped
  BY LimiterSteps DEF LimiterTyped
<1>2. LimiterTyped /\ [Limiter!Next]_(Limiter!vars) => LimiterTyped'
  <2> SUFFICES ASSUME LimiterTyped, [Limiter!Next]_(Limiter!vars) PROVE LimiterTyped'
    OBVIOUS
  <2>1. ASSUME NEW s \in Policies, Limiter!Grant(s) PROVE LimiterTyped'
    <3>1. [subject |-> s, at |-> clock] \in Limiter!Grants
      BY DEF LimiterTyped, Limiter!Grants
    <3> HIDE DEF Grants
    <3>2. QED BY <2>1, <3>1, LimiterSteps DEF LimiterTyped
  <2>2. QED BY <2>1, LimiterSteps DEF LimiterTyped, Limiter!Next
<1>3. QED BY <1>1, <1>2, PTL DEF LimiterSpec, Limiter!Spec

(* Whatever implements the limiter spaces its grants: any two of one       *)
(* subject are a window apart.                                             *)
THEOREM LimiterSpacing == LimiterSpec => []Limiter!Spaced
<1>1. Limiter!Init => Limiter!Spaced
  BY LimiterSteps
<1>2. LimiterTyped /\ Limiter!Spaced /\ [Limiter!Next]_(Limiter!vars) => Limiter!Spaced'
  <2> SUFFICES ASSUME LimiterTyped, Limiter!Spaced, [Limiter!Next]_(Limiter!vars)
               PROVE  Limiter!Spaced'
    OBVIOUS
  <2> DEFINE Apart == \A i, j \in DOMAIN Grants :
               i < j /\ Grants[i].subject = Grants[j].subject
                 => Grants[j].at - Grants[i].at >= RateLimit
  <2>1. Apart /\ (Limiter!Spaced' <=> Apart')
    BY LimiterSteps DEF Limiter!Spaced, Grants
  <2>2. ASSUME NEW s \in Policies, Limiter!Grant(s) PROVE Apart'
    <3> DEFINE new == [subject |-> s, at |-> clock]
    <3>1. /\ Grants \in Seq(Limiter!Grants) /\ Grants' = Append(Grants, new)
          /\ \A i \in DOMAIN Grants :
               Grants[i].subject = new.subject => new.at - Grants[i].at >= RateLimit
      BY <2>2, LimiterSteps DEF LimiterTyped
    <3> HIDE DEF new
    <3>2. /\ DOMAIN Grants = 1 .. Len(Grants) /\ Len(Grants) \in Nat
          /\ DOMAIN Grants' = 1 .. Len(Grants) + 1
          /\ \A k \in 1 .. Len(Grants) : Grants'[k] = Grants[k]
          /\ Grants'[Len(Grants) + 1] = new
      BY <3>1
    <3>3. SUFFICES ASSUME NEW i \in DOMAIN Grants', NEW j \in DOMAIN Grants',
                          i < j, Grants'[i].subject = Grants'[j].subject
                   PROVE  Grants'[j].at - Grants'[i].at >= RateLimit
      OBVIOUS
    <3>4. i \in DOMAIN Grants
      BY <3>2, <3>3
    <3>5. CASE j \in DOMAIN Grants
      BY <2>1, <3>2, <3>3, <3>4, <3>5
    <3>6. CASE j = Len(Grants) + 1
      BY <3>1, <3>2, <3>3, <3>4, <3>6
    <3>7. QED BY <3>2, <3>3, <3>5, <3>6
  <2>3. ASSUME clock' \in Nat \/ clock' = clock, Grants' = Grants PROVE Apart'
    BY <2>1, <2>3
  <2>4. Apart'
    <3> HIDE DEF Apart
    <3>1. QED BY <2>2, <2>3, LimiterSteps DEF Limiter!Next
  <2>5. QED BY <2>1, <2>4
<1>3. QED BY <1>1, <1>2, LimiterTyping, PTL DEF LimiterSpec, Limiter!Spec

(* Two executions for one policy are a window apart, for every policy,     *)
(* guardian, request and window: no retry and no race swaps twice.         *)
THEOREM SpacingCorrect == Spec => []SpacedExecutions
<1>1. Limiter!Spaced => SpacedExecutions
  BY DEF Limiter!Spaced, SpacedExecutions
<1>2. QED BY <1>1, Refinement, LimiterSpacing, PTL
=============================================================================
