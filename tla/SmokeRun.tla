------------------------------- MODULE SmokeRun -------------------------------
(***************************************************************************)
(* The two scripts that exercise a RealClient against devnet and end with  *)
(* "ALL STEPS PASSED" or at the first step that fails: e2e-smoke.ts, which *)
(* is also the demo recording, and smoke-realclient.ts.  A script is one   *)
(* sequential process that may be slow anywhere and is run again; the      *)
(* chain it asserts about is not its own: another client exits policies,   *)
(* another editor writes the operator's policy, transactions of an earlier *)
(* run may still be in flight.                                             *)
(* The client is RebalanceClient and PolicyClient, on one clock.           *)
(***************************************************************************)
EXTENDS Integers, Sequences

CONSTANTS
  Operator, Stranger,    \* vaults; a policy is named by its vault
  Script, Agent, Editor, \* the script's process, another client, another editor
  Demo, Other,           \* the ciphertext of DEMO_STATE, and the editor's
  CtLen, HandleLen, TagLen,
  Faults,                \* of the network: readError, timeout, drop
  ReadThrottle, WriteThrottle, RateLimit,
  CacheWait,             \* the sleep before the high check (5.2 s)
  EventWait,             \* the patience for the event (5 s)
  StartTime, MaxTime, MaxTxs,
  MaxEvents,             \* bound on the exits other clients add to
  MaxRuns                \* bound on the runs of the script

(* The sleep before the high check outlasts the read throttle.             *)
ASSUME WaitAssumption ==
  /\ EventWait \in Nat /\ CacheWait \in Nat
  /\ ReadThrottle \in Nat /\ ReadThrottle <= CacheWait

(* The editor is another one; contents are bits.                           *)
ASSUME EditsAssumption ==
  /\ Editor # Script
  /\ Demo \in [DOMAIN Demo -> {0, 1}] /\ Other \in [DOMAIN Other -> {0, 1}]
  /\ Faults \subseteq {"readError", "timeout", "drop"}
  /\ CtLen \in Nat /\ HandleLen \in Nat /\ TagLen \in Nat \ {0}

ASSUME ExitsAssumption ==
  /\ RateLimit \in Nat \ {0} /\ WriteThrottle \in Nat
  /\ StartTime \in Nat \ {0} /\ MaxTime \in Nat
  /\ MaxTxs \in Nat /\ MaxRuns \in Nat

VARIABLES
  clock, exists, policy, edits, editTxs, landed,       \* PolicyClient
  initialized, lastRebalanced, events,                 \* SwigDelegation
  wall, writeCache, calls, txs,                        \* RebalanceClient
  script,    \* "e2e" or "realclient"
  pc,        \* the step it is at; 0 before the first run
  failure,   \* the step it failed at, or "none"
  resume,    \* when its setTimeout ends
  readCache, \* FR-5b, of the script's client and policy
  verdict,   \* r5
  execSig,   \* the signature of the exit
  listener,  \* on the exits after the from-th; the latest event it captured
  runs,
  firstTx,   \* history: the transactions of this run start here
  times      \* history: when this run passed some of its steps

editVars == <<exists, policy, edits, editTxs, landed>>
exitVars == <<initialized, lastRebalanced, events, wall, writeCache, calls, txs>>
scriptVars == <<script, pc, failure, resume, readCache, verdict, execSig, listener,
                runs, firstTx, times>>
vars == <<clock, editVars, exitVars, scriptVars>>

ExitPlan(p) == [policy |-> p, action |-> "EXIT", sizeBps |-> 10000]
Submission(ct) == [vault |-> Operator, ciphertext |-> ct, signer |-> Operator]

Edits == INSTANCE PolicyClient WITH
  Vaults <- {Operator}, Submissions <- {Submission(Demo), Submission(Other)},
  Calls <- {Script, Editor}, Equipped <- {Script, Editor}, calls <- edits, txs <- editTxs

Exits == INSTANCE RebalanceClient WITH
  Policies <- {Operator, Stranger}, Clients <- {Script, Agent}, Equipped <- {Script, Agent},
  Calls <- {Script}, ClientOf <- [c \in {Script} |-> Script],
  Plans <- {ExitPlan(Operator), ExitPlan(Stranger)},
  Faults <- (Faults \ {"readError"}) \cup {"restart"}

Walk ==
  IF script = "e2e"
  THEN <<"set", "subscribe", "low", "high", "again", "execute", "event", "repeat", "delegate">>
  ELSE <<"set", "readback", "execute", "account", "repeat">>

At(step) == failure = "none" /\ pc \in DOMAIN Walk /\ Walk[pc] = step
Passed == failure = "none" /\ pc > Len(Walk)
Ended == pc = 0 \/ failure # "none" \/ Passed

Pass == pc' = pc + 1 /\ UNCHANGED failure
Fail(why) == failure' = why /\ UNCHANGED pc
PassIf(ok, why) == IF ok THEN Pass ELSE Fail(why)

(* DEMO_STATE.metricsLadder, and what step 6 asks to see the cache ignore. *)
Low == [drawdownBps |-> 500, notionalUSD |-> 9000]
High == [drawdownBps |-> 3500, notionalUSD |-> 7500]
Disregarded == [drawdownBps |-> 100, notionalUSD |-> 999999]

NoVerdict == [breached |-> FALSE, score |-> 0]
NoCheck == [at |-> 0, result |-> NoVerdict]
Deaf == [on |-> FALSE, from |-> 0, captured |-> 0, shown |-> 0]
Unpassed == [step \in {"subscribe", "high", "submit", "execute", "event"} |-> 0]

Init ==
  /\ Edits!Init
  /\ Exits!Init
  /\ script \in {"e2e", "realclient"}
  /\ pc = 0 /\ failure = "none" /\ resume = 0
  /\ readCache = NoCheck /\ verdict = NoVerdict
  /\ execSig = 0 /\ listener = Deaf
  /\ runs = 0 /\ firstTx = 1 /\ times = Unpassed

(* A process with empty caches; what an earlier one submitted lives on.    *)
Start ==
  /\ Ended
  /\ runs < MaxRuns
  /\ Exits!Restart(Script)
  /\ pc' = 1 /\ failure' = "none" /\ resume' = 0
  /\ readCache' = NoCheck /\ verdict' = NoVerdict
  /\ execSig' = 0 /\ listener' = Deaf
  /\ runs' = runs + 1 /\ firstTx' = Len(txs) + 1 /\ times' = Unpassed
  /\ UNCHANGED <<editVars, script>>

-----------------------------------------------------------------------------
(* The policy is set; smoke-realclient reads it back.                      *)

SetPolicy ==
  /\ At("set")
  /\ Edits!Begin(Script, Submission(Demo)) \/ Edits!Submit(Script)
  /\ UNCHANGED <<exitVars, scriptVars>>

PolicySet ==
  /\ At("set")
  /\ \/ Edits!Confirm(Script) /\ Pass
     \/ (Edits!Reject(Script) \/ Edits!ReadFails(Script)) /\ Fail("set")
  /\ UNCHANGED <<clock, exitVars, script, resume, readCache, verdict, execSig, listener,
                 runs, firstTx, times>>

(* getAccountInfo rejects, which nobody catches but main.                  *)
Unreadable == "readError" \in Faults /\ Fail("unread")

ReadBack ==
  /\ At("readback")
  /\ \/ PassIf(Operator \in exists /\ policy[Operator].ciphertext = Demo, "readback")
     \/ Unreadable
  /\ UNCHANGED <<clock, editVars, exitVars, script, resume, readCache, verdict, execSig,
                 listener, runs, firstTx, times>>

-----------------------------------------------------------------------------
(* Steps 3 to 6 of e2e-smoke: the listener, and the read throttle.         *)

Subscribe ==
  /\ At("subscribe")
  /\ Pass
  /\ listener' = [Deaf EXCEPT !.on = TRUE, !.from = Len(events)]
  /\ times' = [times EXCEPT !["subscribe"] = wall]
  /\ UNCHANGED <<clock, editVars, exitVars, script, resume, readCache, verdict, execSig,
                 runs, firstTx>>

(* checkThresholdBreach: the answer it gives, and the cache it leaves.     *)
ReadHit == readCache.at # 0 /\ wall - readCache.at < ReadThrottle
Check(metrics) ==
  IF ReadHit THEN readCache
  ELSE [at |-> wall,
        result |-> [breached |-> metrics.drawdownBps >= 2500, score |-> metrics.notionalUSD]]

LowCheck ==
  /\ At("low")
  /\ readCache' = Check(Low)
  /\ PassIf(~ Check(Low).result.breached, "low")
  /\ resume' = wall + CacheWait
  /\ UNCHANGED <<clock, editVars, exitVars, script, verdict, execSig, listener, runs,
                 firstTx, times>>

HighCheck ==
  /\ At("high")
  /\ wall >= resume
  /\ readCache' = Check(High)
  /\ verdict' = Check(High).result
  /\ PassIf(Check(High).result.breached, "high")
  /\ times' = [times EXCEPT !["high"] = wall]
  /\ UNCHANGED <<clock, editVars, exitVars, script, resume, execSig, listener, runs, firstTx>>

CheckAgain ==
  /\ At("again")
  /\ readCache' = Check(Disregarded)
  /\ PassIf(Check(Disregarded).result = verdict, "again")
  /\ UNCHANGED <<clock, editVars, exitVars, script, resume, verdict, execSig, listener,
                 runs, firstTx, times>>

-----------------------------------------------------------------------------
(* The exit, its event or its account, and the exit again.                 *)

Execute ==
  /\ At("execute")
  /\ Exits!Submit(Script, ExitPlan(Operator))
  /\ times' = [times EXCEPT !["submit"] = wall]
  /\ UNCHANGED <<editVars, script, pc, failure, resume, readCache, verdict, execSig,
                 listener, runs, firstTx>>

Executed ==
  /\ At("execute")
  /\ Exits!Settle(Script)
  /\ PassIf(calls'[Script].phase = "resolved", "execute")
  /\ execSig' = calls'[Script].sig
  /\ resume' = wall + EventWait
  /\ times' = [times EXCEPT !["execute"] = wall]
  /\ UNCHANGED <<editVars, script, readCache, verdict, listener, runs, firstTx>>

(* The listener sees every exit of the program, whoever's policy it is of, *)
(* late, in any order, or not at all, and keeps the latest it was told of. *)
Capture(i) ==
  /\ ~ Ended
  /\ listener.on
  /\ i > listener.from /\ i # listener.captured
  /\ listener' = [listener EXCEPT !.captured = i]
  /\ UNCHANGED <<clock, editVars, exitVars, script, pc, failure, resume, readCache, verdict,
                 execSig, runs, firstTx, times>>

EventFits_AnyPolicy(i) == events[i].sizeBps = 10000
EventFits(i) == events[i].policy = Operator

CheckEvent ==
  /\ At("event")
  /\ \/ listener.captured # 0 /\ PassIf(EventFits(listener.captured), "event")
     \/ listener.captured = 0 /\ wall >= resume /\ Fail("silence")
  /\ times' = [times EXCEPT !["event"] = wall]
  /\ listener' = [listener EXCEPT !.shown = listener.captured]
  /\ UNCHANGED <<clock, editVars, exitVars, script, resume, readCache, verdict, execSig,
                 runs, firstTx>>

CheckAccount ==
  /\ At("account")
  /\ PassIf(Operator \in initialized, "account") \/ Unreadable
  /\ UNCHANGED <<clock, editVars, exitVars, script, resume, readCache, verdict, execSig,
                 listener, runs, firstTx, times>>

SameSignature_Any(sig) == sig # 0
SameSignature(sig) == sig = execSig

(* Again a call, which the cache answers, or the chain.                    *)
Repeat ==
  /\ At("repeat")
  /\ \/ /\ Exits!Shortcut(Script, ExitPlan(Operator)) \/ Exits!Settle(Script)
        /\ PassIf(SameSignature(calls'[Script].sig), "repeat")
     \/ /\ Exits!Submit(Script, ExitPlan(Operator))
        /\ UNCHANGED <<pc, failure>>
  /\ UNCHANGED <<editVars, script, resume, readCache, verdict, execSig, listener, runs,
                 firstTx, times>>

delegateToGuardian == "NotImplemented"

Delegate ==
  /\ At("delegate")
  /\ PassIf(delegateToGuardian = "NotImplemented", "delegate")
  /\ UNCHANGED <<clock, editVars, exitVars, script, resume, readCache, verdict, execSig,
                 listener, runs, firstTx, times>>

-----------------------------------------------------------------------------
(* The others, the network and time.                                       *)

Edit ==
  /\ script = "realclient"
  /\ \/ edits[Editor].phase = "idle" /\ Edits!Begin(Editor, Submission(Other))
     \/ Edits!Submit(Editor)
  /\ UNCHANGED <<exitVars, scriptVars>>

(* Another client's exit, at the moment it lands.                          *)
AgentExits(p) ==
  /\ script = "realclient" => p = Operator
  /\ Len(events) < MaxEvents
  /\ Exits!Chain!Execute(Exits!RequestOf(Agent, ExitPlan(p)))
  /\ UNCHANGED <<wall, writeCache, calls, txs, editVars, scriptVars>>

LandEdit(t) ==
  /\ Edits!Land(t) \/ Edits!Drop(t)
  /\ UNCHANGED <<exitVars, scriptVars>>

LandExit(t) ==
  /\ Exits!Land(t) \/ Exits!Drop(t)
  /\ UNCHANGED <<editVars, scriptVars>>

Tick ==
  /\ Exits!Tick
  /\ UNCHANGED <<editVars, scriptVars>>

Next ==
  \/ Start
  \/ SetPolicy \/ PolicySet \/ ReadBack
  \/ Subscribe \/ LowCheck \/ HighCheck \/ CheckAgain
  \/ Execute \/ Executed
  \/ \E i \in DOMAIN events : Capture(i)
  \/ CheckEvent \/ CheckAccount \/ Repeat \/ Delegate
  \/ Edit
  \/ \E p \in {Operator, Stranger} : AgentExits(p)
  \/ \E t \in DOMAIN editTxs : LandEdit(t)
  \/ \E t \in DOMAIN txs : LandExit(t)
  \/ Tick

Spec == Init /\ [][Next]_vars

-----------------------------------------------------------------------------
TypeOK ==
  /\ Edits!TypeOK
  /\ Exits!TypeOK
  /\ script \in {"e2e", "realclient"}
  /\ pc \in 0 .. Len(Walk) + 1
  /\ failure \in {"none", "set", "readback", "unread", "low", "high", "again", "execute",
                  "event", "silence", "account", "repeat", "delegate"}
  /\ readCache.at \in Nat /\ readCache.result.breached \in BOOLEAN /\ verdict.score \in Nat
  /\ execSig \in 0 .. Len(txs)
  /\ listener.on \in BOOLEAN
  /\ listener.captured \in 0 .. Len(events)
  /\ runs \in 0 .. MaxRuns
  /\ times \in [DOMAIN Unpassed -> Nat]

ExitOfOperatorSince(since) ==
  \E i \in DOMAIN events : events[i].policy = Operator /\ events[i].ts > since

(* A red run is never the fault of the code under test.  The network fails *)
(* a run whose read fails, whose answer is lost or whose transaction       *)
(* expires, and may withhold the event.  Apart from that, the read         *)
(* throttle is seen to fail only by a script that dawdled over it, the     *)
(* write throttle likewise; an exit is refused only inside the window of   *)
(* another one, a policy is refused only when another edit, be it of an    *)
(* earlier run, landed meanwhile, and is not what was written only when an *)
(* editor's has landed since; the event is another policy's only when that *)
(* one was exited; a verdict is right, and an account that is read after   *)
(* the exit is there.                                                      *)
FailureHasCause ==
  /\ failure \notin {"low", "high", "account", "delegate"}
  /\ failure = "again" => wall - times["high"] >= ReadThrottle
  /\ failure = "execute" /\ txs[calls[Script].tx].status \notin {"flight", "dropped", "Ok"}
       => ExitOfOperatorSince(times["submit"] - RateLimit)
  /\ failure = "repeat" => wall - times["execute"] >= WriteThrottle
  /\ failure = "readback" =>
       \E i, j \in DOMAIN landed :
         /\ landed[i] = edits[Script].tx
         /\ i < j /\ editTxs[landed[j]].sub = Submission(Other)
  /\ failure = "set" /\ edits[Script].tx # 0 /\ editTxs[edits[Script].tx].status = "refused"
       => Len(landed) > editTxs[edits[Script].tx].seen
  /\ failure = "event" =>
       \E i \in DOMAIN events : i > listener.from /\ events[i].policy = Stranger

(* What the recording shows belongs together: the event that step 7 prints *)
(* is that of the transaction it prints, although the listener does not    *)
(* look at signatures and other clients exit the same policy, unless the   *)
(* steps from the subscription on took the whole rate-limit window.        *)
CapturedIsOwnUnlessSlow ==
  listener.shown # 0 /\ failure # "event" =>
    \/ listener.shown = txs[execSig].event
    \/ times["event"] - times["subscribe"] >= RateLimit

(* "No second swap": a run that passes has exited the policy exactly once, *)
(* and has nothing in flight that might yet exit it again.                 *)
PassedMeansOneExit ==
  Passed =>
    LET own == {t \in firstTx .. Len(txs) : txs[t].request.guardian = Script} IN
    \A t \in own : txs[t].status = IF t = execSig THEN "Ok" ELSE "RebalanceTooSoon"
=============================================================================
