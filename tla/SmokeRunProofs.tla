--------------------------- MODULE SmokeRunProofs ---------------------------
(***************************************************************************)
(* The smoke scripts for any waits, windows, contents, bounds and faults.  *)
(* The account that a script writes is one of PolicyClient's, the chain it *)
(* exits on is one of SwigDelegation's, whoever else uses them: what is    *)
(* proved of those holds here.  The rest follows a run from step to step:  *)
(* what it has submitted, what its caches hold, what its listener may      *)
(* have heard.                                                             *)
(***************************************************************************)
EXTENDS SmokeRun, TLAPS

EditsProofs == INSTANCE PolicyClientProofs WITH
  Vaults <- {Operator}, Submissions <- {Submission(Demo), Submission(Other)},
  Calls <- {Script, Editor}, Equipped <- {Script, Editor}, calls <- edits, txs <- editTxs

ExitsProofs == INSTANCE RebalanceClientProofs WITH
  Policies <- {Operator, Stranger}, Clients <- {Script, Agent}, Equipped <- {Script, Agent},
  Calls <- {Script}, ClientOf <- [c \in {Script} |-> Script],
  Plans <- {ExitPlan(Operator), ExitPlan(Stranger)},
  Faults <- (Faults \ {"readError"}) \cup {"restart"}

-----------------------------------------------------------------------------
(* The policy account.                                                     *)

(* What PolicyClient's theorems assume, from this module's assumptions.    *)
LEMMA EditsAssumed ==
  /\ Faults \subseteq EditsProofs!Fault
  /\ /\ {Submission(Demo), Submission(Other)} # {}
     /\ \A s \in {Submission(Demo), Submission(Other)} :
          /\ s.vault \in {Operator}
          /\ s.ciphertext \in [DOMAIN s.ciphertext -> {0, 1}]
  /\ /\ CtLen \in Nat /\ HandleLen \in Nat /\ TagLen \in Nat \ {0}
     /\ StartTime \in Nat \ {0} /\ MaxTime \in Nat
     /\ MaxTxs \in Nat
BY EditsAssumption, ExitsAssumption DEF Submission, EditsProofs!Fault

(* The instance whose theorems are proved is the instance that runs: the   *)
(* same instructions ...                                                   *)
LEMMA SameInstructions ==
  /\ Edits!Chain!Init <=> EditsProofs!Chain!Init
  /\ Edits!AccountsTyped <=> EditsProofs!AccountsTyped
  /\ \A v, ct, h : Edits!Chain!InitPolicy(v, ct, h) <=> EditsProofs!Chain!InitPolicy(v, ct, h)
  /\ \A v, s, ct, h :
       Edits!Chain!UpdatePolicy(v, s, ct, h) <=> EditsProofs!Chain!UpdatePolicy(v, s, ct, h)
  /\ \A v : Edits!Chain!RefuseInit(v) <=> EditsProofs!Chain!RefuseInit(v)
  /\ \A v, s : Edits!Chain!RefuseUpdate(v, s) <=> EditsProofs!Chain!RefuseUpdate(v, s)
<1>1. \A ct, h, i : Edits!Chain!Ones(ct, h, i) = EditsProofs!Chain!Ones(ct, h, i)
  BY DEF Edits!Chain!Ones, EditsProofs!Chain!Ones, Edits!Chain!ByteAt, EditsProofs!Chain!ByteAt
<1>2. \A S : Edits!Chain!Cardinality(S) = EditsProofs!Chain!Cardinality(S)
  BY DEF Edits!Chain!Cardinality, EditsProofs!Chain!Cardinality,
     Edits!Chain!IsFiniteSet, EditsProofs!Chain!IsFiniteSet
<1>3. \A ct, h : Edits!Chain!XorFold(ct, h) = EditsProofs!Chain!XorFold(ct, h)
  BY <1>1, <1>2 DEF Edits!Chain!XorFold, EditsProofs!Chain!XorFold
<1>4. ASSUME NEW v, NEW ct, NEW h
      PROVE  Edits!Chain!InitPolicy(v, ct, h) <=> EditsProofs!Chain!InitPolicy(v, ct, h)
  BY <1>3 DEF Edits!Chain!InitPolicy, EditsProofs!Chain!InitPolicy
<1>5. \A v, s : Edits!Chain!MayUpdate(v, s) <=> EditsProofs!Chain!MayUpdate(v, s)
  BY DEF Edits!Chain!MayUpdate, EditsProofs!Chain!MayUpdate
<1>6. ASSUME NEW v, NEW s, NEW ct, NEW h
      PROVE  Edits!Chain!UpdatePolicy(v, s, ct, h) <=> EditsProofs!Chain!UpdatePolicy(v, s, ct, h)
  BY <1>3, <1>5 DEF Edits!Chain!UpdatePolicy, EditsProofs!Chain!UpdatePolicy
<1>7. \A v : Edits!Chain!RefuseInit(v) <=> EditsProofs!Chain!RefuseInit(v)
  BY DEF Edits!Chain!RefuseInit, EditsProofs!Chain!RefuseInit,
     Edits!Chain!vars, EditsProofs!Chain!vars
<1>8. \A v, s : Edits!Chain!RefuseUpdate(v, s) <=> EditsProofs!Chain!RefuseUpdate(v, s)
  BY <1>5 DEF Edits!Chain!RefuseUpdate, EditsProofs!Chain!RefuseUpdate,
     Edits!Chain!vars, EditsProofs!Chain!vars
<1>9. Edits!Chain!Init <=> EditsProofs!Chain!Init
  BY DEF Edits!Chain!Init, EditsProofs!Chain!Init, Edits!Chain!Blank, EditsProofs!Chain!Blank
<1>10. Edits!AccountsTyped <=> EditsProofs!AccountsTyped
  BY DEF Edits!AccountsTyped, EditsProofs!AccountsTyped, Edits!Account,
     EditsProofs!Account, Edits!Bits, EditsProofs!Bits,
     Edits!Bit, EditsProofs!Bit
<1>11. QED BY <1>4, <1>6, <1>7, <1>8, <1>9, <1>10

(* ... and the same actions of the editors.                                *)
LEMMA SameEdits ==
  /\ \A c, s : Edits!Begin(c, s) <=> EditsProofs!Begin(c, s)
  /\ \A c : /\ Edits!Submit(c) <=> EditsProofs!Submit(c)
            /\ Edits!ReadFails(c) <=> EditsProofs!ReadFails(c)
            /\ Edits!Confirm(c) <=> EditsProofs!Confirm(c)
            /\ Edits!Reject(c) <=> EditsProofs!Reject(c)
  /\ \A t : /\ Edits!Land(t) <=> EditsProofs!Land(t)
            /\ Edits!Drop(t) <=> EditsProofs!Drop(t)
<1> USE DEF Edits!chainVars, EditsProofs!chainVars
<1>1. \A s : Edits!Idle(s) = EditsProofs!Idle(s)
  BY DEF Edits!Idle, EditsProofs!Idle
<1>2. \A c, p, e : Edits!Settled(c, p, e) <=> EditsProofs!Settled(c, p, e)
  BY DEF Edits!Settled, EditsProofs!Settled
<1>3. \A c, s : Edits!Begin(c, s) <=> EditsProofs!Begin(c, s)
  BY <1>1 DEF Edits!Begin, EditsProofs!Begin, Edits!Busy, EditsProofs!Busy,
     Edits!WellFormed, EditsProofs!WellFormed
<1>4. \A c : Edits!Submit(c) <=> EditsProofs!Submit(c)
  BY DEF Edits!Submit, EditsProofs!Submit, Edits!KindFor, EditsProofs!KindFor
<1>5. \A c : /\ Edits!ReadFails(c) <=> EditsProofs!ReadFails(c)
             /\ Edits!Confirm(c) <=> EditsProofs!Confirm(c)
             /\ Edits!Reject(c) <=> EditsProofs!Reject(c)
  BY <1>2 DEF Edits!ReadFails, EditsProofs!ReadFails, Edits!Confirm, EditsProofs!Confirm,
     Edits!Reject, EditsProofs!Reject
<1>6. \A tx : Edits!Signed(tx) <=> EditsProofs!Signed(tx)
  BY DEF Edits!Signed, EditsProofs!Signed
<1>7. Edits!ArciumHandle = EditsProofs!ArciumHandle
  BY DEF Edits!ArciumHandle, EditsProofs!ArciumHandle
<1>8. \A tx : /\ Edits!Effective(tx) <=> EditsProofs!Effective(tx)
              /\ Edits!Ineffective(tx) <=> EditsProofs!Ineffective(tx)
  BY <1>6, <1>7, SameInstructions DEF Edits!Effective, EditsProofs!Effective,
     Edits!Ineffective, EditsProofs!Ineffective
<1>9. \A t : Edits!Land(t) <=> EditsProofs!Land(t)
  BY <1>8 DEF Edits!Land, EditsProofs!Land
<1>10. \A t : Edits!Drop(t) <=> EditsProofs!Drop(t)
  BY DEF Edits!Drop, EditsProofs!Drop
<1>11. QED BY <1>3, <1>4, <1>5, <1>9, <1>10

(* Each step is one of the editors', or none to them.                      *)
LEMMA StepOfEdits ==
  ASSUME [Next]_vars
  PROVE  [EditsProofs!Next]_(EditsProofs!vars)
<1> DEFINE Kept == UNCHANGED <<clock, editVars>>
<1>1. ASSUME SetPolicy PROVE EditsProofs!Next
  BY <1>1, SameEdits DEF SetPolicy, EditsProofs!Next
<1>2. ASSUME PolicySet PROVE EditsProofs!Next
  BY <1>2, SameEdits DEF PolicySet, EditsProofs!Next
<1>3. ASSUME Edit PROVE EditsProofs!Next
  BY <1>3, SameEdits DEF Edit, EditsProofs!Next
<1>4. ASSUME NEW t \in DOMAIN editTxs, LandEdit(t) PROVE EditsProofs!Next
  BY <1>4, SameEdits DEF LandEdit, EditsProofs!Next
<1>5. ASSUME Tick PROVE EditsProofs!Next
  <2>1. clock < MaxTime /\ clock' = clock + 1 /\ UNCHANGED editVars
    BY <1>5 DEF Tick, Exits!Tick, Exits!Chain!Tick
  <2>2. EditsProofs!Tick
    BY <2>1 DEF EditsProofs!Tick, EditsProofs!Chain!Tick, editVars
  <2>3. QED BY <2>2 DEF EditsProofs!Next
<1>6. ASSUME Start PROVE Kept
  BY <1>6 DEF Start, Exits!Restart, Exits!chainVars
<1>7. ASSUME ReadBack \/ Subscribe \/ LowCheck \/ HighCheck \/ CheckAgain PROVE Kept
  BY <1>7 DEF ReadBack, Subscribe, LowCheck, HighCheck, CheckAgain
<1>8. ASSUME CheckEvent \/ CheckAccount \/ Delegate PROVE Kept
  BY <1>8 DEF CheckEvent, CheckAccount, Delegate
<1>9. ASSUME NEW i \in DOMAIN events, Capture(i) PROVE Kept
  BY <1>9 DEF Capture
<1>10. Exits!Settle(Script) => UNCHANGED clock
  BY DEF Exits!Settle, Exits!Confirm, Exits!CatchTooSoon, Exits!Rethrow, Exits!Abandon,
     Exits!chainVars
<1>11. Exits!Submit(Script, ExitPlan(Operator)) \/ Exits!Shortcut(Script, ExitPlan(Operator))
         => UNCHANGED clock
  BY DEF Exits!Submit, Exits!Shortcut, Exits!chainVars
<1>12. ASSUME Execute \/ Executed \/ Repeat PROVE Kept
  BY <1>10, <1>11, <1>12 DEF Execute, Executed, Repeat
<1>13. ASSUME NEW p \in {Operator, Stranger}, AgentExits(p) PROVE Kept
  BY <1>13 DEF AgentExits, Exits!Chain!Execute
<1>14. ASSUME NEW t \in DOMAIN txs, LandExit(t) PROVE Kept
  BY <1>14 DEF LandExit, Exits!Land, Exits!Drop, Exits!Chain!Execute, Exits!Chain!Refuse,
     Exits!Chain!vars, Exits!chainVars
<1>15. UNCHANGED vars => Kept
  BY DEF vars
<1>16. Kept => UNCHANGED EditsProofs!vars
  BY DEF editVars, EditsProofs!vars
<1> HIDE DEF Kept
<1>17. QED
  BY <1>1, <1>2, <1>3, <1>4, <1>5, <1>6, <1>7, <1>8, <1>9, <1>12, <1>13, <1>14, <1>15, <1>16
  DEF Next

(* A run starts with no edit made.                                         *)
LEMMA InitOfEdits == Init => EditsProofs!Init
<1>1. Edits!Idle(CHOOSE s \in {Submission(Demo), Submission(Other)} : TRUE) =
        EditsProofs!Idle(CHOOSE s \in {Submission(Demo), Submission(Other)} : TRUE)
  BY DEF Edits!Idle, EditsProofs!Idle
<1>2. QED BY <1>1, SameInstructions DEF Init, Edits!Init, EditsProofs!Init

(* What is used of it: the account's types, and what a submission that     *)
(* was answered, or refused, says of the account.                          *)
EditsKnown ==
  /\ Edits!TypeOK
  /\ Edits!PolicyIsLastLanded
  /\ Edits!ResolvedHasLanded
  /\ Edits!RefusedOnlyIfOvertaken

(* Seen through setEncryptedPolicy and the policy accounts alone, a smoke  *)
(* script and whoever else edits its policy run PolicyClient: no step of a *)
(* script does to an account what that client could not.                   *)
THEOREM ImplementsPolicyClient == Spec => EditsProofs!Spec
BY InitOfEdits, StepOfEdits, PTL DEF Spec, EditsProofs!Spec

(* So what is proved of PolicyClient holds of the scripts' accounts.       *)
LEMMA EditsAreKnown == Spec => []EditsKnown
<1>1. Faults \subseteq EditsProofs!Fault
  BY EditsAssumed
<1>2. /\ {Submission(Demo), Submission(Other)} # {}
      /\ \A s \in {Submission(Demo), Submission(Other)} :
           /\ s.vault \in {Operator}
           /\ s.ciphertext \in [DOMAIN s.ciphertext -> {0, 1}]
  BY EditsAssumed
<1>3. /\ CtLen \in Nat /\ HandleLen \in Nat /\ TagLen \in Nat \ {0}
      /\ StartTime \in Nat \ {0} /\ MaxTime \in Nat
      /\ MaxTxs \in Nat
  BY EditsAssumed
<1>4. EditsProofs!Spec => []EditsProofs!TypeOK
  BY <1>1, <1>2, <1>3, EditsProofs!TypeCorrect
<1>5. EditsProofs!Spec => []EditsProofs!PolicyIsLastLanded
  BY <1>1, <1>2, <1>3, EditsProofs!PolicyCorrect
<1>6. EditsProofs!Spec => []EditsProofs!ResolvedHasLanded
  BY <1>1, <1>2, <1>3, EditsProofs!ResolvedCorrect
<1>7. EditsProofs!Spec => []EditsProofs!RefusedOnlyIfOvertaken
  BY <1>1, <1>2, <1>3, EditsProofs!RefusalCorrect
<1>8. Edits!TypeOK <=> EditsProofs!TypeOK
  <2>1. Edits!Call = EditsProofs!Call /\ Edits!Tx = EditsProofs!Tx
    BY DEF Edits!Call, EditsProofs!Call, Edits!Tx, EditsProofs!Tx, Edits!Kind,
       EditsProofs!Kind, Edits!Error, EditsProofs!Error
  <2>2. QED BY <2>1, SameInstructions DEF Edits!TypeOK, EditsProofs!TypeOK
<1>9. \A v : Edits!LandedFor(v) = EditsProofs!LandedFor(v)
  BY DEF Edits!LandedFor, EditsProofs!LandedFor
<1>10. \A i, v : Edits!IsLatest(i, v) <=> EditsProofs!IsLatest(i, v)
  BY <1>9 DEF Edits!IsLatest, EditsProofs!IsLatest
<1>11. Edits!PolicyIsLastLanded <=> EditsProofs!PolicyIsLastLanded
  BY <1>9, <1>10 DEF Edits!PolicyIsLastLanded, EditsProofs!PolicyIsLastLanded
<1>12. Edits!ResolvedHasLanded <=> EditsProofs!ResolvedHasLanded
  BY DEF Edits!ResolvedHasLanded, EditsProofs!ResolvedHasLanded
<1>13. Edits!RefusedOnlyIfOvertaken <=> EditsProofs!RefusedOnlyIfOvertaken
  BY <1>9 DEF Edits!RefusedOnlyIfOvertaken, EditsProofs!RefusedOnlyIfOvertaken,
     Edits!Signed, EditsProofs!Signed
<1>14. QED
  BY <1>4, <1>5, <1>6, <1>7, <1>8, <1>11, <1>12, <1>13, ImplementsPolicyClient,
     PTL DEF EditsKnown

-----------------------------------------------------------------------------
(* The exits.                                                              *)

(* What RebalanceClient's theorems assume.                                 *)
LEMMA ExitsAssumed ==
  /\ /\ [c \in {Script} |-> Script] \in [{Script} -> {Script, Agent}]
     /\ {ExitPlan(Operator), ExitPlan(Stranger)} \subseteq ExitsProofs!Plan
     /\ (Faults \ {"readError"}) \cup {"restart"} \subseteq ExitsProofs!Fault
     /\ WriteThrottle \in Nat
     /\ MaxTxs \in Nat
     /\ {Operator, Stranger} # {}
  /\ /\ RateLimit \in Nat \ {0}
     /\ StartTime \in Nat \ {0}
     /\ MaxTime \in Nat
BY EditsAssumption, ExitsAssumption DEF ExitPlan, ExitsProofs!Plan, ExitsProofs!Fault

(* The two instances agree on the program ...                              *)
LEMMA SameOutcomes ==
  ASSUME NEW r
  PROVE  /\ Exits!Chain!Outcome(r) = ExitsProofs!Chain!Outcome(r)
         /\ Exits!Chain!Execute(r) <=> ExitsProofs!Chain!Execute(r)
         /\ Exits!Chain!Refuse(r) <=> ExitsProofs!Chain!Refuse(r)
<1>1. Exits!Chain!Outcome(r) = ExitsProofs!Chain!Outcome(r)
  BY DEF Exits!Chain!Outcome, ExitsProofs!Chain!Outcome, Exits!Chain!TooSoon,
     ExitsProofs!Chain!TooSoon, Exits!Chain!ToleranceUnderflows,
     ExitsProofs!Chain!ToleranceUnderflows, Exits!Chain!SlippageGate,
     ExitsProofs!Chain!SlippageGate, Exits!Chain!BPS, ExitsProofs!Chain!BPS
<1>2. QED
  BY <1>1 DEF Exits!Chain!Execute, ExitsProofs!Chain!Execute, Exits!Chain!Refuse,
     ExitsProofs!Chain!Refuse, Exits!Chain!EventOf, ExitsProofs!Chain!EventOf,
     Exits!Chain!vars, ExitsProofs!Chain!vars

(* ... and on what the scripts' client does.                               *)
LEMMA SameCalls ==
  /\ Exits!Shortcut(Script, ExitPlan(Operator)) <=>
       ExitsProofs!Shortcut(Script, ExitPlan(Operator))
  /\ Exits!Submit(Script, ExitPlan(Operator)) <=>
       ExitsProofs!Submit(Script, ExitPlan(Operator))
  /\ Exits!Settle(Script) <=> ExitsProofs!Settle(Script)
  /\ Exits!Restart(Script) <=> ExitsProofs!Restart(Script)
  /\ \A t : /\ Exits!Land(t) <=> ExitsProofs!Land(t)
            /\ Exits!Drop(t) <=> ExitsProofs!Drop(t)
  /\ Exits!Tick <=> ExitsProofs!Tick
<1> USE DEF Exits!CachedWrite, ExitsProofs!CachedWrite, Exits!Hit, ExitsProofs!Hit,
     Exits!Resolve, ExitsProofs!Resolve, Exits!Throw, ExitsProofs!Throw,
     Exits!Settled, ExitsProofs!Settled, Exits!NoEntry, ExitsProofs!NoEntry,
     Exits!chainVars, ExitsProofs!chainVars, Exits!StatusSeen, ExitsProofs!StatusSeen,
     Exits!NotShipped, ExitsProofs!NotShipped, Exits!Fresh, ExitsProofs!Fresh
<1>1. Exits!Shortcut(Script, ExitPlan(Operator)) <=>
        ExitsProofs!Shortcut(Script, ExitPlan(Operator))
  BY DEF Exits!Shortcut, ExitsProofs!Shortcut
<1>2. Exits!Submit(Script, ExitPlan(Operator)) <=>
        ExitsProofs!Submit(Script, ExitPlan(Operator))
  BY DEF Exits!Submit, ExitsProofs!Submit, Exits!Dispatch, ExitsProofs!Dispatch,
     Exits!RequestOf, ExitsProofs!RequestOf
<1>3. Exits!Confirm(Script) <=> ExitsProofs!Confirm(Script)
  BY DEF Exits!Confirm, ExitsProofs!Confirm, Exits!NewEntry, ExitsProofs!NewEntry
<1>4. Exits!CatchTooSoon(Script) <=> ExitsProofs!CatchTooSoon(Script)
  BY DEF Exits!CatchTooSoon, ExitsProofs!CatchTooSoon
<1>5. Exits!Rethrow(Script) <=> ExitsProofs!Rethrow(Script)
  BY DEF Exits!Rethrow, ExitsProofs!Rethrow, Exits!ErrorOf, ExitsProofs!ErrorOf
<1>6. Exits!Abandon(Script) <=> ExitsProofs!Abandon(Script)
  BY DEF Exits!Abandon, ExitsProofs!Abandon
<1>7. Exits!Settle(Script) <=> ExitsProofs!Settle(Script)
  BY <1>3, <1>4, <1>5, <1>6 DEF Exits!Settle, ExitsProofs!Settle
<1>8. Exits!Restart(Script) <=> ExitsProofs!Restart(Script)
  BY DEF Exits!Restart, ExitsProofs!Restart
<1>9. ASSUME NEW t PROVE /\ Exits!Land(t) <=> ExitsProofs!Land(t)
                         /\ Exits!Drop(t) <=> ExitsProofs!Drop(t)
  BY SameOutcomes DEF Exits!Land, ExitsProofs!Land, Exits!Drop, ExitsProofs!Drop
<1>10. Exits!Tick <=> ExitsProofs!Tick
  BY DEF Exits!Tick, ExitsProofs!Tick, Exits!Chain!Tick, ExitsProofs!Chain!Tick
<1>11. QED BY <1>1, <1>2, <1>7, <1>8, <1>9, <1>10

(* Each step is one of the client's, or none to it, or the other client's. *)
LEMMA StepOfExits ==
  ASSUME [Next]_vars
  PROVE  \/ [ExitsProofs!Next]_(ExitsProofs!vars)
         \/ \E p \in {Operator, Stranger} : AgentExits(p)
<1> DEFINE Kept == UNCHANGED <<clock, exitVars>>
<1>1. Exits!Settle(Script) => ExitsProofs!Next
  BY SameCalls DEF ExitsProofs!Next
<1>2. Exits!Submit(Script, ExitPlan(Operator)) \/ Exits!Shortcut(Script, ExitPlan(Operator))
         => ExitsProofs!Next
  BY SameCalls DEF ExitsProofs!Next, ExitsProofs!Start
<1>3. ASSUME Execute \/ Executed \/ Repeat PROVE ExitsProofs!Next
  BY <1>1, <1>2, <1>3 DEF Execute, Executed, Repeat
<1>4. ASSUME Start PROVE ExitsProofs!Next
  BY <1>4, SameCalls DEF Start, ExitsProofs!Next
<1>5. ASSUME NEW t \in DOMAIN txs, LandExit(t) PROVE ExitsProofs!Next
  BY <1>5, SameCalls DEF LandExit, ExitsProofs!Next
<1>6. ASSUME Tick PROVE ExitsProofs!Next
  BY <1>6, SameCalls DEF Tick, ExitsProofs!Next
<1>7. ASSUME ReadBack \/ Subscribe \/ LowCheck \/ HighCheck \/ CheckAgain PROVE Kept
  BY <1>7 DEF ReadBack, Subscribe, LowCheck, HighCheck, CheckAgain
<1>8. ASSUME CheckEvent \/ CheckAccount \/ Delegate PROVE Kept
  BY <1>8 DEF CheckEvent, CheckAccount, Delegate
<1>9. ASSUME NEW i \in DOMAIN events, Capture(i) PROVE Kept
  BY <1>9 DEF Capture
<1>10. ASSUME PolicySet PROVE Kept
  BY <1>10 DEF PolicySet
<1>11. ASSUME SetPolicy PROVE Kept
  BY <1>11 DEF SetPolicy, Edits!Begin, Edits!Submit, Edits!chainVars
<1>12. ASSUME Edit PROVE Kept
  BY <1>12 DEF Edit, Edits!Begin, Edits!Submit, Edits!chainVars
<1>13. ASSUME NEW t \in DOMAIN editTxs, LandEdit(t) PROVE Kept
  BY <1>13 DEF LandEdit, Edits!Land, Edits!Drop, Edits!chainVars, Edits!Effective,
     Edits!Ineffective, Edits!Chain!InitPolicy, Edits!Chain!UpdatePolicy,
     Edits!Chain!RefuseInit, Edits!Chain!RefuseUpdate, Edits!Chain!vars
<1>14. UNCHANGED vars => Kept
  BY DEF vars
<1>15. Kept => UNCHANGED ExitsProofs!vars
  BY DEF exitVars, ExitsProofs!vars
<1> HIDE DEF Kept
<1>16. QED
  BY <1>3, <1>4, <1>5, <1>6, <1>7, <1>8, <1>9, <1>10, <1>11, <1>12, <1>13, <1>14, <1>15
  DEF Next

(* Both instances have the same types, now and later.                      *)
LEMMA SameTypes ==
  /\ Exits!TypeOK <=> ExitsProofs!TypeOK
  /\ Exits!TypeOK' <=> ExitsProofs!TypeOK'
  /\ Exits!Submittable = ExitsProofs!Submittable
<1>1. Exits!Submittable = ExitsProofs!Submittable
  BY DEF Exits!Submittable, ExitsProofs!Submittable, Exits!RequestOf, ExitsProofs!RequestOf
<1>2. /\ Exits!Entry = ExitsProofs!Entry /\ Exits!Call = ExitsProofs!Call
      /\ Exits!Tx = ExitsProofs!Tx
  BY <1>1 DEF Exits!Entry, ExitsProofs!Entry, Exits!Call, ExitsProofs!Call, Exits!Tx,
     ExitsProofs!Tx, Exits!Error, ExitsProofs!Error, Exits!TxStatus, ExitsProofs!TxStatus
<1>3. Exits!Chain!Event = ExitsProofs!Chain!Event
  BY DEF Exits!Chain!Event, ExitsProofs!Chain!Event, Exits!Chain!RebalanceAction,
     ExitsProofs!Chain!RebalanceAction
<1>4. Exits!TypeOK <=> ExitsProofs!TypeOK
  BY <1>1, <1>2, <1>3 DEF Exits!TypeOK, ExitsProofs!TypeOK
<1>5. Exits!TypeOK' <=> ExitsProofs!TypeOK'
  BY <1>1, <1>2, <1>3 DEF Exits!TypeOK, ExitsProofs!TypeOK
<1>6. QED BY <1>1, <1>4, <1>5

(* The other client's exit is an instruction like any other.               *)
LEMMA AgentIsInstruction ==
  ASSUME NEW p \in {Operator, Stranger}, AgentExits(p)
  PROVE  /\ ExitsProofs!ChainProofs!Next
         /\ UNCHANGED <<wall, writeCache, calls, txs, editVars, scriptVars>>
<1> DEFINE r == Exits!RequestOf(Agent, ExitPlan(p))
<1>1. r \in ExitsProofs!Submittable
  BY SameTypes DEF Exits!Submittable
<1>2. ExitsProofs!Chain!Execute(r)
  BY SameOutcomes DEF AgentExits
<1>3. ASSUME NEW q PROVE ExitsProofs!Chain!Execute(q) => ExitsProofs!ChainProofs!Execute(q)
  <2>1. ExitsProofs!Chain!Outcome(q) = ExitsProofs!ChainProofs!Outcome(q)
    BY DEF ExitsProofs!Chain!Outcome, ExitsProofs!ChainProofs!Outcome,
       ExitsProofs!Chain!TooSoon, ExitsProofs!ChainProofs!TooSoon,
       ExitsProofs!Chain!ToleranceUnderflows, ExitsProofs!ChainProofs!ToleranceUnderflows,
       ExitsProofs!Chain!SlippageGate, ExitsProofs!ChainProofs!SlippageGate,
       ExitsProofs!Chain!BPS, ExitsProofs!ChainProofs!BPS
  <2>2. QED
    BY <2>1 DEF ExitsProofs!Chain!Execute, ExitsProofs!ChainProofs!Execute,
       ExitsProofs!Chain!EventOf, ExitsProofs!ChainProofs!EventOf
<1>4. ExitsProofs!ChainProofs!Execute(r)
  BY <1>2, <1>3
<1> HIDE DEF r
<1>5. QED BY <1>1, <1>4 DEF ExitsProofs!ChainProofs!Next, AgentExits

(* Whoever exits, it is the program that runs.                             *)
LEMMA StepOfChain ==
  ASSUME Exits!TypeOK, [Next]_vars
  PROVE  [ExitsProofs!ChainProofs!Next]_(ExitsProofs!ChainProofs!vars)
<1>1. CASE [ExitsProofs!Next]_(ExitsProofs!vars)
  <2>1. ExitsProofs!TypeOK
    BY SameTypes
  <2>2. [ExitsProofs!Chain!Next]_(ExitsProofs!Chain!vars)
    BY <1>1, <2>1, ExitsAssumed, ExitsProofs!StepOfChain
  <2>3. QED BY <2>2, ExitsAssumed, ExitsProofs!SameChain
<1>2. CASE \E p \in {Operator, Stranger} : AgentExits(p)
  BY <1>2, AgentIsInstruction
<1>3. QED BY <1>1, <1>2, StepOfExits

(* What the program's theorems assume.                                     *)
LEMMA ChainAssumed ==
  /\ RateLimit \in Nat \ {0}
  /\ StartTime \in Nat \ {0} /\ MaxTime \in Nat
  /\ ExitsProofs!Submittable \subseteq ExitsProofs!ChainProofs!Request
<1>1. ExitsProofs!Submittable \subseteq ExitsProofs!ChainProofs!Request
  BY ExitsAssumed, ExitsProofs!SubmittableRequests
<1>2. QED BY <1>1, ExitsAssumption

(* Every step keeps the types of the client, its transactions and chain.   *)
LEMMA ExitsStayTyped == Exits!TypeOK /\ [Next]_vars => Exits!TypeOK'
<1> SUFFICES ASSUME Exits!TypeOK, [Next]_vars PROVE Exits!TypeOK'
  OBVIOUS
<1>1. ExitsProofs!TypeOK
  BY SameTypes
<1>2. CASE [ExitsProofs!Next]_(ExitsProofs!vars)
  <2>1. ExitsProofs!TypeOK'
    BY <1>1, <1>2, ExitsAssumed, ExitsProofs!TypePreserved
  <2>2. QED BY <2>1, SameTypes
<1>3. CASE \E p \in {Operator, Stranger} : AgentExits(p)
  <2>1. ExitsProofs!ChainProofs!TypeOK
    BY <1>1, ExitsAssumed, ExitsProofs!ChainTyped
  <2>2. ExitsProofs!ChainProofs!TypeOK'
    <3>1. RateLimit \in Nat \ {0}
      BY ChainAssumed
    <3>2. StartTime \in Nat \ {0} /\ MaxTime \in Nat
      BY ChainAssumed
    <3>3. ExitsProofs!Submittable \subseteq ExitsProofs!ChainProofs!Request
      BY ChainAssumed
    <3>4. [ExitsProofs!ChainProofs!Next]_(ExitsProofs!ChainProofs!vars)
      BY <1>3, AgentIsInstruction
    <3>5. QED BY <2>1, <3>1, <3>2, <3>3, <3>4, ExitsAssumed, ExitsProofs!ChainProofs!TypePreserved
  <2>3. UNCHANGED <<wall, writeCache, calls, txs>>
    BY <1>3, AgentIsInstruction
  <2>4. ExitsProofs!TypeOK'
    BY <1>1, <2>2, <2>3 DEF ExitsProofs!TypeOK, ExitsProofs!ChainProofs!TypeOK,
       ExitsProofs!Chain!Event, ExitsProofs!ChainProofs!Event,
       ExitsProofs!Chain!RebalanceAction, ExitsProofs!ChainProofs!RebalanceAction
  <2>5. QED BY <2>4, SameTypes
<1>4. QED BY <1>2, <1>3, StepOfExits

(* The scripts start as their client does.                                 *)
LEMMA InitOfExits ==
  Init => Exits!TypeOK /\ ExitsProofs!ChainProofs!Init
<1> SUFFICES ASSUME Init PROVE Exits!TypeOK /\ ExitsProofs!ChainProofs!Init
  OBVIOUS
<1>1. ExitsProofs!Init
  <2>1. Exits!Init
    BY DEF Init
  <2>2. QED
    BY <2>1 DEF Exits!Init, ExitsProofs!Init, Exits!Chain!Init, ExitsProofs!Chain!Init,
       Exits!NoEntry, ExitsProofs!NoEntry, Exits!Settled, ExitsProofs!Settled
<1>2. ExitsProofs!TypeOK
  <2>1. ExitsProofs!IInv
    BY <1>1, ExitsAssumed, ExitsProofs!InitIInv
  <2>2. QED BY <2>1 DEF ExitsProofs!IInv
<1>3. ExitsProofs!ChainProofs!Init
  BY <1>1, ExitsAssumed, ExitsProofs!SameChain DEF ExitsProofs!Init
<1>4. QED BY <1>2, <1>3, SameTypes

(* What is used of it: types, and what the program guarantees of events,   *)
(* accounts and refusals.                                                  *)
ExitsKnown ==
  /\ Exits!TypeOK
  /\ Exits!NoDoubleSwap
  /\ Exits!Chain!AnchorIsLastEvent
  /\ Exits!Chain!RefusalIsJustified
  /\ \A i \in DOMAIN events : events[i].ts <= clock

(* What the exits of a smoke script rest on: their types.                  *)
LEMMA ExitsTyped == Spec => []Exits!TypeOK
BY InitOfExits, ExitsStayTyped, PTL DEF Spec

(* Seen through the policy accounts and the events alone, a smoke script,  *)
(* with another client at work on the same policies, runs the              *)
(* swig_delegation program.                                                *)
THEOREM ImplementsChain == Spec => ExitsProofs!ChainProofs!Spec
BY ExitsTyped, InitOfExits, StepOfChain, PTL DEF Spec, ExitsProofs!ChainProofs!Spec

(* So the program's theorems hold of the scripts' chain.                   *)
LEMMA ExitsAreKnown == Spec => []ExitsKnown
<1>1. RateLimit \in Nat \ {0}
  BY ChainAssumed
<1>2. StartTime \in Nat \ {0} /\ MaxTime \in Nat
  BY ChainAssumed
<1>3. ExitsProofs!Submittable \subseteq ExitsProofs!ChainProofs!Request
  BY ChainAssumed
<1>4. /\ [c \in {Script} |-> Script] \in [{Script} -> {Script, Agent}]
      /\ {ExitPlan(Operator), ExitPlan(Stranger)} \subseteq ExitsProofs!Plan
      /\ (Faults \ {"readError"}) \cup {"restart"} \subseteq ExitsProofs!Fault
      /\ WriteThrottle \in Nat
      /\ MaxTxs \in Nat
      /\ {Operator, Stranger} # {}
  BY ExitsAssumed
<1>5. /\ RateLimit \in Nat \ {0}
      /\ StartTime \in Nat \ {0}
      /\ MaxTime \in Nat
  BY ExitsAssumed
<1>6. ExitsProofs!ChainProofs!Spec => []ExitsProofs!ChainProofs!SpacedExecutions
  BY <1>1, <1>2, <1>3, <1>4, <1>5, ExitsProofs!ChainProofs!SpacingCorrect
<1>7. ExitsProofs!ChainProofs!Spec => []ExitsProofs!ChainProofs!IInv
  BY <1>1, <1>2, <1>3, <1>4, <1>5, ExitsProofs!ChainProofs!Invariance
<1>8. ExitsProofs!ChainProofs!Spec => []ExitsProofs!ChainProofs!RefusalIsJustified
  BY <1>1, <1>2, <1>3, <1>4, <1>5, ExitsProofs!ChainProofs!RefusalCorrect
<1>9. ExitsProofs!ChainProofs!SpacedExecutions => Exits!NoDoubleSwap
  BY DEF ExitsProofs!ChainProofs!SpacedExecutions, Exits!NoDoubleSwap,
     Exits!Chain!SpacedExecutions
<1>10. ExitsProofs!ChainProofs!IInv =>
        /\ Exits!Chain!AnchorIsLastEvent
        /\ \A i \in DOMAIN events : events[i].ts <= clock
  BY DEF ExitsProofs!ChainProofs!IInv, ExitsProofs!ChainProofs!ClockRuns,
     ExitsProofs!ChainProofs!AnchorIsLastEvent, Exits!Chain!AnchorIsLastEvent
<1>11. ExitsProofs!ChainProofs!RefusalIsJustified => Exits!Chain!RefusalIsJustified
  <2>1. \A q : Exits!Chain!Outcome(q) = ExitsProofs!ChainProofs!Outcome(q)
    BY DEF Exits!Chain!Outcome, ExitsProofs!ChainProofs!Outcome,
       Exits!Chain!TooSoon, ExitsProofs!ChainProofs!TooSoon,
       Exits!Chain!ToleranceUnderflows, ExitsProofs!ChainProofs!ToleranceUnderflows,
       Exits!Chain!SlippageGate, ExitsProofs!ChainProofs!SlippageGate,
       Exits!Chain!BPS, ExitsProofs!ChainProofs!BPS
  <2>2. QED
    BY <2>1, SameTypes DEF ExitsProofs!ChainProofs!RefusalIsJustified,
       Exits!Chain!RefusalIsJustified
<1>12. QED
  BY <1>6, <1>7, <1>8, <1>9, <1>10, <1>11, ExitsTyped, ImplementsChain, PTL DEF ExitsKnown

-----------------------------------------------------------------------------
(* The invariants.                                                         *)

(* The places of the exit and of its repetition, and the end of the walk.  *)
ExecAt == IF script = "e2e" THEN 6 ELSE 3
RepeatAt == IF script = "e2e" THEN 8 ELSE 5
EndAt == IF script = "e2e" THEN 10 ELSE 6
InCall == calls[Script].phase = "waiting"

(* What the script adds to its client and its editor is typed.             *)
Verdict == [breached : BOOLEAN, score : Nat]
ScriptTyped ==
  /\ script \in {"e2e", "realclient"} /\ pc \in 0 .. EndAt
  /\ resume \in Nat /\ execSig \in Nat /\ runs \in 0 .. MaxRuns /\ firstTx \in Nat \ {0}
  /\ readCache \in [at : Nat, result : Verdict] /\ verdict \in Verdict
  /\ listener \in [on : BOOLEAN, from : Nat, captured : Nat, shown : Nat]
  /\ times \in [{"subscribe", "high", "submit", "execute", "event"} -> Nat]

(* One clock: Date.now() and the chain's.                                  *)
ClocksAgree == clock = wall /\ wall # 0

(* The script's own submissions are all of DEMO_STATE's policy, and what   *)
(* it wrote is what the account holds until somebody else writes.          *)
SetSound ==
  /\ edits[Script].phase # "idle" => edits[Script].sub = Submission(Demo)
  /\ script = "realclient" /\ pc = 2 => edits[Script].phase = "resolved"
  /\ \A i \in DOMAIN landed : editTxs[landed[i]].sub = Submission(Demo) =>
       \/ policy[Operator].ciphertext = Demo
       \/ \E j \in DOMAIN landed : i < j /\ editTxs[landed[j]].sub = Submission(Other)
  /\ failure = "readback" =>
       \E i, j \in DOMAIN landed :
         landed[i] = edits[Script].tx /\ i < j /\ editTxs[landed[j]].sub = Submission(Other)

(* The read cache is empty before the low check, and after each check      *)
(* dated when it was made.                                                 *)
ReadSound ==
  /\ script = "e2e" /\ pc <= 3 => readCache = NoCheck
  /\ script = "e2e" /\ pc = 4 => readCache.at # 0 /\ readCache.at + CacheWait <= resume
  /\ script = "e2e" /\ pc = 5 =>
       /\ failure # "again" => readCache.at = times["high"] /\ readCache.result = verdict
       /\ times["high"] # 0 /\ times["high"] <= wall
       /\ failure = "again" => wall - times["high"] >= ReadThrottle

(* Every transaction is an exit of the operator's policy by the script.    *)
TxsAreExits ==
  \A t \in DOMAIN txs :
    /\ txs[t].request = Exits!RequestOf(Script, ExitPlan(Operator))
    /\ txs[t].status \in {"flight", "dropped", "Ok", "RebalanceTooSoon"}
    /\ txs[t].status = "Ok" => /\ txs[t].event \in DOMAIN events
                               /\ events[txs[t].event].policy = Operator

(* Before the exit the run has submitted nothing and remembers nothing.    *)
Untouched ==
  /\ Len(txs) = firstTx - 1
  /\ calls[Script].phase = "idle"
  /\ \A p \in {Operator, Stranger} : writeCache[Script][p].lastTxSig = 0

(* A transaction refused for being early has an exit to thank for it.      *)
RefusedForCause(t) ==
  txs[t].status = "RebalanceTooSoon" => ExitOfOperatorSince(times["submit"] - RateLimit)

(* The exit is the first transaction of the run.                           *)
Submitted ==
  /\ Len(txs) = firstTx
  /\ calls[Script].tx = firstTx /\ times["submit"] <= wall
  /\ calls[Script].policy = Operator
  /\ calls[Script].cachedWrite.lastTxSig = 0
  /\ RefusedForCause(firstTx)

(* It succeeded, and the script has its signature.                         *)
Exited == execSig = firstTx /\ firstTx \in DOMAIN txs /\ txs[firstTx].status = "Ok"

(* Between the two calls the cache holds the exit.                         *)
Remembered ==
  /\ Len(txs) = firstTx
  /\ writeCache[Script][Operator] = [lastTxSig |-> firstTx, lastExecutedAt |-> times["execute"]]
  /\ times["execute"] <= wall

(* The second call, when the cache has let it pass.                        *)
Repeating ==
  /\ Len(txs) = firstTx + 1
  /\ calls[Script].tx = firstTx + 1 /\ calls[Script].policy = Operator
  /\ calls[Script].cachedWrite.lastTxSig = firstTx
  /\ wall - times["execute"] >= WriteThrottle

(* The second call answered with the first one's signature.                *)
Repeated ==
  \/ Len(txs) = firstTx
  \/ Len(txs) = firstTx + 1 /\ txs[firstTx + 1].status = "RebalanceTooSoon"

ExecSound ==
  /\ pc <= ExecAt => execSig = 0
  /\ pc < ExecAt => Untouched
  /\ pc = ExecAt => \/ failure = "none" /\ ~ InCall /\ Untouched
                    \/ failure = "none" /\ InCall /\ Submitted
                    \/ failure = "execute" /\ ~ InCall /\ Submitted
  /\ pc > ExecAt => Exited
  /\ ExecAt < pc /\ pc < RepeatAt => ~ InCall /\ Remembered
  /\ pc = RepeatAt => \/ failure = "none" /\ ~ InCall /\ Remembered
                      \/ failure = "none" /\ InCall /\ Repeating
                      \/ /\ failure = "repeat" /\ ~ InCall
                         /\ wall - times["execute"] >= WriteThrottle
  /\ pc > RepeatAt => ~ InCall /\ Repeated

(* What the listener may hear has happened since it was set, the script's  *)
(* own exit included.                                                      *)
ListenerSound ==
  /\ listener.on =>
       /\ script = "e2e" /\ pc > 2
       /\ listener.from \in 0 .. Len(events)
       /\ \A i \in DOMAIN events : i > listener.from => events[i].ts >= times["subscribe"]
       /\ \A t \in DOMAIN txs : t >= firstTx /\ txs[t].status = "Ok" => txs[t].event > listener.from
       /\ times["subscribe"] <= wall
       /\ listener.captured \in {0} \cup listener.from + 1 .. Len(events)
  /\ ~ listener.on => listener = Deaf
  /\ listener.shown # 0 => pc >= 7
  /\ failure = "event" =>
       \E i \in DOMAIN events : i > listener.from /\ events[i].policy = Stranger

(* A run fails at the step it is at, and not at every one.                 *)
FailureSound ==
  /\ failure \in {"none", "set", "readback", "unread", "again", "execute", "event", "silence",
                  "repeat"}
  /\ failure \in {"event", "silence"} => script = "e2e" /\ pc = 7
  /\ failure = "again" => script = "e2e" /\ pc = 5
  /\ failure = "execute" => pc = ExecAt
  /\ failure = "repeat" => pc = RepeatAt
  /\ failure = "set" => pc = 1
  /\ failure = "readback" => script = "realclient" /\ pc = 2
  /\ pc = 0 => failure = "none"

IInv ==
  /\ ScriptTyped
  /\ ClocksAgree
  /\ SetSound
  /\ ReadSound
  /\ TxsAreExits
  /\ ExecSound
  /\ ListenerSound
  /\ FailureSound
  /\ CapturedIsOwnUnlessSlow

-----------------------------------------------------------------------------
(* Where the steps of the walks are.                                       *)
LEMMA WalkSteps ==
  ASSUME ScriptTyped
  PROVE  /\ Len(Walk) = EndAt - 1
         /\ At("set") <=> failure = "none" /\ pc = 1
         /\ At("subscribe") <=> failure = "none" /\ script = "e2e" /\ pc = 2
         /\ At("low") <=> failure = "none" /\ script = "e2e" /\ pc = 3
         /\ At("high") <=> failure = "none" /\ script = "e2e" /\ pc = 4
         /\ At("again") <=> failure = "none" /\ script = "e2e" /\ pc = 5
         /\ At("execute") <=> failure = "none" /\ pc = ExecAt
         /\ At("event") <=> failure = "none" /\ script = "e2e" /\ pc = 7
         /\ At("repeat") <=> failure = "none" /\ pc = RepeatAt
         /\ At("delegate") <=> failure = "none" /\ script = "e2e" /\ pc = 9
         /\ At("readback") <=> failure = "none" /\ script = "realclient" /\ pc = 2
         /\ At("account") <=> failure = "none" /\ script = "realclient" /\ pc = 4
<1>1. pc \in Nat /\ (script = "e2e" \/ script = "realclient")
  BY DEF ScriptTyped, EndAt
<1>2. CASE script = "e2e"
  BY <1>1, <1>2 DEF At, Walk, EndAt, ExecAt, RepeatAt
<1>3. CASE script = "realclient"
  BY <1>1, <1>3 DEF At, Walk, EndAt, ExecAt, RepeatAt
<1>4. QED BY <1>1, <1>2, <1>3

-----------------------------------------------------------------------------
(* What the exits do, in the script's words.                               *)

OwnRequest == Exits!RequestOf(Script, ExitPlan(Operator))
Entry == writeCache[Script][Operator]
Outcome == txs[calls[Script].tx].status
ChainKept == UNCHANGED <<clock, wall, initialized, lastRebalanced, events>>

(* The log and the list of transactions are sequences, a call is a Call.   *)
LEMMA ExitsParts ==
  ASSUME Exits!TypeOK
  PROVE  /\ Len(txs) \in Nat /\ DOMAIN txs = 1 .. Len(txs)
         /\ \A t \in DOMAIN txs : txs[t] \in Exits!Tx
         /\ Len(events) \in Nat /\ DOMAIN events = 1 .. Len(events)
         /\ \A i \in DOMAIN events : /\ events[i].policy \in {Operator, Stranger}
                                     /\ events[i].ts \in Nat
         /\ calls \in [{Script} -> Exits!Call] /\ calls[Script] \in Exits!Call
         /\ calls[Script].tx \in Nat /\ calls[Script].sig \in Nat
         /\ writeCache \in [{Script, Agent} -> [{Operator, Stranger} -> Exits!Entry]]
         /\ Entry \in Exits!Entry
         /\ Entry.lastTxSig \in Nat /\ Entry.lastExecutedAt \in Nat
         /\ clock \in Nat /\ wall \in Nat
<1>1. txs \in Seq(Exits!Tx) /\ events \in Seq(Exits!Chain!Event)
  BY DEF Exits!TypeOK
<1>2. /\ Len(txs) \in Nat /\ DOMAIN txs = 1 .. Len(txs)
      /\ \A t \in DOMAIN txs : txs[t] \in Exits!Tx
  BY <1>1
<1>3. /\ Len(events) \in Nat /\ DOMAIN events = 1 .. Len(events)
      /\ \A i \in DOMAIN events : events[i] \in Exits!Chain!Event
  BY <1>1
<1>4. \A e \in Exits!Chain!Event : e.policy \in {Operator, Stranger} /\ e.ts \in Nat
  BY DEF Exits!Chain!Event
<1>5. calls \in [{Script} -> Exits!Call] /\ calls[Script] \in Exits!Call
  BY DEF Exits!TypeOK
<1>6. calls[Script].tx \in Nat /\ calls[Script].sig \in Nat
  BY <1>5 DEF Exits!Call
<1>7. /\ writeCache \in [{Script, Agent} -> [{Operator, Stranger} -> Exits!Entry]]
      /\ Entry \in Exits!Entry
  BY DEF Exits!TypeOK, Entry
<1>8. Entry.lastTxSig \in Nat /\ Entry.lastExecutedAt \in Nat
  BY <1>7 DEF Exits!Entry
<1>9. clock \in Nat /\ wall \in Nat
  BY DEF Exits!TypeOK
<1>10. QED BY <1>2, <1>3, <1>4, <1>5, <1>6, <1>7, <1>8, <1>9

(* A call that the cache does not answer submits one more transaction.     *)
LEMMA SubmitEffect ==
  ASSUME Exits!TypeOK, Exits!Submit(Script, ExitPlan(Operator))
  PROVE  /\ ChainKept /\ UNCHANGED writeCache
         /\ ~ InCall
         /\ Entry.lastTxSig = 0 \/ wall - Entry.lastExecutedAt >= WriteThrottle
         /\ Len(txs') = Len(txs) + 1
         /\ DOMAIN txs' = 1 .. Len(txs) + 1
         /\ \A t \in DOMAIN txs : txs'[t] = txs[t]
         /\ txs'[Len(txs) + 1].request = OwnRequest
         /\ txs'[Len(txs) + 1].status = "flight"
         /\ calls'[Script].phase = "waiting" /\ calls'[Script].tx = Len(txs) + 1
         /\ calls'[Script].policy = Operator
         /\ calls'[Script].cachedWrite = Entry
<1> DEFINE new == [request |-> OwnRequest, status |-> "flight", event |-> 0]
           call == [phase |-> "waiting", policy |-> Operator, tx |-> Len(txs) + 1,
                    cachedWrite |-> Entry, sig |-> 0, error |-> "none"]
<1>1. ExitPlan(Operator).policy = Operator /\ [c \in {Script} |-> Script][Script] = Script
  BY DEF ExitPlan
<1>2. /\ txs' = Append(txs, new)
      /\ calls' = [calls EXCEPT ![Script] = call]
  BY <1>1 DEF Exits!Submit, Exits!Dispatch, Exits!CachedWrite, Entry, OwnRequest
<1>3. ChainKept /\ UNCHANGED writeCache /\ ~ InCall
  BY DEF Exits!Submit, Exits!Dispatch, Exits!chainVars, ChainKept, InCall
<1>4. Entry.lastTxSig = 0 \/ ~ (wall - Entry.lastExecutedAt < WriteThrottle)
  BY <1>1 DEF Exits!Submit, Exits!Dispatch, Exits!CachedWrite, Exits!Fresh, Exits!Hit, Entry
<1>5. wall - Entry.lastExecutedAt \in Int /\ WriteThrottle \in Nat
  BY ExitsParts, ExitsAssumption
<1>6. calls'[Script] = call
  BY <1>2, ExitsParts
<1> HIDE DEF new
<1>7. txs \in Seq(Exits!Tx) /\ Len(txs) \in Nat
  BY ExitsParts DEF Exits!TypeOK
<1>8. /\ Len(txs') = Len(txs) + 1 /\ DOMAIN txs' = 1 .. Len(txs) + 1
      /\ \A t \in 1 .. Len(txs) : txs'[t] = txs[t]
      /\ txs'[Len(txs) + 1] = new
  BY <1>2, <1>7
<1>9. \A t \in DOMAIN txs : txs'[t] = txs[t]
  BY <1>8, ExitsParts
<1>10. new.request = OwnRequest /\ new.status = "flight"
  BY DEF new
<1>11. QED BY <1>3, <1>4, <1>5, <1>6, <1>8, <1>9, <1>10

(* The cache answers with the signature it holds.                          *)
LEMMA ShortcutEffect ==
  ASSUME Exits!TypeOK, Exits!Shortcut(Script, ExitPlan(Operator))
  PROVE  /\ ChainKept /\ UNCHANGED <<writeCache, txs>>
         /\ ~ InCall /\ calls'[Script].phase = "resolved"
         /\ calls'[Script].sig = Entry.lastTxSig
<1>1. ExitPlan(Operator).policy = Operator /\ [c \in {Script} |-> Script][Script] = Script
  BY DEF ExitPlan
<1>2. calls' = [calls EXCEPT ![Script] =
                  Exits!Settled("resolved", Operator, 0, Entry.lastTxSig, "none")]
  BY <1>1 DEF Exits!Shortcut, Exits!Resolve, Exits!CachedWrite, Entry
<1>3. calls'[Script] = Exits!Settled("resolved", Operator, 0, Entry.lastTxSig, "none")
  BY <1>2, ExitsParts
<1>4. calls'[Script].phase = "resolved" /\ calls'[Script].sig = Entry.lastTxSig
  BY <1>3 DEF Exits!Settled
<1>5. ChainKept /\ UNCHANGED <<writeCache, txs>> /\ ~ InCall
  BY DEF Exits!Shortcut, Exits!chainVars, ChainKept, InCall
<1>6. QED BY <1>4, <1>5

(* A call that waits is confirmed, or refused with an entry at hand, or    *)
(* given up.                                                               *)
Confirmed ==
  /\ Outcome = "Ok" /\ calls'[Script].phase = "resolved"
  /\ calls'[Script].sig = calls[Script].tx
  /\ calls[Script].policy = Operator =>
       Entry' = [lastTxSig |-> calls[Script].tx, lastExecutedAt |-> wall]
Caught ==
  /\ Outcome = "RebalanceTooSoon" /\ calls'[Script].phase = "resolved"
  /\ calls[Script].cachedWrite.lastTxSig # 0
  /\ calls'[Script].sig = calls[Script].cachedWrite.lastTxSig
Thrown ==
  /\ calls'[Script].phase = "rejected" /\ calls'[Script].sig = 0
  /\ calls'[Script].tx = calls[Script].tx
  /\ calls'[Script].policy = calls[Script].policy
  /\ calls'[Script].cachedWrite.lastTxSig = 0

(* These are the outcomes, and the chain does not move.                    *)
LEMMA SettleEffect ==
  ASSUME Exits!TypeOK, Exits!Settle(Script)
  PROVE  /\ ChainKept /\ UNCHANGED txs
         /\ InCall /\ ~ InCall'
         /\ Confirmed \/ Caught \/ Thrown
<1> DEFINE Done == calls'[Script]
<1>1. ASSUME NEW ph, NEW p, NEW t, NEW s, NEW e,
             Done = Exits!Settled(ph, p, t, s, e)
      PROVE  /\ Done.phase = ph /\ Done.policy = p /\ Done.tx = t /\ Done.sig = s
             /\ Done.cachedWrite.lastTxSig = 0
  BY <1>1 DEF Exits!Settled, Exits!NoEntry
<1>2. ASSUME Exits!Confirm(Script)
      PROVE  ChainKept /\ UNCHANGED txs /\ InCall /\ ~ InCall' /\ Confirmed
  <2>1. Done.phase = "resolved" /\ Done.sig = calls[Script].tx
    <3>1. Done = Exits!Settled("resolved", calls[Script].policy, 0, calls[Script].tx, "none")
      BY <1>2, ExitsParts DEF Exits!Confirm, Exits!Resolve
    <3>2. QED BY <1>1, <3>1
  <2>2. [c \in {Script} |-> Script][Script] = Script
    OBVIOUS
  <2>3. calls[Script].policy = Operator =>
          writeCache' = [writeCache EXCEPT ![Script][Operator] = Exits!NewEntry(Script)]
    BY <1>2, <2>2 DEF Exits!Confirm
  <2>4. calls[Script].policy = Operator => Entry' = Exits!NewEntry(Script)
    BY <2>3, ExitsParts DEF Entry
  <2>5. QED
    BY <1>2, <2>1, <2>4 DEF Exits!Confirm, Exits!StatusSeen, Exits!NewEntry, Exits!chainVars,
       ChainKept, Confirmed, Outcome, InCall
<1>3. ASSUME Exits!CatchTooSoon(Script)
      PROVE  ChainKept /\ UNCHANGED txs /\ InCall /\ ~ InCall' /\ Caught
  <2>1. Done.phase = "resolved" /\ Done.sig = calls[Script].cachedWrite.lastTxSig
    <3>1. Done = Exits!Settled("resolved", calls[Script].policy, 0,
                               calls[Script].cachedWrite.lastTxSig, "none")
      BY <1>3, ExitsParts DEF Exits!CatchTooSoon, Exits!Resolve
    <3>2. QED BY <1>1, <3>1
  <2>2. QED
    BY <1>3, <2>1 DEF Exits!CatchTooSoon, Exits!StatusSeen, Exits!Hit, Exits!chainVars,
       ChainKept, Caught, Outcome, InCall
<1>4. ASSUME Exits!Rethrow(Script) \/ Exits!Abandon(Script)
      PROVE  ChainKept /\ UNCHANGED txs /\ InCall /\ ~ InCall' /\ Thrown
  <2>1. PICK e : Exits!Throw(Script, calls[Script].policy, calls[Script].tx, e)
    BY <1>4 DEF Exits!Rethrow, Exits!Abandon
  <2>2. /\ Done.phase = "rejected" /\ Done.policy = calls[Script].policy
        /\ Done.tx = calls[Script].tx /\ Done.sig = 0 /\ Done.cachedWrite.lastTxSig = 0
    <3>1. Done = Exits!Settled("rejected", calls[Script].policy, calls[Script].tx, 0, e)
      BY <2>1, ExitsParts DEF Exits!Throw
    <3>2. QED BY <1>1, <3>1
  <2>3. QED
    BY <1>4, <2>2 DEF Exits!Rethrow, Exits!Abandon, Exits!chainVars, ChainKept, Thrown, InCall
<1>5. QED BY <1>2, <1>3, <1>4 DEF Exits!Settle

(* The log gains the exit of policy p, dated now.                          *)
EventAdded(p) ==
  /\ Len(events') = Len(events) + 1 /\ DOMAIN events' = 1 .. Len(events) + 1
  /\ \A i \in DOMAIN events : events'[i] = events[i]
  /\ events'[Len(events) + 1].policy = p /\ events'[Len(events) + 1].ts = clock

(* The program's execution of a request does that.                         *)
LEMMA ExecuteEffect ==
  ASSUME Exits!TypeOK, NEW r, Exits!Chain!Execute(r)
  PROVE  EventAdded(r.policy) /\ UNCHANGED clock
<1> DEFINE new == Exits!Chain!EventOf(r)
<1>1. events' = Append(events, new) /\ UNCHANGED clock
  BY DEF Exits!Chain!Execute
<1>2. new.policy = r.policy /\ new.ts = clock
  BY DEF Exits!Chain!EventOf
<1> HIDE DEF new
<1>3. events \in Seq(Exits!Chain!Event) /\ Len(events) \in Nat /\ DOMAIN events = 1 .. Len(events)
  BY ExitsParts DEF Exits!TypeOK
<1>4. /\ Len(events') = Len(events) + 1 /\ DOMAIN events' = 1 .. Len(events) + 1
      /\ \A i \in 1 .. Len(events) : events'[i] = events[i]
      /\ events'[Len(events) + 1] = new
  BY <1>1, <1>3
<1>5. QED BY <1>1, <1>2, <1>3, <1>4 DEF EventAdded

(* The script's exit runs, or is refused inside the window of another one. *)
LEMMA OwnOutcome ==
  ASSUME ExitsKnown
  PROVE  /\ OwnRequest.policy = Operator /\ OwnRequest.guardian = Script
         /\ \/ Exits!Chain!Outcome(OwnRequest) = "Ok"
            \/ /\ Exits!Chain!Outcome(OwnRequest) = "RebalanceTooSoon"
               /\ \E i \in DOMAIN events : /\ events[i].policy = Operator
                                           /\ clock - events[i].ts < RateLimit
<1>1. OwnRequest \in Exits!Submittable
  BY DEF OwnRequest, Exits!Submittable
<1>2. /\ OwnRequest.policy = Operator /\ OwnRequest.guardian = Script
      /\ OwnRequest.action = "exit"
      /\ OwnRequest.sizeBps = 10000 /\ OwnRequest.maxSlippageBps = 100
      /\ OwnRequest.expectedOut = 1000 /\ OwnRequest.minOut = 995
  BY DEF OwnRequest, Exits!RequestOf, ExitPlan
<1> HIDE DEF OwnRequest
<1>3. /\ ~ (OwnRequest.sizeBps > Exits!Chain!BPS)
      /\ ~ Exits!Chain!ToleranceUnderflows(OwnRequest)
      /\ Exits!Chain!SlippageGate(OwnRequest)
  BY <1>2 DEF Exits!Chain!BPS, Exits!Chain!ToleranceUnderflows, Exits!Chain!SlippageGate
<1>4. Exits!Chain!Outcome(OwnRequest) \in {"Ok", "RebalanceTooSoon"}
  BY <1>2, <1>3 DEF Exits!Chain!Outcome
<1>5. Exits!Chain!Outcome(OwnRequest) = "RebalanceTooSoon" =>
        \E i \in DOMAIN events : events[i].policy = OwnRequest.policy
                               /\ clock - events[i].ts < RateLimit
  BY <1>1 DEF ExitsKnown, Exits!Chain!RefusalIsJustified
<1>6. QED BY <1>2, <1>4, <1>5

(* A transaction of the script lands, is refused, or is lost.              *)
Landed(t) == txs'[t].status = "Ok" /\ txs'[t].event = Len(events) + 1 /\ EventAdded(Operator)
Refused(t) ==
  /\ txs'[t].status = "RebalanceTooSoon" /\ UNCHANGED events
  /\ \E i \in DOMAIN events : events[i].policy = Operator /\ clock - events[i].ts < RateLimit
Lost(t) == txs'[t].status = "dropped" /\ UNCHANGED events

(* Nothing else happens to a transaction.                                  *)
LEMMA LandEffect ==
  ASSUME ExitsKnown, TxsAreExits, NEW t \in DOMAIN txs, LandExit(t)
  PROVE  /\ UNCHANGED <<clock, wall, writeCache, calls, editVars, scriptVars>>
         /\ txs[t].status = "flight"
         /\ Len(txs') = Len(txs) /\ DOMAIN txs' = DOMAIN txs
         /\ txs'[t].request = txs[t].request
         /\ \A s \in DOMAIN txs : s # t => txs'[s] = txs[s]
         /\ Landed(t) \/ Refused(t) \/ Lost(t)
<1>1. Exits!Land(t) \/ Exits!Drop(t)
  BY DEF LandExit
<1>2. Exits!TypeOK
  BY DEF ExitsKnown
<1>3. txs[t] \in Exits!Tx /\ txs \in Seq(Exits!Tx) /\ Len(txs) \in Nat
  BY <1>2, ExitsParts DEF Exits!TypeOK
<1>4. txs[t].request = OwnRequest
  BY DEF TxsAreExits, OwnRequest
<1>5. UNCHANGED <<editVars, scriptVars, wall, writeCache, calls>> /\ txs[t].status = "flight"
  BY <1>1 DEF LandExit, Exits!Land, Exits!Drop
<1>6. ASSUME NEW st, txs' = [txs EXCEPT ![t].status = st]
      PROVE  /\ Len(txs') = Len(txs) /\ DOMAIN txs' = DOMAIN txs
             /\ txs'[t].request = txs[t].request /\ txs'[t].status = st
             /\ \A s \in DOMAIN txs : s # t => txs'[s] = txs[s]
  <2> DEFINE new == [txs[t] EXCEPT !.status = st]
  <2>1. new.request = txs[t].request /\ new.status = st
    BY <1>3 DEF Exits!Tx
  <2>2. txs' = [txs EXCEPT ![t] = new]
    BY <1>6
  <2> HIDE DEF new
  <2>3. /\ Len(txs') = Len(txs) /\ DOMAIN txs' = DOMAIN txs /\ txs'[t] = new
        /\ \A s \in DOMAIN txs : s # t => txs'[s] = txs[s]
    BY <1>3, <2>2
  <2>4. QED BY <2>1, <2>3
<1>7. CASE /\ Exits!Chain!Execute(txs[t].request)
           /\ txs' = [txs EXCEPT ![t].status = "Ok", ![t].event = Len(events) + 1]
  <2> DEFINE new == [txs[t] EXCEPT !.status = "Ok", !.event = Len(events) + 1]
  <2>1. new.request = txs[t].request /\ new.status = "Ok" /\ new.event = Len(events) + 1
    BY <1>3 DEF Exits!Tx
  <2>2. txs' = [txs EXCEPT ![t] = new]
    BY <1>7
  <2> HIDE DEF new
  <2>3. /\ Len(txs') = Len(txs) /\ DOMAIN txs' = DOMAIN txs /\ txs'[t] = new
        /\ \A s \in DOMAIN txs : s # t => txs'[s] = txs[s]
    BY <1>3, <2>2
  <2>4. EventAdded(txs[t].request.policy) /\ UNCHANGED clock
    BY <1>2, <1>7, ExecuteEffect
  <2>5. EventAdded(Operator)
    BY <1>4, <2>4, OwnOutcome
  <2>6. QED BY <1>5, <2>1, <2>3, <2>4, <2>5 DEF Landed
<1>8. CASE /\ Exits!Chain!Refuse(txs[t].request)
           /\ txs' = [txs EXCEPT ![t].status = Exits!Chain!Outcome(txs[t].request)]
  <2>1. /\ Exits!Chain!Outcome(OwnRequest) = "RebalanceTooSoon"
        /\ \E i \in DOMAIN events : events[i].policy = Operator
                                  /\ clock - events[i].ts < RateLimit
    BY <1>4, <1>8, OwnOutcome DEF Exits!Chain!Refuse
  <2>2. UNCHANGED <<clock, events>>
    BY <1>8 DEF Exits!Chain!Refuse, Exits!Chain!vars
  <2>3. txs' = [txs EXCEPT ![t].status = "RebalanceTooSoon"]
    BY <1>4, <1>8, <2>1
  <2>4. QED BY <1>5, <1>6, <2>1, <2>2, <2>3 DEF Refused
<1>9. CASE Exits!Drop(t)
  <2>1. UNCHANGED <<clock, events>> /\ txs' = [txs EXCEPT ![t].status = "dropped"]
    BY <1>9 DEF Exits!Drop, Exits!chainVars
  <2>2. QED BY <1>5, <1>6, <2>1 DEF Lost
<1>10. QED BY <1>1, <1>7, <1>8, <1>9 DEF Exits!Land

(* Another client's exit adds an event, and nothing else moves.            *)
LEMMA AgentEffect ==
  ASSUME Exits!TypeOK, NEW p \in {Operator, Stranger}, AgentExits(p)
  PROVE  /\ UNCHANGED <<clock, wall, writeCache, calls, txs, editVars, scriptVars>>
         /\ EventAdded(p)
<1> DEFINE r == Exits!RequestOf(Agent, ExitPlan(p))
<1>1. r.policy = p
  BY DEF Exits!RequestOf, ExitPlan
<1>2. Exits!Chain!Execute(r)
  BY DEF AgentExits
<1> HIDE DEF r
<1>3. EventAdded(r.policy) /\ UNCHANGED clock
  BY <1>2, ExecuteEffect
<1>4. QED BY <1>1, <1>3 DEF AgentExits

(* A run starts with empty caches and nothing submitted.                   *)
LEMMA StartEffect ==
  ASSUME Exits!TypeOK, Start
  PROVE  /\ ChainKept /\ UNCHANGED <<txs, editVars, script>>
         /\ calls'[Script].phase = "idle"
         /\ \A p \in {Operator, Stranger} : writeCache'[Script][p].lastTxSig = 0
         /\ pc' = 1 /\ failure' = "none" /\ resume' = 0
         /\ readCache' = NoCheck /\ verdict' = NoVerdict
         /\ execSig' = 0 /\ listener' = Deaf /\ runs < MaxRuns /\ runs' = runs + 1
         /\ firstTx' = Len(txs) + 1 /\ times' = Unpassed
<1>1. Exits!Restart(Script)
  BY DEF Start
<1>2. ChainKept /\ UNCHANGED txs
  BY <1>1 DEF Exits!Restart, Exits!chainVars, ChainKept
<1>3. calls'[Script] = Exits!Settled("idle", calls[Script].policy, 0, 0, "none")
  BY <1>1 DEF Exits!Restart
<1>4. \A p \in {Operator, Stranger} : writeCache'[Script][p] = Exits!NoEntry
  BY <1>1, ExitsParts DEF Exits!Restart
<1>5. QED BY <1>2, <1>3, <1>4 DEF Exits!Settled, Exits!NoEntry, Start

-----------------------------------------------------------------------------
(* The exit and its repetition.                                            *)

(* A step of the walk that is neither of the two.                          *)
LEMMA ExecWalks ==
  ASSUME ScriptTyped, ExecSound, failure = "none", pc \notin {0, ExecAt, RepeatAt},
         UNCHANGED <<script, wall, writeCache, calls, txs, execSig, firstTx>>,
         times'["submit"] = times["submit"], times'["execute"] = times["execute"],
         \/ pc' = pc + 1 /\ failure' = "none"
         \/ pc' = pc
  PROVE  ExecSound'
<1>1. pc \in Nat /\ pc' \in Nat /\ ExecAt \in Nat /\ RepeatAt \in Nat /\ ExecAt < RepeatAt
  BY DEF ScriptTyped, EndAt, ExecAt, RepeatAt
<1>2. ExecAt' = ExecAt /\ RepeatAt' = RepeatAt
  BY DEF ExecAt, RepeatAt
<1>3. Untouched => Untouched' /\ ~ InCall'
  BY DEF Untouched, InCall
<1>4. /\ Exited <=> Exited'
      /\ InCall <=> InCall'
      /\ Remembered <=> Remembered'
      /\ Repeated <=> Repeated'
  BY DEF Exited, InCall, Remembered, Repeated
<1>5. CASE pc < ExecAt
  BY <1>1, <1>2, <1>3, <1>5 DEF ExecSound
<1>6. CASE ExecAt < pc /\ pc < RepeatAt
  BY <1>1, <1>2, <1>4, <1>6 DEF ExecSound
<1>7. CASE RepeatAt < pc
  BY <1>1, <1>2, <1>4, <1>7 DEF ExecSound
<1>8. QED BY <1>1, <1>5, <1>6, <1>7

(* Whatever happens elsewhere: transactions get their outcome, time passes.*)
LEMMA ExecStays ==
  ASSUME ScriptTyped, ExecSound, Exits!TypeOK,
         UNCHANGED <<script, pc, failure, execSig, firstTx, times, calls, writeCache>>,
         wall' \in Nat, wall <= wall', Len(txs') = Len(txs), DOMAIN txs' = DOMAIN txs,
         \A t \in DOMAIN txs : txs[t].status # "flight" => txs'[t].status = txs[t].status,
         firstTx \in DOMAIN txs /\ RefusedForCause(firstTx) /\ times["submit"] <= wall
           => RefusedForCause(firstTx)'
  PROVE  ExecSound'
<1>1. ExecAt' = ExecAt /\ RepeatAt' = RepeatAt /\ (InCall <=> InCall')
  BY DEF ExecAt, RepeatAt, InCall
<1>2. Untouched => Untouched'
  BY DEF Untouched
<1>3. wall \in Nat /\ times["submit"] \in Nat /\ times["execute"] \in Nat /\ WriteThrottle \in Nat
  BY ExitsParts, ExitsAssumption DEF ScriptTyped
<1>4. Submitted => Submitted'
  <2>1. Len(txs) = firstTx => firstTx \in DOMAIN txs
    BY ExitsParts DEF ScriptTyped
  <2>2. QED BY <1>3, <2>1 DEF Submitted
<1>5. Exited => Exited'
  BY DEF Exited
<1>6. Remembered => Remembered'
  BY <1>3 DEF Remembered
<1>7. /\ Repeating => Repeating'
      /\ wall - times["execute"] >= WriteThrottle => wall' - times'["execute"] >= WriteThrottle
  BY <1>3 DEF Repeating
<1>8. Repeated => Repeated'
  <2>1. ASSUME Len(txs) = firstTx + 1, txs[firstTx + 1].status = "RebalanceTooSoon"
        PROVE  Len(txs') = firstTx' + 1 /\ txs'[firstTx' + 1].status = "RebalanceTooSoon"
    <3>1. Len(txs) \in Nat /\ DOMAIN txs = 1 .. Len(txs) /\ firstTx \in Nat \ {0}
      BY ExitsParts DEF ScriptTyped
    <3>2. firstTx + 1 \in DOMAIN txs
      BY <2>1, <3>1
    <3>3. QED BY <2>1, <3>2
  <2>2. QED BY <2>1 DEF Repeated
<1>9. QED
  BY <1>1, <1>2, <1>4, <1>5, <1>6, <1>7, <1>8 DEF ExecSound

(* The exit is submitted ...                                               *)
LEMMA ExecuteSound ==
  ASSUME ScriptTyped, ExecSound, Exits!TypeOK, Execute
  PROVE  ExecSound'
<1>1. failure = "none" /\ pc = ExecAt
  BY WalkSteps DEF Execute
<1>2. Exits!Submit(Script, ExitPlan(Operator))
  BY DEF Execute
<1>3. ~ InCall /\ Untouched /\ execSig = 0
  BY <1>1, <1>2, SubmitEffect DEF ExecSound, ScriptTyped, ExecAt
<1>4. Len(txs) + 1 = firstTx /\ Entry.lastTxSig = 0 /\ firstTx \in Nat /\ Len(txs) \in Nat
  BY <1>3, ExitsParts DEF Untouched, ScriptTyped, Entry
<1>5. /\ UNCHANGED <<script, pc, failure, execSig, firstTx>>
      /\ times'["submit"] = wall
  BY DEF Execute, ScriptTyped
<1>6. /\ wall' = wall /\ wall \in Nat /\ Len(txs') = firstTx /\ txs'[firstTx].status = "flight"
      /\ calls'[Script].phase = "waiting" /\ calls'[Script].tx = firstTx
      /\ calls'[Script].policy = Operator
      /\ calls'[Script].cachedWrite.lastTxSig = 0
  BY <1>2, <1>4, SubmitEffect, ExitsParts DEF ChainKept
<1>7. Submitted' /\ InCall'
  BY <1>5, <1>6 DEF Submitted, RefusedForCause, InCall
<1>8. ExecAt' = ExecAt /\ RepeatAt' = RepeatAt /\ ExecAt < RepeatAt /\ ExecAt \in Nat
      /\ RepeatAt \in Nat
  BY <1>5 DEF ExecAt, RepeatAt
<1>9. QED BY <1>1, <1>3, <1>5, <1>7, <1>8 DEF ExecSound

(* ... and answered.                                                       *)
LEMMA ExecutedSound ==
  ASSUME ScriptTyped, ExecSound, Exits!TypeOK, Executed
  PROVE  /\ ExecSound' /\ ChainKept /\ UNCHANGED txs
         /\ failure = "none" /\ pc = ExecAt
         /\ \/ pc' = pc + 1 /\ failure' = "none" /\ execSig' = firstTx
            \/ pc' = pc /\ failure' = "execute" /\ execSig' = 0
<1>1. failure = "none" /\ pc = ExecAt
  BY WalkSteps DEF Executed
<1>2. Exits!Settle(Script)
  BY DEF Executed
<1>3. ChainKept /\ UNCHANGED txs /\ InCall /\ ~ InCall' /\ (Confirmed \/ Caught \/ Thrown)
  BY <1>2, SettleEffect
<1>4. Submitted /\ execSig = 0
  BY <1>1, <1>3 DEF ExecSound, ScriptTyped, ExecAt
<1>5. /\ UNCHANGED <<script, firstTx>> /\ execSig' = calls'[Script].sig
      /\ times'["execute"] = wall /\ times'["submit"] = times["submit"]
      /\ IF calls'[Script].phase = "resolved"
         THEN pc' = pc + 1 /\ failure' = "none"
         ELSE pc' = pc /\ failure' = "execute"
  BY <1>1 DEF Executed, PassIf, Pass, Fail, ScriptTyped
<1>6. ExecAt' = ExecAt /\ RepeatAt' = RepeatAt /\ ExecAt \in Nat /\ RepeatAt \in Nat
      /\ RepeatAt = ExecAt + 2
  BY <1>5 DEF ExecAt, RepeatAt
<1>7. firstTx \in Nat \ {0} /\ Len(txs) \in Nat /\ DOMAIN txs = 1 .. Len(txs) /\ wall \in Nat
  BY ExitsParts DEF ScriptTyped
<1>8. ~ Caught
  BY <1>4 DEF Caught, Submitted
<1>9. CASE Confirmed
  <2>1. /\ calls'[Script].phase = "resolved" /\ calls'[Script].sig = firstTx
        /\ txs[firstTx].status = "Ok"
        /\ Entry' = [lastTxSig |-> firstTx, lastExecutedAt |-> wall]
    BY <1>4, <1>9 DEF Confirmed, Submitted, Outcome
  <2>2. Exited'
    BY <1>3, <1>4, <1>5, <1>7, <2>1 DEF Exited, Submitted
  <2>3. Remembered'
    BY <1>3, <1>4, <1>5, <1>7, <2>1 DEF Remembered, Submitted, Entry, ChainKept
  <2>4. pc' = ExecAt + 1 /\ failure' = "none" /\ execSig' = firstTx
    BY <1>1, <1>5, <2>1
  <2>5. ExecSound'
    BY <1>3, <1>6, <2>2, <2>3, <2>4 DEF ExecSound
  <2>6. QED BY <1>1, <1>3, <2>4, <2>5
<1>10. CASE Thrown
  <2>1. pc' = pc /\ failure' = "execute" /\ execSig' = 0
    BY <1>5, <1>10 DEF Thrown
  <2>2. RefusedForCause(firstTx) => RefusedForCause(firstTx)'
    BY <1>3, <1>5 DEF RefusedForCause, ExitOfOperatorSince, ChainKept
  <2>3. Submitted'
    BY <1>3, <1>4, <1>5, <1>10, <2>2 DEF Submitted, Thrown, ChainKept
  <2>4. ExecSound'
    BY <1>1, <1>3, <1>6, <2>1, <2>3 DEF ExecSound
  <2>5. QED BY <1>1, <1>3, <2>1, <2>4
<1>11. QED BY <1>3, <1>8, <1>9, <1>10

(* The exit is asked for again: the cache answers, or the chain is asked.  *)
LEMMA RepeatSound ==
  ASSUME ScriptTyped, ExecSound, Exits!TypeOK, Repeat
  PROVE  /\ ExecSound' /\ ChainKept
         /\ failure = "none" /\ pc = RepeatAt
         /\ \/ pc' = pc /\ failure' = "none"
            \/ pc' = pc + 1 /\ failure' = "none"
            \/ pc' = pc /\ failure' = "repeat"
<1>1. failure = "none" /\ pc = RepeatAt
  BY WalkSteps DEF Repeat
<1>2. Exited /\ ((~ InCall /\ Remembered) \/ (InCall /\ Repeating))
  <2>1. ExecAt \in Nat /\ RepeatAt \in Nat /\ ExecAt < RepeatAt
    BY DEF ExecAt, RepeatAt
  <2>2. pc > ExecAt
    BY <1>1, <2>1
  <2>3. Exited
    BY <2>2 DEF ExecSound
  <2>4. \/ failure = "none" /\ ~ InCall /\ Remembered
        \/ failure = "none" /\ InCall /\ Repeating
        \/ failure = "repeat"
    BY <1>1 DEF ExecSound
  <2>5. QED BY <1>1, <2>3, <2>4
<1>3. UNCHANGED <<script, execSig, firstTx, times>>
  BY DEF Repeat
<1>4. ExecAt' = ExecAt /\ RepeatAt' = RepeatAt /\ ExecAt \in Nat /\ RepeatAt \in Nat
      /\ RepeatAt = ExecAt + 2
  BY <1>3 DEF ExecAt, RepeatAt
<1>5. firstTx \in Nat \ {0} /\ Len(txs) \in Nat /\ DOMAIN txs = 1 .. Len(txs) /\ wall \in Nat
      /\ times["execute"] \in Nat
  BY ExitsParts DEF ScriptTyped
<1>6. CASE Exits!Submit(Script, ExitPlan(Operator)) /\ UNCHANGED <<pc, failure>>
  <2>1. /\ ChainKept /\ ~ InCall
        /\ Entry.lastTxSig = 0 \/ wall - Entry.lastExecutedAt >= WriteThrottle
        /\ Len(txs') = Len(txs) + 1 /\ DOMAIN txs' = 1 .. Len(txs) + 1
        /\ \A t \in DOMAIN txs : txs'[t] = txs[t]
        /\ calls'[Script].phase = "waiting" /\ calls'[Script].tx = Len(txs) + 1
        /\ calls'[Script].policy = Operator /\ calls'[Script].cachedWrite = Entry
    BY <1>6, SubmitEffect
  <2>2. Len(txs) = firstTx
        /\ Entry = [lastTxSig |-> firstTx, lastExecutedAt |-> times["execute"]]
    BY <1>2, <2>1 DEF Remembered, Entry
  <2>3. Exited'
    BY <1>2, <1>3, <1>5, <2>1, <2>2 DEF Exited
  <2>4. Repeating' /\ InCall'
    BY <1>3, <1>5, <2>1, <2>2 DEF Repeating, InCall, ChainKept
  <2>5. ExecSound'
    BY <1>1, <1>4, <1>6, <2>3, <2>4 DEF ExecSound
  <2>6. QED BY <1>1, <1>6, <2>1, <2>5
<1>7. CASE /\ Exits!Shortcut(Script, ExitPlan(Operator))
           /\ PassIf(SameSignature(calls'[Script].sig), "repeat")
  <2>1. /\ ChainKept /\ UNCHANGED <<writeCache, txs>> /\ ~ InCall
        /\ calls'[Script].phase = "resolved" /\ calls'[Script].sig = Entry.lastTxSig
    BY <1>7, ShortcutEffect
  <2>2. Len(txs) = firstTx /\ Entry.lastTxSig = firstTx
    BY <1>2, <2>1 DEF Remembered, Entry
  <2>3. pc' = pc + 1 /\ failure' = "none"
    BY <1>1, <1>2, <1>7, <2>1, <2>2 DEF PassIf, Pass, SameSignature, Exited
  <2>4. Exited' /\ Repeated' /\ ~ InCall'
    BY <1>2, <1>3, <2>1, <2>2 DEF Exited, Repeated, InCall
  <2>5. ExecSound'
    BY <1>1, <1>4, <2>3, <2>4 DEF ExecSound
  <2>6. QED BY <1>1, <2>1, <2>3, <2>5
<1>8. CASE /\ Exits!Settle(Script)
           /\ PassIf(SameSignature(calls'[Script].sig), "repeat")
  <2>1. ChainKept /\ UNCHANGED txs /\ InCall /\ ~ InCall' /\ (Confirmed \/ Caught \/ Thrown)
    BY <1>8, SettleEffect
  <2>2. Repeating
    BY <1>2, <2>1
  <2>3. Exited'
    BY <1>2, <1>3, <2>1 DEF Exited
  <2>4. CASE Caught
    <3>1. calls'[Script].sig = firstTx /\ txs[firstTx + 1].status = "RebalanceTooSoon"
      BY <2>2, <2>4 DEF Caught, Repeating, Outcome
    <3>2. pc' = pc + 1 /\ failure' = "none"
      BY <1>1, <1>2, <1>8, <3>1 DEF PassIf, Pass, SameSignature, Exited
    <3>3. Repeated'
      BY <1>3, <2>1, <2>2, <3>1 DEF Repeated, Repeating
    <3>4. ExecSound'
      BY <1>1, <1>4, <2>1, <2>3, <3>2, <3>3 DEF ExecSound
    <3>5. QED BY <1>1, <2>1, <3>2, <3>4
  <2>5. CASE Confirmed \/ Thrown
    <3>1. calls'[Script].sig # firstTx
      BY <1>5, <2>2, <2>5 DEF Confirmed, Thrown, Repeating
    <3>2. pc' = pc /\ failure' = "repeat"
      BY <1>2, <1>8, <3>1 DEF PassIf, Fail, SameSignature, Exited
    <3>3. wall' - times'["execute"] >= WriteThrottle
      BY <1>3, <2>1, <2>2 DEF Repeating, ChainKept
    <3>4. ExecSound'
      BY <1>1, <1>4, <2>1, <2>3, <3>2, <3>3 DEF ExecSound
    <3>5. QED BY <1>1, <2>1, <3>2, <3>4
  <2>6. QED BY <2>1, <2>4, <2>5
<1>9. QED BY <1>6, <1>7, <1>8 DEF Repeat

-----------------------------------------------------------------------------
(* What a step leaves alone stays sound.                                   *)

Grown == UNCHANGED events \/ \E p \in {Operator, Stranger} : EventAdded(p)
OutcomesKept == \A t \in DOMAIN txs : txs[t].status # "flight" => txs'[t] = txs[t]

(* The log keeps what it holds; what it gains is dated now.                *)
LEMMA EventsStay ==
  ASSUME Exits!TypeOK, Grown
  PROVE  /\ Len(events) \in Nat /\ Len(events') \in Nat /\ Len(events) <= Len(events')
         /\ DOMAIN events = 1 .. Len(events) /\ DOMAIN events' = 1 .. Len(events')
         /\ \A i \in DOMAIN events : i \in DOMAIN events' /\ events'[i] = events[i]
         /\ \A i \in DOMAIN events' : i \notin DOMAIN events =>
              i = Len(events) + 1 /\ events'[i].ts = clock
<1>1. Len(events) \in Nat /\ DOMAIN events = 1 .. Len(events)
  BY ExitsParts
<1>2. CASE UNCHANGED events
  BY <1>1, <1>2
<1>3. ASSUME NEW p, EventAdded(p)
      PROVE  /\ Len(events') \in Nat /\ Len(events) <= Len(events')
             /\ DOMAIN events' = 1 .. Len(events')
             /\ \A i \in DOMAIN events : i \in DOMAIN events' /\ events'[i] = events[i]
             /\ \A i \in DOMAIN events' : i \notin DOMAIN events =>
                  i = Len(events) + 1 /\ events'[i].ts = clock
  <2>1. /\ Len(events') = Len(events) + 1 /\ DOMAIN events' = 1 .. Len(events) + 1
        /\ \A i \in DOMAIN events : events'[i] = events[i]
        /\ events'[Len(events) + 1].ts = clock
    BY <1>3 DEF EventAdded
  <2>2. \A i \in DOMAIN events' : i \notin DOMAIN events => i = Len(events) + 1
    BY <1>1, <2>1
  <2>3. QED BY <1>1, <2>1, <2>2
<1>4. QED BY <1>1, <1>2, <1>3 DEF Grown

(* A step that writes nothing to the account.                              *)
LEMMA SetStays ==
  ASSUME SetSound, UNCHANGED <<script, editVars>>,
         script = "realclient" /\ pc' = 2 => pc = 2,
         failure' = "readback" => failure = "readback"
  PROVE  SetSound'
BY DEF SetSound, editVars

(* Time passes between two checks.                                         *)
LEMMA ReadStays ==
  ASSUME ReadSound, ScriptTyped, wall \in Nat, wall' \in Nat, wall <= wall',
         UNCHANGED <<script, pc, failure, resume, readCache, verdict>>,
         times'["high"] = times["high"]
  PROVE  ReadSound'
<1>1. times["high"] \in Nat /\ ReadThrottle \in Nat
  BY WaitAssumption DEF ScriptTyped
<1>2. QED BY <1>1 DEF ReadSound

(* The event of an exit stays where it is.                                 *)
LEMMA TxsStay ==
  ASSUME Exits!TypeOK, TxsAreExits, UNCHANGED txs, Grown
  PROVE  TxsAreExits'
<1>1. \A i \in DOMAIN events : i \in DOMAIN events' /\ events'[i] = events[i]
  BY EventsStay
<1>2. QED BY <1>1 DEF TxsAreExits, Exits!RequestOf, ExitPlan

(* The listener hears no more than before, but for new exits.              *)
LEMMA ListenerStays ==
  ASSUME ListenerSound, ScriptTyped, Exits!TypeOK, ClocksAgree, wall' \in Nat,
         UNCHANGED <<script, firstTx>>, pc' \in Nat, pc <= pc', wall <= wall',
         times'["subscribe"] = times["subscribe"],
         failure' = "event" => failure = "event",
         Grown,
         \A t \in DOMAIN txs' : t >= firstTx /\ txs'[t].status = "Ok" =>
           \/ t \in DOMAIN txs /\ txs'[t] = txs[t]
           \/ txs'[t].event = Len(events) + 1,
         \/ UNCHANGED listener
         \/ /\ listener.on
            /\ \E i \in listener.from + 1 .. Len(events) :
                 listener' = [listener EXCEPT !.captured = i]
  PROVE  ListenerSound'
<1>1. /\ listener.on \in BOOLEAN /\ listener.from \in Nat /\ listener.captured \in Nat
      /\ listener.shown \in Nat /\ pc \in Nat /\ times["subscribe"] \in Nat /\ firstTx \in Nat
      /\ listener \in [on : BOOLEAN, from : Nat, captured : Nat, shown : Nat]
  BY DEF ScriptTyped, EndAt
<1>2. /\ listener'.on = listener.on /\ listener'.from = listener.from
      /\ listener'.shown = listener.shown
      /\ listener.on => \/ listener'.captured = listener.captured
                        \/ listener'.captured \in listener.from + 1 .. Len(events)
      /\ ~ listener.on => listener' = listener
  <2>1. CASE UNCHANGED listener
    BY <2>1
  <2>2. CASE /\ listener.on
             /\ \E i \in listener.from + 1 .. Len(events) :
                  listener' = [listener EXCEPT !.captured = i]
    <3>1. PICK i \in listener.from + 1 .. Len(events) :
            listener' = [listener EXCEPT !.captured = i]
      BY <2>2
    <3>2. /\ listener'.on = listener.on /\ listener'.from = listener.from
          /\ listener'.shown = listener.shown /\ listener'.captured = i
      BY <1>1, <3>1
    <3>3. QED BY <2>2, <3>1, <3>2
  <2>3. QED BY <2>1, <2>2
<1>3. /\ Len(events) \in Nat /\ Len(events') \in Nat /\ Len(events) <= Len(events')
      /\ DOMAIN events = 1 .. Len(events) /\ DOMAIN events' = 1 .. Len(events')
      /\ \A i \in DOMAIN events : i \in DOMAIN events' /\ events'[i] = events[i]
      /\ \A i \in DOMAIN events' : i \notin DOMAIN events =>
           i = Len(events) + 1 /\ events'[i].ts = clock
  BY EventsStay
<1>4. ASSUME listener.on
      PROVE  /\ script' = "e2e" /\ pc' > 2
             /\ listener'.from \in 0 .. Len(events')
             /\ times'["subscribe"] <= wall'
             /\ listener'.captured \in {0} \cup listener'.from + 1 .. Len(events')
  <2>1. /\ script = "e2e" /\ pc > 2
        /\ listener.from \in 0 .. Len(events)
        /\ times["subscribe"] <= wall
        /\ listener.captured \in {0} \cup listener.from + 1 .. Len(events)
    BY <1>4 DEF ListenerSound
  <2>2. wall \in Nat
    BY ExitsParts
  <2>3. QED BY <1>1, <1>2, <1>3, <1>4, <2>1, <2>2
<1>5. ASSUME listener.on, NEW i \in DOMAIN events', i > listener'.from
      PROVE  events'[i].ts >= times'["subscribe"]
  <2>1. CASE i \in DOMAIN events
    BY <1>2, <1>3, <1>5, <2>1 DEF ListenerSound
  <2>2. CASE i \notin DOMAIN events
    <3>1. events'[i].ts = wall
      BY <1>3, <2>2 DEF ClocksAgree
    <3>2. times["subscribe"] <= wall /\ wall \in Nat
      BY <1>5, ExitsParts DEF ListenerSound
    <3>3. QED BY <1>1, <3>1, <3>2
  <2>3. QED BY <2>1, <2>2
<1>6. ASSUME listener.on, NEW t \in DOMAIN txs', t >= firstTx', txs'[t].status = "Ok"
      PROVE  txs'[t].event > listener'.from
  <2>1. CASE t \in DOMAIN txs /\ txs'[t] = txs[t]
    BY <1>2, <1>6, <2>1 DEF ListenerSound
  <2>2. CASE txs'[t].event = Len(events) + 1
    <3>1. listener.from <= Len(events)
      BY <1>3, <1>6 DEF ListenerSound
    <3>2. QED BY <1>1, <1>2, <1>3, <2>2, <3>1
  <2>3. QED BY <1>6, <2>1, <2>2
<1>7. ~ listener.on => listener' = Deaf
  BY <1>2 DEF ListenerSound
<1>8. listener'.shown # 0 => pc' >= 7
  BY <1>1, <1>2 DEF ListenerSound
<1>9. failure' = "event" =>
        \E i \in DOMAIN events' : i > listener'.from /\ events'[i].policy = Stranger
  BY <1>2, <1>3 DEF ListenerSound
<1>10. Deaf' = Deaf
  BY DEF Deaf
<1>11. QED
  BY <1>2, <1>4, <1>5, <1>6, <1>7, <1>8, <1>9, <1>10 DEF ListenerSound

(* What was shown and when does not change, nor does the exit it was of.   *)
LEMMA CapturedStays ==
  ASSUME CapturedIsOwnUnlessSlow, ListenerSound, ExecSound, ScriptTyped, OutcomesKept,
         listener'.shown = listener.shown,
         times'["subscribe"] = times["subscribe"], times'["event"] = times["event"],
         listener.shown # 0 => execSig' = execSig,
         failure = "event" => failure' = "event"
  PROVE  CapturedIsOwnUnlessSlow'
<1> SUFFICES ASSUME listener.shown # 0, failure # "event"
             PROVE  \/ listener.shown = txs'[execSig'].event
                    \/ times["event"] - times["subscribe"] >= RateLimit
  BY DEF CapturedIsOwnUnlessSlow
<1>1. listener.on /\ script = "e2e" /\ pc >= 7
  BY DEF ListenerSound, Deaf, ScriptTyped
<1>2. pc > ExecAt
  BY <1>1 DEF ExecAt, ScriptTyped, EndAt
<1>3. execSig \in DOMAIN txs /\ txs[execSig].status = "Ok"
  BY <1>2 DEF ExecSound, Exited
<1>4. txs'[execSig'] = txs[execSig]
  BY <1>3 DEF OutcomesKept
<1>5. QED BY <1>4 DEF CapturedIsOwnUnlessSlow

-----------------------------------------------------------------------------
(* The steps of the others, the network and time.                          *)

(* Time that passes, and outcomes that arrive, move the script nowhere.    *)
LEMMA WorldPreserves ==
  ASSUME IInv, Exits!TypeOK, Exits!TypeOK',
         UNCHANGED <<script, pc, failure, resume, readCache, verdict, execSig, runs, firstTx,
                     times, calls, writeCache>>,
         wall <= wall', ClocksAgree', Grown, OutcomesKept, TxsAreExits',
         Len(txs') = Len(txs), DOMAIN txs' = DOMAIN txs,
         \A t \in DOMAIN txs : txs[t].status = "flight" =>
           \/ txs'[t] = txs[t]
           \/ txs'[t].status = "dropped"
           \/ txs'[t].status = "Ok" /\ txs'[t].event = Len(events) + 1
           \/ /\ txs'[t].status = "RebalanceTooSoon"
              /\ \E i \in DOMAIN events : /\ events[i].policy = Operator
                                          /\ clock - events[i].ts < RateLimit,
         \/ UNCHANGED listener
         \/ /\ listener.on
            /\ \E i \in listener.from + 1 .. Len(events) :
                 listener' = [listener EXCEPT !.captured = i],
         SetSound'
  PROVE  IInv'
<1> USE DEF IInv
<1>1. wall \in Nat /\ wall' \in Nat /\ clock \in Nat
  <2>1. wall' \in Nat
    BY DEF Exits!TypeOK
  <2>2. QED BY <2>1, ExitsParts
<1>2. listener.shown \in Nat /\ pc \in Nat /\ times["submit"] \in Nat
      /\ listener \in [on : BOOLEAN, from : Nat, captured : Nat, shown : Nat]
  BY DEF ScriptTyped, EndAt
<1>3. /\ listener' \in [on : BOOLEAN, from : Nat, captured : Nat, shown : Nat]
      /\ listener'.shown = listener.shown
  <2>1. CASE UNCHANGED listener
    BY <1>2, <2>1
  <2>2. ASSUME NEW i \in listener.from + 1 .. Len(events),
               listener' = [listener EXCEPT !.captured = i]
        PROVE  /\ listener' \in [on : BOOLEAN, from : Nat, captured : Nat, shown : Nat]
               /\ listener'.shown = listener.shown
    <3>1. i \in Nat
      <4>1. Len(events) \in Nat /\ listener.from \in Nat
        BY <1>2, ExitsParts
      <4>2. QED BY <4>1
    <3>2. QED BY <1>2, <2>2, <3>1
  <2>3. QED BY <2>1, <2>2
<1>4. ScriptTyped'
  BY <1>3 DEF ScriptTyped, EndAt, Verdict
<1>5. ReadSound'
  BY <1>1, ReadStays
<1>6. firstTx \in DOMAIN txs /\ RefusedForCause(firstTx) /\ times["submit"] <= wall
        => RefusedForCause(firstTx)'
  <2> SUFFICES ASSUME firstTx \in DOMAIN txs, RefusedForCause(firstTx), times["submit"] <= wall,
                      txs'[firstTx].status = "RebalanceTooSoon"
               PROVE  ExitOfOperatorSince(times["submit"] - RateLimit)'
    BY DEF RefusedForCause
  <2>1. times["submit"] - RateLimit \in Int
    BY <1>2, ExitsAssumption
  <2>2. CASE ExitOfOperatorSince(times["submit"] - RateLimit)
    <3>1. \A i \in DOMAIN events : i \in DOMAIN events' /\ events'[i] = events[i]
      BY EventsStay
    <3>2. QED BY <2>2, <3>1 DEF ExitOfOperatorSince
  <2>3. CASE \E i \in DOMAIN events : events[i].policy = Operator /\ clock - events[i].ts < RateLimit
    <3>1. PICK i \in DOMAIN events : /\ events[i].policy = Operator
                                     /\ clock - events[i].ts < RateLimit
      BY <2>3
    <3>2. events[i].ts \in Nat /\ clock = wall
      BY ExitsParts DEF ClocksAgree
    <3>3. events[i].ts > times["submit"] - RateLimit
      <4>1. RateLimit \in Nat /\ times["submit"] \in Nat /\ times["submit"] <= wall
        BY <1>2, ExitsAssumption
      <4>2. wall - events[i].ts < RateLimit
        BY <3>1, <3>2
      <4>3. QED BY <1>1, <3>2, <4>1, <4>2
    <3>4. ExitOfOperatorSince(times["submit"] - RateLimit)
      BY <3>1, <3>3 DEF ExitOfOperatorSince
    <3>5. QED BY <2>2, <3>4
  <2>4. CASE txs'[firstTx] = txs[firstTx]
    BY <2>2, <2>4 DEF RefusedForCause
  <2>5. CASE txs'[firstTx] # txs[firstTx]
    BY <2>3, <2>5 DEF OutcomesKept
  <2>6. QED BY <2>4, <2>5
<1>7. ExecSound'
  <2>1. \A t \in DOMAIN txs : txs[t].status # "flight" => txs'[t].status = txs[t].status
    BY DEF OutcomesKept
  <2>2. QED BY <1>1, <1>6, <2>1, ExecStays
<1>8. ListenerSound'
  <2>1. \A t \in DOMAIN txs' : t >= firstTx /\ txs'[t].status = "Ok" =>
          \/ t \in DOMAIN txs /\ txs'[t] = txs[t]
          \/ txs'[t].event = Len(events) + 1
    BY DEF OutcomesKept
  <2>2. QED BY <1>1, <1>2, <2>1, ListenerStays
<1>9. FailureSound'
  BY DEF FailureSound, ExecAt, RepeatAt
<1>10. CapturedIsOwnUnlessSlow'
  BY <1>3, CapturedStays
<1>11. QED BY <1>4, <1>5, <1>7, <1>8, <1>9, <1>10

-----------------------------------------------------------------------------
(* What the editors do.                                                    *)

SubsKept ==
  \A i \in DOMAIN landed : /\ i \in DOMAIN landed' /\ landed'[i] = landed[i]
                           /\ editTxs'[landed[i]].sub = editTxs[landed[i]].sub

(* The account's state is made of sequences and records.                   *)
LEMMA EditsParts ==
  ASSUME Edits!TypeOK
  PROVE  /\ edits \in [{Script, Editor} -> Edits!Call] /\ edits[Script] \in Edits!Call
         /\ editTxs \in Seq(Edits!Tx) /\ Len(editTxs) \in Nat
         /\ DOMAIN editTxs = 1 .. Len(editTxs)
         /\ \A t \in DOMAIN editTxs : /\ editTxs[t] \in Edits!Tx
                                      /\ editTxs[t].sub \in {Submission(Demo), Submission(Other)}
         /\ landed \in Seq(Nat) /\ Len(landed) \in Nat /\ DOMAIN landed = 1 .. Len(landed)
         /\ \A i \in DOMAIN landed : landed[i] \in DOMAIN editTxs
         /\ DOMAIN policy = {Operator}
<1>1. /\ edits \in [{Script, Editor} -> Edits!Call]
      /\ editTxs \in Seq(Edits!Tx) /\ landed \in Seq(Nat)
      /\ \A i \in DOMAIN landed : landed[i] \in DOMAIN editTxs
  BY DEF Edits!TypeOK
<1>2. /\ Len(editTxs) \in Nat /\ DOMAIN editTxs = 1 .. Len(editTxs)
      /\ \A t \in DOMAIN editTxs : editTxs[t] \in Edits!Tx
  BY <1>1
<1>3. \A tx \in Edits!Tx : tx.sub \in {Submission(Demo), Submission(Other)}
  BY DEF Edits!Tx
<1>4. DOMAIN policy = {Operator}
  BY DEF Edits!TypeOK, Edits!AccountsTyped
<1>5. QED BY <1>1, <1>2, <1>3, <1>4

(* An editor that submits appends a transaction, and the log stays.        *)
LEMMA EditSubmits ==
  ASSUME Edits!TypeOK, NEW c \in {Script, Editor}, Edits!Submit(c)
  PROVE  /\ SubsKept /\ UNCHANGED <<landed, policy, exists>>
         /\ edits'[c].phase = "waiting" /\ edits'[c].sub = edits[c].sub
         /\ edits[c].phase = "reading"
         /\ \A d \in {Script, Editor} : d # c => edits'[d] = edits[d]
<1> DEFINE new == [sub |-> edits[c].sub, kind |-> Edits!KindFor(edits[c].sub.vault),
                   status |-> "flight", seen |-> Len(landed)]
<1>1. editTxs' = Append(editTxs, new) /\ UNCHANGED <<landed, policy, exists>>
      /\ edits[c].phase = "reading"
  BY DEF Edits!Submit, Edits!chainVars
<1> HIDE DEF new
<1>2. \A t \in DOMAIN editTxs : editTxs'[t] = editTxs[t]
  BY <1>1, EditsParts
<1>3. SubsKept
  BY <1>1, <1>2, EditsParts DEF SubsKept
<1> DEFINE call == [edits[c] EXCEPT !.phase = "waiting", !.tx = Len(editTxs) + 1]
<1>4. edits' = [edits EXCEPT ![c] = call]
  BY DEF Edits!Submit
<1>5. edits[c] \in Edits!Call
  BY EditsParts
<1>6. call.phase = "waiting" /\ call.sub = edits[c].sub
  BY <1>5 DEF Edits!Call
<1> HIDE DEF call
<1>7. edits'[c] = call /\ \A d \in {Script, Editor} : d # c => edits'[d] = edits[d]
  BY <1>4, EditsParts
<1>8. QED BY <1>1, <1>3, <1>6, <1>7

(* An editor that begins does so with its own content.                     *)
LEMMA EditBegins ==
  ASSUME Edits!TypeOK, NEW c \in {Script, Editor}, NEW s, Edits!Begin(c, s)
  PROVE  /\ SubsKept /\ UNCHANGED <<landed, policy, exists, editTxs>>
         /\ edits'[c].phase = "reading" /\ edits'[c].sub = s
         /\ \A d \in {Script, Editor} : d # c => edits'[d] = edits[d]
<1>1. /\ edits' = [edits EXCEPT ![c] = [Edits!Idle(s) EXCEPT !.phase = "reading"]]
      /\ UNCHANGED <<landed, policy, exists, editTxs>>
  BY DEF Edits!Begin, Edits!chainVars
<1>2. [Edits!Idle(s) EXCEPT !.phase = "reading"] =
        [phase |-> "reading", sub |-> s, tx |-> 0, error |-> "none"]
  BY DEF Edits!Idle
<1>3. edits' = [edits EXCEPT ![c] = [phase |-> "reading", sub |-> s, tx |-> 0, error |-> "none"]]
  BY <1>1, <1>2
<1>4. /\ edits'[c].phase = "reading" /\ edits'[c].sub = s
      /\ \A d \in {Script, Editor} : d # c => edits'[d] = edits[d]
  BY <1>3, EditsParts
<1>5. QED BY <1>1, <1>4 DEF SubsKept

(* An edit lands: it is what the account holds now, or it changes nothing. *)
LEMMA LandEditEffect ==
  ASSUME Edits!TypeOK, NEW t \in DOMAIN editTxs, LandEdit(t)
  PROVE  /\ UNCHANGED <<edits, clock, exitVars, scriptVars>>
         /\ SubsKept
         /\ \/ UNCHANGED <<landed, policy>>
            \/ /\ Len(landed') = Len(landed) + 1 /\ DOMAIN landed' = 1 .. Len(landed) + 1
               /\ landed'[Len(landed) + 1] = t
               /\ editTxs'[t].sub = editTxs[t].sub
               /\ policy'[Operator].ciphertext = editTxs[t].sub.ciphertext
<1>1. editTxs[t] \in Edits!Tx /\ t \in Nat
      /\ editTxs[t].sub.vault = Operator /\ editTxs[t].sub.signer = Operator
  BY EditsParts DEF Submission
<1>2. UNCHANGED <<edits, exitVars, scriptVars>>
  BY DEF LandEdit, Edits!Land, Edits!Drop
<1>3. UNCHANGED clock
  BY DEF LandEdit, Edits!Land, Edits!Drop, Edits!chainVars, Edits!Effective,
     Edits!Ineffective, Edits!Chain!InitPolicy, Edits!Chain!UpdatePolicy,
     Edits!Chain!RefuseInit, Edits!Chain!RefuseUpdate, Edits!Chain!vars
<1>4. ASSUME NEW st, editTxs' = [editTxs EXCEPT ![t].status = st]
      PROVE  \A s \in DOMAIN editTxs : editTxs'[s].sub = editTxs[s].sub
  <2> DEFINE new == [editTxs[t] EXCEPT !.status = st]
  <2>1. new.sub = editTxs[t].sub
    BY <1>1 DEF Edits!Tx
  <2>2. editTxs' = [editTxs EXCEPT ![t] = new]
    BY <1>4
  <2> HIDE DEF new
  <2>3. QED BY <2>1, <2>2, EditsParts
<1>5. \E st : editTxs' = [editTxs EXCEPT ![t].status = st]
  BY DEF LandEdit, Edits!Land, Edits!Drop
<1>6. \A s \in DOMAIN editTxs : editTxs'[s].sub = editTxs[s].sub
  BY <1>4, <1>5
<1>7. CASE Edits!Effective(editTxs[t]) /\ landed' = Append(landed, t)
  <2>1. /\ Len(landed') = Len(landed) + 1 /\ DOMAIN landed' = 1 .. Len(landed) + 1
        /\ landed'[Len(landed) + 1] = t
        /\ \A i \in DOMAIN landed : i \in DOMAIN landed' /\ landed'[i] = landed[i]
    BY <1>1, <1>7, EditsParts
  <2>2. policy'[Operator].ciphertext = editTxs[t].sub.ciphertext
    <3>1. CASE Edits!Chain!InitPolicy(Operator, editTxs[t].sub.ciphertext, Edits!ArciumHandle)
      BY <3>1, EditsParts DEF Edits!Chain!InitPolicy
    <3>2. CASE Edits!Chain!UpdatePolicy(Operator, Operator, editTxs[t].sub.ciphertext,
                                        Edits!ArciumHandle)
      BY <3>2, EditsParts DEF Edits!Chain!UpdatePolicy, Edits!TypeOK, Edits!AccountsTyped,
         Edits!Account
    <3>3. QED BY <1>1, <1>7, <3>1, <3>2 DEF Edits!Effective
  <2>3. SubsKept
    BY <1>6, <2>1, EditsParts DEF SubsKept
  <2>4. QED BY <1>2, <1>3, <1>6, <2>1, <2>2, <2>3
<1>8. CASE Edits!Ineffective(editTxs[t]) /\ UNCHANGED landed
  <2>1. UNCHANGED policy
    BY <1>8 DEF Edits!Ineffective, Edits!chainVars, Edits!Chain!RefuseInit,
       Edits!Chain!RefuseUpdate, Edits!Chain!vars
  <2>2. SubsKept
    BY <1>6, <1>8, EditsParts DEF SubsKept
  <2>3. QED BY <1>2, <1>3, <1>8, <2>1, <2>2
<1>9. CASE Edits!Drop(t)
  <2>1. UNCHANGED <<landed, policy>>
    BY <1>9 DEF Edits!Drop, Edits!chainVars
  <2>2. SubsKept
    BY <1>6, <2>1, EditsParts DEF SubsKept
  <2>3. QED BY <1>2, <1>3, <2>1, <2>2
<1>10. QED BY <1>7, <1>8, <1>9 DEF LandEdit, Edits!Land

(* An editor that writes nothing to the chain changes nothing of it.       *)
LEMMA SetSurvives ==
  ASSUME SetSound, SubsKept, UNCHANGED <<landed, policy, script, pc, failure>>,
         \/ edits'[Script] = edits[Script]
         \/ pc = 1 /\ failure = "none" /\ edits'[Script].sub = Submission(Demo)
  PROVE  SetSound'
<1>1. edits'[Script].phase # "idle" => edits'[Script].sub = Submission(Demo)
  BY DEF SetSound
<1>2. script' = "realclient" /\ pc' = 2 => edits'[Script].phase = "resolved"
  BY DEF SetSound
<1>3. \A i \in DOMAIN landed : editTxs'[landed'[i]].sub = editTxs[landed[i]].sub
  BY DEF SubsKept
<1>4. \A i \in DOMAIN landed' : editTxs'[landed'[i]].sub = Submission(Demo) =>
        \/ policy'[Operator].ciphertext = Demo
        \/ \E j \in DOMAIN landed' : i < j /\ editTxs'[landed'[j]].sub = Submission(Other)
  BY <1>3 DEF SetSound
<1>5. failure' = "readback" =>
        \E i, j \in DOMAIN landed' :
          landed'[i] = edits'[Script].tx /\ i < j /\ editTxs'[landed'[j]].sub = Submission(Other)
  BY <1>3 DEF SetSound
<1>6. Submission(Demo)' = Submission(Demo) /\ Submission(Other)' = Submission(Other)
  BY DEF Submission
<1>7. QED BY <1>1, <1>2, <1>4, <1>5, <1>6 DEF SetSound

(* The script begins its call, or submits it.                              *)
LEMMA SetPolicySound ==
  ASSUME SetSound, ScriptTyped, Edits!TypeOK, SetPolicy
  PROVE  SetSound'
<1>1. failure = "none" /\ pc = 1
  BY WalkSteps DEF SetPolicy
<1>2. UNCHANGED <<script, pc, failure>>
  BY DEF SetPolicy, scriptVars
<1>3. CASE Edits!Begin(Script, Submission(Demo))
  <2>1. SubsKept /\ UNCHANGED <<landed, policy>> /\ edits'[Script].sub = Submission(Demo)
    BY <1>3, EditBegins
  <2>2. QED BY <1>1, <1>2, <2>1, SetSurvives
<1>4. CASE Edits!Submit(Script)
  <2>1. /\ SubsKept /\ UNCHANGED <<landed, policy>>
        /\ edits'[Script].sub = edits[Script].sub /\ edits[Script].phase = "reading"
    BY <1>4, EditSubmits
  <2>2. edits[Script].sub = Submission(Demo)
    BY <2>1 DEF SetSound
  <2>3. QED BY <1>1, <1>2, <2>1, <2>2, SetSurvives
<1>5. QED BY <1>3, <1>4 DEF SetPolicy

(* The other editor does not touch the script's call.                      *)
LEMMA EditSound ==
  ASSUME SetSound, Edits!TypeOK, Edit
  PROVE  SetSound'
<1>1. UNCHANGED <<script, pc, failure>>
  BY DEF Edit, scriptVars
<1>2. SubsKept /\ UNCHANGED <<landed, policy>> /\ edits'[Script] = edits[Script]
  <2>1. Editor # Script
    BY EditsAssumption
  <2>2. CASE Edits!Begin(Editor, Submission(Other))
    BY <2>1, <2>2, EditBegins
  <2>3. CASE Edits!Submit(Editor)
    BY <2>1, <2>3, EditSubmits
  <2>4. QED BY <2>2, <2>3 DEF Edit
<1>3. QED BY <1>1, <1>2, SetSurvives

(* The content that lands is the script's, or from now on another's.       *)
LEMMA LandEditSound ==
  ASSUME SetSound, Edits!TypeOK, NEW t \in DOMAIN editTxs, LandEdit(t)
  PROVE  SetSound'
<1>1. UNCHANGED <<edits, script, pc, failure>> /\ SubsKept
  BY LandEditEffect DEF scriptVars
<1>2. CASE UNCHANGED <<landed, policy>>
  BY <1>1, <1>2, SetSurvives
<1>3. CASE /\ Len(landed') = Len(landed) + 1 /\ DOMAIN landed' = 1 .. Len(landed) + 1
           /\ landed'[Len(landed) + 1] = t
           /\ editTxs'[t].sub = editTxs[t].sub
           /\ policy'[Operator].ciphertext = editTxs[t].sub.ciphertext
  <2>1. Len(landed) \in Nat /\ DOMAIN landed = 1 .. Len(landed)
        /\ editTxs[t].sub \in {Submission(Demo), Submission(Other)}
    BY EditsParts
  <2>2. Submission(Demo).ciphertext = Demo
    BY DEF Submission
  <2>3. \A i \in DOMAIN landed : /\ i \in DOMAIN landed' /\ landed'[i] = landed[i]
                                 /\ editTxs'[landed'[i]].sub = editTxs[landed[i]].sub
    BY <1>1 DEF SubsKept
  <2>4. ASSUME NEW i \in DOMAIN landed', editTxs'[landed'[i]].sub = Submission(Demo)
        PROVE  \/ policy'[Operator].ciphertext = Demo
               \/ \E j \in DOMAIN landed' : i < j /\ editTxs'[landed'[j]].sub = Submission(Other)
    <3>1. CASE editTxs[t].sub = Submission(Demo)
      BY <1>3, <2>2, <3>1
    <3>2. CASE i = Len(landed) + 1
      BY <1>3, <2>2, <2>4, <3>2
    <3>3. CASE i # Len(landed) + 1 /\ editTxs[t].sub = Submission(Other)
      <4>1. Len(landed) + 1 \in DOMAIN landed' /\ i < Len(landed) + 1
        BY <1>3, <2>1, <3>3
      <4>2. editTxs'[landed'[Len(landed) + 1]].sub = Submission(Other)
        BY <1>3, <3>3
      <4>3. QED BY <4>1, <4>2
    <3>4. QED BY <2>1, <3>1, <3>2, <3>3
  <2>5. failure' = "readback" =>
          \E i, j \in DOMAIN landed' :
            landed'[i] = edits'[Script].tx /\ i < j /\ editTxs'[landed'[j]].sub = Submission(Other)
    <3> SUFFICES ASSUME failure = "readback"
                 PROVE  \E i, j \in DOMAIN landed' :
                          /\ landed'[i] = edits'[Script].tx /\ i < j
                          /\ editTxs'[landed'[j]].sub = Submission(Other)
      BY <1>1
    <3>1. PICK i, j \in DOMAIN landed :
            landed[i] = edits[Script].tx /\ i < j /\ editTxs[landed[j]].sub = Submission(Other)
      BY DEF SetSound
    <3>2. QED BY <1>1, <2>3, <3>1
  <2>6. Submission(Demo)' = Submission(Demo) /\ Submission(Other)' = Submission(Other)
    BY DEF Submission
  <2>7. /\ edits'[Script].phase # "idle" => edits'[Script].sub = Submission(Demo)
        /\ script' = "realclient" /\ pc' = 2 => edits'[Script].phase = "resolved"
    BY <1>1 DEF SetSound
  <2>8. QED BY <2>4, <2>5, <2>6, <2>7 DEF SetSound
<1>4. QED BY <1>2, <1>3, LandEditEffect

(* The policy is confirmed, or the run ends.                               *)
LEMMA PolicySetSound ==
  ASSUME SetSound, ScriptTyped, Edits!TypeOK, PolicySet
  PROVE  /\ SetSound' /\ failure = "none" /\ pc = 1
         /\ \/ pc' = 2 /\ failure' = "none"
            \/ pc' = pc /\ failure' = "set"
<1>1. failure = "none" /\ pc = 1
  BY WalkSteps DEF PolicySet
<1>2. UNCHANGED <<landed, policy, editTxs, script>>
  BY DEF PolicySet, Edits!Confirm, Edits!Reject, Edits!ReadFails, Edits!chainVars
<1>3. PICK ph, e :
        /\ edits' = [edits EXCEPT ![Script].phase = ph, ![Script].error = e]
        /\ edits[Script].phase # "idle"
        /\ \/ ph = "resolved" /\ pc' = 2 /\ failure' = "none"
           \/ pc' = pc /\ failure' = "set"
  BY <1>1 DEF PolicySet, Edits!Confirm, Edits!Reject, Edits!ReadFails, Edits!Settled, Pass, Fail
<1>4. edits'[Script].phase = ph /\ edits'[Script].sub = edits[Script].sub
  <2> DEFINE new == [edits[Script] EXCEPT !.phase = ph, !.error = e]
  <2>1. new.phase = ph /\ new.sub = edits[Script].sub
    BY EditsParts DEF Edits!Call
  <2>2. edits' = [edits EXCEPT ![Script] = new]
    BY <1>3
  <2> HIDE DEF new
  <2>3. edits'[Script] = new
    BY <2>2, EditsParts
  <2>4. QED BY <2>1, <2>3
<1>5. edits'[Script].sub = Submission(Demo)
  BY <1>3, <1>4 DEF SetSound
<1>6. script' = "realclient" /\ pc' = 2 => edits'[Script].phase = "resolved"
  BY <1>1, <1>3, <1>4
<1>7. failure' # "readback"
  BY <1>3
<1>8. Submission(Demo)' = Submission(Demo) /\ Submission(Other)' = Submission(Other)
  BY DEF Submission
<1>9. \A i \in DOMAIN landed' : editTxs'[landed'[i]].sub = Submission(Demo) =>
        \/ policy'[Operator].ciphertext = Demo
        \/ \E j \in DOMAIN landed' : i < j /\ editTxs'[landed'[j]].sub = Submission(Other)
  BY <1>2 DEF SetSound
<1>10. SetSound'
  BY <1>5, <1>6, <1>7, <1>8, <1>9 DEF SetSound
<1>11. QED BY <1>1, <1>3, <1>10

(* It is read back as it was written, or somebody wrote after the script.  *)
LEMMA ReadBackSound ==
  ASSUME SetSound, ScriptTyped, EditsKnown, ReadBack
  PROVE  /\ SetSound' /\ failure = "none" /\ script = "realclient" /\ pc = 2
         /\ \/ pc' = 3 /\ failure' = "none"
            \/ pc' = pc /\ failure' \in {"readback", "unread"}
<1>1. failure = "none" /\ script = "realclient" /\ pc = 2
  BY WalkSteps DEF ReadBack
<1>2. UNCHANGED <<script, editVars>>
  BY DEF ReadBack
<1> DEFINE AsWritten == Operator \in exists /\ policy[Operator].ciphertext = Demo
<1>3. CASE PassIf(AsWritten, "readback") /\ AsWritten
  <2>1. pc' = 3 /\ failure' = "none"
    BY <1>1, <1>3 DEF PassIf, Pass
  <2>2. SetSound'
    BY <1>2, <2>1, SetStays
  <2>3. QED BY <1>1, <2>1, <2>2
<1>4. CASE PassIf(AsWritten, "readback") /\ ~ AsWritten
  <2>1. pc' = pc /\ failure' = "readback"
    BY <1>1, <1>4 DEF PassIf, Fail
  <2>2. edits[Script].phase = "resolved" /\ edits[Script].sub = Submission(Demo)
    BY <1>1 DEF SetSound
  <2>3. /\ editTxs[edits[Script].tx].sub = Submission(Demo)
        /\ \E i \in DOMAIN landed : landed[i] = edits[Script].tx
    BY <2>2 DEF EditsKnown, Edits!ResolvedHasLanded
  <2>4. PICK i \in DOMAIN landed : landed[i] = edits[Script].tx
    BY <2>3
  <2>5. editTxs[landed[i]].sub = Submission(Demo)
    BY <2>3, <2>4
  <2>6. Submission(Demo).vault = Operator
    BY DEF Submission
  <2>7. i \in Edits!LandedFor(Operator)
    BY <2>5, <2>6 DEF Edits!LandedFor
  <2>8. Operator \in exists
    BY <2>7 DEF EditsKnown, Edits!PolicyIsLastLanded
  <2>9. policy[Operator].ciphertext # Demo
    BY <1>4, <2>8
  <2>10. PICK j \in DOMAIN landed : i < j /\ editTxs[landed[j]].sub = Submission(Other)
    BY <2>5, <2>9 DEF SetSound
  <2>11. UNCHANGED <<edits, editTxs, landed, policy>>
    BY <1>2 DEF editVars
  <2>12. SetSound'
    <3>1. Submission(Demo)' = Submission(Demo) /\ Submission(Other)' = Submission(Other)
      BY DEF Submission
    <3>2. \E k, l \in DOMAIN landed' :
            landed'[k] = edits'[Script].tx /\ k < l /\ editTxs'[landed'[l]].sub = Submission(Other)
      BY <2>4, <2>10, <2>11
    <3>3. QED BY <2>2, <2>11, <3>1, <3>2 DEF SetSound
  <2>13. QED BY <1>1, <2>1, <2>12
<1>5. CASE Unreadable
  <2>1. pc' = pc /\ failure' = "unread"
    BY <1>5 DEF Unreadable, Fail
  <2>2. SetSound'
    BY <1>1, <1>2, <2>1, SetStays
  <2>3. QED BY <1>1, <2>1, <2>2
<1>6. PassIf(AsWritten, "readback") \/ Unreadable
  BY DEF ReadBack
<1>7. QED BY <1>3, <1>4, <1>5, <1>6

-----------------------------------------------------------------------------
(* The steps of the others, the network and time preserve it.              *)

(* An edit touches neither the exits nor the script.                       *)
LEMMA EditsPreserve ==
  ASSUME IInv, Edits!TypeOK, Exits!TypeOK, Exits!TypeOK',
         SetPolicy \/ Edit \/ \E t \in DOMAIN editTxs : LandEdit(t)
  PROVE  IInv'
<1>1. UNCHANGED <<clock, exitVars, scriptVars>>
  <2>1. CASE SetPolicy
    BY <2>1 DEF SetPolicy, Edits!Begin, Edits!Submit, Edits!chainVars
  <2>2. CASE Edit
    BY <2>2 DEF Edit, Edits!Begin, Edits!Submit, Edits!chainVars
  <2>3. CASE \E t \in DOMAIN editTxs : LandEdit(t)
    BY <2>3, LandEditEffect
  <2>4. QED BY <2>1, <2>2, <2>3
<1>2. SetSound'
  BY SetPolicySound, EditSound, LandEditSound DEF IInv
<1>3. UNCHANGED <<script, pc, failure, resume, readCache, verdict, execSig, listener, runs,
                  firstTx, times, calls, writeCache, wall, txs, events>>
  BY <1>1 DEF scriptVars, exitVars
<1>4. Grown /\ OutcomesKept /\ wall <= wall'
  BY <1>3, ExitsParts DEF Grown, OutcomesKept
<1>5. TxsAreExits' /\ ClocksAgree'
  BY <1>1, <1>3, <1>4, TxsStay DEF IInv, ClocksAgree
<1>6. QED BY <1>2, <1>3, <1>4, <1>5, WorldPreserves

(* An exit in flight gets its outcome.                                     *)
LEMMA LandPreserves ==
  ASSUME IInv, ExitsKnown, Exits!TypeOK', NEW t \in DOMAIN txs, LandExit(t)
  PROVE  IInv'
<1>1. /\ UNCHANGED <<clock, wall, writeCache, calls, editVars, scriptVars>>
      /\ txs[t].status = "flight"
      /\ Len(txs') = Len(txs) /\ DOMAIN txs' = DOMAIN txs
      /\ txs'[t].request = txs[t].request
      /\ \A s \in DOMAIN txs : s # t => txs'[s] = txs[s]
      /\ Landed(t) \/ Refused(t) \/ Lost(t)
  BY LandEffect DEF IInv
<1>2. Exits!TypeOK
  BY DEF ExitsKnown
<1>3. Grown
  BY <1>1 DEF Landed, Refused, Lost, Grown
<1>4. OutcomesKept
  BY <1>1 DEF OutcomesKept
<1>5. /\ \A i \in DOMAIN events : i \in DOMAIN events' /\ events'[i] = events[i]
      /\ Len(events) \in Nat
  BY <1>2, <1>3, EventsStay
<1>6. TxsAreExits'
  <2>1. OwnRequest' = OwnRequest
    BY DEF OwnRequest, Exits!RequestOf, ExitPlan
  <2>2. ASSUME NEW s \in DOMAIN txs, s # t
        PROVE  /\ txs'[s].request = OwnRequest
               /\ txs'[s].status \in {"flight", "dropped", "Ok", "RebalanceTooSoon"}
               /\ txs'[s].status = "Ok" => /\ txs'[s].event \in DOMAIN events'
                                           /\ events'[txs'[s].event].policy = Operator
    BY <1>1, <1>5, <2>2 DEF IInv, TxsAreExits, OwnRequest
  <2>3. /\ txs'[t].request = OwnRequest
        /\ txs'[t].status \in {"flight", "dropped", "Ok", "RebalanceTooSoon"}
        /\ txs'[t].status = "Ok" => /\ txs'[t].event \in DOMAIN events'
                                    /\ events'[txs'[t].event].policy = Operator
    <3>1. txs'[t].request = OwnRequest
      BY <1>1 DEF IInv, TxsAreExits, OwnRequest
    <3>2. CASE Landed(t)
      BY <1>5, <3>1, <3>2 DEF Landed, EventAdded
    <3>3. CASE Refused(t) \/ Lost(t)
      BY <3>1, <3>3 DEF Refused, Lost
    <3>4. QED BY <1>1, <3>2, <3>3
  <2>4. QED BY <1>1, <2>1, <2>2, <2>3 DEF TxsAreExits, OwnRequest
<1>7. \A s \in DOMAIN txs : txs[s].status = "flight" =>
        \/ txs'[s] = txs[s]
        \/ txs'[s].status = "dropped"
        \/ txs'[s].status = "Ok" /\ txs'[s].event = Len(events) + 1
        \/ /\ txs'[s].status = "RebalanceTooSoon"
           /\ \E i \in DOMAIN events : /\ events[i].policy = Operator
                                       /\ clock - events[i].ts < RateLimit
  BY <1>1 DEF Landed, Refused, Lost
<1>8. SetSound'
  BY <1>1, SetStays DEF IInv, scriptVars
<1>9. ClocksAgree' /\ wall <= wall'
  BY <1>1, <1>2, ExitsParts DEF IInv, ClocksAgree
<1>10. UNCHANGED <<script, pc, failure, resume, readCache, verdict, execSig, runs, firstTx,
                   times, calls, writeCache, listener>>
  BY <1>1 DEF scriptVars
<1>11. QED BY <1>1, <1>2, <1>3, <1>4, <1>6, <1>7, <1>8, <1>9, <1>10, WorldPreserves

(* Another client's exit, a tick, and what the listener is told.           *)
LEMMA OthersPreserve ==
  ASSUME IInv, Exits!TypeOK, Exits!TypeOK',
         \/ \E p \in {Operator, Stranger} : AgentExits(p)
         \/ \E i \in DOMAIN events : Capture(i)
         \/ Tick
         \/ UNCHANGED vars
  PROVE  IInv'
<1>1. UNCHANGED <<editVars, script, pc, failure, resume, readCache, verdict, execSig, runs,
                  firstTx, times, calls, writeCache, txs>> /\ Grown
  <2>1. ASSUME NEW p \in {Operator, Stranger}, AgentExits(p)
        PROVE  UNCHANGED <<editVars, scriptVars, calls, writeCache, txs>> /\ Grown
    BY <2>1, AgentEffect DEF Grown
  <2>2. ASSUME NEW i \in DOMAIN events, Capture(i)
        PROVE  UNCHANGED <<editVars, script, pc, failure, resume, readCache, verdict, execSig,
                           runs, firstTx, times, calls, writeCache, txs, events>>
    BY <2>2 DEF Capture, exitVars
  <2>3. CASE Tick
    BY <2>3 DEF Tick, Exits!Tick, Exits!Chain!Tick, Grown, scriptVars
  <2>4. CASE UNCHANGED vars
    BY <2>4 DEF vars, Grown, scriptVars, exitVars
  <2>5. QED BY <2>1, <2>2, <2>3, <2>4 DEF Grown, scriptVars
<1>2. wall <= wall' /\ ClocksAgree'
  <2>1. wall \in Nat /\ clock \in Nat /\ clock = wall /\ wall # 0
    BY ExitsParts DEF IInv, ClocksAgree
  <2>2. ASSUME NEW p \in {Operator, Stranger}, AgentExits(p)
        PROVE  clock' = clock /\ wall' = wall
    BY <2>2, AgentEffect
  <2>3. ASSUME NEW i \in DOMAIN events, Capture(i)
        PROVE  clock' = clock /\ wall' = wall
    BY <2>3 DEF Capture, exitVars
  <2>4. CASE Tick
    BY <2>1, <2>4 DEF Tick, Exits!Tick, Exits!Chain!Tick, ClocksAgree
  <2>5. CASE UNCHANGED vars
    BY <2>1, <2>5 DEF vars, exitVars, ClocksAgree
  <2>6. QED BY <2>1, <2>2, <2>3, <2>4, <2>5 DEF ClocksAgree
<1>3. \/ UNCHANGED listener
      \/ /\ listener.on
         /\ \E i \in listener.from + 1 .. Len(events) :
              listener' = [listener EXCEPT !.captured = i]
  <2>1. ASSUME NEW i \in DOMAIN events, Capture(i)
        PROVE  /\ listener.on /\ i \in listener.from + 1 .. Len(events)
               /\ listener' = [listener EXCEPT !.captured = i]
    <3>1. i \in 1 .. Len(events) /\ Len(events) \in Nat /\ listener.from \in Nat
      BY ExitsParts DEF IInv, ScriptTyped
    <3>2. listener.on /\ i > listener.from /\ listener' = [listener EXCEPT !.captured = i]
      BY <2>1 DEF Capture
    <3>3. QED BY <3>1, <3>2
  <2>2. ASSUME NEW p \in {Operator, Stranger}, AgentExits(p)
        PROVE  UNCHANGED listener
    BY <2>2, AgentEffect DEF scriptVars
  <2>3. CASE Tick
    BY <2>3 DEF Tick, scriptVars
  <2>4. CASE UNCHANGED vars
    BY <2>4 DEF vars, scriptVars
  <2>5. QED BY <2>1, <2>2, <2>3, <2>4
<1>4. TxsAreExits'
  BY <1>1, TxsStay DEF IInv
<1>5. SetSound'
  BY <1>1, SetStays DEF IInv
<1>6. OutcomesKept
  BY <1>1 DEF OutcomesKept
<1>7. QED BY <1>1, <1>2, <1>3, <1>4, <1>5, <1>6, WorldPreserves

-----------------------------------------------------------------------------
(* The steps of the script that neither exit nor repeat the exit.          *)

(* They leave the exits alone.                                             *)
LEMMA WalkKeeps ==
  ASSUME IInv, Exits!TypeOK, failure = "none", pc \notin {0, ExecAt, RepeatAt},
         UNCHANGED <<clock, exitVars, script, execSig, firstTx>>,
         times'["submit"] = times["submit"], times'["execute"] = times["execute"],
         \/ pc' = pc + 1 /\ failure' = "none"
         \/ pc' = pc
  PROVE  ClocksAgree' /\ TxsAreExits' /\ ExecSound' /\ Grown /\ OutcomesKept
<1>1. UNCHANGED <<wall, writeCache, calls, txs, events>>
  BY DEF exitVars
<1>2. ClocksAgree'
  BY <1>1 DEF IInv, ClocksAgree
<1>3. Grown /\ OutcomesKept
  BY <1>1 DEF Grown, OutcomesKept
<1>4. TxsAreExits'
  BY <1>1, <1>3, TxsStay DEF IInv
<1>5. ExecSound'
  BY <1>1, ExecWalks DEF IInv
<1>6. QED BY <1>2, <1>3, <1>4, <1>5

(* Most of them neither touch the listener nor fail because of it.         *)
LEMMA WalkListens ==
  ASSUME IInv, Exits!TypeOK, failure = "none",
         UNCHANGED <<clock, exitVars, script, execSig, firstTx, listener>>,
         times'["subscribe"] = times["subscribe"], times'["event"] = times["event"],
         pc' \in {pc, pc + 1}, failure' # "event", Grown, OutcomesKept
  PROVE  ListenerSound' /\ CapturedIsOwnUnlessSlow'
<1>1. UNCHANGED <<wall, txs>> /\ wall \in Nat
  BY ExitsParts DEF exitVars
<1>2. pc \in Nat
  BY DEF IInv, ScriptTyped, EndAt
<1>3. ListenerSound'
  BY <1>1, <1>2, ListenerStays DEF IInv
<1>4. CapturedIsOwnUnlessSlow'
  BY CapturedStays DEF IInv
<1>5. QED BY <1>3, <1>4

(* The policy is set, and read back.                                       *)
LEMMA PolicyStepsPreserve ==
  ASSUME IInv, EditsKnown, Exits!TypeOK, PolicySet \/ ReadBack
  PROVE  IInv'
<1>1. /\ UNCHANGED <<clock, exitVars, script, resume, readCache, verdict, execSig, listener,
                     runs, firstTx, times>>
      /\ SetSound' /\ failure = "none" /\ pc \in {1, 2}
      /\ \/ pc' = pc + 1 /\ failure' = "none"
         \/ pc' = pc /\ failure' = "set" /\ pc = 1
         \/ /\ pc' = pc /\ failure' \in {"readback", "unread"}
            /\ pc = 2 /\ script = "realclient"
      /\ script = "e2e" => pc = 1
  <2>1. CASE PolicySet
    <3>1. Edits!TypeOK
      BY DEF EditsKnown
    <3>2. /\ SetSound' /\ failure = "none" /\ pc = 1
          /\ \/ pc' = 2 /\ failure' = "none"
             \/ pc' = pc /\ failure' = "set"
      BY <2>1, <3>1, PolicySetSound DEF IInv
    <3>3. UNCHANGED <<clock, exitVars, script, resume, readCache, verdict, execSig, listener,
                      runs, firstTx, times>>
      BY <2>1 DEF PolicySet
    <3>4. QED BY <3>2, <3>3
  <2>2. CASE ReadBack
    <3>1. /\ SetSound' /\ failure = "none" /\ script = "realclient" /\ pc = 2
          /\ \/ pc' = 3 /\ failure' = "none"
             \/ pc' = pc /\ failure' \in {"readback", "unread"}
      BY <2>2, ReadBackSound DEF IInv
    <3>2. UNCHANGED <<clock, exitVars, script, resume, readCache, verdict, execSig, listener,
                      runs, firstTx, times>>
      BY <2>2 DEF ReadBack
    <3>3. QED BY <3>1, <3>2
  <2>3. QED BY <2>1, <2>2
<1>2. pc \notin {0, ExecAt, RepeatAt}
  BY <1>1 DEF ExecAt, RepeatAt
<1>3. ClocksAgree' /\ TxsAreExits' /\ ExecSound' /\ Grown /\ OutcomesKept
  BY <1>1, <1>2, WalkKeeps
<1>4. ListenerSound' /\ CapturedIsOwnUnlessSlow'
  BY <1>1, <1>3, WalkListens
<1>5. ScriptTyped'
  BY <1>1 DEF IInv, ScriptTyped, EndAt, Verdict
<1>6. ReadSound'
  BY <1>1 DEF IInv, ReadSound
<1>7. FailureSound'
  BY <1>1 DEF FailureSound, ExecAt, RepeatAt
<1>8. QED BY <1>1, <1>3, <1>4, <1>5, <1>6, <1>7 DEF IInv

(* The listener is set when the run has not exited anything yet.           *)
LEMMA SubscribePreserves ==
  ASSUME IInv, Exits!TypeOK, Subscribe
  PROVE  IInv'
<1>1. failure = "none" /\ script = "e2e" /\ pc = 2
  BY WalkSteps DEF Subscribe, IInv
<1>2. /\ pc' = 3 /\ failure' = "none"
      /\ UNCHANGED <<clock, editVars, exitVars, script, resume, readCache, verdict, execSig,
                     runs, firstTx>>
  BY <1>1 DEF Subscribe, Pass
<1>3. UNCHANGED <<wall, txs, events>> /\ wall \in Nat
  BY <1>2, ExitsParts DEF exitVars
<1>4. listener' = [on |-> TRUE, from |-> Len(events), captured |-> 0, shown |-> 0]
  BY DEF Subscribe, Deaf
<1>5. times' \in [{"subscribe", "high", "submit", "execute", "event"} -> Nat]
      /\ times'["subscribe"] = wall
      /\ \A s \in {"high", "submit", "execute", "event"} : times'[s] = times[s]
  BY <1>3 DEF Subscribe, IInv, ScriptTyped
<1>6. ClocksAgree' /\ TxsAreExits' /\ ExecSound' /\ Grown /\ OutcomesKept
  <2>1. pc \notin {0, ExecAt, RepeatAt}
    BY <1>1 DEF ExecAt, RepeatAt
  <2>2. QED BY <1>1, <1>2, <1>5, <2>1, WalkKeeps
<1>7. ScriptTyped'
  <2>1. listener' \in [on : BOOLEAN, from : Nat, captured : Nat, shown : Nat]
    BY <1>4, ExitsParts
  <2>2. pc' \in 0 .. EndAt'
    BY <1>1, <1>2 DEF EndAt
  <2>3. QED BY <1>2, <1>5, <2>1, <2>2 DEF IInv, ScriptTyped, Verdict
<1>8. SetSound'
  BY <1>1, <1>2, SetStays DEF IInv
<1>9. ReadSound'
  BY <1>1, <1>2 DEF IInv, ReadSound
<1>10. ListenerSound'
  <2>1. Len(events) \in Nat /\ DOMAIN events = 1 .. Len(events)
    BY ExitsParts
  <2>2. ~ \E i \in DOMAIN events' : i > listener'.from
    BY <1>3, <1>4, <2>1
  <2>3. ~ \E t \in DOMAIN txs' : t >= firstTx'
    <3>1. Untouched
      BY <1>1 DEF IInv, ExecSound, ExecAt
    <3>2. Len(txs) = firstTx - 1 /\ Len(txs) \in Nat /\ DOMAIN txs = 1 .. Len(txs)
          /\ firstTx \in Nat
      BY <3>1, ExitsParts DEF Untouched, IInv, ScriptTyped
    <3>3. QED BY <1>2, <1>3, <3>2
  <2>4. times'["subscribe"] <= wall'
    BY <1>3, <1>5
  <2>5. QED BY <1>1, <1>2, <1>3, <1>4, <2>1, <2>2, <2>3, <2>4 DEF ListenerSound
<1>11. FailureSound'
  BY <1>2 DEF FailureSound
<1>12. CapturedIsOwnUnlessSlow'
  BY <1>4 DEF CapturedIsOwnUnlessSlow
<1>13. QED
  BY <1>6, <1>7, <1>8, <1>9, <1>10, <1>11, <1>12 DEF IInv

(* The low check finds the cache empty, and no breach.                     *)
LEMMA LowCheckPreserves ==
  ASSUME IInv, Exits!TypeOK, LowCheck
  PROVE  IInv'
<1>1. failure = "none" /\ script = "e2e" /\ pc = 3
  BY WalkSteps DEF LowCheck, IInv
<1>2. ~ ReadHit
  BY <1>1 DEF IInv, ReadSound, ReadHit, NoCheck
<1>3. wall \in Nat /\ wall # 0 /\ CacheWait \in Nat
  BY ExitsParts, WaitAssumption DEF IInv, ClocksAgree
<1>4. /\ Check(Low).at = wall /\ ~ Check(Low).result.breached
      /\ Check(Low) \in [at : Nat, result : Verdict]
  <2> DEFINE breached == Low.drawdownBps >= 2500
             score == Low.notionalUSD
  <2>1. breached \in BOOLEAN /\ ~ breached /\ score \in Nat
    BY DEF Low
  <2>2. Check(Low) = [at |-> wall, result |-> [breached |-> breached, score |-> score]]
    BY <1>2 DEF Check
  <2> HIDE DEF breached, score
  <2>3. Check(Low).at = wall /\ ~ Check(Low).result.breached
    BY <2>1, <2>2
  <2>4. Check(Low) \in [at : Nat, result : Verdict]
    BY <1>3, <2>1, <2>2 DEF Verdict
  <2>5. QED BY <2>3, <2>4
<1>5. /\ pc' = 4 /\ failure' = "none" /\ resume' = wall + CacheWait
      /\ readCache' = Check(Low)
      /\ UNCHANGED <<clock, editVars, exitVars, script, verdict, execSig, listener, runs,
                     firstTx, times>>
  BY <1>1, <1>4 DEF LowCheck, PassIf, Pass
<1>6. ClocksAgree' /\ TxsAreExits' /\ ExecSound' /\ Grown /\ OutcomesKept
  <2>1. pc \notin {0, ExecAt, RepeatAt}
    BY <1>1 DEF ExecAt, RepeatAt
  <2>2. QED BY <1>1, <1>5, <2>1, WalkKeeps
<1>7. ListenerSound' /\ CapturedIsOwnUnlessSlow'
  BY <1>1, <1>5, <1>6, WalkListens
<1>8. ScriptTyped'
  <2>1. readCache' \in [at : Nat, result : Verdict] /\ resume' \in Nat
    BY <1>3, <1>4, <1>5
  <2>2. pc' \in 0 .. EndAt'
    BY <1>1, <1>5 DEF EndAt
  <2>3. QED BY <1>5, <2>1, <2>2 DEF IInv, ScriptTyped, Verdict
<1>9. SetSound'
  BY <1>1, <1>5, SetStays DEF IInv
<1>10. ReadSound'
  BY <1>1, <1>3, <1>4, <1>5 DEF ReadSound
<1>11. FailureSound'
  BY <1>5 DEF FailureSound
<1>12. QED
  BY <1>6, <1>7, <1>8, <1>9, <1>10, <1>11 DEF IInv

(* The high check comes when the entry of the low one has expired.         *)
LEMMA HighCheckPreserves ==
  ASSUME IInv, Exits!TypeOK, HighCheck
  PROVE  IInv'
<1>1. failure = "none" /\ script = "e2e" /\ pc = 4
  BY WalkSteps DEF HighCheck, IInv
<1>2. wall \in Nat /\ wall # 0 /\ CacheWait \in Nat /\ ReadThrottle \in Nat
      /\ ReadThrottle <= CacheWait
  BY ExitsParts, WaitAssumption DEF IInv, ClocksAgree
<1>3. ~ ReadHit
  <2>1. readCache.at + CacheWait <= resume /\ resume <= wall
        /\ readCache.at \in Nat /\ resume \in Nat
    BY <1>1, <1>2 DEF IInv, ReadSound, HighCheck, ScriptTyped
  <2>2. ~ (wall - readCache.at < ReadThrottle)
    BY <1>2, <2>1
  <2>3. QED BY <2>2 DEF ReadHit
<1>4. Check(High) = [at |-> wall, result |-> [breached |-> TRUE, score |-> 7500]]
  <2> DEFINE breached == High.drawdownBps >= 2500
             score == High.notionalUSD
  <2>1. breached = TRUE /\ score = 7500
    BY DEF High
  <2>2. Check(High) = [at |-> wall, result |-> [breached |-> breached, score |-> score]]
    BY <1>3 DEF Check
  <2> HIDE DEF breached, score
  <2>3. QED BY <2>1, <2>2
<1>5. /\ pc' = 5 /\ failure' = "none"
      /\ readCache' = [at |-> wall, result |-> [breached |-> TRUE, score |-> 7500]]
      /\ verdict' = [breached |-> TRUE, score |-> 7500]
      /\ times' = [times EXCEPT !["high"] = wall]
      /\ UNCHANGED <<clock, editVars, exitVars, script, resume, execSig, listener, runs, firstTx>>
  BY <1>1, <1>4 DEF HighCheck, PassIf, Pass
<1>6. times' \in [{"subscribe", "high", "submit", "execute", "event"} -> Nat]
      /\ times'["high"] = wall
      /\ \A s \in {"subscribe", "submit", "execute", "event"} : times'[s] = times[s]
  BY <1>2, <1>5 DEF IInv, ScriptTyped
<1>7. ClocksAgree' /\ TxsAreExits' /\ ExecSound' /\ Grown /\ OutcomesKept
  <2>1. pc \notin {0, ExecAt, RepeatAt}
    BY <1>1 DEF ExecAt, RepeatAt
  <2>2. QED BY <1>1, <1>5, <1>6, <2>1, WalkKeeps
<1>8. ListenerSound' /\ CapturedIsOwnUnlessSlow'
  BY <1>1, <1>5, <1>6, <1>7, WalkListens
<1>9. ScriptTyped'
  <2>1. readCache' \in [at : Nat, result : Verdict] /\ verdict' \in Verdict
    BY <1>2, <1>5 DEF Verdict
  <2>2. pc' \in 0 .. EndAt'
    BY <1>1, <1>5 DEF EndAt
  <2>3. QED BY <1>5, <1>6, <2>1, <2>2 DEF IInv, ScriptTyped, Verdict
<1>10. SetSound'
  BY <1>1, <1>5, SetStays DEF IInv
<1>11. ReadSound'
  <2>1. /\ script' = "e2e" /\ pc' = 5 /\ failure' # "again" /\ wall' = wall
        /\ readCache'.at = times'["high"] /\ readCache'.result = verdict'
        /\ times'["high"] # 0 /\ times'["high"] <= wall'
    BY <1>1, <1>2, <1>5, <1>6 DEF exitVars
  <2>2. QED BY <2>1 DEF ReadSound
<1>12. FailureSound'
  BY <1>5 DEF FailureSound
<1>13. QED
  BY <1>7, <1>8, <1>9, <1>10, <1>11, <1>12 DEF IInv

(* The second check gets the first one's answer, or comes too late.        *)
LEMMA CheckAgainPreserves ==
  ASSUME IInv, Exits!TypeOK, CheckAgain
  PROVE  IInv'
<1>1. failure = "none" /\ script = "e2e" /\ pc = 5
  BY WalkSteps DEF CheckAgain, IInv
<1>2. wall \in Nat /\ ReadThrottle \in Nat /\ times["high"] \in Nat
  BY ExitsParts, WaitAssumption DEF IInv, ScriptTyped
<1>3. /\ readCache.at = times["high"] /\ readCache.result = verdict
      /\ times["high"] # 0 /\ times["high"] <= wall
  BY <1>1 DEF IInv, ReadSound
<1>4. /\ UNCHANGED <<clock, editVars, exitVars, script, resume, verdict, execSig, listener,
                     runs, firstTx, times>>
      /\ readCache' = Check(Disregarded)
      /\ \/ pc' = 6 /\ failure' = "none"
         \/ pc' = pc /\ failure' = "again" /\ Check(Disregarded).result # verdict
  BY <1>1 DEF CheckAgain, PassIf, Pass, Fail
<1>5. failure' = "again" => wall - times["high"] >= ReadThrottle
  <2>1. CASE ReadHit
    BY <1>3, <1>4, <2>1 DEF Check
  <2>2. CASE ~ ReadHit
    <3>1. ~ (wall - times["high"] < ReadThrottle)
      BY <1>3, <2>2 DEF ReadHit
    <3>2. QED BY <1>2, <3>1
  <2>3. QED BY <2>1, <2>2
<1>6. ClocksAgree' /\ TxsAreExits' /\ ExecSound' /\ Grown /\ OutcomesKept
  <2>1. pc \notin {0, ExecAt, RepeatAt}
    BY <1>1 DEF ExecAt, RepeatAt
  <2>2. QED BY <1>1, <1>4, <2>1, WalkKeeps
<1>7. ListenerSound' /\ CapturedIsOwnUnlessSlow'
  BY <1>1, <1>4, <1>6, WalkListens
<1>8. ScriptTyped'
  <2>1. readCache' \in [at : Nat, result : Verdict]
    <3>1. CASE ReadHit
      BY <1>4, <3>1 DEF Check, IInv, ScriptTyped
    <3>2. CASE ~ ReadHit
      <4>1. Disregarded.drawdownBps = 100 /\ Disregarded.notionalUSD = 999999
        BY DEF Disregarded
      <4>2. readCache' = [at |-> wall, result |-> [breached |-> Disregarded.drawdownBps >= 2500,
                                                   score |-> Disregarded.notionalUSD]]
        BY <1>4, <3>2 DEF Check
      <4>3. QED BY <1>2, <4>1, <4>2 DEF Verdict
    <3>3. QED BY <3>1, <3>2
  <2>2. pc' \in 0 .. EndAt'
    BY <1>1, <1>4 DEF EndAt
  <2>3. QED BY <1>4, <2>1, <2>2 DEF IInv, ScriptTyped, Verdict
<1>9. SetSound'
  BY <1>1, <1>4, SetStays DEF IInv
<1>10. ReadSound'
  BY <1>1, <1>3, <1>4, <1>5 DEF ReadSound, exitVars
<1>11. FailureSound'
  BY <1>1, <1>4 DEF FailureSound
<1>12. QED
  BY <1>6, <1>7, <1>8, <1>9, <1>10, <1>11 DEF IInv

(* After the exit its event is in the log, and its account exists.         *)
LEMMA ExitIsKnown ==
  ASSUME ExitsKnown, TxsAreExits, Exited
  PROVE  /\ Operator \in initialized
         /\ txs[execSig].event \in DOMAIN events
         /\ events[txs[execSig].event].policy = Operator
<1>1. execSig \in DOMAIN txs /\ txs[execSig].status = "Ok"
  BY DEF Exited
<1>2. /\ txs[execSig].event \in DOMAIN events
      /\ events[txs[execSig].event].policy = Operator
  BY <1>1 DEF TxsAreExits
<1>3. events[txs[execSig].event].policy \in initialized
  BY <1>2 DEF ExitsKnown, Exits!Chain!AnchorIsLastEvent
<1>4. QED BY <1>2, <1>3

(* Two exits of the operator's policy since the subscription: either it is *)
(* the same one, or a window has passed.                                   *)
LEMMA SameUnlessSlow ==
  ASSUME ExitsKnown, ListenerSound, ScriptTyped, ClocksAgree, listener.on,
         NEW i \in DOMAIN events, NEW j \in DOMAIN events,
         i > listener.from, j > listener.from,
         events[i].policy = Operator, events[j].policy = Operator
  PROVE  i = j \/ wall - times["subscribe"] >= RateLimit
<1>1. Exits!TypeOK
  BY DEF ExitsKnown
<1>2. /\ DOMAIN events = 1 .. Len(events) /\ Len(events) \in Nat
      /\ events[i].ts \in Nat /\ events[j].ts \in Nat /\ wall \in Nat
  BY <1>1, ExitsParts
<1>3. times["subscribe"] \in Nat /\ RateLimit \in Nat
  BY ExitsAssumption DEF ScriptTyped
<1>4. /\ events[i].ts >= times["subscribe"] /\ events[j].ts >= times["subscribe"]
      /\ events[i].ts <= wall /\ events[j].ts <= wall
  BY DEF ListenerSound, ExitsKnown, ClocksAgree
<1>5. /\ i < j => events[j].ts - events[i].ts >= RateLimit
      /\ j < i => events[i].ts - events[j].ts >= RateLimit
  BY DEF ExitsKnown, Exits!NoDoubleSwap, Exits!Chain!SpacedExecutions
<1>6. i \in Nat /\ j \in Nat
  BY <1>2
<1>7. CASE i < j
  BY <1>2, <1>3, <1>4, <1>5, <1>7
<1>8. CASE j < i
  BY <1>2, <1>3, <1>4, <1>5, <1>8
<1>9. QED BY <1>6, <1>7, <1>8

(* The event that is shown is of the operator's policy, hence the run's    *)
(* own, or the run took the whole window.                                  *)
LEMMA CheckEventPreserves ==
  ASSUME IInv, ExitsKnown, CheckEvent
  PROVE  IInv'
<1>1. failure = "none" /\ script = "e2e" /\ pc = 7
  BY WalkSteps DEF CheckEvent, IInv
<1>2. Exits!TypeOK
  BY DEF ExitsKnown
<1>3. /\ UNCHANGED <<clock, editVars, exitVars, script, resume, readCache, verdict, execSig,
                     runs, firstTx>>
      /\ times' = [times EXCEPT !["event"] = wall]
      /\ listener' = [listener EXCEPT !.shown = listener.captured]
      /\ \/ pc' = 8 /\ failure' = "none"
            /\ (listener.captured # 0 => events[listener.captured].policy = Operator)
         \/ pc' = 7 /\ failure' = "event" /\ listener.captured # 0
            /\ events[listener.captured].policy # Operator
         \/ pc' = 7 /\ failure' = "silence" /\ listener.captured = 0
  BY <1>1 DEF CheckEvent, PassIf, Pass, Fail, EventFits
<1>4. UNCHANGED <<wall, txs, events>> /\ wall \in Nat
  BY <1>2, <1>3, ExitsParts DEF exitVars
<1>5. /\ listener' \in [on : BOOLEAN, from : Nat, captured : Nat, shown : Nat]
      /\ listener'.on = listener.on /\ listener'.from = listener.from
      /\ listener'.captured = listener.captured /\ listener'.shown = listener.captured
  BY <1>3 DEF IInv, ScriptTyped
<1>6. times' \in [{"subscribe", "high", "submit", "execute", "event"} -> Nat]
      /\ times'["event"] = wall
      /\ \A s \in {"subscribe", "high", "submit", "execute"} : times'[s] = times[s]
  BY <1>3, <1>4 DEF IInv, ScriptTyped
<1>7. ClocksAgree' /\ TxsAreExits' /\ ExecSound' /\ Grown /\ OutcomesKept
  <2>1. pc \notin {0, ExecAt, RepeatAt}
    BY <1>1 DEF ExecAt, RepeatAt
  <2>2. \/ pc' = pc + 1 /\ failure' = "none"
        \/ pc' = pc
    BY <1>1, <1>3
  <2>3. QED BY <1>1, <1>2, <1>3, <1>6, <2>1, <2>2, WalkKeeps
<1>8. ScriptTyped'
  <2>1. pc' \in 0 .. EndAt'
    BY <1>1, <1>3 DEF EndAt
  <2>2. QED BY <1>3, <1>5, <1>6, <2>1 DEF IInv, ScriptTyped, Verdict
<1>9. SetSound'
  BY <1>1, <1>3, SetStays DEF IInv
<1>10. ReadSound'
  BY <1>1, <1>3 DEF ReadSound
<1>11. listener.captured # 0 =>
         /\ listener.on
         /\ listener.captured \in DOMAIN events /\ listener.captured > listener.from
  <2> SUFFICES ASSUME listener.captured # 0
               PROVE  /\ listener.on
                      /\ listener.captured \in DOMAIN events
                      /\ listener.captured > listener.from
    OBVIOUS
  <2>1. listener.on
    BY DEF IInv, ListenerSound, ScriptTyped, Deaf
  <2>2. listener.captured \in listener.from + 1 .. Len(events) /\ listener.from \in Nat
    BY <2>1 DEF IInv, ListenerSound, ScriptTyped
  <2>3. DOMAIN events = 1 .. Len(events) /\ Len(events) \in Nat
    BY <1>2, ExitsParts
  <2>4. QED BY <2>1, <2>2, <2>3
<1>12. ListenerSound'
  <2>1. failure' = "event" =>
          \E i \in DOMAIN events' : i > listener'.from /\ events'[i].policy = Stranger
    <3> SUFFICES ASSUME failure' = "event"
                 PROVE  \E i \in DOMAIN events' : i > listener'.from /\ events'[i].policy = Stranger
      OBVIOUS
    <3>1. listener.captured # 0 /\ events[listener.captured].policy # Operator
      BY <1>3
    <3>2. events[listener.captured].policy = Stranger
      BY <1>2, <1>11, <3>1, ExitsParts
    <3>3. QED BY <1>4, <1>5, <1>11, <3>1, <3>2
  <2>2. pc' >= 7 /\ pc' > 2
    BY <1>3
  <2>3. ~ listener.on => listener' = Deaf
    <3> SUFFICES ASSUME ~ listener.on
                 PROVE  listener' = Deaf
      OBVIOUS
    <3>1. listener = [on |-> FALSE, from |-> 0, captured |-> 0, shown |-> 0]
      BY DEF IInv, ListenerSound, Deaf
    <3>2. listener' = listener
      BY <1>3, <3>1
    <3>3. QED BY <3>1, <3>2 DEF Deaf
  <2>4. Deaf' = Deaf
    BY DEF Deaf
  <2>5. ASSUME listener.on
        PROVE  /\ script' = "e2e"
               /\ listener'.from \in 0 .. Len(events')
               /\ \A i \in DOMAIN events' : i > listener'.from =>
                    events'[i].ts >= times'["subscribe"]
               /\ \A t \in DOMAIN txs' : t >= firstTx' /\ txs'[t].status = "Ok" =>
                    txs'[t].event > listener'.from
               /\ times'["subscribe"] <= wall'
               /\ listener'.captured \in {0} \cup listener'.from + 1 .. Len(events')
    BY <1>1, <1>3, <1>4, <1>5, <1>6, <2>5 DEF IInv, ListenerSound
  <2>6. QED BY <1>5, <2>1, <2>2, <2>3, <2>4, <2>5 DEF ListenerSound
<1>13. FailureSound'
  BY <1>1, <1>3 DEF FailureSound
<1>14. CapturedIsOwnUnlessSlow'
  <2> SUFFICES ASSUME listener.captured # 0, failure' # "event"
               PROVE  \/ listener.captured = txs[execSig].event
                      \/ wall - times["subscribe"] >= RateLimit
    BY <1>3, <1>4, <1>5, <1>6 DEF CapturedIsOwnUnlessSlow
  <2>1. events[listener.captured].policy = Operator
    BY <1>3
  <2>2. Exited
    BY <1>1 DEF IInv, ExecSound, ExecAt
  <2>3. /\ txs[execSig].event \in DOMAIN events
        /\ events[txs[execSig].event].policy = Operator
    BY <2>2, ExitIsKnown DEF IInv
  <2>4. txs[execSig].event > listener.from
    <3>1. execSig \in DOMAIN txs /\ execSig >= firstTx /\ txs[execSig].status = "Ok"
      BY <2>2 DEF Exited, IInv, ScriptTyped
    <3>2. QED BY <1>11, <3>1 DEF IInv, ListenerSound
  <2>5. QED BY <1>11, <2>1, <2>3, <2>4, SameUnlessSlow DEF IInv
<1>15. QED
  BY <1>7, <1>8, <1>9, <1>10, <1>12, <1>13, <1>14 DEF IInv

(* The account is there, if it can be read, and delegateToGuardian throws. *)
LEMMA LastStepsPreserve ==
  ASSUME IInv, ExitsKnown, CheckAccount \/ Delegate
  PROVE  IInv'
<1>1. Exits!TypeOK
  BY DEF ExitsKnown
<1>2. /\ UNCHANGED <<clock, editVars, exitVars, script, resume, readCache, verdict, execSig,
                     listener, runs, firstTx, times>>
      /\ failure = "none"
      /\ \/ pc' = pc + 1 /\ failure' = "none"
         \/ pc' = pc /\ failure' = "unread"
      /\ \/ script = "realclient" /\ pc = 4
         \/ script = "e2e" /\ pc = 9
  <2>1. CASE CheckAccount
    <3>1. failure = "none" /\ script = "realclient" /\ pc = 4
      BY <2>1, WalkSteps DEF CheckAccount, IInv
    <3>2. Exited
      BY <3>1 DEF IInv, ExecSound, ExecAt
    <3>3. Operator \in initialized
      BY <3>2, ExitIsKnown DEF IInv
    <3>4. QED BY <2>1, <3>1, <3>3 DEF CheckAccount, PassIf, Pass, Unreadable, Fail
  <2>2. CASE Delegate
    <3>1. failure = "none" /\ script = "e2e" /\ pc = 9
      BY <2>2, WalkSteps DEF Delegate, IInv
    <3>2. QED BY <2>2, <3>1 DEF Delegate, delegateToGuardian, PassIf, Pass
  <2>3. QED BY <2>1, <2>2
<1>3. ClocksAgree' /\ TxsAreExits' /\ ExecSound' /\ Grown /\ OutcomesKept
  <2>1. pc \notin {0, ExecAt, RepeatAt}
    BY <1>2 DEF ExecAt, RepeatAt
  <2>2. QED BY <1>1, <1>2, <2>1, WalkKeeps
<1>4. ListenerSound' /\ CapturedIsOwnUnlessSlow'
  BY <1>1, <1>2, <1>3, WalkListens
<1>5. ScriptTyped'
  BY <1>2 DEF IInv, ScriptTyped, EndAt, Verdict
<1>6. SetSound'
  BY <1>2, SetStays DEF IInv
<1>7. ReadSound'
  BY <1>2 DEF ReadSound
<1>8. FailureSound'
  BY <1>2 DEF FailureSound
<1>9. QED BY <1>3, <1>4, <1>5, <1>6, <1>7, <1>8 DEF IInv

-----------------------------------------------------------------------------
(* The steps of the script that start a run, exit and repeat the exit.     *)

(* A run starts.                                                           *)
LEMMA StartPreserves ==
  ASSUME IInv, Exits!TypeOK, Start
  PROVE  IInv'
<1>1. /\ ChainKept /\ UNCHANGED <<txs, editVars, script>>
      /\ calls'[Script].phase = "idle"
      /\ \A p \in {Operator, Stranger} : writeCache'[Script][p].lastTxSig = 0
      /\ pc' = 1 /\ failure' = "none" /\ resume' = 0
      /\ readCache' = NoCheck /\ verdict' = NoVerdict
      /\ execSig' = 0 /\ listener' = Deaf /\ runs < MaxRuns /\ runs' = runs + 1
      /\ firstTx' = Len(txs) + 1 /\ times' = Unpassed
  BY StartEffect
<1>2. Len(txs) \in Nat /\ runs \in Nat /\ MaxRuns \in Nat
  BY ExitsParts, ExitsAssumption DEF IInv, ScriptTyped
<1>3. ScriptTyped'
  <2>1. /\ readCache' \in [at : Nat, result : Verdict] /\ verdict' \in Verdict
        /\ listener' \in [on : BOOLEAN, from : Nat, captured : Nat, shown : Nat]
        /\ times' \in [{"subscribe", "high", "submit", "execute", "event"} -> Nat]
    BY <1>1 DEF NoCheck, NoVerdict, Verdict, Deaf, Unpassed
  <2>2. pc' \in 0 .. EndAt' /\ resume' \in Nat /\ execSig' \in Nat
        /\ runs' \in 0 .. MaxRuns /\ firstTx' \in Nat \ {0}
    BY <1>1, <1>2 DEF EndAt
  <2>3. QED BY <1>1, <2>1, <2>2 DEF IInv, ScriptTyped, Verdict
<1>4. ClocksAgree'
  BY <1>1 DEF IInv, ClocksAgree, ChainKept
<1>5. SetSound'
  BY <1>1, SetStays DEF IInv
<1>6. ReadSound'
  BY <1>1 DEF ReadSound, NoCheck
<1>7. TxsAreExits'
  BY <1>1, TxsStay DEF IInv, Grown, ChainKept
<1>8. ExecSound'
  <2>1. Untouched'
    BY <1>1, <1>2 DEF Untouched
  <2>2. ExecAt' \in {3, 6} /\ RepeatAt' \in {5, 8}
    BY DEF ExecAt, RepeatAt
  <2>3. QED BY <1>1, <2>1, <2>2 DEF ExecSound
<1>9. ListenerSound'
  BY <1>1 DEF ListenerSound, Deaf
<1>10. FailureSound'
  BY <1>1 DEF FailureSound
<1>11. CapturedIsOwnUnlessSlow'
  BY <1>1 DEF CapturedIsOwnUnlessSlow, Deaf
<1>12. QED
  BY <1>3, <1>4, <1>5, <1>6, <1>7, <1>8, <1>9, <1>10, <1>11 DEF IInv

(* A submission adds a transaction that is in flight.                      *)
LEMMA SubmitKeeps ==
  ASSUME IInv, Exits!TypeOK, Exits!Submit(Script, ExitPlan(Operator))
  PROVE  /\ ChainKept /\ TxsAreExits' /\ OutcomesKept /\ Grown
         /\ \A t \in DOMAIN txs' : txs'[t].status = "Ok" => t \in DOMAIN txs /\ txs'[t] = txs[t]
<1>1. /\ ChainKept
      /\ DOMAIN txs' = 1 .. Len(txs) + 1
      /\ \A t \in DOMAIN txs : txs'[t] = txs[t]
      /\ txs'[Len(txs) + 1].request = OwnRequest
      /\ txs'[Len(txs) + 1].status = "flight"
  BY SubmitEffect
<1>2. UNCHANGED events /\ DOMAIN txs = 1 .. Len(txs) /\ Len(txs) \in Nat
  BY <1>1, ExitsParts DEF ChainKept
<1>3. OwnRequest' = OwnRequest
  BY DEF OwnRequest, Exits!RequestOf, ExitPlan
<1>4. \A t \in DOMAIN txs' : t \in DOMAIN txs \/ t = Len(txs) + 1
  BY <1>1, <1>2
<1>5. TxsAreExits'
  <2>1. \A t \in DOMAIN txs :
          /\ txs[t].request = OwnRequest
          /\ txs[t].status \in {"flight", "dropped", "Ok", "RebalanceTooSoon"}
          /\ txs[t].status = "Ok" => /\ txs[t].event \in DOMAIN events
                                     /\ events[txs[t].event].policy = Operator
    BY DEF IInv, TxsAreExits, OwnRequest
  <2>2. \A t \in DOMAIN txs' :
          /\ txs'[t].request = OwnRequest
          /\ txs'[t].status \in {"flight", "dropped", "Ok", "RebalanceTooSoon"}
          /\ txs'[t].status = "Ok" => /\ txs'[t].event \in DOMAIN events'
                                      /\ events'[txs'[t].event].policy = Operator
    BY <1>1, <1>2, <1>4, <2>1
  <2>3. QED BY <1>3, <2>2 DEF TxsAreExits, OwnRequest
<1>6. OutcomesKept /\ Grown
  BY <1>1, <1>2 DEF OutcomesKept, Grown
<1>7. \A t \in DOMAIN txs' : txs'[t].status = "Ok" => t \in DOMAIN txs /\ txs'[t] = txs[t]
  BY <1>1, <1>4
<1>8. QED BY <1>1, <1>5, <1>6, <1>7

(* An answer adds none.                                                    *)
LEMMA AnswerKeeps ==
  ASSUME IInv, Exits!TypeOK, ChainKept, UNCHANGED txs
  PROVE  /\ TxsAreExits' /\ OutcomesKept /\ Grown
         /\ \A t \in DOMAIN txs' : txs'[t].status = "Ok" => t \in DOMAIN txs /\ txs'[t] = txs[t]
<1>1. Grown /\ OutcomesKept
  BY DEF Grown, OutcomesKept, ChainKept
<1>2. TxsAreExits'
  BY <1>1, TxsStay DEF IInv
<1>3. QED BY <1>1, <1>2

(* In both calls the rest stays as it was.                                 *)
LEMMA CallKeeps ==
  ASSUME IInv, Exits!TypeOK, ChainKept, Grown, OutcomesKept,
         \A t \in DOMAIN txs' : txs'[t].status = "Ok" => t \in DOMAIN txs /\ txs'[t] = txs[t],
         UNCHANGED <<editVars, script, readCache, verdict, listener, runs, firstTx>>,
         times'["subscribe"] = times["subscribe"], times'["event"] = times["event"],
         failure = "none", failure' \notin {"event", "readback"},
         listener.shown # 0 => execSig' = execSig,
         pc \in {ExecAt, RepeatAt}, pc' \in {pc, pc + 1}
  PROVE  /\ ClocksAgree' /\ SetSound' /\ ReadSound' /\ ListenerSound'
         /\ CapturedIsOwnUnlessSlow'
<1>1. wall' = wall /\ clock' = clock /\ wall \in Nat
  BY ExitsParts DEF ChainKept
<1>2. \/ script = "e2e" /\ pc >= 6
      \/ script = "realclient" /\ pc >= 3
  BY DEF IInv, ScriptTyped, ExecAt, RepeatAt
<1>3. pc \in Nat /\ pc' \in Nat /\ pc <= pc'
  BY DEF IInv, ScriptTyped, EndAt
<1>4. ClocksAgree'
  BY <1>1 DEF IInv, ClocksAgree
<1>5. SetSound'
  BY <1>2, <1>3, SetStays DEF IInv
<1>6. ReadSound'
  BY <1>2, <1>3 DEF ReadSound
<1>7. ListenerSound'
  BY <1>1, <1>3, ListenerStays DEF IInv
<1>8. CapturedIsOwnUnlessSlow'
  BY CapturedStays DEF IInv
<1>9. QED BY <1>4, <1>5, <1>6, <1>7, <1>8

(* The exit is submitted.                                                  *)
LEMMA ExecutePreserves ==
  ASSUME IInv, Exits!TypeOK, Execute
  PROVE  IInv'
<1>1. Exits!Submit(Script, ExitPlan(Operator)) /\ failure = "none" /\ pc = ExecAt
  BY WalkSteps DEF Execute, IInv
<1>2. /\ ChainKept /\ TxsAreExits' /\ OutcomesKept /\ Grown
      /\ \A t \in DOMAIN txs' : txs'[t].status = "Ok" => t \in DOMAIN txs /\ txs'[t] = txs[t]
  BY <1>1, SubmitKeeps
<1>3. /\ UNCHANGED <<editVars, script, pc, failure, resume, readCache, verdict, execSig,
                     listener, runs, firstTx>>
      /\ times' = [times EXCEPT !["submit"] = wall]
  BY DEF Execute
<1>4. times' \in [{"subscribe", "high", "submit", "execute", "event"} -> Nat]
      /\ times'["subscribe"] = times["subscribe"] /\ times'["event"] = times["event"]
  BY <1>3, ExitsParts DEF IInv, ScriptTyped
<1>5. /\ ClocksAgree' /\ SetSound' /\ ReadSound' /\ ListenerSound'
      /\ CapturedIsOwnUnlessSlow'
  BY <1>1, <1>2, <1>3, <1>4, CallKeeps
<1>6. ScriptTyped'
  BY <1>3, <1>4 DEF IInv, ScriptTyped, EndAt, Verdict
<1>7. ExecSound'
  BY ExecuteSound DEF IInv
<1>8. FailureSound'
  BY <1>3 DEF IInv, FailureSound, ExecAt, RepeatAt
<1>9. QED BY <1>2, <1>5, <1>6, <1>7, <1>8 DEF IInv

(* The exit is answered.                                                   *)
LEMMA ExecutedPreserves ==
  ASSUME IInv, Exits!TypeOK, Executed
  PROVE  IInv'
<1>1. /\ ExecSound' /\ ChainKept /\ UNCHANGED txs
      /\ failure = "none" /\ pc = ExecAt
      /\ \/ pc' = pc + 1 /\ failure' = "none" /\ execSig' = firstTx
         \/ pc' = pc /\ failure' = "execute" /\ execSig' = 0
  BY ExecutedSound DEF IInv
<1>2. /\ TxsAreExits' /\ OutcomesKept /\ Grown
      /\ \A t \in DOMAIN txs' : txs'[t].status = "Ok" => t \in DOMAIN txs /\ txs'[t] = txs[t]
  BY <1>1, AnswerKeeps
<1>3. /\ UNCHANGED <<editVars, script, readCache, verdict, listener, runs, firstTx>>
      /\ times' = [times EXCEPT !["execute"] = wall] /\ resume' = wall + EventWait
  BY DEF Executed
<1>4. wall \in Nat /\ EventWait \in Nat
  BY ExitsParts, WaitAssumption
<1>5. times' \in [{"subscribe", "high", "submit", "execute", "event"} -> Nat]
      /\ times'["subscribe"] = times["subscribe"] /\ times'["event"] = times["event"]
  BY <1>3, <1>4 DEF IInv, ScriptTyped
<1>6. listener.shown = 0
  BY <1>1 DEF IInv, ListenerSound, ExecAt, ScriptTyped
<1>7. /\ ClocksAgree' /\ SetSound' /\ ReadSound' /\ ListenerSound'
      /\ CapturedIsOwnUnlessSlow'
  BY <1>1, <1>2, <1>3, <1>5, <1>6, CallKeeps
<1>8. ScriptTyped'
  <2>1. pc' \in 0 .. EndAt'
    BY <1>1, <1>3 DEF IInv, ScriptTyped, EndAt, ExecAt
  <2>2. resume' \in Nat /\ execSig' \in Nat
    BY <1>1, <1>3, <1>4 DEF IInv, ScriptTyped
  <2>3. QED BY <1>3, <1>5, <2>1, <2>2 DEF IInv, ScriptTyped, Verdict
<1>9. FailureSound'
  <2>1. pc # 0 /\ ExecAt' = ExecAt
    BY <1>1, <1>3 DEF ExecAt
  <2>2. QED BY <1>1, <2>1 DEF FailureSound
<1>10. QED BY <1>1, <1>2, <1>7, <1>8, <1>9 DEF IInv

(* The exit is asked for again.                                            *)
LEMMA RepeatPreserves ==
  ASSUME IInv, Exits!TypeOK, Repeat
  PROVE  IInv'
<1>1. /\ ExecSound' /\ ChainKept
      /\ failure = "none" /\ pc = RepeatAt
      /\ \/ pc' = pc /\ failure' = "none"
         \/ pc' = pc + 1 /\ failure' = "none"
         \/ pc' = pc /\ failure' = "repeat"
  BY RepeatSound DEF IInv
<1>2. /\ TxsAreExits' /\ OutcomesKept /\ Grown
      /\ \A t \in DOMAIN txs' : txs'[t].status = "Ok" => t \in DOMAIN txs /\ txs'[t] = txs[t]
  <2>1. CASE Exits!Submit(Script, ExitPlan(Operator))
    BY <2>1, SubmitKeeps
  <2>2. CASE Exits!Shortcut(Script, ExitPlan(Operator))
    BY <1>1, <2>2, ShortcutEffect, AnswerKeeps
  <2>3. CASE Exits!Settle(Script)
    BY <1>1, <2>3, SettleEffect, AnswerKeeps
  <2>4. QED BY <2>1, <2>2, <2>3 DEF Repeat
<1>3. UNCHANGED <<editVars, script, resume, readCache, verdict, execSig, listener, runs,
                  firstTx, times>>
  BY DEF Repeat
<1>4. /\ ClocksAgree' /\ SetSound' /\ ReadSound' /\ ListenerSound'
      /\ CapturedIsOwnUnlessSlow'
  BY <1>1, <1>2, <1>3, CallKeeps
<1>5. ScriptTyped'
  <2>1. pc' \in 0 .. EndAt'
    BY <1>1, <1>3 DEF IInv, ScriptTyped, EndAt, RepeatAt
  <2>2. QED BY <1>3, <2>1 DEF IInv, ScriptTyped, Verdict
<1>6. FailureSound'
  <2>1. pc # 0 /\ RepeatAt' = RepeatAt
    BY <1>1, <1>3 DEF RepeatAt
  <2>2. QED BY <1>1, <2>1 DEF FailureSound
<1>7. QED BY <1>1, <1>2, <1>4, <1>5, <1>6 DEF IInv

-----------------------------------------------------------------------------
(* The invariant and the properties.                                       *)

(* Before the first run.                                                   *)
LEMMA InitIInv == Init => IInv
<1> SUFFICES ASSUME Init
             PROVE  IInv
  OBVIOUS
<1>1. /\ pc = 0 /\ failure = "none" /\ resume = 0 /\ readCache = NoCheck
      /\ verdict = NoVerdict /\ execSig = 0 /\ listener = Deaf /\ runs = 0 /\ firstTx = 1
      /\ times = Unpassed /\ script \in {"e2e", "realclient"}
  BY DEF Init
<1>2. Exits!Init /\ Edits!Init
  BY DEF Init
<1>3. /\ clock = StartTime /\ wall = StartTime /\ txs = <<>> /\ events = <<>>
      /\ calls[Script].phase = "idle"
      /\ \A p \in {Operator, Stranger} : writeCache[Script][p].lastTxSig = 0
  BY <1>2 DEF Exits!Init, Exits!Chain!Init, Exits!Settled, Exits!NoEntry
<1>4. edits[Script].phase = "idle" /\ landed = <<>>
  BY <1>2 DEF Edits!Init, Edits!Idle
<1>5. ScriptTyped
  <2>1. MaxRuns \in Nat
    BY ExitsAssumption
  <2>2. QED
    BY <1>1, <2>1 DEF ScriptTyped, EndAt, NoCheck, NoVerdict, Verdict, Deaf, Unpassed
<1>6. ClocksAgree
  BY <1>3, ExitsAssumption DEF ClocksAgree
<1>7. SetSound
  BY <1>1, <1>4 DEF SetSound
<1>8. ReadSound
  BY <1>1 DEF ReadSound
<1>9. TxsAreExits
  BY <1>3 DEF TxsAreExits
<1>10. ExecSound
  <2>1. Untouched
    BY <1>1, <1>3 DEF Untouched
  <2>2. ExecAt \in {3, 6} /\ RepeatAt \in {5, 8}
    BY DEF ExecAt, RepeatAt
  <2>3. QED BY <1>1, <2>1, <2>2 DEF ExecSound
<1>11. ListenerSound
  BY <1>1 DEF ListenerSound, Deaf
<1>12. FailureSound
  BY <1>1 DEF FailureSound
<1>13. CapturedIsOwnUnlessSlow
  BY <1>1 DEF CapturedIsOwnUnlessSlow, Deaf
<1>14. QED
  BY <1>5, <1>6, <1>7, <1>8, <1>9, <1>10, <1>11, <1>12, <1>13 DEF IInv

(* Every step of Next, and stuttering.                                     *)
LEMMA StepIInv ==
  ASSUME IInv, EditsKnown, ExitsKnown, [Next]_vars
  PROVE  IInv'
<1>1. Edits!TypeOK /\ Exits!TypeOK
  BY DEF EditsKnown, ExitsKnown
<1>2. Exits!TypeOK'
  BY <1>1, ExitsStayTyped
<1>3. CASE Start
  BY <1>1, <1>3, StartPreserves
<1>4. CASE PolicySet \/ ReadBack
  BY <1>1, <1>4, PolicyStepsPreserve
<1>5. CASE Subscribe
  BY <1>1, <1>5, SubscribePreserves
<1>6. CASE LowCheck
  BY <1>1, <1>6, LowCheckPreserves
<1>7. CASE HighCheck
  BY <1>1, <1>7, HighCheckPreserves
<1>8. CASE CheckAgain
  BY <1>1, <1>8, CheckAgainPreserves
<1>9. CASE Execute
  BY <1>1, <1>9, ExecutePreserves
<1>10. CASE Executed
  BY <1>1, <1>10, ExecutedPreserves
<1>11. CASE CheckEvent
  BY <1>11, CheckEventPreserves
<1>12. CASE CheckAccount \/ Delegate
  BY <1>12, LastStepsPreserve
<1>13. CASE Repeat
  BY <1>1, <1>13, RepeatPreserves
<1>14. CASE SetPolicy \/ Edit \/ \E t \in DOMAIN editTxs : LandEdit(t)
  BY <1>1, <1>2, <1>14, EditsPreserve
<1>15. CASE \E t \in DOMAIN txs : LandExit(t)
  BY <1>2, <1>15, LandPreserves
<1>16. CASE \/ \E p \in {Operator, Stranger} : AgentExits(p)
            \/ \E i \in DOMAIN events : Capture(i)
            \/ Tick
            \/ UNCHANGED vars
  BY <1>1, <1>2, <1>16, OthersPreserve
<1>17. QED
  BY <1>3, <1>4, <1>5, <1>6, <1>7, <1>8, <1>9, <1>10, <1>11, <1>12, <1>13, <1>14, <1>15,
     <1>16 DEF Next

(* The invariant, with what is known of the account and of the exits.      *)
LEMMA Invariance == Spec => [](IInv /\ EditsKnown /\ ExitsKnown)
<1>1. IInv /\ EditsKnown /\ ExitsKnown /\ [Next]_vars => IInv'
  BY StepIInv
<1>2. QED BY <1>1, InitIInv, EditsAreKnown, ExitsAreKnown, PTL DEF Spec

(* Types.                                                                  *)
THEOREM TypeCorrect == Spec => []TypeOK
<1>1. ASSUME IInv, EditsKnown, ExitsKnown
      PROVE  TypeOK
  <2>1. Edits!TypeOK /\ Exits!TypeOK
    BY <1>1 DEF EditsKnown, ExitsKnown
  <2>2. ScriptTyped
    BY <1>1 DEF IInv
  <2>3. pc \in 0 .. Len(Walk) + 1
    BY <2>2, WalkSteps DEF ScriptTyped, EndAt
  <2>4. execSig \in 0 .. Len(txs)
    <3>1. Len(txs) \in Nat /\ DOMAIN txs = 1 .. Len(txs)
      BY <2>1, ExitsParts
    <3>2. CASE pc <= ExecAt
      BY <1>1, <3>1, <3>2 DEF IInv, ExecSound
    <3>3. CASE pc > ExecAt
      <4>1. execSig \in DOMAIN txs
        BY <1>1, <3>3 DEF IInv, ExecSound, Exited
      <4>2. QED BY <3>1, <4>1
    <3>4. QED BY <2>2, <3>2, <3>3 DEF ScriptTyped, EndAt, ExecAt
  <2>5. listener.captured \in 0 .. Len(events)
    <3>1. Len(events) \in Nat
      BY <2>1, ExitsParts
    <3>2. CASE listener.on
      BY <1>1, <2>2, <3>1, <3>2 DEF IInv, ListenerSound, ScriptTyped
    <3>3. CASE ~ listener.on
      BY <1>1, <3>1, <3>3 DEF IInv, ListenerSound, Deaf
    <3>4. QED BY <3>2, <3>3
  <2>6. failure \in {"none", "set", "readback", "unread", "low", "high", "again", "execute",
                     "event", "silence", "account", "repeat", "delegate"}
    BY <1>1 DEF IInv, FailureSound
  <2>7. readCache.at \in Nat /\ readCache.result.breached \in BOOLEAN /\ verdict.score \in Nat
    BY <2>2 DEF ScriptTyped, Verdict
  <2>8. listener.on \in BOOLEAN /\ runs \in 0 .. MaxRuns /\ script \in {"e2e", "realclient"}
    BY <2>2 DEF ScriptTyped
  <2>9. times \in [DOMAIN Unpassed -> Nat]
    BY <2>2 DEF ScriptTyped, Unpassed
  <2>10. QED BY <2>1, <2>3, <2>4, <2>5, <2>6, <2>7, <2>8, <2>9 DEF TypeOK
<1>2. QED BY <1>1, Invariance, PTL

(* A red run has a cause that is not the code under test: another's write, *)
(* another exit, or time that passed, where it is not the network.         *)
THEOREM FailureCorrect == Spec => []FailureHasCause
<1>1. ASSUME IInv, EditsKnown, ExitsKnown
      PROVE  FailureHasCause
  <2>1. failure \notin {"low", "high", "account", "delegate"}
    BY <1>1 DEF IInv, FailureSound
  <2>2. failure = "again" => wall - times["high"] >= ReadThrottle
    BY <1>1 DEF IInv, FailureSound, ReadSound
  <2>3. failure = "execute" /\ txs[calls[Script].tx].status \notin {"flight", "dropped", "Ok"}
          => ExitOfOperatorSince(times["submit"] - RateLimit)
    <3> SUFFICES ASSUME failure = "execute",
                        txs[calls[Script].tx].status \notin {"flight", "dropped", "Ok"}
                 PROVE  ExitOfOperatorSince(times["submit"] - RateLimit)
      OBVIOUS
    <3>1. pc = ExecAt
      BY <1>1 DEF IInv, FailureSound
    <3>2. Submitted
      BY <1>1, <3>1 DEF IInv, ExecSound
    <3>3. calls[Script].tx = firstTx /\ firstTx \in DOMAIN txs
      BY <1>1, <3>2, ExitsParts DEF IInv, ScriptTyped, ExitsKnown, Submitted
    <3>4. txs[firstTx].status = "RebalanceTooSoon"
      BY <1>1, <3>3 DEF IInv, TxsAreExits
    <3>5. QED BY <3>2, <3>4 DEF Submitted, RefusedForCause
  <2>4. failure = "repeat" => wall - times["execute"] >= WriteThrottle
    BY <1>1 DEF IInv, FailureSound, ExecSound
  <2>5. failure = "readback" =>
          \E i, j \in DOMAIN landed :
            /\ landed[i] = edits[Script].tx
            /\ i < j /\ editTxs[landed[j]].sub = Submission(Other)
    BY <1>1 DEF IInv, SetSound
  <2>6. edits[Script].tx # 0 /\ editTxs[edits[Script].tx].status = "refused"
          => Len(landed) > editTxs[edits[Script].tx].seen
    <3> DEFINE t == edits[Script].tx
    <3> SUFFICES ASSUME t # 0, editTxs[t].status = "refused"
                 PROVE  Len(landed) > editTxs[t].seen
      OBVIOUS
    <3>1. Edits!TypeOK
      BY <1>1 DEF EditsKnown
    <3>2. t \in DOMAIN editTxs
      <4>1. edits[Script].tx \in Nat /\ edits[Script].tx <= Len(editTxs)
        BY <3>1, EditsParts DEF Edits!TypeOK, Edits!Call
      <4>2. DOMAIN editTxs = 1 .. Len(editTxs) /\ Len(editTxs) \in Nat
        BY <3>1, EditsParts
      <4>3. QED BY <4>1, <4>2
    <3>3. editTxs[t].seen \in Nat /\ editTxs[t].sub \in {Submission(Demo), Submission(Other)}
      BY <3>1, <3>2, EditsParts DEF Edits!Tx
    <3>4. Edits!Signed(editTxs[t])
      BY <3>3 DEF Edits!Signed, Submission
    <3> HIDE DEF t
    <3>5. PICK i \in Edits!LandedFor(editTxs[t].sub.vault) : i > editTxs[t].seen
      BY <1>1, <3>2, <3>4 DEF EditsKnown, Edits!RefusedOnlyIfOvertaken
    <3>6. i \in 1 .. Len(landed) /\ Len(landed) \in Nat
      BY <3>1, <3>5, EditsParts DEF Edits!LandedFor
    <3>7. QED BY <3>3, <3>5, <3>6
  <2>7. failure = "event" =>
          \E i \in DOMAIN events : i > listener.from /\ events[i].policy = Stranger
    BY <1>1 DEF IInv, ListenerSound
  <2>8. QED BY <2>1, <2>2, <2>3, <2>4, <2>5, <2>6, <2>7 DEF FailureHasCause
<1>2. QED BY <1>1, Invariance, PTL

(* The event that is shown belongs to the transaction that is shown.       *)
THEOREM CapturedCorrect == Spec => []CapturedIsOwnUnlessSlow
<1>1. IInv => CapturedIsOwnUnlessSlow
  BY DEF IInv
<1>2. QED BY <1>1, Invariance, PTL

(* A run that passes has exited the policy once and leaves nothing behind  *)
(* that might exit it again.                                               *)
THEOREM PassedCorrect == Spec => []PassedMeansOneExit
<1>1. ASSUME IInv, ExitsKnown
      PROVE  PassedMeansOneExit
  <2> SUFFICES ASSUME Passed, NEW t \in firstTx .. Len(txs)
               PROVE  txs[t].status = IF t = execSig THEN "Ok" ELSE "RebalanceTooSoon"
    BY DEF PassedMeansOneExit
  <2>1. pc > RepeatAt /\ pc > ExecAt
    BY <1>1, WalkSteps DEF Passed, IInv, ScriptTyped, EndAt, RepeatAt, ExecAt
  <2>2. Exited /\ Repeated
    BY <1>1, <2>1 DEF IInv, ExecSound
  <2>3. Len(txs) \in Nat /\ firstTx \in Nat
    BY <1>1, ExitsParts DEF ExitsKnown, IInv, ScriptTyped
  <2>4. t = firstTx \/ (t = firstTx + 1 /\ Len(txs) = firstTx + 1)
    BY <2>2, <2>3 DEF Repeated
  <2>5. CASE t = firstTx
    BY <2>2, <2>5 DEF Exited
  <2>6. CASE t = firstTx + 1 /\ Len(txs) = firstTx + 1
    BY <2>2, <2>3, <2>6 DEF Exited, Repeated
  <2>7. QED BY <2>4, <2>5, <2>6
<1>2. QED BY <1>1, Invariance, PTL
=============================================================================
