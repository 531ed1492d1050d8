------------------------- MODULE PolicyClientProofs -------------------------
(***************************************************************************)
(* First risk_policy, for any vaults, contents and lengths: its accounts   *)
(* are well typed, policy_hash always answers for the content, and a       *)
(* change of one byte always shows in it.                                  *)
(* Then setEncryptedPolicy, for any submissions, calls and faults.  As in  *)
(* RebalanceClientProofs, what the client and the network do to the chain  *)
(* is what the program lets anybody do.  The rest follows the log of       *)
(* landed transactions: it explains what is on the chain, what a call      *)
(* returned, and why a transaction that a vault signed may fail.           *)
(***************************************************************************)
EXTENDS PolicyClient, FiniteSetTheorems, TLAPS

(* The program by itself, for any content that anybody may submit to it.   *)
Contents == [0 .. CtLen - 1 -> {0, 1}]
AllHandles == [0 .. HandleLen - 1 -> {0, 1}]
Program == INSTANCE RiskPolicy WITH Ciphertexts <- Contents, Handles <- AllHandles

-----------------------------------------------------------------------------
(* The program.                                                            *)

(* Either instance of the program folds as PolicyAccount does.             *)
LEMMA SameFold ==
  ASSUME NEW ct, NEW h
  PROVE  Program!XorFold(ct, h) = XorFold(ct, h) /\ Chain!XorFold(ct, h) = XorFold(ct, h)
<1>1. \A i : Program!Ones(ct, h, i) = Ones(ct, h, i) /\ Chain!Ones(ct, h, i) = Ones(ct, h, i)
  BY DEF Program!Ones, Chain!Ones, Ones, Program!ByteAt, Chain!ByteAt, ByteAt
<1>2. \A S : Program!Cardinality(S) = Cardinality(S) /\ Chain!Cardinality(S) = Cardinality(S)
  BY DEF Program!Cardinality, Chain!Cardinality, Cardinality,
     Program!IsFiniteSet, Chain!IsFiniteSet, IsFiniteSet
<1>3. QED BY <1>1, <1>2 DEF Program!XorFold, Chain!XorFold, XorFold

(* The bytes folded into one byte of the tag are finitely many.            *)
LEMMA OnesFinite ==
  ASSUME NEW ct, NEW h, NEW i
  PROVE  /\ IsFiniteSet(Ones(ct, h, i))
         /\ Cardinality(Ones(ct, h, i)) \in Nat
<1>1. CtLen + HandleLen - 1 \in Int
  BY AccountAssumption
<1>2. IsFiniteSet(0 .. CtLen + HandleLen - 1)
  BY <1>1, FS_Interval
<1>3. Ones(ct, h, i) \subseteq 0 .. CtLen + HandleLen - 1
  BY DEF Ones
<1>4. QED BY <1>2, <1>3, FS_Subset, FS_CardinalityType

(* The fold is a tag: one bit for each of its bytes.                       *)
LEMMA FoldTyped ==
  ASSUME NEW ct, NEW h
  PROVE  XorFold(ct, h) \in Bits(TagLen)
<1>1. \A i \in 0 .. TagLen - 1 : Cardinality(Ones(ct, h, i)) % 2 \in Bit
  BY OnesFinite DEF Bit
<1>2. QED BY <1>1 DEF XorFold, Bits

(* A byte set in the one content and not in the other flips its tag byte.  *)
LEMMA OneMoreFlips ==
  ASSUME NEW ct, NEW h, NEW ct2, NEW h2, NEW i \in 0 .. TagLen - 1, NEW k,
         k \notin Ones(ct, h, i), Ones(ct2, h2, i) = Ones(ct, h, i) \cup {k}
  PROVE  XorFold(ct2, h2) # XorFold(ct, h)
<1> DEFINE n == Cardinality(Ones(ct, h, i))
<1>1. n \in Nat /\ IsFiniteSet(Ones(ct, h, i))
  BY OnesFinite
<1>2. Cardinality(Ones(ct2, h2, i)) = n + 1
  BY <1>1, FS_AddElement
<1>3. (n + 1) % 2 # n % 2
  <2> HIDE DEF n
  <2> QED BY <1>1
<1>4. XorFold(ct2, h2)[i] = (n + 1) % 2 /\ XorFold(ct, h)[i] = n % 2
  BY <1>2 DEF XorFold
<1>5. QED BY <1>3, <1>4

-----------------------------------------------------------------------------
(* No instruction leaves an account that is not typed.                     *)
LEMMA AccountsStayTyped == AccountsTyped /\ [Program!Next]_(Program!vars) => AccountsTyped'
<1> SUFFICES ASSUME AccountsTyped, [Program!Next]_(Program!vars) PROVE AccountsTyped'
  OBVIOUS
<1>1. ASSUME NEW v \in Vaults, NEW ct \in Contents, NEW h \in AllHandles,
             Program!InitPolicy(v, ct, h)
      PROVE  AccountsTyped'
  <2>1. [owningVault |-> v, ciphertext |-> ct, handle |-> h, hash |-> XorFold(ct, h),
         updatedAt |-> clock, lastCheckAt |-> 0] \in Account
    BY FoldTyped DEF Contents, AllHandles, Bits, Bit, Account, AccountsTyped
  <2>2. QED BY <1>1, <2>1, SameFold DEF Program!InitPolicy, AccountsTyped
<1>2. ASSUME NEW v \in Vaults, NEW signer \in Vaults, NEW ct \in Contents, NEW h \in AllHandles,
             Program!UpdatePolicy(v, signer, ct, h)
      PROVE  AccountsTyped'
  <2>1. /\ XorFold(ct, h) \in Bits(TagLen)
        /\ ct \in Bits(CtLen) /\ h \in Bits(HandleLen)
    BY FoldTyped DEF Contents, AllHandles, Bits, Bit
  <2>2. [policy[v] EXCEPT !.ciphertext = ct, !.handle = h, !.hash = XorFold(ct, h),
                          !.updatedAt = clock] \in Account
    <3>1. policy[v] \in Account /\ clock \in Nat
      BY DEF AccountsTyped
    <3>2. ASSUME NEW a \in Account, NEW x \in Bits(TagLen)
          PROVE  [a EXCEPT !.ciphertext = ct, !.handle = h, !.hash = x, !.updatedAt = clock]
                   \in Account
      BY <2>1, <3>1 DEF Account
    <3>3. QED BY <2>1, <3>1, <3>2
  <2>3. policy' = [policy EXCEPT ![v] =
           [policy[v] EXCEPT !.ciphertext = ct, !.handle = h, !.hash = XorFold(ct, h),
                             !.updatedAt = clock]]
    BY <1>2, SameFold DEF Program!UpdatePolicy, AccountsTyped
  <2>4. UNCHANGED <<clock, exists>>
    BY <1>2 DEF Program!UpdatePolicy
  <2>5. QED BY <2>2, <2>3, <2>4 DEF AccountsTyped
<1>3. ASSUME UNCHANGED Program!vars PROVE AccountsTyped'
  BY <1>3 DEF Program!vars, AccountsTyped
<1>4. CASE Program!Tick
  BY <1>4 DEF Program!Tick, AccountsTyped
<1>5. QED BY <1>1, <1>2, <1>3, <1>4 DEF Program!Next, Program!RefuseInit, Program!RefuseUpdate

(* The accounts hold what their types say.                                 *)
THEOREM AccountsCorrect == Program!Spec => []AccountsTyped
<1>1. Program!Init => AccountsTyped
  <2> SUFFICES ASSUME Program!Init PROVE AccountsTyped
    OBVIOUS
  <2>1. \A v \in Vaults : Program!Blank(v) \in Account
    BY AccountAssumption DEF Program!Blank, Account, Bits, Bit
  <2>2. QED BY <2>1, AccountAssumption DEF Program!Init, AccountsTyped
<1>2. QED BY <1>1, AccountsStayTyped, PTL DEF Program!Spec

(* policy_hash is the fold of the content beside it in every state.        *)
THEOREM ProgramHashCorrect == Program!Spec => []HashMatchesContent
<1>1. Program!Init => HashMatchesContent
  <2> SUFFICES ASSUME Program!Init, NEW v \in Vaults
               PROVE  policy[v].hash = XorFold(policy[v].ciphertext, policy[v].handle)
    BY DEF HashMatchesContent
  <2>1. policy[v] = Program!Blank(v)
    BY DEF Program!Init
  <2>2. \A i : Ones(Program!Blank(v).ciphertext, Program!Blank(v).handle, i) = {}
    <3>1. \A k \in 0 .. CtLen + HandleLen - 1 :
            ByteAt(Program!Blank(v).ciphertext, Program!Blank(v).handle, k) = 0
      BY AccountAssumption DEF Program!Blank, ByteAt
    <3>2. QED BY <3>1 DEF Ones
  <2>3. Cardinality({}) % 2 = 0
    BY FS_EmptySet
  <2>4. XorFold(Program!Blank(v).ciphertext, Program!Blank(v).handle) =
          [i \in 0 .. TagLen - 1 |-> 0]
    BY <2>2, <2>3 DEF XorFold
  <2>5. QED BY <2>1, <2>4 DEF Program!Blank
<1>2. AccountsTyped /\ HashMatchesContent /\ [Program!Next]_(Program!vars) =>
        HashMatchesContent'
  <2> SUFFICES ASSUME AccountsTyped, HashMatchesContent,
                      [Program!Next]_(Program!vars), NEW w \in Vaults
               PROVE  policy'[w].hash = XorFold(policy'[w].ciphertext, policy'[w].handle)
    BY DEF HashMatchesContent, XorFold, Ones, ByteAt
  <2>1. ASSUME NEW v \in Vaults, NEW ct \in Contents, NEW h \in AllHandles,
               Program!InitPolicy(v, ct, h)
        PROVE  policy'[w].hash = XorFold(policy'[w].ciphertext, policy'[w].handle)
    BY <2>1, SameFold DEF Program!InitPolicy, AccountsTyped, HashMatchesContent
  <2>2. ASSUME NEW v \in Vaults, NEW signer \in Vaults, NEW ct \in Contents, NEW h \in AllHandles,
               Program!UpdatePolicy(v, signer, ct, h)
        PROVE  policy'[w].hash = XorFold(policy'[w].ciphertext, policy'[w].handle)
    <3>1. CASE w = v
      <4>1. policy[v] \in Account
        BY DEF AccountsTyped
      <4>2. /\ policy'[v].ciphertext = ct
            /\ policy'[v].handle = h
            /\ policy'[v].hash = XorFold(ct, h)
        BY <2>2, <4>1, SameFold DEF Program!UpdatePolicy, AccountsTyped, Account
      <4>3. QED BY <3>1, <4>2
    <3>2. CASE w # v
      BY <2>2, <3>2 DEF Program!UpdatePolicy, AccountsTyped, HashMatchesContent
    <3>3. QED BY <3>1, <3>2
  <2>3. ASSUME UNCHANGED Program!vars
        PROVE  policy'[w].hash = XorFold(policy'[w].ciphertext, policy'[w].handle)
    BY <2>3 DEF Program!vars, HashMatchesContent
  <2>4. CASE Program!Tick
    BY <2>4 DEF Program!Tick, HashMatchesContent
  <2>5. QED BY <2>1, <2>2, <2>3, <2>4 DEF Program!Next, Program!RefuseInit, Program!RefuseUpdate
<1>3. QED BY <1>1, <1>2, AccountsCorrect, PTL DEF Program!Spec

-----------------------------------------------------------------------------
(* Two contents that differ in one byte have different folds.              *)
LEMMA SingleDifferenceFlips ==
  ASSUME NEW a \in Account, NEW b \in Account,
         Cardinality(Differing(a, b)) = 1
  PROVE  XorFold(a.ciphertext, a.handle) # XorFold(b.ciphertext, b.handle)
<1> DEFINE D == 0 .. CtLen + HandleLen - 1
           A(k) == ByteAt(a.ciphertext, a.handle, k)
           B(k) == ByteAt(b.ciphertext, b.handle, k)
<1>1. IsFiniteSet(Differing(a, b))
  <2>1. CtLen + HandleLen - 1 \in Int
    BY AccountAssumption
  <2>2. IsFiniteSet(D) /\ Differing(a, b) \subseteq D
    BY <2>1, FS_Interval DEF Differing
  <2>3. QED BY <2>2, FS_Subset
<1>2. PICK k : Differing(a, b) = {k}
  BY <1>1, FS_Singleton
<1>3. k \in D /\ A(k) # B(k) /\ \A j \in D : j # k => A(j) = B(j)
  BY <1>2 DEF Differing
<1>4. A(k) \in Bit /\ B(k) \in Bit
  BY <1>3, AccountAssumption DEF Account, Bits, ByteAt
<1> DEFINE i == k % TagLen
<1>5. i \in 0 .. TagLen - 1
  BY <1>3, AccountAssumption
<1>6. CASE A(k) = 0 /\ B(k) = 1
  <2>1. k \notin Ones(a.ciphertext, a.handle, i)
    BY <1>6 DEF Ones
  <2>2. Ones(b.ciphertext, b.handle, i) = Ones(a.ciphertext, a.handle, i) \cup {k}
    BY <1>3, <1>6 DEF Ones
  <2>3. QED BY <1>5, <2>1, <2>2, OneMoreFlips
<1>7. CASE A(k) = 1 /\ B(k) = 0
  <2>1. k \notin Ones(b.ciphertext, b.handle, i)
    BY <1>7 DEF Ones
  <2>2. Ones(a.ciphertext, a.handle, i) = Ones(b.ciphertext, b.handle, i) \cup {k}
    BY <1>3, <1>7 DEF Ones
  <2>3. QED BY <1>5, <2>1, <2>2, OneMoreFlips
<1>8. QED BY <1>3, <1>4, <1>6, <1>7 DEF Bit

(* Any change of a single byte of the stored content changes policy_hash.  *)
THEOREM SingleChangeCorrect == Program!Spec => SingleChangeShows
<1>1. (AccountsTyped /\ AccountsTyped' /\ HashMatchesContent /\ HashMatchesContent') =>
        \A v \in Vaults :
          Cardinality(Differing(policy[v], policy'[v])) = 1 =>
            policy'[v].hash # policy[v].hash
  <2> SUFFICES ASSUME AccountsTyped, AccountsTyped', HashMatchesContent, HashMatchesContent',
                      NEW v \in Vaults,
                      Cardinality(Differing(policy[v], policy'[v])) = 1
               PROVE  policy'[v].hash # policy[v].hash
    OBVIOUS
  <2>1. policy[v] \in Account /\ policy'[v] \in Account
    BY DEF AccountsTyped
  <2>2. /\ policy[v].hash = XorFold(policy[v].ciphertext, policy[v].handle)
        /\ policy'[v].hash = XorFold(policy'[v].ciphertext, policy'[v].handle)
    BY DEF HashMatchesContent
  <2>3. QED BY <2>1, <2>2, SingleDifferenceFlips
<1>2. QED BY <1>1, AccountsCorrect, ProgramHashCorrect, PTL DEF SingleChangeShows

-----------------------------------------------------------------------------
(* The client.                                                             *)

(* A call past its submission holds its own transaction; one that resolved *)
(* holds one that succeeded; one that reads or waits is worth sending.     *)
CallsHoldTheirTxs ==
  \A c \in Calls :
    /\ calls[c].phase \in {"waiting", "resolved"} =>
         calls[c].tx \in DOMAIN txs /\ txs[calls[c].tx].sub = calls[c].sub
    /\ calls[c].phase = "resolved" => txs[calls[c].tx].status = "Ok"
    /\ calls[c].phase = "reading" => WellFormed(calls[c].sub)

(* The log holds exactly the transactions that succeeded.                  *)
LandedAreOk ==
  /\ \A i \in DOMAIN landed : txs[landed[i]].status = "Ok"
  /\ \A t \in DOMAIN txs :
       txs[t].status = "Ok" => \E i \in DOMAIN landed : landed[i] = t

TxsWellFormed == \A t \in DOMAIN txs : WellFormed(txs[t].sub)

(* The kind of a transaction records what the read saw: update if one of   *)
(* the transactions that had landed by then was for the vault.             *)
KindFits ==
  \A t \in DOMAIN txs :
    txs[t].kind = "update" <=> \E i \in LandedFor(txs[t].sub.vault) : i <= txs[t].seen

OwnersAreVaults == \A v \in Vaults : policy[v].owningVault = v

LogInv ==
  /\ CallsHoldTheirTxs
  /\ LandedAreOk
  /\ TxsWellFormed
  /\ KindFits
  /\ OwnersAreVaults
  /\ PolicyIsLastLanded
  /\ RefusedOnlyIfOvertaken

IInv == TypeOK /\ LogInv

-----------------------------------------------------------------------------
(* What the clients submit is a content of the program.                    *)
LEMMA ContentsSubmitted == Ciphertexts \subseteq Contents /\ ArciumHandle \in AllHandles
BY AccountAssumption DEF Ciphertexts, ArciumHandle, Contents, AllHandles

(* What is done to the program by these clients may be done to it.         *)
LEMMA ChainIsProgram ==
  /\ Chain!Init <=> Program!Init
  /\ [Chain!Next]_(Chain!vars) => [Program!Next]_(Program!vars)
<1>1. Chain!Init <=> Program!Init
  BY DEF Chain!Init, Program!Init, Chain!Blank, Program!Blank
<1>2. ASSUME NEW v, NEW ct, NEW h
      PROVE  Chain!InitPolicy(v, ct, h) <=> Program!InitPolicy(v, ct, h)
  BY SameFold DEF Chain!InitPolicy, Program!InitPolicy
<1>3. ASSUME NEW v, NEW s, NEW ct, NEW h
      PROVE  Chain!UpdatePolicy(v, s, ct, h) <=> Program!UpdatePolicy(v, s, ct, h)
  <2>1. Chain!XorFold(ct, h) = Program!XorFold(ct, h)
    BY SameFold
  <2>2. QED
    BY <2>1 DEF Chain!UpdatePolicy, Program!UpdatePolicy, Chain!MayUpdate, Program!MayUpdate
<1>4. ASSUME NEW v, NEW s
      PROVE  /\ Chain!RefuseInit(v) <=> Program!RefuseInit(v)
             /\ Chain!RefuseUpdate(v, s) <=> Program!RefuseUpdate(v, s)
  BY DEF Chain!RefuseInit, Program!RefuseInit, Chain!RefuseUpdate, Program!RefuseUpdate,
     Chain!MayUpdate, Program!MayUpdate, Chain!vars, Program!vars
<1>5. Chain!Tick <=> Program!Tick
  BY DEF Chain!Tick, Program!Tick
<1>6. Chain!Next => Program!Next
  BY <1>2, <1>3, <1>4, <1>5, ContentsSubmitted DEF Chain!Next, Program!Next
<1>7. (UNCHANGED Chain!vars) <=> UNCHANGED Program!vars
  BY DEF Chain!vars, Program!vars
<1>8. QED BY <1>1, <1>6, <1>7

(* A transaction of the list is a Tx, with a place for its submission.     *)
LEMMA TxsTyped ==
  ASSUME TypeOK, NEW t \in DOMAIN txs
  PROVE  /\ txs[t] \in Tx /\ t \in Nat \ {0} /\ t <= Len(txs) /\ Len(txs) \in Nat
         /\ txs[t].sub \in Submissions /\ txs[t].sub.vault \in Vaults
         /\ txs[t].seen \in Nat /\ txs[t].kind \in Kind
<1>1. txs \in Seq(Tx)
  BY DEF TypeOK
<1>2. txs[t] \in Tx /\ t \in 1 .. Len(txs) /\ Len(txs) \in Nat
  BY <1>1
<1>3. txs[t].sub \in Submissions /\ txs[t].seen \in Nat /\ txs[t].kind \in Kind
  BY <1>2 DEF Tx
<1>4. QED BY <1>2, <1>3, SubmissionsAssumption

(* A call is a Call.                                                       *)
LEMMA CallsTyped ==
  ASSUME TypeOK, NEW c \in Calls
  PROVE  /\ calls \in [Calls -> Call] /\ calls[c] \in Call
         /\ calls[c].sub \in Submissions /\ calls[c].sub.vault \in Vaults
         /\ calls[c].tx \in Nat /\ Len(txs) \in Nat /\ Len(landed) \in Nat
         /\ calls[c].tx <= Len(txs)
BY SubmissionsAssumption DEF TypeOK, Call

(* A submission of the right length is a content the program can be given. *)
LEMMA WellFormedIsContent ==
  ASSUME NEW s \in Submissions, WellFormed(s)
  PROVE  s.ciphertext \in Ciphertexts
BY SubmissionsAssumption DEF WellFormed, Ciphertexts

-----------------------------------------------------------------------------
(* A transaction that lands does what an instruction of the program does.  *)
LEMMA LandIsInstruction ==
  ASSUME TypeOK, NEW t \in DOMAIN txs, WellFormed(txs[t].sub), Land(t)
  PROVE  [Chain!Next]_(Chain!vars)
<1>1. txs[t].sub.vault \in Vaults /\ txs[t].sub.ciphertext \in Ciphertexts
  BY TxsTyped, WellFormedIsContent
<1>2. Signed(txs[t]) => txs[t].sub.signer \in Vaults
  BY <1>1 DEF Signed
<1>3. CASE Effective(txs[t])
  BY <1>1, <1>2, <1>3 DEF Effective, Chain!Next
<1>4. CASE Ineffective(txs[t])
  <2>1. CASE UNCHANGED chainVars
    BY <2>1 DEF chainVars, Chain!vars
  <2>2. CASE ~ UNCHANGED chainVars
    BY <1>1, <1>2, <1>4, <2>2 DEF Ineffective, Chain!Next
  <2>3. QED BY <2>1, <2>2
<1>5. QED BY <1>3, <1>4 DEF Land

(* Every step is one of the program's, or none to the chain.               *)
LEMMA StepOfChain ==
  ASSUME TypeOK, TxsWellFormed, [Next]_vars
  PROVE  [Chain!Next]_(Chain!vars)
<1>1. ASSUME NEW t \in DOMAIN txs, Land(t) PROVE [Chain!Next]_(Chain!vars)
  BY <1>1, LandIsInstruction DEF TxsWellFormed
<1>2. ASSUME NEW t \in DOMAIN txs, Drop(t) PROVE UNCHANGED chainVars
  BY <1>2 DEF Drop
<1>3. ASSUME NEW c \in Calls, NEW s \in Submissions, RefuseLocally(c, s) \/ Begin(c, s)
      PROVE  UNCHANGED chainVars
  BY <1>3 DEF RefuseLocally, Begin
<1>4. ASSUME NEW c \in Calls, Submit(c) \/ ReadFails(c) \/ Confirm(c) \/ Reject(c)
      PROVE  UNCHANGED chainVars
  BY <1>4 DEF Submit, ReadFails, Confirm, Reject
<1>5. ASSUME Tick PROVE Chain!Next
  BY <1>5 DEF Tick, Chain!Next
<1>6. UNCHANGED vars => UNCHANGED chainVars
  BY DEF vars, chainVars
<1>7. UNCHANGED chainVars => UNCHANGED Chain!vars
  BY DEF chainVars, Chain!vars
<1>8. QED BY <1>1, <1>2, <1>3, <1>4, <1>5, <1>6, <1>7 DEF Next

-----------------------------------------------------------------------------
(* What the steps do to calls, transactions and log.                       *)

(* Landing and dropping give one transaction an outcome.                   *)
LEMMA OutcomeGiven ==
  ASSUME TypeOK, NEW t \in DOMAIN txs, NEW st \in {"dropped", "refused", "Ok"},
         txs' = [txs EXCEPT ![t].status = st]
  PROVE  /\ txs' \in Seq(Tx) /\ DOMAIN txs' = DOMAIN txs /\ Len(txs') = Len(txs)
         /\ txs'[t].status = st
         /\ txs'[t].sub = txs[t].sub /\ txs'[t].kind = txs[t].kind /\ txs'[t].seen = txs[t].seen
         /\ \A s \in DOMAIN txs : s # t => txs'[s] = txs[s]
<1>1. txs \in Seq(Tx) /\ txs[t] \in Tx
  BY TxsTyped DEF TypeOK
<1>2. PICK new \in Tx : /\ txs' = [txs EXCEPT ![t] = new]
                        /\ new.status = st /\ new.sub = txs[t].sub
                        /\ new.kind = txs[t].kind /\ new.seen = txs[t].seen
  <2>1. [txs[t] EXCEPT !.status = st] \in Tx
    BY <1>1 DEF Tx
  <2>2. LET n == [txs[t] EXCEPT !.status = st] IN
          n.status = st /\ n.sub = txs[t].sub /\ n.kind = txs[t].kind /\ n.seen = txs[t].seen
    BY <1>1 DEF Tx
  <2>3. txs' = [txs EXCEPT ![t] = [txs[t] EXCEPT !.status = st]]
    OBVIOUS
  <2>4. QED BY <2>1, <2>2, <2>3
<1>3. txs' \in Seq(Tx) /\ DOMAIN txs' = DOMAIN txs /\ Len(txs') = Len(txs)
  BY <1>1, <1>2
<1>4. QED BY <1>1, <1>2, <1>3

(* The log grows at its end.                                               *)
LEMMA LogAppends ==
  ASSUME TypeOK, NEW t \in DOMAIN txs, landed' = Append(landed, t)
  PROVE  /\ landed' \in Seq(Nat)
         /\ Len(landed) \in Nat /\ Len(landed') = Len(landed) + 1
         /\ DOMAIN landed = 1 .. Len(landed) /\ DOMAIN landed' = 1 .. Len(landed) + 1
         /\ landed'[Len(landed) + 1] = t
         /\ \A i \in DOMAIN landed : landed'[i] = landed[i]
<1>1. landed \in Seq(Nat) /\ t \in Nat
  BY TxsTyped DEF TypeOK
<1>2. QED BY <1>1

(* Submitting appends the transaction of the call.                         *)
LEMMA SubmitAppends ==
  ASSUME TypeOK, NEW c \in Calls, Submit(c)
  PROVE  /\ txs' \in Seq(Tx) /\ Len(txs) \in Nat /\ Len(txs') = Len(txs) + 1
         /\ DOMAIN txs' = 1 .. Len(txs) + 1 /\ DOMAIN txs = 1 .. Len(txs)
         /\ \A t \in DOMAIN txs :
              t \in DOMAIN txs' /\ t # Len(txs) + 1 /\ txs'[t] = txs[t]
         /\ \A t \in DOMAIN txs' : t # Len(txs) + 1 => t \in DOMAIN txs
         /\ txs'[Len(txs) + 1] = [sub |-> calls[c].sub, kind |-> KindFor(calls[c].sub.vault),
                                  status |-> "flight", seen |-> Len(landed)]
         /\ calls' \in [Calls -> Call]
         /\ calls'[c].phase = "waiting" /\ calls'[c].tx = Len(txs) + 1
         /\ calls'[c].sub = calls[c].sub
         /\ \A d \in Calls : d # c => calls'[d] = calls[d]
<1> DEFINE new == [sub |-> calls[c].sub, kind |-> KindFor(calls[c].sub.vault),
                   status |-> "flight", seen |-> Len(landed)]
<1>1. new \in Tx
  BY CallsTyped DEF Tx, Kind, KindFor
<1>2. txs \in Seq(Tx) /\ txs' = Append(txs, new) /\ Len(txs) \in Nat
  BY DEF TypeOK, Submit
<1> HIDE DEF new
<1>3. /\ txs' \in Seq(Tx) /\ Len(txs') = Len(txs) + 1
      /\ DOMAIN txs' = 1 .. Len(txs) + 1 /\ DOMAIN txs = 1 .. Len(txs)
      /\ \A t \in DOMAIN txs : t \in DOMAIN txs' /\ t # Len(txs) + 1 /\ txs'[t] = txs[t]
      /\ \A t \in DOMAIN txs' : t # Len(txs) + 1 => t \in DOMAIN txs
      /\ txs'[Len(txs) + 1] = new
  BY <1>1, <1>2
<1>4. calls' = [calls EXCEPT ![c].phase = "waiting", ![c].tx = Len(txs) + 1]
  BY DEF Submit
<1>5. ASSUME NEW r \in Call, NEW n \in Nat
      PROVE  LET m == [r EXCEPT !.phase = "waiting", !.tx = n] IN
               m \in Call /\ m.phase = "waiting" /\ m.tx = n /\ m.sub = r.sub
  BY DEF Call
<1>6. calls \in [Calls -> Call] /\ Len(txs) + 1 \in Nat
  BY <1>2 DEF TypeOK
<1> DEFINE call == [calls[c] EXCEPT !.phase = "waiting", !.tx = Len(txs) + 1]
<1>7. /\ call \in Call /\ call.phase = "waiting" /\ call.tx = Len(txs) + 1
      /\ call.sub = calls[c].sub
  BY <1>5, <1>6
<1>8. calls' = [calls EXCEPT ![c] = call]
  BY <1>4
<1> HIDE DEF call
<1>9. /\ calls' \in [Calls -> Call] /\ calls'[c] = call
      /\ \A d \in Calls : d # c => calls'[d] = calls[d]
  BY <1>6, <1>7, <1>8
<1>10. QED BY <1>2, <1>3, <1>7, <1>9 DEF new

(* A call that settles keeps what it submitted and its transaction.        *)
LEMMA SettledKeeps ==
  ASSUME TypeOK, NEW c \in Calls, NEW ph \in {"resolved", "rejected"}, NEW e \in Error,
         Settled(c, ph, e)
  PROVE  /\ calls' \in [Calls -> Call]
         /\ calls'[c].phase = ph /\ calls'[c].tx = calls[c].tx /\ calls'[c].sub = calls[c].sub
         /\ \A d \in Calls : d # c => calls'[d] = calls[d]
BY CallsTyped DEF Settled, Call

(* A call that begins, or ends at once, holds no transaction.              *)
LEMMA BeginsClean ==
  ASSUME TypeOK, NEW c \in Calls, NEW s \in Submissions, RefuseLocally(c, s) \/ Begin(c, s)
  PROVE  /\ calls' \in [Calls -> Call]
         /\ calls'[c].phase \in {"rejected", "reading"} /\ calls'[c].tx = 0
         /\ calls'[c].sub = s
         /\ calls'[c].phase = "reading" => WellFormed(s)
         /\ \A d \in Calls : d # c => calls'[d] = calls[d]
<1>1. CASE RefuseLocally(c, s)
  <2>1. Idle(s) \in Call /\ Idle(s).tx = 0 /\ Idle(s).sub = s
    BY DEF Idle, Call, Error
  <2>2. ASSUME NEW r \in Call, NEW e \in Error
        PROVE  LET n == [r EXCEPT !.phase = "rejected", !.error = e] IN
                 n \in Call /\ n.phase = "rejected" /\ n.tx = r.tx /\ n.sub = r.sub
    BY DEF Call
  <2>3. PICK e \in Error : calls' = [calls EXCEPT ![c] =
          [Idle(s) EXCEPT !.phase = "rejected", !.error = e]]
    BY <1>1, Zenon DEF RefuseLocally, Error
  <2>4. PICK n \in Call : /\ calls' = [calls EXCEPT ![c] = n]
                          /\ n.phase = "rejected" /\ n.tx = 0 /\ n.sub = s
    <3> DEFINE n == [Idle(s) EXCEPT !.phase = "rejected", !.error = e]
    <3>1. n \in Call /\ n.phase = "rejected" /\ n.tx = Idle(s).tx /\ n.sub = Idle(s).sub
      BY <2>1, <2>2
    <3>2. calls' = [calls EXCEPT ![c] = n]
      BY <2>3
    <3> HIDE DEF n
    <3>3. QED BY <2>1, <3>1, <3>2
  <2>5. QED BY <2>4, CallsTyped
<1>2. CASE Begin(c, s)
  <2>1. /\ WellFormed(s)
        /\ calls' = [calls EXCEPT ![c] =
             [phase |-> "reading", sub |-> s, tx |-> 0, error |-> "none"]]
    <3>1. [Idle(s) EXCEPT !.phase = "reading"] =
            [phase |-> "reading", sub |-> s, tx |-> 0, error |-> "none"]
      BY DEF Idle
    <3>2. WellFormed(s) /\ calls' = [calls EXCEPT ![c] = [Idle(s) EXCEPT !.phase = "reading"]]
      BY <1>2 DEF Begin
    <3>3. QED BY <3>1, <3>2
  <2>2. QED BY <2>1, CallsTyped DEF Call, Error
<1>3. QED BY <1>1, <1>2

(* Every step keeps the types.                                             *)
LEMMA TypePreserved == TypeOK /\ TxsWellFormed /\ [Next]_vars => TypeOK'
<1> SUFFICES ASSUME TypeOK, TxsWellFormed, [Next]_vars PROVE TypeOK'
  OBVIOUS
<1> DEFINE Client == /\ calls' \in [Calls -> Call]
                     /\ txs' \in Seq(Tx)
                     /\ landed' \in Seq(Nat)
                     /\ \A c \in Calls : calls'[c].tx <= Len(txs')
                     /\ \A t \in DOMAIN txs' : txs'[t].seen <= Len(landed')
                     /\ \A i \in DOMAIN landed' : landed'[i] \in DOMAIN txs'
<1>1. AccountsTyped'
  <2>1. AccountsTyped /\ [Program!Next]_(Program!vars)
    BY StepOfChain, ChainIsProgram DEF TypeOK
  <2>2. QED BY <2>1, AccountsStayTyped
<1>2. ASSUME NEW c \in Calls, NEW s \in Submissions, RefuseLocally(c, s) \/ Begin(c, s)
      PROVE  Client
  <2>1. UNCHANGED <<txs, landed>>
    BY <1>2 DEF RefuseLocally, Begin
  <2>2. 0 <= Len(txs)
    BY DEF TypeOK
  <2>3. /\ calls' \in [Calls -> Call] /\ calls'[c].tx = 0
        /\ \A d \in Calls : d # c => calls'[d] = calls[d]
    BY <1>2, BeginsClean
  <2>4. QED BY <2>1, <2>2, <2>3 DEF TypeOK
<1>3. ASSUME NEW c \in Calls, Submit(c) PROVE Client
  <2>1. UNCHANGED landed /\ Len(landed) \in Nat
    BY <1>3 DEF Submit, TypeOK
  <2>2. ASSUME NEW d \in Calls PROVE calls'[d].tx <= Len(txs')
    <3>1. Len(txs') = Len(txs) + 1 /\ (d = c => calls'[d].tx = Len(txs) + 1)
          /\ (d # c => calls'[d] = calls[d])
      BY <1>3, SubmitAppends
    <3>2. calls[d].tx \in Nat /\ calls[d].tx <= Len(txs) /\ Len(txs) \in Nat
      BY CallsTyped
    <3>3. QED BY <3>1, <3>2
  <2>3. ASSUME NEW t \in DOMAIN txs' PROVE txs'[t].seen <= Len(landed)
    <3>1. CASE t = Len(txs) + 1
      <4>1. txs'[t] = [sub |-> calls[c].sub, kind |-> KindFor(calls[c].sub.vault),
                       status |-> "flight", seen |-> Len(landed)]
        BY <1>3, <3>1, SubmitAppends
      <4>2. QED BY <2>1, <4>1
    <3>2. CASE t # Len(txs) + 1
      <4>1. t \in DOMAIN txs /\ txs'[t] = txs[t]
        BY <1>3, <3>2, SubmitAppends
      <4>2. QED BY <4>1 DEF TypeOK
    <3>3. QED BY <3>1, <3>2
  <2>4. DOMAIN txs \subseteq DOMAIN txs'
    BY <1>3, SubmitAppends
  <2>5. calls' \in [Calls -> Call] /\ txs' \in Seq(Tx)
    BY <1>3, SubmitAppends
  <2>6. QED BY <2>1, <2>2, <2>3, <2>4, <2>5 DEF TypeOK
<1>4. ASSUME NEW c \in Calls, ReadFails(c) \/ Confirm(c) \/ Reject(c) PROVE Client
  <2>1. UNCHANGED <<txs, landed>>
    BY <1>4 DEF ReadFails, Confirm, Reject
  <2>2. PICK ph \in {"resolved", "rejected"}, e \in Error : Settled(c, ph, e)
    BY <1>4 DEF ReadFails, Confirm, Reject, Error
  <2>3. calls' \in [Calls -> Call] /\ calls'[c].tx = calls[c].tx
        /\ \A d \in Calls : d # c => calls'[d] = calls[d]
    BY <2>2, SettledKeeps
  <2>4. QED BY <2>1, <2>3 DEF TypeOK
<1>5. ASSUME NEW t \in DOMAIN txs, Land(t) PROVE Client
  <2>1. PICK st \in {"refused", "Ok"} : txs' = [txs EXCEPT ![t].status = st]
    BY <1>5 DEF Land
  <2>2. /\ txs' \in Seq(Tx) /\ DOMAIN txs' = DOMAIN txs /\ Len(txs') = Len(txs)
        /\ \A s \in DOMAIN txs : txs'[s].seen = txs[s].seen
    BY <2>1, OutcomeGiven
  <2>3. CASE UNCHANGED landed
    BY <1>5, <2>2, <2>3 DEF Land, TypeOK
  <2>4. CASE landed' = Append(landed, t)
    <3>1. \A s \in DOMAIN txs : txs[s].seen \in Nat /\ txs[s].seen <= Len(landed)
      BY TxsTyped DEF TypeOK
    <3>2. /\ landed' \in Seq(Nat)
          /\ \A s \in DOMAIN txs' : txs'[s].seen <= Len(landed')
      BY <2>2, <2>4, <3>1, LogAppends
    <3>3. \A i \in DOMAIN landed' : landed'[i] \in DOMAIN txs'
      <4>1. ASSUME NEW i \in DOMAIN landed' PROVE landed'[i] = t \/ i \in DOMAIN landed
        BY <2>4, LogAppends
      <4>2. QED BY <2>2, <2>4, <4>1, LogAppends DEF TypeOK
    <3>4. QED BY <1>5, <2>2, <3>2, <3>3 DEF Land, TypeOK
  <2>5. QED BY <1>5, <2>3, <2>4 DEF Land
<1>6. ASSUME NEW t \in DOMAIN txs, Drop(t) PROVE Client
  <2>1. txs' = [txs EXCEPT ![t].status = "dropped"] /\ UNCHANGED <<calls, landed>>
    BY <1>6 DEF Drop
  <2>2. /\ txs' \in Seq(Tx) /\ DOMAIN txs' = DOMAIN txs /\ Len(txs') = Len(txs)
        /\ \A s \in DOMAIN txs : txs'[s].seen = txs[s].seen
    BY <2>1, OutcomeGiven
  <2>3. QED BY <2>1, <2>2 DEF TypeOK
<1>7. ASSUME UNCHANGED <<calls, txs, landed>> PROVE Client
  BY <1>7 DEF TypeOK
<1>8. Client
  <2> HIDE DEF Client
  <2>1. QED BY <1>2, <1>3, <1>4, <1>5, <1>6, <1>7 DEF Next, Tick, vars
<1>9. QED BY <1>1, <1>8 DEF TypeOK

-----------------------------------------------------------------------------
(* The log.                                                                *)

(* A step that leaves accounts, transactions and log alone disturbs none   *)
(* of the parts that speak of them.                                        *)
LEMMA LogUntouched ==
  ASSUME LogInv, UNCHANGED <<exists, policy, txs, landed>>
  PROVE  /\ LandedAreOk' /\ TxsWellFormed' /\ KindFits' /\ OwnersAreVaults'
         /\ PolicyIsLastLanded' /\ RefusedOnlyIfOvertaken'
<1>1. \A v : LandedFor(v)' = LandedFor(v)
  BY DEF LandedFor
<1>2. LandedAreOk' /\ TxsWellFormed' /\ OwnersAreVaults'
  BY DEF LogInv, LandedAreOk, TxsWellFormed, WellFormed, OwnersAreVaults
<1>3. KindFits'
  BY <1>1 DEF LogInv, KindFits
<1>4. PolicyIsLastLanded'
  BY <1>1 DEF LogInv, PolicyIsLastLanded, IsLatest
<1>5. RefusedOnlyIfOvertaken'
  BY <1>1 DEF LogInv, RefusedOnlyIfOvertaken, Signed
<1>6. QED BY <1>2, <1>3, <1>4, <1>5

(* A step that moves one call only keeps the invariant if it leaves that   *)
(* call sound.                                                             *)
LEMMA OneCallMoves ==
  ASSUME LogInv, NEW c \in Calls, UNCHANGED <<exists, policy, txs, landed>>,
         \A d \in Calls : d # c => calls'[d] = calls[d],
         calls'[c].phase \in {"reading", "resolved", "rejected"},
         calls'[c].phase = "reading" => WellFormed(calls'[c].sub),
         calls'[c].phase = "resolved" =>
           /\ calls'[c].tx \in DOMAIN txs /\ txs[calls'[c].tx].sub = calls'[c].sub
           /\ txs[calls'[c].tx].status = "Ok"
  PROVE  LogInv'
<1>1. CallsHoldTheirTxs'
  BY DEF LogInv, CallsHoldTheirTxs, WellFormed
<1>2. QED BY <1>1, LogUntouched DEF LogInv

(* Submitting: the kind of the new transaction is what the account says,   *)
(* and the account is there exactly when something has landed.             *)
LEMMA SubmitKeeps ==
  ASSUME IInv, NEW c \in Calls, Submit(c)
  PROVE  LogInv'
<1> DEFINE t0 == Len(txs) + 1
<1> HIDE DEF t0
<1>1. TypeOK /\ LogInv
  BY DEF IInv
<1>2. /\ UNCHANGED <<exists, policy, landed>> /\ calls[c].phase = "reading"
  BY DEF Submit, chainVars
<1>3. /\ \A t \in DOMAIN txs : t \in DOMAIN txs' /\ t # t0 /\ txs'[t] = txs[t]
      /\ \A t \in DOMAIN txs' : t # t0 => t \in DOMAIN txs
      /\ t0 \in DOMAIN txs'
      /\ txs'[t0] = [sub |-> calls[c].sub, kind |-> KindFor(calls[c].sub.vault),
                     status |-> "flight", seen |-> Len(landed)]
      /\ calls'[c].phase = "waiting" /\ calls'[c].tx = t0 /\ calls'[c].sub = calls[c].sub
      /\ \A d \in Calls : d # c => calls'[d] = calls[d]
  BY <1>1, SubmitAppends DEF t0
<1>4. /\ txs'[t0].sub = calls[c].sub /\ txs'[t0].kind = KindFor(calls[c].sub.vault)
      /\ txs'[t0].status = "flight" /\ txs'[t0].seen = Len(landed)
  BY <1>3
<1>5. \A i \in DOMAIN landed : landed[i] \in DOMAIN txs /\ txs'[landed[i]] = txs[landed[i]]
  BY <1>1, <1>3 DEF TypeOK
<1>6. \A v : LandedFor(v)' = LandedFor(v)
  BY <1>2, <1>5 DEF LandedFor
<1>7. CallsHoldTheirTxs'
  <2>1. ASSUME NEW d \in Calls, d # c
        PROVE  /\ calls'[d].phase \in {"waiting", "resolved"} =>
                    calls'[d].tx \in DOMAIN txs' /\ txs'[calls'[d].tx].sub = calls'[d].sub
               /\ calls'[d].phase = "resolved" => txs'[calls'[d].tx].status = "Ok"
               /\ calls'[d].phase = "reading" => WellFormed(calls'[d].sub)
    BY <1>1, <1>3, <2>1 DEF LogInv, CallsHoldTheirTxs
  <2>2. QED BY <1>3, <1>4, <2>1 DEF CallsHoldTheirTxs, WellFormed
<1>8. LandedAreOk'
  BY <1>1, <1>2, <1>3, <1>4, <1>5 DEF LogInv, LandedAreOk
<1>9. TxsWellFormed'
  <2>1. WellFormed(txs'[t0].sub)
    BY <1>1, <1>2, <1>4 DEF LogInv, CallsHoldTheirTxs
  <2>2. QED BY <1>1, <1>3, <2>1 DEF LogInv, TxsWellFormed, WellFormed
<1>10. KindFits'
  <2>1. ASSUME NEW t \in DOMAIN txs', t # t0
        PROVE  txs'[t].kind = "update" <=> \E i \in LandedFor(txs'[t].sub.vault) : i <= txs'[t].seen
    BY <1>1, <1>3, <2>1 DEF LogInv, KindFits
  <2>2. txs'[t0].kind = "update" <=> \E i \in LandedFor(txs'[t0].sub.vault) : i <= txs'[t0].seen
    <3>1. calls[c].sub.vault \in Vaults
      BY <1>1, CallsTyped
    <3>2. txs'[t0].kind = "update" <=> LandedFor(txs'[t0].sub.vault) # {}
      BY <1>1, <1>4, <3>1 DEF KindFor, LogInv, PolicyIsLastLanded
    <3>3. \A i \in LandedFor(txs'[t0].sub.vault) : i <= Len(landed)
      BY <1>1 DEF LandedFor, TypeOK
    <3>4. QED BY <1>4, <3>2, <3>3
  <2>3. QED BY <1>6, <2>1, <2>2 DEF KindFits
<1>11. OwnersAreVaults'
  BY <1>1, <1>2 DEF LogInv, OwnersAreVaults
<1>12. PolicyIsLastLanded'
  BY <1>1, <1>2, <1>5, <1>6 DEF LogInv, PolicyIsLastLanded, IsLatest
<1>13. RefusedOnlyIfOvertaken'
  <2>1. ASSUME NEW t \in DOMAIN txs', Signed(txs'[t]), txs'[t].status = "refused"
        PROVE  \E i \in LandedFor(txs'[t].sub.vault) : i > txs'[t].seen
    <3>1. t \in DOMAIN txs /\ txs'[t] = txs[t]
      BY <1>3, <1>4, <2>1
    <3>2. QED BY <1>1, <2>1, <3>1 DEF LogInv, RefusedOnlyIfOvertaken
  <2>2. QED BY <1>6, <2>1 DEF RefusedOnlyIfOvertaken, Signed
<1>14. QED BY <1>7, <1>8, <1>9, <1>10, <1>11, <1>12, <1>13 DEF LogInv

(* A transaction that lands or is dropped changes nobody's submission: the *)
(* calls, and what the other transactions say, are as before.              *)
LEMMA OutcomeKeepsCalls ==
  ASSUME IInv, NEW t \in DOMAIN txs, NEW st \in {"dropped", "refused", "Ok"},
         txs[t].status = "flight", txs' = [txs EXCEPT ![t].status = st], UNCHANGED calls
  PROVE  CallsHoldTheirTxs' /\ TxsWellFormed'
<1>1. /\ DOMAIN txs' = DOMAIN txs
      /\ \A s \in DOMAIN txs : txs'[s].sub = txs[s].sub
      /\ \A s \in DOMAIN txs : s # t => txs'[s] = txs[s]
  BY OutcomeGiven DEF IInv
<1>2. CallsHoldTheirTxs'
  BY <1>1 DEF IInv, LogInv, CallsHoldTheirTxs, WellFormed
<1>3. TxsWellFormed'
  BY <1>1 DEF IInv, LogInv, TxsWellFormed, WellFormed
<1>4. QED BY <1>2, <1>3

(* An outcome that leaves account and log alone: if the program refused    *)
(* the vault's transaction, another one for the vault has overtaken it.    *)
LEMMA FailureKeeps ==
  ASSUME IInv, NEW t \in DOMAIN txs, NEW st \in {"dropped", "refused"},
         txs[t].status = "flight", txs' = [txs EXCEPT ![t].status = st],
         UNCHANGED <<chainVars, calls, landed>>,
         st = "refused" /\ Signed(txs[t]) =>
           \E i \in LandedFor(txs[t].sub.vault) : i > txs[t].seen
  PROVE  LogInv'
<1>1. TypeOK /\ LogInv /\ UNCHANGED <<exists, policy>>
  BY DEF IInv, chainVars
<1>2. /\ DOMAIN txs' = DOMAIN txs /\ txs'[t].status = st
      /\ txs'[t].sub = txs[t].sub /\ txs'[t].kind = txs[t].kind /\ txs'[t].seen = txs[t].seen
      /\ \A s \in DOMAIN txs : s # t => txs'[s] = txs[s]
  BY <1>1, OutcomeGiven
<1>3. CallsHoldTheirTxs' /\ TxsWellFormed'
  BY OutcomeKeepsCalls
<1>4. \A i \in DOMAIN landed : landed[i] \in DOMAIN txs /\ landed[i] # t
  BY <1>1 DEF TypeOK, LogInv, LandedAreOk
<1>5. \A v : LandedFor(v)' = LandedFor(v)
  BY <1>2, <1>4 DEF LandedFor
<1>6. LandedAreOk'
  BY <1>1, <1>2, <1>4 DEF LogInv, LandedAreOk
<1>7. KindFits'
  BY <1>1, <1>2, <1>5 DEF LogInv, KindFits
<1>8. OwnersAreVaults'
  BY <1>1 DEF LogInv, OwnersAreVaults
<1>9. PolicyIsLastLanded'
  BY <1>1, <1>2, <1>4, <1>5 DEF LogInv, PolicyIsLastLanded, IsLatest
<1>10. RefusedOnlyIfOvertaken'
  BY <1>1, <1>2, <1>5 DEF LogInv, RefusedOnlyIfOvertaken, Signed
<1>11. QED BY <1>3, <1>6, <1>7, <1>8, <1>9, <1>10 DEF LogInv

(* What an instruction that succeeds does to the accounts.                 *)
LEMMA EffectiveWrites ==
  ASSUME TypeOK, OwnersAreVaults, NEW t \in DOMAIN txs, Effective(txs[t])
  PROVE  LET v == txs[t].sub.vault IN
         /\ txs[t].sub.signer = v
         /\ exists' = exists \cup {v}
         /\ policy'[v].ciphertext = txs[t].sub.ciphertext /\ policy'[v].owningVault = v
         /\ \A w \in Vaults : w # v => policy'[w] = policy[w]
<1> DEFINE v == txs[t].sub.vault
           ct == txs[t].sub.ciphertext
<1> HIDE DEF v, ct
<1>1. v \in Vaults
  BY TxsTyped DEF v
<1>2. txs[t].sub.signer = v
  BY DEF Effective, Signed, v
<1>3. policy \in [Vaults -> Account] /\ policy[v] \in Account
      /\ policy[v].owningVault = v
  BY <1>1 DEF TypeOK, AccountsTyped, OwnersAreVaults
<1>4. CASE Chain!InitPolicy(v, ct, ArciumHandle)
  <2>1. policy' = [policy EXCEPT ![v] =
          [owningVault |-> v, ciphertext |-> ct, handle |-> ArciumHandle,
           hash |-> XorFold(ct, ArciumHandle), updatedAt |-> clock, lastCheckAt |-> 0]]
        /\ exists' = exists \cup {v}
    BY <1>4, SameFold DEF Chain!InitPolicy
  <2>2. QED BY <1>1, <1>2, <1>3, <2>1 DEF v, ct
<1>5. CASE Chain!UpdatePolicy(v, v, ct, ArciumHandle)
  <2>1. /\ v \in exists /\ exists' = exists
        /\ policy' = [policy EXCEPT ![v].ciphertext = ct, ![v].handle = ArciumHandle,
                        ![v].hash = XorFold(ct, ArciumHandle), ![v].updatedAt = clock]
    BY <1>5, SameFold DEF Chain!UpdatePolicy, Chain!MayUpdate
  <2> DEFINE x == XorFold(ct, ArciumHandle)
  <2> HIDE DEF x
  <2>2. policy'[v] = [policy[v] EXCEPT !.ciphertext = ct, !.handle = ArciumHandle,
                        !.hash = x, !.updatedAt = clock]
    BY <1>1, <1>3, <2>1 DEF x
  <2>3. policy'[v].ciphertext = ct /\ policy'[v].owningVault = v
    BY <1>3, <2>2 DEF Account
  <2>4. \A w \in Vaults : w # v => policy'[w] = policy[w]
    BY <1>1, <1>3, <2>1
  <2>5. QED BY <1>2, <2>1, <2>3, <2>4 DEF v, ct
<1>6. QED BY <1>2, <1>4, <1>5 DEF Effective, v, ct

(* A success is logged, and is what the account of its vault then says.    *)
LEMMA SuccessKeeps ==
  ASSUME IInv, NEW t \in DOMAIN txs, txs[t].status = "flight", Effective(txs[t]),
         txs' = [txs EXCEPT ![t].status = "Ok"], landed' = Append(landed, t), UNCHANGED calls
  PROVE  LogInv'
<1> DEFINE v == txs[t].sub.vault
           n == Len(landed) + 1
<1> HIDE DEF v, n
<1>1. TypeOK /\ LogInv
  BY DEF IInv
<1>2. /\ DOMAIN txs' = DOMAIN txs /\ txs'[t].status = "Ok"
      /\ txs'[t].sub = txs[t].sub /\ txs'[t].kind = txs[t].kind /\ txs'[t].seen = txs[t].seen
      /\ \A s \in DOMAIN txs : s # t => txs'[s] = txs[s]
  BY <1>1, OutcomeGiven
<1>3. CallsHoldTheirTxs' /\ TxsWellFormed'
  BY OutcomeKeepsCalls
<1>4. /\ n \in Nat /\ DOMAIN landed' = DOMAIN landed \cup {n} /\ landed'[n] = t
      /\ \A i \in DOMAIN landed : i \in Nat /\ i < n /\ landed'[i] = landed[i]
  <2>1. n \in Nat /\ DOMAIN landed = 1 .. n - 1 /\ DOMAIN landed' = 1 .. n /\ n >= 1
    BY <1>1, LogAppends DEF n
  <2>2. landed'[n] = t /\ \A i \in DOMAIN landed : landed'[i] = landed[i]
    BY <1>1, LogAppends DEF n
  <2>3. QED BY <2>1, <2>2
<1>5. \A i \in DOMAIN landed : landed[i] \in DOMAIN txs /\ landed[i] # t
  BY <1>1 DEF TypeOK, LogInv, LandedAreOk
<1>6. ASSUME NEW w PROVE LandedFor(w)' = IF w = v THEN LandedFor(w) \cup {n} ELSE LandedFor(w)
  BY <1>2, <1>4, <1>5 DEF LandedFor, v
<1>7. /\ txs[t].sub.signer = v /\ exists' = exists \cup {v}
      /\ policy'[v].ciphertext = txs[t].sub.ciphertext /\ policy'[v].owningVault = v
      /\ \A w \in Vaults : w # v => policy'[w] = policy[w]
  BY <1>1, EffectiveWrites DEF LogInv, v
<1>8. LandedAreOk'
  <2>1. \A i \in DOMAIN landed' : txs'[landed'[i]].status = "Ok"
    BY <1>1, <1>2, <1>4, <1>5 DEF LogInv, LandedAreOk
  <2>2. ASSUME NEW s \in DOMAIN txs', txs'[s].status = "Ok"
        PROVE  \E i \in DOMAIN landed' : landed'[i] = s
    <3>1. CASE s = t
      BY <1>4, <3>1
    <3>2. CASE s # t
      BY <1>1, <1>2, <1>4, <2>2, <3>2 DEF LogInv, LandedAreOk
    <3>3. QED BY <3>1, <3>2
  <2>3. QED BY <2>1, <2>2 DEF LandedAreOk
<1>9. KindFits'
  <2>1. ASSUME NEW s \in DOMAIN txs, NEW w, txs[s].sub.vault = w
        PROVE  txs'[s].kind = "update" <=> \E i \in LandedFor(w)' : i <= txs'[s].seen
    <3>1. txs'[s].kind = txs[s].kind /\ txs'[s].seen = txs[s].seen
      BY <1>2
    <3>2. txs[s].seen \in Nat /\ txs[s].seen < n
      BY <1>1, TxsTyped DEF TypeOK, n
    <3>3. txs[s].kind = "update" <=> \E i \in LandedFor(w) : i <= txs[s].seen
      BY <1>1, <2>1 DEF LogInv, KindFits
    <3>4. ~ (n <= txs[s].seen)
      BY <1>4, <3>2
    <3>5. QED BY <1>6, <3>1, <3>3, <3>4
  <2>2. QED BY <1>2, <2>1 DEF KindFits
<1>10. OwnersAreVaults'
  BY <1>1, <1>7 DEF LogInv, OwnersAreVaults
<1>11. PolicyIsLastLanded'
  <2>1. ASSUME NEW w \in Vaults
        PROVE  /\ w \in exists' <=> LandedFor(w)' # {}
               /\ \A i \in DOMAIN landed' : IsLatest(i, w)' =>
                    /\ policy'[w].ciphertext = txs'[landed'[i]].sub.ciphertext
                    /\ txs'[landed'[i]].sub.signer = w
    <3>1. w \in exists' <=> LandedFor(w)' # {}
      BY <1>1, <1>6, <1>7 DEF LogInv, PolicyIsLastLanded
    <3>2. ASSUME NEW i \in DOMAIN landed', IsLatest(i, w)', w = v
          PROVE  /\ policy'[w].ciphertext = txs'[landed'[i]].sub.ciphertext
                 /\ txs'[landed'[i]].sub.signer = w
      <4>1. n \in LandedFor(w)' /\ n <= i
        BY <1>6, <3>2 DEF IsLatest
      <4>2. i = n
        BY <1>4, <4>1
      <4>3. QED BY <1>2, <1>4, <1>7, <3>2, <4>2
    <3>3. ASSUME NEW i \in DOMAIN landed', IsLatest(i, w)', w # v
          PROVE  /\ policy'[w].ciphertext = txs'[landed'[i]].sub.ciphertext
                 /\ txs'[landed'[i]].sub.signer = w
      <4>1. i \in DOMAIN landed /\ IsLatest(i, w)
        BY <1>6, <3>3 DEF IsLatest, LandedFor
      <4>2. /\ policy[w].ciphertext = txs[landed[i]].sub.ciphertext
            /\ txs[landed[i]].sub.signer = w
        BY <1>1, <4>1 DEF LogInv, PolicyIsLastLanded
      <4>3. QED BY <1>2, <1>4, <1>5, <1>7, <3>3, <4>1, <4>2
    <3>4. QED BY <3>1, <3>2, <3>3
  <2>2. QED BY <2>1 DEF PolicyIsLastLanded
<1>12. RefusedOnlyIfOvertaken'
  <2>1. ASSUME NEW s \in DOMAIN txs, NEW w, txs[s].sub.vault = w,
               Signed(txs[s])', txs'[s].status = "refused"
        PROVE  \E i \in LandedFor(w)' : i > txs'[s].seen
    <3>1. txs'[s] = txs[s]
      BY <1>2, <2>1
    <3>2. PICK i \in LandedFor(w) : i > txs[s].seen
      BY <1>1, <2>1, <3>1 DEF LogInv, RefusedOnlyIfOvertaken, Signed
    <3>3. QED BY <1>6, <3>1, <3>2
  <2>2. QED BY <1>2, <2>1 DEF RefusedOnlyIfOvertaken
<1>13. QED BY <1>3, <1>8, <1>9, <1>10, <1>11, <1>12 DEF LogInv

(* The program refuses a vault's transaction only if the read that chose   *)
(* its kind is out of date.                                                *)
LEMMA RefusalIsOvertaken ==
  ASSUME IInv, NEW t \in DOMAIN txs, Ineffective(txs[t])
  PROVE  /\ UNCHANGED chainVars
         /\ Signed(txs[t]) => \E i \in LandedFor(txs[t].sub.vault) : i > txs[t].seen
<1> DEFINE v == txs[t].sub.vault
<1>1. TypeOK /\ LogInv /\ v \in Vaults
  BY TxsTyped DEF IInv
<1>2. UNCHANGED chainVars
  BY DEF Ineffective, Chain!RefuseInit, Chain!RefuseUpdate, Chain!vars, chainVars
<1>3. v \in exists <=> LandedFor(v) # {}
  BY <1>1 DEF LogInv, PolicyIsLastLanded
<1>4. txs[t].kind = "update" <=> \E i \in LandedFor(v) : i <= txs[t].seen
  BY <1>1 DEF LogInv, KindFits
<1>5. txs[t].seen \in Nat /\ \A i \in LandedFor(v) : i \in Nat
  BY <1>1, TxsTyped DEF LandedFor, TypeOK
<1>6. ASSUME Signed(txs[t]) PROVE \E i \in LandedFor(v) : i > txs[t].seen
  <2>1. CASE txs[t].kind = "init" /\ v \in exists
    BY <1>3, <1>4, <1>5, <2>1
  <2>2. CASE txs[t].kind = "update" /\ ~ Chain!MayUpdate(v, txs[t].sub.signer)
    <3>1. v \in exists
      BY <1>3, <1>4, <2>2
    <3>2. txs[t].sub.signer = v /\ policy[v].owningVault = v
      BY <1>1, <1>6 DEF Signed, LogInv, OwnersAreVaults
    <3>3. QED BY <2>2, <3>1, <3>2 DEF Chain!MayUpdate
  <2>3. QED BY <1>6, <2>1, <2>2 DEF Ineffective, Chain!RefuseInit, Chain!RefuseUpdate
<1>7. QED BY <1>2, <1>6

(* Every step keeps the invariant of the log.                              *)
LEMMA LogPreserved == IInv /\ [Next]_vars => LogInv'
<1> SUFFICES ASSUME IInv, [Next]_vars PROVE LogInv'
  OBVIOUS
<1>1. TypeOK /\ LogInv
  BY DEF IInv
<1>2. ASSUME NEW c \in Calls, NEW s \in Submissions, RefuseLocally(c, s) \/ Begin(c, s)
      PROVE  LogInv'
  <2>1. UNCHANGED <<exists, policy, txs, landed>>
    BY <1>2 DEF RefuseLocally, Begin, chainVars
  <2>2. QED BY <1>1, <1>2, <2>1, BeginsClean, OneCallMoves
<1>3. ASSUME NEW c \in Calls, Submit(c) PROVE LogInv'
  BY <1>3, SubmitKeeps
<1>4. ASSUME NEW c \in Calls, ReadFails(c) \/ Confirm(c) \/ Reject(c) PROVE LogInv'
  <2>1. UNCHANGED <<exists, policy, txs, landed>>
    BY <1>4 DEF ReadFails, Confirm, Reject, chainVars
  <2>2. PICK ph \in {"resolved", "rejected"}, e \in Error :
          /\ Settled(c, ph, e)
          /\ ph = "resolved" => /\ calls[c].phase = "waiting"
                                /\ txs[calls[c].tx].status = "Ok"
    BY <1>4 DEF ReadFails, Confirm, Reject, Error
  <2>3. /\ calls'[c].phase = ph /\ calls'[c].tx = calls[c].tx /\ calls'[c].sub = calls[c].sub
        /\ \A d \in Calls : d # c => calls'[d] = calls[d]
    BY <1>1, <2>2, SettledKeeps
  <2>4. ph = "resolved" => /\ calls[c].tx \in DOMAIN txs /\ txs[calls[c].tx].sub = calls[c].sub
                           /\ txs[calls[c].tx].status = "Ok"
    BY <1>1, <2>2 DEF LogInv, CallsHoldTheirTxs
  <2>5. QED BY <1>1, <2>1, <2>3, <2>4, OneCallMoves
<1>5. ASSUME NEW t \in DOMAIN txs, Land(t) PROVE LogInv'
  <2>1. CASE /\ Effective(txs[t])
             /\ txs' = [txs EXCEPT ![t].status = "Ok"]
             /\ landed' = Append(landed, t)
    BY <1>5, <2>1, SuccessKeeps DEF Land
  <2>2. CASE /\ Ineffective(txs[t])
             /\ txs' = [txs EXCEPT ![t].status = "refused"]
             /\ UNCHANGED landed
    BY <1>5, <2>2, RefusalIsOvertaken, FailureKeeps DEF Land
  <2>3. QED BY <1>5, <2>1, <2>2 DEF Land
<1>6. ASSUME NEW t \in DOMAIN txs, Drop(t) PROVE LogInv'
  BY <1>6, FailureKeeps DEF Drop
<1>7. ASSUME UNCHANGED <<exists, policy, calls, txs, landed>> PROVE LogInv'
  BY <1>1, <1>7, LogUntouched DEF LogInv, CallsHoldTheirTxs, WellFormed
<1>8. ASSUME Tick \/ UNCHANGED vars PROVE LogInv'
  BY <1>7, <1>8 DEF Tick, Chain!Tick, vars
<1>9. QED BY <1>2, <1>3, <1>4, <1>5, <1>6, <1>8 DEF Next

(* At the start there is no account, no transaction and no log.            *)
LEMMA InitIInv == Init => IInv
<1> SUFFICES ASSUME Init PROVE IInv
  OBVIOUS
<1>1. AccountsTyped
  <2>1. \A v \in Vaults : Chain!Blank(v) \in Account
    BY AccountAssumption DEF Chain!Blank, Account, Bits, Bit
  <2>2. QED BY <2>1, AccountAssumption DEF Init, Chain!Init, AccountsTyped
<1>2. (CHOOSE s \in Submissions : TRUE) \in Submissions
  BY SubmissionsAssumption
<1>3. /\ calls \in [Calls -> Call]
      /\ \A c \in Calls : calls[c].phase = "idle" /\ calls[c].tx = 0
  BY <1>2 DEF Init, Idle, Call, Error
<1>4. txs = <<>> /\ landed = <<>>
  BY DEF Init
<1>5. TypeOK
  BY <1>1, <1>3, <1>4 DEF TypeOK
<1>6. CallsHoldTheirTxs
  BY <1>3 DEF CallsHoldTheirTxs
<1>7. LandedAreOk /\ TxsWellFormed /\ KindFits /\ RefusedOnlyIfOvertaken
  BY <1>4 DEF LandedAreOk, TxsWellFormed, KindFits, RefusedOnlyIfOvertaken
<1>8. OwnersAreVaults
  BY DEF Init, Chain!Init, Chain!Blank, OwnersAreVaults
<1>9. PolicyIsLastLanded
  <2>1. \A v : LandedFor(v) = {}
    BY <1>4 DEF LandedFor
  <2>2. exists = {}
    BY DEF Init, Chain!Init
  <2>3. QED BY <2>1, <2>2 DEF PolicyIsLastLanded, IsLatest
<1>10. QED BY <1>5, <1>6, <1>7, <1>8, <1>9 DEF IInv, LogInv

-----------------------------------------------------------------------------
(* The theorems.                                                           *)

(* The inductive invariant holds in every behaviour.                       *)
THEOREM Invariance == Spec => []IInv
<1>1. IInv /\ [Next]_vars => IInv'
  BY TypePreserved, LogPreserved DEF IInv, LogInv
<1>2. QED BY <1>1, InitIInv, PTL DEF Spec

(* Type correctness of the accounts, the calls and the transactions.       *)
THEOREM TypeCorrect == Spec => []TypeOK
<1>1. IInv => TypeOK
  BY DEF IInv
<1>2. QED BY <1>1, Invariance, PTL

(* setEncryptedPolicy, any calls overlapping: what is on the chain is the  *)
(* last submission that landed for the vault, signed by that vault, and    *)
(* there is an account exactly when one has landed.                        *)
THEOREM PolicyCorrect == Spec => []PolicyIsLastLanded
<1>1. IInv => PolicyIsLastLanded
  BY DEF IInv, LogInv
<1>2. QED BY <1>1, Invariance, PTL

(* A call that resolves has written this very submission to the chain.     *)
THEOREM ResolvedCorrect == Spec => []ResolvedHasLanded
<1>1. IInv => ResolvedHasLanded
  BY DEF IInv, LogInv, CallsHoldTheirTxs, LandedAreOk, ResolvedHasLanded
<1>2. QED BY <1>1, Invariance, PTL

(* getAccountInfo before the choice between init and update: a submission  *)
(* that the vault signs is refused only if another one for that vault      *)
(* landed after the read.                                                  *)
THEOREM RefusalCorrect == Spec => []RefusedOnlyIfOvertaken
<1>1. IInv => RefusedOnlyIfOvertaken
  BY DEF IInv, LogInv
<1>2. QED BY <1>1, Invariance, PTL

(* Clients and network do to the accounts what risk_policy lets the        *)
(* vaults do, and nothing else.                                            *)
THEOREM ImplementsChain == Spec => Chain!Spec
<1>1. Init => Chain!Init
  BY DEF Init
<1>2. IInv /\ [Next]_vars => [Chain!Next]_(Chain!vars)
  BY StepOfChain DEF IInv, LogInv
<1>3. QED BY <1>1, <1>2, Invariance, PTL DEF Spec, Chain!Spec

(* So the program's own theorems hold of the clients' accounts.            *)
LEMMA ImplementsProgram == Spec => Program!Spec
<1>1. Init => Program!Init
  BY ChainIsProgram DEF Init
<1>2. IInv /\ [Next]_vars => [Program!Next]_(Program!vars)
  BY StepOfChain, ChainIsProgram DEF IInv, LogInv
<1>3. QED BY <1>1, <1>2, Invariance, PTL DEF Spec, Program!Spec

(* Whatever the clients submit, in whichever order it lands, policy_hash   *)
(* is the fold of the content beside it.                                   *)
THEOREM HashCorrect == Spec => []HashMatchesContent
BY ProgramHashCorrect, ImplementsProgram, PTL
=============================================================================
