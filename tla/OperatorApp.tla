----------------------------- MODULE OperatorApp -----------------------------
(***************************************************************************)
(* The operator's browser tab: a wallet that the user connects, switches   *)
(* and disconnects at any time, the policy page, which submits a threshold *)
(* through setEncryptedPolicy, and the audit page, which subscribes to the *)
(* chain's events for as long as it is mounted with a wallet.  One page is *)
(* mounted at a time; a call goes on when the page that made it is gone.   *)
(* The pages share nothing but the wallet, so a behaviour follows one of   *)
(* them, as the user leaves it and comes back.                             *)
(* The client and risk_policy are PolicyClient, the exits that the audit   *)
(* page shows are those of SwigDelegation.                                 *)
(***************************************************************************)
EXTENDS Integers, Sequences, FiniteSets, Threshold

CONSTANTS
  Wallets,           \* accounts the user holds; each is its policy's vault
  NoWallet,
  Guardian,          \* who executes the exits
  Calls,             \* calls of setEncryptedPolicy that may be pending at once
  DevMultisig,       \* DEV_MULTISIG is set
  Drawdowns,         \* positions of the slider
  HandleLen, TagLen, \* the policy account, see RiskPolicy
  Faults,            \* what may go wrong below the client, see PolicyClient
  RateLimit, StartTime, MaxTime, MaxTxs,
  MaxEvents          \* bound on the exits

ASSUME WalletAssumption ==
  Wallets # {} /\ NoWallet \notin Wallets /\ DevMultisig \in BOOLEAN
(* The slider goes from 100 to 10000, so no position is too wide for a u64.*)
ASSUME DrawdownsAssumption == Drawdowns # {} /\ Drawdowns \subseteq u64
(* Accounts hold bits, as in RiskPolicy: a number that is packed byte by   *)
(* byte, the lowest first, is packed bit by bit, the lowest first.         *)
ASSUME BitsAssumption == Base = 2
ASSUME ClientAssumption ==
  /\ HandleLen \in Nat /\ TagLen \in Nat \ {0} /\ Faults \subseteq {"readError", "timeout", "drop"}
  /\ RateLimit \in Nat \ {0} /\ StartTime \in Nat \ {0} /\ MaxTime \in Nat
ASSUME BoundsAssumption == MaxTxs \in Nat /\ MaxEvents \in Nat

VARIABLES
  clock, exists, policy, calls, txs, landed,   \* PolicyClient
  initialized, lastRebalanced, events,         \* SwigDelegation
  wallet,     \* the connected wallet, or NoWallet
  page,       \* the page followed: "policy" or "audit"
  mounted,    \* it is what the tab shows
  proposal,   \* ProposalState of the policy page, with the call it is about
  mine,       \* pending calls that will set the state of the mounted page
  listeners,  \* the audit page's subscriptions that still deliver
  rows,       \* events of the audit page, as received
  asked       \* history: the latest call of the mounted page, and per call the
              \* wallet and the number on the slider when it was made

policyVars == <<clock, exists, policy, calls, txs, landed>>
exitVars == <<initialized, lastRebalanced, events>>
policyPage == <<proposal, mine, asked>>
auditPage == <<listeners, rows>>
vars == <<policyVars, exitVars, wallet, page, mounted, policyPage, auditPage>>

(* The wallet that is connected when the button is pressed is both vault   *)
(* and signer.                                                             *)
SubmissionOf(w, d) == [vault |-> w, ciphertext |-> encryptThreshold(d), signer |-> w]

Client == INSTANCE PolicyClient WITH
  Vaults <- Wallets, Equipped <- Calls,
  Submissions <- {SubmissionOf(w, d) : w \in Wallets, d \in Drawdowns}

ExitOf(w) == [policy |-> w, guardian |-> Guardian, action |-> "exit", sizeBps |-> 10000,
              maxSlippageBps |-> 100, expectedOut |-> 1000, minOut |-> 995]

Exits == INSTANCE SwigDelegation WITH
  Policies <- Wallets, Guardians <- {Guardian}, Requests <- {ExitOf(w) : w \in Wallets}

NoCall == [kind |-> "idle"]
About(kind, c) == [kind |-> kind, call |-> c]
ProposalState ==
  {NoCall} \cup {About(kind, c) : kind \in {"proposing", "proposed", "error"}, c \in Calls}

Init ==
  /\ Client!Init
  /\ initialized = {} /\ events = <<>>
  /\ lastRebalanced = [w \in Wallets |-> 0]
  /\ wallet = NoWallet
  /\ page \in {"policy", "audit"}
  /\ mounted = FALSE
  /\ proposal = NoCall
  /\ mine = {}
  /\ listeners = {}
  /\ rows = <<>>
  /\ asked = [latest |-> NoCall, of |-> [c \in Calls |-> NoCall]]

-----------------------------------------------------------------------------
(* The policy page.                                                        *)

CanSubmit_WhileProposing == wallet # NoWallet /\ DevMultisig
CanSubmit == wallet # NoWallet /\ DevMultisig /\ proposal.kind # "proposing"

onSubmit(c, d) ==
  /\ page = "policy" /\ mounted
  /\ CanSubmit
  /\ Client!Begin(c, SubmissionOf(wallet, d))
  /\ proposal' = About("proposing", c)
  /\ mine' = mine \cup {c}
  /\ asked' = [latest |-> About("latest", c),
               of |-> [asked.of EXCEPT ![c] = [wallet |-> wallet, drawdown |-> d]]]
  /\ UNCHANGED <<exitVars, wallet, page, mounted, auditPage>>

(* The promise settles: the page that awaits it, if it is still mounted,   *)
(* shows the result, whatever wallet is connected by then.                 *)
Shows(c, kind) ==
  /\ mine' = mine \ {c}
  /\ proposal' = IF c \in mine THEN About(kind, c) ELSE proposal
  /\ UNCHANGED <<exitVars, wallet, page, mounted, auditPage, asked>>

Proposed(c) == Client!Confirm(c) /\ Shows(c, "proposed")

(* The wallet signs with the account that is active when it is asked; the  *)
(* user may decline, and another account's signature is no use.            *)
Sign(c) ==
  /\ wallet = calls[c].sub.signer
  /\ Client!Submit(c)
  /\ UNCHANGED <<exitVars, wallet, page, mounted, policyPage, auditPage>>

NotSigned(c) ==
  /\ calls[c].phase = "reading"
  /\ Client!Settled(c, "rejected", "OnchainRejection")
  /\ UNCHANGED <<clock, exists, policy, txs, landed>>

Failure(c) == Client!Reject(c) \/ Client!ReadFails(c) \/ NotSigned(c)

Failed_Uncaught(c) ==
  /\ Failure(c)
  /\ mine' = mine \ {c}
  /\ UNCHANGED <<exitVars, wallet, page, mounted, proposal, asked, auditPage>>

Failed(c) == Failure(c) /\ Shows(c, "error")

-----------------------------------------------------------------------------
(* The audit page: an effect per wallet, with a cleanup.                   *)

AfterCleanup_Leaks == listeners
AfterCleanup == {}

Subscribed_WithoutWallet(w) ==
  AfterCleanup \cup {[wallet |-> w, from |-> Len(events), got |-> {}]}

(* What the effect leaves behind when it runs for wallet w.                *)
Subscribed(w) ==
  IF w = NoWallet THEN AfterCleanup
  ELSE AfterCleanup \cup {[wallet |-> w, from |-> Len(events), got |-> {}]}

(* A listener hears of events that land while it is subscribed, late, in   *)
(* any order, or not at all.                                               *)
Deliver(l, i) ==
  /\ i > l.from /\ i \notin l.got
  /\ listeners' = (listeners \ {l}) \cup {[l EXCEPT !.got = @ \cup {i}]}
  /\ rows' = <<[policy |-> events[i].policy, ts |-> events[i].ts]>> \o rows
  /\ UNCHANGED <<policyVars, exitVars, wallet, page, mounted, policyPage>>

(* Array.prototype.sort, which is stable: a row's rank is one more than    *)
(* the number of rows that come before it.                                 *)
Before(i, j) ==
  \/ rows[i].ts > rows[j].ts
  \/ rows[i].ts = rows[j].ts /\ i < j
Rank(j) == Cardinality({i \in DOMAIN rows : Before(i, j)}) + 1
Sorted == [k \in DOMAIN rows |-> rows[CHOOSE j \in DOMAIN rows : Rank(j) = k]]

-----------------------------------------------------------------------------
(* The user: connects, switches, disconnects; walks from page to page.     *)

SetWallet(w) ==
  /\ w # wallet
  /\ wallet' = w
  /\ listeners' = IF page = "audit" /\ mounted THEN Subscribed(w) ELSE listeners
  /\ UNCHANGED <<policyVars, exitVars, page, mounted, policyPage, rows>>

(* State lives in the mounted page; what is pending goes on without it.    *)
Mount ==
  /\ ~ mounted
  /\ mounted' = TRUE
  /\ listeners' = IF page = "audit" THEN Subscribed(wallet) ELSE listeners
  /\ UNCHANGED <<policyVars, exitVars, wallet, page, policyPage, rows>>

Unmount ==
  /\ mounted
  /\ mounted' = FALSE
  /\ proposal' = NoCall
  /\ mine' = {}
  /\ asked' = [asked EXCEPT !.latest = NoCall]
  /\ rows' = <<>>
  /\ listeners' = AfterCleanup
  /\ UNCHANGED <<policyVars, exitVars, wallet, page>>

-----------------------------------------------------------------------------
(* The chain.                                                              *)

LandPolicy(t) ==
  /\ Client!Land(t) \/ Client!Drop(t)
  /\ UNCHANGED <<exitVars, wallet, page, mounted, policyPage, auditPage>>

Exit(w) ==
  /\ page = "audit"
  /\ Len(events) < MaxEvents
  /\ Exits!Execute(ExitOf(w))
  /\ UNCHANGED <<exists, policy, calls, txs, landed, wallet, page, mounted, policyPage, auditPage>>

Tick ==
  /\ page = "audit"
  /\ Client!Tick
  /\ UNCHANGED <<exitVars, wallet, page, mounted, policyPage, auditPage>>

Next ==
  \/ \E c \in Calls :
       \/ \E d \in Drawdowns : onSubmit(c, d)
       \/ Sign(c) \/ Proposed(c) \/ Failed(c)
  \/ \E l \in listeners, i \in DOMAIN events : Deliver(l, i)
  \/ \E w \in Wallets \cup {NoWallet} : SetWallet(w)
  \/ Mount \/ Unmount
  \/ \E t \in DOMAIN txs : LandPolicy(t)
  \/ \E w \in Wallets : Exit(w)
  \/ Tick

Spec == Init /\ [][Next]_vars

(* The RPC node answers, the user answers the wallet's prompt, and a       *)
(* transaction lands or expires with its block hash.                       *)
Fairness ==
  /\ \A c \in Calls : WF_vars(Sign(c) \/ Proposed(c) \/ Failed(c))
  /\ \A t \in 1 .. MaxTxs : WF_vars(t \in DOMAIN txs /\ LandPolicy(t))

FairSpec == Spec /\ Fairness

-----------------------------------------------------------------------------
TypeOK ==
  /\ Client!TypeOK
  /\ initialized \subseteq Wallets
  /\ lastRebalanced \in [Wallets -> Nat]
  /\ \A i \in DOMAIN events : events[i] \in Exits!Event
  /\ wallet \in Wallets \cup {NoWallet}
  /\ page \in {"policy", "audit"} /\ mounted \in BOOLEAN
  /\ proposal \in ProposalState /\ mine \subseteq Calls
  /\ \A l \in listeners : l.wallet \in Wallets /\ l.got \subseteq l.from + 1 .. Len(events)
  /\ \A i \in DOMAIN rows : rows[i] \in [policy : Wallets, ts : Nat]

(* What the policy page shows is about the last submission made on it, not *)
(* about one made before the user left and came back, nor one overtaken by *)
(* another click; and "Proposed" means that this submission, with the      *)
(* number that was on the slider and for the wallet that was connected     *)
(* when it was made, has been written to the chain.                        *)
ShownIsLastSubmission ==
  proposal # NoCall =>
    /\ asked.latest = About("latest", proposal.call)
    /\ proposal.kind = "proposed" =>
         LET c == proposal.call
             made == asked.of[c]
         IN \E i \in DOMAIN landed :
              /\ landed[i] = calls[c].tx
              /\ txs[landed[i]].sub = SubmissionOf(made.wallet, made.drawdown)

(* From the slider to the chain and back: as long as no later submission   *)
(* has landed for the wallet, the number that was on the slider when the   *)
(* button was pressed can be read off the account of the wallet that was   *)
(* connected then, whatever wallet and page are active by now, and the     *)
(* bytes carry the tag that marks them as a placeholder.                   *)
StoredIsChosen ==
  \A c \in Calls, i \in DOMAIN landed :
    calls[c].phase = "resolved" /\ landed[i] = calls[c].tx =>
      LET made == asked.of[c]
          stored == policy[made.wallet].ciphertext
      IN Client!IsLatest(i, made.wallet) => HasTag(stored) /\ decrypt(stored) = made.drawdown

(* The audit table shows each exit once, the latest first: two rows of one *)
(* policy are a rate-limit window apart as the exits were, although the    *)
(* events arrive late and in any order, wallets change under the           *)
(* subscription and pages come and go.                                     *)
RowsAreDistinctExits ==
  \A a, b \in DOMAIN Sorted :
    a < b /\ Sorted[a].policy = Sorted[b].policy => Sorted[a].ts - Sorted[b].ts >= RateLimit

(* The button does not stay on "Proposing": whatever becomes of the        *)
(* transaction, the wallet or the node, the page comes back.               *)
ProposalSettles == proposal.kind = "proposing" ~> proposal.kind # "proposing"
=============================================================================
