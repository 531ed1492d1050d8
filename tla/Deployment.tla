----------------------------- MODULE Deployment -----------------------------
(***************************************************************************)
(* How the addresses that everything else relies on come about.            *)
(* deploy-devnet.ts is a sequence of shell commands, any of which may fail *)
(* and end it, that builds the two programs, deploys them one after the    *)
(* other and at last writes their ids into config/devnet.ts.               *)
(* create-multisig.ts sends a transaction and prints an address for the    *)
(* operator to paste.  The bundled IDLs, which carry a program's address   *)
(* too, are copied by hand.  seed-demo.ts looks at the config,             *)
(* verify-onchain.ts at the chain; the client reads under the id of the    *)
(* config and sends to the address of its IDL.                             *)
(* target/ with the programs' keypairs is not in git, the config, the IDLs *)
(* and declare_id! are.                                                    *)
(***************************************************************************)
EXTENDS Integers, FiniteSets

CONSTANTS
  MaxIds,        \* bound on the program keypairs generated
  MaxMultisigs,  \* bound on the runs of create-multisig
  MaxLosses      \* bound on the times target/ is lost

ASSUME BoundsAssumption == MaxIds \in Nat /\ MaxMultisigs \in Nat /\ MaxLosses \in Nat

Programs == {"risk_policy", "swig_delegation"}
Null == 0        \* no keypair, no build, null in the config, a placeholder id
Nothing == [p \in Programs |-> Null]

VARIABLES
  tree,       \* the working tree: [declared, ids, multisig, agents, bundled]
  committed,  \* what a clone of the repository would hold
  keypair,    \* target/deploy: the id of each program's keypair
  built,      \* the id compiled into target/deploy/*.so and target/idl/*.json
  made,       \* program ids generated so far
  deployed,   \* the chain: per address the id its program believes to have
  multisigs,  \* per createKey the fate of its transaction
  accounts,   \* risk_policy ids under which the operator has a policy
  pc,         \* the next command of deploy-devnet, or "none"
  losses

treeVars == <<tree, committed>>
target == <<keypair, built, made>>
chain == <<deployed, multisigs, accounts>>
vars == <<treeVars, target, chain, pc, losses>>

Fresh == [declared |-> Nothing, ids |-> Nothing, multisig |-> Null, agents |-> FALSE,
          bundled |-> Nothing]

Init ==
  /\ tree = Fresh /\ committed = Fresh
  /\ keypair = Nothing /\ built = Nothing /\ made = 0
  /\ deployed = [i \in 1 .. MaxIds |-> Null]
  /\ multisigs = [m \in 1 .. MaxMultisigs |-> "none"]
  /\ accounts = {}
  /\ pc = "none"
  /\ losses = 0

-----------------------------------------------------------------------------
(* deploy-devnet.                                                          *)

Populated == \A p \in Programs : tree.ids[p] # Null

(* With both ids in the config the script reports them and returns.        *)
Begin ==
  /\ pc = "none"
  /\ ~ Populated
  /\ pc' = "build"
  /\ UNCHANGED <<treeVars, target, chain, losses>>

Missing_Always == Programs
Missing == {p \in Programs : keypair[p] = Null}

NewKey(p) == made + (IF p = "risk_policy" THEN 1 ELSE Cardinality(Missing))

(* anchor build: a keypair for each program that has none, and programs    *)
(* and IDLs that carry the declared ids.                                   *)
Build ==
  /\ pc = "build"
  /\ made + Cardinality(Missing) <= MaxIds
  /\ keypair' = [p \in Programs |-> IF p \in Missing THEN NewKey(p) ELSE keypair[p]]
  /\ made' = made + Cardinality(Missing)
  /\ built' = tree.declared
  /\ pc' = "sync"
  /\ UNCHANGED <<treeVars, chain, losses>>

KeysSync ==
  /\ pc = "sync"
  /\ tree' = [tree EXCEPT !.declared = keypair]
  /\ pc' = "rebuild"
  /\ UNCHANGED <<committed, target, chain, losses>>

Rebuilt_Skipped == built
Rebuilt == tree.declared

Rebuild ==
  /\ pc = "rebuild"
  /\ built' = Rebuilt
  /\ pc' = "deploy risk_policy"
  /\ UNCHANGED <<treeVars, keypair, made, chain, losses>>

(* anchor deploy: to the address of the keypair, a fresh deployment or an  *)
(* upgrade.                                                                *)
Deploy(p, before, after) ==
  /\ pc = before
  /\ deployed' = [deployed EXCEPT ![keypair[p]] = built[p]]
  /\ pc' = after
  /\ UNCHANGED <<treeVars, target, multisigs, accounts, losses>>

DeployRiskPolicy == Deploy("risk_policy", "deploy risk_policy", "deploy swig_delegation")
DeploySwigDelegation == Deploy("swig_delegation", "deploy swig_delegation", "patch")

(* The ids come from the keypair files; a dry run has only a placeholder,  *)
(* and returns before it would write that.                                 *)
DryRunId == -1
PatchedIds_DryRun == [p \in Programs |-> DryRunId]
PatchedIds_Swapped == [p \in Programs |-> keypair[CHOOSE q \in Programs : q # p]]
PatchedIds == keypair

patchConfig ==
  /\ pc = "patch"
  /\ tree' = [tree EXCEPT !.ids = PatchedIds]
  /\ pc' = "none"
  /\ UNCHANGED <<committed, target, chain, losses>>

(* A command fails, the wallet is short, the operator interrupts.          *)
Die ==
  /\ pc # "none"
  /\ pc' = "none"
  /\ UNCHANGED <<treeVars, target, chain, losses>>

-----------------------------------------------------------------------------
(* create-multisig: createKey is new on every run, and the address is      *)
(* printed once the transaction is sent; nobody awaits its confirmation.   *)

CreateMultisig(m) ==
  /\ multisigs[m] = "none"
  /\ multisigs' = [multisigs EXCEPT ![m] = "sent"]
  /\ UNCHANGED <<treeVars, target, deployed, accounts, pc, losses>>

LandMultisig(m, fate) ==
  /\ multisigs[m] = "sent"
  /\ multisigs' = [multisigs EXCEPT ![m] = fate]
  /\ UNCHANGED <<treeVars, target, deployed, accounts, pc, losses>>

(* The operator pastes an address that was printed.                        *)
PasteMultisig(m) ==
  /\ multisigs[m] # "none"
  /\ tree' = [tree EXCEPT !.multisig = m]
  /\ UNCHANGED <<committed, target, chain, pc, losses>>

-----------------------------------------------------------------------------
(* What else happens to the tree.                                          *)

(* register-agents, to its end: see AgentRegistry.                         *)
RegisterAgents ==
  /\ tree' = [tree EXCEPT !.agents = TRUE]
  /\ UNCHANGED <<committed, target, chain, pc, losses>>

(* "copy from programs/target/idl/*.json into this directory".             *)
CopyIdl ==
  /\ built # Nothing
  /\ tree' = [tree EXCEPT !.bundled = built]
  /\ UNCHANGED <<committed, target, chain, pc, losses>>

(* --force is not implemented: who wants to redeploy edits the config.     *)
ResetId(p) ==
  /\ pc = "none"
  /\ tree' = [tree EXCEPT !.ids[p] = Null]
  /\ UNCHANGED <<committed, target, chain, pc, losses>>

Commit ==
  /\ pc = "none"
  /\ committed' = tree
  /\ UNCHANGED <<tree, target, chain, pc, losses>>

(* Another machine, a fresh clone, or a clean build directory.             *)
LoseTarget(kept) ==
  /\ pc = "none"
  /\ losses < MaxLosses
  /\ losses' = losses + 1
  /\ keypair' = Nothing /\ built' = Nothing
  /\ tree' = kept
  /\ UNCHANGED <<committed, made, chain, pc>>

-----------------------------------------------------------------------------
(* The client, with the IDLs of the package or those of target/ that       *)
(* smoke-realclient loads.  The policy account is looked up under the id   *)
(* of the config, the instruction goes to the address of the IDL, where    *)
(* init needs the account to be missing and update needs it to be there;   *)
(* execute_rebalance creates its account if needed.  A program refuses     *)
(* every instruction when its own id is not its address.  Refused calls    *)
(* change nothing and have no action here.                                 *)

Accepts(p, idl, id) ==
  /\ deployed[idl] = idl
  /\ p = "risk_policy" => (id \in accounts <=> idl \in accounts)

Idls(p) == {tree.bundled[p], built[p]} \ {Null}

SubmitPolicy(idl) ==
  /\ tree.ids["risk_policy"] # Null
  /\ Accepts("risk_policy", idl, tree.ids["risk_policy"])
  /\ accounts' = accounts \cup {idl}
  /\ UNCHANGED <<treeVars, target, deployed, multisigs, pc, losses>>

Next ==
  \/ Begin \/ Build \/ KeysSync \/ Rebuild
  \/ DeployRiskPolicy \/ DeploySwigDelegation \/ patchConfig \/ Die
  \/ \E m \in 1 .. MaxMultisigs :
       \/ CreateMultisig(m) \/ PasteMultisig(m)
       \/ LandMultisig(m, "live") \/ LandMultisig(m, "dropped")
  \/ RegisterAgents \/ CopyIdl \/ Commit
  \/ \E p \in Programs : ResetId(p)
  \/ \E idl \in Idls("risk_policy") : SubmitPolicy(idl)
  \/ LoseTarget(tree) \/ LoseTarget(committed)

Spec == Init /\ [][Next]_vars

-----------------------------------------------------------------------------
(* What the scripts that only look find.                                   *)

(* seed-demo, and step 1 of e2e-smoke: the config is populated.            *)
SeedPasses == Populated /\ tree.multisig # Null /\ tree.agents

(* verify-onchain: what the config names is there.                         *)
ProgramIsDeployed(p) == tree.ids[p] # Null /\ deployed[tree.ids[p]] # Null
MultisigIsLive == tree.multisig # Null /\ multisigs[tree.multisig] = "live"
VerifyPasses == (\A p \in Programs : ProgramIsDeployed(p)) /\ MultisigIsLive /\ tree.agents

-----------------------------------------------------------------------------
Id == Null .. MaxIds
Tree == [declared : [Programs -> Id], ids : [Programs -> Id], multisig : 0 .. MaxMultisigs,
         agents : BOOLEAN, bundled : [Programs -> Id]]

TypeOK ==
  /\ tree \in Tree /\ committed \in Tree
  /\ keypair \in [Programs -> Id] /\ built \in [Programs -> Id]
  /\ made \in Id
  /\ deployed \in [1 .. MaxIds -> Id]
  /\ multisigs \in [1 .. MaxMultisigs -> {"none", "sent", "live", "dropped"}]
  /\ accounts \subseteq 1 .. MaxIds
  /\ pc \in {"none", "build", "sync", "rebuild", "deploy risk_policy",
             "deploy swig_delegation", "patch"}
  /\ losses \in 0 .. MaxLosses

(* A demo that passes the preflight of seed-demo finds on the chain what   *)
(* verify-onchain asks for, and programs that answer to their address,     *)
(* whenever deployments died, keypairs were lost or ids were reset; only a *)
(* multisig whose creation was never confirmed may be missing.  (The agent *)
(* NFTs are AgentRegistry's subject; verify-onchain skips or accepts the   *)
(* operator's policy, all of which encryptThreshold has tagged.)           *)
PreflightIsEnough ==
  SeedPasses =>
    /\ VerifyPasses \/ multisigs[tree.multisig] \in {"sent", "dropped"}
    /\ \A p \in Programs : deployed[tree.ids[p]] = tree.ids[p]

IdsOf(p) == {tree.ids[p], committed.ids[p], keypair[p]} \ {Null}

(* A deployment that died anywhere, however often, is resumed at the       *)
(* addresses it had: new programs, and rent paid for them, need the loss   *)
(* of target/.  Two programs per set of keypairs, never more.              *)
DeploymentsNeedLosses ==
  /\ Cardinality({i \in DOMAIN deployed : deployed[i] # Null}) <= 2 * (1 + losses)
  /\ losses = 0 => \A p, q \in Programs : Cardinality(IdsOf(p)) <= 1
                                          /\ (p # q => IdsOf(p) \cap IdsOf(q) = {})

(* A client is refused for its IDL, be it the bundled one, copied by hand  *)
(* at any moment of any deployment, or that of target/, only after a loss  *)
(* of target/; neither is a policy left under an address that the config   *)
(* does not name, where the lookup that chooses between init and update    *)
(* would miss it.                                                          *)
MismatchNeedsLoss ==
  losses = 0 => \A p \in Programs : tree.ids[p] # Null =>
    /\ \A idl \in Idls(p) : Accepts(p, idl, tree.ids[p])
    /\ p = "risk_policy" => accounts \subseteq {tree.ids[p]}
=============================================================================
