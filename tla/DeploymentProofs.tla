-------------------------- MODULE DeploymentProofs --------------------------
(***************************************************************************)
(* deploy-devnet and the hands around it, for any number of keypairs,      *)
(* multisigs and losses of target/.  The argument follows an id from its   *)
(* keypair to the config: keypairs are numbered in the order they are      *)
(* made, the script deploys nothing that it has not rebuilt under the id   *)
(* of the keypair, and an id reaches a config, the one in the tree or the  *)
(* committed one, only after both programs are deployed.  As long as       *)
(* target/ is there, so is the keypair, and nothing derived from it stales.*)
(***************************************************************************)
EXTENDS Deployment, FiniteSetTheorems, TLAPS

(* What the script has achieved before each of its commands.               *)
AfterBuild == {"sync", "rebuild", "deploy risk_policy", "deploy swig_delegation", "patch"}
AfterSync == AfterBuild \ {"sync"}
AfterRebuild == AfterSync \ {"rebuild"}
AfterFirst == AfterRebuild \ {"deploy risk_policy"}

Answers(i) == deployed[i] = i

ScriptProgress ==
  /\ pc \in AfterBuild => \A p \in Programs : keypair[p] # Null
  /\ pc \in AfterSync => tree.declared = keypair
  /\ pc \in AfterRebuild => built = keypair
  /\ pc \in AfterFirst => Answers(keypair["risk_policy"])
  /\ pc = "patch" => Answers(keypair["swig_delegation"])

(* Keypairs are what was made, and no two programs share one.              *)
KeysDistinct ==
  /\ \A p \in Programs : keypair[p] <= made
  /\ \A p, q \in Programs : p # q /\ keypair[p] = keypair[q] => keypair[p] = Null

(* A program on the chain believes in its own address, which is one of     *)
(* those made.                                                             *)
ChainSound ==
  \A i \in 1 .. MaxIds : deployed[i] # Null => deployed[i] = i /\ i <= made

(* What a config, in the tree or committed, may say.                       *)
ConfigSound(t) ==
  /\ \A p \in Programs : t.ids[p] # Null => Answers(t.ids[p])
  /\ t.multisig # Null => multisigs[t.multisig] # "none"
  /\ losses = 0 => \A p \in Programs : t.ids[p] \in {Null, keypair[p]}

(* As long as target/ is there, what was ever synced, built or copied      *)
(* carries the ids of the keypairs, and policies lie under that of         *)
(* risk_policy.                                                            *)
NothingStale ==
  losses = 0 =>
    /\ \A p \in Programs : {tree.declared[p], tree.bundled[p], built[p]} \subseteq {Null, keypair[p]}
    /\ accounts \subseteq {keypair["risk_policy"]} \ {Null}

(* Every set of keypairs costs two ids, those it still has to make         *)
(* included, and there is one set more than losses.                        *)
MadeBounded == made + Cardinality(Missing) <= 2 * (1 + losses)

IInv ==
  /\ TypeOK
  /\ ScriptProgress
  /\ KeysDistinct
  /\ ChainSound
  /\ ConfigSound(tree) /\ ConfigSound(committed)
  /\ MadeBounded
  /\ NothingStale

-----------------------------------------------------------------------------
(* There are two programs.                                                 *)
LEMMA ProgramsCounted == Cardinality(Programs) = 2
<1>1. Programs = {"risk_policy"} \cup {"swig_delegation"} /\ "swig_delegation" \notin {"risk_policy"}
  BY DEF Programs
<1>2. IsFiniteSet({"risk_policy"})
  BY FS_Singleton
<1>3. Cardinality({"risk_policy"} \cup {"swig_delegation"}) = Cardinality({"risk_policy"}) + 1
  BY <1>1, <1>2, FS_AddElement
<1>4. QED BY <1>1, <1>3, FS_Singleton

(* The programs without a keypair are none, one of them, or both.          *)
LEMMA MissingCounted ==
  /\ \/ Missing = {} /\ Cardinality(Missing) = 0
     \/ Missing = {"risk_policy"} /\ Cardinality(Missing) = 1
     \/ Missing = {"swig_delegation"} /\ Cardinality(Missing) = 1
     \/ Missing = Programs /\ Cardinality(Missing) = 2
  /\ \A p \in Programs : p \in Missing <=> keypair[p] = Null
<1>1. \/ Missing = {} \/ Missing = {"risk_policy"} \/ Missing = {"swig_delegation"}
      \/ Missing = Programs
  BY DEF Missing, Programs
<1>2. Cardinality({}) = 0
  BY FS_EmptySet
<1>3. Cardinality({"risk_policy"}) = 1 /\ Cardinality({"swig_delegation"}) = 1
  BY FS_Singleton
<1>4. Cardinality(Programs) = 2
  BY ProgramsCounted
<1>5. \A p \in Programs : p \in Missing <=> keypair[p] = Null
  BY DEF Missing
<1>6. QED BY <1>1, <1>2, <1>3, <1>4, <1>5

(* anchor build gives every program a keypair of its own.                  *)
LEMMA BuildNumbers ==
  ASSUME TypeOK, KeysDistinct, Build
  PROVE  /\ made \in Nat /\ made' \in Nat /\ made' <= MaxIds /\ made <= made'
         /\ made' = made + Cardinality(Missing)
         /\ keypair' \in [Programs -> Id]
         /\ \A p \in Programs : /\ keypair'[p] # Null /\ keypair'[p] <= made'
                                /\ keypair[p] # Null => keypair'[p] = keypair[p]
         /\ \A p, q \in Programs : p # q => keypair'[p] # keypair'[q]
<1>1. made \in Nat /\ MaxIds \in Nat /\ keypair \in [Programs -> Id]
  <2>1. made \in Id /\ keypair \in [Programs -> Id]
    BY DEF TypeOK
  <2>2. QED BY <2>1, BoundsAssumption DEF Id, Null
<1>2. Cardinality(Missing) \in 0 .. 2 /\ made' = made + Cardinality(Missing)
      /\ made + Cardinality(Missing) <= MaxIds
  BY MissingCounted DEF Build
<1>3. \A p \in Programs : keypair[p] \in Nat /\ keypair[p] <= made
  BY <1>1, BoundsAssumption DEF KeysDistinct, Id, Null
<1>4. keypair' = [p \in Programs |-> IF p \in Missing THEN NewKey(p) ELSE keypair[p]]
  BY DEF Build
<1>5. /\ keypair'["risk_policy"] = IF keypair["risk_policy"] = Null THEN made + 1
                                   ELSE keypair["risk_policy"]
      /\ keypair'["swig_delegation"] = IF keypair["swig_delegation"] = Null
                                       THEN made + Cardinality(Missing)
                                       ELSE keypair["swig_delegation"]
      /\ "risk_policy" \in Programs /\ "swig_delegation" \in Programs
  BY <1>4, MissingCounted DEF NewKey, Programs
<1>6. /\ keypair["risk_policy"] = Null => Cardinality(Missing) \in {1, 2}
      /\ keypair["swig_delegation"] = Null => Cardinality(Missing) \in {1, 2}
      /\ keypair["swig_delegation"] = Null /\ keypair["risk_policy"] = Null
           => Cardinality(Missing) = 2
  BY <1>5, MissingCounted DEF Programs
<1>7. \A p \in Programs : p = "risk_policy" \/ p = "swig_delegation"
  BY DEF Programs
<1>8. keypair["risk_policy"] = keypair["swig_delegation"] => keypair["risk_policy"] = Null
  BY <1>5 DEF KeysDistinct
<1>9. /\ keypair'["risk_policy"] \in 1 .. made' /\ keypair'["swig_delegation"] \in 1 .. made'
      /\ keypair'["risk_policy"] # keypair'["swig_delegation"]
  BY <1>1, <1>2, <1>3, <1>5, <1>6, <1>8 DEF Null
<1>10. \A p \in Programs : /\ keypair'[p] \in 1 .. made' /\ keypair'[p] \in Id
                           /\ keypair[p] # Null => keypair'[p] = keypair[p]
  BY <1>1, <1>2, <1>5, <1>7, <1>9 DEF Id, Null
<1>11. QED BY <1>1, <1>2, <1>4, <1>7, <1>9, <1>10 DEF Null

-----------------------------------------------------------------------------
(* Types.                                                                  *)

(* No id is one of the values an id may have.                              *)
LEMMA NullIsId == Null \in Id /\ Nothing \in [Programs -> Id]
<1>1. Null \in Id
  BY BoundsAssumption DEF Null, Id
<1>2. QED BY <1>1 DEF Nothing

(* The addresses an IDL can hold are ids of keypairs.                      *)
LEMMA IdlsAreIds ==
  ASSUME TypeOK, NEW p \in Programs
  PROVE  Idls(p) \subseteq 1 .. MaxIds
<1>1. tree.bundled[p] \in Id
  BY DEF TypeOK, Tree
<1>2. built[p] \in Id
  BY DEF TypeOK
<1>3. Id \ {Null} \subseteq 1 .. MaxIds
  BY BoundsAssumption DEF Id, Null
<1>4. QED BY <1>1, <1>2, <1>3 DEF Idls

(* Every step keeps the types.                                             *)
LEMMA TypePreserved == IInv /\ [Next]_vars => TypeOK'
<1> SUFFICES ASSUME TypeOK, KeysDistinct, [Next]_vars PROVE TypeOK'
  BY DEF IInv
<1>1. CASE Begin
  BY <1>1 DEF Begin, treeVars, target, chain, TypeOK
<1>2. CASE Build
  <2>1. made' \in Id
    BY <1>2, BuildNumbers DEF Id, Null
  <2>2. keypair' \in [Programs -> Id] /\ tree.declared \in [Programs -> Id]
    BY <1>2, BuildNumbers DEF TypeOK, Tree
  <2>3. QED BY <1>2, <2>1, <2>2 DEF Build, treeVars, chain, TypeOK
<1>3. CASE KeysSync
  <2>1. tree' \in Tree
    BY <1>3 DEF KeysSync, TypeOK, Tree
  <2>2. QED BY <1>3, <2>1 DEF KeysSync, target, chain, TypeOK
<1>4. CASE Rebuild
  <2>1. tree.declared \in [Programs -> Id]
    BY DEF TypeOK, Tree
  <2>2. QED BY <1>4, <2>1 DEF Rebuild, Rebuilt, treeVars, chain, TypeOK
<1>5. ASSUME NEW p \in Programs, NEW before,
             NEW after \in {"deploy swig_delegation", "patch"}, Deploy(p, before, after)
      PROVE  TypeOK'
  <2>1. built[p] \in Id
    BY DEF TypeOK
  <2>2. deployed' \in [1 .. MaxIds -> Id]
    BY <1>5, <2>1 DEF Deploy, TypeOK
  <2>3. QED BY <1>5, <2>2 DEF Deploy, treeVars, target, TypeOK
<1>6. CASE patchConfig
  <2>1. tree' \in Tree
    BY <1>6 DEF patchConfig, PatchedIds, TypeOK, Tree
  <2>2. QED BY <1>6, <2>1 DEF patchConfig, target, chain, TypeOK
<1>7. CASE Die
  BY <1>7 DEF Die, treeVars, target, chain, TypeOK
<1>8. ASSUME NEW m \in 1 .. MaxMultisigs, NEW fate \in {"live", "dropped"},
             CreateMultisig(m) \/ LandMultisig(m, fate)
      PROVE  TypeOK'
  <2>1. multisigs' \in [1 .. MaxMultisigs -> {"none", "sent", "live", "dropped"}]
    BY <1>8 DEF CreateMultisig, LandMultisig, TypeOK
  <2>2. QED BY <1>8, <2>1 DEF CreateMultisig, LandMultisig, treeVars, target, TypeOK
<1>9. ASSUME NEW m \in 1 .. MaxMultisigs, PasteMultisig(m) PROVE TypeOK'
  <2>1. tree' \in Tree
    <3>1. m \in 0 .. MaxMultisigs
      BY BoundsAssumption
    <3>2. QED BY <1>9, <3>1 DEF PasteMultisig, TypeOK, Tree
  <2>2. QED BY <1>9, <2>1 DEF PasteMultisig, target, chain, TypeOK
<1>10. CASE RegisterAgents
  <2>1. tree' \in Tree
    BY <1>10 DEF RegisterAgents, TypeOK, Tree
  <2>2. QED BY <1>10, <2>1 DEF RegisterAgents, target, chain, TypeOK
<1>11. CASE CopyIdl
  <2>1. tree' \in Tree
    BY <1>11 DEF CopyIdl, TypeOK, Tree
  <2>2. QED BY <1>11, <2>1 DEF CopyIdl, target, chain, TypeOK
<1>12. ASSUME NEW p \in Programs, ResetId(p) PROVE TypeOK'
  <2>1. tree.ids \in [Programs -> Id]
    BY DEF TypeOK, Tree
  <2>2. [tree.ids EXCEPT ![p] = Null] \in [Programs -> Id]
    BY <2>1, NullIsId
  <2>3. tree' = [tree EXCEPT !.ids = [tree.ids EXCEPT ![p] = Null]]
    BY <1>12 DEF ResetId
  <2>4. tree' \in Tree
    BY <2>2, <2>3 DEF TypeOK, Tree
  <2>5. QED BY <1>12, <2>4 DEF ResetId, target, chain, TypeOK
<1>13. CASE Commit
  BY <1>13 DEF Commit, target, chain, TypeOK
<1>14. ASSUME NEW t \in {tree, committed}, LoseTarget(t) PROVE TypeOK'
  <2>1. t \in Tree
    BY DEF TypeOK
  <2>2. losses' \in 0 .. MaxLosses
    BY <1>14, BoundsAssumption DEF LoseTarget, TypeOK
  <2>3. QED BY <1>14, <2>1, <2>2, NullIsId DEF LoseTarget, chain, TypeOK
<1>15. ASSUME NEW idl \in Idls("risk_policy"), SubmitPolicy(idl) PROVE TypeOK'
  <2>1. idl \in 1 .. MaxIds
    BY IdlsAreIds DEF Programs
  <2>2. accounts' \subseteq 1 .. MaxIds
    BY <1>15, <2>1 DEF SubmitPolicy, TypeOK
  <2>3. QED BY <1>15, <2>2 DEF SubmitPolicy, treeVars, target, TypeOK
<1>16. CASE UNCHANGED vars
  BY <1>16 DEF vars, treeVars, target, chain, TypeOK
<1>17. "risk_policy" \in Programs /\ "swig_delegation" \in Programs
  BY DEF Programs
<1>18. QED
  BY <1>1, <1>2, <1>3, <1>4, <1>5, <1>6, <1>7, <1>8, <1>9, <1>10, <1>11, <1>12, <1>13, <1>14,
     <1>15, <1>16, <1>17 DEF Next, DeployRiskPolicy, DeploySwigDelegation

-----------------------------------------------------------------------------
(* The rest of the invariant.                                              *)

Sound ==
  /\ ScriptProgress
  /\ KeysDistinct
  /\ ChainSound
  /\ ConfigSound(tree) /\ ConfigSound(committed)
  /\ MadeBounded

(* A step that touches neither keypairs, builds nor the chain, and either  *)
(* ends the script or leaves it where it is, can disturb only the configs. *)
LEMMA ConfigStep ==
  ASSUME Sound, UNCHANGED <<target, deployed, losses>>,
         pc' = "none" \/ (pc' = pc /\ tree'.declared = tree.declared),
         ConfigSound(tree)', ConfigSound(committed)'
  PROVE  Sound'
<1>1. ScriptProgress'
  BY DEF Sound, ScriptProgress, target, Answers, AfterBuild, AfterSync, AfterRebuild, AfterFirst
<1>2. KeysDistinct' /\ ChainSound' /\ MadeBounded'
  BY DEF Sound, KeysDistinct, ChainSound, MadeBounded, Missing, target
<1>3. QED BY <1>1, <1>2 DEF Sound

(* Every step of the script keeps it sound.                                *)
LEMMA ScriptSteps ==
  ASSUME IInv,
         \/ Begin \/ Build \/ KeysSync \/ Rebuild
         \/ DeployRiskPolicy \/ DeploySwigDelegation \/ patchConfig \/ Die
  PROVE  Sound'
<1> USE DEF Null
<1>s. Sound /\ TypeOK /\ tree \in Tree /\ committed \in Tree
  BY DEF IInv, Sound, TypeOK
<1>p. "risk_policy" \in Programs /\ "swig_delegation" \in Programs
      /\ \A p \in Programs : p \in {"risk_policy", "swig_delegation"}
  BY DEF Programs
<1>k. \A p \in Programs : keypair[p] \in 0 .. MaxIds
  BY <1>s DEF TypeOK, Id
<1>c. ASSUME UNCHANGED <<treeVars, deployed, multisigs, losses>>,
             \A p \in Programs : keypair[p] # Null => keypair'[p] = keypair[p]
      PROVE  ConfigSound(tree)' /\ ConfigSound(committed)'
  <2>1. ASSUME NEW t \in {tree, committed}
        PROVE  /\ \A p \in Programs : t.ids[p] # Null => Answers(t.ids[p])
               /\ t.multisig # Null => multisigs[t.multisig] # "none"
               /\ losses = 0 => \A p \in Programs : t.ids[p] \in {Null, keypair'[p]}
    BY <1>c, <1>s DEF Sound, ConfigSound
  <2>2. QED BY <1>c, <2>1 DEF ConfigSound, Answers, treeVars
<1>1. CASE Begin
  <2>1. ConfigSound(tree)' /\ ConfigSound(committed)'
    BY <1>1, <1>c DEF Begin, target, chain
  <2>2. ScriptProgress'
    BY <1>1 DEF Begin, ScriptProgress, AfterBuild, AfterSync, AfterRebuild, AfterFirst
  <2>3. KeysDistinct' /\ ChainSound' /\ MadeBounded'
    BY <1>1, <1>s DEF Begin, Sound, KeysDistinct, ChainSound, MadeBounded, Missing, target, chain
  <2>4. QED BY <2>1, <2>2, <2>3 DEF Sound
<1>2. CASE Build
  <2>0. TypeOK /\ KeysDistinct
    BY <1>s DEF Sound
  <2>1. ConfigSound(tree)' /\ ConfigSound(committed)'
    BY <1>2, <1>c, <2>0, BuildNumbers DEF Build, chain
  <2>2. ScriptProgress'
    BY <1>2, <2>0, BuildNumbers DEF Build, ScriptProgress, AfterBuild, AfterSync, AfterRebuild, AfterFirst
  <2>3. KeysDistinct'
    BY <2>0, <1>2, BuildNumbers DEF KeysDistinct
  <2>4. ChainSound'
    <3>1. made \in Nat /\ made' \in Nat /\ made <= made'
      BY <2>0, <1>2, BuildNumbers
    <3>2. deployed' = deployed
      BY <1>2 DEF Build, chain
    <3>3. QED BY <3>1, <3>2, <1>s DEF Sound, ChainSound
  <2>5. MadeBounded'
    <3>1. Missing' = {}
      BY <2>0, <1>2, BuildNumbers DEF Missing
    <3>2. Cardinality(Missing') = 0
      BY <3>1, FS_EmptySet
    <3>3. made' \in Nat /\ made' = made + Cardinality(Missing) /\ losses' = losses
      BY <2>0, <1>2, BuildNumbers DEF Build
    <3>4. QED BY <3>2, <3>3, <1>s DEF Sound, MadeBounded
  <2>6. QED BY <2>1, <2>2, <2>3, <2>4, <2>5 DEF Sound
<1>3. CASE KeysSync
  <2>1. tree' = [tree EXCEPT !.declared = keypair]
    BY <1>3 DEF KeysSync
  <2>2. tree'.ids = tree.ids /\ tree'.multisig = tree.multisig /\ tree'.declared = keypair
    BY <2>1, <1>s DEF Tree
  <2>3. ConfigSound(tree)' /\ ConfigSound(committed)'
    BY <1>3, <2>2, <1>s DEF KeysSync, Sound, ConfigSound, Answers, target, chain
  <2>4. ScriptProgress'
    BY <1>3, <1>s, <2>2 DEF KeysSync, Sound, ScriptProgress, AfterBuild, AfterSync, AfterRebuild, AfterFirst, target
  <2>5. KeysDistinct' /\ ChainSound' /\ MadeBounded'
    BY <1>3, <1>s DEF KeysSync, Sound, KeysDistinct, ChainSound, MadeBounded, Missing, target, chain
  <2>6. QED BY <2>3, <2>4, <2>5 DEF Sound
<1>4. CASE Rebuild
  <2>1. ConfigSound(tree)' /\ ConfigSound(committed)'
    BY <1>4, <1>c DEF Rebuild, chain
  <2>2. ScriptProgress'
    BY <1>4, <1>s DEF Rebuild, Rebuilt, Sound, ScriptProgress, AfterBuild, AfterSync, AfterRebuild, AfterFirst, treeVars
  <2>3. KeysDistinct' /\ ChainSound' /\ MadeBounded'
    BY <1>4, <1>s DEF Rebuild, Sound, KeysDistinct, ChainSound, MadeBounded, Missing, chain
  <2>4. QED BY <2>1, <2>2, <2>3 DEF Sound
<1>5. ASSUME NEW p \in Programs, NEW before \in AfterRebuild, NEW after, Deploy(p, before, after)
      PROVE  /\ deployed' = [deployed EXCEPT ![keypair[p]] = keypair[p]]
             /\ keypair[p] \in 1 .. MaxIds
             /\ deployed'[keypair[p]] = keypair[p]
             /\ \A i \in 1 .. MaxIds : deployed[i] = i => deployed'[i] = i
             /\ KeysDistinct' /\ ChainSound' /\ MadeBounded'
             /\ ConfigSound(tree)' /\ ConfigSound(committed)'
  <2>1. pc = before /\ pc \in AfterRebuild /\ pc \in AfterBuild
    BY <1>5 DEF Deploy, AfterBuild, AfterSync, AfterRebuild
  <2>2. built = keypair /\ keypair[p] # Null
    BY <2>1, <1>s DEF Sound, ScriptProgress
  <2>3. keypair[p] \in 1 .. MaxIds /\ keypair[p] <= made
    BY <2>2, <1>k, <1>s, BoundsAssumption DEF Sound, KeysDistinct
  <2>4. deployed' = [deployed EXCEPT ![keypair[p]] = keypair[p]]
    BY <1>5, <2>2 DEF Deploy
  <2>5. deployed \in [1 .. MaxIds -> Id]
    BY <1>s DEF TypeOK
  <2>6. \A i \in 1 .. MaxIds : deployed'[i] = IF i = keypair[p] THEN i ELSE deployed[i]
    BY <2>3, <2>4, <2>5
  <2>7. KeysDistinct' /\ MadeBounded'
    BY <1>5, <1>s DEF Deploy, Sound, KeysDistinct, MadeBounded, Missing, target
  <2>8. ChainSound'
    BY <1>5, <2>3, <2>6, <1>s DEF Deploy, Sound, ChainSound, target
  <2>9. ASSUME NEW t \in {tree, committed}
        PROVE  /\ \A q \in Programs : t.ids[q] # Null => deployed'[t.ids[q]] = t.ids[q]
               /\ t.multisig # Null => multisigs'[t.multisig] # "none"
               /\ losses' = 0 => \A q \in Programs : t.ids[q] \in {Null, keypair'[q]}
    <3>1. t \in Tree /\ ConfigSound(t)
      BY <1>s DEF Sound
    <3>2. multisigs' = multisigs /\ losses' = losses /\ keypair' = keypair
      BY <1>5 DEF Deploy, target
    <3>3. \A q \in Programs : t.ids[q] # Null => t.ids[q] \in 1 .. MaxIds
      <4>1. \A q \in Programs : t.ids[q] \in Id
        BY <3>1 DEF Tree
      <4>2. QED BY <4>1, BoundsAssumption DEF Id
    <3>4. QED BY <3>1, <3>2, <3>3, <2>6 DEF ConfigSound, Answers
  <2>10. ConfigSound(tree)' /\ ConfigSound(committed)'
    BY <2>9, <1>5 DEF Deploy, treeVars, ConfigSound, Answers
  <2>11. QED BY <2>3, <2>4, <2>6, <2>7, <2>8, <2>10
<1>6. CASE DeployRiskPolicy
  <2>1. Deploy("risk_policy", "deploy risk_policy", "deploy swig_delegation")
    BY <1>6 DEF DeployRiskPolicy
  <2>2. "deploy risk_policy" \in AfterRebuild
    BY DEF AfterBuild, AfterSync, AfterRebuild
  <2>3. ScriptProgress'
    BY <2>1, <2>2, <1>5, <1>p, <1>s DEF Deploy, Sound, ScriptProgress, Answers, AfterBuild, AfterSync, AfterRebuild, AfterFirst, target, treeVars
  <2>4. QED BY <2>1, <2>2, <2>3, <1>5, <1>p DEF Sound
<1>7. CASE DeploySwigDelegation
  <2>1. Deploy("swig_delegation", "deploy swig_delegation", "patch")
    BY <1>7 DEF DeploySwigDelegation
  <2>2. "deploy swig_delegation" \in AfterRebuild /\ "deploy swig_delegation" \in AfterFirst
        /\ "deploy swig_delegation" \in AfterBuild
    BY DEF AfterBuild, AfterSync, AfterRebuild, AfterFirst
  <2>3. Answers(keypair["risk_policy"]) /\ keypair["risk_policy"] \in 1 .. MaxIds
    <3>1. Answers(keypair["risk_policy"]) /\ keypair["risk_policy"] # Null
      BY <2>1, <2>2, <1>s, <1>p DEF Deploy, Sound, ScriptProgress
    <3>2. QED BY <3>1, <1>k, <1>p, BoundsAssumption
  <2>4. ScriptProgress'
    BY <2>1, <2>2, <2>3, <1>5, <1>p, <1>s DEF Deploy, Sound, ScriptProgress, Answers, AfterBuild, AfterSync, AfterRebuild, AfterFirst, target, treeVars
  <2>5. QED BY <2>1, <2>2, <2>4, <1>5, <1>p DEF Sound
<1>8. CASE patchConfig
  <2>1. tree' = [tree EXCEPT !.ids = keypair]
    BY <1>8 DEF patchConfig, PatchedIds
  <2>2. tree'.ids = keypair /\ tree'.multisig = tree.multisig
    BY <2>1, <1>s DEF Tree
  <2>3. \A p \in Programs : Answers(keypair[p])
    BY <1>8, <1>s, <1>p DEF patchConfig, Sound, ScriptProgress, AfterFirst, AfterRebuild, AfterSync, AfterBuild
  <2>4. ConfigSound(tree)' /\ ConfigSound(committed)'
    BY <1>8, <2>2, <2>3, <1>s DEF patchConfig, Sound, ConfigSound, Answers, target, chain
  <2>5. QED BY <1>8, <1>s, <2>4, ConfigStep DEF patchConfig, chain
<1>9. CASE Die
  <2>1. ConfigSound(tree)' /\ ConfigSound(committed)'
    BY <1>9, <1>c DEF Die, target, chain
  <2>2. QED BY <1>9, <1>s, <2>1, ConfigStep DEF Die, chain
<1>10. QED BY <1>1, <1>2, <1>3, <1>4, <1>6, <1>7, <1>8, <1>9

(* Every other step, and a stutter, keeps it sound.                        *)
LEMMA OtherSteps ==
  ASSUME IInv,
         \/ \E m \in 1 .. MaxMultisigs :
              \/ CreateMultisig(m) \/ PasteMultisig(m)
              \/ LandMultisig(m, "live") \/ LandMultisig(m, "dropped")
         \/ RegisterAgents \/ CopyIdl \/ Commit
         \/ \E p \in Programs : ResetId(p)
         \/ \E idl \in Idls("risk_policy") : SubmitPolicy(idl)
         \/ LoseTarget(tree) \/ LoseTarget(committed)
         \/ UNCHANGED vars
  PROVE  Sound'
<1> USE DEF Null
<1>s. Sound /\ TypeOK /\ tree \in Tree /\ committed \in Tree
  BY DEF IInv, Sound, TypeOK
<1>c. ConfigSound(tree) /\ ConfigSound(committed)
  BY <1>s DEF Sound
<1>1. ASSUME NEW m \in 1 .. MaxMultisigs, NEW fate \in {"live", "dropped"},
             CreateMultisig(m) \/ LandMultisig(m, fate)
      PROVE  Sound'
  <2>1. multisigs \in [1 .. MaxMultisigs -> {"none", "sent", "live", "dropped"}]
    BY <1>s DEF TypeOK
  <2>2. \A n \in 1 .. MaxMultisigs : multisigs[n] # "none" => multisigs'[n] # "none"
    BY <1>1, <2>1 DEF CreateMultisig, LandMultisig
  <2>3. \A t \in Tree : t.multisig # Null => t.multisig \in 1 .. MaxMultisigs
    BY BoundsAssumption DEF Tree
  <2>4. UNCHANGED <<treeVars, target, deployed, losses, pc>>
    BY <1>1 DEF CreateMultisig, LandMultisig
  <2>5. ConfigSound(tree)' /\ ConfigSound(committed)'
    BY <2>2, <2>3, <2>4, <1>c, <1>s DEF ConfigSound, Answers, treeVars, target
  <2>6. QED BY <2>4, <2>5, <1>s, ConfigStep DEF treeVars
<1>2. ASSUME NEW m \in 1 .. MaxMultisigs, PasteMultisig(m) PROVE Sound'
  <2>1. tree' = [tree EXCEPT !.multisig = m] /\ multisigs[m] # "none"
        /\ UNCHANGED <<committed, target, chain, pc, losses>>
    BY <1>2 DEF PasteMultisig
  <2>2. tree'.ids = tree.ids /\ tree'.multisig = m /\ tree'.declared = tree.declared
    BY <2>1, <1>s DEF Tree
  <2>3. ConfigSound(tree)' /\ ConfigSound(committed)'
    BY <2>1, <2>2, <1>c DEF ConfigSound, Answers, target, chain
  <2>4. QED BY <2>1, <2>2, <2>3, <1>s, ConfigStep DEF chain
<1>3. CASE RegisterAgents \/ CopyIdl
  <2>1. /\ UNCHANGED <<committed, target, chain, pc, losses>>
        /\ \/ tree' = [tree EXCEPT !.agents = TRUE]
           \/ tree' = [tree EXCEPT !.bundled = built]
    BY <1>3 DEF RegisterAgents, CopyIdl
  <2>2. tree'.ids = tree.ids /\ tree'.multisig = tree.multisig /\ tree'.declared = tree.declared
    BY <2>1, <1>s DEF Tree
  <2>3. ConfigSound(tree)' /\ ConfigSound(committed)'
    BY <2>1, <2>2, <1>c DEF ConfigSound, Answers, target, chain
  <2>4. QED BY <2>1, <2>2, <2>3, <1>s, ConfigStep DEF chain
<1>4. CASE Commit
  <2>1. committed' = tree /\ UNCHANGED <<tree, target, chain, pc, losses>>
    BY <1>4 DEF Commit
  <2>2. ConfigSound(tree)' /\ ConfigSound(committed)'
    BY <2>1, <1>c DEF ConfigSound, Answers, target, chain
  <2>3. QED BY <2>1, <2>2, <1>s, ConfigStep DEF chain
<1>5. ASSUME NEW p \in Programs, ResetId(p) PROVE Sound'
  <2>1. tree' = [tree EXCEPT !.ids[p] = Null] /\ pc' = "none"
        /\ UNCHANGED <<committed, target, chain, losses>>
    BY <1>5 DEF ResetId
  <2>2. tree'.multisig = tree.multisig
        /\ \A q \in Programs : tree'.ids[q] \in {tree.ids[q], Null}
    BY <2>1, <1>s DEF Tree
  <2>3. ConfigSound(tree)' /\ ConfigSound(committed)'
    BY <2>1, <2>2, <1>c DEF ConfigSound, Answers, target, chain
  <2>4. QED BY <2>1, <2>3, <1>s, ConfigStep DEF chain
<1>6. ASSUME NEW idl \in Idls("risk_policy"), SubmitPolicy(idl) PROVE Sound'
  <2>1. UNCHANGED <<treeVars, target, deployed, multisigs, pc, losses>>
    BY <1>6 DEF SubmitPolicy
  <2>2. ConfigSound(tree)' /\ ConfigSound(committed)'
    BY <2>1, <1>c DEF ConfigSound, Answers, target, treeVars
  <2>3. QED BY <2>1, <2>2, <1>s, ConfigStep DEF treeVars
<1>7. ASSUME NEW t \in {tree, committed}, LoseTarget(t) PROVE Sound'
  <2>1. /\ keypair' = Nothing /\ tree' = t /\ losses' = losses + 1 /\ pc' = "none"
        /\ UNCHANGED <<committed, made, chain>>
    BY <1>7 DEF LoseTarget
  <2>2. losses \in Nat /\ losses' # 0 /\ made \in Nat
    <3>1. losses \in 0 .. MaxLosses /\ made \in Id
      BY <1>s DEF TypeOK
    <3>2. QED BY <2>1, <3>1, BoundsAssumption DEF Id
  <2>3. ConfigSound(tree)' /\ ConfigSound(committed)'
    BY <2>1, <2>2, <1>c DEF ConfigSound, Answers, chain
  <2>4. ScriptProgress'
    BY <2>1 DEF ScriptProgress, AfterBuild, AfterSync, AfterRebuild, AfterFirst
  <2>5. KeysDistinct' /\ ChainSound'
    BY <2>1, <2>2, <1>s DEF Sound, KeysDistinct, ChainSound, Nothing, chain
  <2>6. Cardinality(Missing') = 2
    <3>1. Missing' = Programs
      BY <2>1 DEF Missing, Nothing
    <3>2. QED BY <3>1, ProgramsCounted
  <2>7. MadeBounded'
    <3>1. Cardinality(Missing) \in Nat
      BY MissingCounted
    <3>2. made <= 2 * (1 + losses)
      BY <3>1, <2>2, <1>s DEF Sound, MadeBounded
    <3>3. QED BY <3>2, <2>1, <2>2, <2>6 DEF MadeBounded
  <2>8. QED BY <2>3, <2>4, <2>5, <2>7 DEF Sound
<1>8. CASE UNCHANGED vars
  <2>1. UNCHANGED <<treeVars, target, chain, pc, losses>>
    BY <1>8 DEF vars
  <2>2. ConfigSound(tree)' /\ ConfigSound(committed)'
    BY <2>1, <1>c DEF ConfigSound, Answers, target, treeVars, chain
  <2>3. QED BY <2>1, <2>2, <1>s, ConfigStep DEF treeVars, chain
<1>9. QED BY <1>1, <1>2, <1>3, <1>4, <1>5, <1>6, <1>7, <1>8

(* A keypair, once made, stays while target/ does, and with it everything  *)
(* that was derived from it.                                               *)
LEMMA StalePreserved ==
  ASSUME IInv, [Next]_vars
  PROVE  NothingStale'
<1> DEFINE Carries == \A p \in Programs : {tree'.declared[p], tree'.bundled[p], built'[p]}
                                             \subseteq {Null, keypair'[p]}
           Lie == accounts' \subseteq {keypair'["risk_policy"]} \ {Null}
<1> SUFFICES ASSUME losses' = 0 PROVE Carries /\ Lie
  BY DEF NothingStale
<1>t. tree \in Tree /\ keypair \in [Programs -> Id] /\ built \in [Programs -> Id]
      /\ "risk_policy" \in Programs
  BY DEF IInv, TypeOK, Programs
<1>n. losses \in 0 .. MaxLosses
  BY DEF IInv, TypeOK
<1>1. CASE \E t \in {tree, committed} : LoseTarget(t)
  <2>1. losses' = losses + 1
    BY <1>1 DEF LoseTarget
  <2>2. QED BY <1>n, <2>1
<1>l. ASSUME losses = 0
      PROVE  /\ \A p \in Programs : {tree.declared[p], tree.bundled[p], built[p]}
                                       \subseteq {Null, keypair[p]}
             /\ accounts \subseteq {keypair["risk_policy"]} \ {Null}
             /\ tree.ids["risk_policy"] \in {Null, keypair["risk_policy"]}
  BY <1>l, <1>t DEF IInv, NothingStale, ConfigSound
<1>2. CASE Build
  <2>1. \A p \in Programs : keypair[p] # Null => keypair'[p] = keypair[p]
    BY <1>2, BuildNumbers DEF IInv
  <2>2. tree' = tree /\ built' = tree.declared /\ accounts' = accounts /\ losses = 0
    BY <1>2 DEF Build, treeVars, chain
  <2>3. QED BY <1>l, <1>t, <2>1, <2>2
<1>3. CASE KeysSync
  <2>1. tree' = [tree EXCEPT !.declared = keypair]
        /\ UNCHANGED <<keypair, built, accounts>> /\ losses = 0
    BY <1>3 DEF KeysSync, target, chain
  <2>2. tree'.declared = keypair /\ tree'.bundled = tree.bundled
    BY <1>t, <2>1 DEF Tree
  <2>3. QED BY <1>l, <2>1, <2>2
<1>4. CASE Rebuild
  <2>1. UNCHANGED <<tree, keypair, accounts>> /\ built' = tree.declared /\ losses = 0
    BY <1>4 DEF Rebuild, Rebuilt, treeVars, chain
  <2>2. QED BY <1>l, <2>1
<1>5. CASE CopyIdl
  <2>1. tree' = [tree EXCEPT !.bundled = built]
        /\ UNCHANGED <<keypair, built, accounts>> /\ losses = 0
    BY <1>5 DEF CopyIdl, target, chain
  <2>2. tree'.bundled = built /\ tree'.declared = tree.declared
    BY <1>t, <2>1 DEF Tree
  <2>3. QED BY <1>l, <2>1, <2>2
<1>6. CASE \E idl \in Idls("risk_policy") : SubmitPolicy(idl)
  <2>1. PICK idl \in Idls("risk_policy") : accounts' = accounts \cup {idl}
    BY <1>6 DEF SubmitPolicy
  <2>2. UNCHANGED <<tree, keypair, built>> /\ losses = 0
    BY <1>6 DEF SubmitPolicy, treeVars, target
  <2>3. idl # Null /\ idl = keypair["risk_policy"]
    BY <1>l, <1>t, <2>2 DEF Idls
  <2>4. QED BY <1>l, <2>1, <2>2, <2>3
<1>7. CASE \/ patchConfig \/ RegisterAgents \/ \E p \in Programs : ResetId(p)
           \/ \E m \in 1 .. MaxMultisigs : PasteMultisig(m)
  <2>1. /\ \/ \E ids : tree' = [tree EXCEPT !.ids = ids]
           \/ tree' = [tree EXCEPT !.agents = TRUE]
           \/ \E p \in Programs : tree' = [tree EXCEPT !.ids[p] = Null]
           \/ \E m \in 1 .. MaxMultisigs : tree' = [tree EXCEPT !.multisig = m]
        /\ UNCHANGED <<keypair, built, accounts>> /\ losses = 0
    BY <1>7 DEF patchConfig, RegisterAgents, ResetId, PasteMultisig, target, chain
  <2>2. tree'.bundled = tree.bundled /\ tree'.declared = tree.declared
    BY <1>t, <2>1 DEF Tree
  <2>3. QED BY <1>l, <2>1, <2>2
<1>8. CASE \/ Begin \/ DeployRiskPolicy \/ DeploySwigDelegation \/ Die \/ Commit
           \/ \E m \in 1 .. MaxMultisigs : \/ CreateMultisig(m)
                                            \/ LandMultisig(m, "live")
                                            \/ LandMultisig(m, "dropped")
           \/ UNCHANGED vars
  <2>1. UNCHANGED <<tree, keypair, built, accounts>> /\ losses = 0
    BY <1>8 DEF Begin, DeployRiskPolicy, DeploySwigDelegation, Deploy, Die, Commit,
       CreateMultisig, LandMultisig, vars, treeVars, target, chain
  <2>2. QED BY <1>l, <2>1
<1>9. QED BY <1>1, <1>2, <1>3, <1>4, <1>5, <1>6, <1>7, <1>8 DEF Next

-----------------------------------------------------------------------------
(* The theorems.                                                           *)

(* Nothing is built, deployed or lost yet.                                 *)
LEMMA InitIInv == Init => IInv
<1> SUFFICES ASSUME Init PROVE IInv
  OBVIOUS
<1>1. Fresh \in Tree
  <2>1. Null \in 0 .. MaxMultisigs
    BY BoundsAssumption DEF Null
  <2>2. QED BY <2>1, NullIsId DEF Fresh, Tree
<1>2. TypeOK
  <2>1. made \in Id /\ losses \in 0 .. MaxLosses
    BY BoundsAssumption DEF Init, Id, Null
  <2>2. deployed \in [1 .. MaxIds -> Id]
    BY NullIsId DEF Init
  <2>3. QED BY <1>1, <2>1, <2>2, NullIsId DEF Init, TypeOK
<1>3. ScriptProgress
  BY DEF Init, ScriptProgress, AfterBuild, AfterSync, AfterRebuild, AfterFirst
<1>4. KeysDistinct /\ ChainSound
  BY DEF Init, KeysDistinct, ChainSound, Nothing, Null
<1>5. ConfigSound(tree) /\ ConfigSound(committed)
  BY DEF Init, ConfigSound, Fresh, Nothing, Null
<1>6. MadeBounded
  <2>1. Cardinality(Missing) \in 0 .. 2
    BY MissingCounted
  <2>2. made = 0 /\ losses = 0
    BY DEF Init
  <2>3. QED BY <2>1, <2>2 DEF MadeBounded
<1>7. NothingStale
  BY DEF Init, NothingStale, Fresh, Nothing
<1>8. QED BY <1>2, <1>3, <1>4, <1>5, <1>6, <1>7 DEF IInv

(* What the proof carries through every step.                              *)
THEOREM Invariance == Spec => []IInv
<1>1. IInv /\ [Next]_vars => IInv'
  <2> SUFFICES ASSUME IInv, [Next]_vars PROVE IInv'
    OBVIOUS
  <2>1. TypeOK'
    BY TypePreserved
  <2>2. Sound'
    BY ScriptSteps, OtherSteps DEF Next
  <2>3. NothingStale'
    BY StalePreserved
  <2>4. QED BY <2>1, <2>2, <2>3 DEF IInv, Sound
<1>2. QED BY InitIInv, <1>1, PTL DEF Spec

(* The state of every run of the scripts is well typed.                    *)
THEOREM TypeCorrect == Spec => []TypeOK
<1>1. IInv => TypeOK
  BY DEF IInv
<1>2. QED BY <1>1, Invariance, PTL

(* The preflight of seed-demo implies what verify-onchain asks of the      *)
(* chain, an unconfirmed multisig apart.                                   *)
THEOREM PreflightCorrect == Spec => []PreflightIsEnough
<1>1. IInv => PreflightIsEnough
  <2> SUFFICES ASSUME IInv, SeedPasses PROVE /\ VerifyPasses \/ multisigs[tree.multisig] \in {"sent", "dropped"}
                                             /\ \A p \in Programs : deployed[tree.ids[p]] = tree.ids[p]
    BY DEF PreflightIsEnough
  <2>1. \A p \in Programs : tree.ids[p] # Null /\ deployed[tree.ids[p]] = tree.ids[p]
    BY DEF IInv, ConfigSound, Answers, SeedPasses, Populated
  <2>2. multisigs[tree.multisig] \in {"sent", "live", "dropped"}
    <3>1. tree.multisig \in 0 .. MaxMultisigs /\ tree.multisig # 0
      BY DEF IInv, TypeOK, Tree, SeedPasses, Null
    <3>2. tree.multisig \in 1 .. MaxMultisigs
      BY <3>1, BoundsAssumption
    <3>3. multisigs[tree.multisig] # "none"
      BY DEF IInv, ConfigSound, SeedPasses
    <3>4. QED BY <3>2, <3>3 DEF IInv, TypeOK
  <2>3. QED BY <2>1, <2>2 DEF SeedPasses, VerifyPasses, ProgramIsDeployed, MultisigIsLive
<1>2. QED BY <1>1, Invariance, PTL

(* A client is refused for its IDL, and a policy left behind, only after a *)
(* loss of target/.                                                        *)
THEOREM MismatchCorrect == Spec => []MismatchNeedsLoss
<1>1. IInv => MismatchNeedsLoss
  <2> SUFFICES ASSUME IInv, losses = 0, NEW p \in Programs, tree.ids[p] # Null
               PROVE  /\ \A idl \in Idls(p) : Accepts(p, idl, tree.ids[p])
                      /\ p = "risk_policy" => accounts \subseteq {tree.ids[p]}
    BY DEF MismatchNeedsLoss
  <2>1. tree.ids[p] = keypair[p] /\ deployed[tree.ids[p]] = tree.ids[p]
    BY DEF IInv, ConfigSound, Answers
  <2>2. \A idl \in Idls(p) : idl = tree.ids[p]
    BY <2>1 DEF IInv, NothingStale, Idls
  <2>3. p = "risk_policy" => accounts \subseteq {tree.ids[p]}
    BY <2>1 DEF IInv, NothingStale
  <2>4. QED BY <2>1, <2>2, <2>3 DEF Accepts
<1>2. QED BY <1>1, Invariance, PTL

(* New programs need new keypairs, which need a lost target/; without a    *)
(* loss each program has one id, and no two share it.                      *)
THEOREM DeploymentsCorrect == Spec => []DeploymentsNeedLosses
<1>1. IInv => DeploymentsNeedLosses
  <2> SUFFICES ASSUME IInv PROVE DeploymentsNeedLosses
    OBVIOUS
  <2> DEFINE D == {i \in DOMAIN deployed : deployed[i] # Null}
  <2>1. made \in Nat /\ losses \in Nat
    <3>1. made \in Id /\ losses \in 0 .. MaxLosses
      BY DEF IInv, TypeOK
    <3>2. QED BY <3>1, BoundsAssumption DEF Id, Null
  <2>2. D \subseteq 1 .. made
    <3>1. DOMAIN deployed = 1 .. MaxIds
      BY DEF IInv, TypeOK
    <3>2. QED BY <2>1, <3>1, BoundsAssumption DEF IInv, ChainSound
  <2>3. IsFiniteSet(1 .. made) /\ Cardinality(1 .. made) = made
    BY <2>1, FS_Interval
  <2>4. Cardinality(D) \in Nat /\ Cardinality(D) <= made
    BY <2>2, <2>3, FS_Subset, FS_CardinalityType
  <2>5. made <= 2 * (1 + losses)
    BY <2>1, MissingCounted DEF IInv, MadeBounded
  <2>6. Cardinality(D) <= 2 * (1 + losses)
    BY <2>1, <2>4, <2>5
  <2>7. ASSUME losses = 0, NEW p \in Programs, NEW q \in Programs
        PROVE  Cardinality(IdsOf(p)) <= 1 /\ (p # q => IdsOf(p) \cap IdsOf(q) = {})
    <3>1. \A r \in Programs : IdsOf(r) = {} \/ IdsOf(r) = {keypair[r]}
      BY <2>7 DEF IInv, ConfigSound, IdsOf, Null
    <3>2. Cardinality(IdsOf(p)) \in {0, 1}
      BY <3>1, FS_EmptySet, FS_Singleton
    <3>3. ASSUME p # q, NEW i \in IdsOf(p) \cap IdsOf(q) PROVE FALSE
      <4>1. i = keypair[p] /\ i = keypair[q] /\ i # Null
        BY <3>1 DEF IdsOf
      <4>2. QED BY <3>3, <4>1 DEF IInv, KeysDistinct
    <3>4. QED BY <3>2, <3>3
  <2>8. QED BY <2>6, <2>7 DEF DeploymentsNeedLosses
<1>2. QED BY <1>1, Invariance, PTL
=============================================================================
