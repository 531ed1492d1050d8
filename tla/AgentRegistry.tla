---------------------------- MODULE AgentRegistry ----------------------------
(***************************************************************************)
(* The identities of the agents: scripts/register-agents.ts mints one Core *)
(* asset per zone, remembers it in a file of the machine it runs on, and   *)
(* at its end writes the whole registry into config/devnet.ts, which every *)
(* client loads when it starts and from which registerAgent answers.  The  *)
(* script may die between any two of its awaits and be run again.          *)
(***************************************************************************)
EXTENDS Integers, Sequences, FiniteSets

CONSTANTS
  ZONES,      \* the zones in the order of the loop: read, compute, execute
  Machines,   \* checkouts of the repository; keys and registry are not in git
  Faults,     \* what may go wrong, a subset of Fault
  MaxAssets,  \* bound on the assets minted
  MaxFaults   \* bound on deaths and lost files

(* fetchError: fetchAssetV1 throws for an asset that exists.  die: the     *)
(* process ends at an await.  loseKeys, loseRegistry: scripts/.keys or     *)
(* scripts/devnet-registry.json is gone, as in a fresh clone.              *)
Fault == {"fetchError", "die", "loseKeys", "loseRegistry"}

ASSUME FaultsAssumption == Faults \subseteq Fault /\ MaxFaults \in Nat
ASSUME ZonesAssumption == Len(ZONES) \in Nat /\ DOMAIN ZONES = 1 .. Len(ZONES)
ASSUME MachinesAssumption == IsFiniteSet(Machines)

VARIABLES
  assets,     \* the chain: Core assets in the order of creation
  keys,       \* per machine, the keypair files
  keysMade,   \* keypairs generated so far; a public key is its number
  registry,   \* per machine, devnet-registry.json
  config,     \* DEVNET_AGENTS in config/devnet.ts
  loaded,     \* per machine, AGENT_REGISTRY in the client that runs there
  run,        \* per machine, the script
  faultsLeft,
  disturbed   \* history: per zone, the faults that touched its identity

vars == <<assets, keys, keysMade, registry, config, loaded, run, faultsLeft, disturbed>>

Zones == {ZONES[i] : i \in DOMAIN ZONES}

Entry == [mint : Nat \ {0}, pubkey : Nat \ {0}]
NoEntry == [mint |-> 0, pubkey |-> 0]
Empty == [z \in Zones |-> NoEntry]
Known(e) == e # NoEntry

Idle == [pc |-> "idle", at |-> 1, registry |-> Empty, owner |-> 0, mint |-> 0]

Init ==
  /\ assets = <<>>
  /\ keys = [m \in Machines |-> [z \in Zones |-> 0]]
  /\ keysMade = 0
  /\ registry = [m \in Machines |-> Empty]
  /\ config = Empty
  /\ loaded = [m \in Machines |-> Empty]
  /\ run = [m \in Machines |-> Idle]
  /\ faultsLeft = MaxFaults
  /\ disturbed = [z \in Zones |-> 0]

-----------------------------------------------------------------------------
(* One run of the script.                                                  *)

ZoneOf(m) == ZONES[run[m].at]
Done_OneShort(m) == run[m].at >= Len(ZONES)
Done(m) == run[m].at > Len(ZONES)

Begin(m) ==
  /\ run[m].pc = "idle"
  /\ run' = [run EXCEPT ![m] = [Idle EXCEPT !.pc = "zone", !.registry = registry[m]]]
  /\ UNCHANGED <<assets, keys, keysMade, registry, config, loaded, faultsLeft, disturbed>>

(* Up to sendAndConfirm's await: the transaction is on its way.            *)
Mint(m, owner) ==
  /\ Len(assets) < MaxAssets
  /\ assets' = Append(assets, [zone |-> ZoneOf(m), owner |-> owner, status |-> "flight"])
  /\ run' = [run EXCEPT ![m].pc = "minting", ![m].owner = owner, ![m].mint = Len(assets) + 1]

Fetch(m, owner) ==
  /\ run' = [run EXCEPT ![m].pc = "fetching", ![m].owner = owner]
  /\ UNCHANGED assets

(* loadOrCreateZoneKeypair, then the registry in memory decides.           *)
Look(m) ==
  /\ run[m].pc = "zone" /\ ~ Done(m)
  /\ LET z == ZoneOf(m)
         isNew == keys[m][z] = 0
         owner == IF isNew THEN keysMade + 1 ELSE keys[m][z]
     IN /\ keys' = [keys EXCEPT ![m][z] = owner]
        /\ keysMade' = IF isNew THEN keysMade + 1 ELSE keysMade
        /\ IF Known(run[m].registry[z]) THEN Fetch(m, owner) ELSE Mint(m, owner)
  /\ UNCHANGED <<registry, config, loaded, faultsLeft, disturbed>>

Existing(m) == assets[run[m].registry[ZoneOf(m)].mint]
OwnerMatches(m) == Existing(m).owner = run[m].owner

Skip(m) ==
  /\ run[m].pc = "fetching"
  /\ OwnerMatches(m)
  /\ run' = [run EXCEPT ![m].pc = "zone", ![m].at = @ + 1]
  /\ UNCHANGED <<assets, keys, keysMade, registry, config, loaded, faultsLeft, disturbed>>

RemintForOwner(m) ==
  /\ run[m].pc = "fetching"
  /\ ~ OwnerMatches(m)
  /\ Mint(m, run[m].owner)
  /\ UNCHANGED <<keys, keysMade, registry, config, loaded, faultsLeft, disturbed>>

(* The catch clause takes every error for "not on-chain".                  *)
RemintOnError(m) ==
  /\ "fetchError" \in Faults
  /\ run[m].pc = "fetching"
  /\ Mint(m, run[m].owner)
  /\ disturbed' = [disturbed EXCEPT ![ZoneOf(m)] = @ + 1]
  /\ UNCHANGED <<keys, keysMade, registry, config, loaded, faultsLeft>>

EntryOf_NoOwner(m) == [mint |-> run[m].mint, pubkey |-> 0]
EntryOf(m) == [mint |-> run[m].mint, pubkey |-> run[m].owner]

Remembered(m) == [run[m].registry EXCEPT ![ZoneOf(m)] = EntryOf(m)]

Confirm_Unsaved(m) ==
  /\ run[m].pc = "minting"
  /\ assets[run[m].mint].status = "minted"
  /\ run' = [run EXCEPT ![m].pc = "zone", ![m].at = @ + 1, ![m].registry = Remembered(m)]
  /\ UNCHANGED <<assets, keys, keysMade, registry, config, loaded, faultsLeft, disturbed>>

(* sendAndConfirm returns; the registry is saved in the same turn.         *)
Confirm(m) ==
  /\ run[m].pc = "minting"
  /\ assets[run[m].mint].status = "minted"
  /\ run' = [run EXCEPT ![m].pc = "zone", ![m].at = @ + 1, ![m].registry = Remembered(m)]
  /\ registry' = [registry EXCEPT ![m] = Remembered(m)]
  /\ UNCHANGED <<assets, keys, keysMade, config, loaded, faultsLeft, disturbed>>

(* patchConfig replaces the block as a whole.                              *)
Patch(m) ==
  /\ run[m].pc = "zone" /\ Done(m)
  /\ config' = run[m].registry
  /\ run' = [run EXCEPT ![m] = Idle]
  /\ UNCHANGED <<assets, keys, keysMade, registry, loaded, faultsLeft, disturbed>>

(* sendAndConfirm rejects: the transaction is known never to land.         *)
Fail(m) ==
  /\ run[m].pc = "minting"
  /\ assets[run[m].mint].status = "lost"
  /\ run' = [run EXCEPT ![m] = Idle]
  /\ UNCHANGED <<assets, keys, keysMade, registry, config, loaded, faultsLeft, disturbed>>

-----------------------------------------------------------------------------
(* What happens around it.                                                 *)

Land(a) ==
  /\ assets[a].status = "flight"
  /\ \E s \in {"minted", "lost"} : assets' = [assets EXCEPT ![a].status = s]
  /\ UNCHANGED <<keys, keysMade, registry, config, loaded, run, faultsLeft, disturbed>>

Spend(f) == f \in Faults /\ faultsLeft > 0 /\ faultsLeft' = faultsLeft - 1

(* A mint under way, or confirmed and not saved, is forgotten.             *)
Die(m) ==
  /\ Spend("die")
  /\ run[m].pc \in {"fetching", "minting"}
  /\ run' = [run EXCEPT ![m] = Idle]
  /\ disturbed' = IF run[m].pc = "minting"
                  THEN [disturbed EXCEPT ![ZoneOf(m)] = @ + 1] ELSE disturbed
  /\ UNCHANGED <<assets, keys, keysMade, registry, config, loaded>>

LoseFiles(m) ==
  /\ \/ Spend("loseKeys")
        /\ keys' = [keys EXCEPT ![m] = [z \in Zones |-> 0]]
        /\ UNCHANGED registry
     \/ Spend("loseRegistry")
        /\ registry' = [registry EXCEPT ![m] = Empty]
        /\ UNCHANGED keys
  /\ disturbed' = [z \in Zones |-> disturbed[z] + 1]
  /\ UNCHANGED <<assets, keysMade, config, loaded, run>>

(* A client process starts: ids.ts is evaluated once.                      *)
Load(m) ==
  /\ loaded' = [loaded EXCEPT ![m] = config]
  /\ UNCHANGED <<assets, keys, keysMade, registry, config, run, faultsLeft, disturbed>>

Next ==
  \/ \E m \in Machines :
       \/ Begin(m) \/ Look(m) \/ Skip(m) \/ RemintForOwner(m) \/ RemintOnError(m)
       \/ Confirm(m) \/ Patch(m) \/ Fail(m)
       \/ Die(m) \/ LoseFiles(m) \/ Load(m)
  \/ \E a \in DOMAIN assets : Land(a)

Spec == Init /\ [][Next]_vars

-----------------------------------------------------------------------------
(* registerAgent of the client on m, for an agent that signs with k: the   *)
(* mint, or 0 when it throws.                                              *)
RegisterAgent_ByZone(m, z, k) == loaded[m][z].mint
RegisterAgent(m, z, k) ==
  IF Known(loaded[m][z]) /\ loaded[m][z].pubkey = k THEN loaded[m][z].mint ELSE 0

Registry == [Zones -> Entry \cup {NoEntry}]
Asset == [zone : Zones, owner : Nat \ {0}, status : {"flight", "minted", "lost"}]
Run == [pc : {"idle", "zone", "fetching", "minting"}, at : 1 .. Len(ZONES) + 1,
        registry : Registry, owner : Nat, mint : Nat]

TypeOK ==
  /\ assets \in Seq(Asset)
  /\ \A a \in DOMAIN assets : assets[a].owner <= keysMade
  /\ keysMade \in Nat
  /\ keys \in [Machines -> [Zones -> 0 .. keysMade]]
  /\ registry \in [Machines -> Registry]
  /\ config \in Registry
  /\ loaded \in [Machines -> Registry]
  /\ run \in [Machines -> Run]
  /\ \A m \in Machines : run[m].owner <= keysMade /\ run[m].mint <= Len(assets)
  /\ faultsLeft \in 0 .. MaxFaults
  /\ disturbed \in [Zones -> Nat]

(* What registerAgent returns is a minted asset of that zone that belongs  *)
(* to the caller's key, however old the client's copy of the config is and *)
(* whoever has re-minted since.                                            *)
ResolvedMintIsCallers ==
  \A m \in Machines, z \in Zones, k \in 1 .. keysMade :
    LET mint == RegisterAgent(m, z, k) IN
    mint # 0 => /\ assets[mint].status = "minted"
                /\ assets[mint].zone = z
                /\ assets[mint].owner = k

(* The config has no agents or all of them: the audit page reads all three *)
(* without looking whether they are there.                                 *)
ConfigIsWhole == config = Empty \/ \A z \in Zones : Known(config[z])

(* How far "idempotent" goes: on one machine a zone has a second identity  *)
(* only when a fault touched it, and no more of them than faults.          *)
MintedFor(z) == {a \in DOMAIN assets : assets[a].zone = z /\ assets[a].status = "minted"}
DuplicatesNeedFaults ==
  \A z \in Zones : Cardinality(MintedFor(z)) <= Cardinality(Machines) + disturbed[z]

(* "Idempotent: re-runs ... skip already-minted entries".                  *)
NoDuplicateIdentities == \A z \in Zones : Cardinality(MintedFor(z)) <= 1
=============================================================================
