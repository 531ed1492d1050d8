------------------------ MODULE AgentRegistryProofs ------------------------
(***************************************************************************)
(* register-agents and the clients that load its config, for any zones,    *)
(* machines and faults.  An entry is written only by the run that saw its  *)
(* asset minted, and a minted asset stays as it is: that makes every copy  *)
(* of an entry true, however old.  Duplicates are counted with a ledger:   *)
(* an asset that no machine holds any more, a key that a machine no longer *)
(* has, each is owed to a fault.                                           *)
(***************************************************************************)
EXTENDS AgentRegistry, FiniteSetTheorems, TLAPS

At(m, pc, z) == run[m].pc = pc /\ ZoneOf(m) = z

(* An entry is about a minted asset of its zone and its key.               *)
EntriesSound(r) ==
  \A z \in Zones : Known(r[z]) =>
    /\ r[z].mint \in DOMAIN assets
    /\ assets[r[z].mint] = [zone |-> z, owner |-> r[z].pubkey, status |-> "minted"]

CopiesSound ==
  /\ EntriesSound(config)
  /\ \A m \in Machines : /\ EntriesSound(registry[m]) /\ EntriesSound(loaded[m])
                         /\ EntriesSound(run[m].registry)

(* A run has entries for the zones it has passed, and what it is minting   *)
(* is an asset of this zone for this key that no entry of it names yet.    *)
RunSound(m) ==
  /\ run[m].pc # "idle" => \A i \in 1 .. run[m].at - 1 : Known(run[m].registry[ZONES[i]])
  /\ run[m].pc \in {"fetching", "minting"} => run[m].at <= Len(ZONES) /\ run[m].owner # 0
  /\ run[m].pc = "fetching" => Known(run[m].registry[ZoneOf(m)])
  /\ run[m].pc = "minting" =>
       /\ run[m].mint # 0
       /\ assets[run[m].mint].zone = ZoneOf(m)
       /\ assets[run[m].mint].owner = run[m].owner

WholeConfig == ConfigIsWhole /\ \A m \in Machines : RunSound(m)

-----------------------------------------------------------------------------
(* The ledger of a zone.                                                   *)

(* The file is what the run started from or saved last, unless it is lost. *)
FileIsRuns(m) == run[m].pc # "idle" => registry[m] \in {run[m].registry, Empty}

(* The assets a machine knows.                                             *)
Mints(m) == {registry[m][z].mint : z \in Zones} \cup {run[m].registry[z].mint : z \in Zones}
Knows(m) == (Mints(m) \cup (IF run[m].pc = "minting" THEN {run[m].mint} ELSE {})) \ {0}
KnowledgeApart ==
  /\ \A m \in Machines : FileIsRuns(m) /\ (run[m].pc = "minting" => run[m].mint \notin Mints(m))
  /\ \A m, n \in Machines : m # n => Knows(m) \cap Knows(n) = {}

(* The identity that a machine has, or is about to have, for a zone.       *)
Held(m, z) == IF At(m, "minting", z) THEN EntryOf(m) ELSE registry[m][z]

(* Assets that no machine holds.                                           *)
Strays(z) == {a \in DOMAIN assets : /\ assets[a].zone = z /\ assets[a].status # "lost"
                                    /\ \A m \in Machines : Held(m, z).mint # a}

(* Machines whose key was lost after they looked at it, and machines that  *)
(* hold an identity of another key than theirs.                            *)
KeyOf(m, z) == IF At(m, "fetching", z) THEN run[m].owner ELSE keys[m][z]
Forgetful(z) == {m \in Machines : KeyOf(m, z) # keys[m][z]}
Strangers(z) == {m \in Machines : Known(Held(m, z)) /\ Held(m, z).pubkey # KeyOf(m, z)}

Ledger(z) == Cardinality(Strays(z)) + Cardinality(Forgetful(z)) + Cardinality(Strangers(z))

(* What a machine contributes to the last two.                             *)
Unit(b) == IF b THEN 1 ELSE 0
Owed(m, z) == Unit(KeyOf(m, z) # keys[m][z])
              + Unit(Known(Held(m, z)) /\ Held(m, z).pubkey # KeyOf(m, z))

LedgerBalanced == \A z \in Zones : Ledger(z) <= disturbed[z]

IInv == TypeOK /\ CopiesSound /\ WholeConfig
LInv == IInv /\ KnowledgeApart /\ LedgerBalanced

-----------------------------------------------------------------------------
(* What the steps of a run do to it.                                       *)

(* The zone a run is at is one of the zones.                               *)
LEMMA ZoneOfIsZone ==
  ASSUME NEW m \in Machines, run[m] \in Run, run[m].at <= Len(ZONES)
  PROVE  ZoneOf(m) \in Zones
<1>1. run[m].at \in DOMAIN ZONES
  BY ZonesAssumption DEF Run
<1>2. QED BY <1>1 DEF ZoneOf, Zones

(* The empty registry and the run that has not begun.                      *)
LEMMA EmptyTyped == Empty \in Registry /\ Idle \in Run /\ ~ Known(NoEntry)
<1>1. Empty \in Registry
  BY DEF Empty, Registry
<1>2. 1 \in 1 .. Len(ZONES) + 1
  BY ZonesAssumption
<1>3. QED BY <1>1, <1>2 DEF Idle, Run, Known

(* Mint appends an asset in flight, and the run waits for it.              *)
LEMMA MintEffect ==
  ASSUME TypeOK, NEW m \in Machines, NEW owner \in Nat \ {0}, Mint(m, owner),
         run[m].at <= Len(ZONES)
  PROVE  /\ assets' \in Seq(Asset) /\ Len(assets') = Len(assets) + 1
         /\ Len(assets) \in Nat /\ DOMAIN assets = 1 .. Len(assets)
         /\ DOMAIN assets' = 1 .. Len(assets) + 1
         /\ \A a \in DOMAIN assets : assets'[a] = assets[a]
         /\ assets'[Len(assets) + 1] = [zone |-> ZoneOf(m), owner |-> owner, status |-> "flight"]
         /\ run' \in [Machines -> Run]
         /\ \A n \in Machines : n # m => run'[n] = run[n]
         /\ run'[m].pc = "minting" /\ run'[m].at = run[m].at
         /\ run'[m].registry = run[m].registry
         /\ run'[m].owner = owner /\ run'[m].mint = Len(assets) + 1
<1>1. run \in [Machines -> Run] /\ assets \in Seq(Asset)
  BY DEF TypeOK
<1>2. Len(assets) \in Nat /\ DOMAIN assets = 1 .. Len(assets)
  BY <1>1
<1>3. run[m] \in Run
  BY <1>1
<1>4. [zone |-> ZoneOf(m), owner |-> owner, status |-> "flight"] \in Asset
  BY <1>3, ZoneOfIsZone DEF Asset
<1>5. assets' = Append(assets, [zone |-> ZoneOf(m), owner |-> owner, status |-> "flight"])
  BY DEF Mint
<1>6. /\ assets' \in Seq(Asset) /\ Len(assets') = Len(assets) + 1
      /\ DOMAIN assets' = 1 .. Len(assets) + 1
      /\ \A a \in DOMAIN assets : assets'[a] = assets[a]
      /\ assets'[Len(assets) + 1] = [zone |-> ZoneOf(m), owner |-> owner, status |-> "flight"]
  BY <1>1, <1>2, <1>4, <1>5
<1>7. run' = [run EXCEPT ![m].pc = "minting", ![m].owner = owner, ![m].mint = Len(assets) + 1]
  BY DEF Mint
<1>8. run' = [run EXCEPT ![m] = [run[m] EXCEPT !.pc = "minting", !.owner = owner, !.mint = Len(assets) + 1]]
  BY <1>1, <1>7
<1>9. [run[m] EXCEPT !.pc = "minting", !.owner = owner, !.mint = Len(assets) + 1] \in Run
  <2>1. Len(assets) + 1 \in Nat /\ owner \in Nat
    BY <1>2
  <2>2. ASSUME NEW k \in Nat
        PROVE  [run[m] EXCEPT !.pc = "minting", !.owner = owner, !.mint = k] \in Run
    BY <1>3, <2>1 DEF Run
  <2>3. QED BY <2>1, <2>2
<1>10. /\ run' \in [Machines -> Run] /\ \A n \in Machines : n # m => run'[n] = run[n]
       /\ run'[m] = [run[m] EXCEPT !.pc = "minting", !.owner = owner, !.mint = Len(assets) + 1]
  BY <1>1, <1>8, <1>9
<1>11. QED BY <1>2, <1>3, <1>6, <1>10 DEF Run

(* Look gives the machine a key for the zone if it has none.               *)
LEMMA LookEffect ==
  ASSUME TypeOK, NEW m \in Machines, Look(m)
  PROVE  \E owner \in Nat \ {0} :
         /\ run[m].at <= Len(ZONES) /\ ZoneOf(m) \in Zones /\ run[m].pc = "zone"
         /\ keysMade' \in Nat /\ keysMade <= keysMade' /\ owner <= keysMade'
         /\ keys' \in [Machines -> [Zones -> 0 .. keysMade']]
         /\ \A n \in Machines, z \in Zones :
              keys'[n][z] = IF n = m /\ z = ZoneOf(m) THEN owner ELSE keys[n][z]
         /\ keys[m][ZoneOf(m)] # 0 => owner = keys[m][ZoneOf(m)]
         /\ IF Known(run[m].registry[ZoneOf(m)]) THEN Fetch(m, owner) ELSE Mint(m, owner)
         /\ UNCHANGED <<registry, config, loaded, faultsLeft, disturbed>>
<1> DEFINE z == ZoneOf(m)
           isNew == keys[m][z] = 0
           owner == IF isNew THEN keysMade + 1 ELSE keys[m][z]
<1>1. run[m] \in Run /\ run[m].pc = "zone" /\ ~ Done(m)
  BY DEF TypeOK, Look
<1>2. run[m].at <= Len(ZONES)
  BY <1>1, ZonesAssumption DEF Done, Run
<1>3. z \in Zones
  BY <1>1, <1>2, ZoneOfIsZone
<1>4. keysMade \in Nat /\ keys \in [Machines -> [Zones -> 0 .. keysMade]]
  BY DEF TypeOK
<1>5. /\ keys' = [keys EXCEPT ![m][z] = owner]
      /\ keysMade' = IF isNew THEN keysMade + 1 ELSE keysMade
      /\ IF Known(run[m].registry[z]) THEN Fetch(m, owner) ELSE Mint(m, owner)
      /\ UNCHANGED <<registry, config, loaded, faultsLeft, disturbed>>
  BY DEF Look
<1>6. owner \in Nat \ {0} /\ owner <= keysMade' /\ keysMade' \in Nat /\ keysMade <= keysMade'
      /\ (keys[m][z] # 0 => owner = keys[m][z])
  BY <1>3, <1>4, <1>5
<1> HIDE DEF z, owner
<1>7. \A n \in Machines, y \in Zones :
        keys'[n][y] = IF n = m /\ y = z THEN owner ELSE keys[n][y]
  BY <1>3, <1>4, <1>5
<1>8. keys' \in [Machines -> [Zones -> 0 .. keysMade']]
  <2>1. owner \in 0 .. keysMade' /\ 0 .. keysMade \subseteq 0 .. keysMade'
    BY <1>4, <1>6
  <2>2. keys \in [Machines -> [Zones -> 0 .. keysMade']]
    BY <1>4, <2>1
  <2>3. QED BY <1>3, <1>5, <2>1, <2>2
<1>9. QED BY <1>1, <1>2, <1>3, <1>5, <1>6, <1>7, <1>8 DEF z

(* Fetch waits for the answer about the asset of the entry.                *)
LEMMA FetchEffect ==
  ASSUME TypeOK, NEW m \in Machines, NEW owner \in Nat, Fetch(m, owner)
  PROVE  /\ run' \in [Machines -> Run]
         /\ \A n \in Machines : n # m => run'[n] = run[n]
         /\ run'[m].pc = "fetching" /\ run'[m].at = run[m].at
         /\ run'[m].registry = run[m].registry
         /\ run'[m].owner = owner /\ run'[m].mint = run[m].mint
         /\ assets' = assets
<1>1. run \in [Machines -> Run] /\ run[m] \in Run
  BY DEF TypeOK
<1>2. run' = [run EXCEPT ![m] = [run[m] EXCEPT !.pc = "fetching", !.owner = owner]] /\ assets' = assets
  BY <1>1 DEF Fetch
<1>3. [run[m] EXCEPT !.pc = "fetching", !.owner = owner] \in Run
  BY <1>1 DEF Run
<1>4. /\ run' \in [Machines -> Run] /\ \A n \in Machines : n # m => run'[n] = run[n]
      /\ run'[m] = [run[m] EXCEPT !.pc = "fetching", !.owner = owner]
  BY <1>1, <1>2, <1>3
<1>5. QED BY <1>1, <1>2, <1>4 DEF Run

(* Skip goes on to the next zone.                                          *)
LEMMA SkipEffect ==
  ASSUME TypeOK, NEW m \in Machines, RunSound(m), Skip(m)
  PROVE  /\ run' \in [Machines -> Run]
         /\ \A n \in Machines : n # m => run'[n] = run[n]
         /\ run'[m].pc = "zone" /\ run'[m].at = run[m].at + 1
         /\ run'[m].registry = run[m].registry
         /\ run'[m].owner = run[m].owner /\ run'[m].mint = run[m].mint
<1>1. run \in [Machines -> Run] /\ run[m] \in Run /\ run[m].at <= Len(ZONES)
  BY DEF TypeOK, Skip, RunSound
<1>2. run' = [run EXCEPT ![m] = [run[m] EXCEPT !.pc = "zone", !.at = run[m].at + 1]]
  BY <1>1 DEF Skip
<1>3. run[m].at + 1 \in 1 .. Len(ZONES) + 1
  BY <1>1, ZonesAssumption DEF Run
<1>4. [run[m] EXCEPT !.pc = "zone", !.at = run[m].at + 1] \in Run
  BY <1>1, <1>3 DEF Run
<1>5. /\ run' \in [Machines -> Run] /\ \A n \in Machines : n # m => run'[n] = run[n]
      /\ run'[m] = [run[m] EXCEPT !.pc = "zone", !.at = run[m].at + 1]
  BY <1>1, <1>2, <1>4
<1>6. QED BY <1>1, <1>5 DEF Run

(* What a run remembers once its asset is minted.                          *)
LEMMA RememberedEntries ==
  ASSUME TypeOK, NEW m \in Machines, RunSound(m), run[m].pc = "minting"
  PROVE  /\ EntryOf(m) \in Entry /\ Known(EntryOf(m))
         /\ ZoneOf(m) \in Zones
         /\ Remembered(m) \in Registry
         /\ \A z \in Zones : Remembered(m)[z] = IF z = ZoneOf(m) THEN EntryOf(m)
                                                ELSE run[m].registry[z]
<1>1. run[m] \in Run /\ run[m].at <= Len(ZONES) /\ run[m].owner # 0 /\ run[m].mint # 0
  BY DEF TypeOK, RunSound
<1>2. EntryOf(m) \in Entry /\ Known(EntryOf(m))
  BY <1>1 DEF EntryOf, Entry, Known, NoEntry, Run
<1>3. ZoneOf(m) \in Zones
  BY <1>1, ZoneOfIsZone
<1>4. run[m].registry \in [Zones -> Entry \cup {NoEntry}]
  BY <1>1 DEF Run, Registry
<1>5. QED BY <1>2, <1>3, <1>4 DEF Remembered, Registry

(* Confirm remembers the asset, in memory and in the file.                 *)
LEMMA ConfirmEffect ==
  ASSUME TypeOK, NEW m \in Machines, RunSound(m), Confirm(m)
  PROVE  /\ run' \in [Machines -> Run]
         /\ \A n \in Machines : n # m => run'[n] = run[n]
         /\ run'[m].pc = "zone" /\ run'[m].at = run[m].at + 1
         /\ run'[m].registry = Remembered(m)
         /\ run'[m].owner = run[m].owner /\ run'[m].mint = run[m].mint
         /\ registry' \in [Machines -> Registry]
         /\ registry'[m] = Remembered(m)
         /\ \A n \in Machines : n # m => registry'[n] = registry[n]
<1>1. run \in [Machines -> Run] /\ run[m] \in Run /\ run[m].at <= Len(ZONES)
      /\ registry \in [Machines -> Registry]
  BY DEF TypeOK, Confirm, RunSound
<1>2. /\ run' = [run EXCEPT ![m] = [run[m] EXCEPT !.pc = "zone", !.at = run[m].at + 1,
                                                  !.registry = Remembered(m)]]
      /\ registry' = [registry EXCEPT ![m] = Remembered(m)]
  BY <1>1 DEF Confirm
<1>3. run[m].at + 1 \in 1 .. Len(ZONES) + 1
  BY <1>1, ZonesAssumption DEF Run
<1>4. Remembered(m) \in Registry
  BY RememberedEntries DEF Confirm
<1>5. [run[m] EXCEPT !.pc = "zone", !.at = run[m].at + 1, !.registry = Remembered(m)] \in Run
  BY <1>1, <1>3, <1>4 DEF Run
<1>6. /\ run' \in [Machines -> Run] /\ \A n \in Machines : n # m => run'[n] = run[n]
      /\ run'[m] = [run[m] EXCEPT !.pc = "zone", !.at = run[m].at + 1, !.registry = Remembered(m)]
  BY <1>1, <1>2, <1>5
<1>7. QED BY <1>1, <1>2, <1>4, <1>6 DEF Run

(* A run begins with what the file holds.                                  *)
LEMMA BeginEffect ==
  ASSUME TypeOK, NEW m \in Machines, Begin(m)
  PROVE  /\ run' \in [Machines -> Run]
         /\ \A n \in Machines : n # m => run'[n] = run[n]
         /\ run'[m].pc = "zone" /\ run'[m].at = 1
         /\ run'[m].registry = registry[m]
         /\ run'[m].owner = 0 /\ run'[m].mint = 0
<1>1. run \in [Machines -> Run] /\ registry[m] \in Registry
  BY DEF TypeOK
<1>2. run' = [run EXCEPT ![m] = [Idle EXCEPT !.pc = "zone", !.registry = registry[m]]]
  BY DEF Begin
<1>3. Idle \in Run /\ Idle.at = 1 /\ Idle.owner = 0 /\ Idle.mint = 0
  BY EmptyTyped DEF Idle
<1>4. [Idle EXCEPT !.pc = "zone", !.registry = registry[m]] \in Run
  BY <1>1, <1>3 DEF Run
<1>5. /\ run' \in [Machines -> Run] /\ \A n \in Machines : n # m => run'[n] = run[n]
      /\ run'[m] = [Idle EXCEPT !.pc = "zone", !.registry = registry[m]]
  BY <1>1, <1>2, <1>4
<1>6. QED BY <1>1, <1>3, <1>5 DEF Run

(* A run that ends leaves nothing in memory.                               *)
LEMMA EndEffect ==
  ASSUME TypeOK, NEW m \in Machines, run' = [run EXCEPT ![m] = Idle]
  PROVE  /\ run' \in [Machines -> Run]
         /\ \A n \in Machines : n # m => run'[n] = run[n]
         /\ run'[m] = Idle
         /\ run'[m].pc = "idle" /\ run'[m].registry = Empty
         /\ run'[m].owner = 0 /\ run'[m].mint = 0
<1>1. run \in [Machines -> Run]
  BY DEF TypeOK
<1>2. QED BY <1>1, EmptyTyped DEF Idle

(* The network decides about one asset that is in flight.                  *)
LEMMA LandEffect ==
  ASSUME TypeOK, NEW a \in DOMAIN assets, Land(a)
  PROVE  /\ assets' \in Seq(Asset) /\ Len(assets') = Len(assets)
         /\ DOMAIN assets' = DOMAIN assets
         /\ \A b \in DOMAIN assets : b # a => assets'[b] = assets[b]
         /\ assets[a].status = "flight"
         /\ assets'[a].zone = assets[a].zone /\ assets'[a].owner = assets[a].owner
<1>1. assets \in Seq(Asset) /\ assets[a] \in Asset
  BY DEF TypeOK
<1>2. PICK s \in {"minted", "lost"} : assets' = [assets EXCEPT ![a].status = s]
  BY DEF Land
<1>3. assets' = [assets EXCEPT ![a] = [assets[a] EXCEPT !.status = s]]
  BY <1>1, <1>2
<1>4. [assets[a] EXCEPT !.status = s] \in Asset
  BY <1>1 DEF Asset
<1>5. /\ assets' \in Seq(Asset) /\ Len(assets') = Len(assets) /\ DOMAIN assets' = DOMAIN assets
      /\ \A b \in DOMAIN assets : b # a => assets'[b] = assets[b]
      /\ assets'[a] = [assets[a] EXCEPT !.status = s]
  BY <1>1, <1>3, <1>4
<1>6. QED BY <1>1, <1>5 DEF Asset, Land

-----------------------------------------------------------------------------
(* Types.                                                                  *)

(* What the numbers in the state are bounded by.                           *)
LEMMA Bounds ==
  ASSUME TypeOK
  PROVE  /\ Len(assets) \in Nat /\ DOMAIN assets = 1 .. Len(assets) /\ keysMade \in Nat
         /\ \A a \in DOMAIN assets : /\ assets[a] \in Asset
                                     /\ assets[a].owner \in Nat /\ assets[a].owner <= keysMade
         /\ \A m \in Machines : /\ run[m] \in Run
                                /\ run[m].mint \in Nat /\ run[m].mint <= Len(assets)
                                /\ run[m].owner \in Nat /\ run[m].owner <= keysMade
<1>1. \A a \in DOMAIN assets : assets[a] \in Asset /\ assets[a].owner <= keysMade
  BY DEF TypeOK
<1>2. \A a \in DOMAIN assets : assets[a].owner \in Nat
  BY <1>1 DEF Asset
<1>3. Len(assets) \in Nat /\ DOMAIN assets = 1 .. Len(assets)
  BY DEF TypeOK
<1>4. \A m \in Machines : run[m] \in Run /\ run[m].owner <= keysMade /\ run[m].mint <= Len(assets)
  BY DEF TypeOK
<1>5. \A m \in Machines : run[m].mint \in Nat /\ run[m].owner \in Nat
  BY <1>4 DEF Run
<1>6. QED BY <1>1, <1>2, <1>3, <1>4, <1>5 DEF TypeOK

(* A run that changes its own record within them keeps them.               *)
LEMMA RunBounds ==
  ASSUME TypeOK, NEW m \in Machines,
         \A n \in Machines : n # m => run'[n] = run[n],
         NEW owners \in Nat, keysMade <= owners, run'[m].owner <= owners,
         NEW mints \in Nat, Len(assets) <= mints, run'[m].mint <= mints
  PROVE  \A n \in Machines : run'[n].owner <= owners /\ run'[n].mint <= mints
<1> SUFFICES ASSUME NEW n \in Machines, n # m PROVE run[n].owner <= owners /\ run[n].mint <= mints
  OBVIOUS
<1>1. /\ run[n].mint \in Nat /\ run[n].mint <= Len(assets) /\ Len(assets) \in Nat
      /\ run[n].owner \in Nat /\ run[n].owner <= keysMade /\ keysMade \in Nat
  BY Bounds
<1>2. QED BY <1>1

(* A mint keeps them, for an owner among the keys made.                    *)
LEMMA MintBounds ==
  ASSUME TypeOK, NEW m \in Machines, NEW owner \in Nat \ {0}, Mint(m, owner),
         run[m].at <= Len(ZONES), NEW owners \in Nat, keysMade <= owners, owner <= owners
  PROVE  /\ \A a \in DOMAIN assets' : assets'[a].owner <= owners
         /\ \A n \in Machines : run'[n].owner <= owners /\ run'[n].mint <= Len(assets')
<1>1. /\ Len(assets') = Len(assets) + 1 /\ Len(assets) \in Nat
      /\ DOMAIN assets = 1 .. Len(assets) /\ DOMAIN assets' = 1 .. Len(assets) + 1
      /\ \A a \in DOMAIN assets : assets'[a] = assets[a]
      /\ assets'[Len(assets) + 1] = [zone |-> ZoneOf(m), owner |-> owner, status |-> "flight"]
      /\ \A n \in Machines : n # m => run'[n] = run[n]
      /\ run'[m].owner = owner /\ run'[m].mint = Len(assets) + 1
  BY MintEffect
<1>2. \A n \in Machines : run'[n].owner <= owners /\ run'[n].mint <= Len(assets) + 1
  <2>1. Len(assets) + 1 \in Nat /\ run'[m].owner <= owners /\ run'[m].mint <= Len(assets) + 1
        /\ Len(assets) <= Len(assets) + 1
    BY <1>1
  <2>2. QED BY <1>1, <2>1, RunBounds
<1>3. ASSUME NEW a \in DOMAIN assets' PROVE assets'[a].owner <= owners
  <2>1. CASE a \in DOMAIN assets
    <3>1. assets'[a] = assets[a]
      BY <1>1, <2>1
    <3>2. assets[a].owner \in Nat /\ assets[a].owner <= keysMade /\ keysMade \in Nat
      BY <2>1, Bounds
    <3>3. QED BY <3>1, <3>2
  <2>2. CASE a = Len(assets) + 1
    <3>1. assets'[a].owner = owner
      BY <1>1, <2>2
    <3>2. QED BY <3>1
  <2>3. QED BY <1>1, <2>1, <2>2
<1>4. QED BY <1>1, <1>2, <1>3

(* Every step of a run, and around it, keeps the types.                    *)
LEMMA TypePreserved ==
  ASSUME TypeOK, \A m \in Machines : RunSound(m), [Next]_vars
  PROVE  TypeOK'
<1>1. ASSUME NEW m \in Machines, Begin(m) PROVE TypeOK'
  <2>1. /\ run' \in [Machines -> Run] /\ \A n \in Machines : n # m => run'[n] = run[n]
        /\ run'[m].owner = 0 /\ run'[m].mint = 0
    BY <1>1, BeginEffect
  <2>2. run'[m].owner <= keysMade /\ run'[m].mint <= Len(assets)
    BY <2>1, Bounds
  <2>3. \A n \in Machines : run'[n].owner <= keysMade /\ run'[n].mint <= Len(assets)
    BY <2>1, <2>2, Bounds
  <2>4. QED BY <1>1, <2>1, <2>3 DEF TypeOK, Begin
<1>2. ASSUME NEW m \in Machines, Look(m) PROVE TypeOK'
  <2>1. PICK owner \in Nat \ {0} :
         /\ run[m].at <= Len(ZONES)
         /\ keysMade' \in Nat /\ keysMade <= keysMade' /\ owner <= keysMade'
         /\ keys' \in [Machines -> [Zones -> 0 .. keysMade']]
         /\ IF Known(run[m].registry[ZoneOf(m)]) THEN Fetch(m, owner) ELSE Mint(m, owner)
         /\ UNCHANGED <<registry, config, loaded, faultsLeft, disturbed>>
    BY <1>2, LookEffect
  <2>2. CASE Fetch(m, owner)
    <3>1. /\ run' \in [Machines -> Run] /\ assets' = assets
          /\ \A n \in Machines : n # m => run'[n] = run[n]
          /\ run'[m].owner = owner /\ run'[m].mint = run[m].mint
      BY <2>1, <2>2, FetchEffect
    <3>2. \A n \in Machines : run'[n].owner <= keysMade' /\ run'[n].mint <= Len(assets)
      <4>1. run'[m].owner <= keysMade' /\ run'[m].mint <= Len(assets) /\ Len(assets) \in Nat
            /\ Len(assets) <= Len(assets)
        BY <2>1, <3>1, Bounds
      <4>2. QED BY <2>1, <3>1, <4>1, RunBounds
    <3>3. \A a \in DOMAIN assets : assets[a].owner <= keysMade'
      <4>1. \A a \in DOMAIN assets : assets[a].owner \in Nat /\ assets[a].owner <= keysMade
        BY Bounds
      <4>2. QED BY <2>1, <4>1, Bounds
    <3>4. QED BY <2>1, <3>1, <3>2, <3>3 DEF TypeOK
  <2>3. CASE Mint(m, owner)
    <3>1. run' \in [Machines -> Run] /\ assets' \in Seq(Asset)
      BY <2>1, <2>3, MintEffect
    <3>2. /\ \A a \in DOMAIN assets' : assets'[a].owner <= keysMade'
          /\ \A n \in Machines : run'[n].owner <= keysMade' /\ run'[n].mint <= Len(assets')
      BY <2>1, <2>3, MintBounds
    <3>3. QED BY <2>1, <3>1, <3>2 DEF TypeOK
  <2>4. QED BY <2>1, <2>2, <2>3
<1>3. ASSUME NEW m \in Machines, Skip(m) PROVE TypeOK'
  <2>1. /\ run' \in [Machines -> Run] /\ \A n \in Machines : n # m => run'[n] = run[n]
        /\ run'[m].owner = run[m].owner /\ run'[m].mint = run[m].mint
    BY <1>3, SkipEffect
  <2>2. \A n \in Machines : run'[n].owner <= keysMade /\ run'[n].mint <= Len(assets)
    BY <2>1, Bounds
  <2>3. QED BY <1>3, <2>1, <2>2 DEF TypeOK, Skip
<1>4. ASSUME NEW m \in Machines, RemintForOwner(m) \/ RemintOnError(m) PROVE TypeOK'
  <2>1. PICK owner \in Nat \ {0} : owner = run[m].owner /\ owner <= keysMade
    BY <1>4, Bounds DEF RunSound, RemintForOwner, RemintOnError
  <2>2. run[m].at <= Len(ZONES) /\ Mint(m, owner)
    BY <1>4, <2>1 DEF RunSound, RemintForOwner, RemintOnError, Mint
  <2>3. run' \in [Machines -> Run] /\ assets' \in Seq(Asset)
    BY <2>2, MintEffect
  <2>4. /\ \A a \in DOMAIN assets' : assets'[a].owner <= keysMade
        /\ \A n \in Machines : run'[n].owner <= keysMade /\ run'[n].mint <= Len(assets')
    <3>1. keysMade \in Nat /\ keysMade <= keysMade
      BY Bounds
    <3>2. QED BY <2>1, <2>2, <3>1, MintBounds
  <2>5. disturbed' \in [Zones -> Nat]
    <3>1. disturbed \in [Zones -> Nat]
      BY DEF TypeOK
    <3>2. disturbed' = disturbed \/ disturbed' = [disturbed EXCEPT ![ZoneOf(m)] = disturbed[ZoneOf(m)] + 1]
      BY <1>4 DEF RemintForOwner, RemintOnError
    <3>3. QED BY <3>1, <3>2
  <2>6. QED BY <1>4, <2>3, <2>4, <2>5 DEF TypeOK, RemintForOwner, RemintOnError
<1>5. ASSUME NEW m \in Machines, Confirm(m) PROVE TypeOK'
  <2>1. /\ run' \in [Machines -> Run] /\ registry' \in [Machines -> Registry]
        /\ \A n \in Machines : n # m => run'[n] = run[n]
        /\ run'[m].owner = run[m].owner /\ run'[m].mint = run[m].mint
    BY <1>5, ConfirmEffect
  <2>2. \A n \in Machines : run'[n].owner <= keysMade /\ run'[n].mint <= Len(assets)
    BY <2>1, Bounds
  <2>3. QED BY <1>5, <2>1, <2>2 DEF TypeOK, Confirm
<1>6. ASSUME NEW m \in Machines, Patch(m) \/ Fail(m) \/ Die(m) PROVE TypeOK'
  <2>1. run' = [run EXCEPT ![m] = Idle]
    BY <1>6 DEF Patch, Fail, Die
  <2>2. /\ run' \in [Machines -> Run] /\ \A n \in Machines : n # m => run'[n] = run[n]
        /\ run'[m].owner = 0 /\ run'[m].mint = 0
    BY <2>1, EndEffect
  <2>3. run'[m].owner <= keysMade /\ run'[m].mint <= Len(assets)
    BY <2>2, Bounds
  <2>4. \A n \in Machines : run'[n].owner <= keysMade /\ run'[n].mint <= Len(assets)
    BY <2>2, <2>3, Bounds
  <2>5. CASE Patch(m) \/ Fail(m)
    <3>1. run[m].registry \in Registry
      BY Bounds DEF Run
    <3>2. QED BY <2>5, <2>2, <2>4, <3>1 DEF TypeOK, Patch, Fail
  <2>6. CASE Die(m)
    <3>1. faultsLeft' \in 0 .. MaxFaults
      BY <2>6, FaultsAssumption DEF Die, Spend, TypeOK
    <3>2. disturbed' \in [Zones -> Nat]
      <4>1. disturbed \in [Zones -> Nat]
        BY DEF TypeOK
      <4>2. disturbed' = disturbed \/ disturbed' = [disturbed EXCEPT ![ZoneOf(m)] = disturbed[ZoneOf(m)] + 1]
        BY <2>6 DEF Die
      <4>3. QED BY <4>1, <4>2
    <3>3. QED BY <2>6, <2>2, <2>4, <3>1, <3>2 DEF TypeOK, Die
  <2>7. QED BY <1>6, <2>5, <2>6
<1>8. ASSUME NEW m \in Machines, LoseFiles(m) PROVE TypeOK'
  <2>1. faultsLeft' \in 0 .. MaxFaults
    BY <1>8, FaultsAssumption DEF LoseFiles, Spend, TypeOK
  <2>2. disturbed' \in [Zones -> Nat]
    BY <1>8 DEF LoseFiles, TypeOK
  <2>3. keys' \in [Machines -> [Zones -> 0 .. keysMade]]
    <3>1. [z \in Zones |-> 0] \in [Zones -> 0 .. keysMade]
      BY Bounds
    <3>2. QED BY <1>8, <3>1 DEF TypeOK, LoseFiles
  <2>4. registry' \in [Machines -> Registry]
    BY <1>8, EmptyTyped DEF LoseFiles, TypeOK
  <2>5. QED BY <1>8, <2>1, <2>2, <2>3, <2>4 DEF TypeOK, LoseFiles
<1>9. ASSUME NEW m \in Machines, Load(m) PROVE TypeOK'
  BY <1>9 DEF TypeOK, Load
<1>10. ASSUME NEW a \in DOMAIN assets, Land(a) PROVE TypeOK'
  <2>1. /\ assets' \in Seq(Asset) /\ Len(assets') = Len(assets) /\ DOMAIN assets' = DOMAIN assets
        /\ \A b \in DOMAIN assets : b # a => assets'[b] = assets[b]
        /\ assets'[a].owner = assets[a].owner
    BY <1>10, LandEffect
  <2>2. \A b \in DOMAIN assets' : assets'[b].owner <= keysMade
    BY <2>1, Bounds
  <2>3. QED BY <1>10, <2>1, <2>2 DEF TypeOK, Land
<1>11. CASE UNCHANGED vars
  BY <1>11 DEF TypeOK, vars
<1>12. QED
  BY <1>1, <1>2, <1>3, <1>4, <1>5, <1>6, <1>8, <1>9, <1>10, <1>11 DEF Next

-----------------------------------------------------------------------------
(* Entries stay true.                                                      *)

(* Assets come to the chain and never leave it; a minted one stays as it   *)
(* is.                                                                     *)
Grown ==
  /\ DOMAIN assets \subseteq DOMAIN assets'
  /\ \A a \in DOMAIN assets :
       /\ assets'[a].zone = assets[a].zone /\ assets'[a].owner = assets[a].owner
       /\ assets[a].status = "minted" => assets'[a] = assets[a]

(* A mint adds an asset and leaves the others.                             *)
LEMMA MintGrows ==
  ASSUME TypeOK, NEW m \in Machines, NEW owner \in Nat \ {0}, Mint(m, owner), run[m].at <= Len(ZONES)
  PROVE  Grown
<1>1. /\ DOMAIN assets = 1 .. Len(assets) /\ DOMAIN assets' = 1 .. Len(assets) + 1
      /\ Len(assets) \in Nat
      /\ \A a \in DOMAIN assets : assets'[a] = assets[a]
  BY MintEffect
<1>2. QED BY <1>1 DEF Grown

(* A re-mint is a mint by the key that the run has looked up.              *)
LEMMA RemintIsMint ==
  ASSUME TypeOK, NEW m \in Machines, RunSound(m), RemintForOwner(m) \/ RemintOnError(m)
  PROVE  \E owner \in Nat \ {0} : /\ owner = run[m].owner /\ owner <= keysMade
                                  /\ run[m].at <= Len(ZONES) /\ Mint(m, owner)
<1>1. PICK owner \in Nat \ {0} : owner = run[m].owner /\ owner <= keysMade
  BY Bounds DEF RunSound, RemintForOwner, RemintOnError
<1>2. run[m].at <= Len(ZONES) /\ Mint(m, owner)
  BY <1>1 DEF RunSound, RemintForOwner, RemintOnError, Mint
<1>3. QED BY <1>1, <1>2

(* Every step lets the chain grow.                                         *)
LEMMA AssetsGrow ==
  ASSUME TypeOK, \A m \in Machines : RunSound(m), [Next]_vars
  PROVE  Grown
<1>1. ASSUME UNCHANGED assets PROVE Grown
  BY <1>1 DEF Grown
<1>2. ASSUME NEW m \in Machines, Look(m) PROVE Grown
  <2>1. PICK owner \in Nat \ {0} :
          /\ run[m].at <= Len(ZONES)
          /\ IF Known(run[m].registry[ZoneOf(m)]) THEN Fetch(m, owner) ELSE Mint(m, owner)
    BY <1>2, LookEffect
  <2>2. CASE Fetch(m, owner)
    BY <2>2, <1>1 DEF Fetch
  <2>3. CASE Mint(m, owner)
    BY <2>1, <2>3, MintGrows
  <2>4. QED BY <2>1, <2>2, <2>3
<1>3. ASSUME NEW m \in Machines, RemintForOwner(m) \/ RemintOnError(m) PROVE Grown
  BY <1>3, RemintIsMint, MintGrows
<1>4. ASSUME NEW a \in DOMAIN assets, Land(a) PROVE Grown
  <2>1. /\ DOMAIN assets' = DOMAIN assets
        /\ \A b \in DOMAIN assets : b # a => assets'[b] = assets[b]
        /\ assets[a].status = "flight"
        /\ assets'[a].zone = assets[a].zone /\ assets'[a].owner = assets[a].owner
    BY <1>4, LandEffect
  <2>2. QED BY <2>1 DEF Grown
<1>5. ASSUME NEW m \in Machines,
             \/ Begin(m) \/ Skip(m) \/ Confirm(m) \/ Patch(m) \/ Fail(m) \/ Die(m)
             \/ LoseFiles(m) \/ Load(m)
      PROVE  UNCHANGED assets
  BY <1>5 DEF Begin, Skip, Confirm, Patch, Fail, Die, LoseFiles, Load
<1>6. CASE UNCHANGED vars
  BY <1>6, <1>1 DEF vars
<1>7. QED BY <1>1, <1>2, <1>3, <1>4, <1>5, <1>6 DEF Next

(* What is true of an entry before a step is true of it after.             *)
StillSound(r) ==
  \A z \in Zones : Known(r[z]) =>
    /\ r[z].mint \in DOMAIN assets'
    /\ assets'[r[z].mint] = [zone |-> z, owner |-> r[z].pubkey, status |-> "minted"]

(* The copies of the registry that exist.                                  *)
Copies == {config, Empty} \cup {registry[m] : m \in Machines} \cup {loaded[m] : m \in Machines}
          \cup {run[m].registry : m \in Machines}

(* A step that lets the chain grow leaves them true.                       *)
LEMMA CopiesStillSound ==
  ASSUME CopiesSound, Grown
  PROVE  \A r \in Copies : StillSound(r)
<1>1. \A r : EntriesSound(r) => StillSound(r)
  <2> SUFFICES ASSUME NEW r, EntriesSound(r), NEW z \in Zones, Known(r[z])
               PROVE  /\ r[z].mint \in DOMAIN assets'
                      /\ assets'[r[z].mint] = [zone |-> z, owner |-> r[z].pubkey, status |-> "minted"]
    BY DEF StillSound
  <2>1. /\ r[z].mint \in DOMAIN assets
        /\ assets[r[z].mint] = [zone |-> z, owner |-> r[z].pubkey, status |-> "minted"]
    BY DEF EntriesSound
  <2>2. assets[r[z].mint].status = "minted"
    BY <2>1
  <2>3. QED BY <2>1, <2>2 DEF Grown
<1>2. EntriesSound(Empty)
  BY EmptyTyped DEF EntriesSound, Empty
<1>3. QED BY <1>1, <1>2 DEF CopiesSound, Copies

(* What Confirm remembers is true: it has seen the asset minted.           *)
LEMMA RememberedSound ==
  ASSUME TypeOK, NEW m \in Machines, RunSound(m), Confirm(m), StillSound(run[m].registry)
  PROVE  StillSound(Remembered(m))
<1>1. /\ run[m].mint \in DOMAIN assets /\ assets[run[m].mint] \in Asset
      /\ assets[run[m].mint].zone = ZoneOf(m) /\ assets[run[m].mint].owner = run[m].owner
      /\ assets[run[m].mint].status = "minted" /\ assets' = assets
  <2>1. run[m].mint # 0 /\ run[m].mint \in Nat /\ run[m].mint <= Len(assets)
        /\ DOMAIN assets = 1 .. Len(assets) /\ Len(assets) \in Nat
    BY Bounds DEF RunSound, Confirm
  <2>2. run[m].mint \in DOMAIN assets
    BY <2>1
  <2>3. QED BY <2>2, Bounds DEF RunSound, Confirm
<1>2. assets[run[m].mint] = [zone |-> ZoneOf(m), owner |-> run[m].owner, status |-> "minted"]
  BY <1>1 DEF Asset
<1>3. /\ EntryOf(m).mint = run[m].mint /\ EntryOf(m).pubkey = run[m].owner
      /\ \A z \in Zones : Remembered(m)[z] = IF z = ZoneOf(m) THEN EntryOf(m)
                                             ELSE run[m].registry[z]
  <2>1. EntryOf(m).mint = run[m].mint /\ EntryOf(m).pubkey = run[m].owner
    BY DEF EntryOf
  <2>2. QED BY <2>1, RememberedEntries DEF Confirm
<1>4. QED BY <1>1, <1>2, <1>3 DEF StillSound

(* No step writes a copy that is not one of those, but for Confirm.        *)
LEMMA CopiesPreserved ==
  ASSUME TypeOK, CopiesSound, \A m \in Machines : RunSound(m), [Next]_vars
  PROVE  CopiesSound'
<1>g. Grown
  BY AssetsGrow
<1>c. \A r \in Copies : StillSound(r)
  BY <1>g, CopiesStillSound
<1>q. ASSUME StillSound(config'),
             \A m \in Machines : /\ StillSound(registry'[m]) /\ StillSound(loaded'[m])
                                 /\ StillSound(run'[m].registry)
      PROVE  CopiesSound'
  BY <1>q DEF StillSound, CopiesSound, EntriesSound
<1>o. /\ StillSound(config) /\ StillSound(Empty)
      /\ \A m \in Machines : /\ StillSound(registry[m]) /\ StillSound(loaded[m])
                             /\ StillSound(run[m].registry)
  BY <1>c DEF Copies
<1>1. ASSUME NEW m \in Machines, Begin(m) PROVE CopiesSound'
  <2>1. /\ \A n \in Machines : n # m => run'[n] = run[n]
        /\ run'[m].registry = registry[m] /\ UNCHANGED <<registry, loaded, config>>
    BY <1>1, BeginEffect DEF Begin
  <2>2. QED BY <2>1, <1>o, <1>q
<1>2. ASSUME NEW m \in Machines, Look(m) PROVE CopiesSound'
  <2>1. PICK owner \in Nat \ {0} :
          /\ run[m].at <= Len(ZONES) /\ UNCHANGED <<registry, loaded, config>>
          /\ IF Known(run[m].registry[ZoneOf(m)]) THEN Fetch(m, owner) ELSE Mint(m, owner)
    BY <1>2, LookEffect
  <2>2. /\ \A n \in Machines : n # m => run'[n] = run[n]
        /\ run'[m].registry = run[m].registry
    BY <2>1, FetchEffect, MintEffect
  <2>3. QED BY <2>1, <2>2, <1>o, <1>q
<1>3. ASSUME NEW m \in Machines, RemintForOwner(m) \/ RemintOnError(m) PROVE CopiesSound'
  <2>1. PICK owner \in Nat \ {0} : run[m].at <= Len(ZONES) /\ Mint(m, owner)
    BY <1>3, RemintIsMint
  <2>2. /\ \A n \in Machines : n # m => run'[n] = run[n]
        /\ run'[m].registry = run[m].registry
    BY <2>1, MintEffect
  <2>3. UNCHANGED <<registry, loaded, config>>
    BY <1>3 DEF RemintForOwner, RemintOnError
  <2>4. QED BY <2>2, <2>3, <1>o, <1>q
<1>4. ASSUME NEW m \in Machines, Skip(m) PROVE CopiesSound'
  <2>1. /\ \A n \in Machines : n # m => run'[n] = run[n]
        /\ run'[m].registry = run[m].registry
    BY <1>4, SkipEffect
  <2>2. QED BY <1>4, <2>1, <1>o, <1>q DEF Skip
<1>5. ASSUME NEW m \in Machines, Confirm(m) PROVE CopiesSound'
  <2>1. /\ \A n \in Machines : n # m => run'[n] = run[n] /\ registry'[n] = registry[n]
        /\ run'[m].registry = Remembered(m) /\ registry'[m] = Remembered(m)
    BY <1>5, ConfirmEffect
  <2>2. StillSound(Remembered(m))
    BY <1>5, <1>o, RememberedSound
  <2>3. QED BY <1>5, <2>1, <2>2, <1>o, <1>q DEF Confirm
<1>6. ASSUME NEW m \in Machines, Patch(m) \/ Fail(m) \/ Die(m) PROVE CopiesSound'
  <2>1. run' = [run EXCEPT ![m] = Idle] /\ UNCHANGED <<registry, loaded>>
        /\ config' \in {config, run[m].registry}
    BY <1>6 DEF Patch, Fail, Die
  <2>2. /\ \A n \in Machines : n # m => run'[n] = run[n]
        /\ run'[m].registry = Empty
    BY <2>1, EndEffect
  <2>3. QED BY <2>1, <2>2, <1>o, <1>q
<1>7. ASSUME NEW m \in Machines, LoseFiles(m) PROVE CopiesSound'
  <2>1. \A n \in Machines : registry'[n] \in {registry[n], Empty}
    BY <1>7 DEF LoseFiles, TypeOK
  <2>2. QED BY <1>7, <2>1, <1>o, <1>q DEF LoseFiles
<1>8. ASSUME NEW m \in Machines, Load(m) PROVE CopiesSound'
  <2>1. \A n \in Machines : loaded'[n] \in {loaded[n], config}
    BY <1>8 DEF Load, TypeOK
  <2>2. QED BY <1>8, <2>1, <1>o, <1>q DEF Load
<1>9. ASSUME NEW a \in DOMAIN assets, Land(a) PROVE CopiesSound'
  BY <1>9, <1>o, <1>q DEF Land
<1>10. CASE UNCHANGED vars
  BY <1>10, <1>o, <1>q DEF vars
<1>11. QED BY <1>1, <1>2, <1>3, <1>4, <1>5, <1>6, <1>7, <1>8, <1>9, <1>10 DEF Next

-----------------------------------------------------------------------------
(* Runs stay sound, and a config is whole.                                 *)

(* A run that does not move stays sound while the chain grows.             *)
LEMMA RunKept ==
  ASSUME TypeOK, NEW m \in Machines, RunSound(m), Grown, run'[m] = run[m]
  PROVE  RunSound(m)'
<1>1. run[m].pc = "minting" => run[m].mint \in DOMAIN assets
  <2>1. run[m].mint \in Nat /\ run[m].mint <= Len(assets)
        /\ DOMAIN assets = 1 .. Len(assets) /\ Len(assets) \in Nat
    BY Bounds
  <2>2. QED BY <2>1 DEF RunSound
<1>2. run[m].pc = "minting" => /\ assets'[run[m].mint].zone = assets[run[m].mint].zone
                               /\ assets'[run[m].mint].owner = assets[run[m].mint].owner
  BY <1>1 DEF Grown
<1>3. ZoneOf(m)' = ZoneOf(m)
  BY DEF ZoneOf
<1>4. QED BY <1>2, <1>3 DEF RunSound

(* A run that waits for its mint.                                          *)
LEMMA MintSound ==
  ASSUME TypeOK, NEW m \in Machines, RunSound(m), NEW owner \in Nat \ {0}, Mint(m, owner),
         run[m].pc # "idle", run[m].at <= Len(ZONES)
  PROVE  RunSound(m)'
<1>1. /\ assets'[Len(assets) + 1] = [zone |-> ZoneOf(m), owner |-> owner, status |-> "flight"]
      /\ run'[m].pc = "minting" /\ run'[m].at = run[m].at
      /\ run'[m].registry = run[m].registry
      /\ run'[m].owner = owner /\ run'[m].mint = Len(assets) + 1 /\ Len(assets) \in Nat
  BY MintEffect
<1>2. Len(assets) + 1 # 0
  BY <1>1
<1>3. ZoneOf(m)' = ZoneOf(m)
  BY <1>1 DEF ZoneOf
<1>4. QED BY <1>1, <1>2, <1>3 DEF RunSound

(* A run that goes on with the entry of its zone in hand.                  *)
LEMMA AdvanceSound ==
  ASSUME NEW m \in Machines, RunSound(m), run[m] \in Run, run[m].pc # "idle",
         run'[m].pc = "zone", run'[m].at = run[m].at + 1,
         Known(run'[m].registry[ZoneOf(m)]),
         \A i \in 1 .. run[m].at - 1 :
           Known(run[m].registry[ZONES[i]]) => Known(run'[m].registry[ZONES[i]])
  PROVE  RunSound(m)'
<1>1. run[m].at \in Nat
  BY ZonesAssumption DEF Run
<1>2. \A i \in 1 .. run'[m].at - 1 : i \in 1 .. run[m].at - 1 \/ i = run[m].at
  BY <1>1
<1>3. \A i \in 1 .. run[m].at - 1 : Known(run'[m].registry[ZONES[i]])
  BY DEF RunSound
<1>4. QED BY <1>2, <1>3 DEF RunSound, ZoneOf

(* Every step keeps every run sound, and patchConfig writes all agents.    *)
LEMMA WholePreserved ==
  ASSUME TypeOK, WholeConfig, [Next]_vars
  PROVE  WholeConfig'
<1>r. \A m \in Machines : RunSound(m)
  BY DEF WholeConfig
<1>g. Grown
  BY <1>r, AssetsGrow
<1>k. \A n \in Machines : run'[n] = run[n] => RunSound(n)'
  BY <1>r, <1>g, RunKept
<1>q. ASSUME UNCHANGED config, \A m \in Machines : RunSound(m)' PROVE WholeConfig'
  BY <1>q DEF WholeConfig, ConfigIsWhole
<1>b. \A m \in Machines : run[m] \in Run
  BY Bounds
<1>1. ASSUME NEW m \in Machines, Begin(m) PROVE WholeConfig'
  <2>1. /\ \A n \in Machines : n # m => run'[n] = run[n]
        /\ run'[m].pc = "zone" /\ run'[m].at = 1
    BY <1>1, BeginEffect
  <2>2. RunSound(m)'
    BY <2>1 DEF RunSound
  <2>3. QED BY <1>1, <2>1, <2>2, <1>k, <1>q DEF Begin
<1>2. ASSUME NEW m \in Machines, Look(m) PROVE WholeConfig'
  <2>1. PICK owner \in Nat \ {0} :
          /\ run[m].at <= Len(ZONES) /\ run[m].pc = "zone" /\ UNCHANGED config
          /\ IF Known(run[m].registry[ZoneOf(m)]) THEN Fetch(m, owner) ELSE Mint(m, owner)
    BY <1>2, LookEffect
  <2>2. \A n \in Machines : n # m => run'[n] = run[n]
    BY <2>1, FetchEffect, MintEffect
  <2>3. RunSound(m)'
    <3>1. CASE Known(run[m].registry[ZoneOf(m)])
      <4>1. /\ run'[m].pc = "fetching" /\ run'[m].at = run[m].at
            /\ run'[m].registry = run[m].registry /\ run'[m].owner = owner
        BY <2>1, <3>1, FetchEffect
      <4>2. owner # 0 /\ ZoneOf(m)' = ZoneOf(m)
        BY <4>1 DEF ZoneOf
      <4>3. RunSound(m)
        BY <1>r
      <4>4. QED BY <2>1, <3>1, <4>1, <4>2, <4>3 DEF RunSound
    <3>2. CASE ~ Known(run[m].registry[ZoneOf(m)])
      BY <2>1, <3>2, <1>r, MintSound
    <3>3. QED BY <3>1, <3>2
  <2>4. QED BY <2>1, <2>2, <2>3, <1>k, <1>q
<1>3. ASSUME NEW m \in Machines, RemintForOwner(m) \/ RemintOnError(m) PROVE WholeConfig'
  <2>1. PICK owner \in Nat \ {0} : run[m].at <= Len(ZONES) /\ Mint(m, owner)
    BY <1>3, <1>r, RemintIsMint
  <2>2. \A n \in Machines : n # m => run'[n] = run[n]
    BY <2>1, MintEffect
  <2>3. run[m].pc # "idle" /\ UNCHANGED config
    BY <1>3 DEF RemintForOwner, RemintOnError
  <2>4. RunSound(m)'
    BY <2>1, <2>3, <1>r, MintSound
  <2>5. QED BY <2>2, <2>3, <2>4, <1>k, <1>q
<1>4. ASSUME NEW m \in Machines, Skip(m) PROVE WholeConfig'
  <2>1. /\ \A n \in Machines : n # m => run'[n] = run[n]
        /\ run'[m].pc = "zone" /\ run'[m].at = run[m].at + 1
        /\ run'[m].registry = run[m].registry
    BY <1>4, <1>r, SkipEffect
  <2>2. run[m].pc = "fetching" /\ Known(run[m].registry[ZoneOf(m)]) /\ UNCHANGED config
    BY <1>4, <1>r DEF Skip, RunSound
  <2>3. RunSound(m)'
    BY <2>1, <2>2, <1>r, <1>b, AdvanceSound
  <2>4. QED BY <2>1, <2>2, <2>3, <1>k, <1>q
<1>5. ASSUME NEW m \in Machines, Confirm(m) PROVE WholeConfig'
  <2>1. /\ \A n \in Machines : n # m => run'[n] = run[n]
        /\ run'[m].pc = "zone" /\ run'[m].at = run[m].at + 1
        /\ run'[m].registry = Remembered(m)
    BY <1>5, <1>r, ConfirmEffect
  <2>2. run[m].pc = "minting" /\ run[m].at <= Len(ZONES) /\ UNCHANGED config
    BY <1>5, <1>r DEF Confirm, RunSound
  <2>3. /\ Known(EntryOf(m)) /\ ZoneOf(m) \in Zones
        /\ \A z \in Zones : Remembered(m)[z] = IF z = ZoneOf(m) THEN EntryOf(m)
                                               ELSE run[m].registry[z]
    BY <2>2, <1>r, RememberedEntries
  <2>4. \A i \in 1 .. run[m].at - 1 : ZONES[i] \in Zones
    <3>1. run[m].at \in 1 .. Len(ZONES)
      BY <2>2, <1>b, ZonesAssumption DEF Run
    <3>2. \A i \in 1 .. run[m].at - 1 : i \in DOMAIN ZONES
      BY <3>1, ZonesAssumption
    <3>3. QED BY <3>2 DEF Zones
  <2>5. RunSound(m)'
    BY <2>1, <2>2, <2>3, <2>4, <1>r, <1>b, AdvanceSound
  <2>6. QED BY <2>1, <2>2, <2>5, <1>k, <1>q
<1>6. ASSUME NEW m \in Machines, Patch(m) \/ Fail(m) \/ Die(m) PROVE WholeConfig'
  <2>1. run' = [run EXCEPT ![m] = Idle]
    BY <1>6 DEF Patch, Fail, Die
  <2>2. /\ \A n \in Machines : n # m => run'[n] = run[n]
        /\ run'[m].pc = "idle"
    BY <2>1, EndEffect
  <2>3. RunSound(m)'
    BY <2>2 DEF RunSound
  <2>4. CASE Fail(m) \/ Die(m)
    BY <2>4, <2>2, <2>3, <1>k, <1>q DEF Fail, Die
  <2>5. CASE Patch(m)
    <3>1. \A z \in Zones : Known(run[m].registry[z])
      <4>1. run[m].pc = "zone" /\ run[m].at > Len(ZONES) /\ config' = run[m].registry
        BY <2>5 DEF Patch, Done
      <4>2. run[m].at \in 1 .. Len(ZONES) + 1
        BY <1>b DEF Run
      <4>3. \A i \in DOMAIN ZONES : i \in 1 .. run[m].at - 1
        BY <4>1, <4>2, ZonesAssumption
      <4>4. \A i \in DOMAIN ZONES : Known(run[m].registry[ZONES[i]])
        BY <4>1, <4>3, <1>r DEF RunSound
      <4>5. QED BY <4>4 DEF Zones
    <3>2. ConfigIsWhole'
      BY <2>5, <3>1 DEF Patch, ConfigIsWhole
    <3>3. QED BY <2>2, <2>3, <3>2, <1>k DEF WholeConfig
  <2>6. QED BY <1>6, <2>4, <2>5
<1>7. ASSUME NEW m \in Machines, LoseFiles(m) \/ Load(m) PROVE WholeConfig'
  BY <1>7, <1>k, <1>q DEF LoseFiles, Load
<1>8. ASSUME NEW a \in DOMAIN assets, Land(a) PROVE WholeConfig'
  BY <1>8, <1>k, <1>q DEF Land
<1>9. CASE UNCHANGED vars
  BY <1>9, <1>k, <1>q DEF vars
<1>10. QED BY <1>1, <1>2, <1>3, <1>4, <1>5, <1>6, <1>7, <1>8, <1>9 DEF Next

-----------------------------------------------------------------------------
(* The theorems about the entries.                                         *)

(* At first there is nothing.                                              *)
LEMMA InitIInv == Init => IInv
<1> SUFFICES ASSUME Init PROVE IInv
  OBVIOUS
<1>1. TypeOK
  <2>1. assets \in Seq(Asset) /\ Len(assets) = 0 /\ DOMAIN assets = {}
    BY DEF Init
  <2>2. run \in [Machines -> Run] /\ \A m \in Machines : run[m].owner <= keysMade /\ run[m].mint <= Len(assets)
    BY <2>1, EmptyTyped DEF Init, Idle
  <2>3. faultsLeft \in 0 .. MaxFaults /\ keysMade \in Nat
    BY FaultsAssumption DEF Init
  <2>4. keys \in [Machines -> [Zones -> 0 .. keysMade]] /\ disturbed \in [Zones -> Nat]
    BY DEF Init
  <2>5. QED BY <2>1, <2>2, <2>3, <2>4, EmptyTyped DEF Init, TypeOK
<1>2. CopiesSound
  <2>1. EntriesSound(Empty)
    BY EmptyTyped DEF EntriesSound, Empty
  <2>2. \A m \in Machines : run[m].registry = Empty /\ registry[m] = Empty /\ loaded[m] = Empty
    BY DEF Init, Idle
  <2>3. QED BY <2>1, <2>2 DEF Init, CopiesSound
<1>3. WholeConfig
  <2>1. \A m \in Machines : run[m].pc = "idle"
    BY DEF Init, Idle
  <2>2. QED BY <2>1 DEF Init, WholeConfig, RunSound, ConfigIsWhole
<1>4. QED BY <1>1, <1>2, <1>3 DEF IInv

(* What the proofs carry through every step.                               *)
THEOREM Invariance == Spec => []IInv
<1>1. IInv /\ [Next]_vars => IInv'
  BY TypePreserved, CopiesPreserved, WholePreserved DEF IInv, WholeConfig
<1>2. QED BY InitIInv, <1>1, PTL DEF Spec

(* The state of the script and of its surroundings is well typed.          *)
THEOREM TypeCorrect == Spec => []TypeOK
<1>1. IInv => TypeOK
  BY DEF IInv
<1>2. QED BY <1>1, Invariance, PTL

(* A client that resolves a mint resolves one of the caller's, whatever    *)
(* happened to the registry since it was loaded.                           *)
THEOREM ResolvedCorrect == Spec => []ResolvedMintIsCallers
<1>1. IInv => ResolvedMintIsCallers
  <2> SUFFICES ASSUME IInv, NEW m \in Machines, NEW z \in Zones, NEW k \in 1 .. keysMade,
                      RegisterAgent(m, z, k) # 0
               PROVE  /\ assets[RegisterAgent(m, z, k)].status = "minted"
                      /\ assets[RegisterAgent(m, z, k)].zone = z
                      /\ assets[RegisterAgent(m, z, k)].owner = k
    BY DEF ResolvedMintIsCallers
  <2>1. Known(loaded[m][z]) /\ loaded[m][z].pubkey = k /\ RegisterAgent(m, z, k) = loaded[m][z].mint
    BY DEF RegisterAgent
  <2>2. assets[loaded[m][z].mint] = [zone |-> z, owner |-> k, status |-> "minted"]
    BY <2>1 DEF IInv, CopiesSound, EntriesSound
  <2>3. QED BY <2>1, <2>2
<1>2. QED BY <1>1, Invariance, PTL

(* The config never has some of the agents only.                           *)
THEOREM ConfigCorrect == Spec => []ConfigIsWhole
<1>1. IInv => ConfigIsWhole
  BY DEF IInv, WholeConfig
<1>2. QED BY <1>1, Invariance, PTL

-----------------------------------------------------------------------------
(* No two machines know of the same asset.                                 *)

(* What an entry of a machine says.                                        *)
LEMMA EntryFacts ==
  ASSUME TypeOK, CopiesSound, NEW m \in Machines, NEW z \in Zones,
         NEW e \in {registry[m][z], run[m].registry[z]}
  PROVE  /\ e \in Entry \cup {NoEntry}
         /\ ~ Known(e) => e.mint = 0 /\ e.pubkey = 0
         /\ Known(e) => /\ e.mint # 0 /\ e.pubkey # 0 /\ e.mint \in DOMAIN assets
                        /\ assets[e.mint].zone = z /\ assets[e.mint].owner = e.pubkey
                        /\ assets[e.mint].status = "minted"
<1>1. registry[m] \in Registry /\ run[m].registry \in Registry
  <2>1. run[m] \in Run
    BY Bounds
  <2>2. QED BY <2>1 DEF TypeOK, Run
<1>2. e \in Entry \cup {NoEntry}
  BY <1>1 DEF Registry
<1>3. ~ Known(e) => e.mint = 0 /\ e.pubkey = 0
  BY <1>2 DEF Known, NoEntry
<1>4. Known(e) => e.mint # 0 /\ e.pubkey # 0
  BY <1>2 DEF Known, Entry
<1>5. Known(e) => /\ e.mint \in DOMAIN assets
                  /\ assets[e.mint] = [zone |-> z, owner |-> e.pubkey, status |-> "minted"]
  BY DEF CopiesSound, EntriesSound
<1>6. QED BY <1>2, <1>3, <1>4, <1>5

(* Machines know of assets that are on the chain.                          *)
LEMMA KnownAreAssets ==
  ASSUME TypeOK, CopiesSound, NEW m \in Machines
  PROVE  Mints(m) \subseteq 0 .. Len(assets) /\ Knows(m) \subseteq 1 .. Len(assets)
<1>1. DOMAIN assets = 1 .. Len(assets) /\ Len(assets) \in Nat
      /\ run[m].mint \in Nat /\ run[m].mint <= Len(assets)
  BY Bounds
<1>2. ASSUME NEW z \in Zones, NEW e \in {registry[m][z], run[m].registry[z]}
      PROVE  e.mint \in 0 .. Len(assets)
  <2>1. e.mint = 0 \/ e.mint \in DOMAIN assets
    BY EntryFacts
  <2>2. QED BY <2>1, <1>1
<1>3. Mints(m) \subseteq 0 .. Len(assets)
  BY <1>2 DEF Mints
<1>4. QED BY <1>1, <1>3 DEF Knows

(* A step of one machine, by which it forgets or mints, keeps them apart.  *)
LEMMA ApartStep ==
  ASSUME TypeOK, CopiesSound, KnowledgeApart, NEW m \in Machines,
         \A n \in Machines : n # m => run'[n] = run[n] /\ registry'[n] = registry[n],
         Knows(m)' \subseteq Knows(m) \cup {Len(assets) + 1},
         FileIsRuns(m)', run'[m].pc = "minting" => run'[m].mint \notin Mints(m)'
  PROVE  KnowledgeApart'
<1>1. ASSUME NEW n \in Machines, n # m
      PROVE  /\ Knows(n)' = Knows(n) /\ FileIsRuns(n)'
             /\ run'[n].pc = "minting" => run'[n].mint \notin Mints(n)'
  <2>1. run'[n] = run[n] /\ registry'[n] = registry[n]
    BY <1>1
  <2>2. Mints(n)' = Mints(n) /\ Knows(n)' = Knows(n)
    BY <2>1 DEF Mints, Knows
  <2>3. FileIsRuns(n) /\ (run[n].pc = "minting" => run[n].mint \notin Mints(n))
    BY DEF KnowledgeApart
  <2>4. QED BY <2>1, <2>2, <2>3 DEF FileIsRuns
<1>2. ASSUME NEW n \in Machines, n # m PROVE Knows(m)' \cap Knows(n)' = {}
  <2>1. Knows(n)' = Knows(n) /\ Knows(n) \subseteq 1 .. Len(assets) /\ Knows(m) \cap Knows(n) = {}
    BY <1>1, <1>2, KnownAreAssets DEF KnowledgeApart
  <2>2. Len(assets) \in Nat
    BY Bounds
  <2>3. Len(assets) + 1 \notin 1 .. Len(assets)
    BY <2>2
  <2>4. QED BY <2>1, <2>3
<1>3. \A n, k \in Machines : n # k => Knows(n)' \cap Knows(k)' = {}
  <2> SUFFICES ASSUME NEW n \in Machines, NEW k \in Machines, n # k PROVE Knows(n)' \cap Knows(k)' = {}
    OBVIOUS
  <2>1. CASE n = m
    BY <2>1, <1>2
  <2>2. CASE k = m
    BY <2>2, <1>2
  <2>3. CASE n # m /\ k # m
    <3>1. Knows(n)' = Knows(n) /\ Knows(k)' = Knows(k)
      BY <2>3, <1>1
    <3>2. QED BY <3>1 DEF KnowledgeApart
  <2>4. QED BY <2>1, <2>2, <2>3
<1>4. QED BY <1>1, <1>3 DEF KnowledgeApart

(* A mint is of an asset that nobody knows yet.                            *)
LEMMA MintApart ==
  ASSUME TypeOK, CopiesSound, KnowledgeApart, NEW m \in Machines, NEW owner \in Nat \ {0},
         Mint(m, owner), run[m].at <= Len(ZONES), run[m].pc # "idle", UNCHANGED registry
  PROVE  KnowledgeApart'
<1>1. /\ \A n \in Machines : n # m => run'[n] = run[n]
      /\ run'[m].pc = "minting" /\ run'[m].registry = run[m].registry
      /\ run'[m].mint = Len(assets) + 1 /\ Len(assets) \in Nat
  BY MintEffect
<1>2. Mints(m)' = Mints(m)
  BY <1>1 DEF Mints
<1>3. Knows(m)' \subseteq Knows(m) \cup {Len(assets) + 1}
  BY <1>1, <1>2 DEF Knows
<1>4. Len(assets) + 1 \notin Mints(m)
  BY <1>1, KnownAreAssets
<1>5. FileIsRuns(m)'
  BY <1>1 DEF FileIsRuns, KnowledgeApart
<1>6. QED BY <1>1, <1>2, <1>3, <1>4, <1>5, ApartStep

(* Every step keeps what machines know apart.                              *)
LEMMA ApartPreserved ==
  ASSUME IInv, KnowledgeApart, [Next]_vars
  PROVE  KnowledgeApart'
<1>i. TypeOK /\ CopiesSound /\ \A m \in Machines : RunSound(m)
  BY DEF IInv, WholeConfig
<1>k. \A m \in Machines : FileIsRuns(m) /\ (run[m].pc = "minting" => run[m].mint \notin Mints(m))
  BY DEF KnowledgeApart
<1>1. ASSUME NEW m \in Machines, Begin(m) PROVE KnowledgeApart'
  <2>1. /\ \A n \in Machines : n # m => run'[n] = run[n]
        /\ run'[m].pc = "zone" /\ run'[m].registry = registry[m] /\ registry' = registry
    BY <1>1, <1>i, BeginEffect DEF Begin
  <2>2. Mints(m)' \subseteq Mints(m)
    BY <2>1 DEF Mints
  <2>3. Knows(m)' \subseteq Knows(m)
    BY <2>1, <2>2 DEF Knows
  <2>4. FileIsRuns(m)'
    BY <2>1 DEF FileIsRuns
  <2>5. QED BY <2>1, <2>3, <2>4, <1>i, ApartStep
<1>2. ASSUME NEW m \in Machines, Look(m) PROVE KnowledgeApart'
  <2>1. PICK owner \in Nat \ {0} :
          /\ run[m].at <= Len(ZONES) /\ run[m].pc = "zone" /\ UNCHANGED registry
          /\ IF Known(run[m].registry[ZoneOf(m)]) THEN Fetch(m, owner) ELSE Mint(m, owner)
    BY <1>2, <1>i, LookEffect
  <2>2. CASE Fetch(m, owner)
    <3>1. /\ \A n \in Machines : n # m => run'[n] = run[n]
          /\ run'[m].pc = "fetching" /\ run'[m].registry = run[m].registry
      BY <2>2, <1>i, FetchEffect
    <3>2. Mints(m)' = Mints(m)
      BY <2>1, <3>1 DEF Mints
    <3>3. Knows(m)' \subseteq Knows(m)
      BY <3>1, <3>2 DEF Knows
    <3>4. FileIsRuns(m)'
      BY <2>1, <3>1, <1>k DEF FileIsRuns
    <3>5. QED BY <2>1, <3>1, <3>3, <3>4, <1>i, ApartStep
  <2>3. CASE Mint(m, owner)
    BY <2>1, <2>3, <1>i, MintApart
  <2>4. QED BY <2>1, <2>2, <2>3
<1>3. ASSUME NEW m \in Machines, RemintForOwner(m) \/ RemintOnError(m) PROVE KnowledgeApart'
  <2>1. PICK owner \in Nat \ {0} : run[m].at <= Len(ZONES) /\ Mint(m, owner)
    BY <1>3, <1>i, RemintIsMint
  <2>2. run[m].pc # "idle" /\ UNCHANGED registry
    BY <1>3 DEF RemintForOwner, RemintOnError
  <2>3. QED BY <2>1, <2>2, <1>i, MintApart
<1>4. ASSUME NEW m \in Machines, Skip(m) PROVE KnowledgeApart'
  <2>1. /\ \A n \in Machines : n # m => run'[n] = run[n]
        /\ run'[m].pc = "zone" /\ run'[m].registry = run[m].registry
    BY <1>4, <1>i, SkipEffect
  <2>2. run[m].pc = "fetching" /\ UNCHANGED registry
    BY <1>4 DEF Skip
  <2>3. Mints(m)' = Mints(m)
    BY <2>1, <2>2 DEF Mints
  <2>4. Knows(m)' \subseteq Knows(m)
    BY <2>1, <2>3 DEF Knows
  <2>5. FileIsRuns(m)'
    BY <2>1, <2>2, <1>k DEF FileIsRuns
  <2>6. QED BY <2>1, <2>2, <2>4, <2>5, <1>i, ApartStep
<1>5. ASSUME NEW m \in Machines, Confirm(m) PROVE KnowledgeApart'
  <2>1. /\ \A n \in Machines : n # m => run'[n] = run[n] /\ registry'[n] = registry[n]
        /\ run'[m].pc = "zone" /\ run'[m].registry = Remembered(m) /\ registry'[m] = Remembered(m)
    BY <1>5, <1>i, ConfirmEffect
  <2>2. run[m].pc = "minting"
    BY <1>5 DEF Confirm
  <2>3. \A z \in Zones : Remembered(m)[z].mint \in {run[m].mint, run[m].registry[z].mint}
    <3>1. \A z \in Zones : Remembered(m)[z] \in {EntryOf(m), run[m].registry[z]}
      BY <2>2, <1>i, RememberedEntries
    <3>2. EntryOf(m).mint = run[m].mint
      BY DEF EntryOf
    <3>3. QED BY <3>1, <3>2
  <2>4. Mints(m)' \subseteq Mints(m) \cup {run[m].mint}
    BY <2>1, <2>3 DEF Mints
  <2>5. Knows(m)' \subseteq Knows(m)
    BY <2>1, <2>2, <2>4 DEF Knows
  <2>6. FileIsRuns(m)'
    BY <2>1 DEF FileIsRuns
  <2>7. QED BY <2>1, <2>5, <2>6, <1>i, ApartStep
<1>6. ASSUME NEW m \in Machines, Patch(m) \/ Fail(m) \/ Die(m) PROVE KnowledgeApart'
  <2>1. run' = [run EXCEPT ![m] = Idle] /\ UNCHANGED registry
    BY <1>6 DEF Patch, Fail, Die
  <2>2. /\ \A n \in Machines : n # m => run'[n] = run[n]
        /\ run'[m].pc = "idle" /\ run'[m].registry = Empty
    BY <2>1, <1>i, EndEffect
  <2>3. \A z \in Zones : Empty[z].mint = 0
    BY DEF Empty, NoEntry
  <2>4. Mints(m)' \subseteq Mints(m) \cup {0}
    BY <2>1, <2>2, <2>3 DEF Mints
  <2>5. Knows(m)' \subseteq Knows(m)
    BY <2>2, <2>4 DEF Knows
  <2>6. FileIsRuns(m)'
    BY <2>2 DEF FileIsRuns
  <2>7. QED BY <2>1, <2>2, <2>5, <2>6, <1>i, ApartStep
<1>7. ASSUME NEW m \in Machines, LoseFiles(m) PROVE KnowledgeApart'
  <2>1. /\ \A n \in Machines : n # m => registry'[n] = registry[n]
        /\ registry'[m] \in {registry[m], Empty} /\ run' = run
    BY <1>7, <1>i DEF LoseFiles, TypeOK
  <2>2. \A z \in Zones : Empty[z].mint = 0
    BY DEF Empty, NoEntry
  <2>3. Mints(m)' \subseteq Mints(m) \cup {0}
    BY <2>1, <2>2 DEF Mints
  <2>4. Knows(m)' \subseteq Knows(m)
    BY <2>1, <2>3 DEF Knows
  <2>5. FileIsRuns(m)'
    BY <2>1, <1>k DEF FileIsRuns
  <2>6. run'[m].pc = "minting" => run'[m].mint \notin Mints(m)'
    <3>1. run[m].pc = "minting" => run[m].mint # 0 /\ run[m].mint \notin Mints(m)
      BY <1>i, <1>k DEF RunSound
    <3>2. QED BY <3>1, <2>1, <2>3
  <2>7. QED BY <2>1, <2>4, <2>5, <2>6, <1>i, ApartStep
<1>8. ASSUME UNCHANGED <<run, registry>> PROVE KnowledgeApart'
  <2>1. \A m \in Machines : Mints(m)' = Mints(m) /\ Knows(m)' = Knows(m)
    BY <1>8 DEF Mints, Knows
  <2>2. \A m \in Machines : FileIsRuns(m)'
    BY <1>8, <1>k DEF FileIsRuns
  <2>3. QED BY <1>8, <2>1, <2>2 DEF KnowledgeApart
<1>9. ASSUME NEW m \in Machines, Load(m) PROVE UNCHANGED <<run, registry>>
  BY <1>9 DEF Load
<1>10. ASSUME NEW a \in DOMAIN assets, Land(a) PROVE UNCHANGED <<run, registry>>
  BY <1>10 DEF Land
<1>11. CASE UNCHANGED vars
  BY <1>11, <1>8 DEF vars
<1>12. QED BY <1>1, <1>2, <1>3, <1>4, <1>5, <1>6, <1>7, <1>8, <1>9, <1>10, <1>11 DEF Next

-----------------------------------------------------------------------------
(* The ledger stays balanced.                                              *)

(* A finite set and one of its elements, or not.                           *)
LEMMA CardinalityAt ==
  ASSUME NEW S, IsFiniteSet(S), NEW x
  PROVE  /\ IsFiniteSet(S \ {x}) /\ Cardinality(S) \in Nat /\ Cardinality(S \ {x}) \in Nat
         /\ Cardinality(S) = Cardinality(S \ {x}) + Unit(x \in S)
<1>1. IsFiniteSet(S \ {x}) /\ Cardinality(S) \in Nat /\ Cardinality(S \ {x}) \in Nat
  BY FS_RemoveElement, FS_CardinalityType
<1>2. CASE x \in S
  BY <1>1, <1>2, FS_RemoveElement DEF Unit
<1>3. CASE x \notin S
  <2>1. S \ {x} = S
    BY <1>3
  <2>2. Unit(x \in S) = 0
    BY <1>3 DEF Unit
  <2>3. Cardinality(S) = Cardinality(S) + 0
    BY <1>1
  <2>4. Cardinality(S) = Cardinality(S \ {x}) + Unit(x \in S)
    BY <2>1, <2>2, <2>3
  <2>5. QED BY <1>1, <2>4
<1>4. QED BY <1>1, <1>2, <1>3

(* Two finite sets that differ in one element at most.                     *)
LEMMA CardinalityDiffers ==
  ASSUME NEW S, NEW T, IsFiniteSet(S), IsFiniteSet(T), NEW x, S \ {x} = T \ {x}
  PROVE  Cardinality(S) + Unit(x \in T) = Cardinality(T) + Unit(x \in S)
<1> DEFINE s == Unit(x \in S)  t == Unit(x \in T)
<1>1. /\ Cardinality(S) = Cardinality(S \ {x}) + s
      /\ Cardinality(S \ {x}) \in Nat
  BY CardinalityAt
<1>2. Cardinality(T) = Cardinality(S \ {x}) + t
  BY CardinalityAt
<1>3. s \in Nat /\ t \in Nat
  BY DEF Unit
<1> HIDE DEF s, t
<1>4. Cardinality(S) + t = Cardinality(T) + s
  BY <1>1, <1>2, <1>3
<1>5. QED BY <1>4 DEF s, t

(* A set that gains g at most and loses l.                                 *)
LEMMA CardinalityGrows ==
  ASSUME NEW S, NEW T, IsFiniteSet(S), NEW g, NEW l, T \subseteq (S \cup {g}) \ {l}
  PROVE  /\ IsFiniteSet(T)
         /\ Cardinality(T) + Unit(l \in S) <= Cardinality(S) + Unit(g \in T)
<1>1. /\ IsFiniteSet(S \ {l})
      /\ Cardinality(S) = Cardinality(S \ {l}) + Unit(l \in S)
      /\ Cardinality(S \ {l}) \in Nat
  BY CardinalityAt
<1>2. IsFiniteSet(T)
  <2>1. IsFiniteSet(S \cup {g})
    BY FS_AddElement
  <2>2. QED BY <2>1, FS_Subset
<1>3. /\ Cardinality(T) = Cardinality(T \ {g}) + Unit(g \in T)
      /\ Cardinality(T \ {g}) \in Nat
  BY <1>2, CardinalityAt
<1>4. Cardinality(T \ {g}) <= Cardinality(S \ {l})
  <2>1. T \ {g} \subseteq S \ {l}
    OBVIOUS
  <2>2. QED BY <1>1, <2>1, FS_Subset
<1>5. Unit(l \in S) \in Nat /\ Unit(g \in T) \in Nat
  BY DEF Unit
<1>6. QED BY <1>1, <1>2, <1>3, <1>4, <1>5

(* The sets that the ledger counts are finite.                             *)
LEMMA LedgerFinite ==
  ASSUME TypeOK, NEW z \in Zones
  PROVE  IsFiniteSet(Strays(z)) /\ IsFiniteSet(Forgetful(z)) /\ IsFiniteSet(Strangers(z))
<1>1. IsFiniteSet(DOMAIN assets)
  <2>1. DOMAIN assets = 1 .. Len(assets) /\ Len(assets) \in Nat
    BY Bounds
  <2>2. QED BY <2>1, FS_Interval
<1>2. Strays(z) \subseteq DOMAIN assets /\ Forgetful(z) \subseteq Machines
      /\ Strangers(z) \subseteq Machines
  BY DEF Strays, Forgetful, Strangers
<1>3. QED BY <1>1, <1>2, MachinesAssumption, FS_Subset

(* What a machine has for a zone changes by its own steps only.            *)
LEMMA OthersKeep ==
  ASSUME NEW n \in Machines, NEW z \in Zones, run'[n] = run[n], registry'[n] = registry[n],
         keys'[n][z] = keys[n][z]
  PROVE  Held(n, z)' = Held(n, z) /\ KeyOf(n, z)' = KeyOf(n, z)
BY DEF Held, KeyOf, At, ZoneOf, EntryOf

(* The balance of a step by which only one machine changes what it has:    *)
(* the asset that it held may stray, the one that it holds now does not.   *)
LEMMA LedgerStep ==
  ASSUME TypeOK, TypeOK', NEW m \in Machines, NEW z \in Zones, Ledger(z) <= disturbed[z],
         \A n \in Machines : n # m => /\ Held(n, z)' = Held(n, z) /\ KeyOf(n, z)' = KeyOf(n, z)
                                      /\ keys'[n][z] = keys[n][z],
         \A a \in DOMAIN assets' :
           assets'[a].zone = z /\ assets'[a].status # "lost"
             => \/ a \in DOMAIN assets /\ assets[a].zone = z /\ assets[a].status # "lost"
                \/ a = Held(m, z)'.mint,
         NEW paid \in Nat, disturbed'[z] = disturbed[z] + paid,
         Owed(m, z)' + Unit(Held(m, z).mint \in Strays(z)')
           <= Owed(m, z) + Unit(Held(m, z)'.mint \in Strays(z)) + paid
  PROVE  Ledger(z)' <= disturbed'[z]
<1> DEFINE S == Strays(z)  F == Forgetful(z)  T == Strangers(z)
           S1 == Strays(z)'  F1 == Forgetful(z)'  T1 == Strangers(z)'
           g == Held(m, z).mint  l == Held(m, z)'.mint
<1>1. IsFiniteSet(S) /\ IsFiniteSet(F) /\ IsFiniteSet(T)
  BY LedgerFinite
<1>2. S1 \subseteq (S \cup {g}) \ {l}
  <2> SUFFICES ASSUME NEW a \in S1 PROVE a # l /\ (a # g => a \in S)
    OBVIOUS
  <2>1. /\ a \in DOMAIN assets' /\ assets'[a].zone = z /\ assets'[a].status # "lost"
        /\ \A n \in Machines : Held(n, z)'.mint # a
    BY DEF Strays
  <2>2. a # l
    BY <2>1
  <2>3. a \in DOMAIN assets /\ assets[a].zone = z /\ assets[a].status # "lost"
    BY <2>1, <2>2
  <2>4. ASSUME a # g PROVE \A n \in Machines : Held(n, z).mint # a
    BY <2>1, <2>4
  <2>5. QED BY <2>2, <2>3, <2>4 DEF Strays
<1>3. IsFiniteSet(S1) /\ Cardinality(S1) + Unit(l \in S) <= Cardinality(S) + Unit(g \in S1)
  <2> HIDE DEF S, S1, g, l
  <2>1. QED BY <1>1, <1>2, CardinalityGrows
<1>4. F1 \ {m} = F \ {m} /\ T1 \ {m} = T \ {m}
  BY DEF Forgetful, Strangers
<1>5. IsFiniteSet(F1) /\ IsFiniteSet(T1)
  <2>1. F1 \subseteq Machines /\ T1 \subseteq Machines
    BY DEF Forgetful, Strangers
  <2>2. QED BY <2>1, MachinesAssumption, FS_Subset
<1>6. /\ Cardinality(F1) + Unit(m \in F) = Cardinality(F) + Unit(m \in F1)
      /\ Cardinality(T1) + Unit(m \in T) = Cardinality(T) + Unit(m \in T1)
  <2> HIDE DEF F, F1, T, T1
  <2>1. QED BY <1>1, <1>4, <1>5, CardinalityDiffers
<1>7. /\ Owed(m, z) = Unit(m \in F) + Unit(m \in T)
      /\ Owed(m, z)' = Unit(m \in F1) + Unit(m \in T1)
  BY DEF Owed, Forgetful, Strangers
<1>8. /\ Ledger(z) = Cardinality(S) + Cardinality(F) + Cardinality(T)
      /\ Ledger(z)' = Cardinality(S1) + Cardinality(F1) + Cardinality(T1)
  BY DEF Ledger
<1>9. /\ Cardinality(S) \in Nat /\ Cardinality(F) \in Nat /\ Cardinality(T) \in Nat
      /\ Cardinality(S1) \in Nat /\ Cardinality(F1) \in Nat /\ Cardinality(T1) \in Nat
  <2> HIDE DEF S, F, T, S1, F1, T1
  <2>1. QED BY <1>1, <1>3, <1>5, FS_CardinalityType
<1>10. /\ Unit(m \in F) \in Nat /\ Unit(m \in T) \in Nat /\ Unit(m \in F1) \in Nat
       /\ Unit(m \in T1) \in Nat /\ Unit(l \in S) \in Nat /\ Unit(g \in S1) \in Nat
  BY DEF Unit
<1>11. disturbed[z] \in Nat /\ disturbed'[z] = disturbed[z] + paid
  BY DEF TypeOK
<1>12. Unit(m \in F1) + Unit(m \in T1) + Unit(g \in S1)
         <= Unit(m \in F) + Unit(m \in T) + Unit(l \in S) + paid
  BY <1>7
<1>13. Cardinality(S) + Cardinality(F) + Cardinality(T) <= disturbed[z]
  BY <1>8
<1> HIDE DEF S, F, T, S1, F1, T1, g, l
<1>14. Cardinality(S1) + Cardinality(F1) + Cardinality(T1) <= disturbed[z] + paid
  BY <1>3, <1>6, <1>9, <1>10, <1>11, <1>12, <1>13
<1>15. QED BY <1>8, <1>11, <1>14

(* The same, for a step by which the machine keeps what it holds.          *)
LEMMA LedgerKept ==
  ASSUME TypeOK, TypeOK', NEW m \in Machines, NEW z \in Zones, Ledger(z) <= disturbed[z],
         \A n \in Machines : n # m => /\ Held(n, z)' = Held(n, z) /\ KeyOf(n, z)' = KeyOf(n, z)
                                      /\ keys'[n][z] = keys[n][z],
         \A a \in DOMAIN assets' :
           assets'[a].zone = z /\ assets'[a].status # "lost"
             => a \in DOMAIN assets /\ assets[a].zone = z /\ assets[a].status # "lost",
         NEW paid \in Nat, disturbed'[z] = disturbed[z] + paid,
         Held(m, z)' = Held(m, z), Owed(m, z)' <= Owed(m, z) + paid
  PROVE  Ledger(z)' <= disturbed'[z]
<1>1. Held(m, z).mint \notin Strays(z)'
  BY DEF Strays
<1>2. Unit(Held(m, z).mint \in Strays(z)') = 0
  BY <1>1 DEF Unit
<1>3. Unit(Held(m, z)'.mint \in Strays(z)) \in Nat
  BY DEF Unit
<1>4. Owed(m, z) \in Nat /\ Owed(m, z)' \in Nat
  BY DEF Owed, Unit
<1>5. Owed(m, z)' + Unit(Held(m, z).mint \in Strays(z)')
        <= Owed(m, z) + Unit(Held(m, z)'.mint \in Strays(z)) + paid
  BY <1>2, <1>3, <1>4
<1>6. QED BY <1>5, LedgerStep

(* Nothing changes for a zone.                                             *)
LEMMA LedgerSame ==
  ASSUME TypeOK, TypeOK', NEW z \in Zones, Ledger(z) <= disturbed[z],
         \A n \in Machines : /\ Held(n, z)' = Held(n, z) /\ KeyOf(n, z)' = KeyOf(n, z)
                             /\ keys'[n][z] = keys[n][z],
         \A a \in DOMAIN assets' :
           assets'[a].zone = z /\ assets'[a].status # "lost"
             => a \in DOMAIN assets /\ assets[a].zone = z /\ assets[a].status # "lost",
         disturbed'[z] = disturbed[z]
  PROVE  Ledger(z)' <= disturbed'[z]
<1>1. Forgetful(z)' = Forgetful(z) /\ Strangers(z)' = Strangers(z)
  BY DEF Forgetful, Strangers
<1>2. Strays(z)' \subseteq Strays(z)
  BY DEF Strays
<1>3. IsFiniteSet(Strays(z)) /\ IsFiniteSet(Forgetful(z)) /\ IsFiniteSet(Strangers(z))
  BY LedgerFinite
<1>4. /\ Cardinality(Strays(z)') <= Cardinality(Strays(z))
      /\ Cardinality(Strays(z)) \in Nat /\ Cardinality(Strays(z)') \in Nat
  BY <1>2, <1>3, FS_Subset, FS_CardinalityType
<1>5. Cardinality(Forgetful(z)) \in Nat /\ Cardinality(Strangers(z)) \in Nat
  BY <1>3, FS_CardinalityType
<1>6. /\ Ledger(z)' = Cardinality(Strays(z)') + Cardinality(Forgetful(z)) + Cardinality(Strangers(z))
      /\ Ledger(z) = Cardinality(Strays(z)) + Cardinality(Forgetful(z)) + Cardinality(Strangers(z))
  BY <1>1 DEF Ledger
<1>7. Ledger(z)' <= Ledger(z)
  BY <1>4, <1>5, <1>6
<1>8. Ledger(z) \in Nat /\ Ledger(z)' \in Nat /\ disturbed[z] \in Nat
  BY <1>4, <1>5, <1>6 DEF TypeOK
<1>9. QED BY <1>7, <1>8

(* What a machine has on file is what its run has in memory, and no other  *)
(* machine holds it.                                                       *)
LEMMA FileFacts ==
  ASSUME TypeOK, CopiesSound, KnowledgeApart, NEW m \in Machines, NEW z \in Zones
  PROVE  /\ Known(registry[m][z]) /\ run[m].pc # "idle" => registry[m][z] = run[m].registry[z]
         /\ \A n \in Machines : n # m => /\ Known(registry[m][z]) => Held(n, z).mint # registry[m][z].mint
                                         /\ Known(run[m].registry[z])
                                              => Held(n, z).mint # run[m].registry[z].mint
<1>1. Known(registry[m][z]) /\ run[m].pc # "idle" => registry[m][z] = run[m].registry[z]
  <2>1. ~ Known(Empty[z])
    BY EmptyTyped DEF Empty
  <2>2. QED BY <2>1 DEF KnowledgeApart, FileIsRuns
<1>2. ASSUME NEW n \in Machines, n # m, NEW e \in {registry[m][z], run[m].registry[z]}, Known(e)
      PROVE  Held(n, z).mint # e.mint
  <2>1. e.mint # 0
    BY <1>2, EntryFacts
  <2>2. e.mint \in Knows(m)
    BY <2>1 DEF Knows, Mints
  <2>3. e.mint \notin Knows(n)
    BY <1>2, <2>2 DEF KnowledgeApart
  <2>4. CASE At(n, "minting", z)
    BY <2>1, <2>3, <2>4 DEF Held, EntryOf, Knows, At
  <2>5. CASE ~ At(n, "minting", z)
    BY <2>1, <2>3, <2>5 DEF Held, Knows, Mints
  <2>6. QED BY <2>4, <2>5
<1>3. QED BY <1>1, <1>2

-----------------------------------------------------------------------------
(* The ledger, action by action.                                           *)

(* A mint that finds its machine with an identity makes that one a stray,  *)
(* which somebody must have paid for.                                      *)
LEMMA MintLedger ==
  ASSUME TypeOK, CopiesSound, TypeOK', NEW m \in Machines, NEW z \in Zones, Ledger(z) <= disturbed[z],
         NEW owner \in Nat \ {0}, Mint(m, owner), run[m].at <= Len(ZONES),
         run[m].pc \in {"zone", "fetching"}, UNCHANGED registry,
         \A n \in Machines : n # m \/ ZoneOf(m) # z => keys'[n][z] = keys[n][z],
         NEW paid \in Nat, disturbed'[z] = disturbed[z] + paid,
         ZoneOf(m) = z =>
           Unit(owner # keys'[m][z]) + Unit(Known(registry[m][z])) <= Owed(m, z) + paid
  PROVE  Ledger(z)' <= disturbed'[z]
<1>1. /\ Len(assets) \in Nat /\ DOMAIN assets = 1 .. Len(assets)
      /\ DOMAIN assets' = 1 .. Len(assets) + 1
      /\ \A a \in DOMAIN assets : assets'[a] = assets[a]
      /\ assets'[Len(assets) + 1] = [zone |-> ZoneOf(m), owner |-> owner, status |-> "flight"]
      /\ \A n \in Machines : n # m => run'[n] = run[n]
      /\ run'[m].pc = "minting" /\ run'[m].at = run[m].at
      /\ run'[m].owner = owner /\ run'[m].mint = Len(assets) + 1
  BY MintEffect
<1>2. ZoneOf(m)' = ZoneOf(m)
  BY <1>1 DEF ZoneOf
<1>3. \A n \in Machines : n # m => /\ Held(n, z)' = Held(n, z) /\ KeyOf(n, z)' = KeyOf(n, z)
                                   /\ keys'[n][z] = keys[n][z]
  BY <1>1, OthersKeep
<1>4. Held(m, z) = registry[m][z]
  BY DEF Held, At
<1>5. \A a \in DOMAIN assets' : a \in DOMAIN assets \/ a = Len(assets) + 1
  BY <1>1
<1>6. CASE ZoneOf(m) # z
  <2>1. Held(m, z)' = Held(m, z)
    BY <1>2, <1>4, <1>6 DEF Held, At
  <2>2. KeyOf(m, z)' = KeyOf(m, z) /\ keys'[m][z] = keys[m][z]
    BY <1>2, <1>6 DEF KeyOf, At
  <2>3. Owed(m, z)' = Owed(m, z)
    BY <2>1, <2>2 DEF Owed
  <2>4. Owed(m, z)' <= Owed(m, z) + paid
    BY <2>3 DEF Owed, Unit
  <2>5. assets'[Len(assets) + 1].zone # z
    BY <1>1, <1>6
  <2>6. QED BY <1>1, <1>3, <1>5, <2>1, <2>4, <2>5, LedgerKept
<1>7. CASE ZoneOf(m) = z
  <2>1. Held(m, z)' = [mint |-> Len(assets) + 1, pubkey |-> owner]
    BY <1>1, <1>2, <1>7 DEF Held, At, EntryOf
  <2>2. KeyOf(m, z)' = keys'[m][z]
    BY <1>1 DEF KeyOf, At
  <2>3. Held(m, z)'.mint = Len(assets) + 1 /\ Held(m, z)'.pubkey = owner
    BY <2>1
  <2>4. Owed(m, z)' = Unit(FALSE) + Unit(Known(Held(m, z)') /\ owner # keys'[m][z])
    BY <2>2, <2>3 DEF Owed
  <2>5. Owed(m, z)' <= Unit(owner # keys'[m][z]) /\ Owed(m, z)' \in Nat
    BY <2>4 DEF Unit
  <2>6. Unit(Held(m, z).mint \in Strays(z)') <= Unit(Known(registry[m][z]))
    <3>1. CASE Known(registry[m][z])
      BY <3>1 DEF Unit
    <3>2. CASE ~ Known(registry[m][z])
      <4>1. Held(m, z).mint = 0
        BY <1>4, <3>2, EntryFacts
      <4>2. 0 \notin Strays(z)'
        BY <1>1 DEF Strays
      <4>3. QED BY <4>1, <4>2 DEF Unit
    <3>3. QED BY <3>1, <3>2
  <2>7. /\ Unit(Held(m, z).mint \in Strays(z)') \in Nat
        /\ Unit(Held(m, z)'.mint \in Strays(z)) \in Nat
        /\ Unit(owner # keys'[m][z]) \in Nat /\ Unit(Known(registry[m][z])) \in Nat
        /\ Owed(m, z) \in Nat
    BY DEF Unit, Owed
  <2>8. Owed(m, z)' + Unit(Held(m, z).mint \in Strays(z)')
          <= Owed(m, z) + Unit(Held(m, z)'.mint \in Strays(z)) + paid
    BY <1>7, <2>5, <2>6, <2>7
  <2>9. \A a \in DOMAIN assets' : a \in DOMAIN assets \/ a = Held(m, z)'.mint
    BY <1>5, <2>3
  <2>10. QED BY <1>1, <1>3, <2>8, <2>9, LedgerStep
<1>8. QED BY <1>6, <1>7

(* A new key, or the old one, and a first identity or the known one.       *)
LEMMA LookLedger ==
  ASSUME IInv, TypeOK', KnowledgeApart, LedgerBalanced, NEW m \in Machines, Look(m), NEW z \in Zones
  PROVE  Ledger(z)' <= disturbed'[z]
<1>i. TypeOK /\ CopiesSound /\ RunSound(m) /\ Ledger(z) <= disturbed[z] /\ disturbed[z] \in Nat
  BY DEF IInv, WholeConfig, LedgerBalanced, TypeOK
<1>1. PICK owner \in Nat \ {0} :
         /\ run[m].at <= Len(ZONES) /\ ZoneOf(m) \in Zones /\ run[m].pc = "zone"
         /\ \A n \in Machines, y \in Zones :
              keys'[n][y] = IF n = m /\ y = ZoneOf(m) THEN owner ELSE keys[n][y]
         /\ keys[m][ZoneOf(m)] # 0 => owner = keys[m][ZoneOf(m)]
         /\ IF Known(run[m].registry[ZoneOf(m)]) THEN Fetch(m, owner) ELSE Mint(m, owner)
         /\ UNCHANGED <<registry, config, loaded, faultsLeft, disturbed>>
  BY <1>i, LookEffect
<1>k. \A n \in Machines : n # m \/ ZoneOf(m) # z => keys'[n][z] = keys[n][z]
  BY <1>1
<1>2. CASE ~ Known(run[m].registry[ZoneOf(m)])
  <2>1. ZoneOf(m) = z => owner = keys'[m][z] /\ ~ Known(registry[m][z])
    BY <1>1, <1>2, <1>i, FileFacts
  <2>2. Owed(m, z) \in Nat
    BY DEF Owed, Unit
  <2>3. ZoneOf(m) = z =>
          Unit(owner # keys'[m][z]) + Unit(Known(registry[m][z])) <= Owed(m, z) + 0
    BY <2>1, <2>2 DEF Unit
  <2>4. disturbed'[z] = disturbed[z] + 0 /\ Mint(m, owner) /\ UNCHANGED registry
        /\ run[m].pc \in {"zone", "fetching"} /\ run[m].at <= Len(ZONES)
    BY <1>1, <1>2, <1>i
  <2>5. 0 \in Nat
    OBVIOUS
  <2>6. QED BY <1>i, <1>k, <2>3, <2>4, <2>5, MintLedger
<1>3. CASE Known(run[m].registry[ZoneOf(m)])
  <2>1. /\ \A n \in Machines : n # m => run'[n] = run[n]
        /\ run'[m].pc = "fetching" /\ run'[m].at = run[m].at
        /\ run'[m].owner = owner /\ assets' = assets
    BY <1>1, <1>3, <1>i, FetchEffect
  <2>2. ZoneOf(m)' = ZoneOf(m)
    BY <2>1 DEF ZoneOf
  <2>3. \A n \in Machines : n # m => /\ Held(n, z)' = Held(n, z) /\ KeyOf(n, z)' = KeyOf(n, z)
                                     /\ keys'[n][z] = keys[n][z]
    BY <1>1, <1>k, <2>1, OthersKeep
  <2>4. Held(m, z) = registry[m][z] /\ Held(m, z)' = registry[m][z]
    BY <1>1, <2>1 DEF Held, At
  <2>5. KeyOf(m, z) = keys[m][z] /\ KeyOf(m, z)' = keys'[m][z]
    BY <1>1, <2>1, <2>2 DEF KeyOf, At
  <2>6. Known(registry[m][z]) /\ registry[m][z].pubkey # keys'[m][z] => registry[m][z].pubkey # keys[m][z]
    <3>1. Known(registry[m][z]) => registry[m][z].pubkey # 0
      BY <1>i, EntryFacts
    <3>2. keys'[m][z] = keys[m][z] \/ keys[m][z] = 0
      BY <1>1
    <3>3. QED BY <3>1, <3>2
  <2>7. Owed(m, z)' <= Owed(m, z) + 0
    BY <2>4, <2>5, <2>6 DEF Owed, Unit
  <2>8. disturbed'[z] = disturbed[z] + 0 /\ Held(m, z)' = Held(m, z)
    BY <1>1, <1>i, <2>4
  <2>9. 0 \in Nat
    OBVIOUS
  <2>10. QED BY <1>i, <2>1, <2>3, <2>7, <2>8, <2>9, LedgerKept
<1>4. QED BY <1>2, <1>3

(* An identity of another key was paid for when the key was lost; one that *)
(* could not be fetched is paid for now.                                   *)
LEMMA RemintLedger ==
  ASSUME IInv, TypeOK', KnowledgeApart, LedgerBalanced, NEW m \in Machines,
         RemintForOwner(m) \/ RemintOnError(m), NEW z \in Zones
  PROVE  Ledger(z)' <= disturbed'[z]
<1>i. TypeOK /\ CopiesSound /\ RunSound(m) /\ Ledger(z) <= disturbed[z]
      /\ disturbed \in [Zones -> Nat] /\ run[m].pc = "fetching"
  BY DEF IInv, WholeConfig, LedgerBalanced, TypeOK, RemintForOwner, RemintOnError
<1>1. PICK owner \in Nat \ {0} : /\ owner = run[m].owner
                                 /\ run[m].at <= Len(ZONES) /\ Mint(m, owner)
  BY <1>i, RemintIsMint
<1>2. UNCHANGED <<keys, registry>>
  BY DEF RemintForOwner, RemintOnError
<1>3. Held(m, z) = registry[m][z] /\ (ZoneOf(m) = z => KeyOf(m, z) = owner)
  BY <1>i, <1>1 DEF Held, KeyOf, At
<1>4. CASE ~ RemintOnError(m)
  <2>1. disturbed' = disturbed /\ ~ OwnerMatches(m)
    BY <1>4 DEF RemintForOwner
  <2>2. ZoneOf(m) = z /\ Known(registry[m][z]) => registry[m][z].pubkey # owner
    <3>1. Known(registry[m][z]) => registry[m][z] = run[m].registry[z]
      BY <1>i, FileFacts
    <3>2. Known(registry[m][z]) => assets[registry[m][z].mint].owner = registry[m][z].pubkey
      BY <1>i, EntryFacts
    <3>3. QED BY <1>1, <2>1, <3>1, <3>2 DEF OwnerMatches, Existing
  <2>3. ZoneOf(m) = z =>
          Unit(owner # keys'[m][z]) + Unit(Known(registry[m][z])) <= Owed(m, z) + 0
    BY <1>2, <1>3, <2>2 DEF Owed, Unit
  <2>4. disturbed'[z] = disturbed[z] + 0 /\ 0 \in Nat
    BY <1>i, <2>1
  <2>5. QED BY <1>i, <1>1, <1>2, <2>3, <2>4, MintLedger
<1>5. CASE RemintOnError(m) /\ ZoneOf(m) = z
  <2>1. disturbed'[z] = disturbed[z] + 1 /\ 1 \in Nat
    BY <1>i, <1>5 DEF RemintOnError
  <2>2. Unit(owner # keys'[m][z]) + Unit(Known(registry[m][z])) <= Owed(m, z) + 1
    BY <1>2, <1>3, <1>5 DEF Owed, Unit
  <2>3. QED BY <1>i, <1>1, <1>2, <2>1, <2>2, MintLedger
<1>6. CASE RemintOnError(m) /\ ZoneOf(m) # z
  <2>1. disturbed'[z] = disturbed[z] + 0 /\ 0 \in Nat
    BY <1>i, <1>6 DEF RemintOnError
  <2>2. QED BY <1>i, <1>1, <1>2, <1>6, <2>1, MintLedger
<1>7. QED BY <1>4, <1>5, <1>6

(* Skip has seen the identity of the key that the run looked up.           *)
LEMMA SkipLedger ==
  ASSUME IInv, TypeOK', KnowledgeApart, LedgerBalanced, NEW m \in Machines, Skip(m), NEW z \in Zones
  PROVE  Ledger(z)' <= disturbed'[z]
<1>i. TypeOK /\ CopiesSound /\ RunSound(m) /\ Ledger(z) <= disturbed[z]
      /\ disturbed[z] \in Nat /\ run[m].pc = "fetching" /\ OwnerMatches(m)
      /\ UNCHANGED <<assets, keys, registry, disturbed>>
  BY DEF IInv, WholeConfig, LedgerBalanced, TypeOK, Skip
<1>1. /\ \A n \in Machines : n # m => run'[n] = run[n]
      /\ run'[m].pc = "zone"
  BY <1>i, SkipEffect
<1>2. \A n \in Machines : n # m => /\ Held(n, z)' = Held(n, z) /\ KeyOf(n, z)' = KeyOf(n, z)
                                   /\ keys'[n][z] = keys[n][z]
  BY <1>i, <1>1, OthersKeep
<1>3. Held(m, z) = registry[m][z] /\ Held(m, z)' = registry[m][z]
  BY <1>i, <1>1 DEF Held, At
<1>4. KeyOf(m, z)' = keys[m][z] /\ keys'[m][z] = keys[m][z]
      /\ (ZoneOf(m) # z => KeyOf(m, z) = keys[m][z])
      /\ (ZoneOf(m) = z => KeyOf(m, z) = run[m].owner)
  BY <1>i, <1>1 DEF KeyOf, At
<1>5. ZoneOf(m) = z /\ Known(registry[m][z]) => registry[m][z].pubkey = run[m].owner
  <2>1. Known(registry[m][z]) => registry[m][z] = run[m].registry[z]
    BY <1>i, FileFacts
  <2>2. Known(registry[m][z]) => assets[registry[m][z].mint].owner = registry[m][z].pubkey
    BY <1>i, EntryFacts
  <2>3. QED BY <1>i, <2>1, <2>2 DEF OwnerMatches, Existing
<1>6. Owed(m, z)' <= Owed(m, z) + 0
  BY <1>3, <1>4, <1>5 DEF Owed, Unit
<1>7. disturbed'[z] = disturbed[z] + 0 /\ Held(m, z)' = Held(m, z) /\ 0 \in Nat
  BY <1>i, <1>3
<1>8. QED BY <1>i, <1>2, <1>6, <1>7, LedgerKept

(* Confirm saves the registry of the run: an entry of a lost file is back, *)
(* no stray any more, and may be a stranger instead.                       *)
LEMMA ConfirmLedger ==
  ASSUME IInv, TypeOK', KnowledgeApart, LedgerBalanced, NEW m \in Machines, Confirm(m), NEW z \in Zones
  PROVE  Ledger(z)' <= disturbed'[z]
<1>i. TypeOK /\ CopiesSound /\ RunSound(m) /\ Ledger(z) <= disturbed[z]
      /\ disturbed[z] \in Nat /\ run[m].pc = "minting"
      /\ UNCHANGED <<assets, keys, disturbed>>
  BY DEF IInv, WholeConfig, LedgerBalanced, TypeOK, Confirm
<1>1. /\ \A n \in Machines : n # m => run'[n] = run[n] /\ registry'[n] = registry[n]
      /\ run'[m].pc = "zone" /\ registry'[m] = Remembered(m)
  BY <1>i, ConfirmEffect
<1>2. \A n \in Machines : n # m => /\ Held(n, z)' = Held(n, z) /\ KeyOf(n, z)' = KeyOf(n, z)
                                   /\ keys'[n][z] = keys[n][z]
  BY <1>i, <1>1, OthersKeep
<1>3. Remembered(m)[z] = IF z = ZoneOf(m) THEN EntryOf(m) ELSE run[m].registry[z]
  BY <1>i, RememberedEntries
<1>4. KeyOf(m, z)' = keys[m][z] /\ KeyOf(m, z) = keys[m][z] /\ keys'[m][z] = keys[m][z]
  BY <1>i, <1>1 DEF KeyOf, At
<1>5. Held(m, z)' = Remembered(m)[z]
  BY <1>1 DEF Held, At
<1>6. disturbed'[z] = disturbed[z] + 0 /\ 0 \in Nat
  BY <1>i
<1>7. CASE Held(m, z)' = Held(m, z)
  <2>1. Owed(m, z)' <= Owed(m, z) + 0
    BY <1>4, <1>7 DEF Owed, Unit
  <2>2. QED BY <1>i, <1>2, <1>6, <1>7, <2>1, LedgerKept
<1>8. CASE Held(m, z)' # Held(m, z)
  <2>1. z # ZoneOf(m) /\ Held(m, z) = registry[m][z]
    <3>1. z = ZoneOf(m) => Held(m, z) = EntryOf(m)
      BY <1>i DEF Held, At
    <3>2. z # ZoneOf(m)
      BY <3>1, <1>3, <1>5, <1>8
    <3>3. QED BY <3>2 DEF Held, At
  <2>2. Held(m, z)' = run[m].registry[z]
    BY <2>1, <1>3, <1>5
  <2>3. ~ Known(registry[m][z])
    BY <1>8, <1>i, <2>1, <2>2, FileFacts
  <2>4. Known(run[m].registry[z])
    BY <1>8, <2>1, <2>2, <2>3 DEF Known
  <2>5. run[m].registry[z].mint \in Strays(z)
    <3>1. /\ run[m].registry[z].mint \in DOMAIN assets /\ run[m].registry[z].mint # 0
          /\ assets[run[m].registry[z].mint].zone = z
          /\ assets[run[m].registry[z].mint].status = "minted"
      BY <1>i, <2>4, EntryFacts
    <3>2. \A n \in Machines : n # m => Held(n, z).mint # run[m].registry[z].mint
      BY <1>i, <2>4, FileFacts
    <3>3. Held(m, z).mint = 0
      BY <1>i, <2>1, <2>3, EntryFacts
    <3>4. QED BY <3>1, <3>2, <3>3 DEF Strays
  <2>6. Unit(Held(m, z).mint \in Strays(z)') = 0
    <3>1. Held(m, z).mint = 0
      BY <1>i, <2>1, <2>3, EntryFacts
    <3>2. 0 \notin Strays(z)'
      <4>1. 0 \notin DOMAIN assets
        BY <1>i, Bounds
      <4>2. QED BY <4>1, <1>i DEF Strays
    <3>3. QED BY <3>1, <3>2 DEF Unit
  <2>7. Unit(Held(m, z)'.mint \in Strays(z)) = 1
    BY <2>2, <2>5 DEF Unit
  <2>8. Owed(m, z)' <= 1 /\ Owed(m, z)' \in Nat /\ Owed(m, z) \in Nat
    BY <1>4 DEF Owed, Unit
  <2>9. Owed(m, z)' + Unit(Held(m, z).mint \in Strays(z)')
          <= Owed(m, z) + Unit(Held(m, z)'.mint \in Strays(z)) + 0
    BY <2>6, <2>7, <2>8
  <2>10. QED BY <1>i, <1>2, <1>6, <2>9, LedgerStep
<1>9. QED BY <1>7, <1>8

(* A run that ends without its mint falls back on the file; one that died  *)
(* leaves the mint it was waiting for behind.                              *)
LEMMA EndLedger ==
  ASSUME IInv, TypeOK', KnowledgeApart, LedgerBalanced, NEW m \in Machines,
         Patch(m) \/ Fail(m) \/ Die(m), NEW z \in Zones
  PROVE  Ledger(z)' <= disturbed'[z]
<1>i. TypeOK /\ CopiesSound /\ RunSound(m) /\ Ledger(z) <= disturbed[z]
      /\ disturbed \in [Zones -> Nat] /\ run' = [run EXCEPT ![m] = Idle]
      /\ UNCHANGED <<assets, keys, registry>>
  BY DEF IInv, WholeConfig, LedgerBalanced, TypeOK, Patch, Fail, Die
<1>1. /\ \A n \in Machines : n # m => run'[n] = run[n]
      /\ run'[m].pc = "idle"
  BY <1>i, EndEffect
<1>2. \A n \in Machines : n # m => /\ Held(n, z)' = Held(n, z) /\ KeyOf(n, z)' = KeyOf(n, z)
                                   /\ keys'[n][z] = keys[n][z]
  BY <1>i, <1>1, OthersKeep
<1>3. Held(m, z)' = registry[m][z] /\ KeyOf(m, z)' = keys[m][z] /\ keys'[m][z] = keys[m][z]
  BY <1>i, <1>1 DEF Held, KeyOf, At
<1>4. CASE ~ At(m, "minting", z)
  <2>1. disturbed'[z] = disturbed[z] + 0 /\ 0 \in Nat
    <3>1. disturbed'[z] = disturbed[z]
      BY <1>4, <1>i DEF Patch, Fail, Die, At
    <3>2. QED BY <3>1, <1>i
  <2>2. Held(m, z)' = Held(m, z) /\ Held(m, z) = registry[m][z]
    BY <1>3, <1>4 DEF Held
  <2>3. Owed(m, z)' <= Owed(m, z) + 0
    BY <1>3, <2>2 DEF Owed, Unit
  <2>4. QED BY <1>i, <1>2, <2>1, <2>2, <2>3, LedgerKept
<1>5. CASE At(m, "minting", z)
  <2>1. /\ run[m].pc = "minting" /\ ZoneOf(m) = z /\ Held(m, z).mint = run[m].mint
        /\ run[m].mint \notin Mints(m)
    BY <1>5 DEF At, Held, EntryOf, KnowledgeApart
  <2>2. PICK paid \in {0, 1} : /\ disturbed'[z] = disturbed[z] + paid
                               /\ Unit(Held(m, z).mint \in Strays(z)') <= paid
    <3>1. CASE Die(m)
      <4>1. disturbed'[z] = disturbed[z] + 1
        BY <3>1, <2>1, <1>i DEF Die
      <4>2. QED BY <4>1 DEF Unit
    <3>2. CASE ~ Die(m)
      <4>1. Fail(m)
        BY <3>2, <2>1 DEF Patch
      <4>2. disturbed'[z] = disturbed[z] + 0
        BY <4>1, <1>i DEF Fail
      <4>3. run[m].mint \notin Strays(z)'
        BY <4>1 DEF Fail, Strays
      <4>4. QED BY <4>2, <4>3, <2>1 DEF Unit
    <3>3. QED BY <3>1, <3>2
  <2>3. Owed(m, z)' <= Unit(Known(registry[m][z])) /\ Owed(m, z)' \in Nat /\ Owed(m, z) \in Nat
    BY <1>3 DEF Owed, Unit
  <2>4. Unit(Known(registry[m][z])) <= Unit(Held(m, z)'.mint \in Strays(z))
    <3>1. CASE ~ Known(registry[m][z])
      BY <3>1 DEF Unit
    <3>2. CASE Known(registry[m][z])
      <4>1. /\ registry[m][z].mint \in DOMAIN assets
            /\ assets[registry[m][z].mint].zone = z
            /\ assets[registry[m][z].mint].status = "minted"
        BY <1>i, <3>2, EntryFacts
      <4>2. \A n \in Machines : n # m => Held(n, z).mint # registry[m][z].mint
        BY <1>i, <3>2, FileFacts
      <4>3. Held(m, z).mint # registry[m][z].mint
        BY <2>1 DEF Mints
      <4>4. registry[m][z].mint \in Strays(z)
        BY <4>1, <4>2, <4>3 DEF Strays
      <4>5. QED BY <4>4, <1>3 DEF Unit
    <3>3. QED BY <3>1, <3>2
  <2>5. /\ Unit(Known(registry[m][z])) \in Nat /\ Unit(Held(m, z)'.mint \in Strays(z)) \in Nat
        /\ Unit(Held(m, z).mint \in Strays(z)') \in Nat /\ paid \in Nat
    BY DEF Unit
  <2>6. Owed(m, z)' + Unit(Held(m, z).mint \in Strays(z)')
          <= Owed(m, z) + Unit(Held(m, z)'.mint \in Strays(z)) + paid
    BY <2>2, <2>3, <2>4, <2>5
  <2>7. QED BY <1>i, <1>2, <2>2, <2>5, <2>6, LedgerStep
<1>6. QED BY <1>4, <1>5

(* A lost file is paid for in every zone.                                  *)
LEMMA LoseLedger ==
  ASSUME IInv, TypeOK', KnowledgeApart, LedgerBalanced, NEW m \in Machines, LoseFiles(m), NEW z \in Zones
  PROVE  Ledger(z)' <= disturbed'[z]
<1>i. TypeOK /\ CopiesSound /\ Ledger(z) <= disturbed[z]
      /\ disturbed[z] \in Nat /\ UNCHANGED <<assets, run>>
      /\ disturbed'[z] = disturbed[z] + 1 /\ 1 \in Nat
  BY DEF IInv, LedgerBalanced, TypeOK, LoseFiles
<1>1. /\ \A n \in Machines : n # m => registry'[n] = registry[n] /\ keys'[n] = keys[n]
      /\ \/ registry'[m] = registry[m] /\ keys'[m] = [y \in Zones |-> 0]
         \/ registry'[m] = Empty /\ keys'[m] = keys[m]
  BY <1>i DEF LoseFiles, TypeOK
<1>2. \A n \in Machines : n # m => /\ Held(n, z)' = Held(n, z) /\ KeyOf(n, z)' = KeyOf(n, z)
                                   /\ keys'[n][z] = keys[n][z]
  BY <1>i, <1>1, OthersKeep
<1>3. \A y : At(m, "minting", y)' = At(m, "minting", y) /\ At(m, "fetching", y)' = At(m, "fetching", y)
  BY <1>i DEF At, ZoneOf
<1>4. EntryOf(m)' = EntryOf(m)
  BY <1>i DEF EntryOf
<1>5. CASE registry'[m] = registry[m] /\ keys'[m] = [y \in Zones |-> 0]
  <2>1. Held(m, z)' = Held(m, z)
    BY <1>3, <1>4, <1>5 DEF Held
  <2>2. IF At(m, "fetching", z) THEN KeyOf(m, z)' = KeyOf(m, z)
        ELSE KeyOf(m, z)' = keys'[m][z] /\ KeyOf(m, z) = keys[m][z]
    BY <1>i, <1>3 DEF KeyOf
  <2>3. Owed(m, z)' <= Owed(m, z) + 1
    BY <2>1, <2>2 DEF Owed, Unit
  <2>4. QED BY <1>i, <1>2, <2>1, <2>3, LedgerKept
<1>6. CASE registry'[m] = Empty /\ keys'[m] = keys[m]
  <2>1. KeyOf(m, z)' = KeyOf(m, z) /\ keys'[m][z] = keys[m][z]
    BY <1>i, <1>3, <1>6 DEF KeyOf
  <2>2. Held(m, z)' = Held(m, z) \/ ~ Known(Held(m, z)')
    BY <1>3, <1>4, <1>6, EmptyTyped DEF Held, Empty
  <2>3. Owed(m, z)' <= Owed(m, z) /\ Owed(m, z)' \in Nat /\ Owed(m, z) \in Nat
    BY <2>1, <2>2 DEF Owed, Unit
  <2>4. /\ Unit(Held(m, z).mint \in Strays(z)') \in 0 .. 1
        /\ Unit(Held(m, z)'.mint \in Strays(z)) \in 0 .. 1
    BY DEF Unit
  <2>5. Owed(m, z)' + Unit(Held(m, z).mint \in Strays(z)')
          <= Owed(m, z) + Unit(Held(m, z)'.mint \in Strays(z)) + 1
    BY <2>3, <2>4
  <2>6. QED BY <1>i, <1>2, <2>5, LedgerStep
<1>7. QED BY <1>1, <1>5, <1>6

(* What the ledger does not mention.                                       *)
LEMMA OtherLedger ==
  ASSUME IInv, TypeOK', LedgerBalanced, NEW z \in Zones,
         \/ \E m \in Machines : Begin(m) \/ Load(m)
         \/ \E a \in DOMAIN assets : Land(a)
         \/ UNCHANGED vars
  PROVE  Ledger(z)' <= disturbed'[z]
<1>i. TypeOK /\ Ledger(z) <= disturbed[z] /\ UNCHANGED <<registry, keys, disturbed>>
  BY DEF IInv, LedgerBalanced, Begin, Load, Land, vars
<1>1. \A a \in DOMAIN assets' :
        assets'[a].zone = z /\ assets'[a].status # "lost"
          => a \in DOMAIN assets /\ assets[a].zone = z /\ assets[a].status # "lost"
  <2>1. CASE UNCHANGED assets
    BY <2>1
  <2>2. ASSUME NEW a \in DOMAIN assets, Land(a)
        PROVE  \A b \in DOMAIN assets' :
                 assets'[b].zone = z /\ assets'[b].status # "lost"
                   => b \in DOMAIN assets /\ assets[b].zone = z /\ assets[b].status # "lost"
    <3>1. /\ DOMAIN assets' = DOMAIN assets
          /\ \A b \in DOMAIN assets : b # a => assets'[b] = assets[b]
          /\ assets[a].status = "flight" /\ assets'[a].zone = assets[a].zone
      BY <1>i, <2>2, LandEffect
    <3>2. QED BY <3>1
  <2>3. QED BY <2>1, <2>2 DEF Begin, Load, vars
<1>2. ASSUME NEW n \in Machines PROVE Held(n, z)' = Held(n, z) /\ KeyOf(n, z)' = KeyOf(n, z)
  <2>1. CASE run'[n] = run[n]
    BY <2>1, <1>i, OthersKeep
  <2>2. CASE run'[n] # run[n]
    <3>1. Begin(n)
      <4>1. PICK m \in Machines : Begin(m)
        BY <2>2 DEF Load, Land, vars
      <4>2. n = m
        BY <4>1, <1>i, <2>2, BeginEffect
      <4>3. QED BY <4>1, <4>2
    <3>2. run[n].pc = "idle" /\ run'[n].pc = "zone"
      BY <3>1, <1>i, BeginEffect DEF Begin
    <3>3. QED BY <3>2, <1>i DEF Held, KeyOf, At
  <2>3. QED BY <2>1, <2>2
<1>3. QED BY <1>i, <1>1, <1>2, LedgerSame

-----------------------------------------------------------------------------
(* The theorem about duplicates.                                           *)

(* The ledger is balanced in every state.                                  *)
LEMMA LInvariance == Spec => []LInv
<1>1. Init => LInv
  <2> SUFFICES ASSUME Init PROVE LInv
    OBVIOUS
  <2>1. IInv
    BY InitIInv
  <2>2. /\ \A m \in Machines : /\ run[m] = Idle /\ registry[m] = Empty
                              /\ run[m].pc = "idle" /\ run[m].registry = Empty
        /\ \A m \in Machines, z \in Zones : keys[m][z] = 0
        /\ \A z \in Zones : Empty[z] = NoEntry /\ Empty[z].mint = 0
    BY DEF Init, Idle, Empty, NoEntry
  <2>3. \A m \in Machines : Knows(m) = {}
    BY <2>2 DEF Knows, Mints
  <2>4. KnowledgeApart
    BY <2>2, <2>3 DEF KnowledgeApart, FileIsRuns
  <2>5. ASSUME NEW z \in Zones PROVE Ledger(z) <= disturbed[z]
    <3>1. Strays(z) = {}
      BY DEF Init, Strays
    <3>2. Forgetful(z) = {}
      BY <2>2 DEF Forgetful, KeyOf, At
    <3>3. Strangers(z) = {}
      BY <2>2, EmptyTyped DEF Strangers, Held, At
    <3>4. Ledger(z) = 0
      BY <3>1, <3>2, <3>3, FS_EmptySet DEF Ledger
    <3>5. disturbed[z] = 0
      BY DEF Init
    <3>6. QED BY <3>4, <3>5
  <2>6. QED BY <2>1, <2>4, <2>5 DEF LInv, LedgerBalanced
<1>2. LInv /\ [Next]_vars => LInv'
  <2> SUFFICES ASSUME LInv, [Next]_vars PROVE LInv'
    OBVIOUS
  <2>1. IInv /\ KnowledgeApart /\ LedgerBalanced
    BY DEF LInv
  <2>2. TypeOK'
    BY <2>1, TypePreserved DEF IInv, WholeConfig
  <2>3. IInv'
    BY <2>1, <2>2, CopiesPreserved, WholePreserved DEF IInv, WholeConfig
  <2>4. KnowledgeApart'
    BY <2>1, ApartPreserved
  <2>5. ASSUME NEW z \in Zones PROVE Ledger(z)' <= disturbed'[z]
    BY <2>1, <2>2, LookLedger, RemintLedger, SkipLedger, ConfirmLedger, EndLedger, LoseLedger,
       OtherLedger DEF Next
  <2>6. QED BY <2>3, <2>4, <2>5 DEF LInv, LedgerBalanced
<1>3. QED BY <1>1, <1>2, PTL DEF Spec

(* A zone has no more identities than machines, each of which may have     *)
(* minted one, and faults that touched it.                                 *)
THEOREM DuplicatesCorrect == Spec => []DuplicatesNeedFaults
<1>1. LInv => DuplicatesNeedFaults
  <2> SUFFICES ASSUME LInv, NEW z \in Zones
               PROVE  Cardinality(MintedFor(z)) <= Cardinality(Machines) + disturbed[z]
    BY DEF DuplicatesNeedFaults
  <2> DEFINE H == {Held(m, z).mint : m \in Machines}
  <2>1. IsFiniteSet(H) /\ Cardinality(H) <= Cardinality(Machines)
    <3> DEFINE f == [m \in Machines |-> Held(m, z).mint]
    <3>1. f \in Surjection(Machines, H)
      BY DEF Surjection
    <3> HIDE DEF f, H
    <3>2. QED BY <3>1, MachinesAssumption, FS_Surjection
  <2>2. MintedFor(z) \subseteq H \cup Strays(z)
    BY DEF MintedFor, Strays
  <2>3. TypeOK /\ Ledger(z) <= disturbed[z]
    BY DEF LInv, IInv, LedgerBalanced
  <2>4. /\ IsFiniteSet(Strays(z)) /\ Cardinality(Strays(z)) \in Nat
        /\ Cardinality(Forgetful(z)) \in Nat /\ Cardinality(Strangers(z)) \in Nat
    BY <2>3, LedgerFinite, FS_CardinalityType
  <2>5. disturbed[z] \in Nat
    BY <2>3 DEF TypeOK
  <2>6. Cardinality(Strays(z)) <= disturbed[z]
    BY <2>3, <2>4, <2>5 DEF Ledger
  <2> HIDE DEF H
  <2>7. /\ IsFiniteSet(H \cup Strays(z))
        /\ Cardinality(H \cup Strays(z)) <= Cardinality(H) + Cardinality(Strays(z))
    <3>1. IsFiniteSet(H \cup Strays(z)) /\ IsFiniteSet(H \cap Strays(z))
          /\ Cardinality(H \cup Strays(z)) =
               Cardinality(H) + Cardinality(Strays(z)) - Cardinality(H \cap Strays(z))
      BY <2>1, <2>4, FS_Union, FS_Intersection
    <3>2. Cardinality(H) \in Nat /\ Cardinality(H \cap Strays(z)) \in Nat
          /\ Cardinality(H \cup Strays(z)) \in Nat
      BY <3>1, <2>1, FS_CardinalityType
    <3>3. QED BY <3>1, <3>2, <2>4
  <2>8. Cardinality(MintedFor(z)) <= Cardinality(H \cup Strays(z))
        /\ Cardinality(MintedFor(z)) \in Nat
    BY <2>2, <2>7, FS_Subset, FS_CardinalityType
  <2>9. Cardinality(H) \in Nat /\ Cardinality(Machines) \in Nat /\ Cardinality(H \cup Strays(z)) \in Nat
    BY <2>1, <2>7, MachinesAssumption, FS_CardinalityType
  <2>10. QED BY <2>1, <2>4, <2>5, <2>6, <2>7, <2>8, <2>9
<1>2. QED BY <1>1, LInvariance, PTL
=============================================================================
