---------------------------- MODULE ReaderProofs ----------------------------
(***************************************************************************)
(* What holds of the keystore, of the custody of keys and of the composer  *)
(* for any number of goroutines, any devices, queries, drafts and plans:   *)
(* type correctness, that no secret is sealed under a losing master key,   *)
(* that the keystore implements a plain map whichever provider each        *)
(* process chooses, and the four invariants of Reader.                     *)
(***************************************************************************)
EXTENDS Reader, TLAPS

(***************************************************************************)
(* The keystore.  A provider that has a key has the one in its file, a     *)
(* cipher() that answered has a key, and the one goroutine that publishes  *)
(* found no key.                                                           *)
(***************************************************************************)
CachedIsPublished ==
    /\ cached # 0 => cached = keyFile[provider]
    /\ provider = "memory" => cached # 0

ReadyHasKey == \A t \in Threads : at[t] = "ready" => cached # 0

OnePublisher ==
    \A t \in Threads :
        /\ at[t] = "publish" => provMu = t /\ cached = 0 /\ keyFile[provider] = 0
        /\ at[t] = "write" => provMu = t /\ cached = 0 /\ keyFile[provider] = Empty

(***************************************************************************)
(* Keys are numbered as they are made: the next one is nobody's yet, and   *)
(* no two providers have the same.  What is on disk, and in the map of a   *)
(* process that writes it there, is under a key of one of the two files.   *)
(***************************************************************************)
Numbered ==
    /\ \A p \in Providers : keyFile[p] =< made
    /\ \A a \in Aliases : sealed[a] =< made /\ entries[a] =< made

OwnKeys == \A p, q \in Providers : keyFile[p] > 0 /\ keyFile[p] = keyFile[q] => p = q

OnFile == {keyFile["file"], keyFile["hardware"]}

EntriesHome == provider # "memory" => \A a \in Aliases : entries[a] # 0 => entries[a] \in OnFile

VaultInv ==
    /\ CachedIsPublished /\ ReadyHasKey /\ OnePublisher
    /\ Numbered /\ OwnKeys /\ EntriesHome /\ NothingOrphaned

(***************************************************************************)
(* What each kind of goroutine is about while it runs.                     *)
(***************************************************************************)
Bringers == {"public", "wkd", "sweep", "ensure"}

ShapeOf(r) ==
    /\ r.op = "none" => r = NoTask
    /\ r.pc = "next" => r.fp = None
    /\ r.op = "private" => /\ r.pc \in {"next", "seal", "row"} /\ r.todo \subseteq {Me}
                           /\ r.pc # "next" => r.fp = Me
    /\ r.op \in Bringers => r.pc \in {"next", "look", "row"} /\ (r.pc # "next" => r.fp \in Fps)
    /\ r.op = "delete" => r.pc \in {"row", "vault"} /\ r.todo = {} /\ r.fp \in Fps
    /\ r.op = "send" => r.pc = "build" /\ r.todo = {} /\ r.fp = None /\ r.d \in Drafts

Shapes == \A t \in Tasks : ShapeOf(task[t])

(***************************************************************************)
(* The loader: only the mailbox's own key was ever stored private, keys    *)
(* are loaded before the first snapshot, and so before the first Remove.   *)
(***************************************************************************)
Boot == {"boot", "open", "migrate", "blank"}

LoaderInv ==
    /\ rows[Pal] \in {"none", "pub"} /\ ld.list[Pal] \in {"none", "pub"}
    /\ ld.pc \in {"open", "migrate", "blank"} => ld.fp = Me
    /\ ld.pc \notin {"open", "migrate", "blank"} => ld.fp = None
    /\ ld.pc \notin Boot => ld.todo = {}
    /\ ld.pc \in Boot => view.keys = {} /\ \A t \in Tasks : task[t].op # "delete"

(***************************************************************************)
(* Custody of the private key.  A goroutine recorded as clean has met no   *)
(* goroutine that clashes.  Safe is what makes a sealed row mean           *)
(* something: the file has the key and the next write will not lose it,    *)
(* unless a memory keystore took it.                                       *)
(***************************************************************************)
CleanAlone == \A t, u \in Tasks : task[t].clean => ~Clash(task[t], task[u])

Safe == volatile \/ (sealed[Me] # 0 /\ (provider # "memory" => entries[Me] # 0))

Deletes(r, k) == r.op = "delete" /\ r.fp = k

KeptInv ==
    kept => /\ \A t \in Tasks : ~Deletes(task[t], Me)
            /\ rows[Me] # "none" /\ (rows[Me] = "sealed" => Safe)
            /\ Safe \/ \A t \in Tasks : task[t].op = "private" => task[t].clean

SealedInv ==
    /\ \A t \in Tasks : task[t].op = "private" /\ task[t].pc = "row" /\ task[t].clean => Safe
    /\ ld.pc = "blank" => Safe

(***************************************************************************)
(* Deletion.  Nothing that runs is about a wiped key, in the keystore's    *)
(* memory, in the loader or in a goroutine; and a copy of Me that is in    *)
(* the file and not in the map is one whose deletion was not written.      *)
(***************************************************************************)
WipedInv ==
    \A k \in wiped :
        /\ rows[k] = "none" /\ k \notin ld.todo /\ ld.fp # k
        /\ k \in Aliases /\ k \notin residue => sealed[k] = 0 /\ entries[k] = 0
        /\ \A t \in Tasks : task[t].op # "delete" => k \notin task[t].todo \cup {task[t].fp}

Hidden == provider # "memory" /\ entries[Me] = 0 /\ sealed[Me] # 0 => Me \in residue

RowGone ==
    \A t \in Tasks : task[t].op = "delete" /\ task[t].pc = "vault" /\ task[t].clean => rows[task[t].fp] = "none"

CustodyInv == CleanAlone /\ KeptInv /\ SealedInv /\ WipedInv /\ Hidden /\ RowGone

(***************************************************************************)
(* The composer.  What a building goroutine will queue keeps the draft's   *)
(* promise, and a draft is sent once: while it flies it is not sent again. *)
(***************************************************************************)
BuildersKeep ==
    \A t \in Tasks : task[t].op = "send" =>
        promise[task[t].d] # "none" /\ (~task[t].enc => promise[task[t].d] = "open")

QueuedWasSent == \A d \in Drafts : outbox[d] # "none" => promise[d] # "none"

SentFlies == comp.d # 0 => promise[comp.d] = "none" \/ flying

DraftInv == BuildersKeep /\ QueuedWasSent /\ SentFlies /\ SecretStaysSecret /\ DraftAccounted

-----------------------------------------------------------------------------
(***************************************************************************)
(* What any step may do to the keystore: nothing but call cipher() or get  *)
(* back from it, be refused, a step of a provider, a write that seals, a   *)
(* write that drops or finds nothing to drop, or a restart.                *)
(***************************************************************************)
Calls ==
    /\ UNCHANGED <<place, keyFile, sealed, entries, cached, provMu, made, report>>
    /\ at' = at \/ \E t \in Threads, s \in {"out", "key"} : Stage(t, s)

Refuses(t) == Refused /\ Stage(t, "out") /\ UNCHANGED <<place, keyFile, cached, provMu, made>>

Writes(map) == persistLocked(map) \/ PersistFails(map)

Seals(t, a) ==
    /\ at[t] = "ready" /\ Writes(Sealing(a))
    /\ Stage(t, "out") /\ UNCHANGED <<place, keyFile, cached, provMu, made>>

Drops(a) == Writes(Dropping(a)) /\ UNCHANGED <<place, keyFile, cached, provMu, at, made>>

Forgets(a) ==
    /\ entries[a] = 0 /\ report' = "saved"
    /\ UNCHANGED <<place, keyFile, sealed, entries, cached, provMu, at, made>>

VaultEffect ==
    \/ Calls
    \/ \E t \in Threads : KeyStep(t) \/ KeyTrouble(t) \/ Refuses(t)
    \/ \E t \in Threads, a \in Aliases : Seals(t, a)
    \/ \E a \in Aliases : Drops(a) \/ Forgets(a)
    \/ \E p \in Providers : Reopen(p)

LEMMA StillCalls == UNCHANGED vaultVars => Calls
  BY DEF vaultVars, Calls

LEMMA DeletedDrops ==
    ASSUME NEW a, Deleted(a), UNCHANGED <<place, keyFile, cached, provMu, at, made>>
    PROVE  Drops(a) \/ Forgets(a)
  BY DEF Deleted, Drops, Forgets, Writes

LEMMA LoadVault == ASSUME LoadStep, LoaderInv PROVE VaultEffect
  <1> USE KeysAssumption DEF vaultDisk
  <1>a. Loader \in Threads
    OBVIOUS
  <1>1. ASSUME NEW k \in Fps, LoadKey(k) PROVE Calls
    BY <1>1 DEF LoadKey, Waits, Calls
  <1>2. CASE OpenKey
    <2>1. Calls
      BY <1>2 DEF OpenKey, Waits, Calls
    <2> QED BY <2>1 DEF VaultEffect
  <1>3. CASE MigrateFails
    <2>1. Refuses(Loader)
      BY <1>3 DEF MigrateFails, Refuses
    <2> QED BY <1>a, <2>1 DEF VaultEffect
  <1>4. CASE MigrateSeals
    <2>1. ld.fp \in Aliases
      BY <1>4 DEF MigrateSeals, LoaderInv
    <2>2. Seals(Loader, ld.fp)
      BY <1>4 DEF MigrateSeals, Keeps, Seals, Writes
    <2> QED BY <1>a, <2>1, <2>2 DEF VaultEffect
  <1>5. CASE BlankRow
    <2>1. Calls
      BY <1>5, StillCalls DEF BlankRow
    <2> QED BY <2>1 DEF VaultEffect
  <1> QED BY <1>1, <1>2, <1>3, <1>4, <1>5 DEF LoadStep, VaultEffect

LEMMA TaskVault == ASSUME TaskOK, Shapes, NEW t \in Tasks, TaskStep(t) PROVE VaultEffect
  <1> USE KeysAssumption DEF vaultDisk
  <1>a. t \in Threads /\ task[t] \in Goroutines /\ ShapeOf(task[t])
    BY DEF TaskOK, Shapes
  <1>1. ASSUME NEW k \in Fps, Skip(t, k) \/ StartLookup(t, k) PROVE VaultEffect
    BY <1>1, StillCalls DEF Skip, StartLookup, VaultEffect
  <1>2. ASSUME NEW k \in Fps, ImportKey(t, k) PROVE VaultEffect
    <2>1. Calls
      BY <1>a, <1>2 DEF ImportKey, Calls
    <2> QED BY <2>1 DEF VaultEffect
  <1>3. CASE LookupFails(t) \/ LookupFinds(t) \/ StoreKeyRow(t) \/ StoreKeyRowFails(t) \/ DeleteRow(t)
             \/ DeleteRowFails(t)
    BY <1>3, StillCalls
    DEF LookupFails, LookupFinds, StoreKeyRow, StoreKeyRowFails, DeleteRow, DeleteRowFails, VaultEffect
  <1>4. CASE SealKey(t) \/ SealKeyFails(t)
    <2>1. task[t].fp = Me
      BY <1>a, <1>4 DEF SealKey, SealKeyFails, ShapeOf, Bringers, Goroutines, Ops, NoTask
    <2>2. Me \in Aliases
      OBVIOUS
    <2>3. Seals(t, Me) \/ Refuses(t)
      BY <1>a, <1>4, <2>1 DEF SealKey, SealKeyFails, Keeps, Writes, Seals, Refuses
    <2> QED BY <1>a, <2>2, <2>3 DEF VaultEffect
  <1>5. CASE DeleteSealed(t) \/ DeleteSealedFails(t)
    <2> DEFINE k == task[t].fp
    <2>1. CASE k \in Aliases
      <3>1. Drops(k) \/ Forgets(k)
        BY <1>5, <2>1, DeletedDrops DEF DeleteSealed, DeleteSealedFails, DropSealed, Writes, Drops
      <3> QED BY <2>1, <3>1 DEF VaultEffect
    <2>2. CASE k \notin Aliases
      <3>1. Calls
        BY <1>5, <2>2 DEF DeleteSealed, DeleteSealedFails, DropSealed, Calls
      <3> QED BY <3>1 DEF VaultEffect
    <2> QED BY <2>1, <2>2
  <1>6. CASE (Build(t) \/ EnqueueFails(t) \/ Finish(t)) /\ UNCHANGED vaultVars
    BY <1>6, StillCalls DEF VaultEffect
  <1> QED BY <1>1, <1>2, <1>3, <1>4, <1>5, <1>6 DEF TaskStep

(***************************************************************************)
(* The engine writes its credentials and its copy of the key, never Me.    *)
(***************************************************************************)
EngineVault ==
    \/ Calls \/ Refuses(Engine)
    \/ \E a \in {Cred, Copy} : Seals(Engine, a) \/ Drops(a) \/ Forgets(a)

LEMMA EngineVaults ==
    ASSUME StoreCredential \/ DeleteCredential \/ execSyncPrivateKey
           \/ SealCredential \/ OpenCopy \/ FetchPrivateKey \/ SealCopy
    PROVE  EngineVault
  <1>a. Engine \in Threads
    BY KeysAssumption
  <1>1. CASE StoreCredential \/ execSyncPrivateKey \/ OpenCopy \/ FetchPrivateKey
    <2>1. Calls
      BY <1>1, <1>a DEF StoreCredential, execSyncPrivateKey, OpenCopy, FetchPrivateKey, Calls, vaultDisk
    <2> QED BY <2>1 DEF EngineVault
  <1>2. CASE DeleteCredential
    <2>1. Drops(Cred) \/ Forgets(Cred)
      BY <1>2, DeletedDrops DEF DeleteCredential, Writes, Drops
    <2> QED BY <2>1 DEF EngineVault
  <1>3. CASE SealCredential
    <2>1. Seals(Engine, Cred) \/ Refuses(Engine)
      BY <1>3 DEF SealCredential, Writes, Seals, Refuses
    <2> QED BY <2>1 DEF EngineVault
  <1>4. CASE SealCopy
    <2>1. Seals(Engine, Copy) \/ Refuses(Engine)
      BY <1>4 DEF SealCopy, Writes, Seals, Refuses
    <2> QED BY <2>1 DEF EngineVault
  <1> QED BY <1>1, <1>2, <1>3, <1>4

LEMMA VaultEffects ==
    ASSUME VaultTypeOK, TaskOK, Shapes, LoaderInv, [Next]_vars PROVE VaultEffect
  <1>a. Engine \in Threads /\ {Cred, Copy} \subseteq Aliases
    BY KeysAssumption
  <1>e. EngineVault => VaultEffect
    BY <1>a DEF EngineVault, VaultEffect
  <1>1. CASE Start
    <2>1. CASE UNCHANGED vaultVars
      BY <2>1, StillCalls DEF VaultEffect
    <2> QED BY <1>1, <1>e, <2>1, EngineVaults DEF Start, ComposeStep, ReadStep
  <1>2. CASE FrameStep \/ LoopStep \/ LoopTrouble \/ UNCHANGED vars
    BY <1>2, StillCalls DEF FrameStep, LoopStep, LoopTrouble, vars, VaultEffect
  <1>3. CASE EngineStep
    BY <1>3, <1>e, EngineVaults DEF EngineStep
  <1>4. CASE LoadStep
    BY <1>4, LoadVault
  <1>5. CASE Death
    <2>1. provider \in Providers /\ Choices \subseteq Providers
      BY DEF VaultTypeOK, Choices, Providers
    <2> QED BY <1>5, <2>1 DEF Death, VaultEffect
  <1>6. ASSUME NEW t \in Tasks, TaskStep(t) PROVE VaultEffect
    BY <1>6, TaskVault
  <1>7. ASSUME NEW t \in Threads, VaultStep(t) PROVE VaultEffect
    BY <1>7 DEF VaultStep, VaultEffect
  <1> QED BY <1>1, <1>2, <1>3, <1>4, <1>5, <1>6, <1>7 DEF Next, LoaderStep

-----------------------------------------------------------------------------
LEMMA VaultInitHolds == Init => VaultTypeOK /\ VaultInv
  <1> SUFFICES ASSUME Init PROVE VaultTypeOK /\ VaultInv
    OBVIOUS
  <1>1. /\ device \in Devices /\ provider \in Providers /\ report = "none" /\ made = 1
        /\ keyFile = [p \in Providers |-> IF p = "memory" THEN 1 ELSE 0]
        /\ cached = (IF provider = "memory" THEN 1 ELSE 0) /\ provMu = None
        /\ sealed \in [Aliases -> Nat] /\ entries = sealed /\ at \in [Threads -> Stages]
        /\ \A a \in Aliases : sealed[a] = 0
        /\ \A t \in Threads : at[t] = "out"
    BY DEF Init, VaultInit, Stages, Choices, Providers
  <1>2. VaultTypeOK
    BY <1>1 DEF VaultTypeOK
  <1>3. CachedIsPublished /\ ReadyHasKey /\ OnePublisher
    BY <1>1 DEF CachedIsPublished, ReadyHasKey, OnePublisher
  <1>4. Numbered /\ OwnKeys /\ EntriesHome /\ NothingOrphaned
    BY <1>1 DEF Numbered, OwnKeys, EntriesHome, NothingOrphaned
  <1> QED BY <1>2, <1>3, <1>4 DEF VaultInv

LEMMA WritesTo ==
    ASSUME NEW map, Writes(map)
    PROVE  /\ entries' = map /\ report' \in {"saved", "failed"} /\ sealed' \in {sealed, map}
           /\ provider = "memory" => sealed' = sealed /\ report' = "saved"
           /\ report' = "saved" /\ provider # "memory" => sealed' = map
           /\ report' = "failed" => sealed' = sealed
  BY DEF Writes, persistLocked, PersistFails

(***************************************************************************)
(* Every kind of effect keeps the keystore's types and its invariant.      *)
(***************************************************************************)
LEMMA VaultTypeStep == VaultTypeOK /\ VaultEffect => VaultTypeOK'
  <1> SUFFICES ASSUME VaultTypeOK, VaultEffect PROVE VaultTypeOK'
    OBVIOUS
  <1> USE DEF VaultTypeOK, Stages, Stage, Empty, vaultDisk, place
  <1>1. CASE Calls
    BY <1>1 DEF Calls
  <1>2. ASSUME NEW t \in Threads, ReadKey(t) \/ ReadKeyFails(t) PROVE VaultTypeOK'
    BY <1>2 DEF ReadKey, ReadKeyFails, Loaded, KeyThere
  <1>3. ASSUME NEW t \in Threads, PublishKey(t) \/ publishExcl(t) PROVE VaultTypeOK'
    <2>1. Installs(t)
      BY <1>3 DEF PublishKey, publishExcl
    <2>2. made' \in Nat /\ Adopt(made') \in Nat
      BY <2>1 DEF Installs, Adopt, KeyThere
    <2> QED BY <2>1, <2>2 DEF Installs, Publishes
  <1>4. ASSUME NEW t \in Threads, CreateKey(t) \/ PublishFails(t) PROVE VaultTypeOK'
    <2>1. CASE CreateKey(t)
      BY <2>1 DEF CreateKey, Publishes, KeyThere
    <2>2. CASE PublishFails(t)
      BY <2>2 DEF PublishFails, Publishes
    <2> QED BY <1>4, <2>1, <2>2
  <1>5. ASSUME NEW t \in Threads, NEW a \in Aliases, Seals(t, a) PROVE VaultTypeOK'
    <2>1. Sealing(a) \in [Aliases -> Nat]
      BY DEF Sealing
    <2> QED BY <1>5, <2>1, WritesTo DEF Seals
  <1>6. ASSUME NEW a \in Aliases, Drops(a) \/ Forgets(a) PROVE VaultTypeOK'
    <2>1. Dropping(a) \in [Aliases -> Nat]
      BY DEF Dropping
    <2> QED BY <1>6, <2>1, WritesTo DEF Drops, Forgets
  <1>7. ASSUME NEW p \in Providers, Reopen(p) PROVE VaultTypeOK'
    <2>a. made' = made + 1 /\ made' \in Nat
      BY <1>7 DEF Reopen
    <2>1. keyFile' \in [Providers -> Nat \cup {Empty}] /\ cached' \in Nat
      BY <1>7, <2>a DEF Reopen
    <2>2. entries' \in [Aliases -> Nat] /\ at' \in [Threads -> Stages] /\ UNCHANGED <<device, sealed>>
      BY <1>7 DEF Reopen
    <2> QED BY <1>7, <2>a, <2>1, <2>2 DEF Reopen
  <1>8. ASSUME NEW t \in Threads, Refuses(t) PROVE VaultTypeOK'
    BY <1>8 DEF Refuses, Refused
  <1> QED BY <1>1, <1>2, <1>3, <1>4, <1>5, <1>6, <1>7, <1>8 DEF VaultEffect, KeyStep, KeyTrouble

(***************************************************************************)
(* What a change of the key file costs: nothing, when the provider had no  *)
(* key there and the new one, if there is one, is fresh.                   *)
(***************************************************************************)
LEMMA PublishKeeps ==
    ASSUME VaultTypeOK, Numbered, OwnKeys, EntriesHome, NothingOrphaned, provider # "memory",
           keyFile[provider] \in {0, Empty}, UNCHANGED <<place, sealed, entries>>, NEW v, Publishes(v),
           \/ v \in {0, Empty} /\ UNCHANGED made
           \/ made' = made + 1 /\ v = made'
    PROVE  /\ Numbered' /\ OwnKeys' /\ EntriesHome' /\ NothingOrphaned'
           /\ keyFile'[provider'] = v /\ \A q \in Providers : q # provider => keyFile'[q] = keyFile[q]
           /\ \A q \in Providers : (Readable(entries)[q])' = Readable(entries)[q]
                                   /\ (Readable(sealed)[q])' = Readable(sealed)[q]
  <1>a. /\ keyFile \in [Providers -> Nat \cup {Empty}] /\ made \in Nat /\ Empty = -1 /\ provider \in Providers
        /\ sealed \in [Aliases -> Nat] /\ entries \in [Aliases -> Nat] /\ provider' = provider
    BY DEF VaultTypeOK, Empty, place
  <1>1. /\ keyFile'[provider] = v /\ \A q \in Providers : q # provider => keyFile'[q] = keyFile[q]
    BY <1>a DEF Publishes
  <1>2. Numbered'
    BY <1>a, <1>1 DEF Numbered
  <1>3. OwnKeys'
    BY <1>a, <1>1 DEF OwnKeys, Numbered
  <1>4. \A n \in Nat : n # 0 /\ n =< made => \A q \in Providers : n = keyFile[q] <=> n = keyFile'[q]
    BY <1>a, <1>1
  <1>5. {"file", "hardware"} \subseteq Providers
    BY DEF Providers
  <1>6. EntriesHome' /\ NothingOrphaned'
    BY <1>a, <1>4, <1>5 DEF EntriesHome, OnFile, NothingOrphaned, Recoverable, Numbered
  <1>7. ASSUME NEW q \in Providers
        PROVE  (Readable(entries)[q])' = Readable(entries)[q] /\ (Readable(sealed)[q])' = Readable(sealed)[q]
    BY <1>a, <1>4 DEF Readable, Numbered
  <1> QED BY <1>a, <1>1, <1>2, <1>3, <1>6, <1>7

(***************************************************************************)
(* The steps of a provider that change its file.                           *)
(***************************************************************************)
Publishing(t) == PublishKey(t) \/ CreateKey(t) \/ publishExcl(t) \/ PublishFails(t)

LEMMA PublishingIs ==
    ASSUME VaultTypeOK, VaultInv, NEW t \in Threads, Publishing(t)
    PROVE  /\ provider # "memory" /\ keyFile[provider] \in {0, Empty} /\ provMu = t /\ cached = 0
           /\ UNCHANGED <<place, sealed, entries, report>>
           /\ \E v : /\ Publishes(v)
                     /\ \/ v \in {0, Empty} /\ UNCHANGED made
                        \/ made' = made + 1 /\ v = made'
           /\ \/ at'[t] = "ready" /\ made' = made + 1 /\ Publishes(made') /\ cached' = made' /\ provMu' = None
              \/ at'[t] = "write" /\ Publishes(Empty) /\ cached' = 0 /\ provMu' = t
              \/ at'[t] = "failed" /\ cached' = 0 /\ provMu' = None
           /\ \A u \in Threads : u # t => at'[u] = at[u]
  <1>a. CachedIsPublished /\ OnePublisher /\ Empty = -1 /\ Providers = {"file", "hardware", "memory"}
        /\ keyFile \in [Providers -> Nat \cup {Empty}] /\ provider \in Providers /\ at \in [Threads -> Stages]
        /\ made \in Nat
    BY DEF VaultInv, VaultTypeOK, Empty, Providers
  <1>b. at[t] = "publish" \/ at[t] = "write"
    BY DEF Publishing, PublishKey, CreateKey, publishExcl, PublishFails
  <1>c. /\ provMu = t /\ cached = 0 /\ keyFile[provider] \in {0, Empty} /\ provider # "memory"
        /\ at[t] = "publish" => keyFile[provider] = 0
    BY <1>a, <1>b DEF OnePublisher, CachedIsPublished
  <1>1. CASE PublishKey(t) \/ publishExcl(t)
    <2>1. Installs(t)
      BY <1>1 DEF PublishKey, publishExcl
    <2>2. Adopt(made') = made'
      BY <1>a, <1>c DEF Adopt, KeyThere
    <2> QED BY <1>a, <1>c, <2>1, <2>2 DEF Installs, Stage, place
  <1>2. CASE CreateKey(t)
    <2>1. at[t] = "publish" /\ Publishes(Empty)
      BY <1>2, <1>c DEF CreateKey, KeyThere
    <2> QED BY <1>2, <1>a, <1>c, <2>1 DEF CreateKey, Stage, place
  <1>3. CASE PublishFails(t)
    <2>1. keyFile = [keyFile EXCEPT ![provider] = keyFile[provider]]
      BY <1>a
    <2>2. \E v : /\ Publishes(v)
                 /\ \/ v \in {0, Empty} /\ UNCHANGED made
                    \/ made' = made + 1 /\ v = made'
      BY <1>3, <1>c, <2>1 DEF PublishFails, Publishes
    <2> QED BY <1>3, <1>a, <1>c, <2>2 DEF PublishFails, Stage, place
  <1> QED BY <1>1, <1>2, <1>3 DEF Publishing

LEMMA VaultInvStep == VaultTypeOK /\ VaultInv /\ VaultEffect => VaultInv'
  <1> SUFFICES ASSUME VaultTypeOK, VaultInv, VaultEffect PROVE VaultInv'
    OBVIOUS
  <1>a. CachedIsPublished /\ ReadyHasKey /\ OnePublisher /\ Numbered /\ OwnKeys /\ EntriesHome /\ NothingOrphaned
    BY DEF VaultInv
  <1>b. /\ keyFile \in [Providers -> Nat \cup {Empty}] /\ cached \in Nat /\ made \in Nat /\ Empty = -1
        /\ provider \in Providers /\ Providers = {"file", "hardware", "memory"}
        /\ sealed \in [Aliases -> Nat] /\ entries \in [Aliases -> Nat] /\ at \in [Threads -> Stages]
    BY DEF VaultTypeOK, Empty, Providers
  <1>k. None \notin Threads
    BY KeysAssumption
  <1>s. ASSUME UNCHANGED <<place, keyFile, sealed, entries, made>>
        PROVE  Numbered' /\ OwnKeys' /\ EntriesHome' /\ NothingOrphaned'
    BY <1>a, <1>s DEF place, Numbered, OwnKeys, EntriesHome, OnFile, NothingOrphaned, Recoverable
  <1> USE DEF Stage
  <1>1. ASSUME UNCHANGED <<place, keyFile, cached, provMu, made>>,
               \A t \in Threads : at'[t] = at[t] \/ at'[t] \in {"out", "key", "failed"}
        PROVE  CachedIsPublished' /\ ReadyHasKey' /\ OnePublisher'
    BY <1>1, <1>a DEF place, CachedIsPublished, ReadyHasKey, OnePublisher
  <1>2. CASE Calls \/ \E t \in Threads : Refuses(t) \/ ReadKeyFails(t)
    <2>1. /\ UNCHANGED <<place, keyFile, sealed, entries, cached, provMu, made>>
          /\ \A t \in Threads : at'[t] = at[t] \/ at'[t] \in {"out", "key", "failed"}
      BY <1>2, <1>b DEF Calls, Refuses, Refused, ReadKeyFails, vaultDisk
    <2> QED BY <1>1, <1>s, <2>1 DEF VaultInv
  <1>3. ASSUME NEW t \in Threads, ReadKey(t) PROVE VaultInv'
    <2>1. /\ UNCHANGED <<place, keyFile, sealed, entries, made>> /\ provMu = None /\ provider' = provider
          /\ \A u \in Threads : u # t => at'[u] = at[u] /\ at[u] \notin {"publish", "write"}
      BY <1>3, <1>a, <1>b, <1>k DEF ReadKey, vaultDisk, OnePublisher, place
    <2>2. CachedIsPublished' /\ (cached # 0 => cached' = cached)
      BY <1>3, <1>a, <1>b, <2>1 DEF ReadKey, Loaded, KeyThere, CachedIsPublished
    <2>3. \/ at'[t] = "ready" /\ cached' # 0
          \/ at'[t] = "failed"
          \/ at'[t] = "publish" /\ provMu' = t /\ cached' = 0 /\ keyFile[provider] = 0
      BY <1>3, <1>b DEF ReadKey, KeyThere
    <2>4. ReadyHasKey' /\ OnePublisher'
      BY <1>a, <2>1, <2>2, <2>3 DEF ReadyHasKey, OnePublisher
    <2> QED BY <1>s, <2>1, <2>2, <2>4 DEF VaultInv
  <1>4. ASSUME NEW t \in Threads, Publishing(t) PROVE VaultInv'
    <2>1. /\ provider # "memory" /\ keyFile[provider] \in {0, Empty} /\ provMu = t /\ cached = 0
          /\ UNCHANGED <<place, sealed, entries, report>> /\ provider' = provider
          /\ \A u \in Threads : u # t => at'[u] = at[u] /\ at[u] \notin {"publish", "write"}
      BY <1>4, <1>a, PublishingIs DEF place, OnePublisher
    <2>2. PICK v : /\ Publishes(v)
                   /\ \/ v \in {0, Empty} /\ UNCHANGED made
                      \/ made' = made + 1 /\ v = made'
      BY <1>4, PublishingIs
    <2>3. Numbered' /\ OwnKeys' /\ EntriesHome' /\ NothingOrphaned'
      BY <1>a, <2>1, <2>2, PublishKeeps
    <2>4. \/ at'[t] = "ready" /\ cached' = keyFile'[provider] /\ cached' # 0
          \/ at'[t] = "write" /\ keyFile'[provider] = Empty /\ cached' = 0 /\ provMu' = t
          \/ at'[t] = "failed" /\ cached' = 0
      BY <1>4, <1>b, PublishingIs DEF Publishes
    <2>5. CachedIsPublished' /\ ReadyHasKey' /\ OnePublisher'
      BY <1>a, <2>1, <2>4 DEF CachedIsPublished, ReadyHasKey, OnePublisher
    <2> QED BY <2>3, <2>5 DEF VaultInv
  <1>5. ASSUME NEW map \in [Aliases -> Nat], Writes(map), UNCHANGED <<place, keyFile, made>>,
               \A a \in Aliases : map[a] \in {0, entries[a], cached}, cached # 0 \/ \A a \in Aliases : map[a] \in {0, entries[a]}
        PROVE  Numbered' /\ OwnKeys' /\ EntriesHome' /\ NothingOrphaned'
    <2>1. entries' = map /\ sealed' \in {sealed, map} /\ (provider = "memory" => sealed' = sealed)
      BY <1>5, WritesTo
    <2>2. /\ \A a \in Aliases : map[a] =< made
          /\ provider # "memory" => \A a \in Aliases : map[a] # 0 => map[a] \in OnFile
      BY <1>5, <1>a, <1>b DEF Numbered, CachedIsPublished, EntriesHome, OnFile
    <2> QED BY <1>5, <1>a, <2>1, <2>2
        DEF place, Numbered, OwnKeys, EntriesHome, OnFile, NothingOrphaned, Recoverable
  <1>6. ASSUME NEW t \in Threads, NEW a \in Aliases, Seals(t, a) PROVE VaultInv'
    <2>1. cached # 0
      BY <1>6, <1>a DEF Seals, ReadyHasKey
    <2>2. Sealing(a) \in [Aliases -> Nat] /\ \A b \in Aliases : Sealing(a)[b] \in {0, entries[b], cached}
      BY <1>b DEF Sealing
    <2>3. \A u \in Threads : at'[u] = at[u] \/ at'[u] = "out"
      BY <1>6, <1>b DEF Seals
    <2> QED BY <1>1, <1>5, <1>6, <2>1, <2>2, <2>3 DEF Seals, VaultInv
  <1>7. ASSUME NEW a \in Aliases, Drops(a) PROVE VaultInv'
    <2>1. Dropping(a) \in [Aliases -> Nat] /\ \A b \in Aliases : Dropping(a)[b] \in {0, entries[b]}
      BY <1>b DEF Dropping
    <2> QED BY <1>1, <1>5, <1>7, <2>1 DEF Drops, VaultInv
  <1>8. ASSUME NEW a \in Aliases, Forgets(a) PROVE VaultInv'
    BY <1>1, <1>s, <1>8 DEF Forgets, VaultInv
  <1>9. ASSUME NEW p \in Providers, Reopen(p) PROVE VaultInv'
    <2>1. /\ provider' = p /\ made' = made + 1 /\ keyFile' = [keyFile EXCEPT !["memory"] = made']
          /\ entries' = (IF p = "memory" THEN [a \in Aliases |-> 0] ELSE sealed)
          /\ cached' = (IF p = "memory" THEN made' ELSE 0) /\ UNCHANGED sealed
          /\ \A u \in Threads : at'[u] = "out"
      BY <1>9 DEF Reopen
    <2>2. /\ keyFile'["memory"] = made + 1 /\ \A q \in Providers : q # "memory" => keyFile'[q] = keyFile[q]
      BY <1>b, <2>1
    <2>3. CachedIsPublished' /\ ReadyHasKey' /\ OnePublisher'
      BY <1>b, <2>1, <2>2 DEF CachedIsPublished, ReadyHasKey, OnePublisher
    <2>4. Numbered' /\ OwnKeys'
      BY <1>a, <1>b, <2>1, <2>2 DEF Numbered, OwnKeys
    <2>5. EntriesHome' /\ NothingOrphaned'
      BY <1>a, <1>b, <2>1, <2>2 DEF EntriesHome, OnFile, NothingOrphaned, Recoverable
    <2> QED BY <2>3, <2>4, <2>5 DEF VaultInv
  <1> QED BY <1>2, <1>3, <1>4, <1>6, <1>7, <1>8, <1>9 DEF VaultEffect, KeyStep, KeyTrouble, Publishing

(***************************************************************************)
(* Every kind of effect is a step of the plain map, or none.               *)
(***************************************************************************)
LEMMA MapStep ==
    ASSUME VaultTypeOK, VaultInv, VaultEffect
    PROVE  [Map!MapNext]_(Map!mapVars)
  <1> DEFINE H == Readable(entries)
             S == Readable(sealed)
  <1>a. CachedIsPublished /\ ReadyHasKey /\ OnePublisher /\ Numbered /\ OwnKeys /\ EntriesHome /\ NothingOrphaned
    BY DEF VaultInv
  <1>b. /\ keyFile \in [Providers -> Nat \cup {Empty}] /\ cached \in Nat /\ made \in Nat /\ Empty = -1
        /\ provider \in Providers /\ Providers = {"file", "hardware", "memory"} /\ Map!Providers = Providers
        /\ sealed \in [Aliases -> Nat] /\ entries \in [Aliases -> Nat]
    BY DEF VaultTypeOK, Empty, Providers, Map!Providers
  <1>c. ASSUME H' = H, S' = S, UNCHANGED <<provider, report>> PROVE [Map!MapNext]_(Map!mapVars)
    BY <1>c DEF Map!mapVars
  <1>d. ASSUME UNCHANGED <<keyFile, sealed, entries>> PROVE H' = H /\ S' = S
    BY <1>d DEF Readable
  <1>1. CASE Calls \/ \E t \in Threads : ReadKey(t) \/ ReadKeyFails(t)
    <2>1. UNCHANGED <<provider, keyFile, sealed, entries, report>>
      BY <1>1 DEF Calls, ReadKey, ReadKeyFails, vaultDisk, place
    <2> QED BY <1>c, <1>d, <2>1
  <1>2. ASSUME NEW t \in Threads, Publishing(t) PROVE [Map!MapNext]_(Map!mapVars)
    <2>1. /\ provider # "memory" /\ keyFile[provider] \in {0, Empty}
          /\ UNCHANGED <<place, sealed, entries, report>> /\ provider' = provider
      BY <1>2, PublishingIs DEF place
    <2>2. PICK v : /\ Publishes(v)
                   /\ \/ v \in {0, Empty} /\ UNCHANGED made
                      \/ made' = made + 1 /\ v = made'
      BY <1>2, PublishingIs
    <2>3. \A q \in Providers : (H[q])' = H[q] /\ (S[q])' = S[q]
      BY <1>a, <2>1, <2>2, PublishKeeps
    <2>4. H' = H /\ S' = S
      BY <2>3 DEF Readable
    <2> QED BY <1>c, <2>1, <2>4
  <1>3. ASSUME NEW map \in [Aliases -> Nat], Writes(map), UNCHANGED <<place, keyFile>>,
               NEW held, H' = held, H' = Readable(map)
        PROVE  Map!Write(held)
    <2>1. /\ provider' = provider /\ entries' = map
          /\ \/ report' = "saved" /\ sealed' = (IF provider = "memory" THEN sealed ELSE map)
             \/ report' = "failed" /\ provider # "memory" /\ sealed' = sealed
      BY <1>3 DEF place, Writes, persistLocked, PersistFails
    <2>2. (sealed' = sealed => S' = S) /\ (sealed' = map => S' = H')
      BY <1>3, <2>1 DEF Readable
    <2> HIDE DEF H, S
    <2> QED BY <1>3, <2>1, <2>2 DEF Map!Write, H, S
  <1>4. ASSUME NEW t \in Threads, NEW a \in Aliases, Seals(t, a) PROVE [Map!MapNext]_(Map!mapVars)
    <2>1. cached # 0 /\ cached = keyFile[provider] /\ Sealing(a) \in [Aliases -> Nat]
      BY <1>4, <1>a, <1>b DEF Seals, ReadyHasKey, CachedIsPublished, Sealing
    <2>2. entries' = Sealing(a) /\ UNCHANGED <<place, keyFile>> /\ Writes(Sealing(a))
      BY <1>4, WritesTo DEF Seals
    <2>3. H' = Readable(Sealing(a))
      BY <2>2 DEF Readable
    <2>4. Readable(Sealing(a)) = [p \in Providers |-> IF p = provider THEN H[p] \cup {a} ELSE H[p] \ {a}]
      <3>1. ASSUME NEW p \in Providers
            PROVE  {b \in Aliases : Sealing(a)[b] # 0 /\ Sealing(a)[b] = keyFile[p]}
                   = IF p = provider THEN H[p] \cup {a} ELSE H[p] \ {a}
        <4>1. cached = keyFile[p] <=> p = provider
          BY <1>a, <1>b, <2>1 DEF OwnKeys
        <4>2. H[p] = {b \in Aliases : entries[b] # 0 /\ entries[b] = keyFile[p]}
          BY DEF Readable
        <4> QED BY <1>b, <2>1, <4>1, <4>2 DEF Sealing
      <3> QED BY <3>1 DEF Readable
    <2>5. Map!MapStore(a)
      BY <1>3, <1>b, <2>1, <2>2, <2>3, <2>4 DEF Map!MapStore
    <2> QED BY <2>5 DEF Map!MapNext
  <1>5. ASSUME NEW a \in Aliases, Drops(a) PROVE [Map!MapNext]_(Map!mapVars)
    <2>1. entries' = Dropping(a) /\ UNCHANGED <<place, keyFile>> /\ Writes(Dropping(a))
          /\ Dropping(a) \in [Aliases -> Nat]
      BY <1>5, <1>b, WritesTo DEF Drops, Dropping
    <2>2. H' = Readable(Dropping(a))
      BY <2>1 DEF Readable
    <2>3. Readable(Dropping(a)) = [p \in Providers |-> H[p] \ {a}]
      BY <1>b DEF Dropping, Readable
    <2>4. Map!MapDelete(a)
      BY <1>3, <1>b, <2>1, <2>2, <2>3 DEF Map!MapDelete
    <2> QED BY <2>4 DEF Map!MapNext
  <1>6. ASSUME NEW a \in Aliases, Forgets(a) PROVE [Map!MapNext]_(Map!mapVars)
    <2>1. H' = H /\ S' = S /\ provider' = provider /\ report' = "saved"
      BY <1>d, <1>6 DEF Forgets, place
    <2>2. \A p \in Providers : a \notin H[p]
      BY <1>6 DEF Forgets, Readable
    <2>3. Map!MapForgotten(a)
      BY <1>b, <2>1, <2>2 DEF Map!MapForgotten
    <2> QED BY <2>3 DEF Map!MapNext
  <1>7. ASSUME NEW t \in Threads, Refuses(t) PROVE [Map!MapNext]_(Map!mapVars)
    <2>1. H' = H /\ S' = S /\ provider' = provider /\ report' = "failed"
      BY <1>d, <1>7 DEF Refuses, Refused, place
    <2> QED BY <2>1 DEF Map!MapNext, Map!MapRefused
  <1>8. ASSUME NEW p \in Providers, Reopen(p) PROVE [Map!MapNext]_(Map!mapVars)
    <2>1. /\ provider' = p /\ made' = made + 1 /\ keyFile' = [keyFile EXCEPT !["memory"] = made']
          /\ entries' = (IF p = "memory" THEN [a \in Aliases |-> 0] ELSE sealed)
          /\ UNCHANGED sealed /\ report' = "none"
      BY <1>8 DEF Reopen
    <2>2. /\ keyFile'["memory"] = made + 1 /\ \A q \in Providers : q # "memory" => keyFile'[q] = keyFile[q]
      BY <1>b, <2>1
    <2>3. \A a \in Aliases : sealed[a] # 0 => sealed[a] # keyFile["memory"] /\ sealed[a] # keyFile'["memory"]
      <3> SUFFICES ASSUME NEW a \in Aliases, sealed[a] # 0
                   PROVE  sealed[a] # keyFile["memory"] /\ sealed[a] # keyFile'["memory"]
        OBVIOUS
      <3>1. sealed[a] \in Nat /\ sealed[a] =< made /\ sealed[a] \in {keyFile["file"], keyFile["hardware"]}
        BY <1>a, <1>b DEF Numbered, NothingOrphaned, Recoverable
      <3> QED BY <1>a, <1>b, <2>2, <3>1 DEF OwnKeys
    <2>4. S' = S
      <3>1. ASSUME NEW q \in Providers
            PROVE  {a \in Aliases : sealed[a] # 0 /\ sealed[a] = keyFile'[q]}
                   = {a \in Aliases : sealed[a] # 0 /\ sealed[a] = keyFile[q]}
        BY <2>2, <2>3
      <3> QED BY <2>1, <3>1 DEF Readable
    <2>5. H' = IF p = "memory" THEN Map!Nothing ELSE S
      <3>1. CASE p = "memory"
        <4>1. \A a \in Aliases : entries'[a] = 0
          BY <2>1, <3>1
        <4> QED BY <1>b, <3>1, <4>1 DEF Readable, Map!Nothing
      <3>2. CASE p # "memory"
        <4>1. H' = S'
          BY <2>1, <3>2 DEF Readable
        <4> QED BY <2>4, <3>2, <4>1
      <3> QED BY <3>1, <3>2
    <2> HIDE DEF H, S
    <2>6. Map!MapRestart
      BY <1>b, <2>1, <2>4, <2>5 DEF Map!MapRestart, H, S
    <2> QED BY <2>6 DEF Map!MapNext
  <1> QED BY <1>1, <1>2, <1>4, <1>5, <1>6, <1>7, <1>8 DEF VaultEffect, KeyStep, KeyTrouble, Publishing

-----------------------------------------------------------------------------
(***************************************************************************)
(* What any step may do to the goroutines: one of them goes on with what   *)
(* it is about, one ends, one starts, or all die.                          *)
(***************************************************************************)
About(r) == (r.todo \cup {r.fp}) \cap Fps

Follows(r, q) ==
    r.op = q.op /\ r.op \notin {"none", "send"} /\ r.clean = q.clean /\ About(r) \subseteq About(q)

Advances(t) == \E r \in Goroutines : Becomes(t, r) /\ ShapeOf(r) /\ Follows(r, task[t])

Starts(r) == SpawnOnKeys(r) /\ ShapeOf(r) /\ r.op \notin {"none", "send"}

StartsSend(r) == Spawn(r) /\ ShapeOf(r) /\ r.op = "send" /\ ~r.clean

TaskEffect ==
    \/ UNCHANGED task
    \/ \E t \in Tasks : Advances(t) \/ Ends(t)
    \/ \E r \in Goroutines : Starts(r) \/ StartsSend(r)
    \/ task' = [t \in Tasks |-> NoTask]

LEMMA NoTaskType == NoTask \in Goroutines /\ ShapeOf(NoTask) /\ About(NoTask) = {}
  <1>1. None \notin Fps
    BY KeysAssumption
  <1> QED BY <1>1 DEF NoTask, Goroutines, Ops, ShapeOf, Bringers, About

LEMMA BringerType ==
    ASSUME NEW op \in {"private"} \cup Bringers, NEW S \in SUBSET Fps, op = "private" => S = {Me}
    PROVE  LET r == [NoTask EXCEPT !.op = op, !.pc = "next", !.todo = S]
           IN  r \in Goroutines /\ ShapeOf(r) /\ r.op = op /\ r.todo = S /\ r.fp = None /\ r.pc = "next"
  BY DEF NoTask, Goroutines, Ops, ShapeOf, Bringers

LEMMA DeleterType ==
    ASSUME NEW k \in Fps
    PROVE  LET r == [NoTask EXCEPT !.op = "delete", !.pc = "row", !.fp = k]
           IN  r \in Goroutines /\ ShapeOf(r) /\ r.op = "delete" /\ r.todo = {} /\ r.fp = k /\ r.pc = "row"
  BY DEF NoTask, Goroutines, Ops, ShapeOf, Bringers

Sender(d, e, s) == [NoTask EXCEPT !.op = "send", !.pc = "build", !.d = d, !.enc = e, !.sign = s]

LEMMA SenderType ==
    ASSUME NEW d \in Drafts, NEW e \in BOOLEAN, NEW s \in BOOLEAN
    PROVE  /\ Sender(d, e, s) \in Goroutines /\ ShapeOf(Sender(d, e, s))
           /\ Sender(d, e, s).op = "send" /\ ~Sender(d, e, s).clean
           /\ Sender(d, e, s).d = d /\ Sender(d, e, s).enc = e
  <1>1. d \in Nat
    BY ReaderAssumption DEF Drafts
  <1> QED BY <1>1 DEF Sender, NoTask, Goroutines, Ops, ShapeOf, Bringers

(***************************************************************************)
(* The steps of the goroutines that bring keys in or delete one.           *)
(***************************************************************************)
LEMMA KeyTaskSteps ==
    ASSUME TaskOK, Shapes, NEW t \in Tasks
    PROVE  /\ \A k \in Fps : Skip(t, k) \/ StartLookup(t, k) \/ ImportKey(t, k) => Advances(t)
           /\ LookupFails(t) => Advances(t) \/ Ends(t)
           /\ LookupFinds(t) \/ SealKey(t) \/ SealKeyFails(t) \/ StoreKeyRow(t) \/ StoreKeyRowFails(t)
              \/ DeleteRow(t) => Advances(t)
  <1> DEFINE q == task[t]
  <1>a. q \in Goroutines /\ ShapeOf(q)
    BY DEF TaskOK, Shapes
  <1>b. None \notin Fps
    BY KeysAssumption
  <1> USE DEF Goroutines, Ops
  <1>1. ASSUME NEW k \in Fps, Skip(t, k) PROVE Advances(t)
    <2> DEFINE r == [q EXCEPT !.todo = @ \ {k}]
    <2>1. r \in Goroutines /\ ShapeOf(r) /\ Follows(r, q)
      BY <1>a, <1>1 DEF Skip, Turn, Skips, ShapeOf, Bringers, Follows, About, NoTask
    <2>2. Becomes(t, r)
      BY <1>1 DEF Skip
    <2> HIDE DEF r
    <2> QED BY <2>1, <2>2 DEF Advances
  <1>2. ASSUME NEW k \in Fps, StartLookup(t, k) PROVE Advances(t)
    <2> DEFINE r == [q EXCEPT !.todo = @ \ {k}, !.fp = k, !.pc = "look"]
    <2>1. r \in Goroutines /\ ShapeOf(r) /\ Follows(r, q)
      BY <1>a, <1>2 DEF StartLookup, Turn, ShapeOf, Bringers, Follows, About, NoTask
    <2>2. Becomes(t, r)
      BY <1>2 DEF StartLookup
    <2> HIDE DEF r
    <2> QED BY <2>1, <2>2 DEF Advances
  <1>3. ASSUME NEW k \in Fps, ImportKey(t, k) PROVE Advances(t)
    <2>1. CASE q.op = "private"
      <3> DEFINE r == [q EXCEPT !.todo = @ \ {k}, !.fp = k, !.pc = "seal"]
      <3>1. r \in Goroutines /\ ShapeOf(r) /\ Follows(r, q)
        BY <1>a, <1>3, <2>1 DEF ImportKey, Turn, ShapeOf, Bringers, Follows, About, NoTask
      <3>2. Becomes(t, r)
        BY <1>3, <2>1 DEF ImportKey
      <3> HIDE DEF r
      <3> QED BY <3>1, <3>2 DEF Advances
    <2>2. CASE q.op = "public"
      <3> DEFINE r == [q EXCEPT !.todo = @ \ {k}, !.fp = k, !.pc = "row"]
      <3>1. r \in Goroutines /\ ShapeOf(r) /\ Follows(r, q)
        BY <1>a, <1>3, <2>2 DEF ImportKey, Turn, ShapeOf, Bringers, Follows, About, NoTask
      <3>2. Becomes(t, r)
        BY <1>3, <2>2 DEF ImportKey
      <3> HIDE DEF r
      <3> QED BY <3>1, <3>2 DEF Advances
    <2> QED BY <1>3, <2>1, <2>2 DEF ImportKey
  <1>4. ASSUME LookupFails(t), ~Ends(t) PROVE Advances(t)
    <2> DEFINE r == [q EXCEPT !.fp = None, !.pc = "next", !.miss = TRUE]
    <2>0. q.op \in Bringers
      BY <1>a, <1>4 DEF LookupFails, ShapeOf, Bringers, NoTask
    <2>1. r \in Goroutines /\ ShapeOf(r) /\ Follows(r, q)
      BY <1>a, <1>b, <2>0 DEF ShapeOf, Bringers, Follows, About
    <2>2. Becomes(t, r)
      BY <1>4 DEF LookupFails, Ends
    <2> HIDE DEF r
    <2> QED BY <2>1, <2>2 DEF Advances
  <1>5. ASSUME LookupFinds(t) \/ SealKey(t) PROVE Advances(t)
    <2> DEFINE r == [q EXCEPT !.pc = "row"]
    <2>a. q.pc \in {"look", "seal"}
      BY <1>5 DEF LookupFinds, SealKey
    <2>0. q.op \in Bringers \cup {"private"} /\ q.pc # "next"
      BY <1>a, <2>a DEF ShapeOf, Bringers, NoTask
    <2>1. r \in Goroutines /\ ShapeOf(r) /\ Follows(r, q)
      BY <1>a, <1>b, <2>0 DEF ShapeOf, Bringers, Follows, About
    <2>2. Becomes(t, r)
      BY <1>5 DEF LookupFinds, SealKey, Move
    <2> HIDE DEF r
    <2> QED BY <2>1, <2>2 DEF Advances
  <1>6. ASSUME SealKeyFails(t) \/ StoreKeyRow(t) \/ StoreKeyRowFails(t) PROVE Advances(t)
    <2> DEFINE r == [q EXCEPT !.fp = None, !.pc = "next"]
    <2>0. q.op \in Bringers \cup {"private"}
      BY <1>a, <1>6 DEF SealKeyFails, StoreKeyRow, StoreKeyRowFails, ShapeOf, Bringers, NoTask
    <2>1. r \in Goroutines /\ ShapeOf(r) /\ Follows(r, q)
      BY <1>a, <1>b, <2>0 DEF ShapeOf, Bringers, Follows, About
    <2>2. Becomes(t, r)
      BY <1>6 DEF SealKeyFails, StoreKeyRow, StoreKeyRowFails, NextKey
    <2> HIDE DEF r
    <2> QED BY <2>1, <2>2 DEF Advances
  <1>7. ASSUME DeleteRow(t) PROVE Advances(t)
    <2> DEFINE r == [q EXCEPT !.pc = "vault"]
    <2>1. r \in Goroutines /\ ShapeOf(r) /\ Follows(r, q)
      BY <1>a, <1>7 DEF DeleteRow, ShapeOf, Bringers, Follows, About, NoTask
    <2>2. Becomes(t, r)
      BY <1>7 DEF DeleteRow, Move
    <2> HIDE DEF r
    <2> QED BY <2>1, <2>2 DEF Advances
  <1> QED BY <1>1, <1>2, <1>3, <1>4, <1>5, <1>6, <1>7

(***************************************************************************)
(* What starts a goroutine on keys, as Brings or DeletePGPKey.             *)
(***************************************************************************)
BringsKeys ==
    \E op \in {"private"} \cup Bringers, S \in SUBSET Fps :
        (op = "private" => S = {Me}) /\ Brings(op, S)

LEMMA KeyStarts ==
    ASSUME importPrivateKey \/ ImportPGPKey \/ SyncPGPFromDirectory \/ DiscoverPGPKey \/ DiscoverContactKeysWKD
           \/ (fetchMissingKeys /\ MissingKeys # {})
    PROVE  BringsKeys
  <1> USE DEF Bringers, Fps
  <1>1. CASE importPrivateKey \/ ImportPGPKey
    BY <1>1 DEF importPrivateKey, ImportPGPKey, BringsKeys
  <1>2. CASE SyncPGPFromDirectory
    BY <1>2 DEF SyncPGPFromDirectory, DirectoryAnswers, BringsKeys
  <1>3. CASE DiscoverPGPKey \/ DiscoverContactKeysWKD
    BY <1>3 DEF DiscoverPGPKey, DiscoverContactKeysWKD, BringsKeys
  <1>4. CASE fetchMissingKeys /\ MissingKeys # {}
    BY <1>4 DEF fetchMissingKeys, MissingKeys, BringsKeys
  <1> QED BY <1>1, <1>2, <1>3, <1>4

LEMMA BringsStarts == BringsKeys => \E r \in Goroutines : Starts(r)
  <1> SUFFICES ASSUME NEW op \in {"private"} \cup Bringers, NEW S \in SUBSET Fps,
                      op = "private" => S = {Me}, Brings(op, S)
               PROVE  \E r \in Goroutines : Starts(r)
    BY DEF BringsKeys
  <1> DEFINE r == [NoTask EXCEPT !.op = op, !.pc = "next", !.todo = S]
  <1>1. r \in Goroutines /\ ShapeOf(r) /\ r.op = op
    BY BringerType
  <1>2. SpawnOnKeys(r)
    BY DEF Brings
  <1> HIDE DEF r
  <1> QED BY <1>1, <1>2 DEF Starts, Bringers

LEMMA EngineBrings == ASSUME EngineStep PROVE BringsKeys \/ UNCHANGED <<keyVars, task>>
  BY KeyStarts DEF EngineStep, SealCredential, OpenCopy, FetchPrivateKey, SealCopy

LEMMA RemoveStarts ==
    ASSUME ReadOK, NEW k \in pgpRows, DeletePGPKey(k) PROVE \E r \in Goroutines : Starts(r)
  <1>1. k \in Fps
    BY DEF pgpRows, ReadOK, Views
  <1> DEFINE r == [NoTask EXCEPT !.op = "delete", !.pc = "row", !.fp = k]
  <1>2. r \in Goroutines /\ ShapeOf(r) /\ r.op = "delete"
    BY <1>1, DeleterType
  <1>3. SpawnOnKeys(r)
    BY DEF DeletePGPKey
  <1> HIDE DEF r
  <1> QED BY <1>2, <1>3 DEF Starts

LEMMA SendStarts ==
    ASSUME SendOK, Send
    PROVE  \E r \in Goroutines : StartsSend(r) /\ r.d = comp.d /\ r.d \in Drafts /\ (r.enc <=> comp.enc \/ HasKeyFor(Pal))
  <1> DEFINE e == Encrypts
             r == Sender(comp.d, e, comp.sign)
  <1>1. comp.d \in Drafts /\ comp.enc \in BOOLEAN /\ comp.sign \in BOOLEAN
    BY DEF Send, SendOK
  <1>2. e \in BOOLEAN
    BY <1>1, Zenon DEF Encrypts
  <1>a. e <=> comp.enc \/ HasKeyFor(Pal)
    BY Zenon DEF Encrypts
  <1>3. Spawn(r)
    BY DEF Send, Sender
  <1> HIDE DEF e
  <1>4. /\ r \in Goroutines /\ ShapeOf(r) /\ r.op = "send" /\ ~r.clean
        /\ r.d = comp.d /\ r.enc = e
    BY <1>1, <1>2, SenderType
  <1> HIDE DEF r
  <1>5. r.enc <=> comp.enc \/ HasKeyFor(Pal)
    BY <1>4, <1>a, Zenon
  <1> QED BY <1>1, <1>3, <1>4, <1>5 DEF StartsSend

LEMMA TaskEffects ==
    ASSUME TaskOK, Shapes, ReadOK, SendOK, [Next]_vars PROVE TaskEffect
  <1>1. CASE Start
    <2>1. CASE BringsKeys
      BY <2>1, BringsStarts DEF TaskEffect
    <2>2. ASSUME NEW k \in pgpRows, DeletePGPKey(k) PROVE TaskEffect
      BY <2>2, RemoveStarts DEF TaskEffect
    <2>3. CASE Send
      BY <2>3, SendStarts DEF TaskEffect
    <2>4. CASE ToggleEncrypt
      BY <2>1, <2>4, KeyStarts DEF ToggleEncrypt, fetchMissingKeys, TaskEffect
    <2>5. CASE UNCHANGED task
      BY <2>5 DEF TaskEffect
    <2> QED BY <1>1, <2>1, <2>2, <2>3, <2>4, <2>5, KeyStarts
        DEF Start, ComposeStep, ReadStep, NewDraft, Back, ToggleSign
  <1>2. CASE FrameStep \/ LoopStep \/ LoopTrouble \/ UNCHANGED vars \/ LoadStep
    BY <1>2 DEF FrameStep, LoopStep, LoopTrouble, vars, LoadStep, FoldKeyResult, Land, TaskEffect
  <1>6. CASE EngineStep
    <2>1. CASE BringsKeys
      BY <2>1, BringsStarts DEF TaskEffect
    <2>2. CASE UNCHANGED task
      BY <2>2 DEF TaskEffect
    <2> QED BY <1>6, <2>1, <2>2, EngineBrings
  <1>3. CASE Death
    BY <1>3 DEF Death, TaskEffect
  <1>4. ASSUME NEW t \in Tasks, TaskStep(t) PROVE TaskEffect
    <2>1. CASE Advances(t) \/ Ends(t)
      BY <2>1 DEF TaskEffect
    <2> QED BY <1>4, <2>1, KeyTaskSteps
        DEF TaskStep, DeleteRowFails, DeleteSealed, DeleteSealedFails, Build, EnqueueFails, Finish
  <1>5. ASSUME NEW t \in Threads, VaultStep(t) PROVE TaskEffect
    BY <1>5 DEF VaultStep, TaskEffect
  <1> QED BY <1>1, <1>2, <1>3, <1>4, <1>5, <1>6 DEF Next, LoaderStep

(***************************************************************************)
(* What a start changes: the slot it takes was free, and a goroutine it    *)
(* clashes with is clean no more.                                          *)
(***************************************************************************)
LEMMA SpawnTakes ==
    ASSUME TaskOK, NEW r \in Goroutines, SpawnOnKeys(r)
    PROVE  \E f \in Tasks :
             /\ task[f].op = "none"
             /\ task'[f] = [r EXCEPT !.clean = \A t \in Tasks : ~Clash(r, task[t])]
             /\ \A u \in Tasks : u # f =>
                  task'[u] = IF Clash(r, task[u]) THEN [task[u] EXCEPT !.clean = FALSE] ELSE task[u]
  <1> DEFINE f == CHOOSE t \in FreeTasks : TRUE
  <1>1. f \in FreeTasks
    BY DEF SpawnOnKeys
  <1>2. f \in Tasks /\ task[f].op = "none"
    BY <1>1 DEF FreeTasks
  <1>3. \A u \in Tasks :
          task'[u] = CASE u = f -> [r EXCEPT !.clean = \A t \in Tasks : ~Clash(r, task[t])]
                       [] u # f /\ Clash(r, task[u]) -> [task[u] EXCEPT !.clean = FALSE]
                       [] OTHER -> task[u]
    BY DEF SpawnOnKeys
  <1> HIDE DEF f
  <1>4. task'[f] = [r EXCEPT !.clean = \A t \in Tasks : ~Clash(r, task[t])]
    BY <1>2, <1>3
  <1>5. ASSUME NEW u \in Tasks, u # f
        PROVE  task'[u] = IF Clash(r, task[u]) THEN [task[u] EXCEPT !.clean = FALSE] ELSE task[u]
    BY <1>3, <1>5
  <1> QED BY <1>2, <1>4, <1>5

LEMMA SendTakes ==
    ASSUME TaskOK, NEW r \in Goroutines, Spawn(r)
    PROVE  \E f \in Tasks : task[f].op = "none" /\ Becomes(f, r)
  <1>1. (CHOOSE t \in FreeTasks : TRUE) \in FreeTasks
    BY DEF Spawn
  <1> QED BY <1>1 DEF Spawn, FreeTasks

LEMMA BecomesIs ==
    ASSUME TaskOK, NEW t \in Tasks, NEW r, Becomes(t, r)
    PROVE  task'[t] = r /\ \A u \in Tasks : u # t => task'[u] = task[u]
  BY DEF TaskOK, Becomes

(***************************************************************************)
(* A clash is between what two goroutines are about, whichever is named    *)
(* first, and a goroutine that is about less clashes with less.            *)
(***************************************************************************)
LEMMA ClashIs ==
    \A r, q : Clash(r, q) <=> /\ ~(r.op = "delete" <=> q.op = "delete")
                              /\ About(r) \cap About(q) # {}
  BY DEF Clash, About

LEMMA ClashLess ==
    ASSUME NEW r, NEW q, NEW x, r.op = q.op, About(r) \subseteq About(q)
    PROVE  (Clash(r, x) => Clash(q, x)) /\ (Clash(x, r) => Clash(x, q))
  BY ClashIs

LEMMA TaskKeeps ==
    ASSUME TaskOK, Shapes, TaskEffect PROVE TaskOK' /\ Shapes'
  <1>1. CASE UNCHANGED task
    BY <1>1 DEF TaskOK, Shapes
  <1>2. ASSUME NEW t \in Tasks, NEW r \in Goroutines, Becomes(t, r), ShapeOf(r) PROVE TaskOK' /\ Shapes'
    <2>1. TaskOK'
      BY <1>2 DEF TaskOK, Becomes
    <2> QED BY <1>2, <2>1, BecomesIs DEF Shapes
  <1>3. ASSUME NEW t \in Tasks, Advances(t) \/ Ends(t) PROVE TaskOK' /\ Shapes'
    BY <1>2, <1>3, NoTaskType DEF Advances, Ends
  <1>4. ASSUME NEW r \in Goroutines, Starts(r) PROVE TaskOK' /\ Shapes'
    <2>1. SpawnOnKeys(r) /\ ShapeOf(r) /\ r.op \notin {"none", "send"}
      BY <1>4 DEF Starts
    <2> DEFINE alone == \A t \in Tasks : ~Clash(r, task[t])
    <2>2. PICK f \in Tasks :
             /\ task[f].op = "none"
             /\ task'[f] = [r EXCEPT !.clean = alone]
             /\ \A u \in Tasks : u # f =>
                  task'[u] = IF Clash(r, task[u]) THEN [task[u] EXCEPT !.clean = FALSE] ELSE task[u]
      BY <2>1, SpawnTakes
    <2>3. alone \in BOOLEAN
      OBVIOUS
    <2> HIDE DEF alone
    <2>4. task'[f] \in Goroutines /\ ShapeOf(task'[f])
      BY <2>1, <2>2, <2>3 DEF Goroutines, ShapeOf, Bringers, Ops
    <2>5. ASSUME NEW u \in Tasks, u # f PROVE task'[u] \in Goroutines /\ ShapeOf(task'[u])
      <3>1. task[u] \in Goroutines /\ ShapeOf(task[u])
        BY DEF TaskOK, Shapes
      <3>2. task'[u] = task[u] \/ (task'[u] = [task[u] EXCEPT !.clean = FALSE] /\ Clash(r, task[u]))
        BY <2>2, <2>5
      <3>3. CASE Clash(r, task[u]) /\ task'[u] = [task[u] EXCEPT !.clean = FALSE]
        <4>1. task[u].op # "none"
          BY <3>1, <3>3, ClashIs, NoTaskType DEF ShapeOf
        <4> QED BY <3>1, <3>3, <4>1 DEF Goroutines, ShapeOf, Bringers, Ops
      <3> QED BY <3>1, <3>2, <3>3
    <2>6. task' = [u \in Tasks |-> task'[u]]
      BY <2>1 DEF SpawnOnKeys
    <2> QED BY <2>4, <2>5, <2>6 DEF TaskOK, Shapes
  <1>5. ASSUME NEW r \in Goroutines, StartsSend(r) PROVE TaskOK' /\ Shapes'
    BY <1>2, <1>5, SendTakes DEF StartsSend
  <1>6. CASE task' = [t \in Tasks |-> NoTask]
    BY <1>6, NoTaskType DEF TaskOK, Shapes
  <1> QED BY <1>1, <1>3, <1>4, <1>5, <1>6 DEF TaskEffect

LEMMA CleanKeeps ==
    ASSUME TaskOK, Shapes, CleanAlone, TaskEffect PROVE CleanAlone'
  <1>1. CASE UNCHANGED task
    BY <1>1 DEF CleanAlone
  <1>2. ASSUME NEW t \in Tasks, NEW r, Becomes(t, r),
               \/ About(r) = {} \/ Follows(r, task[t])
        PROVE  CleanAlone'
    <2>1. task'[t] = r /\ \A u \in Tasks : u # t => task'[u] = task[u]
      BY <1>2, BecomesIs
    <2>2. CASE About(r) = {}
      BY <2>1, <2>2, ClashIs DEF CleanAlone
    <2>3. CASE Follows(r, task[t])
      <3>1. r.op = task[t].op /\ r.clean = task[t].clean /\ About(r) \subseteq About(task[t])
        BY <2>3 DEF Follows
      <3>2. ~Clash(r, r)
        BY ClashIs
      <3>3. \A x : (Clash(r, x) => Clash(task[t], x)) /\ (Clash(x, r) => Clash(x, task[t]))
        BY <3>1, ClashLess
      <3>4. \A u \in Tasks : /\ task[u].clean => ~Clash(task[u], task[t])
                             /\ task[t].clean => ~Clash(task[t], task[u])
        BY DEF CleanAlone
      <3>5. \A u, v \in Tasks : u # t /\ v # t => (task'[u].clean => ~Clash(task'[u], task'[v]))
        BY <2>1 DEF CleanAlone
      <3>6. \A u \in Tasks : u # t => (task'[u].clean => ~Clash(task'[u], task'[t]))
        BY <2>1, <3>3, <3>4
      <3>7. \A u \in Tasks : u # t => (task'[t].clean => ~Clash(task'[t], task'[u]))
        BY <2>1, <3>1, <3>3, <3>4
      <3> QED BY <2>1, <3>2, <3>5, <3>6, <3>7 DEF CleanAlone
    <2> QED BY <1>2, <2>2, <2>3
  <1>3. ASSUME NEW t \in Tasks, Advances(t) \/ Ends(t) PROVE CleanAlone'
    BY <1>2, <1>3, NoTaskType DEF Advances, Ends
  <1>4. ASSUME NEW r \in Goroutines, Starts(r) PROVE CleanAlone'
    <2> DEFINE alone == \A t \in Tasks : ~Clash(r, task[t])
    <2>1. PICK f \in Tasks :
             /\ task[f].op = "none"
             /\ task'[f] = [r EXCEPT !.clean = alone]
             /\ \A u \in Tasks : u # f =>
                  task'[u] = IF Clash(r, task[u]) THEN [task[u] EXCEPT !.clean = FALSE] ELSE task[u]
      BY <1>4, SpawnTakes DEF Starts
    <2>2. /\ task'[f].clean = alone /\ task'[f].op = r.op /\ About(task'[f]) = About(r)
      BY <2>1 DEF Goroutines, About
    <2>3. ASSUME NEW u \in Tasks, u # f
          PROVE  /\ task'[u].op = task[u].op /\ About(task'[u]) = About(task[u])
                 /\ task'[u].clean => task[u].clean /\ ~Clash(r, task[u])
      <3>1. task[u] \in Goroutines
        BY DEF TaskOK
      <3>2. CASE Clash(r, task[u])
        <4>1. task'[u] = [task[u] EXCEPT !.clean = FALSE]
          BY <2>1, <2>3, <3>2
        <4> QED BY <3>1, <4>1 DEF Goroutines, About
      <3>3. CASE ~Clash(r, task[u])
        BY <2>1, <2>3, <3>3
      <3> QED BY <3>2, <3>3
    <2>4. \A u, v \in Tasks : u # f /\ v # f => (task'[u].clean => ~Clash(task'[u], task'[v]))
      BY <2>3, ClashIs DEF CleanAlone
    <2>5. \A u \in Tasks : u # f => (task'[u].clean => ~Clash(task'[u], task'[f]))
      BY <2>2, <2>3, ClashIs
    <2>6. \A u \in Tasks : u # f => (task'[f].clean => ~Clash(task'[f], task'[u]))
      BY <2>2, <2>3, ClashIs
    <2>7. ~Clash(task'[f], task'[f])
      BY ClashIs
    <2> QED BY <2>4, <2>5, <2>6, <2>7 DEF CleanAlone
  <1>5. ASSUME NEW r \in Goroutines, StartsSend(r) PROVE CleanAlone'
    <2>1. About(r) = {}
      BY <1>5, KeysAssumption DEF StartsSend, ShapeOf, About
    <2> QED BY <1>2, <1>5, <2>1, SendTakes DEF StartsSend
  <1>6. CASE task' = [t \in Tasks |-> NoTask]
    BY <1>6, NoTaskType, ClashIs DEF CleanAlone
  <1> QED BY <1>1, <1>3, <1>4, <1>5, <1>6 DEF TaskEffect

-----------------------------------------------------------------------------
(***************************************************************************)
(* The types of the ring, the loader, the snapshot and the composer.       *)
(***************************************************************************)
JobOK == job \in {"none", "cred", "open", "fetch", "seal"}

RestOK == RingOK /\ PlanOK /\ ld \in Loaders /\ ReadOK /\ SendOK /\ JobOK

LEMMA FrameType ==
    ASSUME RestOK
    PROVE  /\ UNCHANGED keyVars => RingOK'
           /\ UNCHANGED <<refresh, left>> => PlanOK'
           /\ UNCHANGED ld => (ld \in Loaders)'
           /\ UNCHANGED readVars => ReadOK'
           /\ UNCHANGED sendVars => SendOK'
           /\ UNCHANGED job => JobOK'
           /\ \A a \in Acts : Spend(a) /\ refresh' \in BOOLEAN => PlanOK'
           /\ UNCHANGED left /\ refresh' \in BOOLEAN => PlanOK'
  <1> USE DEF RestOK
  <1>1. UNCHANGED keyVars => RingOK'
    BY DEF RingOK, keyVars, marks
  <1>2. UNCHANGED readVars => ReadOK'
    BY DEF ReadOK, readVars, searchVars
  <1>3. UNCHANGED sendVars => SendOK'
    BY DEF SendOK, sendVars
  <1>4. ASSUME NEW a \in Acts, Spend(a) PROVE left' \in [Acts -> Nat]
    BY <1>4 DEF Spend, Has, PlanOK
  <1> QED BY <1>1, <1>2, <1>3, <1>4 DEF PlanOK, JobOK

LEMMA ImportedType ==
    ASSUME ring \in [Fps -> RingKinds], NEW k \in Fps, NEW p \in BOOLEAN
    PROVE  Imported(k, p) \in [Fps -> RingKinds]
  <1> DEFINE v == CASE ring[k] = "none" /\ p -> "priv"
                    [] ring[k] = "none" /\ ~p -> "pub"
                    [] ring[k] = "pub" /\ p -> "pubpriv"
                    [] OTHER -> ring[k]
  <1>1. v \in RingKinds
    BY DEF RingKinds
  <1>2. Imported(k, p) = [ring EXCEPT ![k] = v]
    BY DEF Imported
  <1> HIDE DEF v
  <1> QED BY <1>1, <1>2

LEMMA NoRowsType == NoRows \in [Fps -> RowKinds] /\ NoRows \in [Fps -> RingKinds]
  BY DEF NoRows, RowKinds, RingKinds

LEMMA NoViewType == NoView \in Views /\ NoView.keys = {}
  BY DEF NoView, Views, Bodies, Texts

LEMMA LoadingType ==
    ASSUME NEW list \in [Fps -> RowKinds]
    PROVE  /\ Loading(list) \in Loaders /\ Loading(list).pc = "boot" /\ Loading(list).fp = None
           /\ Loading(list).list = list /\ Loading(list).todo = {k \in Fps : list[k] # "none"}
  <1>1. "" \in Texts
    BY DEF Texts
  <1> QED BY <1>1, NoViewType DEF Loading, Loaders

LEMMA IdlingType ==
    /\ Idling \in Loaders /\ Idling.pc = "idle" /\ Idling.todo = {} /\ Idling.fp = None
    /\ Idling.list = NoRows
  <1>1. Loading(NoRows) \in Loaders /\ Loading(NoRows).fp = None /\ Loading(NoRows).list = NoRows
        /\ Loading(NoRows).todo = {k \in Fps : NoRows[k] # "none"}
    BY NoRowsType, LoadingType
  <1>2. Loading(NoRows).todo = {}
    BY <1>1 DEF NoRows
  <1> HIDE DEF Loading
  <1> QED BY <1>1, <1>2 DEF Idling, Loaders

LEMMA ShownType == Shown \in Bodies
  BY DEF Shown, Bodies

(***************************************************************************)
(* The loader loads the keys.                                              *)
(***************************************************************************)
LEMMA LoadType ==
    ASSUME TypeOK, LoaderInv, LoadStep PROVE RestOK'
  <1>a. RestOK /\ ld \in Loaders /\ RingOK /\ PlanOK
    BY DEF TypeOK, RestOK, JobOK
  <1>b. UNCHANGED <<task, refresh, readVars, sendVars, job>>
    BY DEF LoadStep
  <1>c. ReadOK' /\ SendOK' /\ JobOK'
    BY <1>a, <1>b, FrameType
  <1>d. left' = left \/ Spend("trouble") => PlanOK'
    <2>1. "trouble" \in Acts /\ refresh' \in BOOLEAN
      BY <1>a, <1>b DEF Acts, PlanOK
    <2> QED BY <1>a, <2>1, FrameType
  <1>e. /\ ring \in [Fps -> RingKinds] /\ rows \in [Fps -> RowKinds] /\ kept \in BOOLEAN /\ wiped \subseteq Fps
        /\ volatile \in BOOLEAN /\ residue \subseteq Fps
    BY <1>a DEF RingOK
  <1>f. ASSUME rows' \in [Fps -> RowKinds], UNCHANGED <<kept, wiped, residue>>, volatile' \in BOOLEAN,
               ring' = ring \/ \E k \in Fps, p \in BOOLEAN : ring' = Imported(k, p)
        PROVE  RingOK'
    BY <1>e, <1>f, ImportedType DEF RingOK
  <1>g. ASSUME NEW k \in Fps PROVE Next1(k) \in Loaders
    BY <1>a DEF Next1, Loaders
  <1>h. ASSUME NEW k \in Fps, NEW p \in {"open", "migrate"}, Waits(p, k) PROVE ld' \in Loaders
    BY <1>a, <1>h DEF Waits, Loaders
  <1>m. Me \in Fps /\ (ld.pc \in {"open", "migrate", "blank"} => ld.fp = Me)
    BY DEF Fps, LoaderInv
  <1>1. ASSUME NEW k \in Fps, LoadKey(k) PROVE RestOK'
    <2>1. ld' \in Loaders
      BY <1>1, <1>g, <1>h DEF LoadKey
    <2>2. RingOK'
      BY <1>1, <1>e, <1>f DEF LoadKey, marks
    <2> QED BY <1>1, <1>c, <1>d, <2>1, <2>2 DEF LoadKey, RestOK
  <1>2. CASE OpenKey
    <2>1. ld' \in Loaders
      BY <1>2, <1>g, <1>h, <1>m DEF OpenKey
    <2>2. RingOK'
      BY <1>2, <1>e, <1>f, <1>m DEF OpenKey, marks
    <2> QED BY <1>2, <1>c, <1>d, <2>1, <2>2 DEF OpenKey, RestOK
  <1>3. CASE MigrateFails
    <2>1. ld' \in Loaders
      BY <1>3, <1>g, <1>m DEF MigrateFails
    <2>2. RingOK'
      BY <1>3, <1>e, <1>f, <1>m DEF MigrateFails, marks
    <2> QED BY <1>3, <1>c, <1>d, <2>1, <2>2 DEF MigrateFails, RestOK
  <1>4. CASE MigrateSeals
    <2>1. [ld EXCEPT !.pc = "blank"] \in Loaders
      BY <1>a DEF Loaders
    <2>2. ld' \in Loaders
      BY <1>4, <1>g, <1>m, <2>1 DEF MigrateSeals
    <2>v. volatile' \in BOOLEAN
      BY <1>4, <1>e, Zenon DEF MigrateSeals, Keeps
    <2>3. RingOK'
      BY <1>4, <1>e, <1>f, <1>m, <2>v DEF MigrateSeals
    <2> QED BY <1>4, <1>c, <1>d, <2>2, <2>3 DEF MigrateSeals, RestOK
  <1>5. CASE BlankRow
    <2>1. ld' \in Loaders
      BY <1>5, <1>g, <1>m DEF BlankRow
    <2>2. rows' \in [Fps -> RowKinds]
      BY <1>5, <1>e, <1>m DEF BlankRow, RowKinds
    <2>3. RingOK'
      BY <1>5, <1>e, <1>f, <1>m, <2>2 DEF BlankRow, marks
    <2> QED BY <1>5, <1>c, <1>d, <2>1, <2>3 DEF BlankRow, RestOK
  <1> QED BY <1>1, <1>2, <1>3, <1>4, <1>5 DEF LoadStep

(***************************************************************************)
(* The loader's loop.                                                      *)
(***************************************************************************)
LEMMA LoopType ==
    ASSUME TypeOK, LoopStep \/ LoopTrouble PROVE RestOK'
  <1>a. RestOK /\ ld \in Loaders /\ ReadOK /\ PlanOK
    BY DEF TypeOK, RestOK, JobOK
  <1>b. UNCHANGED keyVars /\ UNCHANGED <<open, query, clearing, timer, msg, signer, sendVars, job>>
    BY DEF LoopStep, LoopTrouble
  <1>c. RingOK' /\ SendOK' /\ JobOK'
    BY <1>a, <1>b, FrameType
  <1>d. ASSUME refresh' \in BOOLEAN, left' = left \/ Spend("trouble") PROVE PlanOK'
    BY <1>a, <1>d, FrameType DEF Acts
  <1>e. ASSUME view' \in Views, lost' \in BOOLEAN, searchQ' \in BOOLEAN, phase' \in {"idle", "inflight", "done"},
               ghost' \in BOOLEAN
        PROVE  ReadOK'
    BY <1>a, <1>b, <1>e DEF ReadOK
  <1>f. /\ view \in Views /\ lost \in BOOLEAN /\ searchQ \in BOOLEAN /\ phase \in {"idle", "inflight", "done"}
        /\ open \in BOOLEAN /\ query \in Texts /\ refresh \in BOOLEAN /\ ghost \in BOOLEAN
    BY <1>a DEF ReadOK, PlanOK
  <1>g. ASSUME NEW r \in Texts, NEW body \in Bodies PROVE Got(body, r) \in Loaders
    <2> DEFINE b == IF ld.open THEN body ELSE "none"
               ks == {k \in Fps : rows[k] # "none"}
               g == [body |-> b, results |-> r, keys |-> ks]
    <2>1. b \in Bodies /\ ks \in SUBSET Fps
      BY DEF Bodies
    <2> HIDE DEF b, ks
    <2>2. g \in Views
      BY <2>1 DEF Views
    <2>3. Got(body, r) = [ld EXCEPT !.pc = "commit", !.got = g]
      BY DEF Got, b, ks
    <2> HIDE DEF g
    <2> QED BY <1>a, <2>2, <2>3 DEF Loaders
  <1>h. ld.query \in Texts /\ "" \in Texts /\ Shown \in Bodies /\ "none" \in Bodies
    BY <1>a, ShownType DEF Loaders, Texts, Bodies
  <1>1. CASE Reload
    <2>1. ld' \in Loaders
      BY <1>1, <1>f, IdlingType DEF Reload, Loaders
    <2> QED BY <1>1, <1>c, <1>d, <1>e, <1>f, <2>1 DEF Reload, RestOK
  <1>2. CASE ReloadReads
    <2>3. ld' \in Loaders
      BY <1>2, <1>g, <1>h DEF ReloadReads
    <2>4. PlanOK'
      BY <1>2, <1>d, <1>f DEF ReloadReads
    <2>5. ReadOK'
      BY <1>2, <1>e, <1>f DEF ReloadReads
    <2> QED BY <1>c, <2>3, <2>4, <2>5 DEF RestOK
  <1>3. CASE ReloadFails
    BY <1>3, <1>c, <1>d, <1>e, <1>f, IdlingType DEF ReloadFails, RestOK
  <1>7. CASE ThreadFails
    <2>1. ld' \in Loaders
      BY <1>7, <1>g, <1>h DEF ThreadFails
    <2> QED BY <1>7, <1>c, <1>d, <1>e, <1>f, <2>1 DEF ThreadFails, RestOK
  <1>4. CASE Commit
    <2>1. ld.got \in Views
      BY <1>a DEF Loaders
    <2>2. ghost' \in BOOLEAN
      BY <1>4, Zenon DEF Commit
    <2> QED BY <1>4, <1>c, <1>d, <1>e, <1>f, <2>1, <2>2, IdlingType DEF Commit, RestOK
  <1>5. CASE ReloadSearch
    <2>1. ld' \in Loaders
      BY <1>5, <1>f, IdlingType DEF ReloadSearch, Loaders
    <2> QED BY <1>5, <1>c, <1>d, <1>e, <1>f, <2>1 DEF ReloadSearch, RestOK
  <1>6. CASE PatchSearch
    <2>1. Patched \in Views
      BY <1>a, <1>f DEF Patched, Views, Loaders
    <2>2. ghost' \in BOOLEAN
      BY <1>6, Zenon DEF PatchSearch
    <2> QED BY <1>6, <1>c, <1>d, <1>e, <1>f, <2>1, <2>2, IdlingType DEF PatchSearch, RestOK
  <1> QED BY <1>1, <1>2, <1>3, <1>4, <1>5, <1>6, <1>7 DEF LoopStep, LoopTrouble

(***************************************************************************)
(* The user reads and searches.                                            *)
(***************************************************************************)
LEMMA ReadType ==
    ASSUME TypeOK, ReadStep PROVE RestOK'
  <1>a. RestOK /\ ReadOK /\ PlanOK
    BY DEF TypeOK, RestOK, JobOK
  <1>b. UNCHANGED keyVars /\ UNCHANGED <<ld, signer, sendVars, job>>
    BY DEF ReadStep
  <1>c. RingOK' /\ SendOK' /\ (ld \in Loaders)' /\ JobOK'
    BY <1>a, <1>b, FrameType
  <1>d. refresh \in BOOLEAN /\ {"thread", "search"} \subseteq Acts
    BY <1>a DEF PlanOK, Acts
  <1>1. CASE OpenThread
    <2>1. PlanOK'
      BY <1>1, <1>a, <1>d, FrameType DEF OpenThread
    <2>2. ReadOK'
      BY <1>1, <1>a, <1>b DEF OpenThread, ReadOK, searchVars
    <2> QED BY <1>c, <2>1, <2>2 DEF RestOK
  <1>2. ASSUME NEW q \in Texts, SetSearch(q) PROVE RestOK'
    <2>1. PlanOK'
      BY <1>2, <1>a, <1>d, FrameType DEF SetSearch
    <2>2. timer' \in BOOLEAN /\ clearing' \in BOOLEAN
      BY <1>2, Zenon DEF SetSearch
    <2>3. ReadOK'
      BY <1>2, <1>a, <1>b, <2>2 DEF SetSearch, ReadOK
    <2> QED BY <1>c, <2>1, <2>3 DEF RestOK
  <1>4. CASE ClearResults
    <2>1. PlanOK'
      BY <1>4, <1>a, <1>d, FrameType DEF ClearResults
    <2>2. view' \in Views
      <3>1. view \in Views /\ "" \in Texts
        BY <1>a DEF ReadOK, Texts
      <3> QED BY <1>4, <3>1 DEF ClearResults, Views
    <2>3. ghost' \in BOOLEAN
      BY <1>4, Zenon DEF ClearResults
    <2>4. ReadOK'
      BY <1>4, <1>a, <1>b, <2>2, <2>3 DEF ClearResults, ReadOK
    <2> QED BY <1>c, <2>1, <2>4 DEF RestOK
  <1>3. CASE SearchDebounce \/ Refetched
    <2>1. PlanOK'
      BY <1>3, <1>a, <1>d, FrameType DEF SearchDebounce, Refetched
    <2>2. ReadOK'
      BY <1>3, <1>a, <1>b DEF SearchDebounce, Refetched, ReadOK, searchVars
    <2> QED BY <1>c, <2>1, <2>2 DEF RestOK
  <1> QED BY <1>1, <1>2, <1>3, <1>4 DEF ReadStep

(***************************************************************************)
(* Goroutines on keys start.                                               *)
(***************************************************************************)
LEMMA BringsType ==
    ASSUME RingOK, BringsKeys
    PROVE  RingOK' /\ wiped' \subseteq wiped /\ UNCHANGED <<rows, ring, kept, volatile, residue>>
  <1>1. wiped' \subseteq wiped /\ UNCHANGED <<rows, ring, kept, volatile, residue>>
    BY DEF BringsKeys, Brings, marks
  <1> QED BY <1>1 DEF RingOK

LEMMA MissingBrings ==
    ASSUME fetchMissingKeys PROVE BringsKeys \/ UNCHANGED <<task, keyVars>>
  BY KeyStarts DEF fetchMissingKeys

(***************************************************************************)
(* The composer, drawn and operated.                                       *)
(***************************************************************************)
LEMMA ComposeType ==
    ASSUME TypeOK, ComposeStep \/ FrameStep PROVE RestOK'
  <1>a. RestOK /\ SendOK /\ PlanOK /\ RingOK
    BY DEF TypeOK, RestOK, JobOK
  <1>b. UNCHANGED <<ld, readVars, gone, job>>
    BY DEF ComposeStep, FrameStep
  <1>c. (ld \in Loaders)' /\ ReadOK' /\ JobOK'
    BY <1>a, <1>b, FrameType
  <1>d. RingOK'
    <2>1. CASE ToggleEncrypt
      BY <2>1, <1>a, FrameType, MissingBrings, BringsType DEF ToggleEncrypt
    <2>2. CASE UNCHANGED keyVars
      BY <2>2, <1>a, FrameType
    <2> QED BY <2>1, <2>2 DEF ComposeStep, FrameStep
  <1>e. /\ comp \in [d : Drafts \cup {0}, enc : BOOLEAN, sign : BOOLEAN]
        /\ keyRes \in {"none", "ok", "missing"} /\ flying \in BOOLEAN
        /\ outbox \in [Drafts -> {"none", "clear", "signed", "cipher"}]
        /\ promise \in [Drafts -> {"none", "open", "secret"}]
        /\ told \subseteq Nat /\ gone \subseteq Nat
    BY <1>a DEF SendOK
  <1>f. NoComp \in [d : Drafts \cup {0}, enc : BOOLEAN, sign : BOOLEAN]
    BY DEF NoComp
  <1>g. {"draft", "toggle"} \subseteq Acts /\ refresh \in BOOLEAN
    BY <1>a DEF Acts, PlanOK
  <1>1. CASE NewDraft
    <2>1. PlanOK'
      BY <1>1, <1>a, <1>g, FrameType DEF NewDraft
    <2>2. PICK d \in Drafts : comp' = [NoComp EXCEPT !.d = d]
      BY <1>1 DEF NewDraft
    <2>3. SendOK'
      BY <1>1, <1>b, <1>e, <1>f, <2>2 DEF NewDraft, SendOK
    <2> QED BY <1>c, <1>d, <2>1, <2>3 DEF RestOK
  <1>2. CASE Back \/ Land
    <2>1. PlanOK'
      BY <1>2, <1>a, <1>g, FrameType DEF Back, Land
    <2>2. SendOK'
      BY <1>2, <1>b, <1>e, <1>f DEF Back, Land, SendOK
    <2> QED BY <1>c, <1>d, <2>1, <2>2 DEF RestOK
  <1>3. CASE ToggleEncrypt \/ ToggleSign
    <2>1. PlanOK'
      BY <1>3, <1>a, <1>g, FrameType DEF ToggleEncrypt, ToggleSign
    <2>2. comp' \in [d : Drafts \cup {0}, enc : BOOLEAN, sign : BOOLEAN]
      BY <1>3, <1>e DEF ToggleEncrypt, ToggleSign
    <2>3. SendOK'
      BY <1>3, <1>b, <1>e, <2>2 DEF ToggleEncrypt, ToggleSign, SendOK
    <2> QED BY <1>c, <1>d, <2>1, <2>3 DEF RestOK
  <1>4. CASE FoldKeyResult
    <2>1. PlanOK'
      BY <1>4, <1>a, <1>g, FrameType DEF FoldKeyResult
    <2>2. SendOK'
      BY <1>4, <1>b, <1>e DEF FoldKeyResult, SendOK
    <2> QED BY <1>c, <1>d, <2>1, <2>2 DEF RestOK
  <1>5. CASE Send
    <2> DEFINE e == Encrypts
    <2>1. e \in BOOLEAN
      BY <1>e, Zenon DEF Encrypts
    <2>2. comp' = [comp EXCEPT !.enc = e]
      BY <1>5 DEF Send
    <2> HIDE DEF e
    <2>3. comp' \in [d : Drafts \cup {0}, enc : BOOLEAN, sign : BOOLEAN]
      BY <1>e, <2>1, <2>2
    <2>4. promise' \in [Drafts -> {"none", "open", "secret"}]
      BY <1>5, <1>e DEF Send
    <2>5. SendOK'
      BY <1>5, <1>b, <1>e, <2>3, <2>4 DEF Send, SendOK
    <2>6. PlanOK'
      BY <1>5, <1>a, <1>g, FrameType DEF Send
    <2> QED BY <1>c, <1>d, <2>5, <2>6 DEF RestOK
  <1> QED BY <1>1, <1>2, <1>3, <1>4, <1>5 DEF ComposeStep, FrameStep

(***************************************************************************)
(* A goroutine goes on.                                                    *)
(***************************************************************************)
LEMMA TaskRestType ==
    ASSUME TypeOK, Shapes, NEW t \in Tasks, TaskStep(t) PROVE RestOK'
  <1>a. RestOK /\ SendOK /\ PlanOK /\ RingOK /\ TaskOK
    BY DEF TypeOK, RestOK, JobOK
  <1>b. UNCHANGED <<ld, readVars, gone, job>>
    BY DEF TaskStep, sendVars
  <1>c. (ld \in Loaders)' /\ ReadOK' /\ JobOK'
    BY <1>a, <1>b, FrameType
  <1>d. task[t] \in Goroutines /\ ShapeOf(task[t])
    BY <1>a DEF TaskOK, Shapes
  <1>e. /\ ring \in [Fps -> RingKinds] /\ rows \in [Fps -> RowKinds] /\ kept \in BOOLEAN /\ wiped \subseteq Fps
        /\ refresh \in BOOLEAN /\ "trouble" \in Acts /\ volatile \in BOOLEAN /\ residue \subseteq Fps
    BY <1>a DEF RingOK, PlanOK, Acts
  <1>f. ASSUME refresh' \in BOOLEAN, left' = left \/ Spend("trouble") PROVE PlanOK'
    BY <1>a, <1>e, <1>f, FrameType
  <1>g. ASSUME RingOK', UNCHANGED <<refresh, sendVars>>, left' = left \/ Spend("trouble") PROVE RestOK'
    BY <1>a, <1>c, <1>e, <1>f, <1>g, FrameType DEF RestOK
  <1>h. UNCHANGED keyVars => RingOK'
    BY <1>a, FrameType
  <1>1. ASSUME NEW k \in Fps, Skip(t, k) \/ StartLookup(t, k), UNCHANGED <<refresh, sendVars>> PROVE RestOK'
    BY <1>1, <1>g, <1>h DEF Skip, StartLookup
  <1>2. ASSUME NEW k \in Fps, ImportKey(t, k), UNCHANGED <<refresh, sendVars>> PROVE RestOK'
    <2> DEFINE p == task[t].op = "private"
    <2>1. p \in BOOLEAN /\ ring' = Imported(k, p) /\ UNCHANGED <<rows, kept, wiped, volatile, residue, left>>
      BY <1>2 DEF ImportKey, marks
    <2> HIDE DEF p
    <2>2. RingOK'
      BY <1>e, <2>1, ImportedType DEF RingOK
    <2> QED BY <1>2, <1>g, <2>1, <2>2
  <1>3. ASSUME LookupFails(t) \/ SealKeyFails(t) \/ StoreKeyRowFails(t), UNCHANGED <<refresh, sendVars>>
        PROVE  RestOK'
    BY <1>3, <1>g, <1>h DEF LookupFails, SealKeyFails, StoreKeyRowFails
  <1>9. ASSUME SealKey(t), UNCHANGED <<refresh, sendVars>> PROVE RestOK'
    <2>1. volatile' \in BOOLEAN
      BY <1>9, Zenon DEF SealKey, Keeps
    <2>2. RingOK'
      BY <1>9, <1>e, <2>1 DEF SealKey, RingOK
    <2> QED BY <1>9, <1>g, <2>2 DEF SealKey
  <1>4. ASSUME LookupFinds(t), UNCHANGED <<refresh, sendVars>> PROVE RestOK'
    <2>1. task[t].fp \in Fps
      BY <1>4, <1>d DEF LookupFinds, ShapeOf, Bringers, NoTask, Goroutines, Ops
    <2>2. ring' \in [Fps -> RingKinds]
      BY <1>4, <1>e, <2>1, ImportedType DEF LookupFinds
    <2> QED BY <1>4, <1>e, <1>g, <2>2 DEF LookupFinds, RingOK, marks
  <1>5. ASSUME StoreKeyRow(t), UNCHANGED <<refresh, sendVars>> PROVE RestOK'
    <2>1. rows' \in [Fps -> RowKinds]
      BY <1>5, <1>e DEF StoreKeyRow, Upserted, RowKinds
    <2>2. kept' \in BOOLEAN
      BY <1>5, Zenon DEF StoreKeyRow
    <2> QED BY <1>5, <1>e, <1>g, <2>1, <2>2 DEF StoreKeyRow, RingOK, marks
  <1>6. ASSUME DeleteRow(t), UNCHANGED <<refresh, sendVars>> PROVE RestOK'
    <2>1. rows' \in [Fps -> RowKinds]
      BY <1>6, <1>e DEF DeleteRow, RowKinds
    <2> QED BY <1>6, <1>e, <1>g, <2>1 DEF DeleteRow, RingOK, marks
  <1>7. ASSUME DeleteRowFails(t) \/ DeleteSealed(t) \/ DeleteSealedFails(t), refresh' = TRUE, UNCHANGED sendVars
        PROVE  RestOK'
    <2>1. SendOK' /\ PlanOK'
      BY <1>7, <1>a, <1>f, FrameType DEF DeleteRowFails, DeleteSealed, DeleteSealedFails
    <2>2. RingOK'
      <3>1. CASE UNCHANGED keyVars
        BY <1>h, <3>1
      <3>2. CASE DeleteSealed(t) \/ DeleteSealedFails(t)
        <4>1. task[t].fp \in Fps
          BY <1>d, <3>2 DEF DeleteSealed, DeleteSealedFails, ShapeOf
        <4>2. wiped' \subseteq Fps /\ residue' \subseteq Fps
          BY <1>e, <3>2, <4>1 DEF DeleteSealed, DeleteSealedFails, Wipes
        <4> QED BY <1>e, <3>2, <4>2 DEF DeleteSealed, DeleteSealedFails, RingOK
      <3> QED BY <1>7, <3>1, <3>2 DEF DeleteRowFails
    <2> QED BY <1>c, <2>1, <2>2 DEF RestOK
  <1>8. ASSUME Build(t) \/ EnqueueFails(t) \/ Finish(t), UNCHANGED keyVars PROVE RestOK'
    <2>1. PlanOK'
      BY <1>8, <1>e, <1>f DEF Build, EnqueueFails, Finish
    <2>2. task[t].d \in Nat
      BY <1>d DEF Goroutines
    <2>3. SendOK'
      BY <1>8, <1>a, <1>b, <2>2 DEF Build, EnqueueFails, Finish, Form, SendOK
    <2> QED BY <1>8, <1>c, <1>h, <2>1, <2>3 DEF RestOK
  <1> QED BY <1>1, <1>2, <1>3, <1>4, <1>5, <1>6, <1>7, <1>8, <1>9 DEF TaskStep

LEMMA TypeInit == Init => TypeOK
  <1> SUFFICES ASSUME Init PROVE TypeOK
    OBVIOUS
  <1>1. VaultTypeOK
    BY VaultInitHolds
  <1>2. PICK p \in Plans : /\ left = p.acts
                           /\ rows \in {[NoRows EXCEPT ![Me] = row] : row \in p.mine}
                           /\ msg \in p.msgs /\ signer \in p.signers
    BY DEF Init
  <1>3. rows \in [Fps -> RowKinds]
    BY <1>2, KeysAssumption, NoRowsType DEF RowKinds
  <1>4. RingOK
    <2>1. kept \in BOOLEAN
      BY Zenon DEF Init
    <2> QED BY <1>3, <2>1, NoRowsType DEF Init, RingOK
  <1>5. TaskOK
    BY NoTaskType DEF Init, TaskOK
  <1>6. PlanOK
    BY <1>2, KeysAssumption DEF Init, PlanOK
  <1>7. ld \in Loaders
    BY <1>3, LoadingType DEF Init
  <1>8. ReadOK
    <2>1. msg \in {"armored", "junk", "opened"} /\ signer \in Fps
      BY <1>2, ReaderAssumption
    <2>2. "" \in Texts
      BY DEF Texts
    <2> QED BY <2>1, <2>2, NoViewType DEF Init, ReadOK
  <1>9. SendOK
    BY DEF Init, SendOK, NoComp
  <1> QED BY <1>1, <1>4, <1>5, <1>6, <1>7, <1>8, <1>9 DEF Init, TypeOK

LEMMA RestStep ==
    ASSUME TypeOK, Shapes, LoaderInv, [Next]_vars PROVE RestOK'
  <1>a. RestOK /\ RingOK /\ PlanOK /\ TaskOK /\ ReadOK /\ JobOK
    BY DEF TypeOK, RestOK, JobOK
  <1>e. {"private", "own", "public", "sweep", "delete", "cred", "trouble", "death", "probe"} \subseteq Acts /\ refresh \in BOOLEAN
    BY <1>a DEF PlanOK, Acts
  <1>1. CASE Start
    <2>1. ASSUME ImportPGPKey \/ SyncPGPFromDirectory \/ DiscoverPGPKey \/ DiscoverContactKeysWKD,
                 UNCHANGED <<vaultVars, ld, refresh, readVars, sendVars, job>>
          PROVE  RestOK'
      <3>1. RingOK'
        BY <1>a, <2>1, KeyStarts, BringsType
      <3>2. PlanOK'
        BY <1>a, <1>e, <2>1, FrameType
        DEF ImportPGPKey, SyncPGPFromDirectory, DiscoverPGPKey, DiscoverContactKeysWKD
      <3> QED BY <1>a, <2>1, <3>1, <3>2, FrameType DEF RestOK
    <2>2. ASSUME NEW k \in pgpRows, DeletePGPKey(k), UNCHANGED <<vaultVars, ld, refresh, readVars, sendVars, job>>
          PROVE  RestOK'
      <3>1. kept' \in BOOLEAN
        BY <2>2, Zenon DEF DeletePGPKey
      <3>2. RingOK'
        BY <1>a, <2>2, <3>1 DEF DeletePGPKey, RingOK, marks
      <3>3. PlanOK'
        BY <1>a, <1>e, <2>2, FrameType DEF DeletePGPKey
      <3> QED BY <1>a, <2>2, <3>2, <3>3, FrameType DEF RestOK
    <2>3. ASSUME StoreCredential \/ DeleteCredential \/ execSyncPrivateKey,
                 UNCHANGED <<keyVars, task, ld, refresh, readVars, sendVars>>
          PROVE  RestOK'
      <3>1. PlanOK'
        BY <1>a, <1>e, <2>3, FrameType DEF StoreCredential, DeleteCredential, execSyncPrivateKey
      <3>2. JobOK'
        BY <1>a, <2>3 DEF StoreCredential, DeleteCredential, execSyncPrivateKey, JobOK
      <3> QED BY <1>a, <2>3, <3>1, <3>2, FrameType DEF RestOK
    <2> QED BY <1>1, <2>1, <2>2, <2>3, ComposeType, ReadType DEF Start
  <1>2. CASE FrameStep
    BY <1>2, ComposeType
  <1>3. CASE EngineStep
    <2>1. PlanOK'
      BY <1>a, <1>3, <1>e, FrameType DEF EngineStep, SealCredential, OpenCopy, FetchPrivateKey, SealCopy
    <2>2. JobOK'
      BY <1>3 DEF EngineStep, SealCredential, OpenCopy, FetchPrivateKey, SealCopy, JobOK
    <2>3. RingOK'
      BY <1>a, <1>3, EngineBrings, BringsType, FrameType
    <2> QED BY <1>a, <1>3, <2>1, <2>2, <2>3, FrameType DEF EngineStep, RestOK
  <1>4. CASE LoaderStep
    BY <1>4, LoadType, LoopType DEF LoaderStep
  <1>5. CASE Death
    <2>1. RingOK'
      BY <1>5, <1>a, NoRowsType DEF Death, RingOK, marks
    <2>2. PlanOK'
      BY <1>5, <1>a, <1>e, FrameType DEF Death
    <2>3. (ld \in Loaders)'
      BY <1>5, <1>a, LoadingType DEF Death, RingOK
    <2>4. ReadOK'
      BY <1>5, <1>a, NoViewType DEF Death, ReadOK, Texts
    <2>5. gone' \subseteq Nat
      <3>1. \A t \in Tasks : task[t].d \in Nat
        BY <1>a DEF TaskOK, Goroutines
      <3>2. gone' = gone \cup {task[t].d : t \in {u \in Tasks : task[u].op = "send"}}
        BY <1>5 DEF Death
      <3> QED BY <1>a, <3>1, <3>2 DEF RestOK, SendOK
    <2>6. SendOK'
      BY <1>5, <1>a, <2>5 DEF Death, RestOK, SendOK, NoComp
    <2> QED BY <1>5, <2>1, <2>2, <2>3, <2>4, <2>6 DEF Death, RestOK, JobOK
  <1>6. ASSUME NEW t \in Tasks, TaskStep(t) PROVE RestOK'
    BY <1>6, TaskRestType
  <1>7. ASSUME NEW t \in Threads, VaultStep(t) PROVE RestOK'
    <2>1. PlanOK'
      BY <1>7, <1>a, <1>e, FrameType DEF VaultStep
    <2> QED BY <1>7, <1>a, <2>1, FrameType DEF VaultStep, RestOK
  <1>8. CASE UNCHANGED vars
    BY <1>8, <1>a, FrameType DEF vars, RestOK
  <1> QED BY <1>1, <1>2, <1>3, <1>4, <1>5, <1>6, <1>7, <1>8 DEF Next

-----------------------------------------------------------------------------
(***************************************************************************)
(* Only the Remove button starts a deletion, and only the keys of the      *)
(* snapshot have one.                                                      *)
(***************************************************************************)
LEMMA BringsOps ==
    ASSUME TaskOK, BringsKeys
    PROVE  \A t \in Tasks : task'[t].op = "delete" => task[t].op = "delete" /\ task'[t].fp = task[t].fp
  <1> PICK op \in {"private"} \cup Bringers, S \in SUBSET Fps : (op = "private" => S = {Me}) /\ Brings(op, S)
    BY DEF BringsKeys
  <1> DEFINE r == [NoTask EXCEPT !.op = op, !.pc = "next", !.todo = S]
  <1>1. r \in Goroutines /\ r.op # "delete" /\ SpawnOnKeys(r)
    BY BringerType DEF Brings, Bringers
  <1> HIDE DEF r
  <1>2. PICK f \in Tasks :
             /\ task'[f] = [r EXCEPT !.clean = \A t \in Tasks : ~Clash(r, task[t])]
             /\ \A u \in Tasks : u # f =>
                  task'[u] = IF Clash(r, task[u]) THEN [task[u] EXCEPT !.clean = FALSE] ELSE task[u]
    BY <1>1, SpawnTakes
  <1>3. task'[f].op = r.op
    BY <1>1, <1>2 DEF Goroutines
  <1>4. ASSUME NEW u \in Tasks, u # f PROVE task'[u].op = task[u].op /\ task'[u].fp = task[u].fp
    <2>1. task[u] \in Goroutines
      BY DEF TaskOK
    <2>2. task'[u] = task[u] \/ task'[u] = [task[u] EXCEPT !.clean = FALSE]
      BY <1>2, <1>4
    <2> QED BY <2>1, <2>2 DEF Goroutines
  <1> QED BY <1>1, <1>3, <1>4

LEMMA WhoDeletes ==
    ASSUME TaskOK, Shapes, ReadOK, SendOK, [Next]_vars, \A k \in pgpRows : ~DeletePGPKey(k)
    PROVE  \A t \in Tasks : task'[t].op = "delete" => task[t].op = "delete"
  <1>1. CASE BringsKeys
    BY <1>1, BringsOps
  <1>2. CASE UNCHANGED task
    BY <1>2
  <1>3. ASSUME NEW t \in Tasks, Advances(t) \/ Ends(t)
        PROVE  \A u \in Tasks : task'[u].op = "delete" => task[u].op = "delete"
    BY <1>3, BecomesIs DEF Advances, Follows, Ends, NoTask
  <1>4. CASE Start
    <2>1. CASE Send
      <3> DEFINE r == [NoTask EXCEPT !.op = "send", !.pc = "build", !.d = comp.d, !.enc = Encrypts, !.sign = comp.sign]
      <3>1. r.op = "send" /\ Spawn(r)
        BY <2>1 DEF Send, NoTask
      <3> HIDE DEF r
      <3>2. PICK f \in Tasks : Becomes(f, r)
        BY <3>1 DEF Spawn, FreeTasks
      <3> QED BY <3>1, <3>2, BecomesIs
    <2> QED BY <1>1, <1>2, <1>4, <2>1, KeyStarts, MissingBrings
        DEF Start, ComposeStep, ReadStep, NewDraft, Back, ToggleSign, ToggleEncrypt
  <1>5. CASE FrameStep \/ LoopStep \/ LoopTrouble \/ UNCHANGED vars \/ EngineStep \/ LoadStep
    BY <1>1, <1>2, <1>5, EngineBrings DEF FrameStep, LoopStep, LoopTrouble, vars, LoadStep, FoldKeyResult, Land
  <1>6. CASE Death
    BY <1>6 DEF Death, NoTask
  <1>7. ASSUME NEW t \in Tasks, TaskStep(t)
        PROVE  \A u \in Tasks : task'[u].op = "delete" => task[u].op = "delete"
    <2>1. Advances(t) \/ Ends(t)
      BY <1>7, KeyTaskSteps
      DEF TaskStep, DeleteRowFails, DeleteSealed, DeleteSealedFails, Build, EnqueueFails, Finish
    <2> QED BY <1>3, <2>1
  <1>8. ASSUME NEW t \in Threads, VaultStep(t) PROVE UNCHANGED task
    BY <1>8 DEF VaultStep
  <1> QED BY <1>2, <1>4, <1>5, <1>6, <1>7, <1>8 DEF Next, LoaderStep

-----------------------------------------------------------------------------
(***************************************************************************)
(* The loader's invariant, in two halves: where it is, and what of the     *)
(* user's may run meanwhile.                                               *)
(***************************************************************************)
OneOwner == rows[Pal] \in {"none", "pub"} /\ ld.list[Pal] \in {"none", "pub"}

LoaderAt ==
    /\ ld.pc \in {"open", "migrate", "blank"} => ld.fp = Me
    /\ ld.pc \notin {"open", "migrate", "blank"} => ld.fp = None
    /\ ld.pc \notin Boot => ld.todo = {}

BootFirst == ld.pc \in Boot => view.keys = {} /\ \A t \in Tasks : task[t].op # "delete"

LEMMA LoaderParts == LoaderInv <=> OneOwner /\ LoaderAt /\ BootFirst
  BY DEF LoaderInv, OneOwner, LoaderAt, BootFirst

LEMMA LoaderInit == Init => LoaderInv
  <1> SUFFICES ASSUME Init PROVE LoaderInv
    OBVIOUS
  <1>1. rows \in [Fps -> RowKinds] /\ rows[Pal] = "none"
    <2>1. PICK p \in Plans : rows \in {[NoRows EXCEPT ![Me] = row] : row \in p.mine}
      BY DEF Init
    <2>2. Me # Pal /\ Me \in Fps /\ Pal \in Fps
      BY KeysAssumption DEF Fps
    <2>3. NoRows[Pal] = "none" /\ NoRows \in [Fps -> RowKinds]
      BY <2>2, NoRowsType DEF NoRows
    <2> QED BY <2>1, <2>2, <2>3, TypeInit DEF TypeOK, RingOK
  <1>2. ld = Loading(rows) /\ view = NoView
    BY DEF Init
  <1>3. \A t \in Tasks : task[t].op = "none"
    BY DEF Init, NoTask
  <1>4. ld.pc = "boot" /\ ld.fp = None /\ ld.list = rows /\ view.keys = {}
    BY <1>1, <1>2, LoadingType, NoViewType
  <1> QED BY <1>1, <1>3, <1>4 DEF LoaderInv, Boot

LEMMA LoadPlace ==
    ASSUME TypeOK, LoaderInv, LoadStep
    PROVE  /\ LoaderAt' /\ ld'.list = ld.list /\ ld.pc \in Boot
           /\ ld'.todo \subseteq ld.todo /\ ld'.fp \in {None, ld.fp} \cup ld.todo
           /\ ld'.pc = "blank" => MigrateSeals
           /\ \A k \in Fps : LoadKey(k) => k \in ld.todo
  <1>a. ld \in Loaders /\ OneOwner /\ LoaderAt
    BY LoaderParts DEF TypeOK
  <1>b. Me # Pal /\ Fps = {Me, Pal}
    BY KeysAssumption DEF Fps
  <1>n. ASSUME NEW k, ld' = Next1(k), ld.pc \in Boot
        PROVE  /\ LoaderAt' /\ ld'.list = ld.list /\ ld'.pc = "boot"
               /\ ld'.todo \subseteq ld.todo /\ ld'.fp = None
    BY <1>a, <1>n DEF Next1, Loaders, LoaderAt, Boot
  <1>w. ASSUME NEW p \in {"open", "migrate"}, Waits(p, Me), ld.pc \in Boot
        PROVE  /\ LoaderAt' /\ ld'.list = ld.list /\ ld'.pc = p /\ ld'.todo = ld.todo /\ ld'.fp = Me
    BY <1>a, <1>w DEF Waits, Loaders, LoaderAt, Boot
  <1>1. ASSUME NEW k \in Fps, LoadKey(k)
        PROVE  /\ LoaderAt' /\ ld'.list = ld.list /\ ld.pc \in Boot /\ k \in ld.todo
               /\ ld'.todo \subseteq ld.todo /\ ld'.fp \in {None, k} /\ ld'.pc # "blank"
    <2>1. ld.pc \in Boot /\ k \in ld.todo
      BY <1>1 DEF LoadKey, Boot
    <2>2. CASE ld' = Next1(k)
      BY <1>n, <2>1, <2>2
    <2>3. CASE ld.list[k] \in {"sealed", "legacy"} /\ (Waits("open", k) \/ Waits("migrate", k))
      <3>1. k = Me
        BY <1>a, <1>b, <2>3 DEF OneOwner
      <3> QED BY <1>w, <2>1, <2>3, <3>1
    <2> QED BY <1>1, <2>2, <2>3 DEF LoadKey
  <1>2. CASE OpenKey \/ MigrateFails \/ BlankRow
    <2>1. ld.pc \in Boot /\ ld.fp = Me
      BY <1>2, <1>a DEF OpenKey, MigrateFails, BlankRow, Boot, LoaderAt
    <2>2. CASE ld' = Next1(ld.fp)
      <3>1. \A k \in Fps : ~LoadKey(k)
        BY <1>2 DEF OpenKey, MigrateFails, BlankRow, LoadKey
      <3> QED BY <1>n, <2>1, <2>2, <3>1
    <2>3. CASE Waits("migrate", ld.fp)
      <3>1. \A k \in Fps : ~LoadKey(k)
        BY <1>2 DEF OpenKey, MigrateFails, BlankRow, LoadKey
      <3> QED BY <1>w, <2>1, <2>3, <3>1
    <2> QED BY <1>2, <2>2, <2>3 DEF OpenKey, MigrateFails, BlankRow
  <1>3. CASE MigrateSeals
    <2>1. ld.pc \in Boot /\ ld.fp = Me /\ \A k \in Fps : ~LoadKey(k)
      BY <1>3, <1>a DEF MigrateSeals, LoadKey, Boot, LoaderAt
    <2>2. CASE ld' = Next1(ld.fp)
      BY <1>n, <2>1, <2>2
    <2>3. CASE ld' = [ld EXCEPT !.pc = "blank"]
      <3>1. ld'.pc = "blank" /\ ld'.fp = Me /\ ld'.list = ld.list /\ ld'.todo = ld.todo
        BY <1>a, <2>1, <2>3 DEF Loaders
      <3> QED BY <1>3, <2>1, <3>1 DEF LoaderAt, Boot
    <2> QED BY <1>3, <2>2, <2>3 DEF MigrateSeals
  <1> QED BY <1>1, <1>2, <1>3 DEF LoadStep

LEMMA LoopPlace ==
    ASSUME TypeOK, LoaderInv, LoopStep \/ LoopTrouble
    PROVE  /\ LoaderAt' /\ (ld.list[Pal] \in {"none", "pub"})'
           /\ ld'.pc \notin Boot /\ ld'.todo = {} /\ ld'.fp = None
  <1>a. ld \in Loaders /\ OneOwner /\ LoaderAt
    BY LoaderParts DEF TypeOK
  <1>b. NoRows[Pal] = "none"
    BY DEF NoRows, Fps
  <1>c. /\ Idling \in Loaders /\ Idling.pc = "idle" /\ Idling.todo = {} /\ Idling.fp = None
        /\ Idling.list[Pal] = "none"
    BY <1>b, IdlingType
  <1>1. CASE ld' = Idling
    BY <1>1, <1>c DEF LoaderAt, Boot
  <1>2. CASE Reload \/ ReloadSearch
    <2>1. ld'.pc \in {"read", "search"} /\ ld'.todo = {} /\ ld'.fp = None /\ ld'.list = Idling.list
      BY <1>2, <1>c DEF Reload, ReloadSearch, Loaders
    <2> QED BY <1>c, <2>1 DEF LoaderAt, Boot
  <1>3. CASE ReloadReads \/ ThreadFails
    <2>1. ld.pc = "read" /\ ld.todo = {} /\ ld.fp = None
      BY <1>3, <1>a DEF ReloadReads, ThreadFails, LoaderAt, Boot
    <2>2. PICK b, r : ld' = Got(b, r)
      BY <1>3 DEF ReloadReads, ThreadFails
    <2>3. ld'.pc = "commit" /\ ld'.todo = ld.todo /\ ld'.fp = ld.fp /\ ld'.list = ld.list
      BY <1>a, <2>2 DEF Got, Loaders
    <2> QED BY <1>a, <2>1, <2>3 DEF LoaderAt, Boot, OneOwner
  <1> QED BY <1>1, <1>2, <1>3 DEF LoopStep, LoopTrouble, ReloadFails, Commit, PatchSearch

(***************************************************************************)
(* Who may write a row, and what.                                          *)
(***************************************************************************)
LEMMA RowWrites ==
    ASSUME TypeOK, Shapes, LoaderInv, [Next]_vars
    PROVE  \/ UNCHANGED rows
           \/ \E t \in Tasks : StoreKeyRow(t) \/ DeleteRow(t)
           \/ BlankRow
  <1> USE DEF keyVars
  <1>1. CASE Start
    BY <1>1, KeyStarts, BringsType, MissingBrings
    DEF Start, DeletePGPKey, ComposeStep, ReadStep, ToggleEncrypt, TypeOK
  <1>4. CASE EngineStep
    BY <1>4, EngineBrings, BringsType DEF TypeOK
  <1>2. CASE LoadStep
    BY <1>2 DEF LoadStep, LoadKey, OpenKey, MigrateFails, MigrateSeals
  <1>3. ASSUME NEW t \in Tasks, TaskStep(t) PROVE UNCHANGED rows \/ StoreKeyRow(t) \/ DeleteRow(t)
    BY <1>3
    DEF TaskStep, Skip, StartLookup, ImportKey, LookupFails, LookupFinds, SealKey, SealKeyFails,
        StoreKeyRowFails, DeleteRowFails, DeleteSealed, DeleteSealedFails
  <1> QED BY <1>1, <1>2, <1>3, <1>4
      DEF Next, LoaderStep, FrameStep, LoopStep, LoopTrouble, Death, VaultStep, vars

LEMMA LoaderStepHolds ==
    ASSUME TypeOK, Shapes, LoaderInv, [Next]_vars PROVE LoaderInv'
  <1>a. ld \in Loaders /\ OneOwner /\ LoaderAt /\ BootFirst /\ TaskOK /\ RingOK /\ ReadOK /\ SendOK
    BY LoaderParts DEF TypeOK
  <1>b. Me # Pal /\ Fps = {Me, Pal} /\ rows \in [Fps -> RowKinds]
    BY <1>a, KeysAssumption DEF Fps, RingOK
  <1>1. (rows[Pal] \in {"none", "pub"})'
    <2>1. CASE UNCHANGED rows
      BY <1>a, <2>1 DEF OneOwner
    <2>2. ASSUME NEW t \in Tasks, StoreKeyRow(t) \/ DeleteRow(t) PROVE (rows[Pal] \in {"none", "pub"})'
      <3>1. ShapeOf(task[t])
        BY DEF Shapes
      <3>2. CASE task[t].fp = Pal
        BY <1>a, <1>b, <2>2, <3>1, <3>2 DEF StoreKeyRow, DeleteRow, Upserted, ShapeOf, OneOwner
      <3>3. CASE task[t].fp # Pal
        BY <1>a, <1>b, <2>2, <3>3 DEF StoreKeyRow, DeleteRow, Upserted, OneOwner
      <3> QED BY <3>2, <3>3
    <2>3. CASE BlankRow
      BY <1>a, <1>b, <2>3 DEF BlankRow, LoaderAt, OneOwner
    <2> QED BY <2>1, <2>2, <2>3, RowWrites
  <1>2. LoaderAt' /\ (ld.list[Pal] \in {"none", "pub"})'
    <2>1. CASE UNCHANGED ld
      BY <1>a, <2>1 DEF LoaderAt, OneOwner
    <2>2. CASE LoadStep
      BY <1>a, <2>2, LoadPlace DEF OneOwner
    <2>3. CASE LoopStep \/ LoopTrouble
      BY <2>3, LoopPlace
    <2>4. CASE Death
      BY <1>a, <1>b, <2>4, LoadingType DEF Death, LoaderAt, OneOwner, Boot
    <2> QED BY <2>1, <2>2, <2>3, <2>4
        DEF Next, Start, ComposeStep, ReadStep, FrameStep, EngineStep, LoaderStep, TaskStep, VaultStep, vars
  <1>3. BootFirst'
    <2>1. CASE ld'.pc \notin Boot
      BY <2>1 DEF BootFirst
    <2>2. CASE Death
      BY <2>2, NoViewType DEF Death, BootFirst, NoTask
    <2>3. CASE ld'.pc \in Boot /\ ~Death
      <3>1. ld.pc \in Boot
        <4>1. CASE UNCHANGED ld
          BY <2>3, <4>1
        <4>2. CASE LoadStep
          BY <4>2, LoadPlace
        <4>3. CASE LoopStep \/ LoopTrouble
          BY <2>3, <4>3, LoopPlace
        <4> QED BY <2>3, <4>1, <4>2, <4>3
            DEF Next, Start, ComposeStep, ReadStep, FrameStep, EngineStep, LoaderStep, TaskStep, VaultStep, vars
      <3>2. view.keys = {} /\ \A t \in Tasks : task[t].op # "delete"
        BY <1>a, <3>1 DEF BootFirst
      <3>3. \A k \in pgpRows : ~DeletePGPKey(k)
        BY <3>2 DEF pgpRows
      <3>4. \A t \in Tasks : task'[t].op # "delete"
        BY <1>a, <3>2, <3>3, WhoDeletes
      <3>5. view'.keys = {}
        <4>1. CASE UNCHANGED view
          BY <3>2, <4>1
        <4>2. CASE LoopStep \/ LoopTrouble
          BY <2>3, <4>2, LoopPlace
        <4>3. CASE ReadStep
          <5>1. view \in Views
            BY <1>a DEF ReadOK
          <5>2. UNCHANGED view \/ view' = [view EXCEPT !.results = ""]
            BY <4>3 DEF ReadStep, OpenThread, SetSearch, ClearResults, SearchDebounce, Refetched
          <5> QED BY <3>2, <5>1, <5>2 DEF Views
        <4> QED BY <2>3, <4>1, <4>2, <4>3
            DEF Next, Start, ComposeStep, FrameStep, EngineStep, LoaderStep, LoadStep, TaskStep, VaultStep, vars,
                readVars
      <3> QED BY <3>4, <3>5 DEF BootFirst
    <2> QED BY <2>1, <2>2, <2>3
  <1> QED BY <1>1, <1>2, <1>3 DEF LoaderInv, LoaderAt, BootFirst

-----------------------------------------------------------------------------
LEMMA CustodyInit == Init => CustodyInv
  <1> SUFFICES ASSUME Init PROVE CustodyInv
    OBVIOUS
  <1>1. /\ \A t \in Tasks : task[t] = NoTask
        /\ wiped = {} /\ ld.pc = "boot" /\ kept = (rows[Me] = "legacy")
    BY TypeInit, LoadingType DEF Init, TypeOK, RingOK
  <1>2. NoTask.op = "none" /\ ~NoTask.clean
    BY DEF NoTask
  <1>3. kept => rows[Me] = "legacy"
    BY <1>1
  <1>4. KeptInv
    BY <1>1, <1>2, <1>3 DEF KeptInv, Deletes
  <1>5. CleanAlone /\ SealedInv /\ WipedInv /\ RowGone
    BY <1>1, <1>2 DEF CleanAlone, SealedInv, WipedInv, RowGone
  <1>6. Hidden
    BY KeysAssumption DEF Init, VaultInit, Hidden
  <1> QED BY <1>4, <1>5, <1>6 DEF CustodyInv

(***************************************************************************)
(* A goroutine that goes on, ends, or is about no key.                     *)
(***************************************************************************)
Goes(r, q) ==
    \/ r = q
    \/ r.op \notin {"private", "delete"} /\ About(r) = {}
    \/ /\ Follows(r, q)
       /\ r.op = "private" /\ r.pc = "row" /\ r.clean => Safe'
       /\ r.op = "delete" /\ r.pc = "vault" /\ r.clean => rows[r.fp] = "none"

(***************************************************************************)
(* Steps that leave the rows and the records alone, unseal nothing, and    *)
(* seal nothing that was wiped.                                            *)
(***************************************************************************)
MeKept ==
    /\ Safe => Safe'
    /\ Me \in wiped /\ Me \notin residue => sealed'[Me] = 0 /\ entries'[Me] = 0
    /\ Hidden'

LEMMA CustodyGoes ==
    ASSUME TypeOK, Shapes, Shapes', CustodyInv, CleanAlone',
           UNCHANGED <<rows, kept, wiped, residue>>, MeKept,
           ld'.todo \subseteq ld.todo, ld'.fp \in {None, ld.fp} \cup ld.todo, ld'.pc = "blank" => Safe',
           \A t \in Tasks : Goes(task'[t], task[t])
    PROVE  CustodyInv'
  <1>a. KeptInv /\ SealedInv /\ WipedInv /\ RowGone
    BY DEF CustodyInv
  <1>b. /\ None \notin Fps /\ Aliases \cap Fps = {Me} /\ wiped \subseteq Fps /\ Me \in Fps
    BY KeysAssumption DEF TypeOK, RingOK, Fps
  <1>c. /\ Safe => Safe'
        /\ Me \in wiped /\ Me \notin residue => sealed'[Me] = 0 /\ entries'[Me] = 0
        /\ Hidden'
    BY DEF MeKept
  <1>1. ASSUME NEW t \in Tasks, Deletes(task'[t], Me) PROVE Deletes(task[t], Me)
    <2>1. task'[t].op = "delete" /\ task'[t].fp = Me
      BY <1>1 DEF Deletes
    <2>2. CASE Follows(task'[t], task[t])
      <3>1. Me \in About(task'[t])
        BY <1>b, <2>1 DEF About
      <3>2. task[t].op = "delete" /\ Me \in About(task[t])
        BY <2>1, <2>2, <3>1 DEF Follows
      <3>3. task[t].todo = {}
        BY <3>2 DEF Shapes, ShapeOf
      <3> QED BY <3>2, <3>3 DEF About, Deletes
    <2> QED BY <1>1, <2>1, <2>2 DEF Goes
  <1>2. ASSUME NEW t \in Tasks, task'[t].op = "private"
        PROVE  task[t].op = "private" /\ (task[t].clean => task'[t].clean)
    BY <1>2 DEF Goes, Follows
  <1>3. KeptInv'
    <2> SUFFICES ASSUME kept PROVE KeptInv'
      BY DEF KeptInv
    <2>1. \A t \in Tasks : ~Deletes(task'[t], Me)
      BY <1>a, <1>1 DEF KeptInv
    <2>2. rows'[Me] # "none" /\ (rows'[Me] = "sealed" => Safe')
      BY <1>a, <1>c DEF KeptInv
    <2>3. Safe' \/ \A t \in Tasks : task'[t].op = "private" => task'[t].clean
      BY <1>a, <1>c, <1>2 DEF KeptInv
    <2> QED BY <2>1, <2>2, <2>3 DEF KeptInv, Deletes
  <1>4. SealedInv'
    <2>1. ASSUME NEW t \in Tasks, task'[t].op = "private", task'[t].pc = "row", task'[t].clean PROVE Safe'
      BY <1>a, <1>c, <2>1 DEF Goes, SealedInv
    <2> QED BY <2>1 DEF SealedInv
  <1>5. WipedInv'
    <2> SUFFICES ASSUME NEW k \in wiped
                 PROVE  /\ rows[k] = "none" /\ k \notin ld'.todo /\ ld'.fp # k
                        /\ k \in Aliases /\ k \notin residue => sealed'[k] = 0 /\ entries'[k] = 0
                        /\ \A t \in Tasks : task'[t].op # "delete" => k \notin task'[t].todo \cup {task'[t].fp}
      BY DEF WipedInv
    <2>1. k \in Fps /\ (k \in Aliases => k = Me)
      BY <1>b
    <2>2. rows[k] = "none" /\ k \notin ld'.todo /\ ld'.fp # k
      BY <1>a, <1>b, <2>1 DEF WipedInv
    <2>3. ASSUME NEW t \in Tasks, task'[t].op # "delete" PROVE k \notin task'[t].todo \cup {task'[t].fp}
      <3>1. CASE task'[t] = task[t]
        BY <1>a, <2>3, <3>1 DEF WipedInv
      <3>2. CASE About(task'[t]) = {}
        BY <2>1, <3>2 DEF About
      <3>3. CASE Follows(task'[t], task[t])
        BY <1>a, <2>1, <2>3, <3>3 DEF Follows, About, WipedInv
      <3> QED BY <3>1, <3>2, <3>3 DEF Goes
    <2> QED BY <1>c, <2>1, <2>2, <2>3
  <1>6. RowGone'
    <2>1. ASSUME NEW t \in Tasks, task'[t].op = "delete", task'[t].pc = "vault", task'[t].clean
          PROVE  rows[task'[t].fp] = "none"
      BY <1>a, <2>1 DEF Goes, RowGone
    <2> QED BY <2>1 DEF RowGone
  <1> QED BY <1>c, <1>3, <1>4, <1>5, <1>6 DEF CustodyInv

(***************************************************************************)
(* What the keystore's effects do to the private key.                      *)
(***************************************************************************)
MeSame ==
    /\ provider' = provider /\ entries'[Me] = entries[Me]
    /\ sealed'[Me] \in {sealed[Me], entries[Me]}
    /\ provider = "memory" => sealed'[Me] = sealed[Me]

LEMMA SameSafe ==
    ASSUME MeSame, WipedInv, Hidden, UNCHANGED <<volatile, residue>> PROVE MeKept
  <1>1. Me \in Aliases
    BY KeysAssumption
  <1> QED BY <1>1 DEF MeSame, MeKept, Safe, WipedInv, Hidden

LEMMA CredSame ==
    ASSUME VaultTypeOK, EngineVault \/ \E t \in Threads : KeyStep(t) \/ KeyTrouble(t)
    PROVE  MeSame
  <1>a. entries \in [Aliases -> Nat] /\ Me \in Aliases /\ Me \notin {Cred, Copy}
    BY KeysAssumption DEF VaultTypeOK, Fps
  <1>1. CASE UNCHANGED <<place, sealed, entries>>
    BY <1>1 DEF MeSame, place
  <1>2. ASSUME NEW t \in Threads, KeyStep(t) \/ KeyTrouble(t) PROVE MeSame
    BY <1>1, <1>2
    DEF KeyStep, KeyTrouble, ReadKey, ReadKeyFails, PublishKey, CreateKey, publishExcl, Installs, PublishFails,
        vaultDisk
  <1>3. ASSUME NEW map, Writes(map), map[Me] = entries[Me], UNCHANGED place PROVE MeSame
    BY <1>3, WritesTo DEF MeSame, place
  <1>4. ASSUME NEW a \in {Cred, Copy}, Seals(Engine, a) \/ Drops(a) PROVE MeSame
    <2>1. Sealing(a)[Me] = entries[Me] /\ Dropping(a)[Me] = entries[Me]
      BY <1>a DEF Sealing, Dropping
    <2> QED BY <1>3, <1>4, <2>1 DEF Seals, Drops
  <1> QED BY <1>1, <1>2, <1>4 DEF EngineVault, Calls, Refuses, Refused, Forgets

LEMMA SealsMe ==
    ASSUME VaultTypeOK, VaultInv, NEW t \in Threads, Seals(t, Me)
    PROVE  Hidden' /\ (Keeps(Me) => Safe') /\ (Safe /\ UNCHANGED volatile => Safe')
  <1>a. entries \in [Aliases -> Nat] /\ Me \in Aliases /\ cached \in Nat
    BY KeysAssumption DEF VaultTypeOK
  <1>1. cached # 0
    BY DEF Seals, VaultInv, ReadyHasKey
  <1>2. Sealing(Me)[Me] = cached
    BY <1>a DEF Sealing
  <1>3. /\ entries'[Me] = cached /\ sealed' \in {sealed, Sealing(Me)} /\ provider' = provider
    BY <1>2, WritesTo DEF Seals, place
  <1>4. Keeps(Me) => Safe'
    <2> SUFFICES ASSUME Keeps(Me) PROVE Safe'
      OBVIOUS
    <2>1. CASE provider = "memory"
      <3>1. sealed' = sealed /\ (volatile' \/ sealed[Me] # 0)
        BY <2>1 DEF Keeps, persistLocked
      <3> QED BY <1>3, <2>1, <3>1 DEF Safe
    <2>2. CASE provider # "memory"
      <3>1. sealed' = Sealing(Me)
        BY <2>2 DEF Keeps, persistLocked
      <3> QED BY <1>1, <1>2, <1>3, <3>1 DEF Safe
    <2> QED BY <2>1, <2>2
  <1> QED BY <1>1, <1>2, <1>3, <1>4 DEF Safe, Hidden

(***************************************************************************)
(* Steps that no goroutine on keys takes: the loop, the composer, the      *)
(* engine, a provider.                                                     *)
(***************************************************************************)
CommonInv ==
    TypeOK /\ Shapes /\ LoaderInv /\ VaultInv /\ CustodyInv

LEMMA CustodyQuiet ==
    ASSUME CommonInv, Shapes', CleanAlone', UNCHANGED <<rows, kept, wiped, volatile, residue>>, MeSame,
           UNCHANGED ld \/ LoopStep \/ LoopTrouble,
           \A t \in Tasks : Goes(task'[t], task[t])
    PROVE  CustodyInv'
  <1>a. TypeOK /\ Shapes /\ LoaderInv /\ CustodyInv /\ WipedInv /\ SealedInv /\ Hidden
    BY DEF CommonInv, CustodyInv
  <1>1. MeKept
    BY <1>a, SameSafe
  <1>2. /\ ld'.todo \subseteq ld.todo /\ ld'.fp \in {None, ld.fp} \cup ld.todo /\ (ld'.pc = "blank" => Safe')
    <2>1. CASE UNCHANGED ld
      BY <1>a, <1>1, <2>1 DEF SealedInv, MeKept
    <2>2. CASE LoopStep \/ LoopTrouble
      BY <1>a, <2>2, LoopPlace DEF Boot
    <2> QED BY <2>1, <2>2
  <1> QED BY <1>a, <1>1, <1>2, CustodyGoes

LEMMA CustodyLoads ==
    ASSUME CommonInv, Shapes', CleanAlone', LoadStep, ~BlankRow PROVE CustodyInv'
  <1>a. /\ TypeOK /\ Shapes /\ LoaderInv /\ CustodyInv /\ WipedInv /\ Hidden /\ VaultTypeOK /\ VaultInv
    BY DEF CommonInv, CustodyInv, TypeOK
  <1>b. UNCHANGED <<rows, kept, wiped, residue, task>>
    BY DEF LoadStep, LoadKey, OpenKey, MigrateFails, MigrateSeals, marks
  <1>c. \A t \in Tasks : Goes(task'[t], task[t])
    BY <1>b DEF Goes
  <1>d. Loader \in Threads /\ Me \in Fps
    BY KeysAssumption DEF Fps
  <1>e. /\ ld'.todo \subseteq ld.todo /\ ld'.fp \in {None, ld.fp} \cup ld.todo
        /\ (ld'.pc = "blank" => MigrateSeals)
    BY <1>a, LoadPlace
  <1>1. CASE MigrateSeals
    <2>1. ld.fp = Me
      BY <1>a, <1>1 DEF LoaderInv, MigrateSeals
    <2>2. Seals(Loader, Me)
      BY <1>1, <2>1 DEF MigrateSeals, Keeps, Seals, Writes
    <2>3. Me \notin wiped
      BY <1>a, <2>1 DEF WipedInv
    <2>4. Keeps(Me) \/ (UNCHANGED volatile /\ ld'.pc # "blank")
      <3>1. ld \in Loaders
        BY <1>a DEF TypeOK
      <3> QED BY <1>1, <2>1, <3>1 DEF MigrateSeals, Next1, Loaders
    <2>5. MeKept /\ (ld'.pc = "blank" => Safe')
      BY <1>a, <1>d, <2>2, <2>3, <2>4, SealsMe DEF MeKept
    <2> QED BY <1>a, <1>b, <1>c, <1>e, <2>5, CustodyGoes
  <1>2. CASE ~MigrateSeals
    <2>1. MeSame /\ UNCHANGED volatile
      BY <1>2 DEF LoadStep, LoadKey, OpenKey, MigrateFails, Refused, vaultDisk, MeSame, place, marks
    <2>2. MeKept
      BY <1>a, <1>b, <2>1, SameSafe
    <2> QED BY <1>a, <1>b, <1>c, <1>e, <1>2, <2>2, CustodyGoes
  <1> QED BY <1>1, <1>2

(***************************************************************************)
(* BlankRow: the key is sealed, and while the loader blanks its row nobody *)
(* deletes.                                                                *)
(***************************************************************************)
LEMMA CustodyBlanks ==
    ASSUME CommonInv, Shapes', CleanAlone', LoadStep, BlankRow PROVE CustodyInv'
  <1>a. /\ TypeOK /\ LoaderInv /\ KeptInv /\ SealedInv /\ WipedInv /\ Hidden /\ RowGone
    BY DEF CommonInv, CustodyInv
  <1>b. /\ UNCHANGED <<kept, wiped, volatile, residue, task, provider, sealed, entries>>
        /\ ld.pc = "blank" /\ ld.fp = Me
        /\ (rows' = rows \/ rows' = [rows EXCEPT ![Me] = "sealed"]) /\ ld' = Next1(Me)
    BY <1>a DEF LoadStep, BlankRow, vaultVars, LoaderInv, place, marks
  <1>c. rows \in [Fps -> RowKinds] /\ Me \in Fps /\ ld \in Loaders /\ wiped \subseteq Fps /\ None \notin Fps
    BY <1>a, KeysAssumption DEF TypeOK, RingOK, Fps
  <1>d. Safe /\ Safe'
    BY <1>a, <1>b DEF SealedInv, Safe
  <1>e. Me \notin wiped /\ \A t \in Tasks : task[t].op # "delete"
    BY <1>a, <1>b DEF WipedInv, LoaderInv, Boot
  <1>f. ld'.pc = "boot" /\ ld'.todo \subseteq ld.todo /\ ld'.fp = None
    BY <1>b, <1>c DEF Next1, Loaders
  <1>1. KeptInv'
    BY <1>a, <1>b, <1>c, <1>d DEF KeptInv, Deletes
  <1>2. SealedInv'
    BY <1>d DEF SealedInv
  <1>3. WipedInv'
    BY <1>a, <1>b, <1>c, <1>e, <1>f DEF WipedInv
  <1>4. RowGone' /\ Hidden'
    BY <1>a, <1>b, <1>e DEF RowGone, Hidden
  <1> QED BY <1>1, <1>2, <1>3, <1>4 DEF CustodyInv

LEMMA CustodyDies ==
    ASSUME CommonInv, Shapes', CleanAlone', Death PROVE CustodyInv'
  <1>a. TypeOK /\ KeptInv /\ WipedInv
    BY DEF CommonInv, CustodyInv
  <1>b. /\ UNCHANGED <<rows, kept, wiped, volatile, residue, sealed>> /\ ld' = Loading(rows)
        /\ entries' = (IF provider' = "memory" THEN [a \in Aliases |-> 0] ELSE sealed)
        /\ \A t \in Tasks : task'[t] = NoTask
    BY DEF Death, Reopen, marks
  <1>c. rows \in [Fps -> RowKinds] /\ Me \in Fps /\ Me \in Aliases /\ wiped \subseteq Fps /\ None \notin Fps
    BY <1>a, KeysAssumption DEF TypeOK, RingOK, Fps
  <1>d. NoTask.op = "none" /\ NoTask.todo = {} /\ NoTask.fp = None
    BY DEF NoTask
  <1>e. ld'.pc = "boot" /\ ld'.fp = None /\ ld'.todo = {k \in Fps : rows[k] # "none"}
    BY <1>b, <1>c, LoadingType
  <1>f. Safe => Safe'
    BY <1>b DEF Safe
  <1>1. KeptInv'
    BY <1>a, <1>b, <1>d, <1>f DEF KeptInv, Deletes
  <1>2. SealedInv' /\ RowGone'
    BY <1>b, <1>d, <1>e DEF SealedInv, RowGone
  <1>g. \A a \in Aliases : sealed[a] = 0 => entries'[a] = 0
    BY <1>b
  <1>3. WipedInv'
    BY <1>a, <1>b, <1>c, <1>d, <1>e, <1>g DEF WipedInv
  <1>4. Hidden'
    BY <1>b DEF Hidden
  <1> QED BY <1>1, <1>2, <1>3, <1>4 DEF CustodyInv

(***************************************************************************)
(* A start, seen by each goroutine: the rest of its record stays.          *)
(***************************************************************************)
SameWork(r, q) == r.op = q.op /\ r.pc = q.pc /\ r.todo = q.todo /\ r.fp = q.fp

LEMMA SpawnSeen ==
    ASSUME TaskOK, NEW r \in Goroutines, SpawnOnKeys(r)
    PROVE  \E f \in Tasks :
             /\ SameWork(task'[f], r) /\ (task'[f].clean <=> \A t \in Tasks : ~Clash(r, task[t]))
             /\ \A u \in Tasks : u # f => /\ SameWork(task'[u], task[u])
                                          /\ task'[u].clean => task[u].clean
                                          /\ Clash(r, task[u]) \/ task'[u].clean = task[u].clean
  <1> DEFINE alone == \A t \in Tasks : ~Clash(r, task[t])
  <1>1. PICK f \in Tasks :
             /\ task'[f] = [r EXCEPT !.clean = alone]
             /\ \A u \in Tasks : u # f =>
                  task'[u] = IF Clash(r, task[u]) THEN [task[u] EXCEPT !.clean = FALSE] ELSE task[u]
    BY SpawnTakes
  <1>2. alone \in BOOLEAN
    OBVIOUS
  <1> HIDE DEF alone
  <1>3. SameWork(task'[f], r) /\ task'[f].clean = alone
    BY <1>1 DEF Goroutines, SameWork
  <1>4. ASSUME NEW u \in Tasks, u # f
        PROVE  /\ SameWork(task'[u], task[u]) /\ (task'[u].clean => task[u].clean)
               /\ Clash(r, task[u]) \/ task'[u].clean = task[u].clean
    <2>1. task[u] \in Goroutines
      BY DEF TaskOK
    <2> QED BY <1>1, <1>4, <2>1 DEF Goroutines, SameWork
  <1>5. task'[f].clean <=> alone
    BY <1>3
  <1> QED BY <1>3, <1>4, <1>5 DEF alone

LEMMA CustodyBrings ==
    ASSUME CommonInv, CleanAlone', BringsKeys, MeSame, UNCHANGED ld PROVE CustodyInv'
  <1>a. TypeOK /\ Shapes /\ TaskOK /\ KeptInv /\ SealedInv /\ WipedInv /\ Hidden /\ RowGone
    BY DEF CommonInv, CustodyInv, TypeOK
  <1>b. PICK op \in {"private"} \cup Bringers, S \in SUBSET Fps : (op = "private" => S = {Me}) /\ Brings(op, S)
    BY DEF BringsKeys
  <1> DEFINE r == [NoTask EXCEPT !.op = op, !.pc = "next", !.todo = S]
  <1>c. /\ r \in Goroutines /\ r.op = op /\ r.todo = S /\ r.fp = None /\ r.pc = "next"
        /\ SpawnOnKeys(r) /\ op # "delete"
    BY <1>b, BringerType DEF Brings, Bringers
  <1> HIDE DEF r
  <1>d. UNCHANGED <<rows, kept, volatile, residue, ld>> /\ wiped' = wiped \ S
    BY <1>b DEF Brings, marks
  <1>h. /\ Safe => Safe'
        /\ Me \in wiped /\ Me \notin residue => sealed'[Me] = 0 /\ entries'[Me] = 0
        /\ Hidden'
    BY <1>a, <1>d, SameSafe DEF MeKept
  <1>e. PICK f \in Tasks :
             /\ SameWork(task'[f], r) /\ (task'[f].clean <=> \A t \in Tasks : ~Clash(r, task[t]))
             /\ \A u \in Tasks : u # f => /\ SameWork(task'[u], task[u])
                                          /\ task'[u].clean => task[u].clean
                                          /\ Clash(r, task[u]) \/ task'[u].clean = task[u].clean
    BY <1>a, <1>c, SpawnSeen
  <1>f. wiped \subseteq Fps /\ None \notin Fps /\ \A k \in Fps : k \in Aliases => k = Me
    BY <1>a, KeysAssumption DEF TypeOK, RingOK, Fps
  <1>g. \A t \in Tasks : task'[t].op = "delete" => task[t].op = "delete" /\ task'[t].fp = task[t].fp
    BY <1>a, BringsOps
  <1>1. KeptInv'
    <2> SUFFICES ASSUME kept PROVE KeptInv'
      BY <1>d DEF KeptInv
    <2>1. \A t \in Tasks : ~Deletes(task[t], Me) /\ ~Deletes(task'[t], Me)
      BY <1>a, <1>g DEF KeptInv, Deletes
    <2>2. rows'[Me] # "none" /\ (rows'[Me] = "sealed" => Safe') /\ (Safe => Safe')
      BY <1>a, <1>d, <1>h DEF KeptInv
    <2>3. ASSUME ~Safe, NEW t \in Tasks, task'[t].op = "private" PROVE task'[t].clean
      <3>1. CASE t = f
        <4>1. op = "private" /\ About(r) \subseteq {Me}
          BY <1>b, <1>c, <1>e, <1>f, <2>3, <3>1 DEF SameWork, About
        <4>2. ASSUME NEW u \in Tasks, Clash(r, task[u]) PROVE FALSE
          <5>1. task[u].op = "delete" /\ Me \in About(task[u])
            BY <1>c, <4>1, <4>2, ClashIs
          <5>2. task[u].todo = {}
            BY <1>a, <5>1 DEF Shapes, ShapeOf
          <5> QED BY <2>1, <5>1, <5>2 DEF About, Deletes
        <4> QED BY <1>e, <3>1, <4>2
      <3>2. CASE t # f
        <4>1. task[t].op = "private" /\ task[t].clean
          BY <1>a, <1>e, <2>3, <3>2 DEF SameWork, KeptInv
        <4>2. ~Clash(r, task[t])
          BY <1>c, <4>1, ClashIs
        <4> QED BY <1>e, <3>2, <4>1, <4>2
      <3> QED BY <3>1, <3>2
    <2> QED BY <2>1, <2>2, <2>3 DEF KeptInv, Deletes
  <1>2. SealedInv'
    BY <1>a, <1>c, <1>d, <1>e, <1>h DEF SealedInv, SameWork
  <1>3. WipedInv'
    <2> SUFFICES ASSUME NEW k \in wiped, k \notin S
                 PROVE  /\ rows'[k] = "none" /\ k \notin ld'.todo /\ ld'.fp # k
                        /\ k \in Aliases /\ k \notin residue' => sealed'[k] = 0 /\ entries'[k] = 0
                        /\ \A t \in Tasks : task'[t].op # "delete" => k \notin task'[t].todo \cup {task'[t].fp}
      BY <1>d DEF WipedInv
    <2>1. rows'[k] = "none" /\ k \notin ld'.todo /\ ld'.fp # k
      BY <1>a, <1>d DEF WipedInv
    <2>2. k \in Aliases /\ k \notin residue' => sealed'[k] = 0 /\ entries'[k] = 0
      BY <1>d, <1>f, <1>h
    <2>3. \A t \in Tasks : task'[t].op # "delete" => k \notin task'[t].todo \cup {task'[t].fp}
      BY <1>a, <1>c, <1>e, <1>f DEF WipedInv, SameWork
    <2> QED BY <2>1, <2>2, <2>3
  <1>4. RowGone'
    BY <1>a, <1>c, <1>d, <1>e DEF RowGone, SameWork
  <1> QED BY <1>h, <1>1, <1>2, <1>3, <1>4 DEF CustodyInv

LEMMA CustodyRemove ==
    ASSUME CommonInv, CleanAlone', NEW k \in pgpRows, DeletePGPKey(k), UNCHANGED <<vaultVars, ld>>
    PROVE  CustodyInv'
  <1>a. TypeOK /\ Shapes /\ TaskOK /\ KeptInv /\ SealedInv /\ WipedInv /\ Hidden /\ RowGone
    BY DEF CommonInv, CustodyInv, TypeOK
  <1>b. k \in Fps /\ wiped \subseteq Fps /\ None \notin Fps
    BY <1>a, KeysAssumption DEF pgpRows, TypeOK, ReadOK, Views, RingOK
  <1> DEFINE r == [NoTask EXCEPT !.op = "delete", !.pc = "row", !.fp = k]
  <1>c. r \in Goroutines /\ r.op = "delete" /\ r.todo = {} /\ r.fp = k /\ r.pc = "row" /\ SpawnOnKeys(r)
    BY <1>b, DeleterType DEF DeletePGPKey
  <1> HIDE DEF r
  <1>d. UNCHANGED <<rows, wiped, volatile, residue, provider, sealed, entries, ld>> /\ (kept' => kept /\ k # Me)
    BY DEF DeletePGPKey, vaultVars, place, marks
  <1>e. PICK f \in Tasks :
             /\ SameWork(task'[f], r) /\ (task'[f].clean <=> \A t \in Tasks : ~Clash(r, task[t]))
             /\ \A u \in Tasks : u # f => /\ SameWork(task'[u], task[u])
                                          /\ task'[u].clean => task[u].clean
                                          /\ Clash(r, task[u]) \/ task'[u].clean = task[u].clean
    BY <1>a, <1>c, SpawnSeen
  <1>1. KeptInv'
    <2> SUFFICES ASSUME kept' PROVE KeptInv'
      BY DEF KeptInv
    <2>1. \A t \in Tasks : ~Deletes(task'[t], Me)
      BY <1>a, <1>c, <1>d, <1>e DEF KeptInv, Deletes, SameWork
    <2>2. rows'[Me] # "none" /\ (rows'[Me] = "sealed" => Safe') /\ (Safe => Safe')
      BY <1>a, <1>d DEF KeptInv, Safe
    <2>3. ASSUME ~Safe, NEW t \in Tasks, task'[t].op = "private" PROVE task'[t].clean
      <3>1. t # f /\ task[t].op = "private"
        BY <1>c, <1>e, <2>3 DEF SameWork
      <3>2. task[t].clean
        BY <1>a, <1>d, <2>3, <3>1 DEF KeptInv
      <3>3. About(task[t]) \subseteq {Me} /\ About(r) = {k}
        BY <1>a, <1>b, <1>c, <3>1 DEF Shapes, ShapeOf, About
      <3>4. ~Clash(r, task[t])
        BY <1>d, <3>3, ClashIs
      <3> QED BY <1>e, <3>1, <3>2, <3>4
    <2> QED BY <2>1, <2>2, <2>3 DEF KeptInv, Deletes
  <1>2. SealedInv'
    BY <1>a, <1>c, <1>d, <1>e DEF SealedInv, Safe, SameWork
  <1>3. WipedInv'
    BY <1>a, <1>c, <1>d, <1>e DEF WipedInv, SameWork
  <1>4. RowGone' /\ Hidden'
    BY <1>a, <1>c, <1>d, <1>e DEF RowGone, Hidden, SameWork
  <1> QED BY <1>1, <1>2, <1>3, <1>4 DEF CustodyInv

(***************************************************************************)
(* A goroutine on keys goes on.  First the steps that write no row and     *)
(* drop no sealed copy.                                                    *)
(***************************************************************************)
LEMMA AdvanceGoes ==
    ASSUME TaskOK, NEW t \in Tasks, Advances(t) \/ Ends(t),
           task'[t].op = "private" /\ task'[t].pc = "row" /\ task'[t].clean => Safe',
           task'[t].op = "delete" /\ task'[t].pc = "vault" /\ task'[t].clean => rows[task'[t].fp] = "none"
    PROVE  \A u \in Tasks : Goes(task'[u], task[u])
  <1>1. CASE Ends(t)
    <2>1. task'[t] = NoTask /\ \A u \in Tasks : u # t => task'[u] = task[u]
      BY <1>1, BecomesIs DEF Ends
    <2>2. NoTask.op = "none"
      BY DEF NoTask
    <2> QED BY <2>1, <2>2, NoTaskType DEF Goes
  <1>2. CASE Advances(t)
    BY <1>2, BecomesIs DEF Advances, Goes
  <1> QED BY <1>1, <1>2

LEMMA CustodySteps ==
    ASSUME CommonInv, Shapes', CleanAlone', NEW t \in Tasks, TaskStep(t),
           ~StoreKeyRow(t), ~DeleteRow(t), ~DeleteSealed(t), ~DeleteSealedFails(t)
    PROVE  CustodyInv'
  <1>a. /\ TypeOK /\ Shapes /\ LoaderInv /\ TaskOK /\ CustodyInv /\ SealedInv /\ WipedInv /\ Hidden /\ VaultTypeOK /\ VaultInv
    BY DEF CommonInv, CustodyInv, TypeOK
  <1>b. task[t] \in Goroutines /\ ShapeOf(task[t]) /\ t \in Threads
    BY <1>a, KeysAssumption DEF TaskOK, Shapes
  <1>c. UNCHANGED ld
    BY DEF TaskStep
  <1>d. ASSUME NEW r, Becomes(t, r) PROVE task'[t] = r
    BY <1>a, <1>d, BecomesIs
  <1> USE DEF keyVars, marks
  <1>1. ASSUME SealKey(t) \/ SealKeyFails(t) PROVE CustodyInv'
    <2>1. task[t].op = "private" /\ task[t].fp = Me
      BY <1>b, <1>1 DEF SealKey, SealKeyFails, ShapeOf, Bringers, Goroutines, Ops, NoTask
    <2>2. Me \notin wiped
      BY <1>a, <2>1 DEF WipedInv
    <2>3. CASE SealKey(t)
      <3>1. Seals(t, Me) /\ Keeps(Me) /\ UNCHANGED <<rows, kept, wiped, residue>>
        BY <2>1, <2>3 DEF SealKey, Keeps, Seals, Writes
      <3>2. Safe' /\ MeKept
        BY <1>a, <1>b, <2>2, <3>1, SealsMe DEF MeKept
      <3>3. task'[t] = [task[t] EXCEPT !.pc = "row"]
        BY <1>d, <2>3 DEF SealKey, Move
      <3>4. task'[t].pc = "row"
        BY <1>b, <3>3 DEF Goroutines
      <3>5. \A u \in Tasks : Goes(task'[u], task[u])
        BY <1>a, <2>3, <3>2, <3>4, KeyTaskSteps, AdvanceGoes
      <3> QED BY <1>a, <1>c, <3>1, <3>2, <3>5, CustodyGoes
    <2>4. CASE SealKeyFails(t)
      <3>1. UNCHANGED <<rows, kept, wiped, volatile, residue>> /\ (Seals(t, Me) \/ Refuses(t))
        BY <2>1, <2>4 DEF SealKeyFails, Writes, Seals, Refuses
      <3>2. ASSUME Seals(t, Me) PROVE MeKept
        BY <1>a, <1>b, <2>2, <3>1, <3>2, SealsMe DEF MeKept
      <3>3. ASSUME Refuses(t) PROVE MeKept
        <4>1. MeSame
          BY <3>3 DEF Refuses, Refused, MeSame, place
        <4> QED BY <1>a, <3>1, <4>1, SameSafe
      <3>4. MeKept /\ (ld'.pc = "blank" => Safe')
        BY <1>a, <1>c, <3>1, <3>2, <3>3 DEF SealedInv, MeKept
      <3>5. task'[t] = [task[t] EXCEPT !.fp = None, !.pc = "next"]
        BY <1>d, <2>4 DEF SealKeyFails, NextKey
      <3>6. task'[t].pc = "next"
        BY <1>b, <3>5 DEF Goroutines
      <3>7. \A u \in Tasks : Goes(task'[u], task[u])
        BY <1>a, <2>4, <3>6, KeyTaskSteps, AdvanceGoes
      <3> QED BY <1>a, <1>c, <3>1, <3>4, <3>7, CustodyGoes
    <2> QED BY <1>1, <2>3, <2>4
  <1>2. ASSUME UNCHANGED <<rows, kept, wiped, volatile, residue>>, UNCHANGED <<provider, entries, sealed>>,
               \A u \in Tasks : Goes(task'[u], task[u])
        PROVE  CustodyInv'
    <2>1. MeSame
      BY <1>2 DEF MeSame
    <2> QED BY <1>2, <1>c, <2>1, CustodyQuiet
  <1>3. ASSUME Advances(t) \/ Ends(t), task'[t].pc \notin {"row", "vault"},
               UNCHANGED <<rows, kept, wiped, volatile, residue>>, UNCHANGED <<provider, entries, sealed>>
        PROVE  CustodyInv'
    BY <1>2, <1>3, <1>a, AdvanceGoes
  <1>4. ASSUME NEW k \in Fps, Skip(t, k) PROVE CustodyInv'
    <2>1. task'[t].pc = "next"
      BY <1>b, <1>d, <1>4 DEF Skip, Turn, Goroutines
    <2> QED BY <1>3, <1>4, <1>a, <2>1, KeyTaskSteps DEF Skip, vaultVars, place
  <1>5. ASSUME NEW k \in Fps, StartLookup(t, k) PROVE CustodyInv'
    <2>1. task'[t].pc = "look"
      BY <1>b, <1>d, <1>5 DEF StartLookup, Goroutines
    <2> QED BY <1>3, <1>5, <1>a, <2>1, KeyTaskSteps DEF StartLookup, vaultVars, place
  <1>6. ASSUME NEW k \in Fps, ImportKey(t, k) PROVE CustodyInv'
    <2>1. Advances(t) /\ UNCHANGED <<rows, kept, wiped, volatile, residue>> /\ UNCHANGED <<provider, entries, sealed>>
      BY <1>6, <1>a, KeyTaskSteps DEF ImportKey, vaultDisk, place
    <2>2. \/ task[t].op = "private" /\ Becomes(t, [task[t] EXCEPT !.todo = @ \ {k}, !.fp = k, !.pc = "seal"])
          \/ task[t].op = "public" /\ Becomes(t, [task[t] EXCEPT !.todo = @ \ {k}, !.fp = k, !.pc = "row"])
      BY <1>6 DEF ImportKey
    <2>3. task'[t].pc = "seal" \/ task'[t].op = "public"
      BY <1>b, <1>d, <2>2 DEF Goroutines
    <2> QED BY <1>2, <1>a, <2>1, <2>3, AdvanceGoes
  <1>7. ASSUME LookupFinds(t) PROVE CustodyInv'
    <2>1. Advances(t) /\ UNCHANGED <<rows, kept, wiped, volatile, residue>> /\ UNCHANGED <<provider, entries, sealed>>
      BY <1>7, <1>a, KeyTaskSteps DEF LookupFinds, vaultVars, place
    <2>2. task[t].op \in Bringers
      BY <1>b, <1>7 DEF LookupFinds, ShapeOf, Bringers, Goroutines, Ops, NoTask
    <2>3. task'[t].op = task[t].op
      BY <1>b, <1>d, <1>7 DEF LookupFinds, Move, Goroutines
    <2> QED BY <1>2, <1>a, <2>1, <2>2, <2>3, AdvanceGoes DEF Bringers
  <1>8. ASSUME LookupFails(t) \/ StoreKeyRowFails(t) PROVE CustodyInv'
    <2>a. NoTask.pc = "out"
      BY DEF NoTask
    <2>b. ASSUME LookupFails(t) PROVE task'[t].pc \in {"out", "next"}
      <3>1. \/ task'[t] = NoTask
            \/ task'[t] = [task[t] EXCEPT !.fp = None, !.pc = "next", !.miss = TRUE]
        BY <1>d, <2>b DEF LookupFails
      <3> QED BY <1>b, <2>a, <3>1 DEF Goroutines
    <2>c. ASSUME StoreKeyRowFails(t) PROVE task'[t].pc \in {"out", "next"}
      <3>1. task'[t] = [task[t] EXCEPT !.fp = None, !.pc = "next"]
        BY <1>d, <2>c DEF StoreKeyRowFails, NextKey
      <3> QED BY <1>b, <3>1 DEF Goroutines
    <2>1. task'[t].pc \in {"out", "next"}
      BY <1>8, <2>b, <2>c
    <2> QED BY <1>3, <1>8, <1>a, <2>1, KeyTaskSteps DEF LookupFails, StoreKeyRowFails, vaultVars, place
  <1>9. ASSUME DeleteRowFails(t) \/ ((Build(t) \/ EnqueueFails(t) \/ Finish(t)) /\ UNCHANGED <<vaultVars, keyVars>>)
        PROVE  CustodyInv'
    <2>1. Ends(t) /\ UNCHANGED <<vaultVars, keyVars>>
      BY <1>9 DEF DeleteRowFails, Build, EnqueueFails, Finish
    <2>2. task'[t].pc = "out"
      BY <1>d, <2>1 DEF Ends, NoTask
    <2> QED BY <1>3, <2>1, <2>2 DEF vaultVars, place
  <1> QED BY <1>1, <1>4, <1>5, <1>6, <1>7, <1>8, <1>9 DEF TaskStep

(***************************************************************************)
(* A row is stored: a private one only with the key sealed, unless a       *)
(* deletion came between, and then nothing is recorded as kept.            *)
(***************************************************************************)
LEMMA CustodyStores ==
    ASSUME CommonInv, Shapes', CleanAlone', NEW t \in Tasks, StoreKeyRow(t), UNCHANGED ld PROVE CustodyInv'
  <1>a. TypeOK /\ Shapes /\ TaskOK /\ CleanAlone /\ KeptInv /\ SealedInv /\ WipedInv /\ Hidden /\ RowGone
    BY DEF CommonInv, CustodyInv, TypeOK
  <1>b. task[t] \in Goroutines /\ ShapeOf(task[t]) /\ task[t].pc = "row" /\ task[t].op # "delete"
    BY <1>a DEF TaskOK, Shapes, StoreKeyRow
  <1> DEFINE x == task[t].fp
             private == task[t].op = "private"
  <1>c. task[t].op \in Bringers \cup {"private"} /\ x \in Fps /\ (private => x = Me)
    BY <1>b DEF ShapeOf, Bringers, Goroutines, Ops, NoTask, Fps
  <1>d. /\ UNCHANGED <<wiped, volatile, residue, provider, sealed, entries>> /\ rows' = Upserted(t)
        /\ (kept' <=> kept \/ (private /\ task[t].clean)) /\ NextKey(t)
    BY DEF StoreKeyRow, vaultVars, place, marks
  <1>e. /\ rows \in [Fps -> RowKinds] /\ Me \in Fps /\ wiped \subseteq Fps /\ None \notin Fps
    BY <1>a, KeysAssumption DEF TypeOK, RingOK, Fps
  <1>f. /\ rows'[x] = (IF private THEN "sealed" ELSE "pub")
        /\ \A k \in Fps : k # x => rows'[k] = rows[k]
    BY <1>c, <1>d, <1>e DEF Upserted
  <1>g. /\ task'[t].pc = "next" /\ task'[t].op = task[t].op /\ task'[t].todo = task[t].todo
        /\ task'[t].fp = None /\ task'[t].clean = task[t].clean
        /\ \A u \in Tasks : u # t => task'[u] = task[u]
    <2>1. /\ task'[t] = [task[t] EXCEPT !.fp = None, !.pc = "next"]
          /\ \A u \in Tasks : u # t => task'[u] = task[u]
      BY <1>a, <1>d, BecomesIs DEF NextKey
    <2> QED BY <1>b, <2>1 DEF Goroutines
  <1>h. Safe' <=> Safe
    BY <1>d DEF Safe
  <1>i. ASSUME NEW u \in Tasks, Deletes(task[u], Me), private, task[t].clean PROVE FALSE
    <2>1. Me \in About(task[t]) /\ Me \in About(task[u])
      BY <1>c, <1>e, <1>i DEF About, Deletes
    <2>2. Clash(task[t], task[u])
      BY <1>b, <1>i, <2>1, ClashIs DEF Deletes
    <2> QED BY <1>a, <1>i, <2>2 DEF CleanAlone
  <1>j. private /\ task[t].clean => Safe
    BY <1>a, <1>b DEF SealedInv
  <1>1. KeptInv'
    <2> SUFFICES ASSUME kept' PROVE KeptInv'
      BY DEF KeptInv
    <2>1. \A u \in Tasks : ~Deletes(task'[u], Me)
      <3>1. \A u \in Tasks : ~Deletes(task[u], Me)
        BY <1>a, <1>d, <1>i DEF KeptInv
      <3> QED BY <1>b, <1>g, <3>1 DEF Deletes
    <2>2. Safe \/ (kept /\ \A u \in Tasks : task[u].op = "private" => task[u].clean)
      BY <1>a, <1>d, <1>j DEF KeptInv
    <2>3. rows'[Me] # "none" /\ (rows'[Me] = "sealed" => Safe)
      <3>1. CASE private
        BY <1>c, <1>f, <1>j, <2>2, <3>1
      <3>2. CASE ~private
        <4>1. kept
          BY <1>d, <3>2
        <4> QED BY <1>a, <1>e, <1>f, <3>2, <4>1 DEF KeptInv
      <3> QED BY <3>1, <3>2
    <2>4. Safe \/ \A u \in Tasks : task'[u].op = "private" => task'[u].clean
      BY <1>g, <2>2
    <2> QED BY <1>h, <2>1, <2>3, <2>4 DEF KeptInv, Deletes
  <1>2. SealedInv'
    BY <1>a, <1>g, <1>h DEF SealedInv
  <1>3. WipedInv'
    <2>1. x \notin wiped
      BY <1>a, <1>b DEF WipedInv
    <2> QED BY <1>a, <1>b, <1>d, <1>e, <1>f, <1>g, <2>1 DEF WipedInv
  <1>4. RowGone'
    <2> SUFFICES ASSUME NEW u \in Tasks, task'[u].op = "delete", task'[u].pc = "vault", task'[u].clean
                 PROVE  rows'[task'[u].fp] = "none"
      BY DEF RowGone
    <2>1. u # t /\ task'[u] = task[u]
      BY <1>g
    <2>2. rows[task[u].fp] = "none" /\ task[u].fp \in Fps
      BY <1>a, <2>1 DEF RowGone, Shapes, ShapeOf
    <2>3. task[u].fp # x
      <3>1. ~Clash(task[u], task[t])
        BY <1>a, <2>1 DEF CleanAlone
      <3> QED BY <1>b, <1>c, <2>1, <3>1, ClashIs DEF About
    <2> QED BY <1>f, <2>1, <2>2, <2>3
  <1>5. Hidden'
    BY <1>a, <1>d DEF Hidden
  <1> QED BY <1>1, <1>2, <1>3, <1>4, <1>5 DEF CustodyInv

LEMMA CustodyDeletesRow ==
    ASSUME CommonInv, Shapes', CleanAlone', NEW t \in Tasks, DeleteRow(t), UNCHANGED ld PROVE CustodyInv'
  <1>a. TypeOK /\ Shapes /\ TaskOK /\ KeptInv /\ SealedInv /\ WipedInv /\ Hidden /\ RowGone
    BY DEF CommonInv, CustodyInv, TypeOK
  <1>b. task[t] \in Goroutines /\ ShapeOf(task[t]) /\ task[t].pc = "row" /\ task[t].op = "delete"
    BY <1>a DEF TaskOK, Shapes, DeleteRow
  <1> DEFINE x == task[t].fp
  <1>c. x \in Fps
    BY <1>b DEF ShapeOf
  <1>d. /\ UNCHANGED <<kept, wiped, volatile, residue, provider, sealed, entries>>
        /\ rows' = [rows EXCEPT ![x] = "none"] /\ Move(t, "vault")
    BY DEF DeleteRow, vaultVars, place, marks
  <1>e. /\ rows \in [Fps -> RowKinds] /\ Me \in Fps /\ wiped \subseteq Fps
    BY <1>a DEF TypeOK, RingOK, Fps
  <1>f. rows'[x] = "none" /\ \A k \in Fps : k # x => rows'[k] = rows[k]
    BY <1>c, <1>d, <1>e
  <1>g. /\ task'[t].pc = "vault" /\ task'[t].op = "delete" /\ task'[t].fp = x
        /\ \A u \in Tasks : u # t => task'[u] = task[u]
    <2>1. /\ task'[t] = [task[t] EXCEPT !.pc = "vault"]
          /\ \A u \in Tasks : u # t => task'[u] = task[u]
      BY <1>a, <1>d, BecomesIs DEF Move
    <2> QED BY <1>b, <2>1 DEF Goroutines
  <1>h. Safe' <=> Safe
    BY <1>d DEF Safe
  <1>1. KeptInv'
    <2>1. kept => x # Me
      BY <1>a, <1>b DEF KeptInv, Deletes
    <2> QED BY <1>a, <1>b, <1>d, <1>e, <1>f, <1>g, <1>h, <2>1 DEF KeptInv, Deletes
  <1>2. SealedInv'
    BY <1>a, <1>g, <1>h DEF SealedInv
  <1>3. WipedInv'
    BY <1>a, <1>d, <1>e, <1>f, <1>g DEF WipedInv
  <1>4. RowGone'
    <2> SUFFICES ASSUME NEW u \in Tasks, task'[u].op = "delete", task'[u].pc = "vault", task'[u].clean
                 PROVE  rows'[task'[u].fp] = "none"
      BY DEF RowGone
    <2>1. CASE u = t
      BY <1>f, <1>g, <2>1
    <2>2. CASE u # t
      <3>1. rows[task[u].fp] = "none" /\ task[u].fp \in Fps
        BY <1>a, <1>g, <2>2 DEF RowGone, Shapes, ShapeOf
      <3> QED BY <1>f, <1>g, <2>2, <3>1
    <2> QED BY <2>1, <2>2
  <1>5. Hidden'
    BY <1>a, <1>d DEF Hidden
  <1> QED BY <1>1, <1>2, <1>3, <1>4, <1>5 DEF CustodyInv

(***************************************************************************)
(* The sealed copy goes, or is gone from memory only.                      *)
(***************************************************************************)
LEMMA CustodyUnseals ==
    ASSUME CommonInv, Shapes', CleanAlone', NEW t \in Tasks, DeleteSealed(t) \/ DeleteSealedFails(t), UNCHANGED ld
    PROVE  CustodyInv'
  <1>a. TypeOK /\ Shapes /\ TaskOK /\ LoaderInv /\ CleanAlone /\ KeptInv /\ SealedInv /\ WipedInv /\ Hidden
        /\ RowGone
    BY DEF CommonInv, CustodyInv, TypeOK
  <1>b. task[t] \in Goroutines /\ ShapeOf(task[t]) /\ task[t].pc = "vault" /\ task[t].op = "delete"
    BY <1>a DEF TaskOK, Shapes, DeleteSealed, DeleteSealedFails
  <1> DEFINE x == task[t].fp
  <1>c. /\ x \in Fps /\ None \notin Fps /\ wiped \subseteq Fps /\ Me \in Aliases /\ Me \in Fps
        /\ (x \in Aliases => x = Me) /\ \A k \in Fps : k \in Aliases => k = Me
    BY <1>a, <1>b, KeysAssumption DEF ShapeOf, TypeOK, RingOK, Fps
  <1>d. entries \in [Aliases -> Nat] /\ sealed \in [Aliases -> Nat]
    BY <1>a DEF TypeOK, VaultTypeOK
  <1>e. UNCHANGED <<rows, kept, volatile, provider>> /\ Ends(t)
    BY DEF DeleteSealed, DeleteSealedFails, place
  <1>f. /\ task'[t].op = "none" /\ task'[t].todo = {} /\ task'[t].fp = None
        /\ \A u \in Tasks : u # t => task'[u] = task[u]
    BY <1>a, <1>e, BecomesIs DEF Ends, NoTask
  <1>g. x # Me => UNCHANGED <<entries, sealed>> /\ (Me \in residue' <=> Me \in residue)
    <2> SUFFICES ASSUME x # Me PROVE UNCHANGED <<entries, sealed>> /\ (Me \in residue' <=> Me \in residue)
      OBVIOUS
    <2>1. x \notin Aliases
      BY <1>c
    <2> QED BY <2>1 DEF DeleteSealed, DeleteSealedFails, DropSealed
  <1>h. x = Me => /\ entries'[Me] = 0 /\ sealed'[Me] \in {sealed[Me], 0}
                  /\ Me \notin residue' => sealed'[Me] = 0
    <2> SUFFICES ASSUME x = Me
                 PROVE  /\ entries'[Me] = 0 /\ sealed'[Me] \in {sealed[Me], 0}
                        /\ Me \notin residue' => sealed'[Me] = 0
      OBVIOUS
    <2>1. Dropping(Me)[Me] = 0
      BY <1>c, <1>d DEF Dropping
    <2>2. CASE DeleteSealedFails(t)
      <3>1. entries' = Dropping(Me) /\ sealed' = sealed /\ Me \in residue'
        BY <2>2 DEF DeleteSealedFails, PersistFails
      <3> QED BY <2>1, <3>1
    <2>3. CASE DeleteSealed(t) /\ entries[Me] = 0
      <3>1. UNCHANGED <<entries, sealed>> /\ (provider = "memory" => Me \in residue')
            /\ (provider # "memory" => residue' = residue)
        BY <1>c, <2>3 DEF DeleteSealed, DropSealed, Deleted
      <3> QED BY <1>a, <2>3, <3>1 DEF Hidden
    <2>4. CASE DeleteSealed(t) /\ entries[Me] # 0
      <3>1. /\ entries' = Dropping(Me) /\ sealed' = (IF provider = "memory" THEN sealed ELSE Dropping(Me))
            /\ provider = "memory" => Me \in residue'
        BY <1>c, <2>4 DEF DeleteSealed, DropSealed, Deleted, persistLocked
      <3> QED BY <2>1, <3>1
    <2> QED BY <2>2, <2>3, <2>4
  <1>i. \A u \in Tasks : Deletes(task[u], Me) /\ u = t => ~kept
    BY <1>a DEF KeptInv
  <1>j. kept => x # Me
    BY <1>a, <1>b DEF KeptInv, Deletes
  <1>1. KeptInv'
    BY <1>a, <1>e, <1>f, <1>g, <1>j DEF KeptInv, Deletes, Safe
  <1>2. SealedInv'
    <2>1. ld.pc # "blank"
      BY <1>a, <1>b DEF LoaderInv, Boot
    <2>2. ASSUME NEW u \in Tasks, task'[u].op = "private", task'[u].pc = "row", task'[u].clean PROVE Safe'
      <3>1. u # t /\ task'[u] = task[u]
        BY <1>f, <2>2
      <3>2. Safe /\ task[u].fp = Me
        BY <1>a, <2>2, <3>1 DEF SealedInv, Shapes, ShapeOf
      <3>3. ~Clash(task[u], task[t])
        BY <1>a, <2>2, <3>1 DEF CleanAlone
      <3>4. x # Me
        BY <1>b, <1>c, <2>2, <3>1, <3>2, <3>3, ClashIs DEF About
      <3> QED BY <1>e, <1>g, <3>2, <3>4 DEF Safe
    <2> QED BY <2>1, <2>2 DEF SealedInv
  <1>3. WipedInv'
    <2>1. ASSUME NEW k \in wiped
          PROVE  /\ rows'[k] = "none" /\ k \notin ld'.todo /\ ld'.fp # k
                 /\ k \in Aliases /\ k \notin residue' => sealed'[k] = 0 /\ entries'[k] = 0
                 /\ \A u \in Tasks : task'[u].op # "delete" => k \notin task'[u].todo \cup {task'[u].fp}
      <3>1. rows'[k] = "none" /\ k \notin ld'.todo /\ ld'.fp # k
        BY <1>a, <1>e, <2>1 DEF WipedInv
      <3>2. k \in Aliases /\ k \notin residue' => sealed'[k] = 0 /\ entries'[k] = 0
        BY <1>a, <1>c, <1>g, <1>h, <2>1 DEF WipedInv
      <3>3. \A u \in Tasks : task'[u].op # "delete" => k \notin task'[u].todo \cup {task'[u].fp}
        BY <1>a, <1>c, <1>f, <2>1 DEF WipedInv
      <3> QED BY <3>1, <3>2, <3>3
    <2>2. ASSUME x \in wiped', x \notin wiped
          PROVE  /\ rows'[x] = "none" /\ x \notin ld'.todo /\ ld'.fp # x
                 /\ x \in Aliases /\ x \notin residue' => sealed'[x] = 0 /\ entries'[x] = 0
                 /\ \A u \in Tasks : task'[u].op # "delete" => x \notin task'[u].todo \cup {task'[u].fp}
      <3>1. task[t].clean
        BY <2>2 DEF DeleteSealed, DeleteSealedFails, Wipes
      <3>2. rows'[x] = "none"
        BY <1>a, <1>b, <1>e, <3>1 DEF RowGone
      <3>3. ld.todo = {} /\ ld.fp = None
        BY <1>a, <1>b DEF LoaderInv, Boot
      <3>4. ASSUME NEW u \in Tasks, task'[u].op # "delete" PROVE x \notin task'[u].todo \cup {task'[u].fp}
        <4>1. CASE u = t
          BY <1>c, <1>f, <4>1
        <4>2. CASE u # t
          <5>1. ~Clash(task[t], task[u])
            BY <1>a, <3>1 DEF CleanAlone
          <5> QED BY <1>b, <1>c, <1>f, <3>4, <4>2, <5>1, ClashIs DEF About
        <4> QED BY <4>1, <4>2
      <3> QED BY <1>c, <1>h, <3>2, <3>3, <3>4
    <2>3. wiped' \subseteq wiped \cup {x}
      BY DEF DeleteSealed, DeleteSealedFails, Wipes
    <2> QED BY <2>1, <2>2, <2>3 DEF WipedInv
  <1>4. RowGone'
    BY <1>a, <1>e, <1>f DEF RowGone
  <1>5. Hidden'
    BY <1>a, <1>e, <1>g, <1>h DEF Hidden
  <1> QED BY <1>1, <1>2, <1>3, <1>4, <1>5 DEF CustodyInv

(***************************************************************************)
(* Every step keeps the invariant of custody.                              *)
(***************************************************************************)
LEMMA CustodyStarts ==
    ASSUME CommonInv, Shapes', CleanAlone', Start PROVE CustodyInv'
  <1>a. TypeOK /\ TaskOK /\ SendOK /\ VaultTypeOK
    BY DEF CommonInv, TypeOK
  <1>b. ASSUME UNCHANGED task PROVE \A t \in Tasks : Goes(task'[t], task[t])
    BY <1>b DEF Goes
  <1>c. ASSUME UNCHANGED vaultVars PROVE MeSame
    BY <1>c DEF vaultVars, MeSame, place
  <1>1. CASE BringsKeys /\ UNCHANGED <<vaultVars, ld>>
    BY <1>1, <1>c, CustodyBrings
  <1>2. ASSUME NEW k \in pgpRows, DeletePGPKey(k), UNCHANGED <<vaultVars, ld>> PROVE CustodyInv'
    BY <1>2, CustodyRemove
  <1>3. ASSUME StoreCredential \/ DeleteCredential \/ execSyncPrivateKey, UNCHANGED <<keyVars, task, ld>>
        PROVE  CustodyInv'
    <2>1. MeSame
      BY <1>a, <1>3, EngineVaults, CredSame
    <2> QED BY <1>3, <1>b, <2>1, CustodyQuiet DEF keyVars, marks
  <1>4. CASE UNCHANGED <<vaultVars, keyVars, task, ld>>
    BY <1>4, <1>b, <1>c, CustodyQuiet DEF keyVars, marks
  <1>5. CASE Send /\ UNCHANGED <<vaultVars, keyVars, ld>>
    <2>1. PICK r \in Goroutines : StartsSend(r)
      BY <1>5, <1>a, SendStarts
    <2>2. r.op = "send" /\ About(r) = {}
      BY <2>1, KeysAssumption DEF StartsSend, ShapeOf, About
    <2>3. PICK f \in Tasks : Becomes(f, r)
      BY <1>a, <2>1, SendTakes DEF StartsSend
    <2>4. \A t \in Tasks : Goes(task'[t], task[t])
      BY <1>a, <2>2, <2>3, BecomesIs DEF Goes
    <2> QED BY <1>5, <1>c, <2>4, CustodyQuiet DEF keyVars, marks
  <1> QED BY <1>1, <1>2, <1>3, <1>4, <1>5, KeyStarts, MissingBrings
      DEF Start, ComposeStep, ReadStep, NewDraft, Back, ToggleSign, ToggleEncrypt

LEMMA CustodyStep ==
    ASSUME CommonInv, Shapes', CleanAlone', [Next]_vars PROVE CustodyInv'
  <1>a. TypeOK /\ VaultTypeOK
    BY DEF CommonInv, TypeOK
  <1>b. ASSUME UNCHANGED task PROVE \A t \in Tasks : Goes(task'[t], task[t])
    BY <1>b DEF Goes
  <1>c. ASSUME UNCHANGED vaultVars PROVE MeSame
    BY <1>c DEF vaultVars, MeSame, place
  <1>1. CASE Start
    BY <1>1, CustodyStarts
  <1>2. CASE FrameStep \/ LoopStep \/ LoopTrouble \/ UNCHANGED vars
    <2>1. UNCHANGED <<vaultVars, keyVars, task>> /\ (UNCHANGED ld \/ LoopStep \/ LoopTrouble)
      BY <1>2 DEF FrameStep, FoldKeyResult, Land, LoopStep, LoopTrouble, vars
    <2> QED BY <1>b, <1>c, <2>1, CustodyQuiet DEF keyVars, marks
  <1>3. CASE EngineStep
    <2>1. MeSame /\ UNCHANGED ld
      BY <1>a, <1>3, EngineVaults, CredSame DEF EngineStep
    <2>2. CASE BringsKeys
      BY <2>1, <2>2, CustodyBrings
    <2>3. CASE UNCHANGED <<keyVars, task>>
      BY <1>b, <2>1, <2>3, CustodyQuiet DEF keyVars, marks
    <2> QED BY <1>3, <2>2, <2>3, EngineBrings
  <1>4. CASE LoadStep
    BY <1>4, CustodyLoads, CustodyBlanks
  <1>5. CASE Death
    BY <1>5, CustodyDies
  <1>6. ASSUME NEW t \in Tasks, TaskStep(t) PROVE CustodyInv'
    <2>1. UNCHANGED ld
      BY <1>6 DEF TaskStep
    <2> QED BY <1>6, <2>1, CustodySteps, CustodyStores, CustodyDeletesRow, CustodyUnseals
  <1>7. ASSUME NEW t \in Threads, VaultStep(t) PROVE CustodyInv'
    <2>1. MeSame
      BY <1>7, <1>a, CredSame DEF VaultStep
    <2>2. UNCHANGED <<keyVars, task, ld>>
      BY <1>7 DEF VaultStep
    <2> QED BY <1>b, <2>1, <2>2, CustodyQuiet DEF keyVars, marks
  <1> QED BY <1>1, <1>2, <1>3, <1>4, <1>5, <1>6, <1>7 DEF Next, LoaderStep

-----------------------------------------------------------------------------
(***************************************************************************)
(* The composer.  Goroutines that build are the same before and after a    *)
(* step, unless it sends, one of them is done, or all die.                 *)
(***************************************************************************)
SameSend(r, q) == (r.op = "send" <=> q.op = "send") /\ (q.op = "send" => r = q)

LEMMA SendsStay ==
    ASSUME TaskOK, Shapes, NEW t \in Tasks, Advances(t) \/ (Ends(t) /\ task[t].op # "send")
    PROVE  \A u \in Tasks : SameSend(task'[u], task[u])
  <1>1. CASE Advances(t)
    <2>1. PICK r \in Goroutines : Becomes(t, r) /\ Follows(r, task[t])
      BY <1>1 DEF Advances
    <2> QED BY <2>1, BecomesIs DEF Follows, SameSend
  <1>2. CASE Ends(t) /\ task[t].op # "send"
    <2>1. NoTask.op # "send"
      BY DEF NoTask
    <2> QED BY <1>2, <2>1, BecomesIs DEF Ends, SameSend
  <1> QED BY <1>1, <1>2

LEMMA StartsStay ==
    ASSUME TaskOK, Shapes, NEW r \in Goroutines, Starts(r)
    PROVE  \A u \in Tasks : SameSend(task'[u], task[u])
  <1>1. PICK f \in Tasks :
             /\ task[f].op = "none"
             /\ task'[f] = [r EXCEPT !.clean = \A t \in Tasks : ~Clash(r, task[t])]
             /\ \A u \in Tasks : u # f =>
                  task'[u] = IF Clash(r, task[u]) THEN [task[u] EXCEPT !.clean = FALSE] ELSE task[u]
    BY SpawnTakes DEF Starts
  <1>2. task'[f].op = r.op /\ r.op # "send"
    BY <1>1 DEF Starts, Goroutines
  <1>3. ASSUME NEW u \in Tasks, u # f PROVE SameSend(task'[u], task[u])
    <2>1. task[u] \in Goroutines /\ ShapeOf(task[u])
      BY DEF TaskOK, Shapes
    <2>2. CASE Clash(r, task[u])
      <3>1. task'[u] = [task[u] EXCEPT !.clean = FALSE]
        BY <1>1, <1>3, <2>2
      <3>2. task'[u].op = task[u].op
        BY <2>1, <3>1 DEF Goroutines
      <3>3. task[u].op # "send"
        <4>1. About(task[u]) # {}
          BY <2>2, ClashIs
        <4> QED BY <2>1, <4>1, KeysAssumption DEF ShapeOf, About
      <3> QED BY <3>2, <3>3 DEF SameSend
    <2>3. CASE ~Clash(r, task[u])
      BY <1>1, <1>3, <2>3 DEF SameSend
    <2> QED BY <2>2, <2>3
  <1> QED BY <1>1, <1>2, <1>3 DEF SameSend

(***************************************************************************)
(* What the composer shows while nothing is sent: the draft at hand stays, *)
(* is left, or is a new one.                                               *)
(***************************************************************************)
LEMMA DraftQuiet ==
    ASSUME DraftInv, UNCHANGED <<outbox, told, promise, gone>>,
           \A u \in Tasks : SameSend(task'[u], task[u]),
           comp'.d # 0 => promise[comp'.d] = "none" \/ (comp'.d = comp.d /\ flying' = flying)
    PROVE  DraftInv'
  <1>1. BuildersKeep'
    BY DEF DraftInv, BuildersKeep, SameSend
  <1>2. QueuedWasSent' /\ SecretStaysSecret'
    BY DEF DraftInv, QueuedWasSent, SecretStaysSecret
  <1>3. SentFlies'
    BY DEF DraftInv, SentFlies
  <1>4. DraftAccounted'
    BY DEF DraftInv, DraftAccounted, SameSend
  <1> QED BY <1>1, <1>2, <1>3, <1>4 DEF DraftInv

LEMMA DraftInit == Init => DraftInv
  <1> SUFFICES ASSUME Init PROVE DraftInv
    OBVIOUS
  <1>1. /\ \A t \in Tasks : task[t].op = "none"
        /\ \A d \in Drafts : outbox[d] = "none" /\ promise[d] = "none"
        /\ comp.d = 0
    BY DEF Init, NoTask, NoComp
  <1> QED BY <1>1 DEF DraftInv, BuildersKeep, QueuedWasSent, SentFlies, SecretStaysSecret, DraftAccounted

(***************************************************************************)
(* Send: the draft at hand was not sent before, as one that was flies.     *)
(***************************************************************************)
LEMMA DraftSends ==
    ASSUME TypeOK, Shapes, DraftInv, Send, UNCHANGED gone PROVE DraftInv'
  <1>a. TaskOK /\ SendOK /\ BuildersKeep /\ QueuedWasSent /\ SentFlies /\ SecretStaysSecret /\ DraftAccounted
    BY DEF TypeOK, DraftInv
  <1> DEFINE d == comp.d
             secret == comp.enc \/ HasKeyFor(Pal)
  <1>b. PICK r \in Goroutines : StartsSend(r) /\ r.d = d /\ r.d \in Drafts /\ (r.enc <=> secret)
    BY <1>a, SendStarts
  <1>c. /\ promise' = [promise EXCEPT ![d] = IF secret THEN "secret" ELSE "open"]
        /\ comp' = [comp EXCEPT !.enc = Encrypts] /\ ~flying /\ flying' = TRUE
        /\ UNCHANGED <<outbox, told>>
    BY DEF Send
  <1> HIDE DEF secret
  <1>d. promise[d] = "none" /\ outbox[d] = "none"
    <2>1. d # 0
      BY DEF Send
    <2> QED BY <1>a, <1>b, <1>c, <2>1 DEF SentFlies, QueuedWasSent
  <1>e. /\ promise'[d] = (IF secret THEN "secret" ELSE "open")
        /\ \A e \in Drafts : e # d => promise'[e] = promise[e]
    BY <1>a, <1>b, <1>c DEF SendOK
  <1>f. PICK f \in Tasks : task[f].op = "none" /\ Becomes(f, r)
    BY <1>a, <1>b, SendTakes DEF StartsSend
  <1>g. task'[f] = r /\ r.op = "send" /\ \A u \in Tasks : u # f => task'[u] = task[u]
    BY <1>a, <1>b, <1>f, BecomesIs DEF StartsSend
  <1>h. ASSUME NEW u \in Tasks, task[u].op = "send" PROVE task[u].d \in Drafts /\ task[u].d # d
    BY <1>a, <1>d, <1>h DEF Shapes, ShapeOf, BuildersKeep
  <1>1. BuildersKeep'
    <2>1. promise'[r.d] # "none" /\ (~r.enc => promise'[r.d] = "open")
      BY <1>b, <1>e
    <2>2. ASSUME NEW u \in Tasks, u # f, task'[u].op = "send"
          PROVE  promise'[task'[u].d] # "none" /\ (~task'[u].enc => promise'[task'[u].d] = "open")
      BY <1>a, <1>e, <1>g, <1>h, <2>2 DEF BuildersKeep
    <2> QED BY <1>g, <2>1, <2>2 DEF BuildersKeep
  <1>2. QueuedWasSent' /\ SecretStaysSecret'
    BY <1>a, <1>c, <1>d, <1>e DEF QueuedWasSent, SecretStaysSecret
  <1>3. SentFlies'
    BY <1>c DEF SentFlies
  <1>4. DraftAccounted'
    <2> SUFFICES ASSUME NEW e \in Drafts, promise'[e] # "none"
                 PROVE  \/ outbox'[e] # "none" \/ e \in told' \cup gone'
                        \/ \E t \in Tasks : task'[t].op = "send" /\ task'[t].d = e
      BY DEF DraftAccounted
    <2>1. CASE e = d
      BY <1>b, <1>g, <2>1
    <2>2. CASE e # d
      <3>1. ASSUME NEW t \in Tasks, task[t].op = "send", task[t].d = e
            PROVE  task'[t].op = "send" /\ task'[t].d = e
        BY <1>f, <1>g, <3>1
      <3> QED BY <1>a, <1>c, <1>e, <2>2, <3>1 DEF DraftAccounted
    <2> QED BY <2>1, <2>2
  <1> QED BY <1>1, <1>2, <1>3, <1>4 DEF DraftInv

(***************************************************************************)
(* The goroutine is done: the message is queued in the form that was       *)
(* promised, or the user is told.                                          *)
(***************************************************************************)
LEMMA DraftBuilt ==
    ASSUME TypeOK, Shapes, DraftInv, NEW t \in Tasks, Build(t) \/ EnqueueFails(t), UNCHANGED gone
    PROVE  DraftInv'
  <1>a. TaskOK /\ SendOK /\ BuildersKeep /\ QueuedWasSent /\ SentFlies /\ SecretStaysSecret /\ DraftAccounted
    BY DEF TypeOK, DraftInv
  <1> DEFINE d == task[t].d
  <1>b. task[t] \in Goroutines /\ ShapeOf(task[t]) /\ task[t].pc = "build"
    BY <1>a DEF TaskOK, Shapes, Build, EnqueueFails
  <1>c. task[t].op = "send" /\ d \in Drafts
    BY <1>b DEF Goroutines, Ops, ShapeOf, Bringers, NoTask
  <1>d. Ends(t) /\ UNCHANGED <<comp, flying, promise>>
    BY DEF Build, EnqueueFails
  <1>e. task'[t].op = "none" /\ \A u \in Tasks : u # t => task'[u] = task[u]
    <2>1. NoTask.op = "none"
      BY DEF NoTask
    <2> QED BY <1>a, <1>d, <2>1, BecomesIs DEF Ends
  <1>f. /\ Form(t) # "none" /\ (Form(t) \in {"clear", "signed"} => ~task[t].enc)
    BY DEF Form
  <1>g. \/ outbox' = [outbox EXCEPT ![d] = Form(t)] /\ UNCHANGED told
        \/ told' = told \cup {d} /\ UNCHANGED outbox
    BY DEF Build, EnqueueFails
  <1>h. /\ \A e \in Drafts : e # d => outbox'[e] = outbox[e]
        /\ outbox'[d] = outbox[d] \/ outbox'[d] = Form(t)
        /\ told \subseteq told' /\ (outbox'[d] # "none" \/ d \in told')
    <2>1. CASE outbox' = [outbox EXCEPT ![d] = Form(t)] /\ UNCHANGED told
      BY <1>a, <1>c, <1>f, <2>1 DEF SendOK
    <2>2. CASE told' = told \cup {d} /\ UNCHANGED outbox
      BY <2>2
    <2> QED BY <1>g, <2>1, <2>2
  <1>i. promise[d] # "none" /\ (~task[t].enc => promise[d] = "open")
    BY <1>a, <1>c DEF BuildersKeep
  <1>1. BuildersKeep'
    BY <1>a, <1>d, <1>e DEF BuildersKeep
  <1>2. QueuedWasSent'
    BY <1>a, <1>d, <1>h, <1>i DEF QueuedWasSent
  <1>3. SecretStaysSecret'
    BY <1>a, <1>c, <1>d, <1>f, <1>h, <1>i DEF SecretStaysSecret
  <1>4. SentFlies'
    BY <1>a, <1>d DEF SentFlies
  <1>5. DraftAccounted'
    <2> SUFFICES ASSUME NEW e \in Drafts, promise[e] # "none"
                 PROVE  \/ outbox'[e] # "none" \/ e \in told' \cup gone'
                        \/ \E u \in Tasks : task'[u].op = "send" /\ task'[u].d = e
      BY <1>d DEF DraftAccounted
    <2>1. CASE e = d
      BY <1>h, <2>1
    <2>2. CASE e # d
      <3>1. ASSUME NEW u \in Tasks, task[u].op = "send", task[u].d = e
            PROVE  task'[u].op = "send" /\ task'[u].d = e
        BY <1>e, <2>2, <3>1
      <3> QED BY <1>a, <1>h, <2>2, <3>1 DEF DraftAccounted
    <2> QED BY <2>1, <2>2
  <1> QED BY <1>1, <1>2, <1>3, <1>4, <1>5 DEF DraftInv

LEMMA DraftDies ==
    ASSUME DraftInv, Death PROVE DraftInv'
  <1>a. BuildersKeep /\ QueuedWasSent /\ SentFlies /\ SecretStaysSecret /\ DraftAccounted
    BY DEF DraftInv
  <1>b. /\ \A t \in Tasks : task'[t].op = "none"
        /\ UNCHANGED <<outbox, told, promise>> /\ comp'.d = 0
        /\ gone' = gone \cup {task[t].d : t \in {u \in Tasks : task[u].op = "send"}}
    BY DEF Death, NoTask, NoComp
  <1>1. BuildersKeep' /\ QueuedWasSent' /\ SentFlies' /\ SecretStaysSecret'
    BY <1>a, <1>b DEF BuildersKeep, QueuedWasSent, SentFlies, SecretStaysSecret
  <1>2. \A t \in Tasks : task[t].op = "send" => task[t].d \in gone'
    BY <1>b
  <1>3. DraftAccounted'
    BY <1>a, <1>b, <1>2 DEF DraftAccounted
  <1> QED BY <1>1, <1>3 DEF DraftInv

LEMMA DraftComposes ==
    ASSUME TypeOK, Shapes, DraftInv, ComposeStep \/ FrameStep PROVE DraftInv'
  <1>a. TaskOK /\ SendOK /\ comp \in [d : Drafts \cup {0}, enc : BOOLEAN, sign : BOOLEAN]
    BY DEF TypeOK, SendOK
  <1>b. ASSUME UNCHANGED task PROVE \A u \in Tasks : SameSend(task'[u], task[u])
    BY <1>b DEF SameSend
  <1>c. UNCHANGED gone /\ NoComp.d = 0
    BY DEF ComposeStep, FrameStep, NoComp
  <1>1. CASE Send
    BY <1>1, <1>c, DraftSends
  <1>2. CASE ToggleEncrypt
    <2>1. BringsKeys \/ UNCHANGED task
      BY <1>2, MissingBrings DEF ToggleEncrypt
    <2>2. \A u \in Tasks : SameSend(task'[u], task[u])
      BY <1>a, <1>b, <2>1, BringsStarts, StartsStay
    <2>3. comp'.d = comp.d /\ UNCHANGED <<flying, outbox, told, promise>>
      BY <1>2, <1>a DEF ToggleEncrypt
    <2> QED BY <1>c, <2>2, <2>3, DraftQuiet
  <1>3. CASE NewDraft
    <2>1. PICK d \in Drafts : promise[d] = "none" /\ comp' = [NoComp EXCEPT !.d = d]
      BY <1>3 DEF NewDraft
    <2>2. comp'.d = d
      BY <2>1 DEF NoComp
    <2> QED BY <1>3, <1>b, <1>c, <2>1, <2>2, DraftQuiet DEF NewDraft
  <1>4. CASE Back \/ Land
    BY <1>4, <1>b, <1>c, DraftQuiet DEF Back, Land
  <1>5. CASE ToggleSign \/ FoldKeyResult
    <2>1. comp'.d = comp.d
      BY <1>5, <1>a DEF ToggleSign, FoldKeyResult
    <2> QED BY <1>5, <1>b, <1>c, <2>1, DraftQuiet DEF ToggleSign, FoldKeyResult
  <1> QED BY <1>1, <1>2, <1>3, <1>4, <1>5 DEF ComposeStep, FrameStep

LEMMA DraftStep ==
    ASSUME TypeOK, Shapes, DraftInv, [Next]_vars PROVE DraftInv'
  <1>a. TaskOK /\ SendOK /\ ReadOK
    BY DEF TypeOK
  <1>b. ASSUME UNCHANGED sendVars, \A u \in Tasks : SameSend(task'[u], task[u]) PROVE DraftInv'
    BY <1>b, DraftQuiet DEF sendVars
  <1>c. ASSUME UNCHANGED task PROVE \A u \in Tasks : SameSend(task'[u], task[u])
    BY <1>c DEF SameSend
  <1>1. CASE Start
    <2>1. ASSUME NEW r \in Goroutines, Starts(r), UNCHANGED sendVars PROVE DraftInv'
      BY <2>1, <1>a, <1>b, StartsStay
    <2> QED BY <1>1, <1>a, <1>b, <1>c, <2>1, KeyStarts, BringsStarts, RemoveStarts, DraftComposes DEF Start, ReadStep
  <1>2. CASE FrameStep
    BY <1>2, DraftComposes
  <1>7. CASE EngineStep
    BY <1>7, <1>a, <1>b, <1>c, EngineBrings, BringsStarts, StartsStay DEF EngineStep
  <1>3. CASE LoaderStep \/ UNCHANGED vars
    BY <1>3, <1>b, <1>c DEF LoaderStep, LoadStep, LoopStep, LoopTrouble, vars
  <1>4. CASE Death
    BY <1>4, DraftDies
  <1>5. ASSUME NEW t \in Tasks, TaskStep(t) PROVE DraftInv'
    <2>a. task[t] \in Goroutines /\ ShapeOf(task[t])
      BY <1>a DEF TaskOK, Shapes
    <2>1. CASE Build(t) \/ EnqueueFails(t)
      <3>1. UNCHANGED gone
        BY <1>5 DEF TaskStep, sendVars
      <3> QED BY <2>1, <3>1, DraftBuilt
    <2>2. CASE ~Build(t) /\ ~EnqueueFails(t)
      <3>1. UNCHANGED <<comp, flying, outbox, told, promise, gone>>
        BY <1>5, <2>2 DEF TaskStep, sendVars, Finish
      <3>2. Ends(t) => task[t].op # "send" \/ Advances(t)
        BY <1>5, <2>a, <2>2, <1>a, KeyTaskSteps
        DEF TaskStep, LookupFails, DeleteRowFails, DeleteSealed, DeleteSealedFails, Finish, ShapeOf
      <3>3. Advances(t) \/ Ends(t)
        BY <1>5, <1>a, KeyTaskSteps
        DEF TaskStep, DeleteRowFails, DeleteSealed, DeleteSealedFails, Build, EnqueueFails, Finish
      <3>4. \A u \in Tasks : SameSend(task'[u], task[u])
        BY <1>a, <3>2, <3>3, SendsStay
      <3> QED BY <3>1, <3>4, DraftQuiet
    <2> QED BY <2>1, <2>2
  <1>6. ASSUME NEW t \in Threads, VaultStep(t) PROVE DraftInv'
    BY <1>6, <1>b, <1>c DEF VaultStep
  <1> QED BY <1>1, <1>2, <1>3, <1>4, <1>5, <1>6, <1>7 DEF Next

-----------------------------------------------------------------------------
(***************************************************************************)
(* The inductive invariant of the whole.                                   *)
(***************************************************************************)
ReaderInv == CommonInv /\ DraftInv

LEMMA ReaderInit == Init => ReaderInv
  <1> SUFFICES ASSUME Init PROVE ReaderInv
    OBVIOUS
  <1>1. Shapes
    BY NoTaskType DEF Init, Shapes
  <1> QED BY <1>1, TypeInit, LoaderInit, VaultInitHolds, CustodyInit, DraftInit DEF ReaderInv, CommonInv

LEMMA ReaderStep == ReaderInv /\ [Next]_vars => ReaderInv'
  <1> SUFFICES ASSUME ReaderInv, [Next]_vars PROVE ReaderInv'
    OBVIOUS
  <1>a. /\ TypeOK /\ Shapes /\ LoaderInv /\ VaultInv /\ CommonInv /\ DraftInv
        /\ VaultTypeOK /\ TaskOK /\ ReadOK /\ SendOK /\ CleanAlone
    BY DEF ReaderInv, CommonInv, TypeOK, CustodyInv
  <1>1. VaultEffect /\ TaskEffect
    BY <1>a, VaultEffects, TaskEffects
  <1>2. VaultTypeOK' /\ VaultInv'
    BY <1>a, <1>1, VaultTypeStep, VaultInvStep
  <1>3. TaskOK' /\ Shapes' /\ CleanAlone'
    BY <1>a, <1>1, TaskKeeps, CleanKeeps
  <1>4. TypeOK'
    BY <1>a, <1>2, <1>3, RestStep DEF RestOK, TypeOK, JobOK
  <1>5. LoaderInv' /\ CustodyInv' /\ DraftInv'
    BY <1>a, <1>3, LoaderStepHolds, CustodyStep, DraftStep
  <1> QED BY <1>2, <1>3, <1>4, <1>5 DEF ReaderInv, CommonInv

LEMMA ReaderAlways == Spec => []ReaderInv
  <1>1. Init => ReaderInv
    BY ReaderInit
  <1>2. ReaderInv /\ [Next]_vars => ReaderInv'
    BY ReaderStep
  <1> QED BY <1>1, <1>2, PTL DEF Spec

(***************************************************************************)
(* Type correctness of the keystore, the goroutines, the loader and the    *)
(* composer.                                                               *)
(***************************************************************************)
THEOREM TypeCorrect == Spec => []TypeOK
  <1>1. ReaderInv => TypeOK
    BY DEF ReaderInv, CommonInv
  <1> QED BY <1>1, ReaderAlways, PTL

(***************************************************************************)
(* sealed.go:49: whichever goroutines race to create a master key,         *)
(* wherever the process dies and whichever provider keystore() chooses at  *)
(* each start (main.go:181), nothing on disk is sealed under a key that    *)
(* lost: the file of the provider that sealed it still holds its key.      *)
(***************************************************************************)
THEOREM NeverOrphaned == Spec => []NothingOrphaned
  <1>1. ReaderInv => NothingOrphaned
    BY DEF ReaderInv, CommonInv, VaultInv
  <1> QED BY <1>1, ReaderAlways, PTL

(***************************************************************************)
(* The sealed keystore, the providers of its master key and the choice     *)
(* among them at every start implement the map of secrets that their       *)
(* callers are promised (keystore.go), failed and refused writes, memory   *)
(* keystores and restarts under another provider included.                 *)
(***************************************************************************)
THEOREM IsPlainMap == Spec => ImplementsMap
  <1>1. Init => Map!MapInit
    <2> SUFFICES ASSUME Init PROVE Map!MapInit
      OBVIOUS
    <2>1. (\A a \in Aliases : sealed[a] = 0 /\ entries[a] = 0) /\ report = "none"
      BY DEF Init, VaultInit
    <2>2. provider \in Map!Providers
      BY DEF Init, VaultInit, Choices, Map!Providers
    <2>3. Readable(entries) = Map!Nothing /\ Readable(sealed) = Map!Nothing
      BY <2>1 DEF Readable, Map!Nothing, Map!Providers, Providers
    <2> QED BY <2>1, <2>2, <2>3 DEF Map!MapInit
  <1>2. ReaderInv /\ [Next]_vars => [Map!MapNext]_(Map!mapVars)
    <2> SUFFICES ASSUME ReaderInv, [Next]_vars PROVE [Map!MapNext]_(Map!mapVars)
      OBVIOUS
    <2>1. /\ TaskOK /\ Shapes /\ LoaderInv /\ VaultTypeOK /\ VaultInv
      BY DEF ReaderInv, CommonInv, TypeOK
    <2> QED BY <2>1, VaultEffects, MapStep
  <1> QED BY <1>1, <1>2, ReaderAlways, PTL DEF Spec, ImplementsMap, Map!MapSpec

(***************************************************************************)
(* pgpstate.go:72: a private key that was imported, or left by an old      *)
(* version, survives restarts and changes of provider until the user asks  *)
(* for its deletion, unless its row was replaced by the public half or     *)
(* only a memory keystore ever took it.                                    *)
(***************************************************************************)
THEOREM KeySurvives == Spec => []PrivateKeySurvives
  <1>1. ReaderInv => PrivateKeySurvives
    <2> SUFFICES ASSUME ReaderInv, kept PROVE PrivateKeySurvives
      BY DEF PrivateKeySurvives
    <2>1. KeptInv /\ NothingOrphaned /\ rows \in [Fps -> RowKinds] /\ Me \in Fps /\ Me \in Aliases
      BY KeysAssumption DEF ReaderInv, CommonInv, CustodyInv, VaultInv, TypeOK, RingOK, Fps
    <2>2. rows[Me] \in RowKinds \ {"none"} /\ (rows[Me] = "sealed" => Safe)
      BY <2>1 DEF KeptInv
    <2>3. Safe => volatile \/ Recoverable(Me)
      BY <2>1 DEF Safe, NothingOrphaned
    <2> QED BY <2>2, <2>3 DEF RowKinds, PrivateKeySurvives
  <1> QED BY <1>1, ReaderAlways, PTL

(***************************************************************************)
(* pgpstate.go:244: once the user was told that the key is deleted, with   *)
(* nothing crossing the deletion, neither its row nor its sealed copy is   *)
(* there, now and after any later death, unless the deletion did not reach *)
(* the sealed file (pgpvault.go:59), which the user is not told.           *)
(***************************************************************************)
THEOREM DeletionHolds == Spec => []DeletedIsGone
  <1>1. ReaderInv => DeletedIsGone
    BY DEF ReaderInv, CommonInv, CustodyInv, WipedInv, DeletedIsGone
  <1> QED BY <1>1, ReaderAlways, PTL

(***************************************************************************)
(* compose.go, Send: a draft that was to be secret is never queued         *)
(* readable, however lookups, toggles and the builder interleave.          *)
(***************************************************************************)
THEOREM StaysSecret == Spec => []SecretStaysSecret
  <1>1. ReaderInv => SecretStaysSecret
    BY DEF ReaderInv, DraftInv
  <1> QED BY <1>1, ReaderAlways, PTL

(***************************************************************************)
(* EnqueueDraft: the composer is emptied before the message is built, and  *)
(* still no draft is dropped without a word.                               *)
(***************************************************************************)
THEOREM NoDraftVanishes == Spec => []DraftAccounted
  <1>1. ReaderInv => DraftAccounted
    BY DEF ReaderInv, DraftInv
  <1> QED BY <1>1, ReaderAlways, PTL

=============================================================================
