------------------------------- MODULE Vault -------------------------------
(***************************************************************************)
(* The sealed keystore (internal/crypto/sealed.go) and the providers of    *)
(* its master key: the key file (FileKeyProvider, published by link(2) or, *)
(* where the platform refuses links, by O_EXCL) and the blob wrapped by    *)
(* the device (platform/android/provider_core.go).  keystore()             *)
(* (cmd/vayumail/main.go) chooses the provider anew at every start, over   *)
(* the same sealed file, or a keystore that lives in memory only.          *)
(* Goroutines seal and open at once and the process may die between any    *)
(* two steps.                                                              *)
(*                                                                         *)
(* A sealed entry is abstracted to the number of the master key it was     *)
(* sealed under, 0 when the alias has none: it opens with that key and     *)
(* with no other.  The memory keystore, which seals nothing, is given a    *)
(* number of its own in each process.                                      *)
(***************************************************************************)
EXTENDS Integers

CONSTANTS Aliases,      \* names of secrets
          Threads,      \* goroutines that call the keystore
          Devices,      \* subset of {"link", "excl", "hardware"}: an Android
                        \* phone refuses links and may have secure hardware
          None

VARIABLES
    device,     \* what the device can do
    provider,   \* whose keystore this process uses
    keyFile,    \* master.key, hardware.key and the memory keystore's number:
                \* 0 absent, -1 created and empty, else a key
    sealed,     \* credentials.sealed
    entries,    \* the map of the one SealedKeystore
    cached,     \* the provider's key, 0 when it has none
    provMu,     \* the goroutine inside MasterKey that creates the key
    at,         \* where each goroutine is in cipher()
    made,       \* keys generated so far
    report      \* what the last write answered its caller

place == <<device, provider>>
vaultDisk == <<keyFile, sealed>>
vaultVars == <<place, keyFile, sealed, entries, cached, provMu, at, made, report>>

Empty == -1
Providers == {"file", "hardware", "memory"}
Stages == {"out", "key", "publish", "write", "ready", "failed"}

VaultTypeOK ==
    /\ device \in Devices /\ provider \in Providers /\ report \in {"none", "saved", "failed"}
    /\ keyFile \in [Providers -> Nat \cup {Empty}] /\ cached \in Nat /\ made \in Nat
    /\ sealed \in [Aliases -> Nat] /\ entries \in [Aliases -> Nat]
    /\ provMu \in Threads \cup {None}
    /\ at \in [Threads -> Stages]

\* keystore(): secure hardware if the probe finds it this time, else the key
\* file, else, or when only secure hardware will do, memory.
Choices == {"file", "memory"} \cup (IF device = "hardware" THEN {"hardware"} ELSE {})

\* A fresh install: no key file, no sealed store.
VaultInit ==
    /\ device \in Devices /\ provider \in Choices /\ report = "none"
    /\ made = 1 /\ keyFile = [p \in Providers |-> IF p = "memory" THEN 1 ELSE 0]
    /\ cached = IF provider = "memory" THEN 1 ELSE 0
    /\ sealed = [a \in Aliases |-> 0] /\ entries = sealed
    /\ provMu = None
    /\ at = [t \in Threads |-> "out"]

-----------------------------------------------------------------------------
(***************************************************************************)
(* cipher() asks the provider for the master key, which it creates on      *)
(* first use.  The provider's mutex is held from the read of the file to   *)
(* the publication of a new key.                                           *)
(***************************************************************************)
Stage(t, s) == at' = [at EXCEPT ![t] = s]

KeyThere == keyFile[provider]
Publishes(key) == keyFile' = [keyFile EXCEPT ![provider] = key]

\* What the provider has once it looked at the file: a key of the right length.
Loaded == IF cached = 0 /\ KeyThere > 0 THEN KeyThere ELSE cached

\* The provider answers at once: from its cache, or from the file it reads.
ReadKey(t) ==
    /\ at[t] = "key" /\ provMu = None
    /\ cached' = Loaded
    /\ \/ cached' # 0 /\ Stage(t, "ready") /\ UNCHANGED provMu
       \/ cached' = 0 /\ KeyThere = Empty /\ Stage(t, "failed") /\ UNCHANGED provMu
       \/ cached' = 0 /\ KeyThere = 0 /\ Stage(t, "publish") /\ provMu' = t
    /\ UNCHANGED <<place, vaultDisk, entries, made, report>>

\* The file cannot be read, or the device cannot unwrap its own blob.
ReadKeyFails(t) ==
    /\ at[t] = "key" /\ provMu = None /\ cached = 0
    /\ Stage(t, "failed")
    /\ UNCHANGED <<place, vaultDisk, entries, cached, provMu, made, report>>

\* Whoever finds a key published adopts it: nothing ever overwrites one.
Adopt(fresh) == IF KeyThere > 0 THEN KeyThere ELSE fresh

\* The key the provider goes on with.
Installs(t) ==
    /\ made' = made + 1
    /\ Publishes(Adopt(made'))
    /\ cached' = Adopt(made')
    /\ provMu' = None
    /\ Stage(t, "ready")
    /\ UNCHANGED <<place, sealed, entries, report>>

\* The complete key appears under its name in one step: os.Link of a synced
\* temporary file, or WriteFileAtomic of the wrapped blob.
Atomic == provider = "hardware" \/ device = "link"

PublishKey(t) == at[t] = "publish" /\ Atomic /\ Installs(t)

\* publishExcl: O_EXCL creates the file empty, then the key is written.
CreateKey(t) ==
    /\ at[t] = "publish" /\ ~Atomic
    /\ Publishes(IF KeyThere = 0 THEN Empty ELSE KeyThere)
    /\ Stage(t, "write")
    /\ UNCHANGED <<place, sealed, entries, cached, provMu, made, report>>

publishExcl(t) == at[t] = "write" /\ Installs(t)

\* A write or a sync fails: the half-made file is removed.  A close that
\* fails leaves the whole key.  No key is used either way.
PublishFails(t) ==
    /\ at[t] \in {"publish", "write"}
    /\ \/ at[t] = "publish" /\ UNCHANGED <<keyFile, made>>
       \/ at[t] = "write" /\ Publishes(0) /\ UNCHANGED made
       \/ at[t] = "write" /\ made' = made + 1 /\ Publishes(made')
    /\ provMu' = None
    /\ Stage(t, "failed")
    /\ UNCHANGED <<place, sealed, entries, cached, report>>

-----------------------------------------------------------------------------
(***************************************************************************)
(* Store, Fetch and Delete once cipher() has answered.  persistLocked      *)
(* writes the whole map to a temporary file, syncs it and renames it under *)
(* ks.mu: no one sees it half done, and a death before the rename is a     *)
(* death before the call.  When the write fails the map in memory has      *)
(* changed and the file has not.  The memory keystore writes no file and   *)
(* always answers that it stored.                                          *)
(***************************************************************************)
persistLocked(map) ==
    /\ entries' = map /\ report' = "saved"
    /\ sealed' = IF provider = "memory" THEN sealed ELSE map

PersistFails(map) ==
    provider # "memory" /\ entries' = map /\ report' = "failed" /\ UNCHANGED sealed

\* cipher() has no key: the call returns its error.
Refused == report' = "failed" /\ UNCHANGED <<entries, sealed>>

\* Mutant: the map that is written starts from the file, not from memory.
SealingFromDisk(a) == [sealed EXCEPT ![a] = cached]

Sealing(a) == [entries EXCEPT ![a] = cached]

Dropping(a) == [entries EXCEPT ![a] = 0]

\* Delete answers at once for an alias its map does not have.
Deleted(a) ==
    IF entries[a] = 0 THEN report' = "saved" /\ UNCHANGED <<entries, sealed>>
    ELSE persistLocked(Dropping(a))

\* Fetch opens the entry: the sealing key must be the provider's.
Opens(a) == entries[a] # 0 /\ entries[a] = cached

\* keystore(), after the process died: the map is read from the file, or
\* starts empty in memory.
Reopen(p) ==
    /\ provider' = p /\ made' = made + 1
    /\ keyFile' = [keyFile EXCEPT !["memory"] = made']
    /\ entries' = IF p = "memory" THEN [a \in Aliases |-> 0] ELSE sealed
    /\ cached' = IF p = "memory" THEN made' ELSE 0
    /\ provMu' = None /\ report' = "none"
    /\ at' = [t \in Threads |-> "out"]
    /\ UNCHANGED <<device, sealed>>

KeyStep(t) == ReadKey(t) \/ PublishKey(t) \/ CreateKey(t) \/ publishExcl(t)
KeyTrouble(t) == ReadKeyFails(t) \/ PublishFails(t)

-----------------------------------------------------------------------------
\* What a process with each provider could open of a map.
Readable(map) == [p \in Providers |-> {a \in Aliases : map[a] # 0 /\ map[a] = keyFile[p]}]

\* The entry opens in a process that chooses the provider it was sealed by.
Recoverable(a) == sealed[a] # 0 /\ sealed[a] \in {keyFile["file"], keyFile["hardware"]}

(***************************************************************************)
(* "Every secret sealed with a losing key was then unopenable forever"     *)
(* (sealed.go:49): whatever goroutines race to create the key, whichever   *)
(* call fails, wherever the process dies and whichever provider the next   *)
(* one chooses, each sealed entry is under a key that a key file still     *)
(* holds, so that a start with the provider that sealed it opens it.  A    *)
(* start with another provider does not, and its writes keep such entries. *)
(***************************************************************************)
NothingOrphaned == \A a \in Aliases : sealed[a] # 0 => Recoverable(a)

Map == INSTANCE KeystoreMap WITH held <- Readable(entries), saved <- Readable(sealed)

(***************************************************************************)
(* The keystore implements the plain map of KeystoreMap: a write touches   *)
(* one alias, what a sealed keystore reported saved is what the next       *)
(* process of the same provider reads, a write that failed has not reached *)
(* the file, and no race for a master key and no change of provider takes  *)
(* an entry away from the provider that sealed it.                         *)
(***************************************************************************)
ImplementsMap == Map!MapSpec
=============================================================================
