-------------------------------- MODULE Keys --------------------------------
(***************************************************************************)
(* The custody of PGP keys: the in-memory keyring (internal/mail/pgp), the *)
(* pgp_keys table (internal/store/intelligence.go), the sealed private     *)
(* copies (ui/state/pgpvault.go) and the goroutines of AppState that move  *)
(* keys between them (ui/state/pgpstate.go, pgpstate_compose.go).  One     *)
(* step of a goroutine is one keyring call, one SQL statement, one network *)
(* answer or one step of the keystore.                                     *)
(*                                                                         *)
(* There is one own key and one correspondent; a key stands for its        *)
(* fingerprint and for the one address it carries.                         *)
(***************************************************************************)
EXTENDS Vault

CONSTANTS Me,           \* the mailbox's own key
          Pal,          \* the correspondent's key
          Cred,         \* alias of the mailbox credential
          Copy,         \* alias of the engine's own copy of Me ("pgppriv:")
          Tasks,        \* goroutines AppState may have running at once
          Engine,       \* the command loop of the sync manager
          Loader,       \* the loader goroutine
          Plans         \* what the user and the world may do in one behaviour

Fps == {Me, Pal}
Acts == {"private", "own", "public", "delete", "sweep", "cred", "thread", "search",
         "draft", "toggle", "trouble", "death", "probe"}

ASSUME KeysAssumption ==
    /\ Me # Pal /\ Cred # Copy /\ {Cred, Copy} \cap Fps = {}
    /\ None \notin Fps \cup {Cred, Copy} \cup Threads
    /\ Threads = Tasks \cup {Engine, Loader}
    /\ Engine # Loader /\ {Engine, Loader} \cap Tasks = {}
    /\ Aliases = {Me, Cred, Copy}
    /\ \A p \in Plans : /\ p.acts \in [Acts -> Nat] /\ p.devices \subseteq Devices
                       /\ p.starts \subseteq Providers /\ p.mine \subseteq {"none", "legacy"}

VARIABLES
    rows,       \* pgp_keys: "none", "pub", "sealed" (private, blank) or "legacy"
    ring,       \* the keyring, by fingerprint, in the order of import
    task,       \* the goroutines
    ld,         \* the loader goroutine: place, rows it has listed, key at hand
    refresh,    \* refreshQueue holds a token
    left,       \* what is left of the plan
    kept,       \* a private import of Me succeeded and no delete was asked for
    wiped,      \* keys the user was told are deleted, not stored since
    volatile,   \* Me was last sealed by a memory keystore, with no copy on disk
    residue     \* keys whose deletion did not reach the sealed file

marks == <<volatile, residue>>
keyVars == <<rows, ring, kept, wiped, marks>>

RowKinds == {"none", "pub", "sealed", "legacy"}
RingKinds == {"none", "pub", "priv", "pubpriv"}
Ops == {"none", "private", "public", "wkd", "sweep", "ensure", "delete", "send"}
NoTask == [op |-> "none", pc |-> "out", fp |-> None, todo |-> {}, clean |-> FALSE,
           miss |-> FALSE, d |-> 0, enc |-> FALSE, sign |-> FALSE]
NoRows == [k \in Fps |-> "none"]

Goroutines ==
    [op : Ops, pc : {"out", "next", "look", "seal", "row", "vault", "build"}, fp : Fps \cup {None},
     todo : SUBSET Fps, clean : BOOLEAN, miss : BOOLEAN, d : Nat, enc : BOOLEAN, sign : BOOLEAN]

RingOK ==
    /\ rows \in [Fps -> RowKinds] /\ ring \in [Fps -> RingKinds]
    /\ kept \in BOOLEAN /\ wiped \subseteq Fps /\ volatile \in BOOLEAN /\ residue \subseteq Fps

TaskOK == task \in [Tasks -> Goroutines]

PlanOK == refresh \in BOOLEAN /\ left \in [Acts -> Nat]

-----------------------------------------------------------------------------
Has(act) == left[act] > 0
Spend(act) == Has(act) /\ left' = [left EXCEPT ![act] = @ - 1]

FreeTasks == {t \in Tasks : task[t].op = "none"}
Becomes(t, rec) == task' = [task EXCEPT ![t] = rec]
Spawn(rec) == FreeTasks # {} /\ Becomes(CHOOSE t \in FreeTasks : TRUE, rec)

\* Two goroutines that are about the same key, one of them to delete it.
Clash(r1, r2) ==
    /\ (r1.op = "delete") # (r2.op = "delete")
    /\ (r1.todo \cup {r1.fp}) \cap (r2.todo \cup {r2.fp}) \cap Fps # {}

\* A goroutine on keys starts: clean records that none clashed with it.
SpawnOnKeys(rec) ==
    /\ FreeTasks # {}
    /\ LET f == CHOOSE t \in FreeTasks : TRUE
           alone == \A t \in Tasks : ~Clash(rec, task[t])
       IN task' = [t \in Tasks |->
                     CASE t = f -> [rec EXCEPT !.clean = alone]
                       [] t # f /\ Clash(rec, task[t]) -> [task[t] EXCEPT !.clean = FALSE]
                       [] OTHER -> task[t]]
Move(t, p) == Becomes(t, [task[t] EXCEPT !.pc = p])
\* The goroutine is done with its key.
NextKey(t) == Becomes(t, [task[t] EXCEPT !.fp = None, !.pc = "next"])
Ends(t) == Becomes(t, NoTask)

\* ImportArmored and ImportEntities append; the first entity of a fingerprint
\* is the one EntityByEmail, SigningEntity and ExportPublicArmored return.
Imported(k, private) ==
    [ring EXCEPT ![k] =
        CASE @ = "none" /\ private -> "priv"
          [] @ = "none" /\ ~private -> "pub"
          [] @ = "pub" /\ private -> "pubpriv"
          [] OTHER -> @]

HasKeyFor(k) == ring[k] # "none"
SigningEntity(k) == ring[k] = "priv"
\* openpgp.ReadMessage tries every entity of the ring.
CanOpen(k) == ring[k] \in {"priv", "pubpriv"}

-----------------------------------------------------------------------------
(***************************************************************************)
(* Goroutines that bring keys in.                                          *)
(***************************************************************************)
Brings(op, S) ==
    /\ SpawnOnKeys([NoTask EXCEPT !.op = op, !.pc = "next", !.todo = S])
    /\ wiped' = wiped \ S
    /\ UNCHANGED <<rows, ring, kept, marks>>

\* The engine delivered the mailbox's own key (PrivateKeyEvent).
importPrivateKey == Brings("private", {Me})

\* A pasted key, of either kind.
ImportPGPKey ==
    \/ Spend("private") /\ Brings("private", {Me})
    \/ Spend("public") /\ \E k \in Fps : Brings("public", {k})

\* FetchKeyDirectory answers with public keys, the mailbox's own among them.
DirectoryAnswers == (SUBSET Fps) \ {{}}

SyncPGPFromDirectory ==
    Spend("public") /\ \E S \in DirectoryAnswers : Brings("public", S)

DiscoverPGPKey == Spend("public") /\ \E k \in Fps : Brings("wkd", {k})

\* The sweep over own and contact addresses, asked for or on new mail.
DiscoverContactKeysWKD == Spend("sweep") /\ Brings("sweep", Fps)

\* The next key of the goroutine's list; own addresses lead.
Turn(t, k) == task[t].pc = "next" /\ k \in task[t].todo /\ (Me \in task[t].todo => k = Me)

\* The sweep and EnsureKeysFor look up only what the ring lacks, as it was
\* before the lookup began.
Skips(t, k) == task[t].op \in {"sweep", "ensure"} /\ HasKeyFor(k)

Skip(t, k) ==
    /\ Turn(t, k) /\ Skips(t, k)
    /\ Becomes(t, [task[t] EXCEPT !.todo = @ \ {k}])
    /\ UNCHANGED <<keyVars, vaultVars, left>>

StartLookup(t, k) ==
    /\ Turn(t, k) /\ ~Skips(t, k)
    /\ task[t].op \in {"wkd", "sweep", "ensure"}
    /\ Becomes(t, [task[t] EXCEPT !.todo = @ \ {k}, !.fp = k, !.pc = "look"])
    /\ UNCHANGED <<keyVars, vaultVars, left>>

\* DiscoverWKD fails, times out or is answered with a key for another
\* address.  DiscoverPGPKey then gives up without a reload; EnsureKeysFor
\* counts the address as missing, whoever else may have brought its key.
LookupFails(t) ==
    /\ task[t].pc = "look"
    /\ Becomes(t, IF task[t].op = "wkd" THEN NoTask
                  ELSE [task[t] EXCEPT !.fp = None, !.pc = "next", !.miss = TRUE])
    /\ UNCHANGED <<keyVars, vaultVars, left>>

LookupFinds(t) ==
    /\ task[t].pc = "look"
    /\ ring' = Imported(task[t].fp, FALSE)
    /\ Move(t, "row")
    /\ UNCHANGED <<rows, kept, wiped, marks, vaultVars, left>>

\* The key is in the ring; a private one goes to the keystore next.
ImportKey(t, k) ==
    /\ Turn(t, k) /\ task[t].op \in {"private", "public"}
    /\ LET private == task[t].op = "private" IN
         /\ ring' = Imported(k, private)
         /\ Becomes(t, [task[t] EXCEPT !.todo = @ \ {k}, !.fp = k,
                                       !.pc = IF private THEN "seal" ELSE "row"])
         /\ IF private THEN Stage(t, "key") ELSE UNCHANGED at
    /\ UNCHANGED <<rows, kept, wiped, marks, left, place, vaultDisk, entries, cached, provMu, made, report>>

\* sealPrivateKey, of Me: a memory keystore says it stored the key too.
Keeps(k) == persistLocked(Sealing(k)) /\ volatile' = (provider = "memory" /\ sealed[k] = 0)

\* sealPrivateKey in storeKeyRow.  When it fails no row is written.
SealKey(t) ==
    /\ task[t].pc = "seal" /\ at[t] = "ready"
    /\ Keeps(task[t].fp)
    /\ Stage(t, "out") /\ Move(t, "row")
    /\ UNCHANGED <<rows, ring, kept, wiped, residue, left, place, keyFile, cached, provMu, made>>

SealKeyFails(t) ==
    /\ task[t].pc = "seal"
    /\ \/ at[t] = "ready" /\ Spend("trouble") /\ PersistFails(Sealing(task[t].fp))
       \/ at[t] = "failed" /\ Refused /\ UNCHANGED left
    /\ Stage(t, "out") /\ NextKey(t)
    /\ UNCHANGED <<keyVars, place, keyFile, cached, provMu, made>>

\* UpsertPGPKey replaces the row, whatever it held.
Upserted(t) == [rows EXCEPT ![task[t].fp] = IF task[t].op = "private" THEN "sealed" ELSE "pub"]

StoreKeyRow(t) ==
    /\ task[t].pc = "row" /\ task[t].op # "delete"
    /\ rows' = Upserted(t)
    /\ kept' = (kept \/ (task[t].op = "private" /\ task[t].clean))
    /\ NextKey(t)
    /\ UNCHANGED <<ring, wiped, marks, vaultVars, left>>

StoreKeyRowFails(t) ==
    /\ task[t].pc = "row" /\ task[t].op # "delete"
    /\ Spend("trouble")
    /\ NextKey(t)
    /\ UNCHANGED <<keyVars, vaultVars>>

-----------------------------------------------------------------------------
(***************************************************************************)
(* DeletePGPKey: the row, then the sealed copy.  The ring keeps the key,   *)
(* and the keystore the copy that the engine made for itself.              *)
(***************************************************************************)
DeletePGPKey(k) ==
    /\ Spend("delete")
    /\ SpawnOnKeys([NoTask EXCEPT !.op = "delete", !.pc = "row", !.fp = k])
    /\ kept' = (kept /\ k # Me)
    /\ UNCHANGED <<rows, ring, wiped, marks>>

DeleteRow(t) ==
    /\ task[t].op = "delete" /\ task[t].pc = "row"
    /\ rows' = [rows EXCEPT ![task[t].fp] = "none"]
    /\ Move(t, "vault")
    /\ UNCHANGED <<ring, kept, wiped, marks, vaultVars, left>>

DeleteRowFails(t) ==
    /\ task[t].op = "delete" /\ task[t].pc = "row"
    /\ Spend("trouble") /\ Ends(t)
    /\ UNCHANGED <<keyVars, vaultVars>>

\* Mutant: the sealed copy stays behind.
DropNothing(k) == UNCHANGED <<entries, sealed, report>>

\* deleteSealedPrivateKey; only Me ever had a sealed copy.
DropSealed(k) == IF k \in Aliases THEN Deleted(k) ELSE UNCHANGED <<entries, sealed, report>>

\* "Key deleted", whatever the keystore answered.  The deletion counts
\* unless a goroutine was storing the key meanwhile.
Wipes(t) == wiped' = IF task[t].clean THEN wiped \cup {task[t].fp} ELSE wiped

\* A memory keystore has no file to delete from; a write of the map without
\* the key makes good an earlier failure.
DeleteSealed(t) ==
    /\ task[t].op = "delete" /\ task[t].pc = "vault"
    /\ DropSealed(task[t].fp)
    /\ residue' = IF provider = "memory" THEN residue \cup {task[t].fp}
                  ELSE IF task[t].fp \in Aliases /\ entries[task[t].fp] # 0 THEN residue \ {task[t].fp}
                  ELSE residue
    /\ Wipes(t)
    /\ Ends(t)
    /\ UNCHANGED <<rows, ring, kept, volatile, left, place, keyFile, cached, provMu, at, made>>

\* The keystore cannot be written: the copy is gone from memory only, and
\* the error is dropped.
DeleteSealedFails(t) ==
    /\ task[t].op = "delete" /\ task[t].pc = "vault"
    /\ task[t].fp \in Aliases /\ entries[task[t].fp] # 0
    /\ Spend("trouble") /\ PersistFails(Dropping(task[t].fp))
    /\ residue' = residue \cup {task[t].fp}
    /\ Wipes(t)
    /\ Ends(t)
    /\ UNCHANGED <<rows, ring, kept, volatile, place, keyFile, cached, provMu, at, made>>
=============================================================================
