------------------------------- MODULE Reader -------------------------------
(***************************************************************************)
(* What the user sees and sends with those keys: the loader goroutine that *)
(* loads the keyring, rebuilds the snapshot and decrypts the open thread   *)
(* (ui/state/appstate_loader.go, decrypt.go), the search field             *)
(* (appstate_nav.go), and the composer (ui/screens/compose.go,             *)
(* ui/widgets/composer.go) down to the outbox.  It completes Vault and     *)
(* Keys to a whole: the goroutines' ends, the process's death, Next.       *)
(***************************************************************************)
EXTENDS Keys

CONSTANTS Queries,      \* texts of the search field other than the empty one
          MaxDrafts     \* bound: drafts the user sends

ASSUME ReaderAssumption ==
    /\ MaxDrafts \in Nat
    /\ \A p \in Plans : p.msgs \subseteq {"armored", "junk", "opened"} /\ p.signers \subseteq Fps

VARIABLES
    open,       \* selThread names the conversation
    query,      \* searchQuery
    clearing,   \* SetSearch("") has yet to clear the results
    ghost,      \* history: the results were cleared under a reload that has others
    timer,      \* searchTimer is armed
    searchQ,    \* searchQueue holds a token
    view,       \* the snapshot: body of the thread, search results, key list
    msg,        \* stored body: "armored", "junk" (an older parser) or "opened"
    signer,     \* the key that signed the message; it claims to be from Pal
    lost,       \* a query of the loader failed: nobody asks again
    phase,      \* the message's repair: "idle", "inflight", "done"
    comp,       \* the composer: draft, Encrypt, Sign
    keyRes,     \* Compose.keyResult: "none", "ok" or "missing"
    flying,     \* the send animation plays
    outbox,     \* the form each draft was queued in
    told,       \* drafts whose failure was shown to the user
    promise,    \* ghost, per draft sent: was it to be secret?
    gone,       \* ghost: drafts whose goroutine died with the process
    job         \* what the engine's command loop wants of the keystore

searchVars == <<query, clearing, ghost, timer>>
readVars == <<open, searchVars, searchQ, view, lost, msg, signer, phase>>
sendVars == <<comp, keyRes, flying, outbox, told, promise, gone>>
vars == <<vaultVars, keyVars, task, ld, refresh, left, readVars, sendVars, job>>

Drafts == 1..MaxDrafts
Texts == Queries \cup {""}
NoView == [body |-> "none", results |-> "", keys |-> {}]
NoComp == [d |-> 0, enc |-> FALSE, sign |-> FALSE]
Loading(list) == [pc |-> "boot", todo |-> {k \in Fps : list[k] # "none"}, list |-> list,
                  fp |-> None, open |-> FALSE, query |-> "", got |-> NoView]
Idling == [Loading(NoRows) EXCEPT !.pc = "idle"]

Bodies == {"none", "locked", "fetching", "unreadable", "read", "verified", "opened"}
Views == [body : Bodies, results : Texts, keys : SUBSET Fps]

Loaders ==
    [pc : {"boot", "open", "migrate", "blank", "idle", "read", "commit", "search"},
     todo : SUBSET Fps, list : [Fps -> RowKinds], fp : Fps \cup {None},
     open : BOOLEAN, query : Texts, got : Views]

ReadOK ==
    /\ open \in BOOLEAN /\ query \in Texts /\ clearing \in BOOLEAN /\ ghost \in BOOLEAN
    /\ timer \in BOOLEAN /\ searchQ \in BOOLEAN
    /\ view \in Views /\ lost \in BOOLEAN
    /\ msg \in {"armored", "junk", "opened"} /\ signer \in Fps
    /\ phase \in {"idle", "inflight", "done"}

SendOK ==
    /\ comp \in [d : Drafts \cup {0}, enc : BOOLEAN, sign : BOOLEAN]
    /\ keyRes \in {"none", "ok", "missing"} /\ flying \in BOOLEAN
    /\ outbox \in [Drafts -> {"none", "clear", "signed", "cipher"}]
    /\ promise \in [Drafts -> {"none", "open", "secret"}]
    /\ told \subseteq Nat /\ gone \subseteq Nat

TypeOK == VaultTypeOK /\ RingOK /\ TaskOK /\ PlanOK /\ ld \in Loaders /\ ReadOK /\ SendOK
          /\ job \in {"none", "cred", "open", "fetch", "seal"}

\* A version that kept private keys in SQLite may have been upgraded.
Init ==
    /\ VaultInit
    /\ \E p \in Plans :
         /\ left = p.acts /\ device \in p.devices /\ provider \in p.starts
         /\ rows \in {[NoRows EXCEPT ![Me] = row] : row \in p.mine}
         /\ msg \in p.msgs /\ signer \in p.signers
    /\ ring = NoRows /\ wiped = {} /\ kept = (rows[Me] = "legacy")
    /\ volatile = FALSE /\ residue = {} /\ job = "none"
    /\ task = [t \in Tasks |-> NoTask]
    /\ ld = Loading(rows) /\ refresh = TRUE
    /\ open = FALSE /\ query = "" /\ timer = FALSE /\ searchQ = FALSE
    /\ clearing = FALSE /\ ghost = FALSE
    /\ view = NoView /\ lost = FALSE /\ phase = "idle"
    /\ comp = NoComp /\ keyRes = "none" /\ flying = FALSE
    /\ outbox = [d \in Drafts |-> "none"] /\ told = {} /\ gone = {}
    /\ promise = [d \in Drafts |-> "none"]

-----------------------------------------------------------------------------
(***************************************************************************)
(* loadPGPKeys, at start, on the rows as they were listed.                 *)
(***************************************************************************)
Next1(k) == [ld EXCEPT !.pc = "boot", !.todo = @ \ {k}, !.fp = None]
\* A loader that waits on the keystore for key k.
Waits(p, k) == ld' = [ld EXCEPT !.pc = p, !.fp = k] /\ Stage(Loader, "key")

LoadKey(k) ==
    /\ ld.pc = "boot" /\ k \in ld.todo
    /\ \/ /\ ld.list[k] = "pub"
          /\ ring' = Imported(k, FALSE) /\ ld' = Next1(k) /\ UNCHANGED at
       \/ /\ ld.list[k] \in {"sealed", "legacy"} /\ entries[k] # 0
          /\ Waits("open", k) /\ UNCHANGED ring
       \/ /\ ld.list[k] = "legacy" /\ entries[k] = 0
          /\ Waits("migrate", k) /\ UNCHANGED ring
       \/ /\ ld.list[k] = "sealed" /\ entries[k] = 0   \* nothing to import
          /\ ld' = Next1(k) /\ UNCHANGED <<ring, at>>
    /\ UNCHANGED <<rows, kept, wiped, marks, place, vaultDisk, entries, cached, provMu, made, report, left>>

OpenKey ==
    /\ ld.pc = "open" /\ at[Loader] \in {"ready", "failed"}
    /\ LET found == at[Loader] = "ready" /\ Opens(ld.fp) IN
         \/ found /\ ring' = Imported(ld.fp, TRUE) /\ ld' = Next1(ld.fp) /\ Stage(Loader, "out")
         \/ ~found /\ ld.list[ld.fp] = "legacy" /\ Waits("migrate", ld.fp) /\ UNCHANGED ring
         \/ ~found /\ ld.list[ld.fp] = "sealed" /\ ld' = Next1(ld.fp) /\ Stage(Loader, "out")
            /\ UNCHANGED ring
    /\ UNCHANGED <<rows, kept, wiped, marks, place, vaultDisk, entries, cached, provMu, made, report, left>>

\* Mutant: the row is blanked although the key could not be sealed.
MigratesBlindly ==
    /\ ld.pc = "migrate" /\ at[Loader] = "failed" /\ Refused
    /\ ring' = Imported(ld.fp, TRUE)
    /\ ld' = [ld EXCEPT !.pc = "blank"] /\ Stage(Loader, "out")
    /\ UNCHANGED <<rows, kept, wiped, marks, place, keyFile, cached, provMu, made, left>>

\* migrateLegacyPrivateKey: seal, then blank the row; the inline copy is
\* imported whatever came of it.
MigrateFails ==
    /\ ld.pc = "migrate" /\ at[Loader] = "failed" /\ Refused
    /\ ring' = Imported(ld.fp, TRUE)
    /\ ld' = Next1(ld.fp) /\ Stage(Loader, "out")
    /\ UNCHANGED <<rows, kept, wiped, marks, place, keyFile, cached, provMu, made, left>>

MigrateSeals ==
    /\ ld.pc = "migrate" /\ at[Loader] = "ready"
    /\ \/ Keeps(ld.fp) /\ ld' = [ld EXCEPT !.pc = "blank"] /\ UNCHANGED <<ring, left>>
       \/ /\ Spend("trouble") /\ PersistFails(Sealing(ld.fp)) /\ UNCHANGED volatile
          /\ ring' = Imported(ld.fp, TRUE) /\ ld' = Next1(ld.fp)
    /\ Stage(Loader, "out")
    /\ UNCHANGED <<rows, kept, wiped, residue, place, keyFile, cached, provMu, made>>

BlankRow ==
    /\ ld.pc = "blank"
    /\ \/ rows' = [rows EXCEPT ![ld.fp] = "sealed"] /\ UNCHANGED left
       \/ Spend("trouble") /\ UNCHANGED rows
    /\ ring' = Imported(ld.fp, TRUE)
    /\ ld' = Next1(ld.fp)
    /\ UNCHANGED <<kept, wiped, marks, vaultVars>>

LoadStep ==
    /\ (\E k \in Fps : LoadKey(k)) \/ OpenKey \/ MigrateFails \/ MigrateSeals \/ BlankRow
    /\ UNCHANGED <<task, refresh, readVars, sendVars, job>>

-----------------------------------------------------------------------------
\* SignerMatchesEmail: the key that signed carries the sender's address.
SenderVerified == signer = Pal /\ HasKeyFor(Pal)

\* decryptThread: what the open message shows.
Shown ==
    CASE msg = "armored" /\ ~CanOpen(Me) -> "locked"
      [] msg = "armored" /\ CanOpen(Me) /\ SenderVerified -> "verified"
      [] msg = "armored" /\ CanOpen(Me) -> "read"
      [] msg = "junk" /\ phase = "done" -> "unreadable"
      [] msg = "junk" -> "fetching"
      [] OTHER -> "opened"

\* The loader has loaded the keys and enters its loop, or takes a token.
Reload ==
    /\ ld.pc = "idle" \/ (ld.pc = "boot" /\ ld.todo = {})
    /\ refresh
    /\ refresh' = FALSE
    /\ ld' = [Idling EXCEPT !.pc = "read", !.open = open, !.query = query]
    /\ UNCHANGED <<phase, view, lost, searchQ, ghost, left>>

\* The snapshot that reload has put together, with the body and results found.
Got(body, results) == [ld EXCEPT !.pc = "commit",
                           !.got = [body |-> IF ld.open THEN body ELSE "none",
                                    results |-> results,
                                    keys |-> {k \in Fps : rows[k] # "none"}]]

\* The queries of reload; a message stored broken is asked for again, once.
\* When the search fails the snapshot comes without results.
ReloadReads ==
    /\ ld.pc = "read"
    /\ \/ ld' = Got(Shown, ld.query) /\ UNCHANGED <<lost, left>>
       \/ ld.query # "" /\ Spend("trouble") /\ ld' = Got(Shown, "") /\ lost' = TRUE
    /\ phase' = IF ld.open /\ msg = "junk" /\ phase = "idle" THEN "inflight" ELSE phase
    /\ UNCHANGED <<refresh, view, searchQ, ghost>>

\* ListThread fails: the snapshot comes without the conversation.
ThreadFails ==
    /\ ld.pc = "read" /\ ld.open /\ Spend("trouble")
    /\ ld' = Got("none", ld.query) /\ lost' = TRUE
    /\ UNCHANGED <<phase, refresh, view, searchQ, ghost>>

\* Another query fails: the snapshot stays as it was.
ReloadFails ==
    /\ ld.pc = "read" /\ Spend("trouble")
    /\ ld' = Idling /\ lost' = TRUE /\ ghost' = FALSE
    /\ UNCHANGED <<phase, refresh, view, searchQ>>

Commit ==
    /\ ld.pc = "commit"
    /\ ld' = Idling
    /\ view' = ld.got
    /\ ghost' = (ghost /\ ld.query # "")
    /\ UNCHANGED <<phase, lost, refresh, searchQ, left>>

ReloadSearch ==
    /\ ld.pc = "idle" /\ searchQ
    /\ searchQ' = FALSE
    /\ ld' = [Idling EXCEPT !.pc = "search", !.query = query]
    /\ UNCHANGED <<phase, refresh, view, lost, ghost, left>>

\* The stale answer guard: the text may have changed while the query ran.
Patched == IF ld.query = query THEN [view EXCEPT !.results = ld.query] ELSE view

PatchSearch ==
    /\ ld.pc = "search"
    /\ ld' = Idling
    /\ \/ view' = Patched /\ UNCHANGED <<left, lost>>
       \/ ld.query # "" /\ Spend("trouble") /\ lost' = TRUE /\ UNCHANGED view
    /\ ghost' = (ghost /\ ld.query # "")
    /\ UNCHANGED <<phase, refresh, searchQ>>

LoopStep ==
    /\ Reload \/ ReloadReads \/ Commit \/ ReloadSearch \/ PatchSearch
    /\ UNCHANGED <<vaultVars, keyVars, task, open, query, clearing, timer, msg, signer, sendVars, job>>

LoopTrouble ==
    /\ ThreadFails \/ ReloadFails
    /\ UNCHANGED <<vaultVars, keyVars, task, open, query, clearing, timer, msg, signer, sendVars, job>>

-----------------------------------------------------------------------------
(***************************************************************************)
(* The user reads and searches; the engine answers a repair.               *)
(***************************************************************************)
OpenThread ==
    /\ ~open /\ Spend("thread")
    /\ open' = TRUE /\ refresh' = TRUE
    /\ UNCHANGED <<searchVars, searchQ, view, lost, msg, phase>>

\* Mutant: only the first keystroke arms the timer.
SetSearchOnce(q) ==
    /\ q # query /\ ~clearing /\ Spend("search")
    /\ query' = q /\ ghost' = FALSE
    /\ timer' = (timer \/ (q # "" /\ query = ""))
    /\ clearing' = (q = "")
    /\ UNCHANGED <<open, refresh, searchQ, view, lost, msg, phase>>

\* Each keystroke records the text and re-arms the timer.
SetSearch(q) ==
    /\ q # query /\ ~clearing /\ Spend("search")
    /\ query' = q /\ ghost' = FALSE
    /\ timer' = (q # "")
    /\ clearing' = (q = "")
    /\ UNCHANGED <<open, refresh, searchQ, view, lost, msg, phase>>

\* The second critical section of SetSearch("").  A reload that took the old
\* text with it will put its results back.
ClearResults ==
    /\ clearing
    /\ clearing' = FALSE
    /\ view' = [view EXCEPT !.results = ""]
    /\ ghost' = (ld.pc \in {"read", "commit"} /\ ld.query # "")
    /\ UNCHANGED <<open, query, timer, refresh, searchQ, lost, msg, phase, left>>

SearchDebounce ==
    /\ timer
    /\ timer' = FALSE /\ searchQ' = TRUE
    /\ UNCHANGED <<open, query, clearing, ghost, refresh, view, lost, msg, phase, left>>

\* execRefetch and Apply(MessageRefetchedEvent): one attempt a session.
Refetched ==
    /\ phase = "inflight"
    /\ phase' = "done" /\ refresh' = TRUE
    /\ msg' \in {"armored", "junk", "opened"}
    /\ UNCHANGED <<open, searchVars, searchQ, view, lost, left>>

ReadStep ==
    /\ OpenThread \/ (\E q \in Texts : SetSearch(q)) \/ ClearResults \/ SearchDebounce \/ Refetched
    /\ UNCHANGED <<vaultVars, keyVars, task, ld, signer, sendVars, job>>

-----------------------------------------------------------------------------
(***************************************************************************)
(* The composer, addressed to Pal.                                         *)
(***************************************************************************)
\* The compose button, a reply or a forward: Reset, then the screen.
NewDraft ==
    /\ comp.d = 0 /\ Spend("draft")
    /\ \E d \in Drafts :
         /\ promise[d] = "none" /\ \A e \in 1 .. d - 1 : promise[e] # "none"
         /\ comp' = [NoComp EXCEPT !.d = d]
    /\ UNCHANGED <<task, keyRes, flying, outbox, told, promise, refresh>>

MissingKeys == {Pal} \ {k \in Fps : HasKeyFor(k)}

fetchMissingKeys ==
    IF MissingKeys = {} THEN UNCHANGED <<task, keyVars>> ELSE Brings("ensure", MissingKeys)

\* Turning encryption on looks up what is missing.
ToggleEncrypt ==
    /\ comp.d # 0 /\ Spend("toggle")
    /\ comp' = [comp EXCEPT !.enc = ~@]
    /\ IF ~comp.enc THEN fetchMissingKeys ELSE UNCHANGED <<task, keyVars>>
    /\ UNCHANGED <<keyRes, flying, outbox, told, promise, refresh>>

\* The user leaves without sending; a plane that flies is not drawn again
\* until the screen is.
Back ==
    /\ comp.d # 0 /\ Spend("toggle")
    /\ comp' = NoComp
    /\ UNCHANGED <<task, keyRes, flying, outbox, told, promise, refresh>>

ToggleSign ==
    /\ comp.d # 0 /\ Spend("toggle")
    /\ comp' = [comp EXCEPT !.sign = ~@]
    /\ UNCHANGED <<task, keyRes, flying, outbox, told, promise, refresh>>

\* foldKeyResult: a lookup that found nothing turns encryption off.
FoldKeyResult ==
    /\ comp.d # 0 /\ keyRes # "none"
    /\ keyRes' = "none"
    /\ comp' = IF keyRes = "missing" THEN [comp EXCEPT !.enc = FALSE] ELSE comp
    /\ UNCHANGED <<task, flying, outbox, told, promise, refresh, left>>

\* Encryption was asked for and a key is missing: the send is held.
Held == comp.enc /\ MissingKeys # {}

\* Mutant: encryption is what the toggle says, no more.
OnlyIfAsked == comp.enc

\* Encrypted by default: known keys turn encryption on.
Encrypts == comp.enc \/ HasKeyFor(Pal)

\* Compose.send: EnqueueDraft's goroutine builds while the plane flies.
Send ==
    /\ comp.d # 0 /\ ~flying /\ ~Held
    /\ comp' = [comp EXCEPT !.enc = Encrypts]
    /\ Spawn([NoTask EXCEPT !.op = "send", !.pc = "build", !.d = comp.d,
                            !.enc = Encrypts, !.sign = comp.sign])
    /\ flying' = TRUE
    /\ promise' = [promise EXCEPT ![comp.d] =
                      IF comp.enc \/ HasKeyFor(Pal) THEN "secret" ELSE "open"]
    /\ UNCHANGED <<keyRes, outbox, told, refresh, left>>

\* The plane lands: the composer is emptied.
Land ==
    /\ flying /\ comp.d # 0
    /\ flying' = FALSE /\ comp' = NoComp
    /\ UNCHANGED <<task, keyRes, outbox, told, promise, refresh, left>>

Form(t) == IF task[t].enc THEN "cipher" ELSE IF task[t].sign THEN "signed" ELSE "clear"

\* buildOutbound needs a signing key for a signature and a key per recipient.
Builds(t) ==
    /\ task[t].sign => SigningEntity(Me)
    /\ task[t].enc => HasKeyFor(Pal)

\* Mutant: a message that cannot be built is dropped without a word.
BuildQuietly(t) ==
    /\ task[t].pc = "build"
    /\ IF Builds(t)
       THEN outbox' = [outbox EXCEPT ![task[t].d] = Form(t)] /\ UNCHANGED told
       ELSE UNCHANGED <<outbox, told>>
    /\ Ends(t)
    /\ UNCHANGED <<comp, keyRes, flying, promise, refresh, left>>

\* buildOutbound and EnqueueOutbox.
Build(t) ==
    /\ task[t].pc = "build"
    /\ IF Builds(t)
       THEN outbox' = [outbox EXCEPT ![task[t].d] = Form(t)] /\ UNCHANGED told
       ELSE told' = told \cup {task[t].d} /\ UNCHANGED outbox
    /\ Ends(t)
    /\ UNCHANGED <<comp, keyRes, flying, promise, refresh, left>>

EnqueueFails(t) ==
    /\ task[t].pc = "build" /\ Spend("trouble")
    /\ told' = told \cup {task[t].d}
    /\ Ends(t)
    /\ UNCHANGED <<comp, keyRes, flying, outbox, promise, refresh>>

\* Mutant: the goroutine schedules no reload.
EndsQuietly(t) ==
    /\ task[t].pc = "next" /\ task[t].todo = {}
    /\ keyRes' = IF task[t].op # "ensure" THEN keyRes
                 ELSE IF task[t].miss THEN "missing" ELSE "ok"
    /\ Ends(t)
    /\ UNCHANGED <<comp, flying, outbox, told, promise, refresh, left>>

\* A goroutine that brought keys in reports and schedules a reload;
\* EnsureKeysFor hands its outcome to the screen.
Finish(t) ==
    /\ task[t].pc = "next" /\ task[t].todo = {}
    /\ keyRes' = IF task[t].op # "ensure" THEN keyRes
                 ELSE IF task[t].miss THEN "missing" ELSE "ok"
    /\ Ends(t)
    /\ refresh' = TRUE
    /\ UNCHANGED <<comp, flying, outbox, told, promise, left>>

ComposeStep ==
    /\ ToggleEncrypt \/ ((NewDraft \/ Back \/ ToggleSign \/ Send) /\ UNCHANGED keyVars)
    /\ UNCHANGED <<vaultVars, ld, readVars, gone, job>>

FrameStep ==
    /\ FoldKeyResult \/ Land
    /\ UNCHANGED <<vaultVars, keyVars, ld, readVars, gone, job>>

-----------------------------------------------------------------------------
(***************************************************************************)
(* The engine's credentials share the keystore, and so does the copy of    *)
(* the mailbox's own key that it keeps for itself.                         *)
(***************************************************************************)
StoreCredential ==
    /\ job = "none" /\ Spend("cred")
    /\ job' = "cred" /\ Stage(Engine, "key")
    /\ UNCHANGED <<place, vaultDisk, entries, cached, provMu, made, report>>

SealCredential ==
    /\ job = "cred" /\ at[Engine] \in {"ready", "failed"}
    /\ \/ at[Engine] = "ready" /\ persistLocked(Sealing(Cred)) /\ UNCHANGED left
       \/ at[Engine] = "ready" /\ Spend("trouble") /\ PersistFails(Sealing(Cred))
       \/ at[Engine] = "failed" /\ Refused /\ UNCHANGED left
    /\ job' = "none" /\ Stage(Engine, "out")
    /\ UNCHANGED <<place, keyFile, cached, provMu, made, keyVars, task>>

DeleteCredential ==
    /\ job = "none"
    /\ \/ Spend("cred") /\ Deleted(Cred)
       \/ Spend("trouble") /\ entries[Cred] # 0 /\ PersistFails(Dropping(Cred))
    /\ UNCHANGED <<place, keyFile, cached, provMu, at, made, job>>

\* execSyncPrivateKey, after AddAccount or at the user's wish: the sealed
\* copy if it opens, else the server's key, else a new one.
execSyncPrivateKey ==
    /\ job = "none" /\ Spend("own")
    /\ IF entries[Copy] # 0 THEN job' = "open" /\ Stage(Engine, "key")
       ELSE job' = "fetch" /\ UNCHANGED at
    /\ UNCHANGED <<place, vaultDisk, entries, cached, provMu, made, report>>

OpenCopy ==
    /\ job = "open" /\ at[Engine] \in {"ready", "failed"}
    /\ IF at[Engine] = "ready" /\ Opens(Copy) THEN job' = "none" /\ importPrivateKey
       ELSE job' = "fetch" /\ UNCHANGED <<keyVars, task>>
    /\ Stage(Engine, "out")
    /\ UNCHANGED <<place, vaultDisk, entries, cached, provMu, made, report, left>>

\* FetchPrivateKey answers with a key or with none, and one is generated;
\* or the credential or the network fails.
FetchPrivateKey ==
    /\ job = "fetch"
    /\ \/ job' = "seal" /\ Stage(Engine, "key")
       \/ job' = "none" /\ UNCHANGED at
    /\ UNCHANGED <<place, vaultDisk, entries, cached, provMu, made, report, left, keyVars, task>>

\* A fetched key is delivered although it could not be sealed, a generated
\* one is not.
SealCopy ==
    /\ job = "seal"
    /\ \/ at[Engine] = "ready" /\ persistLocked(Sealing(Copy)) /\ UNCHANGED left /\ importPrivateKey
       \/ /\ \/ at[Engine] = "ready" /\ Spend("trouble") /\ PersistFails(Sealing(Copy))
             \/ at[Engine] = "failed" /\ Refused /\ UNCHANGED left
          /\ importPrivateKey \/ UNCHANGED <<keyVars, task>>
    /\ job' = "none" /\ Stage(Engine, "out")
    /\ UNCHANGED <<place, keyFile, cached, provMu, made>>

-----------------------------------------------------------------------------
\* The process dies and starts again, now and then with another keystore;
\* what is on disk and on the screen of nobody remains.
Death ==
    /\ \/ Spend("death") /\ Reopen(provider)
       \/ Spend("probe") /\ \E p \in Choices \ {provider} : Reopen(p)
    /\ ring' = NoRows
    /\ gone' = gone \cup {task[t].d : t \in {u \in Tasks : task[u].op = "send"}}
    /\ task' = [t \in Tasks |-> NoTask]
    /\ ld' = Loading(rows) /\ refresh' = TRUE
    /\ open' = FALSE /\ query' = "" /\ timer' = FALSE /\ searchQ' = FALSE
    /\ clearing' = FALSE /\ ghost' = FALSE /\ job' = "none"
    /\ view' = NoView /\ lost' = FALSE /\ phase' = "idle"
    /\ comp' = NoComp /\ keyRes' = "none" /\ flying' = FALSE
    /\ UNCHANGED <<rows, kept, wiped, marks, msg, signer, outbox, told, promise>>

\* The settings page offers "Remove" for the keys of the snapshot.
pgpRows == view.keys

\* What the user and the world start.
Start ==
    \/ /\ ImportPGPKey \/ SyncPGPFromDirectory \/ DiscoverPGPKey
          \/ DiscoverContactKeysWKD \/ \E k \in pgpRows : DeletePGPKey(k)
       /\ UNCHANGED <<vaultVars, ld, refresh, readVars, sendVars, job>>
    \/ /\ StoreCredential \/ DeleteCredential \/ execSyncPrivateKey
       /\ UNCHANGED <<keyVars, task, ld, refresh, readVars, sendVars>>
    \/ ComposeStep
    \/ ReadStep

TaskStep(t) ==
    \/ /\ (\E k \in Fps : Skip(t, k) \/ StartLookup(t, k) \/ ImportKey(t, k))
          \/ LookupFails(t) \/ LookupFinds(t) \/ SealKey(t) \/ SealKeyFails(t) \/ StoreKeyRow(t) \/ StoreKeyRowFails(t) \/ DeleteRow(t)
       /\ UNCHANGED <<ld, refresh, readVars, sendVars, job>>
    \/ /\ DeleteRowFails(t) \/ DeleteSealed(t) \/ DeleteSealedFails(t)
       /\ refresh' = TRUE
       /\ UNCHANGED <<ld, readVars, sendVars, job>>
    \/ /\ Build(t) \/ EnqueueFails(t) \/ Finish(t)
       /\ UNCHANGED <<vaultVars, keyVars, ld, readVars, gone, job>>

VaultStep(t) ==
    \/ KeyStep(t) /\ UNCHANGED <<keyVars, task, ld, refresh, left, readVars, sendVars, job>>
    \/ KeyTrouble(t) /\ Spend("trouble")
       /\ UNCHANGED <<keyVars, task, ld, refresh, readVars, sendVars, job>>

EngineStep ==
    /\ SealCredential \/ OpenCopy \/ FetchPrivateKey \/ SealCopy
    /\ UNCHANGED <<ld, refresh, readVars, sendVars>>

LoaderStep == LoadStep \/ LoopStep \/ LoopTrouble

Next ==
    \/ Start \/ FrameStep \/ EngineStep \/ LoaderStep \/ Death
    \/ \E t \in Tasks : TaskStep(t)
    \/ \E t \in Threads : VaultStep(t)

(***************************************************************************)
(* Goroutines run: every network call has a timeout, every keystore and    *)
(* store call returns, the debounce timer fires and frames are drawn.      *)
(* What the user and the server do is left to them.                        *)
(***************************************************************************)
Fairness ==
    /\ WF_vars(LoaderStep) /\ WF_vars(EngineStep) /\ WF_vars(FrameStep)
    /\ WF_vars(SearchDebounce /\ UNCHANGED <<vaultVars, keyVars, task, ld, signer, sendVars, job>>)
    /\ WF_vars(ClearResults /\ UNCHANGED <<vaultVars, keyVars, task, ld, signer, sendVars, job>>)
    /\ \A t \in Tasks : WF_vars(TaskStep(t))
    /\ \A t \in Threads : WF_vars(VaultStep(t))

Spec == Init /\ [][Next]_vars /\ Fairness

-----------------------------------------------------------------------------
(***************************************************************************)
(* "so it survives restarts" (pgpstate.go:72): once a private import has   *)
(* sealed the key and written its row, or an old version left the key in   *)
(* its row, the row or the sealed file keeps it until the user asks for    *)
(* its deletion, whatever else is imported, fails or dies and whatever     *)
(* provider later processes choose: one with the provider that sealed it   *)
(* finds it.  The two exceptions are in the code: storing the public half  *)
(* of the same key (directory, WKD, paste) replaces the row, and           *)
(* loadPGPKeys then never asks the keystore; and a memory keystore answers *)
(* that it stored the key, whereupon migrateLegacyPrivateKey blanks the    *)
(* only lasting copy, "so the key is never lost" (pgpstate.go:55)          *)
(* notwithstanding.                                                        *)
(***************************************************************************)
PrivateKeySurvives ==
    kept => \/ rows[Me] \in {"legacy", "pub"} \/ volatile
            \/ rows[Me] = "sealed" /\ Recoverable(Me)

(***************************************************************************)
(* "a deleted identity leaves no key material behind" (pgpstate.go:244)    *)
(* holds of this much: once the user was told "Key deleted", with no       *)
(* goroutine storing the key meanwhile, the table does not hold the key,   *)
(* nor does the sealed file under the key's own alias, now and after any   *)
(* later death.  Excepted as residue, because the code tells the user the  *)
(* same: the keystore could not be written (deleteSealedPrivateKey drops   *)
(* the error, pgpvault.go:59; a repeated deletion then writes nothing), or *)
(* it is a memory keystore and the file is out of its reach.  And the copy *)
(* that execSyncPrivateKey seals under Copy is touched by no deletion: it  *)
(* stays in the file and the next SyncPrivateKey brings the key back.      *)
(***************************************************************************)
DeletedIsGone ==
    \A k \in wiped : rows[k] = "none" /\ (k \in Aliases /\ k \notin residue => sealed[k] = 0)

(***************************************************************************)
(* A draft for which encryption was on, or whose recipient had a key, when *)
(* the user tapped Send never reaches the outbox readable, however key     *)
(* lookups, toggles and the building goroutine interleave.                 *)
(***************************************************************************)
SecretStaysSecret ==
    \A d \in Drafts : outbox[d] \in {"clear", "signed"} => promise[d] = "open"

(***************************************************************************)
(* The composer is emptied when the plane lands, while a goroutine still   *)
(* builds the message: a draft that was sent is queued, being built, or    *)
(* its failure was shown, unless the process died in between.              *)
(***************************************************************************)
DraftAccounted ==
    \A d \in Drafts : promise[d] # "none" =>
        \/ outbox[d] # "none" \/ d \in told \cup gone
        \/ \E t \in Tasks : task[t].op = "send" /\ task[t].d = d

(***************************************************************************)
(* "Your encryption key is ready - encrypted mail will now open"           *)
(* (pgpstate_compose.go:38): with the private key on the ring an open      *)
(* encrypted message is eventually shown decrypted, although the reload    *)
(* under way may have looked before the key came and tokens coalesce.  A   *)
(* query that fails is not run again until something else refreshes.       *)
(***************************************************************************)
KeyOpensMail ==
    open /\ msg = "armored" /\ CanOpen(Me) /\ ~lost
    ~> view.body \in {"read", "verified"} \/ lost \/ ~open

(***************************************************************************)
(* The text in the search field, the empty one too, is eventually the one  *)
(* the results are for, past the debounce timer, reloads that started with *)
(* an older text and the stale answer guard.  One case is excepted: the    *)
(* field is cleared while a full reload that took the old text is under    *)
(* way.  Its commit brings the old results back, and as nothing asks for   *)
(* another reload they stay, although "Clearing the query applies at once  *)
(* so leaving the search screen never shows ghost results"                 *)
(* (appstate_nav.go:63).                                                   *)
(***************************************************************************)
SearchAnswers ==
    \A q \in Texts : query = q /\ ~lost /\ ~ghost
                     ~> query # q \/ view.results = q \/ lost \/ ghost

=============================================================================
