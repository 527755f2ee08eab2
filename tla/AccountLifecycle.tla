-------------------------- MODULE AccountLifecycle --------------------------
(***************************************************************************)
(* The sync manager (internal/syncmanager/manager.go, exec_account.go and  *)
(* connpool.go) and the boot loop that starts and stops it (ui/boot.go,    *)
(* cmd/vayumail/main.go).  One goroutine executes the commands; every      *)
(* account has a group of three goroutines of its own: the IDLE loop, the  *)
(* scheduler, and a watcher that closes the group's done channel.          *)
(*                                                                         *)
(* A step of the command loop is one database statement, one keystore      *)
(* call, or one section under a mutex.  A database call under a cancelled  *)
(* context fails.  The mail an account has stored is abstracted to the     *)
(* alias of the account it came from.                                      *)
(***************************************************************************)
EXTENDS Integers, Sequences

CONSTANTS Emails,       \* addresses the user adds
          Groups,       \* goroutine groups, reused once they have exited
          None,         \* no row, no group
          QueueCap,     \* capacity of cmdCh (64 in New)
          MaxId,        \* bound: account rowids
          MaxAdds,      \* bound: AddAccountCmds, each with an alias of its own
          MaxSends,     \* bound: commands the user sends
          MaxKeys,      \* bound: PGP keys generated on the device
          MaxRestarts   \* bound: process deaths and ends

Ids == 1..MaxId
Aliases == 1..MaxAdds
Names == Aliases \cup Emails     \* keystore entries: credentials and PGP keys
Account == [email : Emails, alias : Aliases]
Members == {"idle", "sched", "watch"}
Group == [id : Ids, alias : Aliases, ctx : {"live", "cancelled"}, alive : SUBSET Members]

ASSUME AccountAssumption ==
    /\ None \notin Account /\ None \notin Group /\ None \notin Groups
    /\ QueueCap \in Nat /\ MaxId \in Nat /\ MaxAdds \in Nat
    /\ MaxSends \in Nat /\ MaxKeys \in Nat /\ MaxRestarts \in Nat
    /\ Emails \cap Aliases = {}

VARIABLES
    \* persistent
    rows,       \* the accounts table
    data,       \* per account id: whose mail is stored under it
    disk,       \* the sealed file: per name the secret, 0 when there is none
    \* the process
    ks,         \* the keystore's copy of the file in memory
    ctx,        \* "live" until the window is destroyed
    boot,       \* where initEngine and the boot loop are
    loop,       \* the command loop: its place and the command it executes
    cmdQ,
    keyReqs,    \* SyncPrivateKeyCmds about to be sent by their own goroutine
    runners,    \* the runners and runnerDone maps
    grp,        \* the goroutine groups; None when all have exited
    pool,       \* cmdConns: aliases with a parked connection
    \* counters
    adds, sends, keys, restarts,
    \* history
    signedOut   \* aliases whose credential a removal has deleted

dbVars == <<rows, data>>
ksVars == <<ks, disk, keys>>
diskVars == <<dbVars, ksVars>>
taskVars == <<runners, grp>>
userVars == <<adds, sends, cmdQ>>
vars == <<diskVars, ctx, boot, loop, keyReqs, taskVars, pool, userVars, restarts, signedOut>>

Kinds == {"add", "remove", "update", "use", "key"}
AddCmd(e, a) == [kind |-> "add", id |-> 0, email |-> e, alias |-> a]
IdCmd(kind, id) == [kind |-> kind, id |-> id, email |-> None, alias |-> 0]
AddCmds == [kind : {"add"}, id : {0}, email : Emails, alias : Aliases]
IdCmds == [kind : Kinds \ {"add"}, id : Ids, email : {None}, alias : {0}]
Places == {"free", "store", "insert", "start", "get", "wait", "unstore", "delete",
           "restore", "conn", "dial", "fetchkey", "sealkey"}
FreeCmd == IdCmd("use", 0)

\* What the loop holds: a command, and in it the account it has looked up.
\* The loop is "off" before Start, and "exited" when it has returned.
Loops == [pc : Places \cup {"off", "exited"},
          cmd : [kind : Kinds, id : Ids \cup {0}, email : Emails \cup {None},
                 alias : Aliases \cup {0}]]
At(place) == loop.pc = place
Off == [pc |-> "off", cmd |-> FreeCmd]

Init ==
    /\ rows = [i \in Ids |-> None]
    /\ data = [i \in Ids |-> {}]
    /\ ks = [n \in Names |-> 0] /\ disk = [n \in Names |-> 0]
    /\ ctx = "live" /\ boot = "opening"
    /\ loop = Off /\ cmdQ = <<>> /\ keyReqs = {}
    /\ runners = [i \in Ids |-> None]
    /\ grp = [g \in Groups |-> None]
    /\ pool = {}
    /\ adds = 0 /\ sends = 0 /\ keys = 0 /\ restarts = 0
    /\ signedOut = {}

TypeOK ==
    /\ rows \in [Ids -> Account \cup {None}]
    /\ data \in [Ids -> SUBSET Aliases]
    /\ ks \in [Names -> Nat] /\ disk \in [Names -> Nat]
    /\ ctx \in {"live", "cancelled"}
    /\ boot \in {"opening", "ready", "taken", "failed", "ended"}
    /\ loop \in Loops
    /\ cmdQ \in Seq(AddCmds \cup IdCmds) /\ Len(cmdQ) <= QueueCap
    /\ keyReqs \subseteq Ids
    /\ runners \in [Ids -> Groups \cup {None}]
    /\ grp \in [Groups -> Group \cup {None}]
    /\ pool \subseteq Aliases
    /\ adds \in 0..MaxAdds /\ sends \in 0..MaxSends /\ keys \in Nat /\ restarts \in 0..MaxRestarts
    /\ signedOut \subseteq Aliases

-----------------------------------------------------------------------------
(***************************************************************************)
(* Manager.Send, by the user interface.  It never blocks: a full queue     *)
(* refuses the command.                                                    *)
(***************************************************************************)
Send(cmd) ==
    cmdQ' = IF Len(cmdQ) < QueueCap THEN Append(cmdQ, cmd) ELSE cmdQ

\* A setup screen makes up a fresh alias for every attempt.
UserAdds(e) ==
    /\ boot = "taken" /\ ctx = "live"
    /\ adds < MaxAdds /\ sends < MaxSends
    /\ Send(AddCmd(e, adds + 1))
    /\ adds' = adds + 1 /\ sends' = sends + 1
    /\ UNCHANGED <<diskVars, ctx, boot, loop, keyReqs, taskVars, pool, restarts, signedOut>>

\* Settings, lock and mail screens name an account by its rowid.
UserSends(kind, id) ==
    /\ boot = "taken" /\ ctx = "live"
    /\ sends < MaxSends /\ rows[id] # None
    /\ Send(IdCmd(kind, id))
    /\ sends' = sends + 1
    /\ UNCHANGED <<diskVars, ctx, boot, loop, keyReqs, taskVars, pool, adds, restarts, signedOut>>

\* The goroutine execAddAccount leaves behind to ask for the private key.
SendKeyReq(id) ==
    /\ id \in keyReqs
    /\ keyReqs' = keyReqs \ {id}
    /\ Send(IdCmd("key", id))
    /\ UNCHANGED <<diskVars, ctx, boot, loop, taskVars, pool, adds, sends, restarts, signedOut>>

-----------------------------------------------------------------------------
(***************************************************************************)
(* The sealed keystore.  Store and Delete change the copy in memory and    *)
(* then write all of it; the write may fail, and so may the cipher before  *)
(* anything has changed.                                                   *)
(***************************************************************************)
Credential == 1
Has(n) == ks[n] # 0

KsStore(n, secret) ==
    /\ ks' = [ks EXCEPT ![n] = secret]
    /\ disk' = ks'

KsStoreFails(n, secret) ==
    /\ ks' \in {ks, [ks EXCEPT ![n] = secret]}
    /\ UNCHANGED disk

KsDelete(n) ==
    /\ ks' = [ks EXCEPT ![n] = 0]
    /\ disk' \in {ks', disk}

-----------------------------------------------------------------------------
(***************************************************************************)
(* The goroutine groups.                                                   *)
(***************************************************************************)
Gone(g) == grp[g] = None

\* The context of a group ends with its cancel function or with the manager's.
Cancelled(g) == grp[g].ctx = "cancelled" \/ ctx = "cancelled"

NewGroup(id) == [id |-> id, alias |-> rows[id].alias, ctx |-> "live", alive |-> Members]

\* startAccount: nothing happens when the account has a runner.
StartAccount(id) ==
    IF runners[id] # None THEN UNCHANGED taskVars
    ELSE \E g \in Groups :
           /\ Gone(g) /\ \A i \in Ids : runners[i] # g
           /\ runners' = [runners EXCEPT ![id] = g]
           /\ grp' = [grp EXCEPT ![g] = NewGroup(id)]

\* The goroutine m of g returns.
Leave(g, m) ==
    grp' = [grp EXCEPT ![g] = IF grp[g].alive = {m} THEN None
                              ELSE [id |-> grp[g].id, alias |-> grp[g].alias,
                                    ctx |-> grp[g].ctx, alive |-> grp[g].alive \ {m}]]

\* Mutant: the statements do not carry the context of the group.
SyncWritesLate(g) ==
    /\ ~Gone(g) /\ "idle" \in grp[g].alive
    /\ rows[grp[g].id] # None
    /\ data' = [data EXCEPT ![grp[g].id] = @ \cup {grp[g].alias}]
    /\ UNCHANGED <<rows, ksVars, ctx, boot, loop, keyReqs, taskVars, pool, userVars,
                   restarts, signedOut>>

\* The IDLE loop stores mail; the rows reference the accounts table.
SyncWrites(g) ==
    /\ ~Gone(g) /\ "idle" \in grp[g].alive /\ ~Cancelled(g)
    /\ rows[grp[g].id] # None
    /\ data' = [data EXCEPT ![grp[g].id] = @ \cup {grp[g].alias}]
    /\ UNCHANGED <<rows, ksVars, ctx, boot, loop, keyReqs, taskVars, pool, userVars,
                   restarts, signedOut>>

\* RunIDLE gives up for good when the server refuses the credential.
IdleAborts(g) ==
    /\ ~Gone(g) /\ "idle" \in grp[g].alive /\ ~Cancelled(g)
    /\ Leave(g, "idle")
    /\ UNCHANGED <<diskVars, ctx, boot, loop, keyReqs, runners, pool, userVars, restarts, signedOut>>

\* Mutant: the IDLE loop does not look at its context while it backs off.
SchedulerExits(g) ==
    /\ ~Gone(g) /\ Cancelled(g)
    /\ "sched" \in grp[g].alive /\ Leave(g, "sched")
    /\ UNCHANGED <<diskVars, ctx, boot, loop, keyReqs, runners, pool, userVars, restarts, signedOut>>

WorkerExits(g) ==
    /\ ~Gone(g) /\ Cancelled(g)
    /\ \E m \in grp[g].alive \cap {"idle", "sched"} : Leave(g, m)
    /\ UNCHANGED <<diskVars, ctx, boot, loop, keyReqs, runners, pool, userVars, restarts, signedOut>>

\* workers.Wait returns and the done channel is closed.
WatcherExits(g) ==
    /\ ~Gone(g) /\ grp[g].alive = {"watch"}
    /\ Leave(g, "watch")
    /\ UNCHANGED <<diskVars, ctx, boot, loop, keyReqs, runners, pool, userVars, restarts, signedOut>>

-----------------------------------------------------------------------------
(***************************************************************************)
(* The command loop.                                                       *)
(***************************************************************************)
Goto(place) == loop' = [pc |-> place, cmd |-> loop.cmd]
Done == loop' = [pc |-> "free", cmd |-> FreeCmd]

\* The select takes either ready case, so a command may still be taken after
\* the context was cancelled.
Dequeue ==
    /\ At("free") /\ cmdQ # <<>>
    /\ loop' = [pc |-> IF Head(cmdQ).kind = "add" THEN "store" ELSE "get", cmd |-> Head(cmdQ)]
    /\ cmdQ' = Tail(cmdQ)
    /\ UNCHANGED <<diskVars, ctx, boot, keyReqs, taskVars, pool, adds, sends, restarts, signedOut>>

LoopExits ==
    /\ At("free") /\ ctx = "cancelled"
    /\ loop' = [pc |-> "exited", cmd |-> FreeCmd]
    /\ UNCHANGED <<diskVars, ctx, boot, keyReqs, taskVars, pool, userVars, restarts, signedOut>>

\* Mutant: the keystore's error is not looked at.
AddStoresUnchecked ==
    /\ At("store")
    /\ KsStore(loop.cmd.alias, Credential) \/ KsStoreFails(loop.cmd.alias, Credential)
    /\ Goto("insert")
    /\ UNCHANGED <<dbVars, keys, ctx, boot, keyReqs, taskVars, pool, userVars, restarts, signedOut>>

\* execAddAccount up to the keystore, which may refuse.
AddStores ==
    /\ At("store")
    /\ \/ KsStore(loop.cmd.alias, Credential) /\ Goto("insert")
       \/ KsStoreFails(loop.cmd.alias, Credential) /\ Done
    /\ UNCHANGED <<dbVars, keys, ctx, boot, keyReqs, taskVars, pool, userVars, restarts, signedOut>>

\* One more than the largest rowid present, as for every INTEGER PRIMARY KEY.
NextRowid(id) ==
    /\ \A j \in Ids : rows[j] # None => j < id
    /\ id = 1 \/ (id - 1 \in Ids /\ rows[id - 1] # None)

Duplicate(e) == \E j \in Ids : rows[j] # None /\ rows[j].email = e

\* InsertAccount, which may fail; email_address is UNIQUE.
AddInserts ==
    /\ At("insert")
    /\ \/ /\ ctx = "live" /\ ~Duplicate(loop.cmd.email)
          /\ \E id \in Ids :
                /\ NextRowid(id)
                /\ rows' = [rows EXCEPT ![id] = [email |-> loop.cmd.email, alias |-> loop.cmd.alias]]
                /\ loop' = [pc |-> "start",
                            cmd |-> [kind |-> "add", id |-> id,
                                     email |-> loop.cmd.email, alias |-> loop.cmd.alias]]
       \/ Done /\ UNCHANGED rows
    /\ UNCHANGED <<data, ksVars, ctx, boot, keyReqs, taskVars, pool, userVars, restarts, signedOut>>

\* The end of execAddAccount and of execUpdateCredential.
StartsAccount ==
    /\ At("start")
    /\ StartAccount(loop.cmd.id)
    /\ keyReqs' = IF loop.cmd.kind = "add" THEN keyReqs \cup {loop.cmd.id} ELSE keyReqs
    /\ Done
    /\ UNCHANGED <<diskVars, ctx, boot, pool, userVars, restarts, signedOut>>

-----------------------------------------------------------------------------
(***************************************************************************)
(* execRemoveAccount and execUpdateCredential.                             *)
(***************************************************************************)
Target == loop.cmd.id

\* Mutant: the goroutines of the account are left running.
StopsNothing(id) == UNCHANGED taskVars

\* Mutant: the entry is deleted and cancel is not called.
StopForgets(id) ==
    /\ runners' = [runners EXCEPT ![id] = None]
    /\ UNCHANGED grp

\* The map section of stopAccount and the call of cancel.
StopAccount(id) ==
    /\ runners' = [runners EXCEPT ![id] = None]
    /\ grp' = [g \in Groups |->
                 IF runners[id] = g /\ ~Gone(g)
                 THEN [id |-> grp[g].id, alias |-> grp[g].alias,
                       ctx |-> "cancelled", alive |-> grp[g].alive]
                 ELSE grp[g]]

\* GetAccount fails for a row that is gone, or a cancelled context.
Missing(id) == rows[id] = None \/ ctx = "cancelled"

\* The account found is kept in the command; email and alias were free.
Found(id, place) ==
    loop' = [pc |-> place,
             cmd |-> [kind |-> loop.cmd.kind, id |-> id,
                      email |-> rows[id].email, alias |-> rows[id].alias]]

GetAndStop ==
    /\ At("get") /\ loop.cmd.kind \in {"remove", "update"}
    /\ IF Missing(Target) THEN Done /\ UNCHANGED taskVars
       ELSE Found(Target, "wait") /\ StopAccount(Target)
    /\ UNCHANGED <<diskVars, ctx, boot, keyReqs, pool, userVars, restarts, signedOut>>

\* dropCommandConn.
DropCommandConn(alias) == pool \ {alias}

(***************************************************************************)
(* The wait for the done channel, which stopAccountWait bounds: the loop   *)
(* goes on whether or not the group has exited.                            *)
(***************************************************************************)
WaitEnds ==
    /\ At("wait")
    /\ IF loop.cmd.kind = "remove"
       THEN Goto("unstore") /\ pool' = DropCommandConn(loop.cmd.alias)
       ELSE Goto("restore") /\ UNCHANGED pool
    /\ UNCHANGED <<diskVars, ctx, boot, keyReqs, taskVars, userVars, restarts, signedOut>>

\* A keystore failure does not stop the removal.
RemoveUnstores ==
    /\ At("unstore")
    /\ KsDelete(loop.cmd.alias)
    /\ signedOut' = signedOut \cup {loop.cmd.alias}
    /\ Goto("delete")
    /\ UNCHANGED <<dbVars, keys, ctx, boot, keyReqs, taskVars, pool, userVars, restarts>>

\* DeleteAccount, which may fail; what the account stored cascades away.
RemoveDeletes ==
    /\ At("delete")
    /\ \/ /\ ctx = "live"
          /\ rows' = [rows EXCEPT ![Target] = None]
          /\ data' = [data EXCEPT ![Target] = {}]
       \/ UNCHANGED dbVars
    /\ Done
    /\ UNCHANGED <<ksVars, ctx, boot, keyReqs, taskVars, pool, userVars, restarts, signedOut>>

\* The new credential; after a refusal the account stays stopped.
UpdateStores ==
    /\ At("restore")
    /\ \/ KsStore(loop.cmd.alias, Credential) /\ Goto("start")
       \/ KsStoreFails(loop.cmd.alias, Credential) /\ Done
    /\ UNCHANGED <<dbVars, keys, ctx, boot, keyReqs, taskVars, pool, userVars, restarts, signedOut>>

-----------------------------------------------------------------------------
(***************************************************************************)
(* withCommandConn, for any command that talks to the server and stores    *)
(* what it learns.                                                         *)
(***************************************************************************)
UseGets ==
    /\ At("get") /\ loop.cmd.kind = "use"
    /\ IF Missing(Target) THEN Done ELSE Found(Target, "conn")
    /\ UNCHANGED <<diskVars, ctx, boot, keyReqs, taskVars, pool, userVars, restarts, signedOut>>

\* What the command writes, unless its context has ended.
UseWrites ==
    data' = IF ctx = "live"
            THEN [data EXCEPT ![Target] = @ \cup {loop.cmd.alias}] ELSE data

\* The pooled connection serves the command, or is suspect or too old.
UsePooled ==
    /\ At("conn")
    /\ \/ loop.cmd.alias \in pool /\ UseWrites /\ Done /\ UNCHANGED pool
       \/ Goto("dial") /\ pool' = pool \ {loop.cmd.alias} /\ UNCHANGED data
    /\ UNCHANGED <<rows, ksVars, ctx, boot, keyReqs, taskVars, userVars, restarts, signedOut>>

\* A fresh connection is parked only when the command has succeeded on it.
UseDials ==
    /\ At("dial")
    /\ \/ /\ Has(loop.cmd.alias) /\ ctx = "live"
          /\ UseWrites /\ pool' = pool \cup {loop.cmd.alias}
       \/ UNCHANGED <<data, pool>>
    /\ Done
    /\ UNCHANGED <<rows, ksVars, ctx, boot, keyReqs, taskVars, userVars, restarts, signedOut>>

-----------------------------------------------------------------------------
(***************************************************************************)
(* execSyncPrivateKey.                                                     *)
(***************************************************************************)

\* Tier 1: a key that can be unsealed is used as it is.  Any error of Fetch,
\* of the master key too, counts as no key.
KeyGets ==
    /\ At("get") /\ loop.cmd.kind = "key"
    /\ \/ Missing(Target) /\ Done
       \/ ~Missing(Target) /\ Has(rows[Target].email) /\ Done
       \/ ~Missing(Target) /\ Found(Target, "fetchkey")
    /\ UNCHANGED <<diskVars, ctx, boot, keyReqs, taskVars, pool, userVars, restarts, signedOut>>

ServerKey == 1
DeviceKey(n) == n + 1

\* Tier 2: the server's key, sealed at best effort; tier 3: it has none.
KeyFetches ==
    /\ At("fetchkey")
    /\ \/ /\ Has(loop.cmd.alias) /\ Done
          /\ KsStore(loop.cmd.email, ServerKey) \/ KsStoreFails(loop.cmd.email, ServerKey)
       \/ Has(loop.cmd.alias) /\ Goto("sealkey") /\ UNCHANGED <<ks, disk>>
       \/ Done /\ UNCHANGED <<ks, disk>>
    /\ UNCHANGED <<dbVars, keys, ctx, boot, keyReqs, taskVars, pool, userVars, restarts, signedOut>>

\* A key is generated here and sealed.
KeySeals ==
    /\ At("sealkey")
    /\ \/ /\ keys < MaxKeys /\ keys' = keys + 1
          /\ \/ KsStore(loop.cmd.email, DeviceKey(keys'))
             \/ KsStoreFails(loop.cmd.email, DeviceKey(keys'))
       \/ UNCHANGED ksVars
    /\ Done
    /\ UNCHANGED <<dbVars, ctx, boot, keyReqs, taskVars, pool, userVars, restarts, signedOut>>

-----------------------------------------------------------------------------
(***************************************************************************)
(* initEngine, the boot loop and the end of the process.                   *)
(***************************************************************************)

\* Start: every account gets a group, and the command loop is spawned.
Start ==
    /\ boot = "opening" /\ ctx = "live"
    /\ \E f \in [{i \in Ids : rows[i] # None} -> Groups] :
          /\ \A i, j \in DOMAIN f : f[i] = f[j] => i = j
          /\ runners' = [i \in Ids |-> IF i \in DOMAIN f THEN f[i] ELSE None]
          /\ grp' = [g \in Groups |->
                       IF \E i \in DOMAIN f : f[i] = g
                       THEN NewGroup(CHOOSE i \in DOMAIN f : f[i] = g) ELSE None]
    /\ loop' = [pc |-> "free", cmd |-> FreeCmd]
    /\ boot' = "ready"
    /\ UNCHANGED <<diskVars, ctx, keyReqs, pool, userVars, restarts, signedOut>>

\* The store does not open, or ListAccounts fails: Fail.
StartFails ==
    /\ boot = "opening"
    /\ boot' = "failed"
    /\ UNCHANGED <<diskVars, ctx, loop, keyReqs, taskVars, pool, userVars, restarts, signedOut>>

\* A frame finds the engine that Attach left in the ready channel.
FrameTakes ==
    /\ boot = "ready" /\ ctx = "live"
    /\ boot' = "taken"
    /\ UNCHANGED <<diskVars, ctx, loop, keyReqs, taskVars, pool, userVars, restarts, signedOut>>

\* DestroyEvent: Run returns and main cancels the context.
Destroy ==
    /\ ctx = "live"
    /\ ctx' = "cancelled"
    /\ UNCHANGED <<diskVars, boot, loop, keyReqs, taskVars, pool, userVars, restarts, signedOut>>

\* Shutdown: wg.Wait, and only then the pooled connections.
Shutdown ==
    /\ ctx = "cancelled" /\ boot = "taken"
    /\ loop.pc = "exited" /\ \A g \in Groups : Gone(g)
    /\ pool' = {} /\ boot' = "ended"
    /\ UNCHANGED <<diskVars, ctx, loop, keyReqs, taskVars, userVars, restarts, signedOut>>

\* The process dies at any point, or exits after Shutdown; it starts again.
\* The keystore is read back from its file.
Restart ==
    /\ restarts < MaxRestarts
    /\ restarts' = restarts + 1
    /\ ctx' = "live" /\ boot' = "opening" /\ loop' = Off
    /\ cmdQ' = <<>> /\ keyReqs' = {} /\ pool' = {}
    /\ runners' = [i \in Ids |-> None] /\ grp' = [g \in Groups |-> None]
    /\ ks' = disk
    /\ UNCHANGED <<dbVars, disk, keys, adds, sends, signedOut>>

-----------------------------------------------------------------------------
UserStep ==
    \/ \E e \in Emails : UserAdds(e)
    \/ \E kind \in {"remove", "update", "use", "key"}, id \in Ids : UserSends(kind, id)

GroupStep(g) == SyncWrites(g) \/ IdleAborts(g) \/ WorkerExits(g) \/ WatcherExits(g)

LoopStep ==
    \/ Dequeue \/ LoopExits
    \/ AddStores \/ AddInserts \/ StartsAccount
    \/ GetAndStop \/ WaitEnds \/ RemoveUnstores \/ RemoveDeletes \/ UpdateStores
    \/ UseGets \/ UsePooled \/ UseDials
    \/ KeyGets \/ KeyFetches \/ KeySeals

BootStep == Start \/ StartFails \/ FrameTakes \/ Destroy \/ Shutdown \/ Restart

Next ==
    \/ UserStep \/ LoopStep \/ BootStep
    \/ \E id \in Ids : SendKeyReq(id)
    \/ \E g \in Groups : GroupStep(g)

Spec == Init /\ [][Next]_vars

(***************************************************************************)
(* Goroutines that can run do run, and a cancelled one returns: each of    *)
(* its waits has a context, a deadline or a connection that fails.         *)
(***************************************************************************)
FairSpec ==
    /\ Spec
    /\ WF_vars(LoopStep) /\ WF_vars(Shutdown)
    /\ \A g \in Groups : WF_vars(WorkerExits(g)) /\ WF_vars(WatcherExits(g))

-----------------------------------------------------------------------------
(***************************************************************************)
(* What the loop knows of the command it executes: the parts of it that    *)
(* are filled in, and that the account it has looked up is still there,    *)
(* since nobody else deletes accounts.                                     *)
(***************************************************************************)
Adding == {"store", "insert"}
Holding == {"start", "wait", "unstore", "delete", "restore", "conn", "dial",
            "fetchkey", "sealkey"}

LoopKnows ==
    /\ loop.pc \in Adding => /\ loop.cmd.kind = "add"
                             /\ loop.cmd.email \in Emails /\ loop.cmd.alias \in Aliases
    /\ loop.pc = "get" => loop.cmd.kind # "add" /\ loop.cmd.id \in Ids
    /\ loop.pc \in Holding =>
          /\ loop.cmd.id \in Ids /\ rows[loop.cmd.id] # None
          /\ loop.cmd.email \in Emails
          /\ loop.cmd.alias = rows[loop.cmd.id].alias

\* stopAccount has been called, or the row is new, and startAccount has not.
Stopped == {"wait", "unstore", "delete", "restore", "start"}
StoppedIsOut == loop.pc \in Stopped => runners[loop.cmd.id] = None

\* The command loop is spawned by Start.
OpeningIsOff == boot = "opening" => loop.pc = "off"

\* A runner is the group of an account that exists.
RunnersMatchRows ==
    \A i \in Ids : runners[i] # None =>
        /\ rows[i] # None
        /\ ~Gone(runners[i]) => grp[runners[i]].id = i /\ grp[runners[i]].alias = rows[i].alias

(***************************************************************************)
(* Every goroutine group that was not cancelled is the one the runners map *)
(* names for its account, so stopAccount can reach it and no account is    *)
(* synced twice: through removals, re-adds that reuse a rowid, credential  *)
(* updates and groups that outlive the bounded wait.                       *)
(***************************************************************************)
LiveGroupsAreKnown ==
    \A g \in Groups : ~Gone(g) /\ grp[g].ctx = "live" => runners[grp[g].id] = g

(***************************************************************************)
(* Mail stored under an account id is that account's own: when the rowid   *)
(* of a removed account is given to another, neither a group that is still *)
(* draining nor a queued command writes the old account's mail into it     *)
(* (exec_account.go:194, "so no in-flight sync resurrects rows").          *)
(***************************************************************************)
MailBelongsToAccount ==
    \A i \in Ids : IF rows[i] = None THEN data[i] = {} ELSE data[i] \subseteq {rows[i].alias}

(***************************************************************************)
(* An account whose credential is missing is one whose removal was cut     *)
(* short: adding an account, also one that fails or dies half-way, never   *)
(* leaves a row without a credential (store/accounts.go:54).               *)
(***************************************************************************)
CredentialPrecedesRow ==
    \A i \in Ids : rows[i] # None => Has(rows[i].alias) \/ rows[i].alias \in signedOut

\* What holds of the credentials on the way: the file is written before the
\* row, and the pool is emptied before the credential goes.
CredentialsOnTheWay ==
    /\ loop.pc = "insert" => Has(loop.cmd.alias) /\ disk[loop.cmd.alias] # 0
    /\ loop.pc = "unstore" => loop.cmd.alias \notin pool
    /\ \A i \in Ids : rows[i] # None =>
          disk[rows[i].alias] # 0 \/ rows[i].alias \in signedOut

(***************************************************************************)
(* A pooled connection does not outlive the credential it was made with    *)
(* (exec_account.go:210).                                                  *)
(***************************************************************************)
PooledHasCredential == \A a \in pool : Has(a)

(***************************************************************************)
(* A credential update that succeeds leaves the account syncing, also when *)
(* its IDLE loop had given up on the old credential.                       *)
(***************************************************************************)
UpdateRevives ==
    [][At("start") /\ loop.cmd.kind = "update" /\ loop'.pc = "free"
         => LET g == runners'[Target] IN
              g # None /\ grp'[g].alive = Members /\ grp'[g].ctx = "live"]_vars

(***************************************************************************)
(* Once the window is gone, Shutdown returns, whatever command and however *)
(* many groups were under way.                                             *)
(***************************************************************************)
ShutdownReturns == ctx = "cancelled" /\ boot = "taken" ~> boot # "taken"
=============================================================================
