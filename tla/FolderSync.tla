----------------------------- MODULE FolderSync -----------------------------
(***************************************************************************)
(* The cache of one mailbox.  The IDLE goroutine of the account            *)
(* (internal/mail/imapsync/idle.go) and the command loop's sync and        *)
(* refetch commands (internal/syncmanager/exec.go) both run SyncFolder     *)
(* (internal/mail/imapsync/fetch.go) against the same two tables, with no  *)
(* lock between them.  One step of a syncer is one SQL statement (the      *)
(* database has a single connection) or one IMAP round trip; the mailbox   *)
(* may change between any two of them.                                     *)
(*                                                                         *)
(* The flags of a message are abstracted to the mod-sequence of the last   *)
(* change made to them, so equal values stand for equal flags.             *)
(***************************************************************************)
EXTENDS Integers, Sequences

CONSTANTS Idle, Loop,   \* the goroutines that sync
          None,         \* no cached row
          IdleModes,    \* subset of {"idle", "poll"}: with or without IDLE
          NotifyCap,    \* capacity of the notify channel (64 in Dial)
          Worlds,       \* what the rest of the world may do in one behaviour
          MaxUid,       \* bound: UIDs of one generation of the mailbox
          MaxVal,       \* bound: generations (UIDVALIDITY values) of the mailbox
          MaxMod,       \* bound: mod-sequences, hence arrivals and flag changes
          MaxFaults     \* bound: lost connections and process deaths

Uids == 1..MaxUid
Syncers == {Idle, Loop}

\* Whether the user has the command loop sync, whether the server advertises
\* CONDSTORE, which UIDs other clients may expunge, and bounds of the behaviour
\* within those of the instance.
World == [loop : BOOLEAN, condstore : BOOLEAN, expunge : SUBSET Uids,
          vals : 0..MaxVal, mods : 0..MaxMod, faults : 0..MaxFaults]

ASSUME FolderSyncAssumption ==
    /\ Idle # Loop
    /\ IdleModes \subseteq {"idle", "poll"}
    /\ NotifyCap \in Nat /\ MaxUid \in Nat /\ MaxVal \in Nat
    /\ MaxMod \in Nat /\ MaxFaults \in Nat
    /\ Worlds \subseteq World

\* A cached row: the generation its envelope came from, and its flags.
Row == [gen : Nat, flags : Nat]
ASSUME RowAssumption == None \notin Row

\* One buffer of a FETCH response, or the copy of a row RefetchMessage holds.
Buffer == [uid : Uids, gen : Nat, flags : Nat]
Kinds == {"exists", "expunge", "flags"}

VARIABLES
    \* the server
    srvVal,     \* UIDVALIDITY
    box,        \* Uids -> mod-sequence of the message, 0 when there is none
    uidNext,
    modSeq,     \* HIGHESTMODSEQ
    mode,       \* "idle" when the server advertises IDLE, else "poll"
    world,      \* what others may do, fixed at the start
    \* the store (persistent)
    folder,     \* the sync anchors of the folders row; val 0: never synced
    cache,      \* the messages of the folder
    \* one syncer
    pc,
    conn,       \* generation its connection has selected, 0 when none
    snap,       \* the folders row it read
    sel,        \* SelectData, or the new anchors of RefreshFlags
    high,       \* HighestUID
    todo,       \* fetched buffers not yet written
    \* the IDLE goroutine only
    known,      \* FolderFlags
    uids,       \* the UID inventory, then the stale rows
    notify,     \* the notification channel
    faults,     \* lost connections and restarts so far
    skipped     \* history: rows behind the server that the anchor has passed or the
                \* command loop has written

srvVars == <<srvVal, box, uidNext, modSeq, mode, world>>
dbVars == <<folder, cache>>
syncVars == <<pc, conn, snap, sel, high, todo>>
idleVars == <<known, uids, notify>>
vars == <<srvVars, dbVars, syncVars, idleVars, faults, skipped>>

Anchors == [val : Nat, mod : Nat]
Selected == [val : Nat, mod : Nat, any : {"yes", "no"}]
NoAnchors == [val |-> 0, mod |-> 0]
NoSelected == [val |-> 0, mod |-> 0, any |-> "no"]
Places == {"off", "select", "clear", "anchor", "highest", "fetch", "store",
           "idle", "inventory", "list", "purge", "cached", "flags", "apply",
           "refetch", "upsert"}

ServerTypeOK ==
    /\ srvVal \in Nat /\ uidNext \in Nat /\ modSeq \in Nat
    /\ box \in [Uids -> Nat] /\ mode \in IdleModes /\ world \in World

StoreTypeOK ==
    /\ folder \in Anchors
    /\ cache \in [Uids -> Row \cup {None}]

SyncTypeOK ==
    /\ pc \in [Syncers -> Places]
    /\ conn \in [Syncers -> Nat]
    /\ snap \in [Syncers -> Anchors]
    /\ sel \in [Syncers -> Selected]
    /\ high \in [Syncers -> Nat]
    /\ todo \in [Syncers -> SUBSET Buffer]

IdleTypeOK ==
    /\ known \in [Uids -> Nat]
    /\ uids \subseteq Uids
    /\ notify \in Seq(Kinds) /\ Len(notify) <= NotifyCap

TypeOK == ServerTypeOK /\ StoreTypeOK /\ SyncTypeOK /\ IdleTypeOK /\ faults \in Nat /\ skipped \subseteq Uids

\* A freshly provisioned account and a mailbox that may hold mail.
Init ==
    /\ srvVal = 1 /\ modSeq = 1 /\ mode \in IdleModes /\ world \in Worlds
    /\ uidNext \in 1..(MaxUid + 1)
    /\ box = [u \in Uids |-> IF u < uidNext THEN 1 ELSE 0]
    /\ folder = NoAnchors
    /\ cache = [u \in Uids |-> None]
    /\ pc = [s \in Syncers |-> "off"]
    /\ conn = [s \in Syncers |-> 0]
    /\ snap = [s \in Syncers |-> NoAnchors]
    /\ sel = [s \in Syncers |-> NoSelected]
    /\ high = [s \in Syncers |-> 0]
    /\ todo = [s \in Syncers |-> {}]
    /\ known = [u \in Uids |-> 0]
    /\ uids = {}
    /\ notify = <<>>
    /\ faults = 0
    /\ skipped = {}

-----------------------------------------------------------------------------
(***************************************************************************)
(* The server.  A change is announced to the IDLE connection, unless that  *)
(* connection has an older generation of the mailbox selected, or none.    *)
(***************************************************************************)
OnServer(u) == box[u] # 0
Cached(u) == cache[u] # None

\* pushNotification never blocks: a full channel drops the notification.
Push(kind) == IF Len(notify) < NotifyCap THEN Append(notify, kind) ELSE notify

Announce(kind) ==
    notify' = IF conn[Idle] = srvVal THEN Push(kind) ELSE notify

Deliver ==
    /\ uidNext <= MaxUid /\ modSeq < world.mods
    /\ box' = [box EXCEPT ![uidNext] = modSeq + 1]
    /\ uidNext' = uidNext + 1
    /\ modSeq' = modSeq + 1
    /\ Announce("exists")
    /\ UNCHANGED <<srvVal, mode, world, dbVars, syncVars, known, uids, faults, skipped>>

Expunge(u) ==
    /\ u \in world.expunge /\ OnServer(u)
    /\ box' = [box EXCEPT ![u] = 0]
    /\ Announce("expunge")
    /\ UNCHANGED <<srvVal, uidNext, modSeq, mode, world, dbVars, syncVars, known, uids, faults, skipped>>

ChangeFlags(u) ==
    /\ OnServer(u) /\ modSeq < world.mods
    /\ box' = [box EXCEPT ![u] = modSeq + 1]
    /\ modSeq' = modSeq + 1
    /\ Announce("flags")
    /\ UNCHANGED <<srvVal, uidNext, mode, world, dbVars, syncVars, known, uids, faults, skipped>>

\* The mailbox is recreated: a new UIDVALIDITY, and UIDs from 1 again.
Recreate ==
    /\ srvVal < world.vals /\ modSeq < world.mods
    /\ srvVal' = srvVal + 1
    /\ modSeq' = modSeq + 1
    /\ uidNext' \in 1..(MaxUid + 1)
    /\ box' = [u \in Uids |-> IF u < uidNext' THEN modSeq' ELSE 0]
    /\ UNCHANGED <<mode, world, dbVars, syncVars, idleVars, faults, skipped>>

-----------------------------------------------------------------------------
(***************************************************************************)
(* SyncFolder, by either syncer.                                           *)
(***************************************************************************)
Goto(s, place) == pc' = [pc EXCEPT ![s] = place]

\* A syncer that is done: the IDLE goroutine idles, the loop is free again.
Rest(s) == IF s = Idle THEN "idle" ELSE "off"

\* The connection of s still has the current mailbox selected.
Fresh(s) == conn[s] = srvVal

\* Dial, SyncFolders and GetFolderByFullName; GetFolder and the pooled
\* connection for the command loop.
ReadFolder(s) ==
    /\ pc[s] = "off"
    /\ snap' = [snap EXCEPT ![s] = folder]
    /\ Goto(s, "select")
    /\ UNCHANGED <<srvVars, dbVars, conn, sel, high, todo, idleVars, faults, skipped>>

\* Mutant: the cache is kept across a UIDVALIDITY change.
InvalidatesNothing(s, val) == FALSE

\* A UIDVALIDITY change invalidates every cached UID.
Invalidates(s, val) == snap[s].val # 0 /\ val # snap[s].val

SelectFolder(s) ==
    /\ pc[s] = "select"
    /\ conn' = [conn EXCEPT ![s] = srvVal]
    /\ sel' = [sel EXCEPT ![s] =
                 [val |-> srvVal,
                  mod |-> IF world.condstore THEN modSeq ELSE 0,
                  any |-> IF \E u \in Uids : OnServer(u) THEN "yes" ELSE "no"]]
    /\ Goto(s, IF Invalidates(s, srvVal) THEN "clear" ELSE "anchor")
    /\ UNCHANGED <<srvVars, dbVars, snap, high, todo, idleVars, faults, skipped>>

ClearFolderMessages(s) ==
    /\ pc[s] = "clear"
    /\ cache' = [u \in Uids |-> None]
    /\ skipped' = {}
    /\ Goto(s, "anchor")
    /\ UNCHANGED <<srvVars, folder, conn, snap, sel, high, todo, idleVars, faults>>

\* After a write to either table: of the rows in us, those skipped before and
\* those CHANGEDSINCE will not report again, the ones behind the server.
Skips(us) ==
    skipped' = {u \in us \cup skipped \cup {v \in Uids : box[v] <= folder'.mod} :
                  OnServer(u) /\ cache'[u] # None /\ cache'[u].flags # box[u]}

SetFolderSyncState(s) ==
    /\ pc[s] = "anchor"
    /\ folder' = [val |-> sel[s].val, mod |-> sel[s].mod]
    /\ Goto(s, "highest")
    /\ UNCHANGED <<srvVars, cache, conn, snap, sel, high, todo, idleVars, faults>>
    /\ Skips({})

\* MAX(uid) of the cached rows, or 0.
IsHighest(h) ==
    /\ \A u \in Uids : Cached(u) => u <= h
    /\ h = 0 \/ (h \in Uids /\ Cached(h))

HighestUID(s) ==
    /\ pc[s] = "highest"
    /\ \E h \in 0..MaxUid : IsHighest(h) /\ high' = [high EXCEPT ![s] = h]
    /\ sel' = [sel EXCEPT ![s] = NoSelected]
    /\ Goto(s, IF sel[s].any = "yes" THEN "fetch" ELSE Rest(s))
    /\ UNCHANGED <<srvVars, dbVars, conn, snap, todo, idleVars, faults, skipped>>

\* Mutant: the window starts one UID too high.
FetchSkipsOne(s) ==
    /\ pc[s] = "fetch" /\ Fresh(s)
    /\ todo' = [todo EXCEPT ![s] =
                  {[uid |-> u, gen |-> srvVal, flags |-> box[u]] :
                     u \in {v \in Uids : OnServer(v) /\ v > high[s] + 1}}]
    /\ high' = [high EXCEPT ![s] = 0]
    /\ Goto(s, "store")
    /\ UNCHANGED <<srvVars, dbVars, conn, snap, sel, idleVars, faults, skipped>>

\* UID FETCH highest+1:* of the envelopes, with the UIDs already held skipped.
FetchEnvelopes(s) ==
    /\ pc[s] = "fetch" /\ Fresh(s)
    /\ todo' = [todo EXCEPT ![s] =
                  {[uid |-> u, gen |-> srvVal, flags |-> box[u]] :
                     u \in {v \in Uids : OnServer(v) /\ v > high[s]}}]
    /\ high' = [high EXCEPT ![s] = 0]
    /\ Goto(s, "store")
    /\ UNCHANGED <<srvVars, dbVars, conn, snap, sel, idleVars, faults, skipped>>

\* On a conflict the envelope columns of the row keep their old values.
UpsertMessage(b) ==
    cache' = [cache EXCEPT ![b.uid] =
                IF Cached(b.uid)
                THEN [gen |-> cache[b.uid].gen, flags |-> b.flags]
                ELSE [gen |-> b.gen, flags |-> b.flags]]

First(s, b) == b \in todo[s] /\ \A c \in todo[s] : b.uid <= c.uid

\* Mutant: the newest message is stored first.
StoreNewestFirst(s) ==
    /\ pc[s] = "store"
    /\ UNCHANGED <<srvVars, folder, pc, conn, snap, sel, high, idleVars, faults>>
    /\ \E b \in todo[s] :
          /\ \A c \in todo[s] : c.uid <= b.uid
          /\ UpsertMessage(b)
          /\ todo' = [todo EXCEPT ![s] = @ \ {b}]
          /\ Skips(IF s = Loop THEN {b.uid} ELSE {})

(***************************************************************************)
(* One turn of the loop, in the order of the response.  A body that cannot *)
(* be fetched, because the message or the connection is gone, leaves an    *)
(* envelope-only row, so the turn does not depend on the server.           *)
(***************************************************************************)
StoreMessage(s) ==
    /\ pc[s] = "store"
    /\ UNCHANGED <<srvVars, folder, pc, conn, snap, sel, high, idleVars, faults>>
    /\ \E b \in todo[s] :
          /\ First(s, b)
          /\ UpsertMessage(b)
          /\ todo' = [todo EXCEPT ![s] = @ \ {b}]
          /\ Skips(IF s = Loop THEN {b.uid} ELSE {})

SyncReturns(s) ==
    /\ pc[s] = "store" /\ todo[s] = {}
    /\ snap' = [snap EXCEPT ![s] = NoAnchors]
    /\ Goto(s, Rest(s))
    /\ UNCHANGED <<srvVars, dbVars, conn, sel, high, todo, idleVars, faults, skipped>>

-----------------------------------------------------------------------------
(***************************************************************************)
(* idleLoop and pollLoop.                                                  *)
(***************************************************************************)

\* deltaSync: SelectData is made up from the stored anchors, and never empty.
DeltaSync ==
    /\ snap' = [snap EXCEPT ![Idle] = folder]
    /\ sel' = [sel EXCEPT ![Idle] = [val |-> folder.val, mod |-> folder.mod, any |-> "yes"]]
    /\ Goto(Idle, "anchor")

\* RefreshFlags starts from the folders row as well.
RefreshFlags ==
    /\ snap' = [snap EXCEPT ![Idle] = folder]
    /\ Goto(Idle, "cached")
    /\ UNCHANGED sel

\* Mutant: an EXPUNGE response is taken for a flag change.
HandleExpungeAsFlags ==
    /\ mode = "idle" /\ pc[Idle] = "idle" /\ notify # <<>>
    /\ notify' = Tail(notify)
    /\ IF Head(notify) = "exists" THEN DeltaSync
       ELSE RefreshFlags
    /\ UNCHANGED <<srvVars, dbVars, conn, high, todo, known, uids, faults, skipped>>

\* handleNotification: the reconciliation that matches one notification.
HandleNotification ==
    /\ mode = "idle" /\ pc[Idle] = "idle" /\ notify # <<>>
    /\ notify' = Tail(notify)
    /\ IF Head(notify) = "exists" THEN DeltaSync
       ELSE IF Head(notify) = "expunge" THEN Goto(Idle, "inventory") /\ UNCHANGED <<snap, sel>>
       ELSE RefreshFlags
    /\ UNCHANGED <<srvVars, dbVars, conn, high, todo, known, uids, faults, skipped>>

\* Without IDLE: NOOP and a delta sync every pollInterval; notify is not read.
PollTick ==
    /\ mode = "poll" /\ pc[Idle] = "idle" /\ Fresh(Idle)
    /\ DeltaSync
    /\ UNCHANGED <<srvVars, dbVars, conn, high, todo, idleVars, faults, skipped>>

-----------------------------------------------------------------------------
(***************************************************************************)
(* reconcileExpunged and DeleteMessagesNotIn.  Rows are named by UID; the  *)
(* code lists and deletes them by row id.                                  *)
(***************************************************************************)
Inventory ==
    /\ pc[Idle] = "inventory" /\ Fresh(Idle)
    /\ uids' = {u \in Uids : OnServer(u)}
    /\ Goto(Idle, "list")
    /\ UNCHANGED <<srvVars, dbVars, conn, snap, sel, high, todo, known, notify, faults, skipped>>

ListStale ==
    /\ pc[Idle] = "list"
    /\ uids' = {u \in Uids : Cached(u) /\ u \notin uids}
    /\ Goto(Idle, "purge")
    /\ UNCHANGED <<srvVars, dbVars, conn, snap, sel, high, todo, known, notify, faults, skipped>>

DeleteStale ==
    /\ pc[Idle] = "purge"
    /\ cache' = [u \in Uids |-> IF u \in uids THEN None ELSE cache[u]]
    /\ uids' = {}
    /\ Goto(Idle, "idle")
    /\ UNCHANGED <<srvVars, folder, conn, snap, sel, high, todo, known, notify, faults>>
    /\ Skips({})

-----------------------------------------------------------------------------
(***************************************************************************)
(* RefreshFlags.                                                           *)
(***************************************************************************)
FolderFlags ==
    /\ pc[Idle] = "cached"
    /\ known' = [u \in Uids |-> IF Cached(u) THEN cache[u].flags ELSE 0]
    /\ Goto(Idle, "flags")
    /\ UNCHANGED <<srvVars, dbVars, conn, snap, sel, high, todo, uids, notify, faults, skipped>>

\* CHANGEDSINCE is used once there is an anchor.
ChangedSince == world.condstore /\ snap[Idle].mod > 0

Reported == {u \in Uids : OnServer(u) /\ (ChangedSince => box[u] > snap[Idle].mod)}

\* The highest mod-sequence of the response, or the anchor.  A response that
\* does not use CHANGEDSINCE carries none.
NewAnchor(m) ==
    /\ m \in {snap[Idle].mod} \cup {box[u] : u \in Reported}
    /\ m >= snap[Idle].mod /\ \A u \in Reported : box[u] <= m

\* Mutant: the diff guard is inverted, changed rows are the ones skipped.
FetchFlagsInverted ==
    /\ pc[Idle] = "flags" /\ Fresh(Idle)
    /\ sel' = [sel EXCEPT ![Idle] = [val |-> snap[Idle].val, mod |-> snap[Idle].mod, any |-> "yes"]]
    /\ todo' = [todo EXCEPT ![Idle] =
                  {[uid |-> u, gen |-> srvVal, flags |-> box[u]] :
                     u \in {v \in Reported : known[v] = box[v]}}]
    /\ known' = [u \in Uids |-> 0]
    /\ Goto(Idle, "apply")
    /\ UNCHANGED <<srvVars, dbVars, conn, snap, high, uids, notify, faults, skipped>>

\* The response, without the UIDs not cached and the rows already equal.
FetchFlags ==
    /\ pc[Idle] = "flags" /\ Fresh(Idle)
    /\ \E m \in 0..MaxMod :
          /\ IF ChangedSince THEN NewAnchor(m) ELSE m = snap[Idle].mod
          /\ sel' = [sel EXCEPT ![Idle] = [val |-> snap[Idle].val, mod |-> m, any |-> "yes"]]
    /\ todo' = [todo EXCEPT ![Idle] =
                  {[uid |-> u, gen |-> srvVal, flags |-> box[u]] :
                     u \in {v \in Reported : known[v] # 0 /\ known[v] # box[v]}}]
    /\ known' = [u \in Uids |-> 0]
    /\ Goto(Idle, "apply")
    /\ UNCHANGED <<srvVars, dbVars, conn, snap, high, uids, notify, faults, skipped>>

\* UPDATE messages ... WHERE uid = ?; a row gone meanwhile is not an error.
UpdateMessageFlags ==
    /\ pc[Idle] = "apply"
    /\ \E b \in todo[Idle] :
          /\ First(Idle, b)
          /\ cache' = IF Cached(b.uid)
                      THEN [cache EXCEPT ![b.uid] = [gen |-> cache[b.uid].gen, flags |-> b.flags]]
                      ELSE cache
          /\ todo' = [todo EXCEPT ![Idle] = @ \ {b}]
    /\ UNCHANGED <<srvVars, folder, pc, conn, snap, sel, high, idleVars, faults>>
    /\ Skips({})

\* The anchor advances; the UIDVALIDITY read at the start is written back.
RefreshReturns ==
    /\ pc[Idle] = "apply" /\ todo[Idle] = {}
    /\ folder' = IF ChangedSince /\ sel[Idle].mod # snap[Idle].mod
                 THEN [val |-> sel[Idle].val, mod |-> sel[Idle].mod] ELSE folder
    /\ snap' = [snap EXCEPT ![Idle] = NoAnchors]
    /\ sel' = [sel EXCEPT ![Idle] = NoSelected]
    /\ Goto(Idle, "idle")
    /\ UNCHANGED <<srvVars, cache, conn, high, todo, idleVars, faults>>
    /\ Skips({})

-----------------------------------------------------------------------------
(***************************************************************************)
(* RefetchMessage by the command loop: the row is read, the body is        *)
(* fetched, and the row is written back as it was read.                    *)
(***************************************************************************)
ExecRefetch(u) ==
    /\ pc[Loop] = "off" /\ Cached(u)
    /\ todo' = [todo EXCEPT ![Loop] = {[uid |-> u, gen |-> cache[u].gen, flags |-> cache[u].flags]}]
    /\ Goto(Loop, "refetch")
    /\ UNCHANGED <<srvVars, dbVars, conn, snap, sel, high, idleVars, faults, skipped>>

\* SelectFolder and the body fetch; a UID that is gone is an error.
FetchBody ==
    /\ pc[Loop] = "refetch"
    /\ IF \E b \in todo[Loop] : OnServer(b.uid)
       THEN Goto(Loop, "upsert") /\ UNCHANGED todo
       ELSE Goto(Loop, "off") /\ todo' = [todo EXCEPT ![Loop] = {}]
    /\ conn' = [conn EXCEPT ![Loop] = srvVal]
    /\ UNCHANGED <<srvVars, dbVars, snap, sel, high, idleVars, faults, skipped>>

RefetchReturns ==
    /\ pc[Loop] = "upsert"
    /\ todo' = [todo EXCEPT ![Loop] = {}]
    /\ Goto(Loop, "off")
    /\ UNCHANGED <<srvVars, folder, conn, snap, sel, high, idleVars, faults>>
    /\ \E b \in todo[Loop] : UpsertMessage(b) /\ Skips({b.uid})

-----------------------------------------------------------------------------
(***************************************************************************)
(* Failures.                                                               *)
(***************************************************************************)
OnNetwork == {"select", "fetch", "idle", "inventory", "flags", "refetch"}

\* A connection with an old generation selected can only fail.
MayFail(s) ==
    /\ pc[s] \in OnNetwork
    /\ (conn[s] # 0 /\ ~Fresh(s)) \/ faults < world.faults

Charge(s) == faults' = IF conn[s] # 0 /\ ~Fresh(s) THEN faults ELSE faults + 1

\* The locals of a goroutine that returns early are gone.
Unwind(s) ==
    /\ snap' = [snap EXCEPT ![s] = NoAnchors]
    /\ sel' = [sel EXCEPT ![s] = NoSelected]
    /\ high' = [high EXCEPT ![s] = 0]
    /\ todo' = [todo EXCEPT ![s] = {}]
    /\ Goto(s, "off")

\* runSession returns: the connection and its notifications are dropped.
SessionEnds ==
    /\ MayFail(Idle)
    /\ Unwind(Idle)
    /\ conn' = [conn EXCEPT ![Idle] = 0]
    /\ known' = [u \in Uids |-> 0] /\ uids' = {} /\ notify' = <<>>
    /\ Charge(Idle)
    /\ UNCHANGED <<srvVars, dbVars, skipped>>

CommandFails ==
    /\ MayFail(Loop)
    /\ Unwind(Loop)
    /\ conn' = [conn EXCEPT ![Loop] = 0]
    /\ Charge(Loop)
    /\ UNCHANGED <<srvVars, dbVars, idleVars, skipped>>

\* The failed connection was a pooled one: withCommandConn runs the command
\* again on a new connection, with the folders row it captured at first.
CommandRetries ==
    /\ MayFail(Loop) /\ pc[Loop] = "fetch"
    /\ high' = [high EXCEPT ![Loop] = 0]
    /\ Goto(Loop, "select")
    /\ conn' = [conn EXCEPT ![Loop] = 0]
    /\ Charge(Loop)
    /\ UNCHANGED <<srvVars, dbVars, snap, sel, todo, idleVars, skipped>>

\* The process dies between any two statements; the store survives.
CrashRestart ==
    /\ faults < world.faults
    /\ faults' = faults + 1
    /\ pc' = [s \in Syncers |-> "off"]
    /\ conn' = [s \in Syncers |-> 0]
    /\ snap' = [s \in Syncers |-> NoAnchors]
    /\ sel' = [s \in Syncers |-> NoSelected]
    /\ high' = [s \in Syncers |-> 0]
    /\ todo' = [s \in Syncers |-> {}]
    /\ known' = [u \in Uids |-> 0] /\ uids' = {} /\ notify' = <<>>
    /\ UNCHANGED <<srvVars, dbVars, skipped>>

-----------------------------------------------------------------------------
ServerStep ==
    \/ Deliver \/ Recreate
    \/ \E u \in Uids : Expunge(u) \/ ChangeFlags(u)

SyncStep(s) ==
    \/ ReadFolder(s) \/ SelectFolder(s) \/ ClearFolderMessages(s)
    \/ SetFolderSyncState(s) \/ HighestUID(s) \/ FetchEnvelopes(s)
    \/ StoreMessage(s) \/ SyncReturns(s)

IdleStep ==
    \/ HandleNotification \/ PollTick
    \/ Inventory \/ ListStale \/ DeleteStale
    \/ FolderFlags \/ FetchFlags \/ UpdateMessageFlags \/ RefreshReturns
    \/ SessionEnds

LoopStep ==
    \/ \E u \in Uids : ExecRefetch(u)
    \/ FetchBody \/ RefetchReturns
    \/ CommandFails \/ CommandRetries

Next ==
    \/ ServerStep
    \/ SyncStep(Idle) \/ IdleStep
    \/ world.loop /\ (SyncStep(Loop) \/ LoopStep)
    \/ CrashRestart

Spec == Init /\ [][Next]_vars

(***************************************************************************)
(* The IDLE goroutine keeps running: RunIDLE reconnects for ever, the poll *)
(* ticker fires, and a round trip ends in an answer or an error.           *)
(***************************************************************************)
FairSpec == Spec /\ WF_vars(SyncStep(Idle) \/ IdleStep)

-----------------------------------------------------------------------------
(***************************************************************************)
(* The two syncers keep out of each other's way: the command loop syncs    *)
(* only where no mailbox is recreated, and no inventory is taken because   *)
(* nothing is expunged or the IDLE goroutine polls.  Without it the        *)
(* inventory of reconcileExpunged may be older than a row the loop stores, *)
(* and a clear may drop the rows of a generation the other has anchored.   *)
(***************************************************************************)
Apart == world.loop => world.vals <= 1 /\ (world.expunge = {} \/ mode = "poll")

CachedNow(u) == Cached(u) /\ cache[u].gen = srvVal
Pending(kind) == \E i \in 1..Len(notify) : notify[i] = kind

(***************************************************************************)
(* HighestUID is a sound anchor: SyncFolder never asks again for a UID     *)
(* below it, so a message on the server with a smaller UID than a cached   *)
(* one must itself be cached.  It has to survive aborted syncs, deaths     *)
(* between two upserts, expunges of the highest row and a recreated        *)
(* mailbox.                                                                *)
(***************************************************************************)
NoGap ==
    \A u, v \in Uids : u < v /\ OnServer(u) /\ CachedNow(v) => CachedNow(u)

(***************************************************************************)
(* Every cached row belongs to the generation of the mailbox the folders   *)
(* row names: the clear and the new anchor of SyncFolder are separate      *)
(* statements, and a death between them must not mix two generations.      *)
(***************************************************************************)
RowsMatchAnchor == \A u \in Uids : Cached(u) => cache[u].gen = folder.val

(***************************************************************************)
(* When RefreshFlags returns and no flag change has been announced since,  *)
(* nor dropped by a full channel, the cached flags are the server's, with  *)
(* CONDSTORE and without, alone and beside the command loop.  A row stays  *)
(* behind only if the anchor was advanced past its change by a reconnect   *)
(* or by the loop, or if the loop wrote back flags older than the server's.*)
(***************************************************************************)
RefreshCatchesUp ==
    /\ pc[Idle] = "apply" /\ todo[Idle] = {}
    /\ Fresh(Idle) /\ ~Pending("flags") /\ Len(notify) < NotifyCap
    => \A u \in Uids : CachedNow(u) /\ OnServer(u) => cache[u].flags = box[u] \/ u \in skipped

(***************************************************************************)
(* Every message of the mailbox is eventually cached, expunged, or of a    *)
(* generation that is gone.                                                *)
(***************************************************************************)
ArrivalsFetched ==
    \A u \in Uids, g \in 1..MaxVal :
        srvVal = g /\ OnServer(u) ~> srvVal # g \/ ~OnServer(u) \/ CachedNow(u)

(***************************************************************************)
(* With IDLE, a row whose message is gone is eventually dropped once an    *)
(* expunge has been announced, as long as the session lasts.  (pollLoop    *)
(* reconciles no expunges.)                                                *)
(***************************************************************************)
ExpungesReconciled ==
    \A u \in Uids, g \in 1..MaxVal, f \in 0..MaxFaults :
        /\ mode = "idle" /\ srvVal = g /\ faults = f
        /\ Cached(u) /\ ~OnServer(u) /\ Pending("expunge")
        ~> srvVal # g \/ faults # f \/ ~Cached(u)
=============================================================================
