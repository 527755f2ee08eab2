------------------------------ MODULE Mailbox -------------------------------
(***************************************************************************)
(* What the mail commands do to the messages: mark, move, delete, snooze,  *)
(* refetch, save an attachment and sync (internal/syncmanager/exec.go and  *)
(* exec_extra.go), each run by the command loop over a pooled connection   *)
(* that may die half way (connpool.go), with the IMAP operations they are  *)
(* made of (imapsync/ops.go) and the rows of the messages table            *)
(* (internal/store/messages.go).                                           *)
(*                                                                         *)
(* A command names its message by row id and the row names it by UID.  A   *)
(* row id is used again once the newest row is gone, and a UID means what  *)
(* it meant only while the folder keeps its UIDVALIDITY; meanwhile the IDLE*)
(* worker rewrites the inbox's rows and other clients change the mailbox.  *)
(* How a folder sync proceeds step by step is FolderSync's subject.        *)
(***************************************************************************)
EXTENDS Naturals, Sequences, FiniteSets, FiniteSetsExt

CONSTANTS Msgs,           \* messages, by content
          Folders, Inbox, Trash, Archive,
          None,
          Servers,        \* what the server may offer: MOVE, a folder marked \Trash
          QCap,           \* bound: commands waiting (cmdCh holds 64)
          MaxCmds,        \* bound: commands the user gives
          MaxMail,        \* bound: messages delivered, other clients' changes
          MaxTrouble      \* bound: failed calls, broken connections, deaths, renumberings

ASSUME MailboxAssumption ==
    /\ {Inbox, Trash, Archive} \subseteq Folders /\ None \notin Folders \cup Msgs /\ Msgs # {}
    /\ Servers \subseteq [move : BOOLEAN, trash : BOOLEAN]
    /\ {QCap, MaxCmds, MaxMail, MaxTrouble} \subseteq Nat

VARIABLES
    hasMove, hasTrash,         \* server: what it offers
    box, uidNext, validity,    \* server: its messages, UIDNEXT and UIDVALIDITY of each folder
    rows, anchor,              \* store: messages rows, the UIDVALIDITY each folder was synced under
    files,                     \* attachments directory: the file named after each row id and what it holds
    up, told, changed,         \* IDLE worker: is its session up, what it was told and has not handled yet
    queue, cur, pooled,        \* Manager: cmdCh, the command being run, is a connection parked
    refetched,                 \* AppState: rows whose one refetch of this session has been asked for
    cmds, mail, trouble,
    lastId, recycled,          \* history: highest row id ever, has one been given out again
    condemned, strays,         \* history: messages destroyed on request, messages hit by a command for another
    arrived, stranded,         \* history: messages ever delivered, rows left hidden
    outdated                   \* history: messages whose inbox row fell behind unnoticed

capVars    == <<hasMove, hasTrash>>
serverVars == <<box, uidNext, validity>>
inboxVars  == <<up, told, changed, outdated>>
storeVars  == <<rows, anchor, files>>
loopVars   == <<queue, cur, pooled, refetched>>
idVars     == <<lastId, recycled>>
histVars   == <<arrived, condemned, strays, stranded>>
vars == <<capVars, serverVars, storeVars, inboxVars, loopVars, cmds, mail, trouble, idVars, histVars>>

Idle == [k |-> "idle"]

Entry(f, u, m) == [f |-> f, uid |-> u, msg |-> m, seen |-> FALSE, del |-> FALSE]
Row(id, e) == [id |-> id, f |-> e.f, uid |-> e.uid, msg |-> e.msg, seen |-> e.seen, hidden |-> FALSE, snoozed |-> FALSE]

Init ==
    \E g \in {Inbox, Trash}, s \in Servers : LET m == CHOOSE m \in Msgs : TRUE IN
        /\ hasMove = s.move /\ hasTrash = s.trash /\ (g = Trash => hasTrash)
        /\ box = {Entry(g, 1, m)} /\ rows = {Row(1, Entry(g, 1, m))}
        /\ uidNext = [f \in Folders |-> IF f = g THEN 2 ELSE 1]
        /\ validity = [f \in Folders |-> 1] /\ anchor = [f \in Folders |-> 1] /\ files = {}
        /\ up = FALSE /\ told = {} /\ changed = {} /\ outdated = {}
        /\ queue = <<>> /\ cur = Idle /\ pooled = FALSE /\ refetched = {}
        /\ cmds = 0 /\ mail = 0 /\ trouble = 0 /\ lastId = 1 /\ recycled = FALSE
        /\ condemned = {} /\ strays = {} /\ stranded = {} /\ arrived = {m}

Fails == trouble < MaxTrouble /\ trouble' = trouble + 1

-----------------------------------------------------------------------------
(* The store.                                                              *)

RowWith(id) == {r \in rows : r.id = id}
HighestUID(f) == Max({0} \cup {r.uid : r \in {x \in rows : x.f = f}})

(* SQLite hands out the highest id plus one: ids are not AUTOINCREMENT.    *)
Numbered(kept, es) ==
    LET base == Max({0} \cup {r.id : r \in kept})
        Rank(e) == Cardinality({x \in es : x.uid <= e.uid})
    IN  kept \cup {Row(base + Rank(e), e) : e \in es}

(* The table becomes t.                                                    *)
SetRows(t) ==
    /\ rows' = t
    /\ lastId' = Max({lastId} \cup {r.id : r \in t})
    /\ recycled' = (recycled \/ \E r \in t : r.id <= lastId /\ ~\E q \in rows : q.id = r.id /\ q.msg = r.msg)

(* SyncFolder: a new UIDVALIDITY empties the folder, then every UID above  *)
(* the highest cached one is fetched.                                      *)
SyncFolder(f) ==
    LET kept == IF anchor[f] # validity[f] THEN {r \in rows : r.f # f} ELSE rows
        high == IF anchor[f] # validity[f] THEN 0 ELSE HighestUID(f)
    IN  /\ SetRows(Numbered(kept, {e \in box : e.f = f /\ e.uid > high}))
        /\ anchor' = [anchor EXCEPT ![f] = validity[f]]

(* A row of the inbox that shows what the server has under its UID.        *)
Entries(r) == {e \in box : e.f = Inbox /\ e.uid = r.uid}
Agrees(r) == \E e \in Entries(r) : e.seen = r.seen

(* The messages of the inbox rows among t that do not.                     *)
Behind(t) == UNION {{r.msg} \cup {e.msg : e \in Entries(r)} : r \in {x \in t : x.f = Inbox /\ ~Agrees(x)}}

-----------------------------------------------------------------------------
(***************************************************************************)
(* The IDLE worker (idle.go).  The server tells its session of every       *)
(* change to the inbox, whoever made it; what happens while the session is *)
(* down it is never told.  Announcements of one kind are one, and a        *)
(* reconciliation is one step: FolderSync takes both apart, and has the    *)
(* servers without IDLE, whose poll neither refreshes flags nor drops rows.*)
(***************************************************************************)
Numbers(es) == {e.uid : e \in {x \in es : x.f = Inbox}}
Gone == {e \in box : e.f = Inbox /\ e.uid \notin Numbers(box')}
Altered == {e \in box \ box' : e.f = Inbox /\ e.uid \in Numbers(box')}

Announce ==
    /\ IF up
       THEN /\ told' = told \cup (IF Gone = {} THEN {} ELSE {"expunge"}) \cup (IF Altered = {} THEN {} ELSE {"flags"})
                            \cup (IF Numbers(box') \subseteq Numbers(box) THEN {} ELSE {"exists"})
            /\ changed' = changed \cup Numbers(Altered)
            /\ UNCHANGED outdated
       ELSE outdated' = outdated \cup {e.msg : e \in Gone \cup Altered} /\ UNCHANGED <<told, changed>>
    /\ UNCHANGED up

(* runSession: the sync of a new session fetches what arrived; nothing more.*)
runSession ==
    /\ ~up /\ up' = TRUE /\ SyncFolder(Inbox)
    /\ UNCHANGED <<capVars, serverVars, files, told, changed, outdated, loopVars, cmds, mail, trouble, histVars>>

SessionDown == up' = FALSE /\ told' = {} /\ changed' = {}

SessionEnds ==
    /\ up /\ Fails /\ SessionDown /\ outdated' = outdated \cup Behind(rows)
    /\ UNCHANGED <<capVars, serverVars, storeVars, loopVars, cmds, mail, idVars, histVars>>

deltaSync ==
    /\ "exists" \in told /\ told' = told \ {"exists"} /\ SyncFolder(Inbox)
    /\ UNCHANGED <<capVars, serverVars, files, up, changed, outdated, loopVars, cmds, mail, trouble, histVars>>

(* The UID inventory, and the rows whose UID is not in it.                 *)
reconcileExpunged ==
    /\ "expunge" \in told /\ told' = told \ {"expunge"}
    /\ SetRows({r \in rows : r.f = Inbox => Entries(r) # {}})
    /\ UNCHANGED <<capVars, serverVars, anchor, files, up, changed, outdated, loopVars, cmds, mail, trouble, histVars>>


InboxFlags(r) == IF Entries(r) = {} THEN r ELSE [r EXCEPT !.seen = (CHOOSE e \in Entries(r) : TRUE).seen]

(* RefreshFlags: of all rows, or with CONDSTORE of those that changed since*)
(* the anchor, among them the ones the worker was told of.                 *)
RefreshFlags ==
    /\ "flags" \in told /\ told' = told \ {"flags"} /\ changed' = {}
    /\ \E us \in SUBSET Numbers(box) :
         /\ changed \cap Numbers(box) \subseteq us
         /\ SetRows({IF r.f = Inbox /\ r.uid \in us THEN InboxFlags(r) ELSE r : r \in rows})
    /\ UNCHANGED <<capVars, serverVars, anchor, files, up, outdated, loopVars, cmds, mail, trouble, histVars>>

IdleWorker == runSession \/ deltaSync \/ reconcileExpunged \/ RefreshFlags

-----------------------------------------------------------------------------
(* Commands.                                                               *)

(* A command names its message by the id the screen was drawn with.        *)
Command(k, r) == [k |-> k, id |-> r.id, msg |-> r.msg]

Send(c) ==
    /\ cmds < MaxCmds /\ Len(queue) < QCap /\ cmds' = cmds + 1 /\ queue' = Append(queue, c)
    /\ UNCHANGED <<capVars, inboxVars, serverVars, storeVars, cur, pooled, mail, trouble, idVars, histVars>>

(* The list rows: a tap opens the thread and marks an unread message read, *)
(* a swipe archives or deletes once its undo window is over (Snackbar).    *)
handleAction(r) ==
    /\ UNCHANGED refetched
    /\ \/ ~r.seen /\ Send(Command("mark", r))
       \/ Send(Command("move", r))
       \/ Send(Command("delete", r))

(* The thread screen's Archive, Snooze, and Delete once its dialog is      *)
(* confirmed; a tap on an attachment of the open thread.                   *)
handleActions(r) ==
    UNCHANGED refetched /\ (Send(Command("move", r)) \/ Send(Command("delete", r)) \/ Send(Command("snooze", r)))

DownloadAttachment(r) == UNCHANGED refetched /\ Send(Command("attach", r))

(* A body that cannot be shown is fetched again, once in a session; the    *)
(* attempt is spent even if the queue is full.                             *)
requestRefetch(r) ==
    /\ r.id \notin refetched /\ refetched' = refetched \cup {r.id}
    /\ \/ Send(Command("refetch", r))
       \/ /\ Len(queue) = QCap /\ cmds < MaxCmds /\ cmds' = cmds + 1
          /\ UNCHANGED <<capVars, inboxVars, serverVars, storeVars, queue, cur, pooled, mail, trouble, idVars, histVars>>

SelectFolder(f) == Send([k |-> "sync", to |-> f]) /\ UNCHANGED refetched

UserActs == \/ \E r \in {x \in rows : ~x.hidden} : \/ handleAction(r) \/ handleActions(r)
                                                 \/ DownloadAttachment(r) \/ requestRefetch(r)
            \/ \E f \in Folders \ {Inbox} : (f = Trash => hasTrash) /\ SelectFolder(f)

Running(k, r, to, meant) == [k |-> k, row |-> r, to |-> to, meant |-> meant, pc |-> "conn", fresh |-> FALSE]

(* execMark applies the flag to the row first.                             *)
execMark(r, meant) ==
    /\ cur' = Running("mark", r, None, meant) /\ rows' = (rows \ {r}) \cup {[r EXCEPT !.seen = TRUE]}
    /\ UNCHANGED condemned

(* execMove asks the server first.                                         *)
execMove(r, to, meant) == cur' = Running("move", r, to, meant) /\ UNCHANGED <<rows, condemned>>

(* execDelete: in Trash, or with no Trash, the row is hidden and the       *)
(* message destroyed on the server; elsewhere it is a move to Trash.       *)
execDelete(r, meant) ==
    IF hasTrash /\ r.f # Trash THEN execMove(r, Trash, meant)
    ELSE /\ cur' = Running("destroy", r, None, meant) /\ rows' = (rows \ {r}) \cup {[r EXCEPT !.hidden = TRUE]}
         /\ condemned' = condemned \cup {meant}

execRefetchMessage(r, meant) == cur' = Running("refetch", r, None, meant) /\ UNCHANGED <<rows, condemned>>

execFetchAttachment(r, meant) == cur' = Running("attach", r, None, meant) /\ UNCHANGED <<rows, condemned>>

(* execSnooze only dates the row: when it is listed again.                 *)
SetSnooze(r) == rows' = (rows \ {r}) \cup {[r EXCEPT !.snoozed = TRUE]}

execSnooze(r) == SetSnooze(r) /\ UNCHANGED <<cur, condemned>>

execSyncFolder(to) == cur' = Running("sync", None, to, None) /\ UNCHANGED <<rows, condemned>>

(* commandLoop and handleCmd: the next command starts; one whose message is*)
(* gone, or whose first read or write of the database fails, ends at once. *)
handleCmd ==
    /\ cur = Idle /\ queue # <<>> /\ queue' = Tail(queue)
    /\ LET c == Head(queue) IN
         \/ c.k = "sync" /\ execSyncFolder(c.to) /\ UNCHANGED <<strays, trouble>>
         \/ /\ c.k # "sync" /\ UNCHANGED <<rows, cur, condemned, strays>>
            /\ Fails \/ (RowWith(c.id) = {} /\ UNCHANGED trouble)
         \/ /\ c.k # "sync" /\ UNCHANGED trouble
            /\ \E r \in RowWith(c.id) :
                 /\ strays' = IF r.msg = c.msg THEN strays ELSE strays \cup {r.msg}
                 /\ \/ c.k = "mark" /\ execMark(r, c.msg)
                    \/ c.k = "move" /\ execMove(r, Archive, c.msg)
                    \/ c.k = "delete" /\ execDelete(r, c.msg)
                    \/ c.k = "refetch" /\ execRefetchMessage(r, c.msg)
                    \/ c.k = "attach" /\ execFetchAttachment(r, c.msg)
                    \/ c.k = "snooze" /\ execSnooze(r)
    /\ UNCHANGED <<capVars, inboxVars, refetched, serverVars, anchor, files, pooled, cmds, mail, idVars, arrived, stranded>>

-----------------------------------------------------------------------------
(* withCommandConn: run on the parked connection, or on a fresh one.       *)

StepsDestroyFirst(k) ==
    CASE k = "mark" -> <<"store">>
      [] k = "move" -> <<"condemn", "expunge", "copy", "drop", "pull">>
      [] k = "destroy" -> <<"condemn", "expunge", "drop">>
      [] k = "refetch" -> <<"fetch", "write">>
      [] k = "attach" -> <<"save">>
      [] k = "sync" -> <<"pull">>

Steps(k) == CASE k = "mark" -> <<"store">>
              [] k = "move" -> IF hasMove THEN <<"move", "drop", "pull">>
                               ELSE <<"copy", "condemn", "expunge", "drop", "pull">>
              [] k = "destroy" -> <<"condemn", "expunge", "drop">>
              [] k = "refetch" -> <<"fetch", "write">>
              [] k = "attach" -> <<"save">>
              [] k = "sync" -> <<"pull">>

After(k, pc) == LET i == CHOOSE i \in DOMAIN Steps(k) : Steps(k)[i] = pc
                IN  IF i = Len(Steps(k)) THEN "done" ELSE Steps(k)[i + 1]

usePooled ==
    /\ cur # Idle /\ cur.pc = "conn" /\ pooled
    /\ cur' = [cur EXCEPT !.pc = Head(Steps(cur.k))]
    /\ UNCHANGED <<capVars, inboxVars, refetched, serverVars, storeVars, queue, pooled, cmds, mail, trouble, idVars, histVars>>

dial ==
    /\ cur # Idle /\ cur.pc = "conn" /\ ~pooled
    /\ cur' = [cur EXCEPT !.pc = Head(Steps(cur.k)), !.fresh = TRUE]
    /\ UNCHANGED <<capVars, inboxVars, refetched, serverVars, storeVars, queue, pooled, cmds, mail, trouble, idVars, histVars>>

Hidden == {r.msg : r \in {x \in rows : x.hidden}}

(* A mark that is given up has its flag in the row only.                   *)
GivenUp == IF cur.k = "mark" THEN Behind(RowWith(cur.row.id)) ELSE {}

dialFails ==
    /\ cur # Idle /\ cur.pc = "conn" /\ ~pooled /\ Fails /\ cur' = Idle
    /\ stranded' = stranded \cup Hidden /\ outdated' = outdated \cup GivenUp
    /\ UNCHANGED <<capVars, up, told, changed, refetched, serverVars, storeVars, queue, pooled, cmds, mail, idVars, arrived, condemned, strays>>

(* The parked connection is closed once it has been idle for 90 seconds.   *)
maxCmdIdle ==
    /\ cur = Idle /\ pooled /\ pooled' = FALSE
    /\ UNCHANGED <<capVars, inboxVars, refetched, serverVars, storeVars, queue, cur, cmds, mail, trouble, idVars, histVars>>

(* fn has failed: on a parked connection it is run once more over a fresh  *)
(* one, on a fresh connection the command ends.                            *)
retry ==
    IF cur.fresh THEN cur' = Idle /\ UNCHANGED pooled
    ELSE cur' = [cur EXCEPT !.pc = "conn"] /\ pooled' = FALSE

advance ==
    LET pc == After(cur.k, cur.pc)
    IN  IF pc = "done" THEN cur' = Idle /\ pooled' = TRUE
        ELSE cur' = [cur EXCEPT !.pc = pc] /\ UNCHANGED pooled

-----------------------------------------------------------------------------
(* The IMAP operations, each after a SELECT of the row's folder.           *)

TargetAnywhere(r) == {e \in box : e.uid = r.uid}

Target(r) == {e \in box : e.f = r.f /\ e.uid = r.uid}

Moved(es, to) == {[e EXCEPT !.f = to, !.uid = uidNext[to]] : e \in es}

(* What the server does for one operation; one that names a UID it does    *)
(* not have changes nothing.                                               *)
Effect(r, op, to) ==
    LET es == Target(r) IN
    CASE op = "store"   -> (box \ es) \cup {[e EXCEPT !.seen = TRUE] : e \in es}
      [] op = "move"    -> (box \ es) \cup Moved(es, to)
      [] op = "copy"    -> box \cup Moved(es, to)
      [] op = "condemn" -> (box \ es) \cup {[e EXCEPT !.del = TRUE] : e \in es}
      [] op = "expunge" -> {e \in box : e.f = r.f => ~e.del}

ServerOps == {"store", "move", "copy", "condemn", "expunge"}

(* The operation takes effect on the server, whether it is answered or not.*)
takesEffect ==
    LET es == Target(cur.row) IN
    /\ box' = Effect(cur.row, cur.pc, cur.to)
    /\ uidNext' = IF cur.pc \in {"move", "copy"} /\ es # {} THEN [uidNext EXCEPT ![cur.to] = @ + 1] ELSE uidNext
    /\ strays' = strays \cup {e.msg : e \in {x \in es : x.msg # cur.meant}}

(* The rows of the running delete that are still hidden.                   *)
StillHidden == {r.msg : r \in {x \in RowWith(cur.row.id) : x.hidden}}

restoreNever == UNCHANGED <<rows, stranded>>

(* A failed DeleteUID makes the row visible again; if that fails too it is *)
(* only logged.                                                            *)
restore ==
    \/ /\ rows' = {IF cur.k = "destroy" /\ r.id = cur.row.id THEN [r EXCEPT !.hidden = FALSE] ELSE r : r \in rows}
       /\ UNCHANGED stranded
    \/ cur.k = "destroy" /\ UNCHANGED rows /\ stranded' = stranded \cup StillHidden

serverOp ==
    /\ cur # Idle /\ cur.pc \in ServerOps /\ takesEffect /\ Announce
    /\ \/ advance /\ UNCHANGED <<rows, trouble, stranded>>
       \/ Fails /\ retry /\ restore
    /\ UNCHANGED <<capVars, refetched, validity, anchor, files, queue, cmds, mail, idVars, arrived, condemned>>

serverOpRefused ==
    /\ cur # Idle /\ cur.pc \in ServerOps /\ Fails /\ retry /\ restore
    /\ outdated' = IF cur.fresh THEN outdated \cup GivenUp ELSE outdated
    /\ UNCHANGED <<capVars, up, told, changed, refetched, serverVars, anchor, files, queue, cmds, mail, idVars, arrived,
                   condemned, strays>>

(* DeleteLocalMessage, by row id; there may be no such row any more, and   *)
(* the database may fail.                                                  *)
deleteLocal ==
    /\ cur # Idle /\ cur.pc = "drop"
    /\ \/ RowWith(cur.row.id) = {} /\ retry /\ UNCHANGED <<rows, strays, trouble, stranded, outdated>>
       \/ /\ RowWith(cur.row.id) # {} /\ advance /\ rows' = rows \ RowWith(cur.row.id)
          /\ strays' = strays \cup {r.msg : r \in {x \in RowWith(cur.row.id) : x.msg # cur.meant}}
          /\ outdated' = outdated \cup {r.msg : r \in {x \in RowWith(cur.row.id) : x.uid # cur.row.uid}}
          /\ UNCHANGED <<trouble, stranded>>
       \/ Fails /\ retry /\ stranded' = stranded \cup StillHidden /\ UNCHANGED <<rows, strays, outdated>>
    /\ UNCHANGED <<capVars, up, told, changed, refetched, serverVars, anchor, files, queue, cmds, mail, idVars, arrived,
                   condemned>>

(* A move pulls the message into the destination if that is cached at all; *)
(* SyncFolderCmd syncs in any case.                                        *)
pull ==
    /\ cur # Idle /\ cur.pc = "pull"
    /\ \/ /\ advance /\ UNCHANGED trouble
          /\ IF cur.k = "move" /\ HighestUID(cur.to) = 0 THEN UNCHANGED <<storeVars, idVars>>
             ELSE SyncFolder(cur.to)
       \/ Fails /\ retry /\ UNCHANGED <<storeVars, idVars>>
    /\ UNCHANGED <<capVars, inboxVars, refetched, serverVars, files, queue, cmds, mail, arrived, condemned, strays, stranded>>

(* RefetchMessage: the body is fetched, then the row read at the start of  *)
(* the command is written back, its flags included, unless that fails.     *)
fetchBody ==
    /\ cur # Idle /\ cur.pc = "fetch"
    /\ \/ Target(cur.row) # {} /\ advance /\ UNCHANGED trouble
       \/ Target(cur.row) = {} /\ retry /\ UNCHANGED trouble
       \/ Fails /\ retry
    /\ UNCHANGED <<capVars, inboxVars, refetched, serverVars, storeVars, queue, cmds, mail, idVars, arrived, condemned, strays, stranded>>

UpsertMessage(old) ==
    LET same == {r \in rows : r.f = old.f /\ r.uid = old.uid}
        t    == rows \ same
    IN  IF same = {} THEN SetRows(t \cup {[old EXCEPT !.id = Max({0} \cup {r.id : r \in t}) + 1, !.snoozed = FALSE]})
        ELSE LET r == CHOOSE r \in same : TRUE
             IN  SetRows(t \cup {[old EXCEPT !.id = r.id, !.snoozed = r.snoozed]})

writeBack ==
    /\ cur # Idle /\ cur.pc = "write"
    /\ \/ /\ advance /\ UpsertMessage(cur.row) /\ UNCHANGED trouble
          /\ outdated' = outdated \cup Behind({r \in rows' : r.f = cur.row.f /\ r.uid = cur.row.uid})
       \/ Fails /\ retry /\ UNCHANGED <<rows, idVars, outdated>>
    /\ UNCHANGED <<capVars, up, told, changed, refetched, serverVars, anchor, files, queue, cmds, mail, arrived, condemned,
                   strays, stranded>>

(* FetchRaw, then the file: it is named after the row.                     *)
saveAttachment ==
    /\ cur # Idle /\ cur.pc = "save"
    /\ \/ /\ advance /\ UNCHANGED trouble
          /\ \E e \in Target(cur.row) :
               files' = {x \in files : x.id # cur.row.id} \cup {[id |-> cur.row.id, of |-> e.msg, meant |-> cur.meant]}
       \/ Target(cur.row) = {} /\ retry /\ UNCHANGED <<files, trouble>>
       \/ Fails /\ retry /\ UNCHANGED files
    /\ UNCHANGED <<capVars, inboxVars, refetched, serverVars, rows, anchor, queue, cmds, mail, idVars, histVars>>

CommandLoop == \/ handleCmd \/ usePooled \/ dial \/ dialFails \/ serverOp \/ serverOpRefused
               \/ deleteLocal \/ pull \/ fetchBody \/ writeBack \/ saveAttachment

(* The process dies and is started again: queue and connections are gone.  *)
CrashRestart ==
    /\ Fails /\ queue' = <<>> /\ cur' = Idle /\ pooled' = FALSE /\ refetched' = {} /\ SessionDown
    /\ stranded' = stranded \cup Hidden /\ outdated' = outdated \cup Behind(rows)
    /\ UNCHANGED <<capVars, serverVars, storeVars, cmds, mail, idVars, arrived, condemned, strays>>

-----------------------------------------------------------------------------
(* The server's other business.                                            *)

Deliver ==
    /\ mail < MaxMail /\ mail' = mail + 1
    /\ \E m \in Msgs \ arrived : /\ arrived' = arrived \cup {m}
                                 /\ box' = box \cup {Entry(Inbox, uidNext[Inbox], m)}
    /\ uidNext' = [uidNext EXCEPT ![Inbox] = @ + 1] /\ Announce
    /\ UNCHANGED <<capVars, validity, storeVars, loopVars, cmds, trouble, idVars, condemned, strays, stranded>>

(* Another client toggles a flag, condemns a message or expunges it.       *)
OtherClient ==
    /\ mail < MaxMail /\ mail' = mail + 1
    /\ \E e \in box :
         \/ box' = (box \ {e}) \cup {[e EXCEPT !.seen = ~@]} /\ UNCHANGED condemned
         \/ /\ ~e.del /\ box' = (box \ {e}) \cup {[e EXCEPT !.del = TRUE]}
            /\ condemned' = condemned \cup {e.msg}
         \/ /\ box' = box \ {e} /\ condemned' = condemned \cup {e.msg}
    /\ Announce
    /\ UNCHANGED <<capVars, uidNext, validity, storeVars, loopVars, cmds, trouble, idVars, arrived, strays, stranded>>

(* The server loses the inbox's numbering and numbers it anew: sessions end*)
(* (and it waits for a command that has the inbox selected).               *)
Renumber ==
    /\ (cur # Idle => cur.pc = "conn") /\ Fails /\ validity' = [validity EXCEPT ![Inbox] = @ + 1]
    /\ LET es == {e \in box : e.f = Inbox} IN
         \E p \in {p \in [es -> 1 .. Cardinality(es)] : \A a, b \in es : p[a] = p[b] => a = b} :
             /\ box' = (box \ es) \cup {[e EXCEPT !.uid = p[e]] : e \in es}
             /\ uidNext' = [uidNext EXCEPT ![Inbox] = Cardinality(es) + 1]
    /\ SessionDown
    /\ UNCHANGED <<capVars, outdated, storeVars, loopVars, cmds, mail, idVars, histVars>>

Next == \/ UserActs \/ CommandLoop \/ maxCmdIdle \/ IdleWorker \/ SessionEnds \/ CrashRestart
        \/ Deliver \/ OtherClient \/ Renumber

(* The command loop and the IDLE worker are goroutines; the worker          *)
(* reconnects for as long as the account lasts.                            *)
Spec == Init /\ [][Next]_vars /\ WF_vars(CommandLoop) /\ WF_vars(IdleWorker)

-----------------------------------------------------------------------------
(* The types of the server's messages, the rows and the running command.   *)
(* The server's entries are told apart by folder and UID.                  *)
ServerEntry == [f : Folders, uid : Nat, msg : Msgs, seen : BOOLEAN, del : BOOLEAN]
MessageRow == [id : Nat, f : Folders, uid : Nat, msg : Msgs, seen : BOOLEAN, hidden : BOOLEAN, snoozed : BOOLEAN]
MailCmd == [k : {"mark", "move", "delete", "refetch", "attach", "snooze"}, id : Nat, msg : Msgs]
SyncCmd == [k : {"sync"}, to : Folders]

PlacesOf(k) ==
    {"conn"} \cup (CASE k = "mark" -> {"store"}
                     [] k = "move" -> IF hasMove THEN {"move", "drop", "pull"}
                                     ELSE {"copy", "condemn", "expunge", "drop", "pull"}
                     [] k = "destroy" -> {"condemn", "expunge", "drop"}
                     [] k = "refetch" -> {"fetch", "write"}
                     [] k = "attach" -> {"save"}
                     [] k = "sync" -> {"pull"})

Places == ServerOps \cup {"conn", "drop", "pull", "fetch", "write", "save"}

MailRun == [k : {"mark", "move", "destroy", "refetch", "attach"}, row : MessageRow, to : Folders \cup {None},
            meant : Msgs, pc : Places, fresh : BOOLEAN]
SyncRun == [k : {"sync"}, row : {None}, to : Folders, meant : {None}, pc : Places, fresh : BOOLEAN]

ServerTypeOK ==
    /\ hasMove \in BOOLEAN /\ hasTrash \in BOOLEAN /\ box \subseteq ServerEntry /\ IsFiniteSet(box)
    /\ uidNext \in [Folders -> Nat] /\ validity \in [Folders -> Nat \ {0}]
    /\ \A e \in box : e.uid < uidNext[e.f]
    /\ \A d, e \in box : d.f = e.f /\ d.uid = e.uid => d = e

StoreTypeOK ==
    /\ rows \subseteq MessageRow /\ anchor \in [Folders -> Nat]
    /\ lastId \in Nat /\ recycled \in BOOLEAN /\ \A r \in rows : r.id <= lastId

QueueTypeOK == queue \in Seq(MailCmd \cup SyncCmd) /\ pooled \in BOOLEAN

CurTypeOK ==
    /\ cur \in {Idle} \cup MailRun \cup SyncRun
    /\ cur # Idle => cur.pc \in PlacesOf(cur.k) /\ (cur.k \in {"move", "sync"} => cur.to \in Folders)

InboxTypeOK == up \in BOOLEAN /\ told \subseteq {"exists", "expunge", "flags"} /\ changed \subseteq Nat

TypeOK == ServerTypeOK /\ StoreTypeOK /\ QueueTypeOK /\ CurTypeOK /\ InboxTypeOK

(* A message leaves the server only if it was to be destroyed: the user    *)
(* deleted it from Trash, or another client condemned it.  Connections lost*)
(* between COPY, STORE and EXPUNGE, retries and deaths of the process never*)
(* lose one; a command that went astray (see StraysExplained) might.       *)
NeverLost == \A m \in arrived \ (condemned \cup strays) : \E e \in box : e.msg = m

(* A command reaches the message its user pointed at, on the server and in *)
(* the store, and a saved attachment is one of that message, unless row ids*)
(* were handed out again or the server renumbered the folder between the   *)
(* command and the operation.                                              *)
StraysExplained ==
    strays # {} \/ (\E x \in files : x.of # x.meant) => recycled \/ \E f \in Folders : validity[f] > 1

(* Once no command is running no row is hidden: it went with its message,  *)
(* or is shown again because that is still there.  A row stays hidden only *)
(* if the dial before the delete failed, the process died before it was    *)
(* done, or the database refused to drop or to restore it.                 *)
HiddenIsGone ==
    cur = Idle => \A r \in rows : r.hidden => r.msg \in stranded

(* However commands, refetches, syncs and other clients interleave, the    *)
(* inbox settles on the messages the server has, with the server's flags:  *)
(* what the IDLE session is told of is put right, whoever changed it and   *)
(* whatever a command wrote meanwhile.  A row stays behind only when the   *)
(* change came while no session was up, or one ended before it was handled,*)
(* when a refetch wrote old flags back or a mark was given up.  A message  *)
(* is missing only when a command went astray, or dropped its new row after*)
(* the folder was renumbered.                                              *)
Settled ==
    /\ anchor[Inbox] = validity[Inbox]
    /\ \A e \in box : e.f = Inbox /\ e.msg \notin strays =>
          \/ \E r \in rows : r.f = Inbox /\ r.uid = e.uid /\ (r.seen = e.seen \/ e.msg \in outdated)
          \/ validity[Inbox] > 1 /\ e.msg \in outdated
    /\ \A r \in rows : r.f = Inbox /\ r.msg \notin outdated => Entries(r) # {}


=============================================================================
