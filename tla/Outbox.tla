------------------------------- MODULE Outbox -------------------------------
(***************************************************************************)
(* The path of one outgoing message: the composer writes an outbox row and *)
(* arms the undo snackbar (ui/state/actions.go), the command loop sends it *)
(* when the bar commits (internal/syncmanager/exec.go), and each account's *)
(* scheduler sends whatever is due (internal/syncmanager/scheduler.go,     *)
(* internal/mail/smtpsend/outbox.go).  The three share nothing but the     *)
(* outbox table (internal/store/outbox.go), whose statements are atomic.   *)
(*                                                                         *)
(* A raw message is a model value; a row's next_attempt is "now" (it has   *)
(* passed) or "later"; the clock moves "later" to "now".                   *)
(***************************************************************************)
EXTENDS Integers, Sequences

CONSTANTS Msgs,         \* the messages the user composes
          Accounts,     \* configured accounts, one scheduler each
          AcctOf,       \* the account a message is sent from
          Loop,         \* the command-loop worker
          None,         \* no row, no entry, no callback
          MaxRetries,   \* outbox.max_retries (5 in the schema)
          QueueCap,     \* capacity of cmdCh (64 in manager.go)
          MaxId,        \* bound: largest rowid the model hands out
          MaxFaults     \* bound: deaths, failed marks and credential updates explored

Ids == 1..MaxId
Workers == Accounts \cup {Loop}

(***************************************************************************)
(* What one SMTP dialogue can come to: refused before the message was      *)
(* accepted (unparsable message, no credential, dial, AUTH, a 4xx or 5xx); *)
(* accepted, but the reply or the QUIT after it failed; accepted and       *)
(* confirmed.  ProcessOutbox and execSend retry every error alike.         *)
(***************************************************************************)
SmtpOutcomes == {"refused", "unconfirmed", "confirmed"}

\* A row of the outbox table, and what GetOutboxEntry and DueOutbox read of it.
Row == [msg : Msgs, retry : Nat, when : {"now", "later"}]
Entry == [id : Ids, msg : Msgs, retry : Nat]

ASSUME OutboxAssumption ==
    /\ None \notin Msgs /\ None \notin Row /\ None \notin Entry
    /\ Loop \notin Accounts
    /\ AcctOf \in [Msgs -> Accounts]
    /\ MaxRetries \in Nat /\ QueueCap \in Nat
    /\ MaxId \in Nat /\ MaxFaults \in Nat

VARIABLES
    \* persistent
    rows,           \* the outbox table: Ids -> row or None
    \* volatile state of the process
    cmdQ,           \* the buffered command channel
    loopCmd,        \* the command the loop is executing
    batch,          \* per account: rest of the DueOutbox snapshot of this pass
    job,            \* per worker: the entry snapshot it is sending
    res,            \* per worker: outcome of SendEntry, until it is recorded
    late,           \* per message: dialogues of schedulers already cancelled
    stopped,        \* accounts whose scheduler was not started again
    arming,         \* rows written whose undo window is not open yet
    current, armed, tasks,     \* the undo window (UndoWindow)
    \* the world outside
    delivered,      \* messages an SMTP server accepted
    filed,          \* messages handed to appendToSent
    \* what happened (history)
    idOf,           \* rowid each message was given, 0 before
    recalled,       \* messages whose Undo has run
    clean,          \* per message: acceptances the client saw confirmed
    auto,           \* per message: scheduler attempts
    crashes,
    faults          \* marks that failed and credential updates

windowVars == <<current, armed, tasks>>
runVars == <<late, stopped>>
procVars == <<cmdQ, loopCmd, batch, job, res, runVars>>
sentVars == <<delivered, filed, clean, auto>>
histVars == <<idOf, recalled, crashes, faults>>
vars == <<rows, procVars, arming, windowVars, sentVars, histVars>>

Window == INSTANCE UndoWindow WITH Actions <- Msgs

SendCmd(id) == [kind |-> "send", id |-> id]
UnsubscribeCmd == [kind |-> "unsubscribe", id |-> 0]
Commands == [kind : {"send", "unsubscribe"}, id : Ids \cup {0}]

Live == {id \in Ids : rows[id] # None}

TypeOK ==
    /\ rows \in [Ids -> Row \cup {None}]
    /\ cmdQ \in Seq(Commands)
    /\ loopCmd \in Commands \cup {None}
    /\ batch \in [Accounts -> SUBSET Entry]
    /\ job \in [Workers -> Entry \cup {None}]
    /\ res \in [Workers -> {"none"} \cup SmtpOutcomes]
    /\ late \in [Msgs -> Nat] /\ stopped \subseteq Accounts
    /\ arming \subseteq Msgs
    /\ Window!WindowTypeOK
    /\ delivered \subseteq Msgs /\ filed \subseteq Msgs
    /\ idOf \in [Msgs -> Ids \cup {0}]
    /\ recalled \subseteq Msgs
    /\ clean \in [Msgs -> Nat] /\ auto \in [Msgs -> Nat]
    /\ crashes \in Nat /\ faults \in Nat

Init ==
    /\ rows = [id \in Ids |-> None]
    /\ cmdQ = <<>>
    /\ loopCmd = None
    /\ batch = [a \in Accounts |-> {}]
    /\ job = [w \in Workers |-> None]
    /\ res = [w \in Workers |-> "none"]
    /\ late = [m \in Msgs |-> 0] /\ stopped = {}
    /\ arming = {}
    /\ Window!WindowInit
    /\ delivered = {} /\ filed = {}
    /\ idOf = [m \in Msgs |-> 0]
    /\ recalled = {}
    /\ clean = [m \in Msgs |-> 0] /\ auto = [m \in Msgs |-> 0]
    /\ crashes = 0 /\ faults = 0

-----------------------------------------------------------------------------
(***************************************************************************)
(* The outbox table.                                                       *)
(***************************************************************************)

(***************************************************************************)
(* The rowid SQLite gives an insert into `id INTEGER PRIMARY KEY' (no      *)
(* AUTOINCREMENT): one more than the largest rowid present.  A rowid is    *)
(* used again once its row is gone.                                        *)
(***************************************************************************)
NextRowid(id) ==
    /\ \A j \in Live : j < id
    /\ id = 1 \/ id - 1 \in Live

EnqueueOutbox(m, id) ==
    /\ NextRowid(id)
    /\ rows' = [rows EXCEPT ![id] = [msg |-> m, retry |-> 0, when |-> "now"]]
    /\ idOf' = [idOf EXCEPT ![m] = id]

EntryAt(id) ==
    [id |-> id, msg |-> rows[id].msg, retry |-> rows[id].retry]

\* Mutant: the query forgets the retry budget.
DueIgnoringBudget(a) ==
    {EntryAt(id) : id \in {i \in Live : rows[i].when = "now" /\ AcctOf[rows[i].msg] = a}}

\* Mutant: the budget test is off by one, the last attempt is never made.
DueOffByOne(a) ==
    {EntryAt(id) : id \in {i \in Live : /\ rows[i].when = "now"
                                        /\ rows[i].retry + 1 < MaxRetries
                                        /\ AcctOf[rows[i].msg] = a}}

(***************************************************************************)
(* DueOutbox, with the entries of other accounts skipped as ProcessOutbox  *)
(* does.  The order of the entries does not matter to any property.        *)
(***************************************************************************)
DueOutbox(a) ==
    {EntryAt(id) : id \in {i \in Live : /\ rows[i].when = "now"
                                        /\ rows[i].retry < MaxRetries
                                        /\ AcctOf[rows[i].msg] = a}}

\* DELETE FROM outbox WHERE id = ?; deleting nothing is no error.
MarkOutboxSent(id) == [rows EXCEPT ![id] = None]

\* Mutant: a failed entry is dropped instead of scheduled again.
MarkOutboxDropped(id) == [rows EXCEPT ![id] = None]

\* UPDATE outbox ... WHERE id = ?; updating nothing is no error.
MarkOutboxFailed(id) ==
    IF rows[id] = None THEN rows
    ELSE [rows EXCEPT ![id] = [msg |-> rows[id].msg, retry |-> rows[id].retry + 1,
                               when |-> "later"]]

-----------------------------------------------------------------------------
(***************************************************************************)
(* The user interface.                                                     *)
(***************************************************************************)

\* EnqueueDraft's goroutine, up to the insert.
EnqueueDraft(m) ==
    /\ idOf[m] = 0
    /\ \E id \in Ids : EnqueueOutbox(m, id)
    /\ arming' = arming \cup {m}
    /\ UNCHANGED <<procVars, windowVars, sentVars, recalled, crashes, faults>>

\* armUndoSend: the bar goes up; a bar it replaces commits.
ArmUndoSend(m) ==
    /\ m \in arming
    /\ arming' = arming \ {m}
    /\ Window!Open(m)
    /\ UNCHANGED <<rows, procVars, sentVars, histVars>>

\* Any other status message of the app takes the bar.
Notify ==
    /\ current # None
    /\ Window!Open(None)
    /\ UNCHANGED <<rows, procVars, arming, sentVars, histVars>>

\* The bar expires, is tapped, or closes.
SnackbarStep ==
    /\ Window!Display
    /\ UNCHANGED <<rows, procVars, arming, sentVars, histVars>>

\* Manager.Send never blocks: a full queue drops the command.
Enqueued(cmd) == IF Len(cmdQ) < QueueCap THEN Append(cmdQ, cmd) ELSE cmdQ

\* The commit callback: Send(SendCmd).
CommitSend(m) ==
    /\ Window!Run(Window!CommitOf(m))
    /\ cmdQ' = Enqueued(SendCmd(idOf[m]))
    /\ UNCHANGED <<rows, loopCmd, batch, job, res, runVars, arming, sentVars, histVars>>

\* The undo callback: the row captured by the closure is deleted.
RecallSend(m) ==
    /\ Window!Run(Window!UndoOf(m))
    /\ rows' = MarkOutboxSent(idOf[m])
    /\ recalled' = recalled \cup {m}
    /\ UNCHANGED <<procVars, arming, sentVars, idOf, crashes, faults>>

\* AppState.Unsubscribe queues a command; the loop builds the message.
Unsubscribe ==
    /\ cmdQ' = Enqueued(UnsubscribeCmd)
    /\ UNCHANGED <<rows, loopCmd, batch, job, res, runVars, arming, windowVars, sentVars, histVars>>

-----------------------------------------------------------------------------
(***************************************************************************)
(* The command loop.                                                       *)
(***************************************************************************)
DequeueCmd ==
    /\ loopCmd = None /\ cmdQ # <<>>
    /\ loopCmd' = Head(cmdQ)
    /\ cmdQ' = Tail(cmdQ)
    /\ UNCHANGED <<rows, batch, job, res, runVars, arming, windowVars, sentVars, histVars>>

\* execUnsubscribe: insert, then execSend of the new row.
ExecUnsubscribe(m) ==
    /\ loopCmd # None /\ loopCmd.kind = "unsubscribe"
    /\ idOf[m] = 0
    /\ \E id \in Ids :
          /\ EnqueueOutbox(m, id)
          /\ loopCmd' = SendCmd(id)
    /\ UNCHANGED <<cmdQ, batch, job, res, runVars, arming, windowVars, sentVars, recalled, crashes, faults>>

\* Its early returns: message gone, no mailto target, account gone.
UnsubscribeFails ==
    /\ loopCmd # None /\ loopCmd.kind = "unsubscribe"
    /\ loopCmd' = None
    /\ UNCHANGED <<rows, cmdQ, batch, job, res, runVars, arming, windowVars, sentVars, histVars>>

(***************************************************************************)
(* execUpdateCredential: stopAccount cancels the context of the account's  *)
(* scheduler and waits for it, but not for ever.  A pass that is between   *)
(* two entries ends (ctx.Err), one that has an outcome to record gets an   *)
(* error from the database and records nothing, and a dialogue under way   *)
(* goes on by itself.  Then a new scheduler is started, or none when the   *)
(* keystore refuses the credential.  (The user may ask for it at any time: *)
(* the command is not kept in cmdQ, the loop executes it when it is free.) *)
(***************************************************************************)
ExecUpdateCredential(a) ==
    /\ loopCmd = None
    /\ crashes + faults < MaxFaults
    /\ faults' = faults + 1
    /\ batch' = [batch EXCEPT ![a] = {}]
    /\ job' = [job EXCEPT ![a] = None]
    /\ res' = [res EXCEPT ![a] = "none"]
    /\ late' = IF job[a] # None /\ res[a] = "none"
               THEN [late EXCEPT ![job[a].msg] = @ + 1] ELSE late
    /\ stopped' \in {stopped \cup {a}, stopped \ {a}}
    /\ UNCHANGED <<rows, cmdQ, loopCmd, arming, windowVars, sentVars, idOf, recalled, crashes>>

\* execSend up to the connection: GetOutboxEntry, or ErrNotFound.
ExecSend ==
    /\ loopCmd # None /\ loopCmd.kind = "send" /\ job[Loop] = None
    /\ IF loopCmd.id \in Live
       THEN /\ job' = [job EXCEPT ![Loop] = EntryAt(loopCmd.id)]
            /\ UNCHANGED loopCmd
       ELSE /\ loopCmd' = None
            /\ UNCHANGED job
    /\ UNCHANGED <<rows, cmdQ, batch, res, runVars, arming, windowVars, sentVars, histVars>>

-----------------------------------------------------------------------------
(***************************************************************************)
(* The scheduler of one account.                                           *)
(***************************************************************************)

\* The timer fires and ProcessOutbox reads the due entries.
ProcessOutbox(a) ==
    /\ a \notin stopped /\ batch[a] = {} /\ job[a] = None
    /\ DueOutbox(a) # {}
    /\ batch' = [batch EXCEPT ![a] = DueOutbox(a)]
    /\ UNCHANGED <<rows, cmdQ, loopCmd, job, res, runVars, arming, windowVars, sentVars, histVars>>

\* The next entry of the snapshot is attempted; the row is not read again.
ProcessNext(a) ==
    /\ job[a] = None
    /\ \E e \in batch[a] :
          /\ job' = [job EXCEPT ![a] = e]
          /\ batch' = [batch EXCEPT ![a] = @ \ {e}]
          /\ auto' = [auto EXCEPT ![e.msg] = @ + 1]
    /\ UNCHANGED <<rows, cmdQ, loopCmd, res, runVars, arming, windowVars, delivered, filed, clean,
                   histVars>>

-----------------------------------------------------------------------------
(***************************************************************************)
(* SendEntry, by either worker, and the recording of its outcome.          *)
(***************************************************************************)
Dialogue(m, o) ==
    /\ delivered' = IF o \in {"unconfirmed", "confirmed"} THEN delivered \cup {m} ELSE delivered
    /\ clean' = IF o = "confirmed" THEN [clean EXCEPT ![m] = @ + 1] ELSE clean

SendEntry(w) ==
    /\ job[w] # None /\ res[w] = "none"
    /\ \E o \in SmtpOutcomes :
          /\ Dialogue(job[w].msg, o)
          /\ res' = [res EXCEPT ![w] = o]
    /\ UNCHANGED <<rows, cmdQ, loopCmd, batch, job, runVars, arming, windowVars, filed, auto, histVars>>

\* A dialogue that outlived its scheduler ends; with the context cancelled, its mark fails.
LateSend(m) ==
    /\ late[m] > 0
    /\ late' = [late EXCEPT ![m] = @ - 1]
    /\ \E o \in SmtpOutcomes : Dialogue(m, o)
    /\ UNCHANGED <<rows, cmdQ, loopCmd, batch, job, res, stopped, arming, windowVars, filed, auto,
                   histVars>>

\* The worker is done with its entry; the loop, with its command.
Finish(w) ==
    /\ job' = [job EXCEPT ![w] = None]
    /\ res' = [res EXCEPT ![w] = "none"]
    /\ loopCmd' = IF w = Loop THEN None ELSE loopCmd

\* Mutant: the row is kept after a confirmed send.
RecordKeepsRow(w) ==
    /\ job[w] # None /\ res[w] # "none"
    /\ IF res[w] = "confirmed"
       THEN /\ UNCHANGED rows
            /\ filed' = IF w = Loop THEN filed \cup {job[w].msg} ELSE filed
       ELSE /\ rows' = MarkOutboxFailed(job[w].id)
            /\ UNCHANGED filed
    /\ Finish(w)
    /\ UNCHANGED <<cmdQ, batch, runVars, arming, windowVars, delivered, clean, auto, histVars>>

(***************************************************************************)
(* The row named by the snapshot is deleted, or charged with a failure.    *)
(* Only execSend goes on to appendToSent.                                  *)
(***************************************************************************)
RecordResult(w) ==
    /\ job[w] # None /\ res[w] # "none"
    /\ IF res[w] = "confirmed"
       THEN /\ rows' = MarkOutboxSent(job[w].id)
            /\ filed' = IF w = Loop THEN filed \cup {job[w].msg} ELSE filed
       ELSE /\ rows' = MarkOutboxFailed(job[w].id)
            /\ UNCHANGED filed
    /\ Finish(w)
    /\ UNCHANGED <<cmdQ, batch, runVars, arming, windowVars, delivered, clean, auto, histVars>>

(***************************************************************************)
(* MarkOutboxSent or MarkOutboxFailed returns an error: the row stays as   *)
(* it was, ProcessOutbox returns without the rest of its entries, execSend *)
(* without filing the message.                                             *)
(***************************************************************************)
MarkFails(w) ==
    /\ job[w] # None /\ res[w] # "none"
    /\ crashes + faults < MaxFaults
    /\ faults' = faults + 1
    /\ batch' = IF w = Loop THEN batch ELSE [batch EXCEPT ![w] = {}]
    /\ Finish(w)
    /\ UNCHANGED <<rows, cmdQ, runVars, arming, windowVars, sentVars, idOf, recalled, crashes>>

\* The backoff of a failed row elapses.
BackoffElapses(id) ==
    /\ id \in Live /\ rows[id].when = "later"
    /\ rows' = [rows EXCEPT ![id].when = "now"]
    /\ UNCHANGED <<procVars, arming, windowVars, sentVars, histVars>>

(***************************************************************************)
(* The process dies and is started again: the table survives; queued       *)
(* commands, the snackbar, its callbacks and the workers' state do not.    *)
(***************************************************************************)
CrashRestart ==
    /\ crashes + faults < MaxFaults
    /\ crashes' = crashes + 1
    /\ cmdQ' = <<>> /\ loopCmd' = None
    /\ batch' = [a \in Accounts |-> {}]
    /\ job' = [w \in Workers |-> None]
    /\ res' = [w \in Workers |-> "none"]
    /\ late' = [m \in Msgs |-> 0] /\ stopped' = {}
    /\ arming' = {}
    /\ current' = None /\ armed' = "no" /\ tasks' = {}
    /\ UNCHANGED <<rows, sentVars, idOf, recalled, faults>>

-----------------------------------------------------------------------------
UserStep ==
    \/ \E m \in Msgs : EnqueueDraft(m) \/ ArmUndoSend(m) \/ CommitSend(m) \/ RecallSend(m)
    \/ Unsubscribe \/ Notify \/ SnackbarStep
LoopStep ==
    \/ DequeueCmd \/ UnsubscribeFails \/ ExecSend
    \/ \E m \in Msgs : ExecUnsubscribe(m)
    \/ \E a \in Accounts : ExecUpdateCredential(a)
    \/ SendEntry(Loop) \/ RecordResult(Loop) \/ MarkFails(Loop)
SchedulerStep(a) ==
    \/ ProcessOutbox(a) \/ ProcessNext(a) \/ SendEntry(a) \/ RecordResult(a) \/ MarkFails(a)

Next ==
    \/ UserStep
    \/ LoopStep
    \/ \E a \in Accounts : SchedulerStep(a)
    \/ \E m \in Msgs : LateSend(m)
    \/ \E id \in Ids : BackoffElapses(id)
    \/ CrashRestart

(***************************************************************************)
(* Nothing is asked of the user or of the command loop.  The scheduler's   *)
(* timer keeps firing and a backoff delay elapses.                         *)
(***************************************************************************)
Fairness ==
    /\ \A a \in Accounts : WF_vars(SchedulerStep(a))
    /\ \A id \in Ids : WF_vars(BackoffElapses(id))

Spec == Init /\ [][Next]_vars
FairSpec == Spec /\ Fairness

-----------------------------------------------------------------------------
HasRow(m) == \E id \in Ids : rows[id] # None /\ rows[id].msg = m
Unreused(m) == \A n \in Msgs \ {m} : idOf[n] # idOf[m]
Accounted(m) == m \in delivered \/ m \in recalled \/ HasRow(m)

(***************************************************************************)
(* The parts of the inductive invariant behind LossNeedsRowidReuse.  A row *)
(* and a worker's snapshot carry the rowid their message was given, and a  *)
(* worker about to record a confirmed send has really delivered it.        *)
(***************************************************************************)
RowsNamed == \A id \in Ids : rows[id] # None => idOf[rows[id].msg] = id

EntriesNamed ==
    /\ \A a \in Accounts : \A e \in batch[a] : idOf[e.msg] = e.id
    /\ \A w \in Workers : job[w] # None => idOf[job[w].msg] = job[w].id

ConfirmedDelivered ==
    \A w \in Workers : res[w] = "confirmed" => job[w] # None /\ job[w].msg \in delivered

(***************************************************************************)
(* A queued message whose rowid was never given to another message is      *)
(* never lost: through races of the two senders, unconfirmed sends, undo   *)
(* and restarts it stays in the table until a server has accepted it or    *)
(* the user has recalled it.  (MarkOutboxSent is the only DELETE.)         *)
(***************************************************************************)
LossNeedsRowidReuse == \A m \in Msgs : idOf[m] # 0 /\ Unreused(m) => Accounted(m)

LossInv == RowsNamed /\ EntriesNamed /\ ConfirmedDelivered /\ LossNeedsRowidReuse

(***************************************************************************)
(* The automatic attempts of a message stay within its budget, but for one *)
(* per restart, failed mark or credential update that left an attempt      *)
(* uncharged: neither the stale snapshots of ProcessOutbox, a concurrent   *)
(* execSend nor a dialogue that outlived its scheduler adds any.           *)
(***************************************************************************)
AutoRetriesBounded == \A m \in Msgs : auto[m] <= MaxRetries + crashes + faults

(***************************************************************************)
(* How far the two unsynchronised senders can duplicate a message: at most *)
(* two confirmed copies, plus one for each restart between the acceptance  *)
(* and the DELETE, each DELETE that failed, and each credential update     *)
(* that cut a send off from its DELETE.                                    *)
(***************************************************************************)
CopiesBounded == \A m \in Msgs : clean[m] <= 2 + crashes + faults

(***************************************************************************)
(* Every row with budget left is eventually gone or a dead letter, whether *)
(* or not its SendCmd was dropped by a full queue or lost with the process,*)
(* a mark failed or the scheduler was replaced under it -- unless the      *)
(* keystore refused a new credential, which leaves the account without a   *)
(* scheduler until the process is started again.                           *)
(***************************************************************************)
Pending(m) == \E id \in Live : rows[id].msg = m /\ rows[id].retry < MaxRetries
OutboxDrains == \A m \in Msgs : Pending(m) ~> ~Pending(m) \/ AcctOf[m] \in stopped
=============================================================================
