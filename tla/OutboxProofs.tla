---------------------------- MODULE OutboxProofs ----------------------------
(***************************************************************************)
(* Type correctness of Outbox, that a queued message is lost only when     *)
(* SQLite gives its rowid away again, and the bounds on automatic retries  *)
(* and on confirmed copies, for any number of messages, accounts, retries, *)
(* restarts, failed marks and credential updates; and that the snackbar    *)
(* implements the undo window Outbox is built on, for any set of actions   *)
(* and any interleaving of Show with the two halves of Layout.             *)
(***************************************************************************)
EXTENDS Outbox, Snackbar, TLAPS

-----------------------------------------------------------------------------
(* The snackbar and the undo window.                                       *)

BarInv == BarTypeOK /\ CommitInv

LEMMA GoType ==
    ASSUME NEW a \in Actions \cup {NoAction}, NEW cb \in {"commit", "undo"}
    PROVE  Go(cb, a) \subseteq Callbacks
  BY DEF Go, Callbacks

LEMMA BarInvInit == BarInit => BarInv
  BY NoActionAssumption DEF BarInit, BarInv, BarTypeOK, CommitInv, Hidden

LEMMA BarInvNext == BarInv /\ [BarNext]_barVars => BarInv'
  <1> SUFFICES ASSUME BarInv, [BarNext]_barVars PROVE BarInv'
    OBVIOUS
  <1> USE NoActionAssumption DEF BarInv, BarTypeOK, CommitInv
  <1>1. ASSUME NEW a \in Actions \cup {NoAction}, Show(a) PROVE BarInv'
    BY <1>1 DEF Show, Go, Callbacks
  <1>2. CASE LayoutHold
    BY <1>2 DEF LayoutHold, ButtonOf
  <1>3. CASE LayoutExpire
    <2>1. Go("commit", bar.commit) \subseteq Callbacks
      BY GoType
    <2>2. /\ bar' = [visible |-> bar.visible, hiding |-> "yes", undo |-> bar.undo, commit |-> NoAction]
          /\ bar.visible = "yes"
      BY <1>3 DEF LayoutExpire
    <2> QED BY <1>3, <2>1, <2>2 DEF LayoutExpire, ButtonOf
  <1>4. CASE LayoutGone
    BY <1>4 DEF LayoutGone
  <1>5. CASE UndoClicked
    <2>1. Go("undo", bar.undo) \subseteq Callbacks
      BY GoType
    <2>2. bar' = [visible |-> bar.visible, hiding |-> "yes", undo |-> NoAction, commit |-> NoAction]
      BY <1>5 DEF UndoClicked
    <2> QED BY <1>5, <2>1, <2>2 DEF UndoClicked
  <1>6. CASE NotClicked
    BY <1>6 DEF NotClicked
  <1>7. CASE RunCallback
    BY <1>7 DEF RunCallback
  <1>8. CASE UNCHANGED barVars
    BY <1>8 DEF barVars
  <1> QED
    BY <1>1, <1>2, <1>3, <1>4, <1>5, <1>6, <1>7, <1>8 DEF BarNext, Layout

(***************************************************************************)
(* Step simulation: each step of the bar is a step of the window or leaves *)
(* it unchanged.                                                           *)
(***************************************************************************)
LEMMA StepSimulation ==
    BarInv /\ BarInv' /\ [BarNext]_barVars => [BarWindow!WindowNext]_(BarWindow!windowVars)
  <1> SUFFICES ASSUME BarInv, BarInv', [BarNext]_barVars
               PROVE  [BarWindow!WindowNext]_(BarWindow!windowVars)
    OBVIOUS
  <1> USE NoActionAssumption DEF BarInv, BarTypeOK, CommitInv, BarWindow!windowVars
  <1>1. ASSUME NEW a \in Actions \cup {NoAction}, Show(a)
        PROVE  BarWindow!Open(a)
    BY <1>1 DEF Show, Go, BarWindow!Open, BarWindow!Committed, BarWindow!CommitOf
  <1>2. ASSUME LayoutHold \/ NotClicked PROVE UNCHANGED BarWindow!windowVars
    BY <1>2 DEF LayoutHold, NotClicked
  <1>3. ASSUME LayoutExpire PROVE BarWindow!Expire \/ UNCHANGED BarWindow!windowVars
    BY <1>3 DEF LayoutExpire, Go, BarWindow!Expire, BarWindow!Committed, BarWindow!CommitOf
  <1>4. ASSUME LayoutGone PROVE BarWindow!Close \/ UNCHANGED BarWindow!windowVars
    BY <1>4 DEF LayoutGone, BarWindow!Close
  <1>5. ASSUME UndoClicked PROVE BarWindow!Undo \/ UNCHANGED BarWindow!windowVars
    BY <1>5 DEF UndoClicked, Go, BarWindow!Undo, BarWindow!UndoOf
  <1>6. ASSUME RunCallback PROVE \E c \in started : BarWindow!Run(c)
    BY <1>6 DEF RunCallback, BarWindow!Run
  <1>7. ASSUME UNCHANGED barVars PROVE UNCHANGED BarWindow!windowVars
    BY <1>7 DEF barVars
  <1> QED
    BY <1>1, <1>2, <1>3, <1>4, <1>5, <1>6, <1>7
       DEF BarNext, Layout, BarWindow!WindowNext, BarWindow!Display

(***************************************************************************)
(* The snackbar implements the undo window.                                *)
(***************************************************************************)
THEOREM SnackbarImplementsWindow == BarSpec => ImplementsWindow
  <1>1. BarInit => BarWindow!WindowInit
    BY NoActionAssumption DEF BarInit, Hidden, BarWindow!WindowInit
  <1> QED
    BY <1>1, BarInvInit, BarInvNext, StepSimulation, PTL
       DEF BarSpec, ImplementsWindow, BarWindow!WindowSpec

-----------------------------------------------------------------------------
(* The outbox.                                                             *)

\* The state of the runners is one of the tuples every step names.
USE DEF runVars

(***************************************************************************)
(* Entry snapshots are well typed: reading a live row gives an Entry.      *)
(***************************************************************************)
LEMMA EntryAtType ==
    ASSUME TypeOK, NEW id \in Live
    PROVE  EntryAt(id) \in Entry
  BY DEF TypeOK, EntryAt, Entry, Live, Row

(***************************************************************************)
(* The two writes to the table keep it a table.                            *)
(***************************************************************************)
LEMMA MarkType ==
    ASSUME TypeOK, NEW id
    PROVE  /\ MarkOutboxSent(id) \in [Ids -> Row \cup {None}]
           /\ id \in Ids => MarkOutboxFailed(id) \in [Ids -> Row \cup {None}]
  <1>1. MarkOutboxSent(id) \in [Ids -> Row \cup {None}]
    BY DEF TypeOK, MarkOutboxSent
  <1>2. id \in Ids => MarkOutboxFailed(id) \in [Ids -> Row \cup {None}]
    BY DEF TypeOK, MarkOutboxFailed, Row
  <1> QED BY <1>1, <1>2

(***************************************************************************)
(* Manager.Send and the dequeue keep cmdQ a queue of commands.             *)
(***************************************************************************)
LEMMA QueueType ==
    ASSUME TypeOK, NEW cmd \in Commands
    PROVE  Enqueued(cmd) \in Seq(Commands)
  BY DEF TypeOK, Enqueued

(***************************************************************************)
(* Type correctness.                                                       *)
(***************************************************************************)
LEMMA InitType == Init => TypeOK
  BY OutboxAssumption DEF Init, TypeOK, Window!WindowInit, Window!WindowTypeOK

LEMMA NextType == TypeOK /\ [Next]_vars => TypeOK'
  <1> SUFFICES ASSUME TypeOK, [Next]_vars PROVE TypeOK'
    OBVIOUS
  <1> USE OutboxAssumption
  <1>1. ASSUME NEW m \in Msgs, EnqueueDraft(m) PROVE TypeOK'
    BY <1>1 DEF TypeOK, EnqueueDraft, EnqueueOutbox, Row, procVars, windowVars, sentVars,
                Window!WindowTypeOK
  <1>2. ASSUME NEW m \in Msgs, ArmUndoSend(m) PROVE TypeOK'
    BY <1>2 DEF TypeOK, ArmUndoSend, Window!Open, Window!Committed, Window!CommitOf,
                Window!Callbacks, procVars, sentVars, histVars, Window!WindowTypeOK
  <1>3. ASSUME NEW m \in Msgs, CommitSend(m) PROVE TypeOK'
    <2>1. SendCmd(idOf[m]) \in Commands
      BY DEF TypeOK, SendCmd, Commands
    <2>2. cmdQ' \in Seq(Commands)
      BY <1>3, <2>1, QueueType DEF CommitSend
    <2> QED BY <1>3, <2>2 DEF TypeOK, CommitSend, Window!Run, sentVars, histVars,
                Window!WindowTypeOK
  <1>4. ASSUME NEW m \in Msgs, RecallSend(m) PROVE TypeOK'
    <2>1. rows' \in [Ids -> Row \cup {None}]
      BY <1>4, MarkType DEF RecallSend
    <2> QED BY <1>4, <2>1 DEF TypeOK, RecallSend, Window!Run, sentVars, procVars,
                Window!WindowTypeOK
  <1>5. ASSUME Unsubscribe PROVE TypeOK'
    <2>1. UnsubscribeCmd \in Commands
      BY DEF UnsubscribeCmd, Commands
    <2>2. cmdQ' \in Seq(Commands)
      BY <1>5, <2>1, QueueType DEF Unsubscribe
    <2> QED BY <1>5, <2>2 DEF TypeOK, Unsubscribe, windowVars, sentVars, histVars,
                Window!WindowTypeOK
  <1>6. ASSUME Notify PROVE TypeOK'
    BY <1>6 DEF TypeOK, Notify, Window!Open, Window!Committed, Window!CommitOf,
                Window!Callbacks, procVars, sentVars, histVars, Window!WindowTypeOK
  <1>7. ASSUME SnackbarStep PROVE TypeOK'
    BY <1>7 DEF TypeOK, SnackbarStep, Window!Display, Window!Expire, Window!Close, Window!Undo,
                Window!Committed, Window!CommitOf, Window!UndoOf, Window!Callbacks,
                procVars, sentVars, histVars, Window!WindowTypeOK
  <1>8. ASSUME DequeueCmd PROVE TypeOK'
    <2>1. Head(cmdQ) \in Commands /\ Tail(cmdQ) \in Seq(Commands)
      BY <1>8 DEF TypeOK, DequeueCmd
    <2> QED BY <1>8, <2>1 DEF TypeOK, DequeueCmd, windowVars, sentVars, histVars,
                Window!WindowTypeOK
  <1>9. ASSUME NEW m \in Msgs, ExecUnsubscribe(m) PROVE TypeOK'
    BY <1>9 DEF TypeOK, ExecUnsubscribe, EnqueueOutbox, Row, SendCmd, Commands,
                windowVars, sentVars, Window!WindowTypeOK
  <1>18. ASSUME UnsubscribeFails PROVE TypeOK'
    BY <1>18 DEF TypeOK, UnsubscribeFails, windowVars, sentVars, histVars, Window!WindowTypeOK
  <1>10. ASSUME ExecSend PROVE TypeOK'
    <2>1. CASE loopCmd.id \in Live
      <3>1. EntryAt(loopCmd.id) \in Entry
        BY <2>1, EntryAtType
      <3>a. job' = [job EXCEPT ![Loop] = EntryAt(loopCmd.id)] /\ UNCHANGED loopCmd
        BY <1>10, <2>1 DEF ExecSend
      <3>b. job \in [Workers -> Entry \cup {None}]
        BY DEF TypeOK
      <3>2. job' \in [Workers -> Entry \cup {None}] /\ UNCHANGED loopCmd
        BY <3>1, <3>a, <3>b
      <3> QED BY <1>10, <3>2 DEF TypeOK, ExecSend, windowVars, sentVars, histVars,
                Window!WindowTypeOK
    <2>2. CASE loopCmd.id \notin Live
      BY <1>10, <2>2 DEF TypeOK, ExecSend, windowVars, sentVars, histVars, Window!WindowTypeOK
    <2> QED BY <2>1, <2>2
  <1>11. ASSUME NEW a \in Accounts, ProcessOutbox(a) PROVE TypeOK'
    <2>1. DueOutbox(a) \subseteq Entry
      BY EntryAtType DEF DueOutbox
    <2> QED BY <1>11, <2>1 DEF TypeOK, ProcessOutbox, windowVars, sentVars, histVars,
                Window!WindowTypeOK
  <1>12. ASSUME NEW a \in Accounts, ProcessNext(a) PROVE TypeOK'
    <2>1. PICK e \in batch[a] : /\ job' = [job EXCEPT ![a] = e] /\ batch' = [batch EXCEPT ![a] = @ \ {e}]
                                /\ auto' = [auto EXCEPT ![e.msg] = @ + 1]
      BY <1>12 DEF ProcessNext
    <2>2. e \in Entry /\ e.msg \in Msgs
      BY DEF TypeOK, Entry
    <2> QED BY <1>12, <2>1, <2>2 DEF TypeOK, ProcessNext, Workers, windowVars, histVars,
                Window!WindowTypeOK
  <1>13. ASSUME NEW w \in Workers, SendEntry(w) PROVE TypeOK'
    <2>1. job[w].msg \in Msgs
      BY <1>13 DEF TypeOK, SendEntry, Entry
    <2>2. delivered' \subseteq Msgs /\ clean' \in [Msgs -> Nat]
      BY <1>13, <2>1 DEF TypeOK, SendEntry, Dialogue
    <2>3. res' \in [Workers -> {"none"} \cup SmtpOutcomes]
      BY <1>13 DEF TypeOK, SendEntry
    <2> QED BY <1>13, <2>2, <2>3 DEF TypeOK, SendEntry, windowVars, histVars, Window!WindowTypeOK
  <1>19. ASSUME NEW m \in Msgs, LateSend(m) PROVE TypeOK'
    BY <1>19 DEF TypeOK, LateSend, Dialogue, windowVars, histVars, Window!WindowTypeOK
  <1>20. ASSUME NEW w \in Workers, MarkFails(w) PROVE TypeOK'
    BY <1>20 DEF TypeOK, MarkFails, Finish, Workers, windowVars, sentVars, Window!WindowTypeOK
  <1>21. ASSUME NEW a \in Accounts, ExecUpdateCredential(a) PROVE TypeOK'
    <2>1. late' \in [Msgs -> Nat]
      <3>1. job[a] # None => job[a].msg \in Msgs
        BY DEF TypeOK, Entry, Workers
      <3>2. late \in [Msgs -> Nat]
        BY DEF TypeOK
      <3>3. late' = IF job[a] # None /\ res[a] = "none"
                    THEN [late EXCEPT ![job[a].msg] = @ + 1] ELSE late
        BY <1>21 DEF ExecUpdateCredential
      <3> QED BY <3>1, <3>2, <3>3
    <2> QED BY <1>21, <2>1 DEF TypeOK, ExecUpdateCredential, Workers, windowVars, sentVars,
                Window!WindowTypeOK
  <1>14. ASSUME NEW w \in Workers, RecordResult(w) PROVE TypeOK'
    <2>1. job[w].msg \in Msgs /\ job[w].id \in Ids
      BY <1>14 DEF TypeOK, RecordResult, Entry
    <2>2. rows' \in [Ids -> Row \cup {None}]
      <3>1. MarkOutboxSent(job[w].id) \in [Ids -> Row \cup {None}]
        BY MarkType
      <3>2. MarkOutboxFailed(job[w].id) \in [Ids -> Row \cup {None}]
        BY <2>1, MarkType
      <3> QED BY <1>14, <3>1, <3>2 DEF RecordResult
    <2> QED BY <1>14, <2>1, <2>2 DEF TypeOK, RecordResult, Finish, windowVars, histVars,
                Window!WindowTypeOK
  <1>15. ASSUME NEW id \in Ids, BackoffElapses(id) PROVE TypeOK'
    <2>1. rows[id] \in Row
      BY <1>15 DEF TypeOK, BackoffElapses, Live
    <2>2. [rows[id] EXCEPT !.when = "now"] \in Row
      BY <2>1 DEF Row
    <2>3. rows' \in [Ids -> Row \cup {None}]
      BY <1>15, <2>2 DEF TypeOK, BackoffElapses
    <2> QED BY <1>15, <2>3 DEF TypeOK, BackoffElapses, procVars, windowVars, sentVars, histVars,
                Window!WindowTypeOK
  <1>16. ASSUME CrashRestart PROVE TypeOK'
    BY <1>16 DEF TypeOK, CrashRestart, sentVars, Window!WindowTypeOK
  <1>17. ASSUME UNCHANGED vars PROVE TypeOK'
    BY <1>17 DEF TypeOK, vars, procVars, windowVars, sentVars, histVars, Window!WindowTypeOK
  <1> QED
    BY <1>1, <1>2, <1>3, <1>4, <1>5, <1>6, <1>7, <1>8, <1>9, <1>10, <1>11, <1>12, <1>13,
       <1>14, <1>15, <1>16, <1>17, <1>18, <1>19, <1>20, <1>21
       DEF Next, UserStep, LoopStep, SchedulerStep, Workers

(***************************************************************************)
(* Every state of the outbox is well typed.                                *)
(***************************************************************************)
THEOREM TypeCorrect == Spec => []TypeOK
  BY InitType, NextType, PTL DEF Spec

-----------------------------------------------------------------------------
(***************************************************************************)
(* The inductive invariant of the loss theorem, action by action.  Only    *)
(* the actions that write the table, take a snapshot, or record an outcome *)
(* can disturb it.                                                         *)
(***************************************************************************)
LEMMA InitLoss == Init => LossInv
  BY OutboxAssumption
     DEF Init, LossInv, RowsNamed, EntriesNamed, ConfirmedDelivered, LossNeedsRowidReuse

\* Steps that leave the table, the snapshots, the outcomes and the history alone.
LEMMA QuietLoss ==
    ASSUME LossInv, UNCHANGED <<rows, batch, job, res, idOf, recalled, delivered>>
    PROVE  LossInv'
  BY DEF LossInv, RowsNamed, EntriesNamed, ConfirmedDelivered, LossNeedsRowidReuse,
         Unreused, Accounted, HasRow

\* An insert names its row; the rows and snapshots of other messages keep theirs.
LEMMA EnqueueLoss ==
    ASSUME TypeOK, LossInv, NEW m \in Msgs, idOf[m] = 0, NEW id \in Ids, EnqueueOutbox(m, id),
           UNCHANGED <<batch, job, res, recalled, delivered>>
    PROVE  LossInv'
  <1> USE OutboxAssumption DEF Ids
  <1>1. rows[id] = None
    BY DEF EnqueueOutbox, NextRowid, Live
  <1>2. /\ idOf'[m] = id /\ \A n \in Msgs \ {m} : idOf'[n] = idOf[n]
        /\ rows'[id] # None => rows'[id].msg = m
        /\ \A j \in Ids \ {id} : rows'[j] = rows[j]
    BY DEF EnqueueOutbox, TypeOK
  <1>3. RowsNamed'
    <2> SUFFICES ASSUME NEW j \in Ids, rows'[j] # None PROVE idOf'[rows'[j].msg] = j
      BY DEF RowsNamed
    <2>1. CASE j = id
      BY <2>1, <1>2
    <2>2. CASE j # id
      <3>1. rows[j].msg \in Msgs /\ idOf[rows[j].msg] = j
        BY <2>2, <1>2 DEF LossInv, RowsNamed, TypeOK, Row
      <3>2. rows[j].msg # m
        BY <3>1
      <3> QED BY <2>2, <1>2, <3>1, <3>2
    <2> QED BY <2>1, <2>2
  <1>4. EntriesNamed'
    <2>1. ASSUME NEW e \in Entry, idOf[e.msg] = e.id PROVE idOf'[e.msg] = e.id
      <3>1. e.msg \in Msgs /\ e.id \in Ids
        BY DEF Entry
      <3>2. e.msg # m
        BY <2>1, <3>1
      <3> QED BY <2>1, <3>1, <3>2, <1>2
    <2>2. \A a \in Accounts : \A e \in batch[a] : e \in Entry
      BY DEF TypeOK
    <2>3. \A w \in Workers : job[w] # None => job[w] \in Entry
      BY DEF TypeOK
    <2> QED BY <2>1, <2>2, <2>3 DEF LossInv, EntriesNamed
  <1>5. ConfirmedDelivered'
    BY DEF LossInv, ConfirmedDelivered
  <1>6. LossNeedsRowidReuse'
    <2> SUFFICES ASSUME NEW n \in Msgs, idOf'[n] # 0, Unreused(n)' PROVE Accounted(n)'
      BY DEF LossNeedsRowidReuse
    <2>1. CASE n = m
      <3>1. rows'[id] = [msg |-> m, retry |-> 0, when |-> "now"]
        BY DEF EnqueueOutbox, TypeOK
      <3>2. rows'[id] \in Row
        BY <3>1 DEF Row
      <3> QED BY <2>1, <3>1, <3>2 DEF Accounted, HasRow
    <2>2. CASE n # m
      <3>1. idOf[n] # 0 /\ Unreused(n)
        BY <2>2, <1>2 DEF Unreused
      <3>2. Accounted(n)
        BY <3>1 DEF LossInv, LossNeedsRowidReuse
      <3>3. HasRow(n) => HasRow(n)'
        BY <1>1, <1>2 DEF HasRow
      <3> QED BY <3>2, <3>3 DEF Accounted
    <2> QED BY <2>1, <2>2
  <1> QED BY <1>3, <1>4, <1>5, <1>6 DEF LossInv

(***************************************************************************)
(* A DELETE by rowid removes the row of the message the rowid was given    *)
(* to, or of one that shares the rowid; so it is harmless when that        *)
(* message is delivered or recalled.                                       *)
(***************************************************************************)
LEMMA DeleteLoss ==
    ASSUME TypeOK, LossInv, NEW m \in Msgs, rows' = MarkOutboxSent(idOf[m]),
           UNCHANGED idOf, delivered \subseteq delivered', recalled \subseteq recalled',
           m \in delivered' \/ m \in recalled'
    PROVE  RowsNamed' /\ LossNeedsRowidReuse'
  <1>1. \A j \in Ids : rows'[j] # None => rows'[j] = rows[j] /\ rows[j] # None
    BY DEF MarkOutboxSent, TypeOK
  <1>2. \A j \in Ids : j # idOf[m] => rows'[j] = rows[j]
    BY DEF MarkOutboxSent, TypeOK
  <1>3. RowsNamed'
    BY <1>1 DEF LossInv, RowsNamed
  <1>4. LossNeedsRowidReuse'
    <2> SUFFICES ASSUME NEW n \in Msgs, idOf[n] # 0, Unreused(n), n # m PROVE Accounted(n)'
      BY DEF LossNeedsRowidReuse, Unreused, Accounted
    <2>1. Accounted(n)
      BY DEF LossInv, LossNeedsRowidReuse
    <2>2. ASSUME NEW j \in Ids, rows[j] # None, rows[j].msg = n PROVE rows'[j] = rows[j]
      <3>1. idOf[n] = j
        BY <2>2 DEF LossInv, RowsNamed
      <3>2. idOf[m] # j
        BY <3>1 DEF Unreused
      <3> QED BY <3>2, <1>2
    <2> QED BY <2>1, <2>2 DEF Accounted, HasRow
  <1> QED BY <1>3, <1>4

\* An UPDATE by rowid keeps the message of the row.
LEMMA FailLoss ==
    ASSUME TypeOK, LossInv, NEW id \in Ids, rows' = MarkOutboxFailed(id),
           UNCHANGED <<idOf, delivered, recalled>>
    PROVE  RowsNamed' /\ LossNeedsRowidReuse'
  <1>1. ASSUME NEW j \in Ids
        PROVE  (rows'[j] # None <=> rows[j] # None) /\ (rows[j] # None => rows'[j].msg = rows[j].msg)
    <2>1. CASE j = id /\ rows[id] # None
      <3>1. rows'[j] \in Row /\ rows'[j].msg = rows[j].msg
        BY <2>1 DEF MarkOutboxFailed, TypeOK, Row
      <3> QED BY <2>1, <3>1, OutboxAssumption
    <2>2. CASE ~(j = id /\ rows[id] # None)
      BY <2>2 DEF MarkOutboxFailed, TypeOK
    <2> QED BY <2>1, <2>2
  <1>2. RowsNamed'
    BY <1>1 DEF LossInv, RowsNamed
  <1>3. LossNeedsRowidReuse'
    BY <1>1 DEF LossInv, LossNeedsRowidReuse, Unreused, Accounted, HasRow
  <1> QED BY <1>2, <1>3

LEMMA NextLoss == TypeOK /\ LossInv /\ [Next]_vars => LossInv'
  <1> SUFFICES ASSUME TypeOK, LossInv, [Next]_vars PROVE LossInv'
    OBVIOUS
  <1> USE OutboxAssumption
  <1>1. ASSUME NEW m \in Msgs, EnqueueDraft(m) PROVE LossInv'
    BY <1>1, EnqueueLoss DEF EnqueueDraft, procVars, sentVars
  <1>2. ASSUME NEW m \in Msgs, ArmUndoSend(m) PROVE LossInv'
    BY <1>2, QuietLoss DEF ArmUndoSend, procVars, sentVars, histVars
  <1>3. ASSUME NEW m \in Msgs, CommitSend(m) PROVE LossInv'
    BY <1>3, QuietLoss DEF CommitSend, sentVars, histVars
  <1>4. ASSUME NEW m \in Msgs, RecallSend(m) PROVE LossInv'
    <2>1. RowsNamed' /\ LossNeedsRowidReuse'
      BY <1>4, DeleteLoss DEF RecallSend, sentVars
    <2> QED BY <1>4, <2>1 DEF RecallSend, procVars, sentVars, LossInv, EntriesNamed,
                ConfirmedDelivered
  <1>5. ASSUME Unsubscribe \/ Notify \/ SnackbarStep PROVE LossInv'
    BY <1>5, QuietLoss DEF Unsubscribe, Notify, SnackbarStep, procVars, sentVars, histVars
  <1>6. ASSUME DequeueCmd \/ UnsubscribeFails PROVE LossInv'
    BY <1>6, QuietLoss DEF DequeueCmd, UnsubscribeFails, sentVars, histVars
  <1>7. ASSUME NEW m \in Msgs, ExecUnsubscribe(m) PROVE LossInv'
    BY <1>7, EnqueueLoss DEF ExecUnsubscribe, sentVars
  <1>8. ASSUME ExecSend PROVE LossInv'
    <2>1. CASE loopCmd.id \in Live
      <3>1. EntryAt(loopCmd.id).msg = rows[loopCmd.id].msg /\ EntryAt(loopCmd.id).id = loopCmd.id
        BY DEF EntryAt
      <3>2. EntriesNamed'
        BY <1>8, <2>1, <3>1
           DEF ExecSend, LossInv, RowsNamed, EntriesNamed, Live, TypeOK, histVars, Workers
      <3>3. ConfirmedDelivered'
        BY <1>8, <2>1 DEF ExecSend, LossInv, ConfirmedDelivered, TypeOK, sentVars, Workers
      <3> QED BY <1>8, <3>2, <3>3 DEF ExecSend, LossInv, RowsNamed, LossNeedsRowidReuse,
                Unreused, Accounted, HasRow, sentVars, histVars
    <2>2. CASE loopCmd.id \notin Live
      BY <1>8, <2>2, QuietLoss DEF ExecSend, sentVars, histVars
    <2> QED BY <2>1, <2>2
  <1>9. ASSUME NEW a \in Accounts, ProcessOutbox(a) PROVE LossInv'
    <2>1. \A e \in DueOutbox(a) : idOf[e.msg] = e.id
      BY DEF DueOutbox, EntryAt, Live, LossInv, RowsNamed
    <2>2. EntriesNamed'
      BY <1>9, <2>1 DEF ProcessOutbox, LossInv, EntriesNamed, TypeOK, histVars
    <2> QED BY <1>9, <2>2 DEF ProcessOutbox, LossInv, RowsNamed, ConfirmedDelivered,
                LossNeedsRowidReuse, Unreused, Accounted, HasRow, sentVars, histVars
  <1>10. ASSUME NEW a \in Accounts, ProcessNext(a) PROVE LossInv'
    <2>1. EntriesNamed'
      BY <1>10 DEF ProcessNext, LossInv, EntriesNamed, TypeOK, histVars, Workers
    <2>2. ConfirmedDelivered'
      BY <1>10 DEF ProcessNext, LossInv, ConfirmedDelivered, TypeOK, sentVars, Workers
    <2> QED BY <1>10, <2>1, <2>2 DEF ProcessNext, LossInv, RowsNamed, LossNeedsRowidReuse,
                Unreused, Accounted, HasRow, sentVars, histVars
  <1>11. ASSUME NEW w \in Workers, SendEntry(w) PROVE LossInv'
    <2>1. ConfirmedDelivered'
      BY <1>11 DEF SendEntry, Dialogue, LossInv, ConfirmedDelivered, TypeOK
    <2> QED BY <1>11, <2>1 DEF SendEntry, Dialogue, LossInv, RowsNamed, EntriesNamed,
                LossNeedsRowidReuse, Unreused, Accounted, HasRow, histVars
  <1>16. ASSUME NEW m \in Msgs, LateSend(m) PROVE LossInv'
    BY <1>16 DEF LateSend, Dialogue, LossInv, RowsNamed, EntriesNamed, ConfirmedDelivered,
                 LossNeedsRowidReuse, Unreused, Accounted, HasRow, histVars
  <1>17. ASSUME NEW w \in Workers, MarkFails(w) PROVE LossInv'
    <2>1. EntriesNamed' /\ ConfirmedDelivered'
      BY <1>17 DEF MarkFails, Finish, TypeOK, LossInv, EntriesNamed, ConfirmedDelivered, sentVars
    <2> QED BY <1>17, <2>1 DEF MarkFails, LossInv, RowsNamed, LossNeedsRowidReuse, Unreused,
                Accounted, HasRow, sentVars
  <1>18. ASSUME NEW a \in Accounts, ExecUpdateCredential(a) PROVE LossInv'
    <2>1. EntriesNamed' /\ ConfirmedDelivered'
      BY <1>18 DEF ExecUpdateCredential, TypeOK, LossInv, EntriesNamed, ConfirmedDelivered, sentVars,
                   Workers
    <2> QED BY <1>18, <2>1 DEF ExecUpdateCredential, LossInv, RowsNamed, LossNeedsRowidReuse,
                Unreused, Accounted, HasRow, sentVars
  <1>12. ASSUME NEW w \in Workers, RecordResult(w) PROVE LossInv'
    <2>1. /\ job[w].msg \in Msgs /\ job[w].id \in Ids
          /\ idOf[job[w].msg] = job[w].id
      BY <1>12 DEF RecordResult, TypeOK, Entry, LossInv, EntriesNamed
    <2>2. EntriesNamed' /\ ConfirmedDelivered'
      BY <1>12 DEF RecordResult, Finish, TypeOK, LossInv, EntriesNamed, ConfirmedDelivered,
                   histVars
    <2>3. CASE res[w] = "confirmed"
      <3>1. rows' = MarkOutboxSent(idOf[job[w].msg]) /\ job[w].msg \in delivered
        BY <1>12, <2>1, <2>3 DEF RecordResult, LossInv, ConfirmedDelivered
      <3>2. RowsNamed' /\ LossNeedsRowidReuse'
        BY <1>12, <2>1, <3>1, DeleteLoss DEF RecordResult, histVars
      <3> QED BY <2>2, <3>2 DEF LossInv
    <2>4. CASE res[w] # "confirmed"
      <3>1. RowsNamed' /\ LossNeedsRowidReuse'
        BY <1>12, <2>1, <2>4, FailLoss DEF RecordResult, histVars
      <3> QED BY <2>2, <3>1 DEF LossInv
    <2> QED BY <2>3, <2>4
  <1>13. ASSUME NEW id \in Ids, BackoffElapses(id) PROVE LossInv'
    <2>1. rows[id] \in Row /\ rows[id] # None
      BY <1>13 DEF BackoffElapses, Live, TypeOK
    <2>2. [rows[id] EXCEPT !.when = "now"] \in Row
          /\ [rows[id] EXCEPT !.when = "now"].msg = rows[id].msg
      BY <2>1 DEF Row
    <2>3. ASSUME NEW j \in Ids
          PROVE  (rows'[j] # None <=> rows[j] # None) /\ (rows[j] # None => rows'[j].msg = rows[j].msg)
      BY <1>13, <2>1, <2>2 DEF BackoffElapses, TypeOK
    <2> QED BY <1>13, <2>3 DEF BackoffElapses, LossInv, RowsNamed, EntriesNamed,
                ConfirmedDelivered, LossNeedsRowidReuse, Unreused, Accounted, HasRow,
                procVars, sentVars, histVars
  <1>14. ASSUME CrashRestart PROVE LossInv'
    BY <1>14 DEF CrashRestart, LossInv, RowsNamed, EntriesNamed, ConfirmedDelivered,
                 LossNeedsRowidReuse, Unreused, Accounted, HasRow, sentVars
  <1>15. ASSUME UNCHANGED vars PROVE LossInv'
    BY <1>15, QuietLoss DEF vars, procVars, sentVars, histVars
  <1> QED
    BY <1>1, <1>2, <1>3, <1>4, <1>5, <1>6, <1>7, <1>8, <1>9, <1>10, <1>11, <1>12, <1>13,
       <1>14, <1>15, <1>16, <1>17, <1>18
       DEF Next, UserStep, LoopStep, SchedulerStep, Workers

(***************************************************************************)
(* A queued message is lost only if its rowid was given to another message *)
(* as well: for every instance of the constants, a message with a rowid of *)
(* its own stays in the table until it is delivered or recalled.           *)
(***************************************************************************)
THEOREM NoLossWithoutReuse == Spec => []LossNeedsRowidReuse
  <1>1. Spec => [](TypeOK /\ LossInv)
    BY TypeCorrect, InitLoss, NextLoss, PTL DEF Spec
  <1>2. LossInv => LossNeedsRowidReuse
    BY DEF LossInv
  <1> QED BY <1>1, <1>2, PTL
-----------------------------------------------------------------------------
(***************************************************************************)
(* What the two bounds count: the confirmed copies, those a cancelled      *)
(* scheduler may still make included; and the deaths, failed marks and     *)
(* credential updates.                                                     *)
(***************************************************************************)
Copies(m) == clean[m] + late[m]
Mishaps == crashes + faults

(***************************************************************************)
(* The two bounds.  A scheduler's snapshots are of its own account's       *)
(* messages, one for each, and a message without a rowid was never sent.   *)
(***************************************************************************)
SnapshotsOwn ==
    \A a \in Accounts :
        /\ \A e \in batch[a] : AcctOf[e.msg] = a /\ (job[a] # None => job[a].msg # e.msg)
        /\ \A e, f \in batch[a] : e.msg = f.msg => e = f
        /\ job[a] # None => AcctOf[job[a].msg] = a

OutcomesHeld == \A w \in Workers : res[w] # "none" => job[w] # None

UnsentIsNew == \A m \in Msgs : idOf[m] = 0 => auto[m] = 0 /\ Copies(m) = 0

HeldInv == SnapshotsOwn /\ OutcomesHeld /\ UnsentIsNew

(***************************************************************************)
(* What the worker w does with m: a snapshot it has yet to send, one it    *)
(* has taken and not recorded, a confirmed one.                            *)
(***************************************************************************)
Sending(w, m) == job[w] # None /\ job[w].msg = m /\ res[w] = "none"
Uncharged(w, m) == job[w] # None /\ job[w].msg = m
Snapped(m) == \E e \in batch[AcctOf[m]] : e.msg = m
Waiting(m) == Sending(AcctOf[m], m) \/ Snapped(m)

(***************************************************************************)
(* Retries: an attempt of the scheduler is charged to the row, or is about *)
(* to be, or a mishap cut it off; a snapshot has budget left.              *)
(***************************************************************************)
RowsCharged ==
    \A id \in Ids : rows[id] # None =>
        LET m == rows[id].msg IN
        auto[m] <= rows[id].retry + Mishaps + (IF Uncharged(AcctOf[m], m) THEN 1 ELSE 0)

SnapshotsHaveBudget == \A m \in Msgs : Snapped(m) => auto[m] < MaxRetries + Mishaps

AttemptsBounded == \A m \in Msgs : auto[m] <= MaxRetries + Mishaps

AutoInv == RowsCharged /\ SnapshotsHaveBudget /\ AttemptsBounded

(***************************************************************************)
(* Copies: while the row is there, each confirmed copy is about to be      *)
(* recorded or a mishap cut it off; and once the process died the loop     *)
(* never gets the message's rowid again.                                   *)
(***************************************************************************)
InWindow(m) == m \in arming \/ current = m \/ Window!CommitOf(m) \in tasks

Commanded(id) ==
    \/ loopCmd # None /\ loopCmd.kind = "send" /\ loopCmd.id = id
    \/ \E i \in 1..Len(cmdQ) : cmdQ[i].kind = "send" /\ cmdQ[i].id = id

Reaches(m) == Commanded(idOf[m]) \/ \E n \in Msgs : idOf[n] = idOf[m] /\ InWindow(n)

Confirmed(w, m) == IF job[w] # None /\ job[w].msg = m /\ res[w] = "confirmed" THEN 1 ELSE 0

LoopHolds == job[Loop] # None => loopCmd # None /\ loopCmd.kind = "send" /\ loopCmd.id = job[Loop].id

RowsConfirmed ==
    \A m \in Msgs : HasRow(m) =>
        Copies(m) <= Mishaps + Confirmed(AcctOf[m], m) + Confirmed(Loop, m) + (IF Reaches(m) THEN 0 ELSE 1)

CopiesToCome ==
    \A m \in Msgs : Copies(m) + (IF Waiting(m) THEN 1 ELSE 0) + (IF Sending(Loop, m) THEN 1 ELSE 0) <= 2 + Mishaps

CopyInv == LoopHolds /\ RowsConfirmed /\ CopiesToCome

(***************************************************************************)
(* What a step may do to the table and to the workers.  Rows are inserted  *)
(* once for each message, and otherwise only go or age.                    *)
(***************************************************************************)
RowsAge ==
    \A j \in Ids : rows'[j] # None =>
        /\ rows[j] # None /\ rows'[j].msg = rows[j].msg
        /\ rows[j].retry \in Nat /\ rows'[j].retry \in Nat /\ rows'[j].retry >= rows[j].retry

Still == RowsAge /\ UNCHANGED <<batch, job, res, auto, clean, late, idOf, crashes, faults>>

Inserts(m, id) ==
    /\ idOf[m] = 0 /\ EnqueueOutbox(m, id)
    /\ UNCHANGED <<batch, job, res, auto, clean, late, crashes, faults>>

\* A worker is cut off from its entry: a mark failed, or its scheduler was cancelled.
CutOff(w) ==
    /\ job'[w] = None /\ res'[w] = "none"
    /\ \A v \in Workers : v # w => job'[v] = job[v] /\ res'[v] = res[v]
    /\ \A a \in Accounts : batch'[a] \subseteq batch[a]
    /\ \A m \in Msgs : late'[m] = late[m] + (IF Sending(w, m) THEN 1 ELSE 0)
    /\ Mishaps' = Mishaps + 1
    /\ UNCHANGED <<rows, auto, clean, idOf>>

LEMMA SameAges == ASSUME TypeOK, UNCHANGED rows PROVE RowsAge
  <1>1. \A j \in Ids : rows[j] # None => rows[j].retry \in Nat
    BY DEF TypeOK, Row
  <1> QED BY <1>1 DEF RowsAge

LEMMA MarksAge ==
    ASSUME TypeOK, NEW id \in Ids,
           \/ rows' = MarkOutboxSent(id) \/ rows' = MarkOutboxFailed(id)
           \/ BackoffElapses(id)
    PROVE  RowsAge
  <1> SUFFICES ASSUME NEW j \in Ids, rows'[j] # None
               PROVE  /\ rows[j] # None /\ rows'[j].msg = rows[j].msg
                      /\ rows[j].retry \in Nat /\ rows'[j].retry \in Nat /\ rows'[j].retry >= rows[j].retry
    BY DEF RowsAge
  <1>1. rows[j] # None => rows[j].retry \in Nat
    BY DEF TypeOK, Row
  <1>2. CASE j # id \/ rows[id] = None
    <2>1. rows'[j] = rows[j]
      BY <1>2 DEF TypeOK, MarkOutboxSent, MarkOutboxFailed, BackoffElapses, Live
    <2> QED BY <1>1, <2>1
  <1>3. CASE j = id /\ rows[id] # None
    <2>1. rows[id] \in Row
      BY <1>3 DEF TypeOK
    <2>2. CASE rows' = MarkOutboxSent(id)
      BY <1>3, <2>2 DEF TypeOK, MarkOutboxSent
    <2>3. CASE rows' = MarkOutboxFailed(id)
      <3>1. rows'[id] = [msg |-> rows[id].msg, retry |-> rows[id].retry + 1, when |-> "later"]
        BY <1>3, <2>3 DEF TypeOK, MarkOutboxFailed
      <3> QED BY <1>1, <1>3, <3>1
    <2>4. CASE BackoffElapses(id)
      <3>1. rows'[id] = [rows[id] EXCEPT !.when = "now"]
        BY <1>3, <2>4 DEF TypeOK, BackoffElapses
      <3> QED BY <1>1, <1>3, <2>1, <3>1 DEF Row
    <2> QED BY <2>2, <2>3, <2>4
  <1> QED BY <1>2, <1>3

Effect ==
    \/ Still
    \/ \E m \in Msgs, id \in Ids : Inserts(m, id)
    \/ ExecSend /\ loopCmd.id \in Live
    \/ \E a \in Accounts : ProcessOutbox(a) \/ ProcessNext(a)
    \/ \E w \in Workers : SendEntry(w) \/ RecordResult(w) \/ CutOff(w)
    \/ \E m \in Msgs : LateSend(m)
    \/ CrashRestart

LEMMA CutOffs ==
    ASSUME TypeOK, NEW w \in Workers, MarkFails(w) \/ (w \in Accounts /\ ExecUpdateCredential(w))
    PROVE  CutOff(w)
  <1>1. /\ job'[w] = None /\ res'[w] = "none"
        /\ \A v \in Workers : v # w => job'[v] = job[v] /\ res'[v] = res[v]
    BY DEF MarkFails, ExecUpdateCredential, Finish, TypeOK
  <1>2. \A a \in Accounts : batch'[a] \subseteq batch[a]
    BY DEF MarkFails, ExecUpdateCredential, TypeOK
  <1>3. \A m \in Msgs : late'[m] = late[m] + (IF Sending(w, m) THEN 1 ELSE 0)
    <2>1. CASE MarkFails(w)
      BY <2>1 DEF MarkFails, Sending, TypeOK
    <2>2. CASE ExecUpdateCredential(w)
      BY <2>2 DEF ExecUpdateCredential, Sending, TypeOK, Entry
    <2> QED BY <2>1, <2>2
  <1>4. Mishaps' = Mishaps + 1 /\ UNCHANGED <<rows, auto, clean, idOf>>
    BY DEF MarkFails, ExecUpdateCredential, TypeOK, Mishaps, sentVars
  <1> QED BY <1>1, <1>2, <1>3, <1>4 DEF CutOff

LEMMA Effects == ASSUME TypeOK, [Next]_vars PROVE Effect
  <1> USE DEF procVars, sentVars, histVars
  <1>1. ASSUME NEW m \in Msgs, EnqueueDraft(m) \/ ExecUnsubscribe(m) PROVE Effect
    BY <1>1 DEF EnqueueDraft, ExecUnsubscribe, Inserts, Effect
  <1>2. ASSUME UNCHANGED <<rows, batch, job, res, auto, clean, late, idOf, crashes, faults>> PROVE Effect
    BY <1>2, SameAges DEF Still, Effect
  <1>3. ASSUME NEW m \in Msgs, ArmUndoSend(m) \/ CommitSend(m) PROVE Effect
    BY <1>2, <1>3 DEF ArmUndoSend, CommitSend
  <1>4. ASSUME NEW m \in Msgs, RecallSend(m) PROVE Effect
    <2>1. CASE idOf[m] \in Ids
      BY <1>4, <2>1, MarksAge DEF RecallSend, Still, Effect
    <2>2. CASE idOf[m] \notin Ids
      <3>1. rows' = rows
        BY <1>4, <2>2 DEF RecallSend, MarkOutboxSent, TypeOK
      <3> QED BY <1>4, <3>1, <1>2 DEF RecallSend
    <2> QED BY <2>1, <2>2
  <1>5. CASE Unsubscribe \/ Notify \/ SnackbarStep \/ DequeueCmd \/ UnsubscribeFails \/ UNCHANGED vars
    BY <1>5, <1>2 DEF Unsubscribe, Notify, SnackbarStep, DequeueCmd, UnsubscribeFails, vars
  <1>6. CASE ExecSend
    BY <1>6, <1>2 DEF ExecSend, Effect
  <1>7. ASSUME NEW id \in Ids, BackoffElapses(id) PROVE Effect
    BY <1>7, MarksAge DEF BackoffElapses, Still, Effect
  <1>8. ASSUME NEW w \in Workers, SendEntry(w) \/ RecordResult(w) PROVE Effect
    BY <1>8 DEF Effect
  <1>9. ASSUME NEW a \in Accounts, ProcessOutbox(a) \/ ProcessNext(a) PROVE Effect
    BY <1>9 DEF Effect
  <1>10. CASE CrashRestart \/ \E m \in Msgs : LateSend(m)
    BY <1>10 DEF Effect
  <1>11. ASSUME NEW w \in Workers, MarkFails(w) \/ (w \in Accounts /\ ExecUpdateCredential(w)) PROVE Effect
    BY <1>11, CutOffs DEF Effect
  <1> QED BY <1>1, <1>3, <1>4, <1>5, <1>6, <1>7, <1>8, <1>9, <1>10, <1>11
      DEF Next, UserStep, LoopStep, SchedulerStep, Workers

(***************************************************************************)
(* The rows of a message are the ones its rowid names.                     *)
(***************************************************************************)
LEMMA OneRow ==
    ASSUME TypeOK, RowsNamed, NEW j \in Ids, rows[j] # None
    PROVE  rows[j].msg \in Msgs /\ idOf[rows[j].msg] = j /\ rows[j].retry \in Nat
  BY DEF TypeOK, RowsNamed, Row

LEMMA InsertIs ==
    ASSUME TypeOK, NEW m \in Msgs, NEW id \in Ids, Inserts(m, id)
    PROVE  /\ rows[id] = None /\ rows'[id] # None /\ rows'[id].msg = m /\ rows'[id].retry = 0
           /\ idOf'[m] = id /\ \A n \in Msgs : n # m => idOf'[n] = idOf[n]
           /\ \A j \in Ids : j # id => rows'[j] = rows[j]
  <1>1. rows[id] = None
    BY DEF Inserts, EnqueueOutbox, NextRowid, Live, Ids
  <1>2. rows'[id] = [msg |-> m, retry |-> 0, when |-> "now"]
    BY DEF Inserts, EnqueueOutbox, TypeOK
  <1>3. rows'[id] \in Row
    BY <1>2 DEF Row
  <1>4. idOf'[m] = id /\ \A n \in Msgs : n # m => idOf'[n] = idOf[n]
    BY DEF Inserts, EnqueueOutbox, TypeOK
  <1>5. \A j \in Ids : j # id => rows'[j] = rows[j]
    BY DEF Inserts, EnqueueOutbox, TypeOK
  <1> QED BY <1>1, <1>2, <1>3, <1>4, <1>5, OutboxAssumption

LEMMA TakeIs ==
    ASSUME TypeOK, ExecSend, loopCmd.id \in Live
    PROVE  /\ job[Loop] = None /\ job'[Loop] # None
           /\ job'[Loop].msg = rows[loopCmd.id].msg /\ job'[Loop].id = loopCmd.id
           /\ \A w \in Workers : w # Loop => job'[w] = job[w]
           /\ loopCmd # None /\ loopCmd.kind = "send"
           /\ UNCHANGED <<rows, loopCmd, cmdQ, batch, res, arming, windowVars, auto, clean, late, idOf, crashes, faults>>
  <1>1. job' = [job EXCEPT ![Loop] = EntryAt(loopCmd.id)] /\ Loop \in Workers
    BY DEF ExecSend, Workers
  <1>2. EntryAt(loopCmd.id) \in Entry
    BY EntryAtType
  <1>3. EntryAt(loopCmd.id) # None
    BY <1>2, OutboxAssumption
  <1>4. EntryAt(loopCmd.id).msg = rows[loopCmd.id].msg /\ EntryAt(loopCmd.id).id = loopCmd.id
    BY DEF EntryAt
  <1> QED BY <1>1, <1>2, <1>3, <1>4 DEF ExecSend, TypeOK, sentVars, histVars

LEMMA PassIs ==
    ASSUME TypeOK, NEW a \in Accounts, ProcessOutbox(a)
    PROVE  /\ job[a] = None /\ \A b \in Accounts : b # a => batch'[b] = batch[b]
           /\ \A e \in batch'[a] : \E id \in Ids :
                /\ rows[id] # None /\ e = EntryAt(id) /\ e.id = id /\ e.msg = rows[id].msg
                /\ rows[id].retry < MaxRetries /\ AcctOf[e.msg] = a
           /\ UNCHANGED <<rows, loopCmd, cmdQ, job, res, arming, windowVars, auto, clean, late, idOf, crashes, faults>>
  <1>1. batch'[a] = DueOutbox(a) /\ \A b \in Accounts : b # a => batch'[b] = batch[b]
    BY DEF ProcessOutbox, TypeOK
  <1>2. \A id : EntryAt(id).id = id /\ EntryAt(id).msg = rows[id].msg
    BY DEF EntryAt
  <1>3. \A e \in DueOutbox(a) : \E id \in Ids :
                /\ rows[id] # None /\ e = EntryAt(id)
                /\ rows[id].retry < MaxRetries /\ AcctOf[rows[id].msg] = a
    BY DEF DueOutbox, Live
  <1> QED BY <1>1, <1>2, <1>3 DEF ProcessOutbox, sentVars, histVars

LEMMA NextIs ==
    ASSUME TypeOK, NEW a \in Accounts, ProcessNext(a)
    PROVE  \E e \in batch[a] :
             /\ job[a] = None /\ e # None /\ e.msg \in Msgs /\ job'[a] = e
             /\ \A w \in Workers : w # a => job'[w] = job[w]
             /\ batch'[a] = batch[a] \ {e} /\ \A b \in Accounts : b # a => batch'[b] = batch[b]
             /\ auto'[e.msg] = auto[e.msg] + 1 /\ \A n \in Msgs : n # e.msg => auto'[n] = auto[n]
             /\ UNCHANGED <<rows, loopCmd, cmdQ, res, arming, windowVars, clean, late, idOf, crashes, faults>>
  <1>1. PICK e \in batch[a] : /\ job' = [job EXCEPT ![a] = e]
                              /\ batch' = [batch EXCEPT ![a] = @ \ {e}]
                              /\ auto' = [auto EXCEPT ![e.msg] = @ + 1]
    BY DEF ProcessNext
  <1>2. e \in Entry /\ e # None /\ e.msg \in Msgs /\ a \in Workers
    BY OutboxAssumption DEF TypeOK, Entry, Workers
  <1> QED BY <1>1, <1>2 DEF ProcessNext, TypeOK, sentVars, histVars

LEMMA SendIs ==
    ASSUME TypeOK, NEW w \in Workers, SendEntry(w)
    PROVE  LET m == job[w].msg IN
           /\ m \in Msgs /\ job[w].id \in Ids /\ job[w] # None /\ res[w] = "none" /\ res'[w] # "none"
           /\ \A v \in Workers : v # w => res'[v] = res[v]
           /\ clean'[m] = clean[m] + (IF res'[w] = "confirmed" THEN 1 ELSE 0)
           /\ \A n \in Msgs : n # m => clean'[n] = clean[n]
           /\ UNCHANGED <<rows, loopCmd, cmdQ, batch, job, arming, windowVars, auto, late, idOf, crashes, faults>>
  <1> DEFINE m == job[w].msg
  <1>1. m \in Msgs /\ job[w].id \in Ids /\ job[w] # None /\ res[w] = "none"
    BY DEF TypeOK, SendEntry, Entry
  <1>2. PICK o \in SmtpOutcomes :
          /\ res' = [res EXCEPT ![w] = o]
          /\ clean' = IF o = "confirmed" THEN [clean EXCEPT ![m] = @ + 1] ELSE clean
    BY DEF SendEntry, Dialogue
  <1>3. res'[w] = o /\ o # "none" /\ \A v \in Workers : v # w => res'[v] = res[v]
    BY <1>2 DEF TypeOK, SmtpOutcomes
  <1>4. /\ clean'[m] = clean[m] + (IF o = "confirmed" THEN 1 ELSE 0)
        /\ \A n \in Msgs : n # m => clean'[n] = clean[n]
    BY <1>1, <1>2 DEF TypeOK
  <1> QED BY <1>1, <1>3, <1>4 DEF SendEntry, histVars

LEMMA LateIs ==
    ASSUME TypeOK, NEW m \in Msgs, LateSend(m)
    PROVE  /\ late[m] > 0 /\ late'[m] = late[m] - 1 /\ clean'[m] \in {clean[m], clean[m] + 1}
           /\ \A n \in Msgs : n # m => late'[n] = late[n] /\ clean'[n] = clean[n]
           /\ UNCHANGED <<rows, loopCmd, cmdQ, batch, job, res, arming, windowVars, auto, idOf, crashes, faults>>
  BY DEF LateSend, Dialogue, TypeOK, histVars

LEMMA RecordIs ==
    ASSUME TypeOK, EntriesNamed, NEW w \in Workers, RecordResult(w)
    PROVE  LET m == job[w].msg IN
           /\ m \in Msgs /\ idOf[m] \in Ids /\ job[w] # None /\ RowsAge
           /\ res[w] = "confirmed" => rows'[idOf[m]] = None
           /\ res[w] # "confirmed" /\ rows[idOf[m]] # None =>
                rows'[idOf[m]].retry = rows[idOf[m]].retry + 1
           /\ job'[w] = None /\ res'[w] = "none"
           /\ \A v \in Workers : v # w => job'[v] = job[v] /\ res'[v] = res[v]
           /\ w # Loop => UNCHANGED loopCmd
           /\ UNCHANGED <<cmdQ, batch, arming, windowVars, auto, clean, late, idOf, crashes, faults>>
  <1> DEFINE m == job[w].msg
             id == job[w].id
  <1>1. m \in Msgs /\ id \in Ids /\ job[w] # None /\ idOf[m] = id
    BY DEF TypeOK, RecordResult, Entry, EntriesNamed
  <1>2. RowsAge
    BY <1>1, MarksAge DEF RecordResult
  <1>3. res[w] = "confirmed" => rows'[id] = None
    BY <1>1 DEF RecordResult, MarkOutboxSent, TypeOK
  <1>4. ASSUME res[w] # "confirmed", rows[id] # None PROVE rows'[id].retry = rows[id].retry + 1
    <2>1. rows'[id] = [msg |-> rows[id].msg, retry |-> rows[id].retry + 1, when |-> "later"]
      BY <1>1, <1>4 DEF RecordResult, MarkOutboxFailed, TypeOK
    <2> QED BY <2>1
  <1>5. /\ job'[w] = None /\ res'[w] = "none"
        /\ \A v \in Workers : v # w => job'[v] = job[v] /\ res'[v] = res[v]
        /\ w # Loop => UNCHANGED loopCmd
    BY DEF RecordResult, Finish, TypeOK
  <1> QED BY <1>1, <1>2, <1>3, <1>4, <1>5 DEF RecordResult, histVars

(***************************************************************************)
(* The snapshots stay the scheduler's own.                                 *)
(***************************************************************************)
LEMMA HeldInit == Init => HeldInv
  BY OutboxAssumption DEF Init, HeldInv, SnapshotsOwn, OutcomesHeld, UnsentIsNew, Copies, Workers

LEMMA HeldStep ==
    ASSUME TypeOK, RowsNamed, EntriesNamed, HeldInv, Effect PROVE HeldInv'
  <1>a. SnapshotsOwn /\ OutcomesHeld /\ UnsentIsNew
    BY DEF HeldInv
  <1>b. Loop \in Workers /\ Loop \notin Accounts /\ Accounts \subseteq Workers /\ 0 \notin Ids
    BY OutboxAssumption DEF Workers, Ids
  <1>c. \A a \in Accounts : \A e \in batch[a] : e \in Entry /\ e.id \in Ids /\ e.msg \in Msgs
    BY DEF TypeOK, Entry
  <1>d. \A m \in Msgs : clean[m] \in Nat /\ late[m] \in Nat
    BY DEF TypeOK
  <1>1. CASE Still
    BY <1>1, <1>a DEF Still, HeldInv, SnapshotsOwn, OutcomesHeld, UnsentIsNew, Copies
  <1>2. ASSUME NEW m \in Msgs, NEW id \in Ids, Inserts(m, id) PROVE HeldInv'
    <2>1. UNCHANGED <<batch, job, res, auto, clean, late>>
      BY <1>2 DEF Inserts
    <2>2. SnapshotsOwn' /\ OutcomesHeld'
      BY <1>a, <2>1 DEF SnapshotsOwn, OutcomesHeld
    <2>3. UnsentIsNew'
      BY <1>2, <1>a, <1>b, <2>1, InsertIs DEF UnsentIsNew, Copies
    <2> QED BY <2>2, <2>3 DEF HeldInv
  <1>3. CASE ExecSend /\ loopCmd.id \in Live
    <2>1. /\ job'[Loop] # None /\ UNCHANGED <<batch, res, auto, clean, late, idOf>>
          /\ \A w \in Workers : w # Loop => job'[w] = job[w]
      BY <1>3, TakeIs
    <2>2. SnapshotsOwn'
      BY <1>a, <1>b, <2>1 DEF SnapshotsOwn
    <2>3. OutcomesHeld' /\ UnsentIsNew'
      BY <1>a, <2>1 DEF OutcomesHeld, UnsentIsNew, Copies
    <2> QED BY <2>2, <2>3 DEF HeldInv
  <1>4. ASSUME NEW a \in Accounts, ProcessOutbox(a) PROVE HeldInv'
    <2>a. /\ job[a] = None /\ \A b \in Accounts : b # a => batch'[b] = batch[b]
          /\ \A e \in batch'[a] : \E id \in Ids :
               /\ rows[id] # None /\ e = EntryAt(id) /\ e.msg = rows[id].msg /\ AcctOf[e.msg] = a
          /\ UNCHANGED <<job, res, auto, clean, late, idOf>>
      BY <1>4, PassIs
    <2>1. ASSUME NEW e \in batch'[a], NEW f \in batch'[a], e.msg = f.msg PROVE e = f
      <3>1. PICK i \in Ids : rows[i] # None /\ e = EntryAt(i) /\ e.msg = rows[i].msg
        BY <2>a
      <3>2. PICK j \in Ids : rows[j] # None /\ f = EntryAt(j) /\ f.msg = rows[j].msg
        BY <2>a
      <3>3. i = j
        BY <2>1, <3>1, <3>2 DEF RowsNamed
      <3> QED BY <3>1, <3>2, <3>3
    <2>2. SnapshotsOwn'
      BY <1>a, <2>a, <2>1 DEF SnapshotsOwn
    <2>3. OutcomesHeld' /\ UnsentIsNew'
      BY <1>a, <2>a DEF OutcomesHeld, UnsentIsNew, Copies
    <2> QED BY <2>2, <2>3 DEF HeldInv
  <1>5. ASSUME NEW a \in Accounts, ProcessNext(a) PROVE HeldInv'
    <2>a. PICK e \in batch[a] :
             /\ job[a] = None /\ e # None /\ job'[a] = e
             /\ \A w \in Workers : w # a => job'[w] = job[w]
             /\ batch'[a] = batch[a] \ {e} /\ \A b \in Accounts : b # a => batch'[b] = batch[b]
             /\ \A n \in Msgs : n # e.msg => auto'[n] = auto[n]
             /\ UNCHANGED <<res, clean, late, idOf>>
      BY <1>5, NextIs
    <2>1. SnapshotsOwn'
      BY <1>a, <1>b, <2>a DEF SnapshotsOwn
    <2>2. OutcomesHeld'
      BY <1>a, <1>b, <2>a DEF OutcomesHeld
    <2>3. UnsentIsNew'
      BY <1>a, <1>b, <1>c, <2>a DEF UnsentIsNew, Copies, EntriesNamed
    <2> QED BY <2>1, <2>2, <2>3 DEF HeldInv
  <1>6. ASSUME NEW w \in Workers, SendEntry(w) PROVE HeldInv'
    <2>a. LET m == job[w].msg IN
           /\ m \in Msgs /\ job[w].id \in Ids /\ job[w] # None
           /\ \A v \in Workers : v # w => res'[v] = res[v]
           /\ \A n \in Msgs : n # m => clean'[n] = clean[n]
           /\ UNCHANGED <<batch, job, auto, late, idOf>>
      BY <1>6, SendIs
    <2>1. SnapshotsOwn' /\ OutcomesHeld'
      BY <1>a, <2>a DEF SnapshotsOwn, OutcomesHeld
    <2>2. UnsentIsNew'
      BY <1>a, <1>b, <2>a DEF UnsentIsNew, Copies, EntriesNamed
    <2> QED BY <2>1, <2>2 DEF HeldInv
  <1>7. ASSUME NEW w \in Workers, RecordResult(w) PROVE HeldInv'
    <2>a. /\ job'[w] = None /\ res'[w] = "none"
          /\ \A v \in Workers : v # w => job'[v] = job[v] /\ res'[v] = res[v]
          /\ UNCHANGED <<batch, auto, clean, late, idOf>>
      BY <1>7, RecordIs
    <2>1. SnapshotsOwn'
      BY <1>a, <1>b, <2>a DEF SnapshotsOwn
    <2>2. OutcomesHeld' /\ UnsentIsNew'
      BY <1>a, <2>a DEF OutcomesHeld, UnsentIsNew, Copies
    <2> QED BY <2>1, <2>2 DEF HeldInv
  <1>8. CASE CrashRestart
    <2>1. UNCHANGED <<idOf, auto, clean>> /\ (\A m \in Msgs : late'[m] = 0) /\ (\A a \in Accounts : batch'[a] = {})
          /\ \A w \in Workers : job'[w] = None /\ res'[w] = "none"
      BY <1>8 DEF CrashRestart, sentVars
    <2> QED BY <1>a, <1>b, <1>d, <2>1 DEF HeldInv, SnapshotsOwn, OutcomesHeld, UnsentIsNew, Copies
  <1>9. ASSUME NEW w \in Workers, CutOff(w) PROVE HeldInv'
    <2>1. SnapshotsOwn'
      BY <1>9, <1>a, <1>b DEF CutOff, SnapshotsOwn
    <2>2. OutcomesHeld'
      BY <1>9, <1>a DEF CutOff, OutcomesHeld
    <2>3. \A m \in Msgs : idOf[m] = 0 => ~Sending(w, m)
      BY <1>b DEF Sending, EntriesNamed, TypeOK, Entry
    <2>4. UnsentIsNew'
      BY <1>9, <1>a, <1>d, <2>3 DEF CutOff, UnsentIsNew, Copies
    <2> QED BY <2>1, <2>2, <2>4 DEF HeldInv
  <1>10. ASSUME NEW m \in Msgs, LateSend(m) PROVE HeldInv'
    <2>1. /\ late[m] > 0 /\ \A n \in Msgs : n # m => late'[n] = late[n] /\ clean'[n] = clean[n]
          /\ UNCHANGED <<batch, job, res, auto, idOf>>
      BY <1>10, LateIs
    <2>2. SnapshotsOwn' /\ OutcomesHeld'
      BY <1>a, <2>1 DEF SnapshotsOwn, OutcomesHeld
    <2>3. UnsentIsNew'
      BY <1>a, <1>d, <2>1 DEF UnsentIsNew, Copies
    <2> QED BY <2>2, <2>3 DEF HeldInv
  <1> QED BY <1>1, <1>2, <1>3, <1>4, <1>5, <1>6, <1>7, <1>8, <1>9, <1>10 DEF Effect

(***************************************************************************)
(* The retries.  Only the scheduler of the message's account attempts it   *)
(* on its own, and it reads the row anew before every pass.                *)
(***************************************************************************)
LEMMA AutoInit == Init => AutoInv
  BY OutboxAssumption
     DEF Init, AutoInv, RowsCharged, SnapshotsHaveBudget, AttemptsBounded, Mishaps, Snapped, Workers

LEMMA AutoStep ==
    ASSUME TypeOK, RowsNamed, EntriesNamed, HeldInv, AutoInv, Effect PROVE AutoInv'
  <1>a. /\ SnapshotsOwn /\ OutcomesHeld /\ UnsentIsNew
        /\ RowsCharged /\ SnapshotsHaveBudget /\ AttemptsBounded
    BY DEF HeldInv, AutoInv
  <1>b. /\ Loop \in Workers /\ Loop \notin Accounts /\ Accounts \subseteq Workers
        /\ \A m \in Msgs : AcctOf[m] \in Accounts
        /\ MaxRetries \in Nat
    BY OutboxAssumption DEF Workers
  <1>c. /\ Mishaps \in Nat /\ \A m \in Msgs : auto[m] \in Nat
        /\ \A j \in Ids : rows[j] # None => rows[j].msg \in Msgs /\ rows[j].retry \in Nat
    BY OneRow DEF TypeOK, Mishaps
  <1>1. CASE Still
    <2>1. RowsAge /\ UNCHANGED <<batch, job, res, auto, Mishaps>>
      BY <1>1 DEF Still, Mishaps
    <2>2. \A m : (Snapped(m)' <=> Snapped(m)) /\ \A w : Uncharged(w, m)' <=> Uncharged(w, m)
      BY <2>1 DEF Snapped, Uncharged
    <2>3. RowsCharged'
      BY <1>a, <1>c, <2>1, <2>2 DEF RowsCharged, RowsAge
    <2>4. SnapshotsHaveBudget' /\ AttemptsBounded'
      BY <1>a, <2>1, <2>2 DEF SnapshotsHaveBudget, AttemptsBounded
    <2> QED BY <2>3, <2>4 DEF AutoInv
  <1>2. ASSUME NEW m \in Msgs, NEW id \in Ids, Inserts(m, id) PROVE AutoInv'
    <2>1. UNCHANGED <<batch, job, res, auto, Mishaps>> /\ auto[m] = 0
      BY <1>2, <1>a DEF Inserts, UnsentIsNew, Mishaps
    <2>2. \A n : (Snapped(n)' <=> Snapped(n)) /\ \A w : Uncharged(w, n)' <=> Uncharged(w, n)
      BY <2>1 DEF Snapped, Uncharged
    <2>3. /\ rows'[id].msg = m /\ rows'[id].retry = 0
          /\ \A j \in Ids : j # id => rows'[j] = rows[j]
      BY <1>2, InsertIs
    <2>4. RowsCharged'
      BY <1>a, <1>c, <2>1, <2>2, <2>3 DEF RowsCharged
    <2>5. SnapshotsHaveBudget' /\ AttemptsBounded'
      BY <1>a, <2>1, <2>2 DEF SnapshotsHaveBudget, AttemptsBounded
    <2> QED BY <2>4, <2>5 DEF AutoInv
  <1>3. CASE ExecSend /\ loopCmd.id \in Live
    <2>1. /\ UNCHANGED <<rows, batch, res, auto, Mishaps>>
          /\ \A w \in Workers : w # Loop => job'[w] = job[w]
      BY <1>3, TakeIs DEF Mishaps
    <2>2. \A n \in Msgs : /\ Snapped(n)' <=> Snapped(n)
                          /\ Uncharged(AcctOf[n], n)' <=> Uncharged(AcctOf[n], n)
      BY <1>b, <2>1 DEF Snapped, Uncharged
    <2>3. RowsCharged'
      BY <1>a, <1>c, <2>1, <2>2 DEF RowsCharged
    <2>4. SnapshotsHaveBudget' /\ AttemptsBounded'
      BY <1>a, <2>1, <2>2 DEF SnapshotsHaveBudget, AttemptsBounded
    <2> QED BY <2>3, <2>4 DEF AutoInv
  <1>4. ASSUME NEW a \in Accounts, ProcessOutbox(a) PROVE AutoInv'
    <2>1. /\ job[a] = None /\ \A b \in Accounts : b # a => batch'[b] = batch[b]
          /\ \A e \in batch'[a] : \E id \in Ids :
               rows[id] # None /\ e.msg = rows[id].msg /\ rows[id].retry < MaxRetries /\ AcctOf[e.msg] = a
          /\ UNCHANGED <<rows, job, res, auto, Mishaps>>
      BY <1>4, PassIs DEF Mishaps
    <2>2. \A n, w : Uncharged(w, n)' <=> Uncharged(w, n)
      BY <2>1 DEF Uncharged
    <2>3. RowsCharged' /\ AttemptsBounded'
      BY <1>a, <2>1, <2>2 DEF RowsCharged, AttemptsBounded
    <2>4. ASSUME NEW n \in Msgs, Snapped(n)' PROVE auto[n] < MaxRetries + Mishaps
      <3>1. CASE Snapped(n)
        BY <1>a, <3>1 DEF SnapshotsHaveBudget
      <3>2. CASE ~Snapped(n)
        <4>1. AcctOf[n] = a /\ \E e \in batch'[a] : e.msg = n
          BY <1>b, <2>1, <2>4, <3>2 DEF Snapped
        <4>2. PICK id \in Ids : rows[id] # None /\ rows[id].msg = n /\ rows[id].retry < MaxRetries
          BY <2>1, <4>1
        <4>3. ~Uncharged(AcctOf[n], n)
          BY <2>1, <4>1 DEF Uncharged
        <4>4. auto[n] <= rows[id].retry + Mishaps
          BY <1>a, <1>c, <4>2, <4>3 DEF RowsCharged
        <4> QED BY <1>b, <1>c, <4>2, <4>4
      <3> QED BY <3>1, <3>2
    <2> QED BY <2>1, <2>3, <2>4 DEF AutoInv, SnapshotsHaveBudget
  <1>5. ASSUME NEW a \in Accounts, ProcessNext(a) PROVE AutoInv'
    <2>0. PICK e \in batch[a] :
             /\ job[a] = None /\ e # None /\ e.msg \in Msgs /\ job'[a] = e
             /\ \A w \in Workers : w # a => job'[w] = job[w]
             /\ batch'[a] = batch[a] \ {e} /\ \A b \in Accounts : b # a => batch'[b] = batch[b]
             /\ auto'[e.msg] = auto[e.msg] + 1 /\ \A n \in Msgs : n # e.msg => auto'[n] = auto[n]
             /\ UNCHANGED <<rows, res, Mishaps>>
      BY <1>5, NextIs DEF Mishaps
    <2> DEFINE m == e.msg
    <2>1. AcctOf[m] = a
      BY <1>a, <2>0 DEF SnapshotsOwn
    <2>2. Snapped(m) /\ ~Snapped(m)' /\ ~Uncharged(a, m) /\ Uncharged(a, m)'
      BY <1>a, <2>0, <2>1 DEF Snapped, Uncharged, SnapshotsOwn
    <2>3. \A n \in Msgs : n # m => /\ Snapped(n)' <=> Snapped(n)
                                   /\ Uncharged(AcctOf[n], n)' <=> Uncharged(AcctOf[n], n)
      BY <1>b, <2>0, <2>1 DEF Snapped, Uncharged
    <2>4. auto'[m] = auto[m] + 1 /\ auto[m] < MaxRetries + Mishaps
      BY <1>a, <2>0, <2>2 DEF SnapshotsHaveBudget
    <2>5. RowsCharged'
      <3> SUFFICES ASSUME NEW j \in Ids, rows[j] # None, NEW n \in Msgs, n = rows[j].msg
                   PROVE  auto'[n] <= rows[j].retry + Mishaps + (IF Uncharged(AcctOf[n], n)' THEN 1 ELSE 0)
        BY <1>c, <2>0 DEF RowsCharged
      <3>1. rows[j].retry \in Nat
        BY <1>c
      <3>2. auto[n] <= rows[j].retry + Mishaps + (IF Uncharged(AcctOf[n], n) THEN 1 ELSE 0)
        BY <1>a DEF RowsCharged
      <3>3. CASE n = m
        BY <1>c, <2>1, <2>2, <2>4, <3>1, <3>2, <3>3
      <3>4. CASE n # m
        BY <2>0, <2>3, <3>1, <3>2, <3>4
      <3> QED BY <3>3, <3>4
    <2>6. SnapshotsHaveBudget'
      BY <1>a, <2>0, <2>2, <2>3 DEF SnapshotsHaveBudget
    <2>7. AttemptsBounded'
      BY <1>a, <1>b, <1>c, <2>0, <2>4 DEF AttemptsBounded
    <2> QED BY <2>5, <2>6, <2>7 DEF AutoInv
  <1>6. ASSUME NEW w \in Workers, SendEntry(w) PROVE AutoInv'
    <2>1. UNCHANGED <<rows, batch, job, auto, Mishaps>>
      BY <1>6, SendIs DEF Mishaps
    <2>2. \A n : (Snapped(n)' <=> Snapped(n)) /\ \A v : Uncharged(v, n)' <=> Uncharged(v, n)
      BY <2>1 DEF Snapped, Uncharged
    <2> QED BY <1>a, <1>c, <2>1, <2>2 DEF AutoInv, RowsCharged, SnapshotsHaveBudget, AttemptsBounded
  <1>7. ASSUME NEW w \in Workers, RecordResult(w) PROVE AutoInv'
    <2>0. PICK m \in Msgs : m = job[w].msg
      BY <1>7, RecordIs DEF Mishaps
    <2>1. /\ idOf[m] \in Ids /\ job[w] # None /\ RowsAge
          /\ res[w] = "confirmed" => rows'[idOf[m]] = None
          /\ res[w] # "confirmed" /\ rows[idOf[m]] # None =>
               rows'[idOf[m]].retry = rows[idOf[m]].retry + 1
          /\ job'[w] = None /\ res'[w] = "none"
          /\ \A v \in Workers : v # w => job'[v] = job[v] /\ res'[v] = res[v]
          /\ UNCHANGED <<batch, auto, Mishaps>>
      BY <1>7, <2>0, RecordIs DEF Mishaps
    <2>2. \A n \in Msgs : (Snapped(n)' => Snapped(n))
      BY <1>b, <2>1 DEF Snapped
    <2>3. \A n \in Msgs : n # m => (Uncharged(AcctOf[n], n)' <=> Uncharged(AcctOf[n], n))
      BY <1>b, <2>0, <2>1 DEF Uncharged
    <2>4. RowsCharged'
      <3>a. \A j \in Ids : rows'[j] # None => rows'[j].msg \in Msgs
        BY <1>c, <2>1 DEF RowsAge
      <3> SUFFICES ASSUME NEW j \in Ids, rows'[j] # None, NEW n \in Msgs, n = rows'[j].msg
                   PROVE  auto[n] <= rows'[j].retry + Mishaps + (IF Uncharged(AcctOf[n], n)' THEN 1 ELSE 0)
        BY <2>1, <3>a DEF RowsCharged
      <3>1. /\ rows[j] # None /\ rows[j].msg = n /\ rows[j].retry \in Nat
            /\ rows'[j].retry \in Nat /\ rows'[j].retry >= rows[j].retry
        BY <2>1 DEF RowsAge
      <3>2. n \in Msgs /\ idOf[n] = j
        BY <3>1, OneRow
      <3>3. auto[n] <= rows[j].retry + Mishaps + (IF Uncharged(AcctOf[n], n) THEN 1 ELSE 0)
        BY <1>a, <3>1 DEF RowsCharged
      <3>4. CASE n = m
        <4>1. rows'[j].retry = rows[j].retry + 1
          BY <2>1, <3>1, <3>2, <3>4
        <4> QED BY <1>c, <3>1, <3>2, <3>3, <4>1
      <3>5. CASE n # m
        <4>1. Uncharged(AcctOf[n], n)' <=> Uncharged(AcctOf[n], n)
          BY <2>3, <3>2, <3>5
        <4> QED BY <1>c, <3>1, <3>2, <3>3, <4>1
      <3> QED BY <3>4, <3>5
    <2>5. SnapshotsHaveBudget' /\ AttemptsBounded'
      BY <1>a, <2>1, <2>2 DEF SnapshotsHaveBudget, AttemptsBounded
    <2> QED BY <2>4, <2>5 DEF AutoInv
  <1>8. CASE CrashRestart
    <2>1. /\ UNCHANGED <<rows, auto>> /\ Mishaps' = Mishaps + 1
          /\ (\A a \in Accounts : batch'[a] = {}) /\ \A w \in Workers : job'[w] = None
      BY <1>8 DEF CrashRestart, sentVars, Mishaps, TypeOK
    <2>2. \A n \in Msgs : ~Snapped(n)' /\ ~Uncharged(AcctOf[n], n)'
      BY <1>b, <2>1 DEF Snapped, Uncharged
    <2>3. RowsCharged'
      BY <1>a, <1>c, <2>1, <2>2 DEF RowsCharged
    <2>4. SnapshotsHaveBudget' /\ AttemptsBounded'
      BY <1>a, <1>b, <1>c, <2>1, <2>2 DEF SnapshotsHaveBudget, AttemptsBounded
    <2> QED BY <2>3, <2>4 DEF AutoInv
  <1>9. ASSUME NEW w \in Workers, CutOff(w) PROVE AutoInv'
    <2>1. /\ UNCHANGED <<rows, auto>> /\ Mishaps' = Mishaps + 1
          /\ \A a \in Accounts : batch'[a] \subseteq batch[a]
      BY <1>9 DEF CutOff
    <2>2. \A n \in Msgs : Snapped(n)' => Snapped(n)
      BY <1>b, <2>1 DEF Snapped
    <2>3. RowsCharged'
      BY <1>a, <1>c, <2>1 DEF RowsCharged
    <2>4. SnapshotsHaveBudget' /\ AttemptsBounded'
      BY <1>a, <1>b, <1>c, <2>1, <2>2 DEF SnapshotsHaveBudget, AttemptsBounded
    <2> QED BY <2>3, <2>4 DEF AutoInv
  <1>10. ASSUME NEW m \in Msgs, LateSend(m) PROVE AutoInv'
    <2>1. UNCHANGED <<rows, batch, job, auto, Mishaps>>
      BY <1>10, LateIs DEF Mishaps
    <2>2. \A n : (Snapped(n)' <=> Snapped(n)) /\ \A v : Uncharged(v, n)' <=> Uncharged(v, n)
      BY <2>1 DEF Snapped, Uncharged
    <2> QED BY <1>a, <1>c, <2>1, <2>2 DEF AutoInv, RowsCharged, SnapshotsHaveBudget, AttemptsBounded
  <1> QED BY <1>1, <1>2, <1>3, <1>4, <1>5, <1>6, <1>7, <1>8, <1>9, <1>10 DEF Effect

(***************************************************************************)
(* The copies.  The loop sends what its command names.                     *)
(***************************************************************************)
LEMMA LoopHoldsStep == ASSUME TypeOK, LoopHolds, [Next]_vars PROVE LoopHolds'
  <1>a. Loop \in Workers /\ Loop \notin Accounts /\ Accounts \subseteq Workers
    BY OutboxAssumption DEF Workers
  <1> USE DEF procVars
  <1>1. CASE UNCHANGED <<job, loopCmd>>
    BY <1>1 DEF LoopHolds
  <1>2. CASE UNCHANGED job /\ job[Loop] = None
    BY <1>2 DEF LoopHolds
  <1>3. CASE DequeueCmd \/ UnsubscribeFails \/ \E m \in Msgs : ExecUnsubscribe(m)
    BY <1>2, <1>3 DEF LoopHolds, DequeueCmd, UnsubscribeFails, ExecUnsubscribe
  <1>4. CASE ExecSend
    <2>1. CASE loopCmd.id \in Live
      BY <1>4, <2>1, TakeIs DEF LoopHolds
    <2>2. CASE loopCmd.id \notin Live
      BY <1>2, <1>4, <2>2 DEF ExecSend
    <2> QED BY <2>1, <2>2
  <1>5. ASSUME NEW a \in Accounts, ProcessNext(a) PROVE LoopHolds'
    <2>1. job'[Loop] = job[Loop] /\ UNCHANGED loopCmd
      BY <1>5, <1>a, NextIs
    <2> QED BY <2>1 DEF LoopHolds
  <1>6. ASSUME NEW w \in Workers, RecordResult(w) PROVE LoopHolds'
    <2>1. job'[w] = None /\ \A v \in Workers : v # w => job'[v] = job[v]
      BY <1>6 DEF RecordResult, Finish, TypeOK
    <2>2. w # Loop => UNCHANGED loopCmd
      BY <1>6 DEF RecordResult, Finish
    <2> QED BY <1>a, <2>1, <2>2 DEF LoopHolds
  <1>13. ASSUME NEW w \in Workers, MarkFails(w) PROVE LoopHolds'
    <2>1. job'[w] = None /\ \A v \in Workers : v # w => job'[v] = job[v]
      BY <1>13 DEF MarkFails, Finish, TypeOK
    <2>2. w # Loop => UNCHANGED loopCmd
      BY <1>13 DEF MarkFails, Finish
    <2> QED BY <1>a, <2>1, <2>2 DEF LoopHolds
  <1>14. ASSUME NEW a \in Accounts, ExecUpdateCredential(a) PROVE LoopHolds'
    <2>1. job'[Loop] = job[Loop] /\ UNCHANGED loopCmd
      BY <1>14, <1>a DEF ExecUpdateCredential, TypeOK
    <2> QED BY <2>1 DEF LoopHolds
  <1>7. CASE CrashRestart
    BY <1>7, <1>a DEF CrashRestart, LoopHolds
  <1>8. ASSUME NEW m \in Msgs, EnqueueDraft(m) \/ ArmUndoSend(m) \/ CommitSend(m) \/ RecallSend(m)
        PROVE  LoopHolds'
    BY <1>1, <1>8 DEF EnqueueDraft, ArmUndoSend, CommitSend, RecallSend
  <1>9. CASE Unsubscribe \/ Notify \/ SnackbarStep \/ UNCHANGED vars
    BY <1>1, <1>9 DEF Unsubscribe, Notify, SnackbarStep, vars
  <1>10. ASSUME NEW a \in Accounts, ProcessOutbox(a) PROVE LoopHolds'
    BY <1>1, <1>10 DEF ProcessOutbox
  <1>11. ASSUME NEW w \in Workers, SendEntry(w) PROVE LoopHolds'
    BY <1>1, <1>11 DEF SendEntry
  <1>12. ASSUME NEW id \in Ids, BackoffElapses(id) PROVE LoopHolds'
    BY <1>1, <1>12 DEF BackoffElapses
  <1>15. ASSUME NEW m \in Msgs, LateSend(m) PROVE LoopHolds'
    BY <1>1, <1>15 DEF LateSend
  <1> QED BY <1>3, <1>4, <1>5, <1>6, <1>7, <1>8, <1>9, <1>10, <1>11, <1>12, <1>13, <1>14, <1>15, <1>a
      DEF Next, UserStep, LoopStep, SchedulerStep

(***************************************************************************)
(* Nothing brings a rowid back to the loop while its row is there: the     *)
(* window and the queue only hand it on, and no insert is given it.        *)
(***************************************************************************)
HandsOn ==
    /\ \A n \in Msgs : InWindow(n)' => InWindow(n)
    /\ \A id \in Ids : Commanded(id)' => Commanded(id) \/ \E n \in Msgs : idOf[n] = id /\ InWindow(n)

LEMMA SameHandsOn ==
    ASSUME UNCHANGED <<arming, windowVars>>, UNCHANGED <<cmdQ, loopCmd>> PROVE HandsOn
  BY DEF HandsOn, InWindow, Commanded, windowVars

LEMMA WindowHandsOn ==
    ASSUME TypeOK, \/ \E m \in Msgs : ArmUndoSend(m) \/ RecallSend(m)
                   \/ Notify \/ SnackbarStep
    PROVE  HandsOn
  <1>a. UNCHANGED <<cmdQ, loopCmd>> /\ None \notin Msgs
    BY OutboxAssumption DEF ArmUndoSend, RecallSend, Notify, SnackbarStep, procVars
  <1>b. \A id : Commanded(id)' => Commanded(id)
    BY <1>a DEF Commanded
  <1>c. \A n, m : Window!CommitOf(n) = Window!CommitOf(m) => n = m
    BY DEF Window!CommitOf
  <1>d. \A n, m : Window!CommitOf(n) # Window!UndoOf(m)
    BY DEF Window!CommitOf, Window!UndoOf
  <1>e. ASSUME NEW n \in Msgs, tasks' \subseteq tasks \cup {Window!CommitOf(current)}, Window!CommitOf(n) \in tasks'
        PROVE  InWindow(n)
    BY <1>c, <1>e DEF InWindow
  <1>1. ASSUME NEW m \in Msgs, ArmUndoSend(m) PROVE \A n \in Msgs : InWindow(n)' => InWindow(n)
    <2>1. m \in arming /\ arming' \subseteq arming /\ current' = m /\ tasks' \subseteq tasks \cup {Window!CommitOf(current)}
      BY <1>1 DEF ArmUndoSend, Window!Open, Window!Committed
    <2> QED BY <1>e, <2>1 DEF InWindow
  <1>2. CASE Notify
    <2>1. arming' = arming /\ current' = None /\ tasks' \subseteq tasks \cup {Window!CommitOf(current)}
      BY <1>2 DEF Notify, Window!Open, Window!Committed
    <2>2. \A n \in Msgs : InWindow(n)' => InWindow(n)
      BY <1>a, <1>e, <2>1 DEF InWindow
    <2> QED BY <1>b, <2>2 DEF HandsOn
  <1>3. CASE SnackbarStep
    <2>1. /\ arming' = arming /\ current' \in {current, None}
          /\ tasks' \subseteq tasks \cup {Window!CommitOf(current), Window!UndoOf(current)}
      BY <1>3 DEF SnackbarStep, Window!Display, Window!Expire, Window!Close, Window!Undo, Window!Committed
    <2>2. \A n \in Msgs : InWindow(n)' => InWindow(n)
      BY <1>a, <1>c, <1>d, <2>1 DEF InWindow
    <2> QED BY <1>b, <2>2 DEF HandsOn
  <1>4. ASSUME NEW m \in Msgs, RecallSend(m) PROVE \A n \in Msgs : InWindow(n)' => InWindow(n)
    BY <1>4 DEF RecallSend, Window!Run, InWindow
  <1> QED BY <1>1, <1>2, <1>3, <1>4, <1>b DEF HandsOn

LEMMA QueueHandsOn ==
    ASSUME TypeOK, \/ \E m \in Msgs : CommitSend(m)
                   \/ Unsubscribe \/ DequeueCmd \/ UnsubscribeFails \/ ExecSend \/ CrashRestart
                   \/ \E w \in Workers : RecordResult(w) \/ MarkFails(w)
    PROVE  HandsOn
  <1>a. cmdQ \in Seq(Commands) /\ None \notin Msgs
    BY OutboxAssumption DEF TypeOK
  <1>1. ASSUME NEW m \in Msgs, CommitSend(m) PROVE HandsOn
    <2>1. /\ UNCHANGED <<loopCmd, arming, current>> /\ tasks' \subseteq tasks /\ Window!CommitOf(m) \in tasks
          /\ cmdQ' \in {cmdQ, Append(cmdQ, SendCmd(idOf[m]))}
      BY <1>1 DEF CommitSend, Window!Run, Enqueued
    <2>2. \A n \in Msgs : InWindow(n)' => InWindow(n)
      BY <2>1 DEF InWindow
    <2>3. \A i \in 1..Len(cmdQ') : (i \in 1..Len(cmdQ) /\ cmdQ'[i] = cmdQ[i]) \/ cmdQ'[i] = SendCmd(idOf[m])
      BY <1>a, <2>1
    <2>4. SendCmd(idOf[m]).id = idOf[m] /\ InWindow(m)
      BY <2>1 DEF SendCmd, InWindow
    <2>5. ASSUME NEW id \in Ids, Commanded(id)' PROVE Commanded(id) \/ \E n \in Msgs : idOf[n] = id /\ InWindow(n)
      BY <2>1, <2>3, <2>4, <2>5 DEF Commanded
    <2> QED BY <2>2, <2>5 DEF HandsOn
  <1>2. ASSUME UNCHANGED <<arming, windowVars>>, \A id \in Ids : Commanded(id)' => Commanded(id) PROVE HandsOn
    BY <1>2 DEF HandsOn, InWindow, windowVars
  <1>3. CASE Unsubscribe
    <2>1. UNCHANGED <<loopCmd, arming, windowVars>> /\ cmdQ' \in {cmdQ, Append(cmdQ, UnsubscribeCmd)}
      BY <1>3 DEF Unsubscribe, Enqueued
    <2>2. \A i \in 1..Len(cmdQ') : (i \in 1..Len(cmdQ) /\ cmdQ'[i] = cmdQ[i]) \/ cmdQ'[i] = UnsubscribeCmd
      BY <1>a, <2>1
    <2>3. UnsubscribeCmd.kind # "send"
      BY DEF UnsubscribeCmd
    <2> QED BY <1>2, <2>1, <2>2, <2>3 DEF Commanded
  <1>4. CASE DequeueCmd
    <2>1. UNCHANGED <<arming, windowVars>> /\ cmdQ # <<>> /\ loopCmd' = Head(cmdQ) /\ cmdQ' = Tail(cmdQ)
      BY <1>4 DEF DequeueCmd
    <2>2. 1 \in 1..Len(cmdQ) /\ loopCmd' = cmdQ[1]
      BY <1>a, <2>1
    <2>3. \A i \in 1..Len(cmdQ') : i + 1 \in 1..Len(cmdQ) /\ cmdQ'[i] = cmdQ[i + 1]
      BY <1>a, <2>1
    <2> QED BY <1>2, <2>1, <2>2, <2>3 DEF Commanded
  <1>5. CASE UnsubscribeFails \/ ExecSend
    BY <1>2, <1>5 DEF UnsubscribeFails, ExecSend, Commanded
  <1>6. ASSUME NEW w \in Workers, RecordResult(w) \/ MarkFails(w) PROVE HandsOn
    BY <1>2, <1>6 DEF RecordResult, MarkFails, Finish, Commanded
  <1>7. CASE CrashRestart
    <2>1. arming' = {} /\ current' = None /\ tasks' = {} /\ cmdQ' = <<>> /\ loopCmd' = None
      BY <1>7 DEF CrashRestart
    <2> QED BY <1>a, <2>1 DEF HandsOn, InWindow, Commanded
  <1> QED BY <1>1, <1>3, <1>4, <1>5, <1>6, <1>7

LEMMA ReachStep ==
    ASSUME TypeOK, RowsNamed, [Next]_vars, NEW m \in Msgs, HasRow(m), Reaches(m)' PROVE Reaches(m)
  <1>a. idOf[m] \in Ids /\ rows[idOf[m]] # None /\ 0 \notin Ids
    BY DEF HasRow, RowsNamed, Ids
  <1>1. ASSUME HandsOn, UNCHANGED idOf PROVE Reaches(m)
    BY <1>1, <1>a DEF HandsOn, Reaches
  <1>2. ASSUME NEW n \in Msgs, EnqueueDraft(n) \/ ExecUnsubscribe(n) PROVE Reaches(m)
    <2>1. PICK id \in Ids : idOf[n] = 0 /\ EnqueueOutbox(n, id) /\ (ExecUnsubscribe(n) => loopCmd' = SendCmd(id))
      BY <1>2 DEF EnqueueDraft, ExecUnsubscribe
    <2>2. id # idOf[m]
      BY <1>a, <2>1 DEF EnqueueOutbox, NextRowid, Live, Ids
    <2>3. idOf'[n] = id /\ \A k \in Msgs : k # n => idOf'[k] = idOf[k]
      BY <2>1 DEF EnqueueOutbox, TypeOK
    <2>4. m # n /\ idOf'[m] = idOf[m]
      BY <1>a, <2>1, <2>3
    <2>5. \A k \in Msgs : k # n => (InWindow(k)' => InWindow(k))
      BY <1>2 DEF EnqueueDraft, ExecUnsubscribe, InWindow, windowVars
    <2>6. Commanded(idOf[m])' => Commanded(idOf[m])
      <3>1. SendCmd(id).id = id
        BY DEF SendCmd
      <3> QED BY <1>2, <2>1, <2>2, <2>4, <3>1 DEF EnqueueDraft, ExecUnsubscribe, Commanded, procVars
    <2> QED BY <2>2, <2>3, <2>4, <2>5, <2>6 DEF Reaches
  <1>3. CASE \/ \E n \in Msgs : ArmUndoSend(n) \/ RecallSend(n)
             \/ Notify \/ SnackbarStep
    BY <1>1, <1>3, WindowHandsOn DEF ArmUndoSend, RecallSend, Notify, SnackbarStep, histVars
  <1>4. CASE \/ \E n \in Msgs : CommitSend(n)
             \/ Unsubscribe \/ DequeueCmd \/ UnsubscribeFails \/ ExecSend \/ CrashRestart
             \/ \E w \in Workers : RecordResult(w) \/ MarkFails(w)
    BY <1>1, <1>4, QueueHandsOn
    DEF CommitSend, Unsubscribe, DequeueCmd, UnsubscribeFails, ExecSend, CrashRestart, RecordResult,
        MarkFails, histVars
  <1>5. CASE \/ \E a \in Accounts : ProcessOutbox(a) \/ ProcessNext(a) \/ ExecUpdateCredential(a)
             \/ \E n \in Msgs : LateSend(n)
             \/ \E w \in Workers : SendEntry(w)
             \/ \E id \in Ids : BackoffElapses(id)
             \/ UNCHANGED vars
    BY <1>1, <1>5, SameHandsOn
    DEF ProcessOutbox, ProcessNext, ExecUpdateCredential, LateSend, SendEntry, BackoffElapses, vars,
        procVars, histVars
  <1> QED BY <1>2, <1>3, <1>4, <1>5 DEF Next, UserStep, LoopStep, SchedulerStep, Workers

(***************************************************************************)
(* What the two workers hold of a message: the loop a snapshot to send or  *)
(* a confirmed copy, and then the rowid reaches it; the scheduler the one  *)
(* or the other.                                                           *)
(***************************************************************************)
LEMMA HeldOnce ==
    ASSUME TypeOK, EntriesNamed, HeldInv, LoopHolds, NEW m \in Msgs
    PROVE  /\ Confirmed(AcctOf[m], m) \in {0, 1} /\ Confirmed(Loop, m) \in {0, 1}
           /\ Waiting(m) => Confirmed(AcctOf[m], m) = 0
           /\ Sending(Loop, m) => Confirmed(Loop, m) = 0 /\ Reaches(m)
           /\ Confirmed(Loop, m) = 1 => Reaches(m)
  <1>a. Loop \in Workers /\ AcctOf[m] \in Accounts
    BY OutboxAssumption DEF Workers
  <1>1. job[Loop] # None /\ job[Loop].msg = m => Reaches(m)
    BY <1>a DEF LoopHolds, EntriesNamed, Reaches, Commanded
  <1>2. Waiting(m) => Confirmed(AcctOf[m], m) = 0
    BY <1>a DEF Waiting, Snapped, Sending, Confirmed, HeldInv, SnapshotsOwn
  <1> QED BY <1>1, <1>2 DEF Sending, Confirmed

LEMMA CopyInit == Init => CopyInv
  <1> SUFFICES ASSUME Init PROVE CopyInv
    OBVIOUS
  <1>1. /\ \A w \in Workers : job[w] = None
        /\ \A a \in Accounts : batch[a] = {}
        /\ \A id \in Ids : rows[id] = None
        /\ \A m \in Msgs : Copies(m) = 0
        /\ Mishaps = 0
    BY DEF Init, Copies, Mishaps
  <1>2. Loop \in Workers /\ \A m \in Msgs : AcctOf[m] \in Accounts /\ AcctOf[m] \in Workers
    BY OutboxAssumption DEF Workers
  <1>3. \A m \in Msgs : ~HasRow(m) /\ ~Waiting(m) /\ ~Sending(Loop, m)
    BY <1>1, <1>2 DEF HasRow, Waiting, Snapped, Sending
  <1> QED BY <1>1, <1>2, <1>3 DEF CopyInv, LoopHolds, RowsConfirmed, CopiesToCome

LEMMA CopyStep ==
    ASSUME TypeOK, RowsNamed, EntriesNamed, HeldInv, CopyInv, [Next]_vars PROVE RowsConfirmed' /\ CopiesToCome'
  <1>a. SnapshotsOwn /\ OutcomesHeld /\ UnsentIsNew /\ LoopHolds /\ RowsConfirmed /\ CopiesToCome
    BY DEF HeldInv, CopyInv
  <1>b. /\ Loop \in Workers /\ Loop \notin Accounts /\ Accounts \subseteq Workers
        /\ \A m \in Msgs : AcctOf[m] \in Accounts
    BY OutboxAssumption DEF Workers
  <1>c. Mishaps \in Nat /\ \A m \in Msgs : Copies(m) \in Nat
    BY DEF TypeOK, Mishaps, Copies
  <1>r. \A m \in Msgs : HasRow(m) /\ Reaches(m)' => Reaches(m)
    BY ReachStep
  <1>d. \A m \in Msgs :
           /\ Confirmed(AcctOf[m], m) \in {0, 1} /\ Confirmed(Loop, m) \in {0, 1}
           /\ Waiting(m) => Confirmed(AcctOf[m], m) = 0
           /\ Sending(Loop, m) => Confirmed(Loop, m) = 0 /\ Reaches(m)
           /\ Confirmed(Loop, m) = 1 => Reaches(m)
    BY <1>a, HeldOnce
  <1>e. \A m \in Msgs : Confirmed(AcctOf[m], m)' \in {0, 1} /\ Confirmed(Loop, m)' \in {0, 1}
    BY DEF Confirmed
  <1>f. \A m \in Msgs :
          /\ HasRow(m) => Copies(m) <= Mishaps + Confirmed(AcctOf[m], m) + Confirmed(Loop, m) + (IF Reaches(m) THEN 0 ELSE 1)
          /\ Copies(m) + (IF Waiting(m) THEN 1 ELSE 0) + (IF Sending(Loop, m) THEN 1 ELSE 0) <= 2 + Mishaps
    BY <1>a DEF RowsConfirmed, CopiesToCome
  <1>g. Effect
    BY Effects
  <1>h. ASSUME RowsAge, NEW m \in Msgs, HasRow(m)' PROVE HasRow(m)
    BY <1>h DEF RowsAge, HasRow
  <1>i. ASSUME NEW m \in Msgs, HasRow(m)' => HasRow(m), UNCHANGED Mishaps, Copies(m)' = Copies(m),
               Confirmed(AcctOf[m], m)' = Confirmed(AcctOf[m], m), Confirmed(Loop, m)' = Confirmed(Loop, m),
               HasRow(m)'
        PROVE  Copies(m)' <= Mishaps' + Confirmed(AcctOf[m], m)' + Confirmed(Loop, m)' + (IF Reaches(m)' THEN 0 ELSE 1)
    BY <1>i, <1>c, <1>d, <1>f, <1>r
  <1>j. ASSUME NEW m \in Msgs, UNCHANGED Mishaps, Copies(m)' = Copies(m),
               Waiting(m)' => Waiting(m), Sending(Loop, m)' => Sending(Loop, m)
        PROVE  Copies(m)' + (IF Waiting(m)' THEN 1 ELSE 0) + (IF Sending(Loop, m)' THEN 1 ELSE 0) <= 2 + Mishaps'
    BY <1>j, <1>c, <1>f
  <1> DEFINE SameCounts == UNCHANGED Mishaps /\ \A m \in Msgs : Copies(m)' = Copies(m)
  <1>k. UNCHANGED <<clean, late, crashes, faults>> => SameCounts
    BY DEF Mishaps, Copies
  <1>1. CASE Still
    <2>1. RowsAge /\ UNCHANGED <<batch, job, res>> /\ SameCounts
      BY <1>1, <1>k DEF Still
    <2>2. \A m \in Msgs : /\ (Waiting(m)' <=> Waiting(m)) /\ (Sending(Loop, m)' <=> Sending(Loop, m))
                          /\ \A w : Confirmed(w, m)' = Confirmed(w, m)
      BY <2>1 DEF Waiting, Snapped, Sending, Confirmed
    <2>3. RowsConfirmed'
      BY <1>h, <1>i, <2>1, <2>2 DEF RowsConfirmed
    <2>4. CopiesToCome'
      BY <1>j, <2>1, <2>2 DEF CopiesToCome
    <2> QED BY <2>3, <2>4
  <1>2. ASSUME NEW n \in Msgs, NEW id \in Ids, Inserts(n, id) PROVE RowsConfirmed' /\ CopiesToCome'
    <2>1. UNCHANGED <<batch, job, res>> /\ SameCounts /\ Copies(n) = 0
      BY <1>2, <1>a, <1>k DEF Inserts, UnsentIsNew
    <2>2. \A m \in Msgs : /\ (Waiting(m)' <=> Waiting(m)) /\ (Sending(Loop, m)' <=> Sending(Loop, m))
                          /\ \A w : Confirmed(w, m)' = Confirmed(w, m)
      BY <2>1 DEF Waiting, Snapped, Sending, Confirmed
    <2>3. /\ rows'[id].msg = n /\ \A j \in Ids : j # id => rows'[j] = rows[j]
      BY <1>2, InsertIs
    <2>4. \A m \in Msgs : m # n /\ HasRow(m)' => HasRow(m)
      BY <2>3 DEF HasRow
    <2>5. Copies(n)' <= Mishaps' + Confirmed(AcctOf[n], n)' + Confirmed(Loop, n)' + (IF Reaches(n)' THEN 0 ELSE 1)
      BY <1>c, <1>e, <2>1
    <2>6. RowsConfirmed'
      BY <1>i, <2>1, <2>2, <2>4, <2>5 DEF RowsConfirmed
    <2>7. CopiesToCome'
      BY <1>j, <2>1, <2>2 DEF CopiesToCome
    <2> QED BY <2>6, <2>7
  <1>3. CASE ExecSend /\ loopCmd.id \in Live
    <2>1. /\ job[Loop] = None /\ job'[Loop] # None
          /\ job'[Loop].msg = rows[loopCmd.id].msg
          /\ \A w \in Workers : w # Loop => job'[w] = job[w]
          /\ loopCmd # None /\ loopCmd.kind = "send"
          /\ UNCHANGED <<rows, batch, res>> /\ SameCounts
      BY <1>3, <1>k, TakeIs
    <2>2. PICK x \in Msgs : x = rows[loopCmd.id].msg /\ HasRow(x) /\ idOf[x] = loopCmd.id
      BY <1>3, OneRow DEF Live, HasRow
    <2>3. Reaches(x) /\ res[Loop] = "none" /\ Confirmed(Loop, x) = 0
      BY <1>a, <1>b, <2>1, <2>2 DEF Reaches, Commanded, OutcomesHeld, Confirmed
    <2>4. \A m \in Msgs : /\ Waiting(m)' <=> Waiting(m)
                          /\ Confirmed(AcctOf[m], m)' = Confirmed(AcctOf[m], m)
                          /\ Confirmed(Loop, m)' = Confirmed(Loop, m)
                          /\ m # x => ~Sending(Loop, m)'
      BY <1>b, <2>1, <2>2, <2>3 DEF Waiting, Snapped, Sending, Confirmed
    <2>5. \A m \in Msgs : HasRow(m)' => HasRow(m)
      BY <2>1 DEF HasRow
    <2>6. RowsConfirmed'
      BY <1>i, <2>1, <2>4, <2>5 DEF RowsConfirmed
    <2>7. Copies(x) + (IF Waiting(x) THEN 1 ELSE 0) + 1 <= 2 + Mishaps
      BY <1>c, <1>d, <1>f, <2>2, <2>3
    <2>8. Copies(x) + (IF Waiting(x) THEN 1 ELSE 0) + (IF Sending(Loop, x)' THEN 1 ELSE 0) <= 2 + Mishaps
      BY <1>c, <2>7
    <2>9. CopiesToCome'
      BY <1>j, <2>1, <2>4, <2>8 DEF CopiesToCome
    <2> QED BY <2>6, <2>9
  <1>4. ASSUME NEW a \in Accounts, ProcessOutbox(a) PROVE RowsConfirmed' /\ CopiesToCome'
    <2>1. /\ job[a] = None /\ \A b \in Accounts : b # a => batch'[b] = batch[b]
          /\ \A e \in batch'[a] : \E id \in Ids : rows[id] # None /\ e.msg = rows[id].msg
          /\ UNCHANGED <<rows, job, res>> /\ SameCounts
      BY <1>4, <1>k, PassIs
    <2>2. \A m \in Msgs : /\ Sending(Loop, m)' <=> Sending(Loop, m)
                          /\ \A w : Confirmed(w, m)' = Confirmed(w, m)
                          /\ HasRow(m)' => HasRow(m)
      BY <2>1 DEF Sending, Confirmed, HasRow
    <2>3. RowsConfirmed'
      BY <1>i, <2>1, <2>2 DEF RowsConfirmed
    <2>4. ASSUME NEW m \in Msgs, ~Waiting(m), Waiting(m)'
          PROVE  Copies(m) + 1 + (IF Sending(Loop, m) THEN 1 ELSE 0) <= 2 + Mishaps
      <3>1. AcctOf[m] = a /\ \E e \in batch'[a] : e.msg = m
        BY <1>b, <2>1, <2>4 DEF Waiting, Snapped, Sending
      <3>2. HasRow(m) /\ Confirmed(AcctOf[m], m) = 0
        BY <2>1, <3>1 DEF HasRow, Confirmed
      <3> QED BY <1>c, <1>d, <1>f, <3>2
    <2>5. ASSUME NEW m \in Msgs
          PROVE  Copies(m)' + (IF Waiting(m)' THEN 1 ELSE 0) + (IF Sending(Loop, m)' THEN 1 ELSE 0) <= 2 + Mishaps'
      BY <1>c, <1>f, <2>1, <2>2, <2>4
    <2> QED BY <2>3, <2>5 DEF CopiesToCome
  <1>5. ASSUME NEW a \in Accounts, ProcessNext(a) PROVE RowsConfirmed' /\ CopiesToCome'
    <2>1. PICK e \in batch[a] :
             /\ job[a] = None /\ job'[a] = e
             /\ \A w \in Workers : w # a => job'[w] = job[w]
             /\ batch'[a] = batch[a] \ {e} /\ \A b \in Accounts : b # a => batch'[b] = batch[b]
             /\ UNCHANGED <<rows, res>> /\ SameCounts
      BY <1>5, <1>k, NextIs
    <2>2. res[a] = "none" /\ AcctOf[e.msg] = a
      BY <1>a, <1>b, <2>1 DEF OutcomesHeld, SnapshotsOwn
    <2>3. \A m \in Msgs : /\ Waiting(m)' => Waiting(m)
                          /\ Sending(Loop, m)' <=> Sending(Loop, m)
                          /\ Confirmed(AcctOf[m], m)' = Confirmed(AcctOf[m], m)
                          /\ Confirmed(Loop, m)' = Confirmed(Loop, m)
                          /\ HasRow(m)' => HasRow(m)
      BY <1>b, <2>1, <2>2 DEF Waiting, Snapped, Sending, Confirmed, HasRow
    <2>4. RowsConfirmed'
      BY <1>i, <2>1, <2>3 DEF RowsConfirmed
    <2>5. CopiesToCome'
      BY <1>j, <2>1, <2>3 DEF CopiesToCome
    <2> QED BY <2>4, <2>5
  <1>6. ASSUME NEW w \in Workers, SendEntry(w) PROVE RowsConfirmed' /\ CopiesToCome'
    <2>0. PICK x \in Msgs : x = job[w].msg
      BY <1>6, SendIs
    <2>1. /\ job[w] # None /\ res[w] = "none" /\ res'[w] # "none"
          /\ \A v \in Workers : v # w => res'[v] = res[v]
          /\ Copies(x)' = Copies(x) + (IF res'[w] = "confirmed" THEN 1 ELSE 0)
          /\ \A n \in Msgs : n # x => Copies(n)' = Copies(n)
          /\ UNCHANGED <<rows, batch, job, Mishaps>>
      BY <1>6, <2>0, SendIs DEF Mishaps, Copies, TypeOK
    <2>2. \A m \in Msgs : HasRow(m)' <=> HasRow(m)
      BY <2>1 DEF HasRow
    <2>3. \A m \in Msgs : m # x => /\ Waiting(m)' <=> Waiting(m)
                                   /\ Sending(Loop, m)' <=> Sending(Loop, m)
                                   /\ Confirmed(AcctOf[m], m)' = Confirmed(AcctOf[m], m)
                                   /\ Confirmed(Loop, m)' = Confirmed(Loop, m)
      BY <1>b, <2>0, <2>1 DEF Waiting, Snapped, Sending, Confirmed
    <2>4. w # Loop => w \in Accounts /\ AcctOf[x] = w
      BY <1>a, <2>0, <2>1 DEF Workers, SnapshotsOwn
    <2>5. /\ Confirmed(w, x) = 0 /\ Confirmed(w, x)' = (IF res'[w] = "confirmed" THEN 1 ELSE 0)
          /\ w = Loop => /\ Sending(Loop, x) /\ ~Sending(Loop, x)' /\ (Waiting(x)' <=> Waiting(x))
                         /\ Confirmed(AcctOf[x], x)' = Confirmed(AcctOf[x], x)
          /\ w # Loop => /\ Waiting(x) /\ ~Waiting(x)' /\ (Sending(Loop, x)' <=> Sending(Loop, x))
                         /\ Confirmed(Loop, x)' = Confirmed(Loop, x)
      <3>1. Confirmed(w, x) = 0 /\ Confirmed(w, x)' = (IF res'[w] = "confirmed" THEN 1 ELSE 0)
        BY <2>0, <2>1 DEF Confirmed
      <3>2. CASE w = Loop
        BY <1>b, <2>0, <2>1, <3>1, <3>2 DEF Sending, Snapped, Waiting, Confirmed
      <3>3. CASE w # Loop
        BY <1>a, <1>b, <2>0, <2>1, <2>4, <3>1, <3>3 DEF Sending, Snapped, Waiting, Confirmed, SnapshotsOwn
      <3> QED BY <3>1, <3>2, <3>3
    <2>6. HasRow(x)' => Copies(x)' <= Mishaps' + Confirmed(AcctOf[x], x)' + Confirmed(Loop, x)'
                                     + (IF Reaches(x)' THEN 0 ELSE 1)
      BY <1>c, <1>d, <1>f, <1>r, <2>1, <2>2, <2>4, <2>5
    <2>7. Copies(x)' + (IF Waiting(x)' THEN 1 ELSE 0) + (IF Sending(Loop, x)' THEN 1 ELSE 0) <= 2 + Mishaps'
      BY <1>c, <1>f, <2>1, <2>5
    <2>8. RowsConfirmed'
      BY <1>i, <2>1, <2>2, <2>3, <2>6 DEF RowsConfirmed
    <2>9. CopiesToCome'
      BY <1>j, <2>1, <2>3, <2>7 DEF CopiesToCome
    <2> QED BY <2>8, <2>9
  <1>7. ASSUME NEW w \in Workers, RecordResult(w) PROVE RowsConfirmed' /\ CopiesToCome'
    <2>0. PICK x \in Msgs : x = job[w].msg
      BY <1>7, RecordIs
    <2>1. /\ idOf[x] \in Ids /\ job[w] # None /\ RowsAge
          /\ res[w] = "confirmed" => rows'[idOf[x]] = None
          /\ job'[w] = None /\ res'[w] = "none"
          /\ \A v \in Workers : v # w => job'[v] = job[v] /\ res'[v] = res[v]
          /\ UNCHANGED <<batch, idOf>> /\ SameCounts
      BY <1>7, <1>k, <2>0, RecordIs
    <2>2. \A m \in Msgs : /\ Waiting(m)' => Waiting(m)
                          /\ Sending(Loop, m)' => Sending(Loop, m)
      BY <1>b, <2>1 DEF Waiting, Snapped, Sending
    <2>3. CopiesToCome'
      BY <1>j, <2>1, <2>2 DEF CopiesToCome
    <2>4. \A m \in Msgs : m # x \/ res[w] # "confirmed" =>
             /\ Confirmed(AcctOf[m], m)' = Confirmed(AcctOf[m], m)
             /\ Confirmed(Loop, m)' = Confirmed(Loop, m)
      BY <1>b, <2>0, <2>1 DEF Confirmed
    <2>5. res[w] = "confirmed" => ~HasRow(x)'
      BY <2>1 DEF HasRow, RowsAge, RowsNamed
    <2>6. RowsConfirmed'
      BY <1>h, <1>i, <2>1, <2>4, <2>5 DEF RowsConfirmed
    <2> QED BY <2>3, <2>6
  <1>8. CASE CrashRestart
    <2>1. /\ UNCHANGED rows /\ Mishaps' = Mishaps + 1
          /\ \A m \in Msgs : Copies(m)' \in Nat /\ Copies(m)' <= Copies(m)
          /\ (\A a \in Accounts : batch'[a] = {}) /\ \A w \in Workers : job'[w] = None
          /\ arming' = {} /\ current' = None /\ tasks' = {} /\ cmdQ' = <<>> /\ loopCmd' = None
      BY <1>8 DEF CrashRestart, sentVars, Mishaps, Copies, TypeOK
    <2>2. \A m \in Msgs : /\ ~Waiting(m)' /\ ~Sending(Loop, m)' /\ (HasRow(m)' <=> HasRow(m))
                          /\ Confirmed(AcctOf[m], m)' = 0 /\ Confirmed(Loop, m)' = 0
      BY <1>b, <2>1 DEF Waiting, Snapped, Sending, Confirmed, HasRow
    <2>3. \A m \in Msgs : ~Reaches(m)'
      BY <2>1, OutboxAssumption DEF Reaches, Commanded, InWindow
    <2>4. RowsConfirmed'
      BY <1>c, <1>d, <1>f, <2>1, <2>2, <2>3 DEF RowsConfirmed
    <2>5. CopiesToCome'
      BY <1>c, <1>f, <2>1, <2>2 DEF CopiesToCome
    <2> QED BY <2>4, <2>5
  <1>9. ASSUME NEW w \in Workers, CutOff(w) PROVE RowsConfirmed' /\ CopiesToCome'
    <2>1. /\ job'[w] = None /\ \A v \in Workers : v # w => job'[v] = job[v] /\ res'[v] = res[v]
          /\ \A a \in Accounts : batch'[a] \subseteq batch[a]
          /\ UNCHANGED rows /\ Mishaps' = Mishaps + 1
          /\ \A m \in Msgs : Copies(m)' = Copies(m) + (IF Sending(w, m) THEN 1 ELSE 0)
      BY <1>9 DEF CutOff, Copies, TypeOK
    <2>2. \A m \in Msgs : /\ (Waiting(m)' => Waiting(m)) /\ (Sending(Loop, m)' => Sending(Loop, m))
                          /\ (HasRow(m)' <=> HasRow(m))
      BY <1>b, <2>1 DEF Waiting, Snapped, Sending, HasRow
    <2>4. ASSUME NEW m \in Msgs
          PROVE  Confirmed(AcctOf[m], m) + Confirmed(Loop, m) + (IF Sending(w, m) THEN 1 ELSE 0)
                   <= Confirmed(AcctOf[m], m)' + Confirmed(Loop, m)' + 1
      <3>1. CASE w = Loop
        <4>1. Confirmed(AcctOf[m], m)' = Confirmed(AcctOf[m], m) /\ Confirmed(Loop, m)' = 0
          BY <1>b, <2>1, <3>1 DEF Confirmed
        <4> QED BY <1>d, <3>1, <4>1
      <3>2. CASE w = AcctOf[m]
        <4>1. Confirmed(Loop, m)' = Confirmed(Loop, m) /\ Confirmed(AcctOf[m], m)' = 0
          BY <1>b, <2>1, <3>2 DEF Confirmed
        <4>2. Sending(w, m) => Confirmed(AcctOf[m], m) = 0
          BY <3>2 DEF Sending, Confirmed
        <4> QED BY <1>d, <3>2, <4>1, <4>2
      <3>3. CASE w # Loop /\ w # AcctOf[m]
        <4>1. /\ Confirmed(Loop, m)' = Confirmed(Loop, m)
              /\ Confirmed(AcctOf[m], m)' = Confirmed(AcctOf[m], m)
          BY <1>b, <2>1, <3>3 DEF Confirmed
        <4> QED BY <1>d, <4>1
      <3> QED BY <3>1, <3>2, <3>3
    <2>5. RowsConfirmed'
      <3> SUFFICES ASSUME NEW m \in Msgs, HasRow(m)
                   PROVE  Copies(m)' <= Mishaps' + Confirmed(AcctOf[m], m)' + Confirmed(Loop, m)'
                                        + (IF Reaches(m)' THEN 0 ELSE 1)
        BY <2>2 DEF RowsConfirmed
      <3>1. Copies(m) <= Mishaps + Confirmed(AcctOf[m], m) + Confirmed(Loop, m) + (IF Reaches(m) THEN 0 ELSE 1)
        BY <1>f
      <3>2. (IF Reaches(m) THEN 0 ELSE 1) <= (IF Reaches(m)' THEN 0 ELSE 1)
        BY <1>r
      <3>3. (IF Reaches(m) THEN 0 ELSE 1) \in {0, 1} /\ (IF Reaches(m)' THEN 0 ELSE 1) \in {0, 1}
        OBVIOUS
      <3> QED BY <1>c, <1>d, <1>e, <2>1, <2>4, <3>1, <3>2, <3>3
    <2>6. CopiesToCome'
      BY <1>c, <1>f, <2>1, <2>2 DEF CopiesToCome
    <2> QED BY <2>5, <2>6
  <1>10. ASSUME NEW x \in Msgs, LateSend(x) PROVE RowsConfirmed' /\ CopiesToCome'
    <2>1. /\ \A m \in Msgs : Copies(m)' \in Nat /\ Copies(m)' <= Copies(m)
          /\ UNCHANGED <<rows, batch, job, res, Mishaps>>
      <3>1. /\ late[x] > 0 /\ late'[x] = late[x] - 1 /\ clean'[x] \in {clean[x], clean[x] + 1}
            /\ \A n \in Msgs : n # x => late'[n] = late[n] /\ clean'[n] = clean[n]
        BY <1>10, LateIs
      <3>2. \A m \in Msgs : late[m] \in Nat /\ clean[m] \in Nat
        BY DEF TypeOK
      <3>3. \A m \in Msgs : Copies(m)' \in Nat /\ Copies(m)' <= Copies(m)
        BY <3>1, <3>2 DEF Copies
      <3> QED BY <1>10, <3>3, LateIs DEF Mishaps
    <2>2. \A m \in Msgs : /\ (Waiting(m)' <=> Waiting(m)) /\ (Sending(Loop, m)' <=> Sending(Loop, m))
                          /\ (\A w : Confirmed(w, m)' = Confirmed(w, m)) /\ (HasRow(m)' <=> HasRow(m))
      BY <2>1 DEF Waiting, Snapped, Sending, Confirmed, HasRow
    <2>3. RowsConfirmed'
      BY <1>c, <1>d, <1>f, <1>r, <2>1, <2>2 DEF RowsConfirmed
    <2>4. CopiesToCome'
      BY <1>c, <1>f, <2>1, <2>2 DEF CopiesToCome
    <2> QED BY <2>3, <2>4
  <1> QED BY <1>1, <1>2, <1>3, <1>4, <1>5, <1>6, <1>7, <1>8, <1>9, <1>10, <1>g DEF Effect

-----------------------------------------------------------------------------
LEMMA BoundsAlways == Spec => [](TypeOK /\ LossInv /\ HeldInv /\ AutoInv /\ CopyInv)
  <1> DEFINE I == TypeOK /\ LossInv /\ HeldInv /\ AutoInv /\ CopyInv
  <1>1. Init => I
    BY InitType, InitLoss, HeldInit, AutoInit, CopyInit
  <1>2. I /\ [Next]_vars => I'
    <2> SUFFICES ASSUME I, [Next]_vars PROVE I'
      OBVIOUS
    <2>1. TypeOK' /\ LossInv' /\ RowsNamed /\ EntriesNamed /\ LoopHolds
      BY NextType, NextLoss DEF LossInv, CopyInv
    <2>2. HeldInv' /\ AutoInv'
      BY <2>1, Effects, HeldStep, AutoStep
    <2>3. CopyInv'
      BY <2>1, CopyStep, LoopHoldsStep DEF CopyInv
    <2> QED BY <2>1, <2>2, <2>3
  <1> QED BY <1>1, <1>2, PTL DEF Spec

(***************************************************************************)
(* ProcessOutbox and MarkOutboxFailed: the automatic retries of a message  *)
(* stay within its budget, one more for each death of the process, failed  *)
(* mark and credential update.                                             *)
(***************************************************************************)
THEOREM RetriesBounded == Spec => []AutoRetriesBounded
  <1>1. TypeOK /\ AutoInv => AutoRetriesBounded
    <2> SUFFICES ASSUME TypeOK, AutoInv, NEW m \in Msgs
                 PROVE  auto[m] <= MaxRetries + crashes + faults
      BY DEF AutoRetriesBounded
    <2>1. auto[m] <= MaxRetries + (crashes + faults)
      BY DEF AutoInv, AttemptsBounded, Mishaps
    <2>2. auto[m] \in Nat /\ MaxRetries \in Nat /\ crashes \in Nat /\ faults \in Nat
      BY OutboxAssumption DEF TypeOK
    <2> QED BY <2>1, <2>2
  <1> QED BY <1>1, BoundsAlways, PTL

(***************************************************************************)
(* execSend against ProcessOutbox: the two unsynchronised senders make at  *)
(* most two confirmed copies of a message, one more for each death, failed *)
(* mark and credential update.                                             *)
(***************************************************************************)
THEOREM FewCopies == Spec => []CopiesBounded
  <1>1. TypeOK /\ CopyInv => CopiesBounded
    <2> SUFFICES ASSUME TypeOK, CopyInv, NEW m \in Msgs
                 PROVE  clean[m] <= 2 + crashes + faults
      BY DEF CopiesBounded
    <2> DEFINE w == IF Waiting(m) THEN 1 ELSE 0
               l == IF Sending(Loop, m) THEN 1 ELSE 0
    <2>1. clean[m] \in Nat /\ late[m] \in Nat /\ crashes \in Nat /\ faults \in Nat
      BY DEF TypeOK
    <2>2. w \in {0, 1} /\ l \in {0, 1}
      OBVIOUS
    <2>3. clean[m] + late[m] + w + l <= 2 + (crashes + faults)
      BY DEF CopyInv, CopiesToCome, Copies, Mishaps
    <2> HIDE DEF w, l
    <2> QED BY <2>1, <2>2, <2>3
  <1> QED BY <1>1, BoundsAlways, PTL

=============================================================================
