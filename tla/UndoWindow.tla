----------------------------- MODULE UndoWindow -----------------------------
(***************************************************************************)
(* What the snackbar of ui/widgets/snackbar.go promises to the code that   *)
(* shows an undoable action: one action at a time can be undone; it        *)
(* commits when the window closes or another message takes its place.      *)
(* Snackbar is the detailed specification and is shown to implement this   *)
(* one; Outbox is built on it.                                             *)
(***************************************************************************)

CONSTANTS Actions,      \* the undoable actions
          None          \* no action: a plain status message

VARIABLES current,      \* the action an Undo tap would undo, or None
          armed,        \* "yes" while the commit of `current' is outstanding
          tasks         \* callbacks started with `go' and not yet run

windowVars == <<current, armed, tasks>>

CommitOf(a) == [cb |-> "commit", of |-> a]
UndoOf(a)   == [cb |-> "undo",   of |-> a]
Callbacks   == [cb : {"commit", "undo"}, of : Actions]

WindowTypeOK ==
    /\ current \in Actions \cup {None}
    /\ armed \in {"yes", "no"} /\ (armed = "yes" => current # None)
    /\ tasks \subseteq Callbacks

WindowInit == current = None /\ armed = "no" /\ tasks = {}

Committed == IF armed = "yes" THEN tasks \cup {CommitOf(current)} ELSE tasks

\* A new action, or a plain message (None), replaces the one on display.
Open(a) ==
    /\ current' = a
    /\ armed' = IF a = None THEN "no" ELSE "yes"
    /\ tasks' = Committed

\* The lifetime ends: the action commits, and can be undone until Close.
Expire ==
    /\ armed = "yes"
    /\ armed' = "no"
    /\ tasks' = Committed
    /\ UNCHANGED current

\* The slide-out ends.
Close ==
    /\ current # None /\ armed = "no"
    /\ current' = None
    /\ UNCHANGED <<armed, tasks>>

Undo ==
    /\ current # None
    /\ current' = None
    /\ armed' = "no"
    /\ tasks' = tasks \cup {UndoOf(current)}

Display == Expire \/ Close \/ Undo

\* A callback goroutine runs; its effect belongs to whoever showed the action.
Run(c) ==
    /\ c \in tasks
    /\ tasks' = tasks \ {c}
    /\ UNCHANGED <<current, armed>>

WindowNext ==
    \/ \E a \in Actions \cup {None} : Open(a)
    \/ Display
    \/ \E c \in tasks : Run(c)

WindowSpec == WindowInit /\ [][WindowNext]_windowVars
=============================================================================
