------------------------------ MODULE Snackbar ------------------------------
(***************************************************************************)
(* ui/widgets/snackbar.go: the one transient bar that carries an Undo      *)
(* affordance.  The pending action commits when the bar expires, or when   *)
(* another message replaces it, and is undone when Undo is tapped first.   *)
(* Show is called from any goroutine; Layout runs on the window goroutine  *)
(* in two critical sections (expiry, then the tap) with the mutex released *)
(* between them, so a Show can fall between the two.                       *)
(*                                                                         *)
(* A callback is named by the action it was shown for.  `go onCommit()'    *)
(* and `go onUndo()' put the callback in `started'; what a callback does   *)
(* is the business of the module that uses the bar (see Outbox).           *)
(***************************************************************************)

CONSTANTS Actions,      \* the undoable actions, each shown at most once
          NoAction      \* "no callback": a plain ShowInfo message

ASSUME NoActionAssumption == NoAction \notin Actions

VARIABLES bar,          \* the Snackbar struct: visible, hiding, onUndo, onCommit
          frame,        \* "idle", or what the frame in progress lays out
          button,       \* the last complete frame laid out the Undo button
          started,      \* callbacks started with `go' and not yet run
          shown,        \* actions handed to Show so far (history)
          done          \* callbacks that have run (history)

barVars == <<bar, frame, button, started, shown, done>>

CommitOf(a) == [cb |-> "commit", of |-> a]
UndoOf(a)   == [cb |-> "undo",   of |-> a]
Callbacks   == [cb : {"commit", "undo"}, of : Actions]

Hidden == [visible |-> "no", hiding |-> "no", undo |-> NoAction, commit |-> NoAction]

BarTypeOK ==
    /\ bar \in [visible : {"yes", "no"}, hiding : {"yes", "no"},
                undo : Actions \cup {NoAction}, commit : Actions \cup {NoAction}]
    /\ frame \in {"idle", "plain", "undo"}
    /\ button \in {"yes", "no"}
    /\ shown \subseteq Actions
    /\ started \subseteq Callbacks
    /\ done \subseteq Callbacks

BarInit ==
    /\ bar = Hidden
    /\ frame = "idle"
    /\ button = "no"
    /\ shown = {}
    /\ started = {}
    /\ done = {}

(***************************************************************************)
(* The callback `go' starts, if there is one.                              *)
(***************************************************************************)
Go(cb, a) == IF a = NoAction THEN {} ELSE {[cb |-> cb, of |-> a]}

\* Mutant: the replaced action is forgotten instead of committed.
ShowDropsPending(a) ==
    /\ bar' = [visible |-> "yes", hiding |-> "no", undo |-> a, commit |-> a]
    /\ shown' = shown \cup ({a} \ {NoAction})
    /\ UNCHANGED <<frame, button, started, done>>

(***************************************************************************)
(* Show(msg, onUndo, onCommit); ShowInfo(msg) is Show(NoAction).  A        *)
(* pending commit fires at once when its bar is replaced.                  *)
(***************************************************************************)
Show(a) ==
    /\ bar' = [visible |-> "yes", hiding |-> "no", undo |-> a, commit |-> a]
    /\ started' = started \cup
                    (IF bar.visible = "yes" THEN Go("commit", bar.commit) ELSE {})
    /\ shown' = shown \cup ({a} \ {NoAction})
    /\ UNCHANGED <<frame, button, done>>

ButtonOf(a) == IF a = NoAction THEN "plain" ELSE "undo"

(***************************************************************************)
(* Layout, first critical section.  Three outcomes: the bar holds, its     *)
(* lifetime is over (it starts to slide out and commits), or the slide-out *)
(* is over (it disappears and the frame returns early).                    *)
(***************************************************************************)
LayoutHold ==
    /\ frame = "idle" /\ bar.visible = "yes"
    /\ frame' = ButtonOf(bar.undo)
    /\ UNCHANGED <<bar, button, started, shown, done>>

\* Mutant: expiry starts the slide-out but leaves the commit callback armed.
ExpireKeepsCommit ==
    /\ frame = "idle" /\ bar.visible = "yes" /\ bar.hiding = "no"
    /\ bar' = [bar EXCEPT !.hiding = "yes"]
    /\ started' = started \cup Go("commit", bar.commit)
    /\ frame' = ButtonOf(bar.undo)
    /\ UNCHANGED <<button, shown, done>>

LayoutExpire ==
    /\ frame = "idle" /\ bar.visible = "yes" /\ bar.hiding = "no"
    /\ bar' = [bar EXCEPT !.hiding = "yes", !.commit = NoAction]
    /\ started' = started \cup Go("commit", bar.commit)
    /\ frame' = ButtonOf(bar.undo)
    /\ UNCHANGED <<button, shown, done>>

LayoutGone ==
    /\ frame = "idle" /\ bar.visible = "yes" /\ bar.hiding = "yes"
    /\ bar' = [bar EXCEPT !.visible = "no"]
    /\ button' = "no"
    /\ UNCHANGED <<frame, started, shown, done>>

(***************************************************************************)
(* Layout, second critical section: the tap on the button the previous     *)
(* frame laid out.  It undoes whatever the bar holds NOW.                  *)
(***************************************************************************)
UndoClicked ==
    /\ frame # "idle" /\ button = "yes"
    /\ bar' = [bar EXCEPT !.undo = NoAction, !.commit = NoAction, !.hiding = "yes"]
    /\ started' = started \cup Go("undo", bar.undo)
    /\ frame' = "idle"
    /\ button' = IF frame = "undo" THEN "yes" ELSE "no"
    /\ UNCHANGED <<shown, done>>

NotClicked ==
    /\ frame # "idle"
    /\ frame' = "idle"
    /\ button' = IF frame = "undo" THEN "yes" ELSE "no"
    /\ UNCHANGED <<bar, started, shown, done>>

\* A callback goroutine gets to run.
RunCallback ==
    \E c \in started :
        /\ started' = started \ {c}
        /\ done' = done \cup {c}
        /\ UNCHANGED <<bar, frame, button, shown>>

Layout == LayoutHold \/ LayoutExpire \/ LayoutGone \/ UndoClicked \/ NotClicked

-----------------------------------------------------------------------------
(***************************************************************************)
(* The bar on its own: actions and plain messages arrive at any moment.    *)
(***************************************************************************)
BarNext ==
    \/ \E a \in Actions \ shown : Show(a)
    \/ Show(NoAction)
    \/ Layout
    \/ RunCallback

(***************************************************************************)
(* Wake is a one-shot timer at the expiry, so while the window is on screen *)
(* a frame does come after the lifetime is over; the frames before it only *)
(* delay it (hence SF, not WF).  A frame in progress ends.                 *)
(***************************************************************************)
BarFairness ==
    /\ SF_barVars(LayoutExpire)
    /\ SF_barVars(LayoutGone)
    /\ WF_barVars(UndoClicked \/ NotClicked)

BarSpec == BarInit /\ [][BarNext]_barVars /\ BarFairness

-----------------------------------------------------------------------------
Fired == started \cup done

(***************************************************************************)
(* Every shown action is eventually committed or undone, as long as frames *)
(* keep coming (line 65: "One wake at expiry").                            *)
(***************************************************************************)
EveryActionSettles ==
    \A a \in Actions :
        a \in shown ~> (CommitOf(a) \in Fired \/ UndoOf(a) \in Fired)

(***************************************************************************)
(* A commit callback is held only by a bar that is up and not sliding out, *)
(* for the action its Undo would undo; a frame that lays out the bar sees  *)
(* it visible until it ends.                                               *)
(***************************************************************************)
CommitInv ==
    /\ bar.commit # NoAction =>
          bar.visible = "yes" /\ bar.hiding = "no" /\ bar.undo = bar.commit
    /\ frame # "idle" => bar.visible = "yes"

(***************************************************************************)
(* The bar, with its frames, slides and two-part Layout, implements the    *)
(* undo window its users see: the expiry, the replacement and the tap each *)
(* map to one step of the window.                                          *)
(***************************************************************************)
BarWindow == INSTANCE UndoWindow WITH
              current <- IF bar.visible = "yes" THEN bar.undo ELSE NoAction,
              armed   <- IF bar.commit = NoAction THEN "no" ELSE "yes",
              tasks   <- started,
              None    <- NoAction
ImplementsWindow == BarWindow!WindowSpec
=============================================================================
