------------------------------- MODULE AppLock -------------------------------
(***************************************************************************)
(* The app lock: the PIN and authenticator factors (internal/applock), the *)
(* state that gates the interface (ui/state/lockstate.go and the snapshot  *)
(* of appstate.go), and the screens that drive it: the gate, the set-up    *)
(* screen (both ui/screens/lock.go) and the two-factor form of the         *)
(* settings (ui/screens/settings_security.go).                             *)
(*                                                                         *)
(* Every check runs in a goroutine of its own and reports to the screen    *)
(* that asked, which may have moved on by then.  A step of a goroutine is  *)
(* a keystore call, the update of the lockout rows, a section under the    *)
(* mutex, or its report.  PINs are typed in one step.  A code is right or  *)
(* wrong for the user's authenticator, and the secret enrolled is the      *)
(* authenticator's or a typo.                                              *)
(***************************************************************************)
EXTENDS Integers

CONSTANTS Pins,
          OldPin,        \* the PIN of a user who has one at the start
          None,
          FreeAttempts,  \* freeAttempts: 5
          LockoutBase,   \* lockoutBase, in units of the clock
          LockoutMax,    \* lockoutMax
          MaxTasks,      \* bound: goroutines at a time
          MaxTries,      \* bound: what the user does
          MaxTrouble     \* bound: calls that fail and deaths of the process, together

ASSUME LockAssumption ==
    /\ None \notin Pins /\ OldPin \in Pins
    /\ FreeAttempts \in Nat /\ LockoutBase \in Nat /\ LockoutMax \in Nat
    /\ MaxTasks \in Nat /\ MaxTries \in Nat /\ MaxTrouble \in Nat

VARIABLES
    \* persistent
    file,       \* the sealed file: the verifier and the shared secret
    fails,      \* app_lock_failures
    wait,       \* what is left of app_lock_locked_until
    \* the process
    ks,         \* the keystore's copy of the file in memory
    locked,     \* AppState.locked
    snap,       \* the Snapshot fields about the lock, and whether mail is in it
    refresh,    \* the refreshQueue channel
    loader,     \* the loader goroutine and the snapshot it builds
    lk,         \* the two Lock screens
    nav,        \* "lock" while the set-up screen is on top, else "settings"
    form,       \* the two-factor form
    task,       \* the goroutines in flight
    toast,      \* what the snackbar last said of the lock
    \* counters and history
    tries, faults, restarts,
    gated       \* since the process started, the gate was up or there was no PIN

storeVars == <<file, fails, wait, ks>>
stateVars == <<locked, snap, refresh, loader>>
uiVars == <<lk, nav, form, toast>>
histVars == <<tries, restarts, gated>>
countVars == <<faults, histVars>>
vars == <<storeVars, stateVars, uiVars, task, countVars>>

Secrets == {"mine", "typo"}
Sealed == [pin : Pins \cup {None}, totp : Secrets \cup {None}]
Screens == {"gate", "setup"}
Owners == Screens \cup {"enroll", "turnoff"}
Slots == 1..MaxTasks
Waits == 0..LockoutMax

Outcome == [ok : BOOLEAN, totpNext : BOOLEAN, retryAfter : Waits]
Lock == [intent : {"unlock", "enroll", "change", "disable", "disabled"},
         stage : {"current", "new", "confirm", "totp"},
         newPin : Pins \cup {None}, busy : BOOLEAN, til : Waits,
         pending : Outcome \cup {None}]

Ops == {"VerifyPIN", "VerifyTOTP", "Biometric", "SetPIN", "RemovePIN", "EnrollTOTP", "RemoveTOTP"}
Task == [op : Ops, for : Owners, pin : Pins \cup {None}, secret : Secrets \cup {None},
         code : BOOLEAN, ok : BOOLEAN, totpNext : BOOLEAN,
         pc : {"start", "check", "prompt", "drop", "count", "window", "clear", "second",
               "open", "report"}]

ASSUME NoneAssumption == None \notin Secrets /\ None \notin Task

Job(op, owner, pin, secret, code) ==
    [op |-> op, for |-> owner, pin |-> pin, secret |-> secret, code |-> code,
     ok |-> FALSE, totpNext |-> FALSE, pc |-> "start"]

\* Begin: what a screen looks like at the start of an intent.  The lockout
\* countdown of the screen is not reset.
Begun(intent, til) ==
    [intent |-> intent, stage |-> IF intent = "enroll" THEN "new" ELSE "current",
     newPin |-> None, busy |-> FALSE, til |-> til, pending |-> None]

NewScreens == [s \in Screens |-> Begun(IF s = "gate" THEN "unlock" ELSE "enroll", 0)]
NewForm == [mode |-> "idle", busy |-> FALSE, done |-> FALSE]
NewSnap == [locked |-> FALSE, enabled |-> FALSE, totp |-> FALSE, mail |-> FALSE]
NewLoader == [pc |-> "boot", enabled |-> FALSE, totp |-> FALSE]

Init ==
    /\ file \in {[pin |-> None, totp |-> None], [pin |-> OldPin, totp |-> None],
                [pin |-> OldPin, totp |-> "mine"]}
    /\ ks = file
    /\ fails = 0 /\ wait = 0
    /\ locked = FALSE /\ snap = NewSnap
    /\ refresh = TRUE /\ loader = NewLoader
    /\ lk = NewScreens /\ nav = "settings" /\ form = NewForm /\ toast = "none"
    /\ task = [i \in Slots |-> None]
    /\ tries = 0 /\ faults = 0 /\ restarts = 0
    /\ gated = (file.pin = None)

StoreOK ==
    /\ file \in Sealed /\ ks \in Sealed
    /\ fails \in Nat /\ wait \in Waits

StateOK ==
    /\ locked \in BOOLEAN
    /\ snap \in [locked : BOOLEAN, enabled : BOOLEAN, totp : BOOLEAN, mail : BOOLEAN]
    /\ refresh \in BOOLEAN
    /\ loader \in [pc : {"boot", "idle", "read", "commit"}, enabled : BOOLEAN, totp : BOOLEAN]

UiOK ==
    /\ lk \in [Screens -> Lock]
    /\ nav \in {"settings", "lock"}
    /\ form \in [mode : {"idle", "enrolling", "disabling"}, busy : BOOLEAN, done : BOOLEAN]
    /\ toast \in {"none", "on", "off"}

TaskOK == task \in [Slots -> Task \cup {None}]

CountOK ==
    /\ tries \in 0..MaxTries /\ faults \in 0..MaxTrouble /\ restarts \in 0..MaxTrouble
    /\ gated \in BOOLEAN

TypeOK == StoreOK /\ StateOK /\ UiOK /\ TaskOK /\ CountOK

\* A call that fails, and how often that may happen.
Fault == faults + restarts < MaxTrouble /\ faults' = faults + 1
NoFault == UNCHANGED faults

\* A goroutine is started.
Spawn(job) ==
    \E i \in Slots :
        /\ task[i] = None /\ \A j \in 1..(i - 1) : task[j] # None
        /\ task' = [task EXCEPT ![i] = job]

Try == tries < MaxTries /\ tries' = tries + 1
-----------------------------------------------------------------------------
(***************************************************************************)
(* The snapshot and its loader.                                            *)
(***************************************************************************)
SetLocked(b) ==
    /\ locked' = b
    /\ snap' = [snap EXCEPT !.locked = b]

\* Mutant: the loader does not wait for the first check of the PIN.
BootLate ==
    /\ loader.pc = "boot"
    /\ loader' = [loader EXCEPT !.pc = "idle"]
    /\ UNCHANGED <<storeVars, uiVars, task, locked, snap, refresh, countVars>>

\* The goroutine of New: locked when a PIN is set, before the first load.
BootChecks ==
    /\ loader.pc = "boot"
    /\ \/ /\ ks.pin # None /\ NoFault
          /\ locked' = TRUE
          /\ snap' = [snap EXCEPT !.locked = TRUE, !.enabled = TRUE]
       \/ /\ (ks.pin = None /\ NoFault) \/ Fault
          /\ UNCHANGED <<locked, snap>>
    /\ gated' = (gated \/ locked')
    /\ loader' = [loader EXCEPT !.pc = "idle"]
    /\ UNCHANGED <<storeVars, uiVars, task, refresh, tries, restarts>>

\* loaderLoop: the request is taken before the store is read.
LoaderTakes ==
    /\ loader.pc = "idle" /\ refresh
    /\ refresh' = FALSE
    /\ loader' = [loader EXCEPT !.pc = "read"]
    /\ UNCHANGED <<storeVars, uiVars, task, locked, snap, countVars>>

\* reload and loadPrefs; an error of the store gives the load up, one of the
\* keystore reads as "not enabled" for the factor that was asked about.
LoaderReads ==
    /\ loader.pc = "read"
    /\ \/ /\ NoFault
          /\ loader' = [pc |-> "commit", enabled |-> ks.pin # None, totp |-> ks.totp # None]
       \/ /\ Fault
          /\ loader' \in {[loader EXCEPT !.pc = "idle"],
                          [pc |-> "commit", enabled |-> FALSE, totp |-> ks.totp # None],
                          [pc |-> "commit", enabled |-> ks.pin # None, totp |-> FALSE]}
    /\ UNCHANGED <<storeVars, uiVars, task, locked, snap, refresh, histVars>>

\* Mutant: the Locked flag is not carried over.
CommitForgets ==
    /\ loader.pc = "commit"
    /\ snap' = [locked |-> FALSE, enabled |-> loader.enabled, totp |-> loader.totp, mail |-> TRUE]
    /\ loader' = [NewLoader EXCEPT !.pc = "idle"]
    /\ UNCHANGED <<storeVars, uiVars, task, locked, refresh, countVars>>

\* commit: the transient flags are those of now, not of when the load began.
Commit ==
    /\ loader.pc = "commit"
    /\ snap' = [locked |-> locked, enabled |-> loader.enabled, totp |-> loader.totp, mail |-> TRUE]
    /\ loader' = [NewLoader EXCEPT !.pc = "idle"]
    /\ UNCHANGED <<storeVars, uiVars, task, locked, refresh, countVars>>

\* LockNow, from the settings.
LockNow ==
    /\ ~snap.locked /\ nav = "settings" /\ snap.enabled /\ Try
    /\ SetLocked(TRUE)
    /\ UNCHANGED <<storeVars, uiVars, task, refresh, loader, faults, restarts, gated>>

\* MaybeAutoLock, in the first frame after a long gap.
MaybeAutoLock ==
    /\ snap.enabled /\ ~locked /\ Try
    /\ SetLocked(TRUE)
    /\ UNCHANGED <<storeVars, uiVars, task, refresh, loader, faults, restarts, gated>>

\* Time passes, for the lockout window and for the screens' countdowns.
Tick ==
    /\ wait > 0 \/ \E s \in Screens : lk[s].til > 0
    /\ wait' = IF wait > 0 THEN wait - 1 ELSE 0
    /\ lk' = [s \in Screens |-> [lk[s] EXCEPT !.til = IF @ > 0 THEN @ - 1 ELSE 0]]
    /\ UNCHANGED <<file, fails, ks, stateVars, nav, form, toast, task, countVars>>

-----------------------------------------------------------------------------
(***************************************************************************)
(* The lock screens.  The gate is drawn instead of everything else.        *)
(***************************************************************************)
Shown(s) == IF s = "gate" THEN snap.locked ELSE ~snap.locked /\ nav = "lock"

InFlight(s) == \E i \in Slots : task[i] # None /\ task[i].for = s

\* The switch and the Change PIN row of the settings.
OpenSetup(intent) ==
    /\ ~snap.locked /\ nav = "settings" /\ Try
    /\ intent = "enroll" <=> ~snap.enabled
    /\ lk' = [lk EXCEPT !["setup"] = Begun(intent, @.til)]
    /\ nav' = "lock" /\ toast' = "none"
    /\ UNCHANGED <<storeVars, stateVars, form, task, faults, restarts, gated>>

\* The back key, which busy does not hold up.
Back ==
    /\ ~snap.locked /\ nav = "lock"
    /\ nav' = "settings"
    /\ UNCHANGED <<storeVars, stateVars, lk, form, toast, task, countVars>>

\* submit.  The pad is disabled while busy or waiting.
Submit(s, pin, code) ==
    /\ Shown(s) /\ ~lk[s].busy /\ lk[s].til = 0 /\ Try
    /\ \/ /\ lk[s].stage = "new"
          /\ lk' = [lk EXCEPT ![s].newPin = pin, ![s].stage = "confirm"]
          /\ UNCHANGED task
       \/ /\ lk[s].stage = "confirm" /\ pin # lk[s].newPin
          /\ lk' = [lk EXCEPT ![s].stage = "new"]
          /\ UNCHANGED task
       \/ /\ lk[s].stage = "confirm" /\ pin = lk[s].newPin
          /\ lk' = [lk EXCEPT ![s].busy = TRUE]
          /\ Spawn(Job("SetPIN", s, pin, None, FALSE))
       \/ /\ lk[s].stage = "totp"
          /\ lk' = [lk EXCEPT ![s].busy = TRUE]
          /\ Spawn(Job("VerifyTOTP", s, None, None, code))
       \/ /\ lk[s].stage = "current"
          /\ lk' = [lk EXCEPT ![s].busy = TRUE]
          /\ Spawn(Job("VerifyPIN", s, pin, None, FALSE))
    /\ UNCHANGED <<storeVars, stateVars, nav, form, toast, faults, restarts, gated>>

\* promptBiometric: by itself once, and whenever its button is tapped.
PromptBiometric ==
    /\ Shown("gate") /\ lk["gate"].stage = "current" /\ snap.enabled
    /\ ~lk["gate"].busy /\ lk["gate"].til = 0 /\ Try
    /\ lk' = [lk EXCEPT !["gate"].busy = TRUE]
    /\ Spawn(Job("Biometric", "gate", None, None, FALSE))
    /\ UNCHANGED <<storeVars, stateVars, nav, form, toast, faults, restarts, gated>>

(***************************************************************************)
(* foldOutcome, in the next frame that draws the screen, and the Pop that  *)
(* follows when the flow is finished.                                      *)
(***************************************************************************)
Finish(s, msg) ==
    /\ lk' = [lk EXCEPT ![s].pending = None, ![s].busy = FALSE]
    /\ toast' = msg /\ nav' = "settings" /\ UNCHANGED task

FoldRefusal(s, o) ==
    /\ ~o.ok
    /\ lk' = [lk EXCEPT ![s].pending = None, ![s].busy = FALSE,
                        ![s].til = IF o.retryAfter > 0 THEN o.retryAfter ELSE @]
    /\ UNCHANGED <<nav, toast, task>>

FoldSuccess(s) ==
    LET l == lk[s] IN
    \/ l.stage = "confirm" /\ Finish(s, "on")
    \/ /\ l.stage # "confirm" /\ l.intent = "change"
       /\ lk' = [lk EXCEPT ![s].pending = None, ![s].busy = FALSE, ![s].stage = "new"]
       /\ UNCHANGED <<nav, toast, task>>
    \/ /\ l.stage # "confirm" /\ l.intent = "disable"
       /\ lk' = [lk EXCEPT ![s].pending = None, ![s].busy = TRUE, ![s].intent = "disabled"]
       /\ Spawn(Job("RemovePIN", s, None, None, FALSE))
       /\ UNCHANGED <<nav, toast>>
    \/ l.stage # "confirm" /\ l.intent = "disabled" /\ Finish(s, "off")
    \/ /\ l.stage # "confirm" /\ l.intent \in {"unlock", "enroll"}
       /\ lk' = [lk EXCEPT ![s] = Begun("unlock", l.til)]
       /\ UNCHANGED <<nav, toast, task>>

FoldOutcome(s) ==
    /\ Shown(s) /\ lk[s].pending # None
    /\ LET o == lk[s].pending IN
         \/ FoldRefusal(s, o)
         \/ /\ o.ok /\ o.totpNext
            /\ lk' = [lk EXCEPT ![s].pending = None, ![s].busy = FALSE, ![s].stage = "totp"]
            /\ UNCHANGED <<nav, toast, task>>
         \/ o.ok /\ ~o.totpNext /\ FoldSuccess(s)
    /\ UNCHANGED <<storeVars, stateVars, form, countVars>>

-----------------------------------------------------------------------------
(***************************************************************************)
(* The two-factor form of the settings, shown while a PIN is set.          *)
(***************************************************************************)
FormShown == ~snap.locked /\ nav = "settings"

TapTotp ==
    /\ FormShown /\ snap.enabled /\ Try
    /\ form' = [form EXCEPT !.mode = IF snap.totp THEN "disabling" ELSE "enrolling"]
    /\ UNCHANGED <<storeVars, stateVars, lk, nav, toast, task, faults, restarts, gated>>

CancelTotp ==
    /\ FormShown /\ snap.enabled /\ form.mode # "idle"
    /\ form' = [form EXCEPT !.mode = "idle"]
    /\ UNCHANGED <<storeVars, stateVars, lk, nav, toast, task, countVars>>

\* submitTOTP.  busy belongs to the flow, not to the mode.
SubmitTotp(secret, code) ==
    /\ FormShown /\ snap.enabled /\ form.mode # "idle" /\ ~form.busy /\ Try
    /\ form' = [form EXCEPT !.busy = TRUE]
    /\ Spawn(IF form.mode = "disabling" THEN Job("VerifyTOTP", "turnoff", None, None, code)
             ELSE Job("EnrollTOTP", "enroll", None, secret, code))
    /\ UNCHANGED <<storeVars, stateVars, lk, nav, toast, faults, restarts, gated>>

\* foldTOTPResult.
FoldTotp ==
    /\ FormShown /\ form.done
    /\ form' = [form EXCEPT !.done = FALSE, !.mode = "idle"]
    /\ UNCHANGED <<storeVars, stateVars, lk, nav, toast, task, countVars>>

-----------------------------------------------------------------------------
(***************************************************************************)
(* The goroutines.                                                         *)
(***************************************************************************)
At(i, op, pc) == task[i] # None /\ task[i].op = op /\ task[i].pc = pc

Goto(i, pc) == task' = [task EXCEPT ![i].pc = pc]
Answer(i, ok) == task' = [task EXCEPT ![i].ok = ok, ![i].pc = "report"]

\* The sealed keystore: a store or delete changes the copy in memory and
\* writes it; it may fail before or after the first of these.
Seal(new) == ks' = new /\ file' = new /\ NoFault
SealFails(new) == ks' \in {ks, new} /\ UNCHANGED file /\ Fault

TaskFrame == UNCHANGED <<stateVars, uiVars, histVars>>

\* Verify, VerifyTOTP and UnlockWithBiometric refuse while the window is open;
\* RetryDelay reads a store that fails as "no delay".
TaskStarts(i) ==
    /\ \/ At(i, "VerifyPIN", "start") \/ At(i, "VerifyTOTP", "start")
       \/ At(i, "Biometric", "start")
    /\ \/ NoFault /\ wait > 0 /\ Answer(i, FALSE)
       \/ NoFault /\ task[i].op = "Biometric" /\ ~snap.enabled /\ Answer(i, FALSE)
       \/ /\ (NoFault /\ wait = 0) \/ Fault
          /\ task[i].op = "Biometric" => snap.enabled
          /\ Goto(i, IF task[i].op = "Biometric" THEN "prompt" ELSE "check")
    /\ UNCHANGED storeVars /\ TaskFrame

Right(t) ==
    IF t.op = "VerifyPIN" THEN t.pin = ks.pin ELSE ks.totp = "mine" /\ t.code

Enrolled(t) == IF t.op = "VerifyPIN" THEN ks.pin # None ELSE ks.totp # None

\* The comparison; without a verifier or secret, or when the keystore fails,
\* an error that is not counted.
TaskChecks(i) ==
    /\ At(i, "VerifyPIN", "check") \/ At(i, "VerifyTOTP", "check")
    /\ \/ NoFault /\ ~Enrolled(task[i]) /\ Answer(i, FALSE)
       \/ Fault /\ Answer(i, FALSE)
       \/ NoFault /\ Enrolled(task[i]) /\ Right(task[i]) /\ Goto(i, "clear")
       \/ NoFault /\ Enrolled(task[i]) /\ ~Right(task[i]) /\ Goto(i, "count")
    /\ UNCHANGED storeVars /\ TaskFrame

\* lockoutAfter.
LockoutAfter(failures) ==
    LET steps == failures - FreeAttempts - 1
        capped(d) == IF d > LockoutMax THEN LockoutMax ELSE d
    IN  IF steps < 0 THEN 0 ELSE IF steps >= 5 THEN LockoutMax
        ELSE capped(LockoutBase * 2^steps)

\* recordFailure: the counter and then the window, which a death or a
\* failing statement may separate.
RecordFailure(i) ==
    /\ \E op \in {"VerifyPIN", "VerifyTOTP"} : At(i, op, "count")
    /\ \/ NoFault /\ fails' = fails + 1 /\ Goto(i, "window")
       \/ Fault /\ UNCHANGED fails /\ Answer(i, FALSE)
    /\ UNCHANGED <<file, wait, ks>> /\ TaskFrame

OpenWindow(i) ==
    /\ \E op \in {"VerifyPIN", "VerifyTOTP"} : At(i, op, "window")
    /\ \/ NoFault /\ wait' = IF LockoutAfter(fails) > 0 THEN LockoutAfter(fails) ELSE wait
       \/ Fault /\ UNCHANGED wait
    /\ Answer(i, FALSE)
    /\ UNCHANGED <<file, fails, ks>> /\ TaskFrame

\* clearLockout, two statements.  Its failure does not keep a right answer
\* out, but it makes Set and Remove fail.
ClearLockout(i) ==
    /\ task[i] # None /\ task[i].pc = "clear"
    /\ \/ NoFault /\ fails' = 0 /\ wait' = 0
       \/ Fault /\ fails' \in {fails, 0} /\ UNCHANGED wait
    /\ task' = [task EXCEPT ![i].ok = faults' = faults \/ task[i].op \in {"VerifyPIN", "VerifyTOTP"},
                            ![i].pc = IF task[i].op = "VerifyPIN" THEN "second"
                                      ELSE IF \/ task[i].op = "VerifyTOTP" /\ task[i].for = "gate"
                                              \/ task[i].op = "RemovePIN" /\ faults' = faults
                                           THEN "open" ELSE "report"]
    /\ UNCHANGED <<file, ks>> /\ TaskFrame

\* The prompt of the platform.
Authenticate(i) ==
    /\ At(i, "Biometric", "prompt")
    /\ \/ task' = [task EXCEPT ![i].ok = TRUE, ![i].pc = "second"]
       \/ Answer(i, FALSE)
    /\ UNCHANGED <<storeVars, stateVars, uiVars, countVars>>

\* TOTPEnabled; an error of the keystore reads as "not enrolled".
SecondFactor(i) ==
    /\ task[i] # None /\ task[i].pc = "second"
    /\ \/ /\ NoFault /\ ks.totp # None
          /\ task' = [task EXCEPT ![i].totpNext = TRUE, ![i].pc = "report"]
       \/ /\ (NoFault /\ ks.totp = None) \/ Fault
          /\ Goto(i, "open")
    /\ UNCHANGED storeVars /\ TaskFrame

\* unlock, and the end of RemovePIN, which also asks for a reload.
Unlock(i) ==
    /\ task[i] # None /\ task[i].pc = "open"
    /\ SetLocked(FALSE)
    /\ refresh' = (refresh \/ task[i].op = "RemovePIN")
    /\ Goto(i, "report")
    /\ UNCHANGED <<storeVars, loader, uiVars, countVars>>

\* Set up to the keystore.
StorePin(i) ==
    /\ At(i, "SetPIN", "start")
    /\ \/ Seal([ks EXCEPT !.pin = task[i].pin]) /\ Goto(i, "clear")
       \/ SealFails([ks EXCEPT !.pin = task[i].pin]) /\ Answer(i, FALSE)
    /\ UNCHANGED <<fails, wait>> /\ TaskFrame

\* RemovePIN: the second factor first, at best effort, and then Remove.
DropSecond(i) ==
    /\ At(i, "RemovePIN", "start")
    /\ \/ ks.totp = None /\ UNCHANGED <<ks, file>> /\ NoFault
       \/ ks.totp # None /\ Seal([ks EXCEPT !.totp = None])
       \/ SealFails([ks EXCEPT !.totp = None])
    /\ Goto(i, "drop")
    /\ UNCHANGED <<fails, wait>> /\ TaskFrame

DropPin(i) ==
    /\ At(i, "RemovePIN", "drop")
    /\ \/ Seal([ks EXCEPT !.pin = None]) /\ Goto(i, "clear")
       \/ SealFails([ks EXCEPT !.pin = None]) /\ Answer(i, FALSE)
    /\ UNCHANGED <<fails, wait>> /\ TaskFrame

\* EnrollTOTP, whose callback goes on with the check of one code.
EnrollTotp(i) ==
    /\ At(i, "EnrollTOTP", "start")
    /\ \/ /\ Seal([ks EXCEPT !.totp = task[i].secret])
          /\ refresh' = TRUE
          /\ task' = [task EXCEPT ![i].op = "VerifyTOTP"]
          /\ UNCHANGED form
       \/ /\ SealFails([ks EXCEPT !.totp = task[i].secret])
          /\ task' = [task EXCEPT ![i] = None]
          /\ form' = [form EXCEPT !.busy = FALSE]
          /\ UNCHANGED refresh
    /\ UNCHANGED <<fails, wait, locked, snap, loader, lk, nav, toast, histVars>>

\* RemoveTOTP: to turn the factor off, or to take a failed enrolment back.
\* Only the first reports to the form.
RemoveTotp(i) ==
    /\ At(i, "RemoveTOTP", "start")
    /\ \/ Seal([ks EXCEPT !.totp = None]) /\ refresh' = TRUE
       \/ SealFails([ks EXCEPT !.totp = None]) /\ UNCHANGED refresh
    /\ form' = IF task[i].for = "enroll" THEN form
               ELSE [form EXCEPT !.busy = FALSE, !.done = @ \/ faults' = faults]
    /\ task' = [task EXCEPT ![i] = None]
    /\ UNCHANGED <<fails, wait, locked, snap, loader, lk, nav, toast, histVars>>

\* Mutant: a wrong code leaves the secret where it is.
ReportKeepsSecret(i) ==
    /\ task[i] # None /\ task[i].pc = "report" /\ task[i].for \in {"enroll", "turnoff"}
    /\ LET t == task[i] IN
         IF t.ok /\ t.for = "turnoff"
         THEN task' = [task EXCEPT ![i] = Job("RemoveTOTP", t.for, None, None, FALSE)] /\ UNCHANGED form
         ELSE /\ task' = [task EXCEPT ![i] = None]
              /\ form' = [form EXCEPT !.busy = FALSE, !.done = @ \/ t.ok]
    /\ UNCHANGED <<storeVars, stateVars, lk, nav, toast, countVars>>

\* The callbacks of submitTOTP.
ReportForm(i) ==
    /\ task[i] # None /\ task[i].pc = "report" /\ task[i].for \in {"enroll", "turnoff"}
    /\ LET t == task[i] IN
         /\ task' = [task EXCEPT ![i] = IF t.ok = (t.for = "turnoff")
                                        THEN Job("RemoveTOTP", t.for, None, None, FALSE) ELSE None]
         /\ form' = IF t.ok /\ t.for = "turnoff" THEN form
                    ELSE [form EXCEPT !.busy = FALSE, !.done = @ \/ t.ok]
    /\ UNCHANGED <<storeVars, stateVars, lk, nav, toast, countVars>>

\* Mutant: a biometric that is refused reports to nobody.
ReportSome(i) ==
    /\ task[i] # None /\ task[i].pc = "report" /\ task[i].for \in Screens
    /\ LET t == task[i]
           o == [ok |-> t.ok, totpNext |-> t.totpNext,
                 retryAfter |-> IF t.ok \/ t.op \notin {"VerifyPIN", "VerifyTOTP"} THEN 0 ELSE wait]
       IN  /\ lk' = IF t.op = "Biometric" /\ ~t.ok THEN lk ELSE [lk EXCEPT ![t.for].pending = o]
           /\ refresh' = (refresh \/ (t.op = "SetPIN" /\ t.ok))
    /\ task' = [task EXCEPT ![i] = None]
    /\ UNCHANGED <<storeVars, locked, snap, loader, nav, form, toast, countVars>>

\* deliver; SetPIN asks for a reload before.
Report(i) ==
    /\ task[i] # None /\ task[i].pc = "report" /\ task[i].for \in Screens
    /\ LET t == task[i]
           o == [ok |-> t.ok, totpNext |-> t.totpNext,
                 retryAfter |-> IF t.ok \/ t.op \notin {"VerifyPIN", "VerifyTOTP"} THEN 0 ELSE wait]
       IN  /\ lk' = [lk EXCEPT ![t.for].pending = o]
           /\ refresh' = (refresh \/ (t.op = "SetPIN" /\ t.ok))
    /\ task' = [task EXCEPT ![i] = None]
    /\ UNCHANGED <<storeVars, locked, snap, loader, nav, form, toast, countVars>>

\* The process dies and starts again; the keystore is read from its file.
Restart ==
    /\ faults + restarts < MaxTrouble /\ restarts' = restarts + 1
    /\ ks' = file /\ gated' = (file.pin = None)
    /\ locked' = FALSE /\ snap' = NewSnap /\ refresh' = TRUE /\ loader' = NewLoader
    /\ lk' = NewScreens /\ nav' = "settings" /\ form' = NewForm /\ toast' = "none"
    /\ task' = [i \in Slots |-> None]
    /\ UNCHANGED <<file, fails, wait, tries, faults>>

-----------------------------------------------------------------------------
TaskStep(i) ==
    \/ TaskStarts(i) \/ TaskChecks(i) \/ RecordFailure(i) \/ OpenWindow(i) \/ ClearLockout(i)
    \/ Authenticate(i) \/ SecondFactor(i) \/ Unlock(i)
    \/ StorePin(i) \/ DropSecond(i) \/ DropPin(i)
    \/ EnrollTotp(i) \/ RemoveTotp(i) \/ ReportForm(i) \/ Report(i)

LoaderStep == BootChecks \/ LoaderTakes \/ LoaderReads \/ Commit

UserStep ==
    \/ \E intent \in {"enroll", "change", "disable"} : OpenSetup(intent)
    \/ \E s \in Screens, pin \in Pins, code \in BOOLEAN : Submit(s, pin, code)
    \/ \E secret \in Secrets, code \in BOOLEAN : SubmitTotp(secret, code)
    \/ LockNow \/ MaybeAutoLock \/ Back \/ PromptBiometric \/ TapTotp \/ CancelTotp

Next ==
    \/ LoaderStep \/ UserStep \/ Tick \/ FoldTotp \/ Restart
    \/ \E s \in Screens : FoldOutcome(s)
    \/ \E i \in Slots : TaskStep(i)

Spec == Init /\ [][Next]_vars

\* Goroutines run, and the frame that deliver asked for is drawn.
FairSpec ==
    /\ Spec
    /\ WF_vars(LoaderStep) /\ WF_vars(FoldOutcome("gate"))
    /\ \A i \in Slots : WF_vars(TaskStep(i))

-----------------------------------------------------------------------------
(***************************************************************************)
(* The two copies of the locked flag agree: a snapshot that was being      *)
(* built while the app was locked or unlocked does not undo that.          *)
(***************************************************************************)
LockSurvivesReload == snap.locked = locked

(***************************************************************************)
(* "The lock screen is the first thing an enrolled user sees"              *)
(* (appstate.go:167): no mail is in the snapshot of a process that found a *)
(* PIN and has not had its gate up.  It takes that no call failed.         *)
(***************************************************************************)
GateComesFirst == snap.mail /\ faults = 0 => gated

(***************************************************************************)
(* A mistyped secret stays enrolled only when the process died or a call   *)
(* failed under the enrolment: otherwise the flow that stored it is under  *)
(* way and will take it back (settings_security.go:137, "so a typo can     *)
(* never lock the user out").                                              *)
(***************************************************************************)
TypoIsTakenBack ==
    ks.totp = "typo" /\ faults + restarts = 0 => InFlight("enroll")

(***************************************************************************)
(* The gate never hangs: whatever it is busy with is answered, or it is    *)
(* gone.                                                                   *)
(***************************************************************************)
GateAnswers == locked /\ lk["gate"].busy ~> ~lk["gate"].busy \/ ~locked

=============================================================================
