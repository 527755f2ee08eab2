---------------------------- MODULE AppLockProofs ----------------------------
(***************************************************************************)
(* Type correctness of AppLock and its three invariants, for any set of    *)
(* PINs, any lockout schedule, any number of goroutines, of tries of the   *)
(* user, of failing calls and of deaths of the process.                    *)
(***************************************************************************)
EXTENDS AppLock, TLAPS

(***************************************************************************)
(* lockoutAfter stays between no delay and lockoutMax, whatever the        *)
(* counter of failures says.                                               *)
(***************************************************************************)
LEMMA LockoutBounded ==
    ASSUME NEW n \in Nat
    PROVE  LockoutAfter(n) \in Waits
  <1> DEFINE steps == n - FreeAttempts - 1
  <1> USE LockAssumption
  <1>1. CASE steps < 0 \/ steps >= 5
    BY <1>1 DEF LockoutAfter, Waits
  <1>2. CASE steps \in 0..4
    <2>1. 2^0 \in Nat /\ 2^1 \in Nat /\ 2^2 \in Nat /\ 2^3 \in Nat /\ 2^4 \in Nat
      OBVIOUS
    <2>2. 2^steps \in Nat
      <3>1. steps = 0 \/ steps = 1 \/ steps = 2 \/ steps = 3 \/ steps = 4
        BY <1>2
      <3> HIDE DEF steps
      <3> QED BY <2>1, <3>1
    <2>3. LockoutBase * 2^steps \in Nat
      <3> DEFINE p == 2^steps
      <3> HIDE DEF p
      <3>1. p \in Nat
        BY <2>2 DEF p
      <3>2. LockoutBase * p \in Nat
        BY <3>1
      <3> QED BY <3>2 DEF p
    <2> DEFINE d == LockoutBase * 2^steps
    <2> HIDE DEF d
    <2>4. LockoutAfter(n) = IF d > LockoutMax THEN LockoutMax ELSE d
      BY <1>2 DEF LockoutAfter, d
    <2> QED BY <2>3, <2>4 DEF d, Waits
  <1> QED BY <1>1, <1>2

(***************************************************************************)
(* Starting a goroutine, and letting one go on, keep the table of          *)
(* goroutines one.                                                         *)
(***************************************************************************)
LEMMA SpawnType ==
    ASSUME TypeOK, NEW job \in Task, Spawn(job)
    PROVE  TaskOK'
  BY DEF TypeOK, TaskOK, Spawn

LEMMA JobType ==
    ASSUME NEW op \in Ops, NEW owner \in Owners, NEW pin \in Pins \cup {None},
           NEW secret \in Secrets \cup {None}, NEW code \in BOOLEAN
    PROVE  Job(op, owner, pin, secret, code) \in Task
  BY DEF Job, Task

LEMMA GotoType ==
    ASSUME TypeOK, NEW i \in Slots, task[i] # None
    PROVE  /\ task[i] \in Task
           /\ \A pc \in {"start", "check", "prompt", "drop", "count", "window", "clear",
                         "second", "open", "report"} :
                 Goto(i, pc) => TaskOK'
           /\ \A ok \in BOOLEAN : Answer(i, ok) => TaskOK'
  <1> USE DEF TypeOK, TaskOK
  <1>1. task[i] \in Task
    OBVIOUS
  <1> QED BY <1>1 DEF Goto, Answer, Task

(***************************************************************************)
(* What a screen looks like at the start of an intent is a Lock.           *)
(***************************************************************************)
LEMMA BegunType ==
    ASSUME NEW intent \in {"unlock", "enroll", "change", "disable", "disabled"},
           NEW til \in Waits
    PROVE  Begun(intent, til) \in Lock
  BY DEF Begun, Lock

(***************************************************************************)
(* Type correctness.                                                       *)
(***************************************************************************)
LEMMA InitType == Init => TypeOK
  <1> SUFFICES ASSUME Init PROVE TypeOK
    OBVIOUS
  <1> USE LockAssumption
  <1>1. NewScreens \in [Screens -> Lock]
    BY BegunType DEF NewScreens, Screens, Waits
  <1>2. StoreOK
    BY DEF Init, StoreOK, Sealed, Secrets, Waits
  <1>3. StateOK
    BY DEF Init, StateOK, NewSnap, NewLoader
  <1>4. UiOK
    BY <1>1 DEF Init, UiOK, NewForm
  <1>5. TaskOK
    BY DEF Init, TaskOK
  <1>6. CountOK
    <2>1. gated \in BOOLEAN
      BY Zenon DEF Init
    <2> QED BY <2>1 DEF Init, CountOK
  <1> QED BY <1>2, <1>3, <1>4, <1>5, <1>6 DEF TypeOK

(***************************************************************************)
(* What leaves a group of variables alone keeps their types; the counters  *)
(* stay within their bounds.                                               *)
(***************************************************************************)
LEMMA UnchangedType ==
    ASSUME TypeOK
    PROVE  /\ UNCHANGED storeVars => StoreOK'
           /\ UNCHANGED stateVars => StateOK'
           /\ UNCHANGED uiVars => UiOK'
           /\ UNCHANGED task => TaskOK'
           /\ UNCHANGED countVars => CountOK'
  <1>1. UNCHANGED storeVars => StoreOK'
    BY DEF TypeOK, StoreOK, storeVars
  <1>2. UNCHANGED stateVars => StateOK'
    BY DEF TypeOK, StateOK, stateVars
  <1>3. UNCHANGED uiVars => UiOK'
    BY DEF TypeOK, UiOK, uiVars
  <1>4. UNCHANGED task => TaskOK'
    BY DEF TypeOK, TaskOK
  <1>5. UNCHANGED countVars => CountOK'
    BY DEF TypeOK, CountOK, countVars, histVars
  <1> QED BY <1>1, <1>2, <1>3, <1>4, <1>5

LEMMA CountType ==
    ASSUME TypeOK
    PROVE  /\ NoFault /\ UNCHANGED histVars => CountOK'
           /\ Fault /\ UNCHANGED histVars => CountOK'
           /\ Try /\ UNCHANGED <<faults, restarts, gated>> => CountOK'
  <1> USE LockAssumption DEF TypeOK, CountOK, histVars
  <1>1. NoFault /\ UNCHANGED histVars => CountOK'
    BY DEF NoFault
  <1>2. Fault /\ UNCHANGED histVars => CountOK'
    BY DEF Fault
  <1>3. Try /\ UNCHANGED <<faults, restarts, gated>> => CountOK'
    BY DEF Try
  <1> QED BY <1>1, <1>2, <1>3

LEMMA NextType == TypeOK /\ [Next]_vars => TypeOK'
  <1> SUFFICES ASSUME TypeOK, [Next]_vars PROVE TypeOK'
    OBVIOUS
  <1> USE LockAssumption DEF TypeOK
  <1>a. /\ UNCHANGED storeVars => StoreOK'
        /\ UNCHANGED stateVars => StateOK'
        /\ UNCHANGED uiVars => UiOK'
        /\ UNCHANGED task => TaskOK'
        /\ UNCHANGED countVars => CountOK'
    BY UnchangedType
  <1>b. /\ NoFault /\ UNCHANGED histVars => CountOK'
        /\ Fault /\ UNCHANGED histVars => CountOK'
        /\ Try /\ UNCHANGED <<faults, restarts, gated>> => CountOK'
    BY CountType
  <1>1. ASSUME LoaderStep PROVE TypeOK'
    <2>1. CASE BootChecks
      <3>1. StateOK'
        <4>1. locked' \in BOOLEAN
          BY <2>1 DEF BootChecks, StateOK
        <4>2. snap' \in [locked : BOOLEAN, enabled : BOOLEAN, totp : BOOLEAN, mail : BOOLEAN]
          BY <2>1 DEF BootChecks, StateOK
        <4> QED BY <2>1, <4>1, <4>2 DEF BootChecks, StateOK
      <3>2. CountOK'
        <4>1. gated' \in BOOLEAN
          BY <2>1, Zenon DEF BootChecks
        <4> QED BY <2>1, <4>1 DEF BootChecks, CountOK, Fault, NoFault
      <3> QED BY <1>a, <2>1, <3>1, <3>2 DEF BootChecks
    <2>2. CASE LoaderTakes
      <3>1. StateOK'
        BY <2>2 DEF LoaderTakes, StateOK
      <3> QED BY <1>a, <2>2, <3>1 DEF LoaderTakes
    <2>3. CASE LoaderReads
      <3>1. StateOK'
        <4>1. loader' \in [pc : {"boot", "idle", "read", "commit"}, enabled : BOOLEAN,
                           totp : BOOLEAN]
          <5> DEFINE e == ks.pin # None
                     t == ks.totp # None
          <5>1. e \in BOOLEAN /\ t \in BOOLEAN
            BY Zenon
          <5>2. loader' \in {[loader EXCEPT !.pc = "idle"],
                             [pc |-> "commit", enabled |-> e, totp |-> t],
                             [pc |-> "commit", enabled |-> FALSE, totp |-> t],
                             [pc |-> "commit", enabled |-> e, totp |-> FALSE]}
            BY <2>3 DEF LoaderReads
          <5> HIDE DEF e, t
          <5>3. [loader EXCEPT !.pc = "idle"] \in [pc : {"boot", "idle", "read", "commit"},
                                                   enabled : BOOLEAN, totp : BOOLEAN]
            BY DEF StateOK
          <5>4. \A x, y \in BOOLEAN :
                  [pc |-> "commit", enabled |-> x, totp |-> y]
                     \in [pc : {"boot", "idle", "read", "commit"}, enabled : BOOLEAN, totp : BOOLEAN]
            OBVIOUS
          <5> QED BY <5>1, <5>2, <5>3, <5>4, Zenon
        <4> QED BY <2>3, <4>1 DEF LoaderReads, StateOK
      <3> QED BY <1>a, <1>b, <2>3, <3>1 DEF LoaderReads
    <2>4. CASE Commit
      <3>1. StateOK'
        BY <2>4 DEF Commit, StateOK, NewLoader
      <3> QED BY <1>a, <2>4, <3>1 DEF Commit
    <2> QED BY <1>1, <2>1, <2>2, <2>3, <2>4 DEF LoaderStep
  <1>2. ASSUME NEW intent \in {"enroll", "change", "disable"}, OpenSetup(intent) PROVE TypeOK'
    <2>1. Begun(intent, lk["setup"].til) \in Lock
      <3>1. lk["setup"].til \in Waits
        BY DEF UiOK, Screens, Lock
      <3> QED BY <3>1, BegunType
    <2>2. UiOK'
      BY <1>2, <2>1 DEF OpenSetup, UiOK
    <2> QED BY <1>a, <1>b, <1>2, <2>2 DEF OpenSetup
  <1>3. ASSUME NEW s \in Screens, NEW pin \in Pins, NEW code \in BOOLEAN, Submit(s, pin, code)
        PROVE TypeOK'
    <2>1. UiOK'
      <3>1. lk' \in [Screens -> Lock]
        <4>1. lk[s] \in Lock
          BY DEF UiOK
        <4>2. lk' \in {[lk EXCEPT ![s].newPin = pin, ![s].stage = "confirm"],
                       [lk EXCEPT ![s].stage = "new"], [lk EXCEPT ![s].busy = TRUE]}
          BY <1>3 DEF Submit
        <4>3. [lk[s] EXCEPT !.newPin = pin, !.stage = "confirm"] \in Lock
          BY <4>1 DEF Lock
        <4>4. /\ [lk[s] EXCEPT !.stage = "new"] \in Lock
              /\ [lk[s] EXCEPT !.busy = TRUE] \in Lock
          BY <4>1 DEF Lock
        <4> QED BY <4>2, <4>3, <4>4 DEF UiOK
      <3> QED BY <1>3, <3>1 DEF UiOK, Submit
    <2>2. TaskOK'
      <3>1. /\ Job("SetPIN", s, pin, None, FALSE) \in Task
            /\ Job("VerifyTOTP", s, None, None, code) \in Task
            /\ Job("VerifyPIN", s, pin, None, FALSE) \in Task
        BY JobType DEF Ops, Owners
      <3> QED BY <1>a, <1>3, <3>1, SpawnType DEF Submit
    <2> QED BY <1>a, <1>b, <1>3, <2>1, <2>2 DEF Submit
  <1>4. ASSUME NEW secret \in Secrets, NEW code \in BOOLEAN, SubmitTotp(secret, code)
        PROVE TypeOK'
    <2>1. UiOK'
      BY <1>4 DEF UiOK, SubmitTotp
    <2>2. TaskOK'
      <3>1. /\ Job("VerifyTOTP", "turnoff", None, None, code) \in Task
            /\ Job("EnrollTOTP", "enroll", None, secret, code) \in Task
        BY JobType DEF Ops, Owners
      <3> QED BY <1>4, <3>1, SpawnType DEF SubmitTotp
    <2> QED BY <1>a, <1>b, <1>4, <2>1, <2>2 DEF SubmitTotp
  <1>5. ASSUME LockNow \/ MaybeAutoLock PROVE TypeOK'
    <2>1. SetLocked(TRUE) /\ UNCHANGED <<refresh, loader>>
      BY <1>5 DEF LockNow, MaybeAutoLock
    <2>2. StateOK'
      BY <2>1 DEF SetLocked, StateOK
    <2> QED BY <1>a, <1>b, <1>5, <2>2 DEF LockNow, MaybeAutoLock
  <1>6. ASSUME Back \/ TapTotp \/ CancelTotp \/ FoldTotp PROVE TypeOK'
    <2>1. UiOK'
      <3>1. CASE Back
        BY <3>1 DEF UiOK, Back
      <3>2. CASE TapTotp \/ CancelTotp
        BY <3>2 DEF UiOK, TapTotp, CancelTotp
      <3>3. CASE FoldTotp
        BY <3>3 DEF UiOK, FoldTotp
      <3> QED BY <1>6, <3>1, <3>2, <3>3
    <2> QED BY <1>a, <1>b, <1>6, <2>1 DEF Back, TapTotp, CancelTotp, FoldTotp
  <1>7. ASSUME PromptBiometric PROVE TypeOK'
    <2>1. UiOK'
      <3>a. lk \in [Screens -> Lock] /\ lk["gate"] \in Lock
        BY DEF UiOK, Screens
      <3>b. [lk["gate"] EXCEPT !.busy = TRUE] \in Lock
        BY <3>a DEF Lock
      <3>1. lk' \in [Screens -> Lock]
        BY <1>7, <3>a, <3>b DEF PromptBiometric
      <3> QED BY <1>7, <3>1 DEF UiOK, PromptBiometric
    <2>2. TaskOK'
      <3>1. Job("Biometric", "gate", None, None, FALSE) \in Task
        BY JobType DEF Ops, Owners, Screens
      <3> QED BY <1>7, <3>1, SpawnType DEF PromptBiometric
    <2> QED BY <1>a, <1>b, <1>7, <2>1, <2>2 DEF PromptBiometric
  <1>8. ASSUME Tick PROVE TypeOK'
    <2>1. UiOK'
      <3>1. lk' \in [Screens -> Lock]
        <4>1. \A s \in Screens : lk[s] \in Lock
          BY DEF UiOK
        <4>2. \A s \in Screens : [lk[s] EXCEPT !.til = IF @ > 0 THEN @ - 1 ELSE 0] \in Lock
          BY <4>1 DEF Lock, Waits
        <4> QED BY <1>8, <4>2 DEF Tick
      <3> QED BY <1>8, <3>1 DEF UiOK, Tick
    <2>2. StoreOK'
      BY <1>8 DEF StoreOK, Tick, Waits
    <2> QED BY <1>a, <1>8, <2>1, <2>2 DEF Tick
  <1>9. ASSUME Restart PROVE TypeOK'
    <2>1. UiOK'
      <3>1. NewScreens \in [Screens -> Lock]
        BY BegunType DEF NewScreens, Screens, Waits
      <3> QED BY <1>9, <3>1 DEF UiOK, Restart, NewForm
    <2>2. StateOK'
      BY <1>9 DEF StateOK, Restart, NewSnap, NewLoader
    <2>3. CountOK'
      <3>1. gated' \in BOOLEAN
        BY <1>9, Zenon DEF Restart
      <3> QED BY <1>9, <3>1 DEF CountOK, Restart
    <2> QED BY <1>9, <2>1, <2>2, <2>3 DEF Restart, StoreOK, TaskOK
  <1>10. ASSUME NEW s \in Screens, FoldOutcome(s) PROVE TypeOK'
    <2>1. lk[s] \in Lock
      BY DEF UiOK
    <2>2. UiOK'
      <3>1. /\ lk' \in [Screens -> Lock]
            /\ nav' \in {"settings", "lock"}
            /\ toast' \in {"none", "on", "off"}
        <4>1. CASE FoldRefusal(s, lk[s].pending)
          <5>1. lk[s].pending \in Outcome
            BY <1>10, <2>1 DEF FoldOutcome, Lock
          <5> QED BY <2>1, <4>1, <5>1 DEF UiOK, FoldRefusal, Lock, Outcome
        <4>2. CASE lk' = [lk EXCEPT ![s].pending = None, ![s].busy = FALSE, ![s].stage = "totp"]
                   /\ UNCHANGED <<nav, toast, task>>
          BY <2>1, <4>2 DEF UiOK, Lock
        <4>3. CASE FoldSuccess(s)
          <5>1. Begun("unlock", lk[s].til) \in Lock
            BY <2>1, BegunType DEF Lock
          <5>2. lk' \in {[lk EXCEPT ![s].pending = None, ![s].busy = FALSE],
                         [lk EXCEPT ![s].pending = None, ![s].busy = FALSE, ![s].stage = "new"],
                         [lk EXCEPT ![s].pending = None, ![s].busy = TRUE, ![s].intent = "disabled"],
                         [lk EXCEPT ![s] = Begun("unlock", lk[s].til)]}
            BY <4>3 DEF FoldSuccess, Finish
          <5>3. lk' \in [Screens -> Lock]
            BY <2>1, <5>1, <5>2 DEF UiOK, Lock
          <5> QED BY <4>3, <5>3 DEF UiOK, FoldSuccess, Finish
        <4> QED BY <1>10, <4>1, <4>2, <4>3 DEF FoldOutcome
      <3> QED BY <1>10, <3>1 DEF FoldOutcome, UiOK
    <2>3. TaskOK'
      <3>1. Job("RemovePIN", s, None, None, FALSE) \in Task
        BY JobType DEF Ops, Owners
      <3> QED BY <1>a, <1>10, <3>1, SpawnType DEF FoldOutcome, FoldRefusal, FoldSuccess, Finish
    <2> QED BY <1>a, <1>10, <2>2, <2>3 DEF FoldOutcome
  <1>11. ASSUME NEW i \in Slots, TaskStep(i) PROVE TypeOK'
    <2>1. task[i] # None /\ task[i] \in Task
      BY <1>11 DEF TaskOK, TaskStep, TaskStarts, TaskChecks, RecordFailure, OpenWindow,
             ClearLockout, Authenticate, SecondFactor, Unlock, StorePin, DropSecond, DropPin,
             EnrollTotp, RemoveTotp, ReportForm, Report, At
    <2>2. CASE TaskStarts(i) \/ TaskChecks(i)
      <3>1. TaskOK'
        BY <2>1, <2>2, GotoType DEF TaskStarts, TaskChecks
      <3> QED BY <1>a, <1>b, <2>2, <3>1 DEF TaskStarts, TaskChecks, TaskFrame
    <2>3. CASE Authenticate(i) \/ SecondFactor(i)
      <3>1. TaskOK'
        <4>1. \/ \E ok \in BOOLEAN : Answer(i, ok)
              \/ \E pc \in {"open"} : Goto(i, pc)
              \/ task' = [task EXCEPT ![i].ok = TRUE, ![i].pc = "second"]
              \/ task' = [task EXCEPT ![i].totpNext = TRUE, ![i].pc = "report"]
          BY <2>3 DEF Authenticate, SecondFactor
        <4>2. ASSUME task' = [task EXCEPT ![i].ok = TRUE, ![i].pc = "second"] PROVE TaskOK'
          BY <2>1, <4>2 DEF Task, TaskOK
        <4>3. ASSUME task' = [task EXCEPT ![i].totpNext = TRUE, ![i].pc = "report"] PROVE TaskOK'
          BY <2>1, <4>3 DEF Task, TaskOK
        <4> QED BY <2>1, <4>1, <4>2, <4>3, GotoType
      <3> QED BY <1>a, <1>b, <2>3, <3>1 DEF Authenticate, SecondFactor, TaskFrame
    <2>4. CASE RecordFailure(i) \/ OpenWindow(i)
      <3>1. TaskOK'
        BY <2>1, <2>4, GotoType DEF RecordFailure, OpenWindow
      <3>2. LockoutAfter(fails) \in Waits
        BY LockoutBounded DEF StoreOK
      <3>3. StoreOK'
        <4>1. CASE RecordFailure(i)
          <5>1. fails' \in {fails, fails + 1} /\ UNCHANGED <<file, wait, ks>>
            BY <4>1 DEF RecordFailure
          <5> QED BY <5>1 DEF StoreOK
        <4>2. CASE OpenWindow(i)
          <5>1. wait' \in {wait, LockoutAfter(fails)} /\ UNCHANGED <<file, fails, ks>>
            BY <4>2 DEF OpenWindow
          <5> QED BY <3>2, <5>1 DEF StoreOK
        <4> QED BY <2>4, <4>1, <4>2
      <3> QED BY <1>a, <1>b, <2>4, <3>1, <3>3 DEF RecordFailure, OpenWindow, TaskFrame
    <2>5. CASE ClearLockout(i)
      <3>1. TaskOK'
        <4> DEFINE ok == faults' = faults \/ task[i].op \in {"VerifyPIN", "VerifyTOTP"}
        <4>1. ok \in BOOLEAN
          BY Zenon
        <4>2. PICK pc \in {"second", "open", "report"} :
                task' = [task EXCEPT ![i].ok = ok, ![i].pc = pc]
          BY <2>5 DEF ClearLockout
        <4> HIDE DEF ok
        <4> QED BY <2>1, <4>1, <4>2 DEF TaskOK, Task
      <3>2. StoreOK'
        BY <2>5 DEF StoreOK, ClearLockout, Waits
      <3> QED BY <1>a, <1>b, <2>5, <3>1, <3>2 DEF ClearLockout, TaskFrame
    <2>6. CASE Unlock(i)
      <3>1. StateOK'
        <4>1. refresh' \in BOOLEAN
          BY <2>6, Zenon DEF Unlock
        <4> QED BY <2>6, <4>1 DEF Unlock, SetLocked, StateOK
      <3>2. TaskOK'
        BY <2>1, <2>6, GotoType DEF Unlock
      <3> QED BY <1>a, <2>6, <3>1, <3>2 DEF Unlock
    <2>7. CASE StorePin(i) \/ DropSecond(i) \/ DropPin(i)
      <3>1. TaskOK'
        BY <2>1, <2>7, GotoType DEF StorePin, DropSecond, DropPin
      <3>2. StoreOK'
        <4>1. ks' \in Sealed /\ file' \in Sealed
          BY <2>1, <2>7 DEF StoreOK, StorePin, DropSecond, DropPin, Seal, SealFails, Sealed, Task
        <4> QED BY <2>7, <4>1 DEF StoreOK, StorePin, DropSecond, DropPin
      <3> QED BY <1>a, <1>b, <2>7, <3>1, <3>2 DEF StorePin, DropSecond, DropPin, Seal, SealFails,
                 TaskFrame
    <2>8. CASE EnrollTotp(i) \/ RemoveTotp(i)
      <3>1. TaskOK'
        BY <2>1, <2>8 DEF TaskOK, EnrollTotp, RemoveTotp, Task, Ops
      <3>2. StoreOK'
        <4>1. ks' \in Sealed /\ file' \in Sealed
          BY <2>1, <2>8 DEF StoreOK, EnrollTotp, RemoveTotp, Seal, SealFails, Sealed, Task
        <4> QED BY <2>8, <4>1 DEF StoreOK, EnrollTotp, RemoveTotp
      <3>3. UiOK'
        <4> DEFINE done == form.done \/ faults' = faults
        <4>1. done \in BOOLEAN
          BY Zenon
        <4>2. form' \in {form, [form EXCEPT !.busy = FALSE],
                         [form EXCEPT !.busy = FALSE, !.done = done]}
          BY <2>8 DEF EnrollTotp, RemoveTotp
        <4> HIDE DEF done
        <4> QED BY <2>8, <4>1, <4>2 DEF UiOK, EnrollTotp, RemoveTotp
      <3>4. StateOK'
        BY <2>8 DEF StateOK, EnrollTotp, RemoveTotp
      <3> QED BY <1>b, <2>8, <3>1, <3>2, <3>3, <3>4 DEF EnrollTotp, RemoveTotp, Seal, SealFails
    <2>9. CASE ReportForm(i)
      <3>1. TaskOK'
        <4>1. Job("RemoveTOTP", task[i].for, None, None, FALSE) \in Task
          BY <2>1, JobType DEF Ops, Task
        <4> QED BY <2>9, <4>1 DEF TaskOK, ReportForm
      <3>2. UiOK'
        <4> DEFINE done == form.done \/ task[i].ok
        <4>1. done \in BOOLEAN
          BY Zenon
        <4>2. form' \in {form, [form EXCEPT !.busy = FALSE, !.done = done]}
          BY <2>9 DEF ReportForm
        <4> HIDE DEF done
        <4> QED BY <2>9, <4>1, <4>2 DEF UiOK, ReportForm
      <3> QED BY <1>a, <2>9, <3>1, <3>2 DEF ReportForm
    <2>10. CASE Report(i)
      <3> DEFINE o == [ok |-> task[i].ok, totpNext |-> task[i].totpNext,
                       retryAfter |-> IF task[i].ok \/ task[i].op \notin {"VerifyPIN", "VerifyTOTP"}
                                      THEN 0 ELSE wait]
      <3>1. o \in Outcome
        BY <2>1 DEF StoreOK, Outcome, Task, Waits
      <3>2. lk' = [lk EXCEPT ![task[i].for].pending = o] /\ task[i].for \in Screens
        BY <2>10 DEF Report
      <3> HIDE DEF o
      <3>3. UiOK'
        <4>1. lk' \in [Screens -> Lock]
          BY <3>1, <3>2 DEF UiOK, Lock
        <4> QED BY <2>10, <4>1 DEF UiOK, Report
      <3>4. StateOK'
        <4>1. refresh' \in BOOLEAN
          BY <2>10, Zenon DEF Report
        <4> QED BY <2>10, <4>1 DEF Report, StateOK
      <3>5. TaskOK'
        BY <2>10 DEF Report, TaskOK
      <3> QED BY <1>a, <2>10, <3>3, <3>4, <3>5 DEF Report
    <2> QED BY <1>11, <2>2, <2>3, <2>4, <2>5, <2>6, <2>7, <2>8, <2>9, <2>10 DEF TaskStep
  <1>12. CASE UNCHANGED vars
    BY <1>a, <1>12 DEF vars
  <1> QED BY <1>1, <1>2, <1>3, <1>4, <1>5, <1>6, <1>7, <1>8, <1>9, <1>10, <1>11, <1>12
          DEF Next, UserStep

(***************************************************************************)
(* Every variable keeps its type, in every behaviour.                      *)
(***************************************************************************)
THEOREM TypeCorrect == Spec => []TypeOK
  <1> QED BY InitType, NextType, PTL DEF Spec

-----------------------------------------------------------------------------
(***************************************************************************)
(* The strengthening.  While the boot check has not run: the snapshot is   *)
(* the empty one but for its lock, nothing that removes the PIN is under   *)
(* way, so a keystore without a PIN is one that had none at the start.     *)
(* After it, with no call failed, the gate was up or there was no PIN.     *)
(***************************************************************************)
BootInv ==
    loader.pc = "boot" =>
        /\ ~snap.enabled /\ ~snap.mail
        /\ ks.pin = None => gated
        /\ \A s \in Screens : lk[s].intent \notin {"disable", "disabled"}
        /\ \A i \in Slots : task[i] # None => task[i].op # "RemovePIN"

PinJobs == \A i \in Slots : task[i] # None /\ task[i].op = "SetPIN" => task[i].pin # None

EnrollJobs ==
    \A i \in Slots : task[i] # None /\ task[i].op = "EnrollTOTP" =>
        task[i].for = "enroll" /\ ~task[i].ok /\ task[i].pc = "start"

GateInv == loader.pc # "boot" /\ faults = 0 => gated

(***************************************************************************)
(* A goroutine that will take a mistyped secret back: the removal itself,  *)
(* or a check of a code that has not been found right.                     *)
(***************************************************************************)
TakesBack(t) ==
    /\ t.for = "enroll"
    /\ \/ t.op = "RemoveTOTP" /\ t.pc = "start"
       \/ t.op = "VerifyTOTP" /\ ~t.ok /\ t.pc \in {"start", "check", "count", "window", "report"}

TypoInv ==
    ks.totp = "typo" /\ faults + restarts = 0 =>
        \E i \in Slots : task[i] # None /\ TakesBack(task[i])

LockInv == TypeOK /\ LockSurvivesReload /\ BootInv /\ PinJobs /\ EnrollJobs /\ GateInv /\ TypoInv

(***************************************************************************)
(* Frames.  What the user and the screens do leaves the keystore, the lock *)
(* and the boot alone; a goroutine touches the lock only in Unlock, and    *)
(* never the boot; no step takes a failure back.                           *)
(***************************************************************************)
UiStep ==
    \/ \E intent \in {"enroll", "change", "disable"} : OpenSetup(intent)
    \/ \E s \in Screens, pin \in Pins, code \in BOOLEAN : Submit(s, pin, code)
    \/ \E secret \in Secrets, code \in BOOLEAN : SubmitTotp(secret, code)
    \/ Back \/ PromptBiometric \/ TapTotp \/ CancelTotp \/ Tick \/ FoldTotp
    \/ \E s \in Screens : FoldOutcome(s)

LEMMA NextCases ==
    ASSUME [Next]_vars
    PROVE  \/ UiStep \/ LockNow \/ MaybeAutoLock \/ Restart
           \/ BootChecks \/ LoaderTakes \/ LoaderReads \/ Commit
           \/ \E i \in Slots : TaskStep(i)
           \/ UNCHANGED vars
  BY DEF Next, UserStep, LoaderStep, UiStep

LEMMA UiFrame ==
    ASSUME UiStep
    PROVE  UNCHANGED <<file, ks, locked, snap, loader, faults, restarts, gated>>
  BY DEF UiStep, OpenSetup, Submit, SubmitTotp, Back, PromptBiometric, TapTotp, CancelTotp, Tick,
         FoldTotp, FoldOutcome, storeVars, stateVars, countVars, histVars

LEMMA GoroutineFrame ==
    ASSUME NEW i \in Slots, TaskStep(i), TypeOK
    PROVE  /\ UNCHANGED <<loader, restarts, gated>>
           /\ faults' = faults \/ faults' = faults + 1
           /\ Unlock(i) \/ UNCHANGED <<locked, snap>>
  BY DEF TaskStep, TaskStarts, TaskChecks, RecordFailure, OpenWindow, ClearLockout, Authenticate,
         SecondFactor, Unlock, StorePin, DropSecond, DropPin, EnrollTotp, RemoveTotp, ReportForm,
         Report, TaskFrame, Seal, SealFails, NoFault, Fault, stateVars, countVars, histVars

(***************************************************************************)
(* Which steps change the keystore, and how.                               *)
(***************************************************************************)
LEMMA KeystoreFrame ==
    ASSUME NEW i \in Slots, TaskStep(i), TypeOK
    PROVE  \/ UNCHANGED ks
           \/ StorePin(i) /\ ks' = [ks EXCEPT !.pin = task[i].pin]
           \/ DropSecond(i) /\ ks' = [ks EXCEPT !.totp = None]
           \/ DropPin(i) /\ ks' = [ks EXCEPT !.pin = None]
           \/ EnrollTotp(i) /\ ks' = [ks EXCEPT !.totp = task[i].secret]
           \/ RemoveTotp(i) /\ ks' = [ks EXCEPT !.totp = None]
  <1>1. CASE StorePin(i) \/ DropSecond(i) \/ DropPin(i)
    BY <1>1 DEF StorePin, DropSecond, DropPin, Seal, SealFails
  <1>2. CASE EnrollTotp(i) \/ RemoveTotp(i)
    BY <1>2 DEF EnrollTotp, RemoveTotp, Seal, SealFails
  <1>3. CASE TaskStarts(i) \/ TaskChecks(i) \/ RecordFailure(i) \/ OpenWindow(i) \/ ClearLockout(i)
             \/ Authenticate(i) \/ SecondFactor(i) \/ Unlock(i) \/ ReportForm(i) \/ Report(i)
    BY <1>3 DEF TaskStarts, TaskChecks, RecordFailure, OpenWindow, ClearLockout, Authenticate,
           SecondFactor, Unlock, ReportForm, Report, storeVars
  <1> QED BY <1>1, <1>2, <1>3 DEF TaskStep

(***************************************************************************)
(* A step of a goroutine changes no other goroutine.                       *)
(***************************************************************************)
LEMMA OwnTask ==
    ASSUME NEW i \in Slots, TaskStep(i), TypeOK
    PROVE  \A j \in Slots \ {i} : task'[j] = task[j]
  BY DEF TypeOK, TaskOK, TaskStep, TaskStarts, TaskChecks, RecordFailure, OpenWindow, ClearLockout,
         Authenticate, SecondFactor, Unlock, StorePin, DropSecond, DropPin, EnrollTotp, RemoveTotp,
         ReportForm, Report, Goto, Answer

(***************************************************************************)
(* A goroutine never becomes a SetPIN, a RemovePIN or an EnrollTOTP, and   *)
(* keeps its PIN as long as it is one of the first two; one that has yet   *)
(* to store a secret stores it in its first step.                          *)
(***************************************************************************)
LEMMA OwnOp ==
    ASSUME NEW i \in Slots, TaskStep(i), TypeOK, task'[i] # None,
           task'[i].op \in {"SetPIN", "RemovePIN", "EnrollTOTP"}
    PROVE  task[i] # None /\ task'[i].op = task[i].op /\ task'[i].pin = task[i].pin
  <1>1. task[i] # None /\ task[i] \in Task
    BY DEF TypeOK, TaskOK, TaskStep, TaskStarts, TaskChecks, RecordFailure, OpenWindow,
           ClearLockout, Authenticate, SecondFactor, Unlock, StorePin, DropSecond, DropPin,
           EnrollTotp, RemoveTotp, ReportForm, Report, At
  <1>2. CASE TaskStarts(i) \/ TaskChecks(i) \/ RecordFailure(i) \/ OpenWindow(i)
             \/ SecondFactor(i) \/ Unlock(i) \/ Authenticate(i)
    <2>1. \/ \E pc : Goto(i, pc)
          \/ \E ok : Answer(i, ok)
          \/ task' = [task EXCEPT ![i].ok = TRUE, ![i].pc = "second"]
          \/ task' = [task EXCEPT ![i].totpNext = TRUE, ![i].pc = "report"]
      BY <1>2 DEF TaskStarts, TaskChecks, RecordFailure, OpenWindow, SecondFactor, Unlock,
             Authenticate
    <2>2. task \in [Slots -> Task \cup {None}]
      BY DEF TypeOK, TaskOK
    <2>3. ASSUME NEW pc, Goto(i, pc)
          PROVE  task'[i].op = task[i].op /\ task'[i].pin = task[i].pin
      BY <1>1, <2>2, <2>3 DEF Goto, Task
    <2>4. ASSUME NEW ok, Answer(i, ok)
          PROVE  task'[i].op = task[i].op /\ task'[i].pin = task[i].pin
      BY <1>1, <2>2, <2>4 DEF Answer, Task
    <2>5. ASSUME \/ task' = [task EXCEPT ![i].ok = TRUE, ![i].pc = "second"]
                 \/ task' = [task EXCEPT ![i].totpNext = TRUE, ![i].pc = "report"]
          PROVE  task'[i].op = task[i].op /\ task'[i].pin = task[i].pin
      BY <1>1, <2>2, <2>5 DEF Task
    <2> QED BY <1>1, <2>1, <2>3, <2>4, <2>5
  <1>3. CASE StorePin(i) \/ DropSecond(i) \/ DropPin(i)
    BY <1>1, <1>3 DEF TypeOK, TaskOK, Task, StorePin, DropSecond, DropPin, Goto, Answer
  <1>4. CASE ClearLockout(i)
    BY <1>1, <1>4 DEF TypeOK, TaskOK, Task, ClearLockout
  <1>5. CASE EnrollTotp(i) \/ RemoveTotp(i) \/ Report(i)
    BY <1>1, <1>5 DEF TypeOK, TaskOK, Task, EnrollTotp, RemoveTotp, Report
  <1>6. CASE ReportForm(i)
    BY <1>1, <1>6 DEF TypeOK, TaskOK, ReportForm, Job
  <1> QED BY <1>2, <1>3, <1>4, <1>5, <1>6 DEF TaskStep

(***************************************************************************)
(* What the screens start: no goroutine without a free slot for it, a PIN  *)
(* with every SetPIN, and a RemovePIN only from a screen that removes it.  *)
(***************************************************************************)
LEMMA UiStarts ==
    ASSUME UiStep, TypeOK
    PROVE  \A i \in Slots :
              \/ task'[i] = task[i]
              \/ /\ task[i] = None
                 /\ task'[i].op = "SetPIN" => task'[i].pin \in Pins
                 /\ task'[i].op = "EnrollTOTP" =>
                      task'[i].for = "enroll" /\ ~task'[i].ok /\ task'[i].pc = "start"
                 /\ task'[i].op = "RemovePIN" => \E s \in Screens : lk[s].intent = "disable"
  <1>1. ASSUME NEW job, Spawn(job), NEW i \in Slots
        PROVE  task'[i] = task[i] \/ (task[i] = None /\ task'[i] = job)
    <2>1. PICK k \in Slots : task[k] = None /\ task' = [task EXCEPT ![k] = job]
      BY <1>1 DEF Spawn
    <2>2. task \in [Slots -> Task \cup {None}]
      BY DEF TypeOK, TaskOK
    <2> QED BY <1>1, <2>1, <2>2
  <1>2. ASSUME NEW s \in Screens, NEW pin \in Pins, NEW code \in BOOLEAN, Submit(s, pin, code)
        PROVE  \/ UNCHANGED task
               \/ Spawn(Job("SetPIN", s, pin, None, FALSE))
               \/ Spawn(Job("VerifyTOTP", s, None, None, code))
               \/ Spawn(Job("VerifyPIN", s, pin, None, FALSE))
    BY <1>2 DEF Submit
  <1>3. ASSUME NEW secret \in Secrets, NEW code \in BOOLEAN, SubmitTotp(secret, code)
        PROVE  \/ Spawn(Job("VerifyTOTP", "turnoff", None, None, code))
               \/ Spawn(Job("EnrollTOTP", "enroll", None, secret, code))
    BY <1>3 DEF SubmitTotp
  <1>4. ASSUME NEW s \in Screens, FoldOutcome(s)
        PROVE  \/ UNCHANGED task
               \/ lk[s].intent = "disable" /\ Spawn(Job("RemovePIN", s, None, None, FALSE))
    BY <1>4 DEF FoldOutcome, FoldRefusal, FoldSuccess, Finish
  <1>6. PromptBiometric => Spawn(Job("Biometric", "gate", None, None, FALSE))
    BY DEF PromptBiometric
  <1>7. CASE UNCHANGED task
    BY <1>7
  <1>8. ASSUME NEW s \in Screens, NEW pin \in Pins, NEW code \in BOOLEAN, Submit(s, pin, code),
               NEW i \in Slots, task'[i] # task[i]
        PROVE  task[i] = None /\ (task'[i].op = "SetPIN" => task'[i].pin \in Pins)
                 /\ task'[i].op \notin {"RemovePIN", "EnrollTOTP"}
    <2>1. /\ task[i] = None
          /\ task'[i] \in {Job("SetPIN", s, pin, None, FALSE), Job("VerifyTOTP", s, None, None, code),
                            Job("VerifyPIN", s, pin, None, FALSE)}
      BY <1>1, <1>2, <1>8
    <2> QED BY <2>1 DEF Job
  <1>9. ASSUME NEW secret \in Secrets, NEW code \in BOOLEAN, SubmitTotp(secret, code),
               NEW i \in Slots, task'[i] # task[i]
        PROVE  /\ task[i] = None /\ task'[i].op \notin {"SetPIN", "RemovePIN"}
               /\ task'[i].op = "EnrollTOTP" =>
                    task'[i].for = "enroll" /\ ~task'[i].ok /\ task'[i].pc = "start"
    <2>1. /\ task[i] = None
          /\ task'[i] \in {Job("VerifyTOTP", "turnoff", None, None, code),
                            Job("EnrollTOTP", "enroll", None, secret, code)}
      BY <1>1, <1>3, <1>9
    <2> QED BY <2>1 DEF Job
  <1>10. ASSUME NEW s \in Screens, FoldOutcome(s), NEW i \in Slots, task'[i] # task[i]
         PROVE  task[i] = None /\ task'[i].op \notin {"SetPIN", "EnrollTOTP"} /\ lk[s].intent = "disable"
    <2>1. /\ task[i] = None /\ lk[s].intent = "disable"
          /\ task'[i] = Job("RemovePIN", s, None, None, FALSE)
      BY <1>1, <1>4, <1>10
    <2> QED BY <2>1 DEF Job
  <1>11. ASSUME PromptBiometric, NEW i \in Slots, task'[i] # task[i]
         PROVE  task[i] = None /\ task'[i].op \notin {"SetPIN", "EnrollTOTP", "RemovePIN"}
    BY <1>1, <1>6, <1>11 DEF Job
  <1>12. Tick \/ FoldTotp \/ Back \/ TapTotp \/ CancelTotp
          \/ (\E intent \in {"enroll", "change", "disable"} : OpenSetup(intent)) => UNCHANGED task
    BY DEF Tick, FoldTotp, Back, TapTotp, CancelTotp, OpenSetup
  <1> QED BY <1>7, <1>8, <1>9, <1>10, <1>11, <1>12 DEF UiStep

(***************************************************************************)
(* The two copies of the locked flag are written together.                 *)
(***************************************************************************)
LEMMA LockStep == LockInv /\ [Next]_vars => LockSurvivesReload'
  <1> SUFFICES ASSUME LockInv, [Next]_vars PROVE LockSurvivesReload'
    OBVIOUS
  <1> USE DEF LockSurvivesReload
  <1>1. snap \in [locked : BOOLEAN, enabled : BOOLEAN, totp : BOOLEAN, mail : BOOLEAN]
        /\ snap.locked = locked
    BY DEF LockInv, TypeOK, StateOK
  <1>2. CASE UiStep
    BY <1>1, <1>2, UiFrame
  <1>3. ASSUME NEW b, SetLocked(b) PROVE LockSurvivesReload'
    BY <1>1, <1>3 DEF SetLocked
  <1>4. CASE LockNow \/ MaybeAutoLock
    BY <1>3, <1>4 DEF LockNow, MaybeAutoLock
  <1>5. CASE BootChecks
    BY <1>1, <1>5 DEF BootChecks
  <1>6. CASE LoaderTakes \/ LoaderReads
    BY <1>1, <1>6 DEF LoaderTakes, LoaderReads
  <1>7. CASE Commit \/ Restart
    <2>1. CASE Commit
      BY <2>1 DEF Commit
    <2>2. CASE Restart
      BY <2>2 DEF Restart, NewSnap
    <2> QED BY <1>7, <2>1, <2>2
  <1>8. ASSUME NEW i \in Slots, TaskStep(i) PROVE LockSurvivesReload'
    BY <1>1, <1>3, <1>8, GoroutineFrame DEF LockInv, Unlock
  <1>9. CASE UNCHANGED vars
    BY <1>1, <1>9 DEF vars, stateVars
  <1> QED BY <1>2, <1>4, <1>5, <1>6, <1>7, <1>8, <1>9, NextCases

(***************************************************************************)
(* A SetPIN goroutine has a PIN to set.                                    *)
(***************************************************************************)
LEMMA PinJobsStep == LockInv /\ [Next]_vars => PinJobs'
  <1> SUFFICES ASSUME LockInv, [Next]_vars, NEW i \in Slots, task'[i] # None,
                      task'[i].op = "SetPIN"
               PROVE  task'[i].pin # None
    BY DEF PinJobs
  <1> USE DEF LockInv, PinJobs
  <1>1. CASE UNCHANGED task
    BY <1>1
  <1>2. CASE UiStep
    BY <1>2, UiStarts, LockAssumption
  <1>3. CASE Restart
    BY <1>3 DEF Restart
  <1>4. ASSUME NEW j \in Slots, TaskStep(j) PROVE task'[i].pin # None
    <2>1. CASE i = j
      BY <1>4, <2>1, OwnOp
    <2>2. CASE i # j
      BY <1>4, <2>2, OwnTask
    <2> QED BY <2>1, <2>2
  <1>5. LockNow \/ MaybeAutoLock \/ BootChecks \/ LoaderTakes \/ LoaderReads \/ Commit
          \/ UNCHANGED vars => UNCHANGED task
    BY DEF LockNow, MaybeAutoLock, BootChecks, LoaderTakes, LoaderReads, Commit, vars
  <1> QED BY <1>1, <1>2, <1>3, <1>4, <1>5, NextCases

(***************************************************************************)
(* A goroutine that has yet to store a secret is one of the form, at its   *)
(* first step.                                                             *)
(***************************************************************************)
LEMMA EnrollJobsStep == LockInv /\ [Next]_vars => EnrollJobs'
  <1> SUFFICES ASSUME LockInv, [Next]_vars, NEW i \in Slots, task'[i] # None,
                      task'[i].op = "EnrollTOTP"
               PROVE  task'[i].for = "enroll" /\ ~task'[i].ok /\ task'[i].pc = "start"
    BY DEF EnrollJobs
  <1> USE DEF LockInv, EnrollJobs
  <1>1. CASE UNCHANGED task
    BY <1>1
  <1>2. CASE UiStep
    BY <1>2, UiStarts
  <1>3. CASE Restart
    BY <1>3 DEF Restart
  <1>4. ASSUME NEW j \in Slots, TaskStep(j), j # i
        PROVE  task'[i].for = "enroll" /\ ~task'[i].ok /\ task'[i].pc = "start"
    BY <1>4, OwnTask
  <1>5. ASSUME TaskStep(i) PROVE FALSE
    <2>1. task[i].op = "EnrollTOTP" /\ task[i].pc = "start" /\ task[i].for = "enroll"
      BY <1>5, OwnOp
    <2>2. EnrollTotp(i)
      BY <1>5, <2>1 DEF TaskStep, TaskStarts, TaskChecks, RecordFailure, OpenWindow, ClearLockout,
             Authenticate, SecondFactor, Unlock, StorePin, DropSecond, DropPin, RemoveTotp,
             ReportForm, Report, At
    <2>3. \/ task' = [task EXCEPT ![i].op = "VerifyTOTP"]
          \/ task' = [task EXCEPT ![i] = None]
      BY <2>2 DEF EnrollTotp
    <2>4. task \in [Slots -> Task \cup {None}] /\ task[i] \in Task
      BY <1>5, <2>2 DEF TypeOK, TaskOK, EnrollTotp, At
    <2> QED BY <2>3, <2>4 DEF Task
  <1>6. LockNow \/ MaybeAutoLock \/ BootChecks \/ LoaderTakes \/ LoaderReads \/ Commit
          \/ UNCHANGED vars => UNCHANGED task
    BY DEF LockNow, MaybeAutoLock, BootChecks, LoaderTakes, LoaderReads, Commit, vars
  <1> QED BY <1>1, <1>2, <1>3, <1>4, <1>5, <1>6, NextCases

(***************************************************************************)
(* The boot: until the PIN has been looked up, no step shows mail, removes *)
(* a PIN or begins to.                                                     *)
(***************************************************************************)
LEMMA BootStep == LockInv /\ [Next]_vars => BootInv'
  <1> SUFFICES ASSUME LockInv, [Next]_vars, (loader.pc = "boot")' PROVE BootInv'
    BY DEF BootInv
  <1>a. TypeOK /\ StateOK /\ UiOK /\ TaskOK /\ StoreOK /\ PinJobs
    BY DEF LockInv, TypeOK
  <1>b. loader.pc # "boot" \/ (/\ ~snap.enabled /\ ~snap.mail
                               /\ ks.pin = None => gated
                               /\ \A s \in Screens : lk[s].intent \notin {"disable", "disabled"}
                               /\ \A i \in Slots : task[i] # None => task[i].op # "RemovePIN")
    BY DEF LockInv, BootInv
  <1>1. CASE Restart
    <2>1. \A s \in Screens : lk'[s].intent \notin {"disable", "disabled"}
      BY <1>1 DEF Restart, NewScreens, Begun
    <2> QED BY <1>1, <2>1 DEF Restart, BootInv, NewSnap
  <1>2. CASE BootChecks \/ LoaderTakes \/ LoaderReads \/ Commit
    BY <1>a, <1>2 DEF BootChecks, LoaderTakes, LoaderReads, Commit, StateOK, NewLoader
  <1>3. CASE UiStep
    <2>1. loader.pc = "boot" /\ ~snap.enabled /\ ~snap'.enabled /\ ~snap'.mail
          /\ ((ks.pin = None)' => gated')
      BY <1>b, <1>3, UiFrame
    <2>2. \A i \in Slots : task'[i] # None => task'[i].op # "RemovePIN"
      BY <1>a, <1>b, <1>3, <2>1, UiStarts
    <2>3. \A s \in Screens : lk'[s].intent \notin {"disable", "disabled"}
      <3> USE <1>a DEF UiOK
      <3>1. ASSUME NEW intent \in {"enroll", "change", "disable"}, OpenSetup(intent)
            PROVE  \A s \in Screens : lk'[s].intent \notin {"disable", "disabled"}
        <4>1. intent = "enroll"
          BY <2>1, <3>1 DEF OpenSetup
        <4> QED BY <1>b, <2>1, <3>1, <4>1 DEF OpenSetup, Begun
      <3>2. ASSUME NEW s \in Screens, NEW pin \in Pins, NEW code \in BOOLEAN, Submit(s, pin, code)
            PROVE  \A t \in Screens : lk'[t].intent = lk[t].intent
        <4>1. lk' \in {[lk EXCEPT ![s].newPin = pin, ![s].stage = "confirm"],
                       [lk EXCEPT ![s].stage = "new"], [lk EXCEPT ![s].busy = TRUE]}
          BY <3>2 DEF Submit
        <4> QED BY <4>1 DEF Lock
      <3>3. CASE PromptBiometric
        BY <1>b, <2>1, <3>3 DEF PromptBiometric, Lock
      <3>4. CASE Tick
        BY <1>b, <2>1, <3>4 DEF Tick, Lock
      <3>5. ASSUME NEW s \in Screens, FoldOutcome(s)
            PROVE  \A t \in Screens : lk'[t].intent \in {lk[t].intent, "unlock"}
        <4>1. CASE FoldRefusal(s, lk[s].pending)
          BY <4>1 DEF FoldRefusal, Lock
        <4>2. CASE lk' = [lk EXCEPT ![s].pending = None, ![s].busy = FALSE, ![s].stage = "totp"]
          BY <4>2 DEF Lock
        <4>3. CASE FoldSuccess(s)
          <5>1. lk[s].intent # "disable"
            BY <1>b, <2>1
          <5>2. lk' \in {[lk EXCEPT ![s].pending = None, ![s].busy = FALSE],
                         [lk EXCEPT ![s].pending = None, ![s].busy = FALSE, ![s].stage = "new"],
                         [lk EXCEPT ![s] = Begun("unlock", lk[s].til)]}
            BY <4>3, <5>1 DEF FoldSuccess, Finish
          <5> QED BY <5>2 DEF Lock, Begun
        <4> QED BY <3>5, <4>1, <4>2, <4>3 DEF FoldOutcome
      <3>6. CASE UNCHANGED lk
        BY <1>b, <2>1, <3>6
      <3>7. (\E secret \in Secrets, code \in BOOLEAN : SubmitTotp(secret, code)) \/ Back \/ TapTotp
              \/ CancelTotp \/ FoldTotp => UNCHANGED lk
        BY DEF SubmitTotp, Back, TapTotp, CancelTotp, FoldTotp
      <3> QED BY <1>b, <1>3, <2>1, <3>1, <3>2, <3>3, <3>4, <3>5, <3>6, <3>7 DEF UiStep
    <2> QED BY <2>1, <2>2, <2>3 DEF BootInv
  <1>4. CASE LockNow \/ MaybeAutoLock
    BY <1>a, <1>b, <1>4 DEF LockNow, MaybeAutoLock, SetLocked, StateOK, BootInv, uiVars, storeVars
  <1>5. ASSUME NEW i \in Slots, TaskStep(i) PROVE BootInv'
    <2>1. loader.pc = "boot" /\ UNCHANGED gated
      BY <1>a, <1>5, GoroutineFrame
    <2>2. ~snap'.enabled /\ ~snap'.mail
      BY <1>a, <1>b, <1>5, <2>1, GoroutineFrame DEF Unlock, SetLocked, StateOK
    <2>3. ks'.pin = None => gated'
      <3>1. ~DropPin(i) /\ (StorePin(i) => task[i].pin # None)
        BY <1>a, <1>b, <2>1 DEF DropPin, StorePin, At, PinJobs
      <3> QED BY <1>a, <1>b, <1>5, <2>1, <3>1, KeystoreFrame DEF StoreOK, Sealed
    <2>4. \A s \in Screens : lk'[s].intent \notin {"disable", "disabled"}
      <3>1. CASE Report(i)
        <4>1. PICK o : lk' = [lk EXCEPT ![task[i].for].pending = o]
          BY <3>1 DEF Report
        <4> QED BY <1>a, <1>b, <2>1, <4>1 DEF UiOK, Lock
      <3>2. Report(i) \/ UNCHANGED lk
        BY <1>5 DEF TaskStep, TaskStarts, TaskChecks, RecordFailure, OpenWindow, ClearLockout,
               Authenticate, SecondFactor, Unlock, StorePin, DropSecond, DropPin, EnrollTotp,
               RemoveTotp, ReportForm, TaskFrame, uiVars
      <3> QED BY <1>b, <2>1, <3>1, <3>2
    <2>5. \A j \in Slots : task'[j] # None => task'[j].op # "RemovePIN"
      BY <1>a, <1>b, <1>5, <2>1, OwnOp, OwnTask
    <2> QED BY <2>2, <2>3, <2>4, <2>5 DEF BootInv
  <1>6. CASE UNCHANGED vars
    BY <1>b, <1>6 DEF BootInv, vars, stateVars, uiVars, storeVars, countVars, histVars
  <1> QED BY <1>1, <1>2, <1>3, <1>4, <1>5, <1>6, NextCases

(***************************************************************************)
(* After the boot, without a failed call, the gate was up or there was no  *)
(* PIN to ask for.                                                         *)
(***************************************************************************)
LEMMA GateStep == LockInv /\ [Next]_vars => GateInv'
  <1> SUFFICES ASSUME LockInv, [Next]_vars, (loader.pc # "boot" /\ faults = 0)' PROVE gated'
    BY DEF GateInv
  <1>a. TypeOK /\ StateOK /\ CountOK /\ GateInv /\ BootInv
    BY DEF LockInv, TypeOK
  <1>1. CASE BootChecks
    <2>1. ~Fault
      BY <1>a DEF Fault, CountOK
    <2>2. CASE ks.pin = None
      <3>1. gated
        BY <1>a, <1>1, <2>2 DEF BootChecks, BootInv
      <3> QED BY <1>1, <3>1, Zenon DEF BootChecks
    <2>3. CASE ks.pin # None
      <3>1. locked'
        BY <1>1, <2>1, <2>3 DEF BootChecks
      <3> QED BY <1>1, <3>1, Zenon DEF BootChecks
    <2> QED BY <2>2, <2>3
  <1>2. CASE UiStep
    BY <1>a, <1>2, UiFrame DEF GateInv
  <1>3. CASE LockNow \/ MaybeAutoLock \/ LoaderTakes \/ Commit
    BY <1>a, <1>3 DEF GateInv, LockNow, MaybeAutoLock, LoaderTakes, Commit, countVars, histVars
  <1>4. CASE LoaderReads
    BY <1>a, <1>4 DEF GateInv, LoaderReads, Fault, NoFault, CountOK, histVars
  <1>5. ASSUME NEW i \in Slots, TaskStep(i) PROVE gated'
    BY <1>a, <1>5, GoroutineFrame DEF GateInv, CountOK
  <1>6. CASE Restart
    BY <1>6 DEF Restart, NewLoader
  <1>7. CASE UNCHANGED vars
    BY <1>a, <1>7 DEF GateInv, vars, stateVars, countVars, histVars
  <1> QED BY <1>1, <1>2, <1>3, <1>4, <1>5, <1>6, <1>7, NextCases

(***************************************************************************)
(* The enrolment: a step keeps some goroutine that will take a mistyped    *)
(* secret back, or stores a new one and is that goroutine, or has taken it *)
(* back.                                                                   *)
(***************************************************************************)
LEMMA TypoStep == LockInv /\ [Next]_vars => TypoInv'
  <1> SUFFICES ASSUME LockInv, [Next]_vars, (ks.totp = "typo" /\ faults + restarts = 0)'
               PROVE  \E i \in Slots : task'[i] # None /\ TakesBack(task'[i])
    BY DEF TypoInv, TakesBack
  <1>a. TypeOK /\ StoreOK /\ CountOK /\ TaskOK /\ TypoInv
    BY DEF LockInv, TypeOK
  <1>1. CASE Restart
    BY <1>a, <1>1 DEF Restart, CountOK
  <1>2. CASE UiStep
    <2>1. PICK i \in Slots : task[i] # None /\ TakesBack(task[i])
      BY <1>a, <1>2, UiFrame DEF TypoInv
    <2>2. task'[i] = task[i]
      BY <1>a, <1>2, <2>1, UiStarts
    <2> QED BY <2>1, <2>2
  <1>3. CASE LockNow \/ MaybeAutoLock \/ BootChecks \/ LoaderTakes \/ LoaderReads \/ Commit
    <2>1. UNCHANGED <<ks, task, restarts>> /\ (faults' = faults \/ faults' = faults + 1)
      BY <1>3 DEF LockNow, MaybeAutoLock, BootChecks, LoaderTakes, LoaderReads, Commit,
             Fault, NoFault, storeVars, countVars, histVars
    <2>2. PICK i \in Slots : task[i] # None /\ TakesBack(task[i])
      BY <1>a, <2>1 DEF TypoInv, CountOK
    <2> QED BY <2>1, <2>2
  <1>4. ASSUME NEW i \in Slots, TaskStep(i)
        PROVE  \E j \in Slots : task'[j] # None /\ TakesBack(task'[j])
    <2>1. faults = 0 /\ restarts = 0 /\ faults' = faults /\ restarts' = 0
      BY <1>a, <1>4, GoroutineFrame DEF CountOK
    <2>2. task[i] # None /\ task[i] \in Task
      BY <1>a, <1>4 DEF TaskOK, TaskStep, TaskStarts, TaskChecks, RecordFailure, OpenWindow,
             ClearLockout, Authenticate, SecondFactor, Unlock, StorePin, DropSecond, DropPin,
             EnrollTotp, RemoveTotp, ReportForm, Report, At
    <2>3. task \in [Slots -> Task \cup {None}] /\ task' \in [Slots -> Task \cup {None}]
      <3>1. TypeOK'
        BY <1>a, NextType
      <3> QED BY <1>a, <3>1 DEF TypeOK, TaskOK
    <2>4. CASE EnrollTotp(i)
      <3>1. task' = [task EXCEPT ![i].op = "VerifyTOTP"] /\ task[i].op = "EnrollTOTP"
            /\ task[i].pc = "start"
        BY <2>1, <2>4 DEF EnrollTotp, SealFails, Fault, At
      <3>2. task'[i] = [task[i] EXCEPT !.op = "VerifyTOTP"]
        BY <2>3, <3>1
      <3>3. task[i].for = "enroll" /\ ~task[i].ok
        BY <1>a, <2>2, <3>1 DEF LockInv, EnrollJobs
      <3>4. task'[i] \in Task
        BY <2>2, <3>2 DEF Task, Ops
      <3> QED BY <2>2, <3>1, <3>2, <3>3, <3>4, NoneAssumption DEF TakesBack, Task
    <2>5. CASE ~EnrollTotp(i)
      <3>1. ks.totp = "typo" /\ ~RemoveTotp(i)
        <4>1. RemoveTotp(i) => ks' = [ks EXCEPT !.totp = None]
          BY <2>1 DEF RemoveTotp, Seal, SealFails, Fault
        <4>2. ks \in Sealed /\ "typo" # None
          BY <1>a, NoneAssumption DEF StoreOK, Secrets
        <4> QED BY <1>a, <1>4, <2>5, <4>1, <4>2, KeystoreFrame DEF Sealed
      <3>2. PICK j \in Slots : task[j] # None /\ TakesBack(task[j])
        BY <1>a, <2>1, <3>1 DEF TypoInv
      <3>3. CASE j # i
        BY <1>a, <1>4, <3>2, <3>3, OwnTask
      <3>4. CASE j = i
        <4> DEFINE t == task[i]
        <4>1. t \in Task /\ TakesBack(t) /\ ~Fault
          BY <2>1, <2>2, <3>2, <3>4 DEF Fault
        <4>2. CASE TaskStarts(i)
          BY <2>2, <2>3, <4>1, <4>2, NoneAssumption DEF TaskStarts, Answer, Goto, At, TakesBack, Task
        <4>3. CASE TaskChecks(i)
          BY <2>2, <2>3, <3>1, <4>1, <4>3, NoneAssumption
             DEF TaskChecks, Answer, Goto, At, TakesBack, Task, Right
        <4>4. CASE RecordFailure(i)
          BY <2>2, <2>3, <4>1, <4>4, NoneAssumption DEF RecordFailure, Answer, Goto, At, TakesBack, Task
        <4>5. CASE OpenWindow(i)
          BY <2>2, <2>3, <4>1, <4>5, NoneAssumption DEF OpenWindow, Answer, At, TakesBack, Task
        <4>6. CASE ReportForm(i)
          <5>1. task'[i] = Job("RemoveTOTP", "enroll", None, None, FALSE)
            <6>1. t.ok = FALSE /\ t.for = "enroll"
              BY <4>1, <4>6 DEF ReportForm, TakesBack, Task
            <6>2. t.ok = (t.for = "turnoff")
              BY <6>1
            <6>3. task' = [task EXCEPT ![i] = Job("RemoveTOTP", t.for, None, None, FALSE)]
              BY <4>6, <6>2 DEF ReportForm
            <6> QED BY <2>3, <6>1, <6>3
          <5>2. task'[i] \in Task
            BY <5>1, JobType DEF Ops, Owners
          <5> QED BY <5>1, <5>2, NoneAssumption DEF Job, TakesBack
        <4>7. ~ClearLockout(i) /\ ~Authenticate(i) /\ ~SecondFactor(i) /\ ~Unlock(i)
              /\ ~StorePin(i) /\ ~DropSecond(i) /\ ~DropPin(i) /\ ~Report(i)
          BY <4>1 DEF ClearLockout, Authenticate, SecondFactor, Unlock, StorePin, DropSecond, DropPin,
                 Report, At, TakesBack, Screens
        <4> QED BY <1>4, <2>5, <3>1, <4>2, <4>3, <4>4, <4>5, <4>6, <4>7 DEF TaskStep
      <3> QED BY <3>3, <3>4
    <2> QED BY <2>4, <2>5
  <1>5. CASE UNCHANGED vars
    BY <1>a, <1>5 DEF TypoInv, vars, storeVars, countVars, histVars
  <1> QED BY <1>1, <1>2, <1>3, <1>4, <1>5, NextCases

-----------------------------------------------------------------------------
LEMMA LockInvInit == Init => LockInv
  <1> SUFFICES ASSUME Init PROVE LockInv
    OBVIOUS
  <1>1. TypeOK
    BY InitType
  <1>2. BootInv
    <2>1. \A s \in Screens : lk[s].intent \notin {"disable", "disabled"}
      BY DEF Init, NewScreens, Begun
    <2>2. ks.pin = None => gated
      BY Zenon DEF Init
    <2> QED BY <2>1, <2>2 DEF Init, BootInv, NewSnap
  <1>3. LockSurvivesReload /\ PinJobs /\ EnrollJobs /\ GateInv
    BY DEF Init, LockSurvivesReload, PinJobs, EnrollJobs, GateInv, NewSnap, NewLoader
  <1>4. TypoInv
    BY NoneAssumption DEF Init, TypoInv, Secrets
  <1> QED BY <1>1, <1>2, <1>3, <1>4 DEF LockInv

LEMMA LockInvStep == LockInv /\ [Next]_vars => LockInv'
  <1>1. LockInv /\ [Next]_vars => TypeOK'
    BY NextType DEF LockInv
  <1> QED BY <1>1, LockStep, PinJobsStep, EnrollJobsStep, BootStep, GateStep, TypoStep DEF LockInv

LEMMA LockInvariant == Spec => []LockInv
  <1> QED BY LockInvInit, LockInvStep, PTL DEF Spec

(***************************************************************************)
(* A reload never undoes the lock: the flag the interface draws by is the  *)
(* flag AppState keeps, however loads, locks and unlocks interleave.       *)
(***************************************************************************)
THEOREM LockKept == Spec => []LockSurvivesReload
  <1>1. LockInv => LockSurvivesReload
    BY DEF LockInv
  <1> QED BY <1>1, LockInvariant, PTL

(***************************************************************************)
(* No mail is shown before the gate: if the process found a PIN and no     *)
(* call failed, the gate was up before any mail was in the snapshot,       *)
(* across restarts and PINs set while the app boots.                       *)
(***************************************************************************)
THEOREM GateFirst == Spec => []GateComesFirst
  <1>1. LockInv => GateComesFirst
    BY DEF LockInv, GateComesFirst, GateInv, BootInv
  <1> QED BY <1>1, LockInvariant, PTL

(***************************************************************************)
(* A mistyped authenticator secret never stays behind by itself: as long   *)
(* as it is enrolled, and no call failed and the process did not die, the  *)
(* enrolment that will take it back is under way.                          *)
(***************************************************************************)
THEOREM TypoTaken == Spec => []TypoIsTakenBack
  <1>1. LockInv => TypoIsTakenBack
    BY DEF LockInv, TypoIsTakenBack, TypoInv, TakesBack, InFlight
  <1> QED BY <1>1, LockInvariant, PTL
=============================================================================
