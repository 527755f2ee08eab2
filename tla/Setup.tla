------------------------------- MODULE Setup --------------------------------
(***************************************************************************)
(* Adding an account: the set-up screen and its goroutines                 *)
(* (ui/screens/accountsetup*.go), discovery, device approval and setup     *)
(* codes (internal/mail/account), the provisioning service                 *)
(* (cmd/vayumail-provision), and the way the outcome takes back from the   *)
(* sync manager over the bounded event channel to the goroutine that waits *)
(* for it (AppState.AddAccountAwait).                                      *)
(*                                                                         *)
(* Every tap starts a goroutine of its own, a try.  The busy flag keeps    *)
(* the Connect button from starting two, but leaving the card clears it,   *)
(* and codes and the manual form do not look at it.  All tries are for the *)
(* same mailbox.  Another account may have been there before: its sync     *)
(* shares the event channel, and only then can the screen be left.  What   *)
(* the manager does for an account once it is added is AccountLifecycle's  *)
(* subject.                                                                *)
(***************************************************************************)
EXTENDS Naturals, Sequences

CONSTANTS Tries,          \* goroutines the taps start
          Nobody,         \* no try: no wait to cancel, no command under way
          QCap,           \* bound: cmdCh (64 in the code)
          ECap,           \* bound: eventCh (256 in the code)
          MaxSyncs        \* bound: manual syncs and events of the other account

\* The command under way, and how far it has come.
Command == [cmd : Tries \cup {"sync"}, at : {"begin", "insert", "sync"}]

ASSUME SetupAssumption == /\ Nobody \notin Tries \cup Command /\ "sync" \notin Tries
                          /\ QCap \in Nat /\ ECap \in Nat /\ MaxSyncs \in Nat

VARIABLES
    shown,                     \* Nav: is the set-up screen on top
    mode, busy,                \* AccountSetup: the card shown, the Connect button's spinner
    waitCancel, waitGen,       \* AccountSetup: whose approval wait can be cancelled, number of waits
    try,                       \* the goroutines
    addWaiters,                \* AppState
    queue, cur, eventCh,       \* Manager: cmdCh, the command under way, eventCh
    account,                   \* store: the tries whose row was inserted
    other,                     \* store: is there an account of another address
    code,                      \* server: the setup code's token
    syncs,
    overlap                    \* history: was an add ever sent with another outstanding or awaited

screenVars  == <<shown, mode, busy, waitCancel, waitGen>>
managerVars == <<queue, cur, eventCh, account>>
setupVars == <<screenVars, try, addWaiters, managerVars, code, other, syncs, overlap>>

\* The locals of a goroutine that waits for nothing.
Locals(kind, pc, left, told) ==
    [kind |-> kind, pc |-> pc, ctx |-> "live", left |-> left, gen |-> 0, device |-> "none", done |-> "none", told |-> told]

SetupInit ==
    /\ other \in BOOLEAN /\ shown = ~other
    /\ mode = "connect" /\ busy = FALSE /\ waitCancel = Nobody /\ waitGen = 0
    /\ try = [t \in Tries |-> Locals("none", "idle", "no", "none")]
    /\ addWaiters = {}
    /\ queue = <<>> /\ cur = Nobody /\ eventCh = <<>> /\ account = {}
    /\ code = "none"
    /\ syncs = 0 /\ overlap = "no"

Step(t, pc) == try' = [try EXCEPT ![t].pc = pc]

-----------------------------------------------------------------------------
(* Reading what servers publish.                                           *)

TLSModes == {"tls", "starttls"}
validPort(p) == p \in 1 .. 65535

(* An autoconfig document, as far as toConfig and authMechFromWire look.   *)
Docs == [served : BOOLEAN, schema : BOOLEAN, tls : TLSModes \cup {"plain"}, host : BOOLEAN, port : {0, 993}, auth : {"password", "xoauth2", "other"}]

toConfig(d) ==
    IF d.tls \in TLSModes /\ d.host /\ validPort(d.port) /\ d.auth # "other" THEN "config" ELSE "unusable"

(* DiscoverAutoconfig: the first of two places that serves a document of   *)
(* the right schema decides; an unusable one is not made up for by the     *)
(* second.                                                                 *)
fetchAutoconfig(answers) == {i \in DOMAIN answers : answers[i].served /\ answers[i].schema}

DiscoverAutoconfig(answers) ==
    LET served == fetchAutoconfig(answers)
    IN  IF served = {} THEN "unusable" ELSE toConfig(answers[CHOOSE i \in served : \A j \in served : i <= j])

Discoveries == {DiscoverAutoconfig(<<a, b>>) : a, b \in Docs}

(* A setup code.  Hosts are told apart by whether they are in the domain   *)
(* of the mailbox, elsewhere, or not public names at all.                  *)
Hosts == {"own", "foreign", "private"}
Payloads == [v : {1, 2}, fresh : BOOLEAN, signed : BOOLEAN, tls : TLSModes \cup {"plain"},
             port : {0, 993}, server : Hosts, scheme : {"https", "http"}, tokenHost : Hosts]

validateTokenEndpoint(p) == IF p.scheme # "https" THEN "insecure" ELSE IF p.tokenHost # "own" THEN "malformed" ELSE "ok"

ParseAndVerify(p) ==
    CASE p.v # 1              -> "version"
      [] p.v = 1 /\ ~p.fresh  -> "expired"
      [] OTHER -> IF ~p.signed THEN "signature"
                  ELSE IF p.tls \notin TLSModes THEN "insecure"
                  ELSE IF ~validPort(p.port) THEN "port"
                  ELSE IF p.server # "own" THEN "malformed"
                  ELSE validateTokenEndpoint(p)

Verdicts == {ParseAndVerify(p) : p \in Payloads}

-----------------------------------------------------------------------------
(* The cards.                                                              *)

(* The approval wait under way is the newest one.                          *)
Waits(r) == r.pc = "wait" /\ r.ctx = "live" /\ r.gen = waitGen

(* cancelWait, on the tries f that the rest of the tap has left.  The wait *)
(* under way is left by it, whether or not its cancel was stored.          *)
CancelledTries(f) ==
    [t \in Tries |-> [f[t] EXCEPT
        !.ctx = IF t = waitCancel /\ f[t].pc \in {"wait", "poll"} /\ @ = "live" THEN "cancelled" ELSE @,
        !.left = IF Waits(f[t]) THEN "yes" ELSE @]]

(* The Connect button; without address and password it only shows an error.*)
connect(t) ==
    /\ shown /\ mode = "connect" /\ ~busy /\ try[t].pc = "idle"
    /\ try' = CancelledTries([try EXCEPT ![t] = Locals("connect", "discover", "no", "none")])
    /\ waitCancel' = Nobody /\ busy' = TRUE
    /\ UNCHANGED <<shown, mode, waitGen, addWaiters, managerVars, code, other, syncs, overlap>>

(* "Use a setup code" and "Set up manually".                               *)
leaveCard ==
    /\ shown /\ mode = "connect" /\ mode' \in {"code", "manual"}
    /\ try' = CancelledTries(try) /\ waitCancel' = Nobody /\ busy' = FALSE
    /\ UNCHANGED <<shown, waitGen, addWaiters, managerVars, code, other, syncs, overlap>>

(* There is something below the screen once there is an account.          *)
pushed == shown /\ (other \/ account # {})

(* The back button in the top bar of the pushed screen.                    *)
back ==
    /\ pushed /\ mode = "connect" /\ shown' = FALSE
    /\ try' = CancelledTries(try) /\ waitCancel' = Nobody
    /\ UNCHANGED <<mode, busy, waitGen, addWaiters, managerVars, code, other, syncs, overlap>>

(* Android's back key, or Escape, takes the pushed screen away whatever    *)
(* card it shows, and cancels nothing; so does the frame that finds an     *)
(* account under a forced set-up root.  Without an account the key closes  *)
(* the app.                                                                *)
handleBackKey ==
    /\ pushed /\ shown' = FALSE
    /\ UNCHANGED <<mode, busy, waitCancel, waitGen, try, addWaiters, managerVars, code, other, syncs, overlap>>

(* "Add account" in the drawer or the settings.                            *)
Push ==
    /\ ~shown /\ shown' = TRUE
    /\ UNCHANGED <<mode, busy, waitCancel, waitGen, try, addWaiters, managerVars, code, other, syncs, overlap>>

backToConnect ==
    /\ shown /\ mode # "connect" /\ mode' = "connect"
    /\ UNCHANGED <<shown, busy, waitCancel, waitGen, try, addWaiters, managerVars, code, other, syncs, overlap>>

(* A pasted code; the same one may be pasted twice.                        *)
submitCode(t) ==
    /\ shown /\ mode = "code" /\ mode' = "connect" /\ try[t].pc = "idle"
    /\ try' = [try EXCEPT ![t].kind = "code", ![t].pc = "verify"]
    /\ UNCHANGED <<shown, busy, waitCancel, waitGen, addWaiters, managerVars, code, other, syncs, overlap>>

(* The manual form, once it validates; the card stays.                     *)
addManual(t) ==
    /\ shown /\ mode = "manual" /\ try[t].pc = "idle"
    /\ try' = [try EXCEPT ![t].kind = "manual", ![t].pc = "add"]
    /\ UNCHANGED <<screenVars, addWaiters, managerVars, code, other, syncs, overlap>>

SyncNow ==
    /\ other \/ account # {}
    /\ syncs < MaxSyncs /\ syncs' = syncs + 1
    /\ queue' = IF Len(queue) < QCap THEN Append(queue, "sync") ELSE queue
    /\ UNCHANGED <<screenVars, try, addWaiters, cur, eventCh, account, code, other, overlap>>

Taps == \/ \E t \in Tries : connect(t) \/ submitCode(t) \/ addManual(t)
        \/ leaveCard \/ back \/ handleBackKey \/ Push \/ backToConnect \/ SyncNow

-----------------------------------------------------------------------------
(* The goroutines.                                                         *)

(* Mutant: the wait that ends clears whatever cancel is stored.           *)
clearWaitAlways(t) == waitCancel' = Nobody

(* The wait that owns its generation ended; a newer one keeps its cancel.  *)
clearWait(t) == waitCancel' = IF try[t].gen = waitGen /\ try[t].gen > 0 THEN Nobody ELSE waitCancel

(* The goroutine of t ends; a connect settles the card, a wait is cleared. *)
ends(t, told) ==
    /\ try' = [try EXCEPT ![t] = Locals("none", "ended", try[t].left, told)]
    /\ busy' = IF try[t].kind = "connect" THEN FALSE ELSE busy
    /\ clearWait(t) /\ UNCHANGED <<shown, mode, waitGen>>

discover(t) ==
    /\ try[t].pc = "discover"
    /\ \E r \in Discoveries :
         \/ r = "config" /\ Step(t, "register") /\ UNCHANGED screenVars
         \/ r = "unusable" /\ ends(t, "failed")
    /\ UNCHANGED <<addWaiters, managerVars, code, other, syncs, overlap>>

(* The server's answers to a registration; it may have device approval or  *)
(* not, and "page" is a 200 that is not the endpoint's.                    *)
RegisterAnswers == {"404", "page", "401", "409", "500", "pending", "approved"}

classifyDeviceStatus(a) ==
    CASE a \in {"404", "page"} -> "noEndpoint" [] a = "401" -> "credentials" [] a = "409" -> "limit"
      [] a = "500" -> "failed" [] OTHER -> a

(* awaitApproval parks the card in a wait that the next cancelWait ends.   *)
park(t) ==
    /\ waitGen' = waitGen + 1 /\ waitCancel' = t
    /\ try' = [try EXCEPT ![t].pc = "wait", ![t].gen = waitGen + 1, ![t].device = "pending"]
    /\ UNCHANGED <<shown, mode, busy>>

(* registerAndAdd: the typed password serves where there is no endpoint,   *)
(* an approved device's own password elsewhere.                            *)
register(t) ==
    /\ try[t].pc = "register"
    /\ \E a \in RegisterAnswers : LET r == classifyDeviceStatus(a) IN
            \/ r \in {"noEndpoint", "approved"} /\ Step(t, "add") /\ UNCHANGED screenVars
            \/ r = "pending" /\ park(t)
            \/ r \in {"credentials", "limit", "failed"} /\ ends(t, "failed")
    /\ UNCHANGED <<addWaiters, managerVars, code, other, syncs, overlap>>

DeadlineExceeded(t) ==
    /\ try[t].pc \in {"wait", "poll"} /\ try[t].ctx = "live" /\ try' = [try EXCEPT ![t].ctx = "expired"]
    /\ UNCHANGED <<screenVars, addWaiters, managerVars, code, other, syncs, overlap>>

ctxDone(t) ==
    /\ try[t].pc = "wait" /\ try[t].ctx # "live" /\ ends(t, "failed")
    /\ UNCHANGED <<addWaiters, managerVars, code, other, syncs, overlap>>

poll(t) ==
    /\ try[t].pc = "wait" /\ try[t].ctx = "live" /\ Step(t, "poll")
    /\ UNCHANGED <<screenVars, addWaiters, managerVars, code, other, syncs, overlap>>

(* DeviceStatus returns; a failure, a cancelled request among them, means  *)
(* another round.                                                          *)
polled(t) ==
    /\ try[t].pc = "poll"
    /\ \/ Step(t, "wait") /\ UNCHANGED screenVars
       \/ /\ try[t].device = "approved" /\ UNCHANGED screenVars
          /\ try' = [try EXCEPT ![t].pc = "add", ![t].device = "none", ![t].ctx = "live"]
       \/ try[t].device = "blocked" /\ ends(t, "failed")
    /\ UNCHANGED <<addWaiters, managerVars, code, other, syncs, overlap>>

(* provision: the code is verified, then its token exchanged.              *)
verify(t) ==
    /\ try[t].pc = "verify"
    /\ \E v \in Verdicts : IF v = "ok" /\ code # "none" THEN Step(t, "exchange") /\ UNCHANGED screenVars ELSE ends(t, "failed")
    /\ UNCHANGED <<addWaiters, managerVars, code, other, syncs, overlap>>

(* The service redeems a token once; its answer may be lost on the way.    *)
handleExchange == IF code = "minted" THEN {<<"password", "gone">>, <<"lost", "gone">>} ELSE {<<"gone", code>>}

ExchangeToken(t) ==
    /\ try[t].pc = "exchange"
    /\ \/ \E r \in handleExchange :
            /\ code' = r[2]
            /\ IF r[1] = "password" THEN Step(t, "add") /\ UNCHANGED screenVars ELSE ends(t, "failed")
       \/ ends(t, "failed") /\ UNCHANGED code
    /\ UNCHANGED <<addWaiters, managerVars, other, syncs, overlap>>

Queued(t) == \E i \in DOMAIN queue : queue[i] = t
Working(t) == cur # Nobody /\ cur.cmd = t
Announced(t) == \E i \in DOMAIN eventCh : eventCh[i].of = t

Outstanding == {t \in Tries : Queued(t) \/ Working(t) \/ Announced(t)}

(* AddAccountAwait: the waiter is entered before the command is sent.      *)
AddAccountAwait(t) ==
    /\ try[t].pc = "add"
    /\ IF Len(queue) < QCap
       THEN /\ queue' = Append(queue, t) /\ addWaiters' = addWaiters \cup {t}
            /\ overlap' = IF Outstanding \cup addWaiters = {} THEN overlap ELSE "yes"
            /\ Step(t, "await") /\ UNCHANGED screenVars
       ELSE ends(t, "failed") /\ UNCHANGED <<queue, addWaiters, overlap>>
    /\ UNCHANGED <<cur, eventCh, account, code, other, syncs>>

awaitForever(t) == FALSE

(* The wait for the outcome is bounded.                                    *)
awaitTimesOut(t) ==
    /\ try[t].pc = "await" /\ addWaiters' = addWaiters \ {t} /\ ends(t, "unfinished")
    /\ UNCHANGED <<managerVars, code, other, syncs, overlap>>

awaited(t) ==
    /\ try[t].pc = "await" /\ try[t].done # "none" /\ ends(t, try[t].done)
    /\ UNCHANGED <<addWaiters, managerVars, code, other, syncs, overlap>>

Goroutine(t) == \/ discover(t) \/ register(t) \/ poll(t) \/ polled(t) \/ ctxDone(t)
                \/ verify(t) \/ ExchangeToken(t) \/ AddAccountAwait(t) \/ awaited(t)

-----------------------------------------------------------------------------
(* The manager's command loop, as far as these commands go.                *)

emit(ev) ==
    eventCh' = IF Len(eventCh) < ECap THEN Append(eventCh, ev) ELSE eventCh

Event(k, of) == [k |-> k, of |-> of]

commandLoop ==
    /\ cur = Nobody /\ queue # <<>> /\ queue' = Tail(queue)
    /\ cur' = [cmd |-> Head(queue), at |-> "begin"]
    /\ UNCHANGED <<screenVars, try, addWaiters, eventCh, account, code, other, syncs, overlap>>

(* execAddAccount: the credential is stored, the row inserted (one row for *)
(* an address), the outcome emitted on every path.                         *)
execAddAccountEarly ==
    /\ \/ cur.at = "begin" /\ cur' = [cur EXCEPT !.at = "insert"] /\ emit(Event("added", cur.cmd)) /\ UNCHANGED account
       \/ cur.at = "begin" /\ cur' = Nobody /\ emit(Event("notAdded", cur.cmd)) /\ UNCHANGED account
       \/ cur.at = "insert" /\ cur' = Nobody /\ account' \in {{cur.cmd}, account} /\ UNCHANGED eventCh

execAddAccount ==
    /\ \/ cur.at = "begin" /\ cur' = [cur EXCEPT !.at = "insert"] /\ UNCHANGED <<eventCh, account>>
       \/ cur.at = "begin" /\ cur' = Nobody /\ emit(Event("notAdded", cur.cmd)) /\ UNCHANGED account
       \/ /\ cur.at = "insert" /\ cur' = Nobody /\ account = {}
          /\ account' = {cur.cmd} /\ emit(Event("added", cur.cmd))
       \/ cur.at = "insert" /\ cur' = Nobody /\ emit(Event("notAdded", cur.cmd)) /\ UNCHANGED account

(* execSyncNow brackets the sync with two events, however it went; to the  *)
(* waiters they are no more than mail.                                     *)
execSyncNow ==
    /\ \/ cur.at = "begin" /\ cur' = [cur EXCEPT !.at = "sync"] /\ emit(Event("mail", Nobody))
       \/ cur.at = "sync" /\ cur' = Nobody /\ emit(Event("mail", Nobody))
    /\ UNCHANGED account

execute ==
    /\ cur # Nobody /\ IF cur.cmd = "sync" THEN execSyncNow ELSE execAddAccount
    /\ UNCHANGED <<screenVars, try, addWaiters, queue, code, other, syncs, overlap>>

(* The other account's sync announces mail, flags and its own progress.    *)
OtherSyncs ==
    /\ other /\ syncs < MaxSyncs /\ syncs' = syncs + 1 /\ emit(Event("mail", Nobody))
    /\ UNCHANGED <<screenVars, try, addWaiters, queue, cur, account, code, other, overlap>>

-----------------------------------------------------------------------------
(* The event pump and AppState.Apply.                                      *)

(* resolveAddWaiters gives everyone who waits the same outcome.            *)
resolveAddWaiters(told) ==
    /\ addWaiters' = {}
    /\ try' = [t \in Tries |-> IF t \in addWaiters /\ try[t].done = "none" THEN [try[t] EXCEPT !.done = told] ELSE try[t]]

Apply ==
    /\ eventCh # <<>> /\ eventCh' = Tail(eventCh)
    /\ LET e == Head(eventCh) IN
         \/ e.k = "added" /\ resolveAddWaiters("connected")
         \/ e.k = "notAdded" /\ resolveAddWaiters("refused")
         \/ e.k = "mail" /\ UNCHANGED <<addWaiters, try>>
    /\ UNCHANGED <<screenVars, queue, cur, account, code, other, syncs, overlap>>

-----------------------------------------------------------------------------
(* The provisioning service mints a code for a known mailbox, for whoever  *)
(* holds the admin token.  Until someone verifies a code its minting makes *)
(* no difference.                                                          *)
Requests == [admin : BOOLEAN, known : BOOLEAN]

payloadFor(r) == IF ~r.admin THEN "unauthorized" ELSE IF ~r.known THEN "unknown" ELSE "payload"

handleSetupCode ==
    /\ code = "none" /\ \E t \in Tries : try[t].pc = "verify"
    /\ \E r \in Requests : code' = IF payloadFor(r) = "payload" THEN "minted" ELSE code
    /\ UNCHANGED <<screenVars, try, addWaiters, managerVars, other, syncs, overlap>>

(* The operator approves or blocks a device, seen by the poll that asks    *)
(* for it; a code that is to be redeemed runs out.                         *)
Operator ==
    /\ \/ \E t \in Tries : /\ try[t].pc = "poll" /\ try[t].device = "pending" /\ UNCHANGED code
                           /\ try' \in {[try EXCEPT ![t].device = s] : s \in {"approved", "blocked"}}
       \/ \E t \in Tries : /\ try[t].pc = "exchange" /\ UNCHANGED try
                           /\ code = "minted" /\ code' = "gone"
    /\ UNCHANGED <<screenVars, addWaiters, managerVars, other, syncs, overlap>>

SetupNext ==
    \/ Taps \/ commandLoop \/ execute \/ OtherSyncs \/ Apply \/ handleSetupCode \/ Operator
    \/ \E t \in Tries : Goroutine(t) \/ DeadlineExceeded(t) \/ awaitTimesOut(t)

(* Goroutines run, requests end within their timeouts, and timers expire.  *)
Fairness ==
    /\ WF_setupVars(commandLoop) /\ WF_setupVars(execute) /\ WF_setupVars(Apply)
    /\ \A t \in Tries : WF_setupVars(Goroutine(t)) /\ SF_setupVars(DeadlineExceeded(t)) /\ WF_setupVars(awaitTimesOut(t))

SetupSpec == SetupInit /\ [][SetupNext]_setupVars /\ Fairness

-----------------------------------------------------------------------------
Events == [k : {"added", "notAdded"}, of : Tries] \cup [k : {"mail"}, of : {Nobody}]

Goroutines == [kind : {"none", "connect", "code", "manual"},
               pc : {"idle", "discover", "register", "wait", "poll", "verify", "exchange", "add", "await", "ended"},
               ctx : {"live", "cancelled", "expired"}, left : {"yes", "no"}, gen : Nat,
               device : {"none", "pending", "approved", "blocked"},
               done : {"none", "connected", "refused"},
               told : {"none", "connected", "refused", "failed", "unfinished"}]

(* The screen, the tries and the channels are well typed, the channels     *)
(* keep to their capacities, and there is one row for the address.         *)
SetupTypeOK ==
    /\ shown \in BOOLEAN /\ mode \in {"connect", "code", "manual"} /\ busy \in BOOLEAN
    /\ waitCancel \in Tries \cup {Nobody} /\ waitGen \in Nat
    /\ try \in [Tries -> Goroutines]
    /\ addWaiters \subseteq Tries
    /\ queue \in Seq(Tries \cup {"sync"}) /\ Len(queue) <= QCap
    /\ eventCh \in Seq(Events) /\ Len(eventCh) <= ECap
    /\ cur \in Command \cup {Nobody} /\ account \in {{}} \cup {{t} : t \in Tries}
    /\ code \in {"none", "minted", "gone"}
    /\ other \in BOOLEAN /\ syncs \in Nat /\ overlap \in {"yes", "no"}

(* What a try is told is what became of its own add: the account is there  *)
(* exactly if it was told so, although a full channel may drop the outcome *)
(* it waits for.  resolveAddWaiters does not match outcomes to waiters, so *)
(* this needs that no add was sent while another was outstanding or was    *)
(* still waited for.                                                       *)
HonestOutcome ==
    overlap = "no" =>
        \A t \in Tries : /\ try[t].told = "connected" => t \in account
                         /\ try[t].told = "refused" => t \notin account

(* Once the user has left the newest wait through a button, its approval   *)
(* adds no account any more, except by the answer to a poll that was       *)
(* already under way: a wait that ended meanwhile did not take the newer   *)
(* one's cancel away.  A wait left with the back key is not cancelled and  *)
(* is not meant here: it lives on and may still add the account.           *)
LeftIsNotAdded ==
    \A t \in Tries : try[t].left = "yes" => try[t].pc \in {"wait", "ended"} /\ t \notin account

(* The Connect button comes back: a wait that nobody approves, an outcome  *)
(* that is dropped on a full channel and a try left alone all end.         *)
CardSettles == busy ~> ~busy

=============================================================================
