------------------------------ MODULE ChatLink ------------------------------
(***************************************************************************)
(* VayuTalk's connection: how ChatState binds an account to a Manager      *)
(* (ui/state/chatstate_events.go), how the Manager keeps its stream open   *)
(* (internal/chat/manager.go, stream.go) and how received messages and the *)
(* connection state reach the conversation records.                        *)
(*                                                                         *)
(* Every EnsureStarted that is not a no-op spawns a starter goroutine,     *)
(* numbered here by a generation, that closes the manager before it, builds*)
(* the next one and installs it.  A Manager's loop turns stream events into*)
(* UI events on a bounded channel; a drain goroutine folds those into the  *)
(* records.  The loader that calls EnsureStarted and the sign-out that     *)
(* calls Stop are the parts of AppState the binding depends on.            *)
(***************************************************************************)
EXTENDS Naturals, Sequences, FiniteSets

CONSTANTS Accts,      \* signed-in accounts
          Removable,  \* bound: those the user signs out of
          In,         \* ids of incoming messages, all of one correspondent
          AcctOf,     \* the account each message is addressed to
          Mode,       \* "live" or "store", for each message
          Served,     \* the hosts each account's relay answers on
          Advertised, \* the talk host each account's autoconfig document names
          None,
          EvCap,      \* capacity of Manager.eventCh (128)
          MaxGen,     \* bound: managers started
          MaxTrouble  \* bound: failed calls, broken streams, expiries and key changes

(* An account's mail domain, talk.<domain> and another subdomain of it.    *)
Hosts == {"mail", "talk", "sub"}

ASSUME LinkAssumption ==
    /\ None \notin Accts /\ Removable \subseteq Accts /\ AcctOf \in [In -> Accts]
    /\ Mode \in [In -> {"live", "store"}] /\ EvCap \in Nat \ {0} /\ MaxGen \in Nat /\ MaxTrouble \in Nat
    /\ Served \in [Accts -> SUBSET Hosts] /\ Advertised \in [Accts -> Hosts \cup {"none", "foreign"}]

Gens == 1 .. MaxGen

VARIABLES
    accts,                            \* the account rows
    bound, trans, cur,                \* ChatState.boundID, transitioning, mgr
    online, inRoom, unread, st,       \* ChatState: online, the room is open, its badge, message -> MsgStatus
    starter, acct, prev,              \* the starter goroutine of each generation and what it was given
    ctxDone, host, run, up, tok,      \* Manager: context, domain, loop, stream, token
    ch, drain,                        \* Manager.eventCh, is its drain goroutine running
    fresh, shut,                      \* the keyring has the mailbox's current key; messages it cannot open
    sent, held, pipe,                 \* server: messages sent, envelopes kept, what each stream carries
    trouble,
    lost, overtaken, misled           \* history: dropped messages, a starter overtaken, hosts found amid failures

bindVars   == <<bound, trans, cur>>
viewVars   == <<online, inRoom, unread, st>>
startVars  == <<starter, acct, prev>>
hostVars   == <<host, misled>>
loopVars   == <<run, up, tok>>
keyVars    == <<fresh, shut>>
serverVars == <<sent, held>>
vars == <<accts, bindVars, viewVars, startVars, ctxDone, hostVars, loopVars, ch, drain, keyVars, serverVars,
          pipe, trouble, lost, overtaken>>

Events == [t : {"in"}, id : In] \cup [t : {"conn"}, on : BOOLEAN]

Init ==
    /\ accts = Accts
    /\ bound = None /\ trans = FALSE /\ cur = 0
    /\ online = FALSE /\ inRoom = FALSE /\ unread = 0 /\ st = [m \in In |-> "none"]
    /\ starter = [g \in Gens |-> "unused"] /\ acct = [g \in Gens |-> None] /\ prev = [g \in Gens |-> 0]
    /\ ctxDone = [g \in Gens |-> FALSE] /\ run = [g \in Gens |-> "off"] /\ up = [g \in Gens |-> FALSE]
    /\ tok = [g \in Gens |-> "none"]
    /\ ch = [g \in Gens |-> <<>>] /\ drain = [g \in Gens |-> FALSE]
    /\ fresh = TRUE /\ shut = {} /\ sent = {} /\ held = {} /\ pipe = [g \in Gens |-> {}] /\ trouble = 0
    /\ host = [g \in Gens |-> "mail"] /\ lost = {} /\ overtaken = FALSE /\ misled = {}

Fails == trouble < MaxTrouble /\ trouble' = trouble + 1

Full(g) == Len(ch[g]) >= EvCap

(* emit: a full channel drops the event.                                   *)
emit(g, e) ==
    /\ ch' = IF Full(g) THEN ch ELSE [ch EXCEPT ![g] = Append(@, e)]
    /\ lost' = IF Full(g) /\ e.t = "in" THEN lost \cup {e.id} ELSE lost

-----------------------------------------------------------------------------
(* Binding: the loader, EnsureStarted, the starter goroutine and Stop.     *)

NextGen(g) == starter[g] = "unused" /\ \A h \in Gens : h < g => starter[h] # "unused"

IsBound(a) == bound = a /\ (cur # 0 \/ trans)

MustRebindAnyTime(a) == ~IsBound(a)

(* EnsureStarted does nothing while it is bound to that account, and       *)
(* nothing while any transition is under way.  The loader calls it on      *)
(* every reload, for the selected account; the user may select any.        *)
MustRebind(a) == ~IsBound(a) /\ ~trans

EnsureStarted(a) ==
    /\ a \in accts /\ MustRebind(a)
    /\ \E g \in Gens :
         /\ NextGen(g)
         /\ starter' = [starter EXCEPT ![g] = "closing"]
         /\ acct' = [acct EXCEPT ![g] = a]
         /\ prev' = [prev EXCEPT ![g] = cur]
    /\ bound' = a /\ trans' = TRUE /\ cur' = 0
    /\ UNCHANGED <<accts, viewVars, ctxDone, hostVars, loopVars, ch, drain, keyVars, serverVars, pipe, trouble,
                   lost, overtaken>>

(* The starter cancels the previous manager, then waits for its loop.      *)
CancelPrevious(g) ==
    /\ starter[g] = "closing"
    /\ starter' = [starter EXCEPT ![g] = "waiting"]
    /\ ctxDone' = IF prev[g] = 0 THEN ctxDone ELSE [ctxDone EXCEPT ![prev[g]] = TRUE]
    /\ UNCHANGED <<accts, bindVars, viewVars, acct, prev, hostVars, loopVars, ch, drain, keyVars, serverVars, pipe,
                   trouble, lost, overtaken>>

(* syncOwnKey: the mailbox's current key is fetched and imported, after    *)
(* which the keyring opens whatever was encrypted to it.                   *)
FetchPrivateKey == fresh' = TRUE

syncOwnKey == FetchPrivateKey /\ shut' = {}

(* talkHostFor: only the mail domain or a subdomain of it is accepted.     *)
talkHostFor(h) == IF h \in Hosts THEN h ELSE "none"

(* advertisedTalkHost: none if the autoconfig document cannot be read.     *)
advertisedTalkHost(a, readable) == IF readable THEN talkHostFor(Advertised[a]) ELSE "none"

(* ResolveTalkHost: the advertised host, then talk.<domain>; the first     *)
(* that answers its probe as a relay is used, the mail domain if none does.*)
Candidates(a, readable) ==
    LET adv == advertisedTalkHost(a, readable)
    IN  (IF adv \in {"none", "mail"} THEN <<>> ELSE <<adv>>) \o (IF adv = "talk" THEN <<>> ELSE <<"talk">>)

probeTalkRelay(h, answering) == h \in answering

ResolveTalkHost(a, readable, answering) ==
    LET c == Candidates(a, readable)
        live(i) == i \in DOMAIN c /\ probeTalkRelay(c[i], answering)
    IN  IF live(1) THEN c[1] ELSE IF live(2) THEN c[2] ELSE "mail"

NoRecords == unread' = 0 /\ st' = [m \in In |-> "none"] /\ inRoom' = FALSE

(* startManager, once Close has returned: the key is synced if it can be,  *)
(* the host is looked up, for as long as this manager lasts; the manager is*)
(* started and installed, and the conversations of the account before it   *)
(* are dropped.  Any of the calls may fail.                                *)
startManager(g) ==
    /\ starter[g] = "waiting" /\ (prev[g] # 0 => run[prev[g]] = "exited")
    /\ starter' = [starter EXCEPT ![g] = "done"]
    /\ \E synced, readable \in BOOLEAN, answering \in SUBSET Served[acct[g]] :
         /\ IF synced THEN syncOwnKey ELSE UNCHANGED keyVars
         /\ host' = [host EXCEPT ![g] = ResolveTalkHost(acct[g], readable, answering)]
         /\ misled' = IF readable /\ answering = Served[acct[g]] THEN misled ELSE misled \cup {g}
         /\ IF synced /\ misled' = misled THEN UNCHANGED trouble ELSE Fails
    /\ run' = [run EXCEPT ![g] = "token"] /\ drain' = [drain EXCEPT ![g] = TRUE]
    /\ cur' = g /\ trans' = FALSE
    /\ NoRecords /\ online' = FALSE
    /\ UNCHANGED <<accts, bound, acct, prev, ctxDone, up, tok, ch, serverVars, pipe, lost,
                   overtaken>>

(* An AccountRemovedEvent: Stop tears the binding down, whatever account   *)
(* it was for.                                                             *)
AccountRemoved(a) ==
    /\ a \in accts \cap Removable /\ accts' = accts \ {a}
    /\ bound' = None /\ trans' = FALSE /\ cur' = 0
    /\ ctxDone' = IF cur = 0 THEN ctxDone ELSE [ctxDone EXCEPT ![cur] = TRUE]
    /\ NoRecords /\ online' = FALSE
    /\ overtaken' = (overtaken \/ trans)
    /\ UNCHANGED <<startVars, hostVars, loopVars, ch, drain, keyVars, serverVars, pipe, trouble, lost>>

-----------------------------------------------------------------------------
(* Manager.run: token, stream, events, backoff.                            *)

runExitSleepless(g) ==
    /\ ctxDone[g] /\ run[g] = "token"
    /\ run' = [run EXCEPT ![g] = "exited"] /\ up' = [up EXCEPT ![g] = FALSE]
    /\ tok' = [tok EXCEPT ![g] = "none"]
    /\ UNCHANGED <<accts, bindVars, viewVars, startVars, ctxDone, hostVars, ch, drain, keyVars,
                   serverVars, pipe, trouble, lost, overtaken>>

(* The context test at the top of the loop, the interruptible sleep and    *)
(* the test after the stream has ended.  What the manager held is garbage. *)
runExit(g) ==
    /\ ctxDone[g] /\ \/ run[g] \in {"token", "sleep"}
                     \/ run[g] = "live" /\ pipe[g] = {}
    /\ run' = [run EXCEPT ![g] = "exited"] /\ up' = [up EXCEPT ![g] = FALSE]
    /\ tok' = [tok EXCEPT ![g] = "none"]
    /\ UNCHANGED <<accts, bindVars, viewVars, startVars, ctxDone, hostVars, ch, drain, keyVars,
                   serverVars, pipe, trouble, lost, overtaken>>

(* Connect needs a relay on the manager's host.                            *)
Connect(g) == host[g] \in Served[acct[g]]

(* ensureToken: a cached token, or a Connect.                              *)
ensureToken(g) ==
    /\ run[g] = "token" /\ ~ctxDone[g] /\ (tok[g] = "none" => Connect(g))
    /\ tok' = [tok EXCEPT ![g] = IF @ = "none" THEN "good" ELSE @]
    /\ run' = [run EXCEPT ![g] = "open"]
    /\ UNCHANGED <<accts, bindVars, viewVars, startVars, ctxDone, hostVars, up, ch, drain, keyVars,
                   serverVars, pipe, trouble, lost, overtaken>>

clearTokenNever(g) == UNCHANGED tok

(* clearToken, after a 401.                                                *)
clearToken(g) == tok' = [tok EXCEPT ![g] = "none"]

(* A Connect or an OpenStream that fails, or is cancelled: offline is      *)
(* announced and the loop sleeps; a 401 also discards the token.           *)
connectFails(g) ==
    /\ \/ run[g] = "token" /\ tok[g] = "none" /\ Fails /\ UNCHANGED tok
       \/ run[g] = "token" /\ tok[g] = "none" /\ ~Connect(g) /\ UNCHANGED <<tok, trouble>>
       \/ run[g] = "open" /\ tok[g] = "good" /\ Fails /\ UNCHANGED tok
       \/ run[g] = "open" /\ tok[g] = "bad" /\ clearToken(g) /\ UNCHANGED trouble
       \/ run[g] = "open" /\ ctxDone[g] /\ UNCHANGED <<tok, trouble>>
    /\ emit(g, [t |-> "conn", on |-> FALSE])
    /\ run' = [run EXCEPT ![g] = "sleep"]
    /\ UNCHANGED <<accts, bindVars, viewVars, startVars, ctxDone, hostVars, up, drain, keyVars, serverVars,
                   pipe, overtaken>>

(* OpenStream succeeds; the server first flushes what it kept.             *)
OpenStream(g) ==
    /\ run[g] = "open" /\ tok[g] = "good" /\ ~ctxDone[g]
    /\ run' = [run EXCEPT ![g] = "live"] /\ up' = [up EXCEPT ![g] = TRUE]
    /\ pipe' = [pipe EXCEPT ![g] = {m \in held : AcctOf[m] = acct[g]}]
    /\ emit(g, [t |-> "conn", on |-> TRUE])
    /\ UNCHANGED <<accts, bindVars, viewVars, startVars, ctxDone, hostVars, tok, drain, keyVars, serverVars,
                   trouble, overtaken>>

(* resyncOnce: the key is fetched again.                                   *)
resyncOnce == syncOwnKey /\ UNCHANGED trouble

(* handleEnvelope: what cannot be opened is retried once if resyncOnce     *)
(* fetched the key again, and dropped if resyncOnce failed or had to wait  *)
(* for its cooldown.                                                       *)
handleEnvelope(g) ==
    /\ run[g] = "live"
    /\ \E m \in pipe[g] :
         /\ pipe' = [pipe EXCEPT ![g] = @ \ {m}]
         /\ \/ m \notin shut /\ emit(g, [t |-> "in", id |-> m]) /\ UNCHANGED <<keyVars, trouble>>
            \/ m \in shut /\ resyncOnce /\ emit(g, [t |-> "in", id |-> m])
            \/ m \in shut /\ lost' = lost \cup {m} /\ UNCHANGED <<keyVars, trouble, ch>>
    /\ UNCHANGED <<accts, bindVars, viewVars, startVars, ctxDone, hostVars, run, up, tok, drain, serverVars,
                   overtaken>>

(* The connection breaks; what parseSSE had already passed on is still     *)
(* handled, then the loop announces offline and sleeps.                    *)
StreamBreaks(g) ==
    /\ run[g] = "live" /\ up[g] /\ Fails /\ up' = [up EXCEPT ![g] = FALSE]
    /\ UNCHANGED <<accts, bindVars, viewVars, startVars, ctxDone, hostVars, run, tok, ch, drain, keyVars,
                   serverVars, pipe, lost, overtaken>>

streamEnds(g) ==
    /\ run[g] = "live" /\ ~up[g] /\ pipe[g] = {} /\ ~ctxDone[g]
    /\ emit(g, [t |-> "conn", on |-> FALSE])
    /\ run' = [run EXCEPT ![g] = "sleep"]
    /\ UNCHANGED <<accts, bindVars, viewVars, startVars, ctxDone, hostVars, up, tok, drain, keyVars,
                   serverVars, pipe, trouble, overtaken>>

(* The backoff has passed.                                                 *)
wake(g) ==
    /\ run[g] = "sleep" /\ ~ctxDone[g] /\ run' = [run EXCEPT ![g] = "token"]
    /\ UNCHANGED <<accts, bindVars, viewVars, startVars, ctxDone, hostVars, up, tok, ch, drain, keyVars,
                   serverVars, pipe, trouble, lost, overtaken>>

Loop(g) == \/ runExit(g) \/ ensureToken(g) \/ connectFails(g) \/ OpenStream(g)
           \/ handleEnvelope(g) \/ streamEnds(g) \/ wake(g)

-----------------------------------------------------------------------------
(* ChatState.drain and apply.                                              *)

applyIncomingAgain(m) ==
    /\ st' = [st EXCEPT ![m] = "sealed"]
    /\ unread' = IF inRoom THEN unread ELSE unread + 1

(* applyIncoming: a message the conversation already holds is skipped.     *)
applyIncoming(m) ==
    IF st[m] # "none" THEN UNCHANGED <<unread, st>>
    ELSE /\ st' = [st EXCEPT ![m] = "sealed"]
         /\ unread' = IF inRoom THEN unread ELSE unread + 1

(* drain picks between its context and an event at random, so a superseded *)
(* drain may still apply what its channel holds.                           *)
drainStep(g) ==
    /\ drain[g] /\ ch[g] # <<>> /\ ch' = [ch EXCEPT ![g] = Tail(@)]
    /\ LET e == Head(ch[g]) IN
         IF e.t = "in" THEN applyIncoming(e.id) /\ UNCHANGED online
         ELSE online' = e.on /\ UNCHANGED <<unread, st>>
    /\ UNCHANGED <<accts, bindVars, inRoom, startVars, ctxDone, hostVars, loopVars, drain, keyVars, serverVars, pipe,
                   trouble, lost, overtaken>>

drainExit(g) ==
    /\ drain[g] /\ ctxDone[g] /\ drain' = [drain EXCEPT ![g] = FALSE]
    /\ ch' = [ch EXCEPT ![g] = <<>>]
    /\ UNCHANGED <<accts, bindVars, viewVars, startVars, ctxDone, hostVars, loopVars, keyVars, serverVars, pipe,
                   trouble, lost, overtaken>>

-----------------------------------------------------------------------------
(* What the user does, and the server.                                     *)

(* OpenConversation clears the badge; CloseConversation leaves the room.   *)
OpenConversation ==
    /\ ~inRoom /\ inRoom' = TRUE /\ unread' = 0
    /\ UNCHANGED <<accts, bindVars, online, st, startVars, ctxDone, hostVars, loopVars, ch, drain, keyVars,
                   serverVars, pipe, trouble, lost, overtaken>>

CloseConversation ==
    /\ inRoom /\ inRoom' = FALSE
    /\ UNCHANGED <<accts, bindVars, online, unread, st, startVars, ctxDone, hostVars, loopVars, ch, drain, keyVars,
                   serverVars, pipe, trouble, lost, overtaken>>

Ack(m) == Connect(cur) /\ held' = held \ {m}

(* RevealMessage: the bubble opens at once; the ack that destroys the      *)
(* server's copy may fail, and nobody retries it.                          *)
RevealMessage(m) ==
    /\ inRoom /\ st[m] = "sealed" /\ st' = [st EXCEPT ![m] = "open"]
    /\ \/ cur # 0 /\ Ack(m)
       \/ UNCHANGED held
    /\ UNCHANGED <<accts, bindVars, online, inRoom, unread, startVars, ctxDone, hostVars, loopVars, ch, drain,
                   keyVars, sent, pipe, trouble, lost, overtaken>>

(* A correspondent sends: kept until acked in store mode, and passed to    *)
(* the account's open streams.                                             *)
Streaming(a) == {g \in Gens : run[g] = "live" /\ up[g] /\ ~ctxDone[g] /\ acct[g] = a}

PeerSends(m) ==
    /\ m \notin sent /\ sent' = sent \cup {m}
    /\ held' = IF Mode[m] = "store" THEN held \cup {m} ELSE held
    /\ shut' = IF fresh THEN shut ELSE shut \cup {m}
    /\ pipe' = [g \in Gens |-> IF g \in Streaming(AcctOf[m]) THEN pipe[g] \cup {m} ELSE pipe[g]]
    /\ UNCHANGED <<accts, bindVars, viewVars, startVars, ctxDone, hostVars, loopVars, ch, drain, fresh, trouble,
                   lost, overtaken>>

(* The server's token expires, or the mailbox gets a new key.              *)
ServerChanges ==
    /\ Fails
    /\ \/ fresh /\ fresh' = FALSE /\ UNCHANGED tok
       \/ \E g \in Gens : tok[g] = "good" /\ tok' = [tok EXCEPT ![g] = "bad"] /\ UNCHANGED fresh
    /\ UNCHANGED <<accts, bindVars, viewVars, startVars, ctxDone, hostVars, run, up, ch, drain, shut,
                   serverVars, pipe, lost, overtaken>>

-----------------------------------------------------------------------------
Starter(g) == CancelPrevious(g) \/ startManager(g)

User == \/ \E a \in Removable : AccountRemoved(a)
        \/ OpenConversation \/ CloseConversation
        \/ \E m \in In : RevealMessage(m)

Next == \/ \E a \in Accts : EnsureStarted(a)
        \/ User \/ ServerChanges
        \/ \E m \in In : PeerSends(m)
        \/ \E g \in Gens : \/ Starter(g) \/ Loop(g) \/ StreamBreaks(g)
                           \/ drainStep(g) \/ drainExit(g)

(* The goroutines run: each starter, loop and drain keeps taking steps.    *)
Fairness == \A g \in Gens : WF_vars(Starter(g)) /\ WF_vars(Loop(g)) /\ WF_vars(drainStep(g))

Spec == Init /\ [][Next]_vars /\ Fairness

-----------------------------------------------------------------------------
(* The types of ChatState, of the managers and of the server's side.       *)
BindOK == accts \subseteq Accts /\ bound \in Accts \cup {None} /\ trans \in BOOLEAN /\ cur \in 0 .. MaxGen

ViewOK == online \in BOOLEAN /\ inRoom \in BOOLEAN /\ unread \in Nat /\ st \in [In -> {"none", "sealed", "open"}]

StartOK ==
    /\ starter \in [Gens -> {"unused", "closing", "waiting", "done"}]
    /\ acct \in [Gens -> Accts \cup {None}] /\ prev \in [Gens -> 0 .. MaxGen]
    /\ ctxDone \in [Gens -> BOOLEAN]

LoopOK ==
    /\ run \in [Gens -> {"off", "token", "open", "live", "sleep", "exited"}]
    /\ up \in [Gens -> BOOLEAN] /\ tok \in [Gens -> {"none", "good", "bad"}]
    /\ host \in [Gens -> Hosts] /\ misled \subseteq Gens

ChanOK ==
    /\ ch \in [Gens -> Seq(Events)] /\ \A g \in Gens : Len(ch[g]) <= EvCap
    /\ drain \in [Gens -> BOOLEAN] /\ lost \subseteq In

ServerOK ==
    /\ fresh \in BOOLEAN /\ shut \subseteq In /\ sent \subseteq In /\ held \subseteq sent
    /\ pipe \in [Gens -> SUBSET In] /\ trouble \in 0 .. MaxTrouble /\ overtaken \in BOOLEAN

TypeOK == BindOK /\ ViewOK /\ StartOK /\ LoopOK /\ ChanOK /\ ServerOK

(* Unless a sign-out overtook a starter (Stop clears transitioning while   *)
(* startManager is still under way), the installed manager is the one of   *)
(* the account ChatState says it is bound to, it was not cancelled, and    *)
(* every other manager has been cancelled or is about to be.               *)
OneManager ==
    overtaken \/ \A g \in Gens :
        /\ g = cur => acct[g] = bound /\ ~ctxDone[g] /\ ~trans
        /\ run[g] # "off" /\ ~ctxDone[g] => g = cur \/ \E h \in Gens : prev[h] = g /\ starter[h] = "closing"

(* However often a reconnect flushes an unread message again, and however  *)
(* many drains run, the unread badge never counts a message twice.         *)
UnreadCountsOnce == unread <= Cardinality({m \in In : st[m] # "none"})

(* Switching accounts ends: the starter's wait for the old manager's loop  *)
(* is always answered.                                                     *)
RebindSettles == trans ~> ~trans

(* A stored message reaches its conversation while its account stays       *)
(* bound, through token expiries, refused and broken streams, unless it    *)
(* was dropped: undecryptable, or the event channel full.  A manager whose *)
(* look-up of the host failed on the way keeps the host it was given, even *)
(* one without a relay; every other is on a host that serves.              *)
ArrivalShown ==
    \A m \in In : (m \in held /\ cur # 0 /\ acct[cur] = AcctOf[m] /\ (cur \in misled => Connect(cur)))
        ~> (st[m] # "none" \/ m \in lost \/ m \notin held \/ cur = 0 \/ acct[cur] # AcctOf[m])
=============================================================================
