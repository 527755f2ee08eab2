--------------------------- MODULE ChatLinkProofs ---------------------------
(***************************************************************************)
(* Type correctness of ChatLink, that an account is served by one manager, *)
(* and that the unread badge counts no message twice: for any accounts,    *)
(* messages, relays, number of managers and amount of trouble.             *)
(***************************************************************************)
EXTENDS ChatLink, FiniteSetTheorems, TLAPS

(***************************************************************************)
(* emit keeps the channel a channel, within its capacity.                  *)
(***************************************************************************)
LEMMA EmitType ==
    ASSUME ChanOK, NEW g \in Gens, NEW e \in Events, emit(g, e)
    PROVE  /\ ch' \in [Gens -> Seq(Events)] /\ \A h \in Gens : Len(ch'[h]) <= EvCap
           /\ lost' \subseteq In
  <1> USE LinkAssumption
  <1>1. ch[g] \in Seq(Events) /\ Append(ch[g], e) \in Seq(Events)
        /\ Len(Append(ch[g], e)) = Len(ch[g]) + 1
    BY DEF ChanOK
  <1>2. CASE Full(g)
    <2>1. e.t = "in" => e.id \in In
      BY DEF Events
    <2> QED BY <1>2, <2>1 DEF emit, ChanOK
  <1>3. CASE ~Full(g)
    <2>1. Len(ch[g]) \in Nat /\ Len(ch[g]) + 1 <= EvCap
      BY <1>1, <1>3 DEF Full
    <2>2. ch' = [ch EXCEPT ![g] = Append(@, e)] /\ lost' = lost
      BY <1>3 DEF emit
    <2> QED BY <1>1, <2>1, <2>2 DEF ChanOK
  <1> QED BY <1>2, <1>3

(***************************************************************************)
(* The two kinds of event are events.                                      *)
(***************************************************************************)
LEMMA EventType ==
    /\ \A b \in BOOLEAN : [t |-> "conn", on |-> b] \in Events
    /\ \A m \in In : [t |-> "in", id |-> m] \in Events
  BY DEF Events

(***************************************************************************)
(* Whatever the document says and whoever answers, the relay is looked for *)
(* on the mail domain or below it.                                         *)
(***************************************************************************)
LEMMA HostType ==
    ASSUME NEW a, NEW readable, NEW answering
    PROVE  ResolveTalkHost(a, readable, answering) \in Hosts
  <1> DEFINE adv == advertisedTalkHost(a, readable)
             c == Candidates(a, readable)
  <1>1. adv \in Hosts \cup {"none"}
    BY DEF advertisedTalkHost, talkHostFor, Hosts
  <1>2. c \in Seq(Hosts)
    <2> HIDE DEF adv
    <2>1. c = (IF adv \in {"none", "mail"} THEN <<>> ELSE <<adv>>)
                \o (IF adv = "talk" THEN <<>> ELSE <<"talk">>)
      BY DEF Candidates, adv
    <2>2. \/ c = <<>> \o <<>> \/ c = <<>> \o <<"talk">> \/ c = <<adv>> \o <<>>
          \/ c = <<adv>> \o <<"talk">>
      BY <2>1, Zenon
    <2>3. <<>> \in Seq(Hosts) /\ <<"talk">> \in Seq(Hosts)
      BY DEF Hosts
    <2>4. CASE adv \in Hosts
      <3>1. <<adv>> \in Seq(Hosts)
        BY <2>4
      <3>2. <<>> \o <<>> \in Seq(Hosts) /\ <<>> \o <<"talk">> \in Seq(Hosts)
        BY <2>3
      <3>3. <<adv>> \o <<>> \in Seq(Hosts) /\ <<adv>> \o <<"talk">> \in Seq(Hosts)
        BY <2>3, <3>1
      <3> QED BY <2>2, <3>2, <3>3, Zenon
    <2>5. CASE adv = "none"
      BY <2>1, <2>3, <2>5
    <2> QED BY <1>1, <2>4, <2>5
  <1> HIDE DEF c
  <1>3. \A i \in DOMAIN c : c[i] \in Hosts
    BY <1>2
  <1>4. \/ 1 \in DOMAIN c /\ ResolveTalkHost(a, readable, answering) = c[1]
        \/ 2 \in DOMAIN c /\ ResolveTalkHost(a, readable, answering) = c[2]
        \/ ResolveTalkHost(a, readable, answering) = "mail"
    BY DEF ResolveTalkHost, c
  <1> QED BY <1>3, <1>4 DEF Hosts

(***************************************************************************)
(* What leaves a group of variables alone keeps their types.               *)
(***************************************************************************)
LEMMA UnchangedType ==
    ASSUME TypeOK
    PROVE  /\ UNCHANGED <<accts, bindVars>> => BindOK'
           /\ UNCHANGED viewVars => ViewOK'
           /\ UNCHANGED <<startVars, ctxDone>> => StartOK'
           /\ UNCHANGED <<loopVars, hostVars>> => LoopOK'
           /\ UNCHANGED <<ch, drain, lost>> => ChanOK'
           /\ UNCHANGED <<keyVars, serverVars, pipe, trouble, overtaken>> => ServerOK'
  <1> USE DEF TypeOK
  <1>1. UNCHANGED <<accts, bindVars>> => BindOK'
    BY DEF BindOK, bindVars
  <1>2. UNCHANGED viewVars => ViewOK'
    BY DEF ViewOK, viewVars
  <1>3. UNCHANGED <<startVars, ctxDone>> => StartOK'
    BY DEF StartOK, startVars
  <1>4. UNCHANGED <<loopVars, hostVars>> => LoopOK'
    BY DEF LoopOK, loopVars, hostVars
  <1>5. UNCHANGED <<ch, drain, lost>> => ChanOK'
    BY DEF ChanOK
  <1>6. UNCHANGED <<keyVars, serverVars, pipe, trouble, overtaken>> => ServerOK'
    BY DEF ServerOK, keyVars, serverVars
  <1> QED BY <1>1, <1>2, <1>3, <1>4, <1>5, <1>6

LEMMA InitType == Init => TypeOK
  <1> SUFFICES ASSUME Init PROVE TypeOK
    OBVIOUS
  <1> USE DEF Init
  <1>1. BindOK
    <2>1. trans \in BOOLEAN /\ cur = 0
      BY Zenon
    <2>2. 0 \in 0 .. MaxGen
      BY LinkAssumption
    <2> QED BY <2>1, <2>2, Zenon DEF BindOK
  <1>5. ViewOK
    BY DEF ViewOK
  <1>2. StartOK /\ LoopOK
    BY LinkAssumption DEF StartOK, LoopOK, Hosts
  <1>3. ChanOK
    BY LinkAssumption DEF ChanOK
  <1>4. ServerOK
    <2>1. fresh \in BOOLEAN /\ overtaken \in BOOLEAN /\ trouble = 0
      BY Zenon
    <2>2. 0 \in 0 .. MaxTrouble
      BY LinkAssumption
    <2>3. shut \subseteq In /\ sent \subseteq In /\ held \subseteq sent
      BY Zenon
    <2>4. pipe \in [Gens -> SUBSET In]
      OBVIOUS
    <2> QED BY <2>1, <2>2, <2>3, <2>4, Zenon DEF ServerOK
  <1> QED BY <1>1, <1>2, <1>3, <1>4, <1>5 DEF TypeOK

LEMMA NextType == TypeOK /\ [Next]_vars => TypeOK'
  <1> SUFFICES ASSUME TypeOK, [Next]_vars PROVE TypeOK'
    OBVIOUS
  <1> USE LinkAssumption DEF TypeOK
  <1>a. /\ UNCHANGED <<accts, bindVars>> => BindOK'
        /\ UNCHANGED viewVars => ViewOK'
        /\ UNCHANGED <<startVars, ctxDone>> => StartOK'
        /\ UNCHANGED <<loopVars, hostVars>> => LoopOK'
        /\ UNCHANGED <<ch, drain, lost>> => ChanOK'
        /\ UNCHANGED <<keyVars, serverVars, pipe, trouble, overtaken>> => ServerOK'
    BY UnchangedType
  <1>b. Fails /\ UNCHANGED <<keyVars, serverVars, pipe, overtaken>> => ServerOK'
    BY DEF Fails, ServerOK, keyVars, serverVars
  <1>1. ASSUME NEW a \in Accts, EnsureStarted(a) PROVE TypeOK'
    <2>1. StartOK'
      BY <1>1 DEF EnsureStarted, StartOK, BindOK
    <2>2. BindOK'
      BY <1>1 DEF EnsureStarted, BindOK
    <2> QED BY <1>a, <1>1, <2>1, <2>2 DEF EnsureStarted
  <1>2. ASSUME NEW a \in Removable, AccountRemoved(a) PROVE TypeOK'
    <2>1. BindOK'
      <3>1. accts' \subseteq Accts /\ bound' = None /\ cur' = 0
        BY <1>2 DEF AccountRemoved, BindOK
      <3>2. trans' \in BOOLEAN
        BY <1>2 DEF AccountRemoved
      <3>3. cur' \in 0 .. MaxGen
        BY <3>1
      <3> QED BY <3>1, <3>2, <3>3, Zenon DEF BindOK
    <2>2. ViewOK'
      BY <1>2 DEF AccountRemoved, ViewOK, NoRecords
    <2>3. StartOK'
      BY <1>2 DEF AccountRemoved, StartOK, BindOK, startVars
    <2>4. ServerOK'
      <3>1. overtaken' \in BOOLEAN
        BY <1>2, Zenon DEF AccountRemoved
      <3> QED BY <1>2, <3>1 DEF AccountRemoved, ServerOK, keyVars, serverVars
    <2> QED BY <1>a, <1>2, <2>1, <2>2, <2>3, <2>4 DEF AccountRemoved
  <1>3. CASE OpenConversation \/ CloseConversation
    <2>1. ViewOK'
      <3>1. inRoom' \in BOOLEAN /\ unread' \in {0, unread} /\ UNCHANGED <<online, st>>
        BY <1>3 DEF OpenConversation, CloseConversation
      <3> QED BY <3>1 DEF ViewOK
    <2> QED BY <1>a, <1>3, <2>1 DEF OpenConversation, CloseConversation
  <1>4. ASSUME NEW m \in In, RevealMessage(m) PROVE TypeOK'
    <2>1. ViewOK'
      BY <1>4 DEF RevealMessage, ViewOK
    <2>2. ServerOK'
      BY <1>4 DEF RevealMessage, ServerOK, Ack, keyVars
    <2> QED BY <1>a, <1>4, <2>1, <2>2 DEF RevealMessage
  <1>5. ASSUME NEW m \in In, PeerSends(m) PROVE TypeOK'
    <2>1. ServerOK'
      <3>1. pipe' \in [Gens -> SUBSET In]
        BY <1>5 DEF PeerSends, ServerOK
      <3> QED BY <1>5, <3>1 DEF PeerSends, ServerOK
    <2> QED BY <1>a, <1>5, <2>1 DEF PeerSends
  <1>6. CASE ServerChanges
    <2>1. LoopOK'
      BY <1>6 DEF ServerChanges, LoopOK, hostVars
    <2>2. ServerOK'
      <3>1. fresh' \in BOOLEAN
        BY <1>6 DEF ServerChanges, ServerOK
      <3>2. trouble' \in 0 .. MaxTrouble
        BY <1>6 DEF ServerChanges, Fails, ServerOK
      <3> QED BY <1>6, <3>1, <3>2 DEF ServerChanges, ServerOK, serverVars
    <2> QED BY <1>a, <1>6, <2>1, <2>2 DEF ServerChanges
  <1>7. ASSUME NEW g \in Gens, CancelPrevious(g) PROVE TypeOK'
    <2>1. StartOK'
      BY <1>7 DEF CancelPrevious, StartOK
    <2> QED BY <1>a, <1>7, <2>1 DEF CancelPrevious
  <1>8. ASSUME NEW g \in Gens, startManager(g) PROVE TypeOK'
    <2>1. PICK synced \in BOOLEAN, readable \in BOOLEAN, answering \in SUBSET Served[acct[g]] :
            /\ IF synced THEN syncOwnKey ELSE UNCHANGED keyVars
            /\ host' = [host EXCEPT ![g] = ResolveTalkHost(acct[g], readable, answering)]
            /\ misled' = IF readable /\ answering = Served[acct[g]] THEN misled ELSE misled \cup {g}
            /\ IF synced /\ misled' = misled THEN UNCHANGED trouble ELSE Fails
      BY <1>8 DEF startManager
    <2>2. LoopOK'
      <3>1. host' \in [Gens -> Hosts]
        BY <2>1, HostType DEF LoopOK
      <3>2. misled' \subseteq Gens
        BY <1>8, <2>1 DEF LoopOK
      <3> QED BY <1>8, <3>1, <3>2 DEF startManager, LoopOK
    <2>3. ServerOK'
      <3>1. trouble' \in 0 .. MaxTrouble
        BY <2>1 DEF Fails, ServerOK
      <3>2. fresh' \in BOOLEAN /\ shut' \subseteq In
        BY <2>1 DEF syncOwnKey, FetchPrivateKey, keyVars, ServerOK
      <3> QED BY <1>8, <3>1, <3>2 DEF startManager, ServerOK, serverVars
    <2>4. StartOK'
      BY <1>8 DEF startManager, StartOK
    <2>5. ViewOK' /\ BindOK'
      <3>1. ViewOK'
        BY <1>8 DEF startManager, ViewOK, NoRecords
      <3>2. trans' \in BOOLEAN /\ UNCHANGED <<accts, bound>>
        BY <1>8 DEF startManager
      <3>3. cur' \in 0 .. MaxGen
        BY <1>8 DEF startManager, Gens
      <3> QED BY <3>1, <3>2, <3>3 DEF BindOK
    <2>6. ChanOK'
      BY <1>8 DEF startManager, ChanOK
    <2> QED BY <2>2, <2>3, <2>4, <2>5, <2>6
  <1>9. ASSUME NEW g \in Gens, runExit(g) \/ ensureToken(g) \/ wake(g) PROVE TypeOK'
    <2>1. LoopOK'
      BY <1>9 DEF runExit, ensureToken, wake, LoopOK, hostVars
    <2> QED BY <1>a, <1>9, <2>1 DEF runExit, ensureToken, wake
  <1>10. ASSUME NEW g \in Gens, connectFails(g) PROVE TypeOK'
    <2>1. ChanOK'
      <3>1. emit(g, [t |-> "conn", on |-> FALSE]) /\ UNCHANGED drain
        BY <1>10 DEF connectFails
      <3> QED BY <3>1, <1>10, EmitType, EventType DEF ChanOK
    <2>2. LoopOK'
      BY <1>10 DEF connectFails, LoopOK, hostVars, clearToken
    <2>3. ServerOK'
      <3>1. trouble' \in 0 .. MaxTrouble
        BY <1>10 DEF connectFails, Fails, ServerOK
      <3> QED BY <1>10, <3>1 DEF connectFails, ServerOK, keyVars, serverVars
    <2> QED BY <1>a, <1>10, <2>1, <2>2, <2>3 DEF connectFails
  <1>11. ASSUME NEW g \in Gens, OpenStream(g) PROVE TypeOK'
    <2>1. ChanOK'
      <3>1. emit(g, [t |-> "conn", on |-> TRUE]) /\ UNCHANGED drain
        BY <1>11 DEF OpenStream
      <3> QED BY <3>1, <1>11, EmitType, EventType DEF ChanOK
    <2>2. LoopOK'
      BY <1>11 DEF OpenStream, LoopOK, hostVars
    <2>3. ServerOK'
      BY <1>11 DEF OpenStream, ServerOK, keyVars, serverVars
    <2> QED BY <1>a, <1>11, <2>1, <2>2, <2>3 DEF OpenStream
  <1>12. ASSUME NEW g \in Gens, handleEnvelope(g) PROVE TypeOK'
    <2>1. PICK m \in pipe[g] :
            /\ pipe' = [pipe EXCEPT ![g] = @ \ {m}]
            /\ \/ m \notin shut /\ emit(g, [t |-> "in", id |-> m]) /\ UNCHANGED <<keyVars, trouble>>
               \/ m \in shut /\ resyncOnce /\ emit(g, [t |-> "in", id |-> m])
               \/ m \in shut /\ lost' = lost \cup {m} /\ UNCHANGED <<keyVars, trouble, ch>>
      BY <1>12 DEF handleEnvelope
    <2>2. m \in In
      BY <1>12, <2>1 DEF ServerOK
    <2>3. ChanOK'
      <3>1. UNCHANGED drain
        BY <1>12 DEF handleEnvelope
      <3>2. CASE emit(g, [t |-> "in", id |-> m])
        BY <1>12, <2>2, <3>1, <3>2, EmitType, EventType DEF ChanOK
      <3>3. CASE lost' = lost \cup {m} /\ UNCHANGED ch
        BY <2>2, <3>1, <3>3 DEF ChanOK
      <3> QED BY <2>1, <3>2, <3>3
    <2>4. ServerOK'
      <3>1. fresh' \in BOOLEAN /\ shut' \subseteq In /\ UNCHANGED trouble
        BY <2>1 DEF resyncOnce, syncOwnKey, FetchPrivateKey, keyVars, ServerOK
      <3> QED BY <1>12, <2>1, <3>1 DEF handleEnvelope, ServerOK, serverVars
    <2>5. LoopOK'
      BY <1>12 DEF handleEnvelope, LoopOK, hostVars
    <2> QED BY <1>a, <1>12, <2>3, <2>4, <2>5 DEF handleEnvelope
  <1>13. ASSUME NEW g \in Gens, streamEnds(g) PROVE TypeOK'
    <2>1. ChanOK'
      <3>1. emit(g, [t |-> "conn", on |-> FALSE]) /\ UNCHANGED drain
        BY <1>13 DEF streamEnds
      <3> QED BY <3>1, <1>13, EmitType, EventType DEF ChanOK
    <2>2. LoopOK'
      BY <1>13 DEF streamEnds, LoopOK, hostVars
    <2> QED BY <1>a, <1>13, <2>1, <2>2 DEF streamEnds
  <1>14. ASSUME NEW g \in Gens, StreamBreaks(g) PROVE TypeOK'
    <2>1. LoopOK'
      BY <1>14 DEF StreamBreaks, LoopOK, hostVars
    <2> QED BY <1>a, <1>b, <1>14, <2>1 DEF StreamBreaks
  <1>15. ASSUME NEW g \in Gens, drainStep(g) PROVE TypeOK'
    <2>1. ch[g] \in Seq(Events) /\ ch[g] # <<>> /\ ch' = [ch EXCEPT ![g] = Tail(@)]
      BY <1>15 DEF drainStep, ChanOK
    <2>2. Head(ch[g]) \in Events /\ Tail(ch[g]) \in Seq(Events) /\ Len(Tail(ch[g])) <= EvCap
      BY <1>15, <2>1 DEF ChanOK
    <2>3. ChanOK'
      BY <1>15, <2>1, <2>2 DEF drainStep, ChanOK
    <2>4. ViewOK'
      <3>1. CASE Head(ch[g]).t = "in"
        <4>1. Head(ch[g]).id \in In
          BY <2>2, <3>1 DEF Events
        <4>2. applyIncoming(Head(ch[g]).id) /\ UNCHANGED <<online, inRoom>>
          BY <1>15, <3>1 DEF drainStep
        <4> QED BY <4>1, <4>2 DEF ViewOK, applyIncoming
      <3>2. CASE Head(ch[g]).t # "in"
        <4>1. Head(ch[g]).on \in BOOLEAN
          BY <2>2, <3>2 DEF Events
        <4>2. online' = Head(ch[g]).on /\ UNCHANGED <<unread, st, inRoom>>
          BY <1>15, <3>2 DEF drainStep
        <4> QED BY <4>1, <4>2 DEF ViewOK
      <3> QED BY <3>1, <3>2
    <2> QED BY <1>a, <1>15, <2>3, <2>4 DEF drainStep
  <1>16. ASSUME NEW g \in Gens, drainExit(g) PROVE TypeOK'
    <2>1. ChanOK'
      BY <1>16 DEF drainExit, ChanOK
    <2> QED BY <1>a, <1>16, <2>1 DEF drainExit
  <1>17. CASE UNCHANGED vars
    BY <1>a, <1>17 DEF vars
  <1> QED BY <1>1, <1>2, <1>3, <1>4, <1>5, <1>6, <1>7, <1>8, <1>9, <1>10, <1>11, <1>12, <1>13,
             <1>14, <1>15, <1>16, <1>17 DEF Next, User, Starter, Loop

(***************************************************************************)
(* Every variable keeps its type, the event channels their capacity, and   *)
(* the server keeps no envelope that was not sent.                         *)
(***************************************************************************)
THEOREM TypeCorrect == Spec => []TypeOK
  <1> QED BY InitType, NextType, PTL DEF Spec

-----------------------------------------------------------------------------
(***************************************************************************)
(* The strengthening of OneManager.  Without a sign-out in its way there   *)
(* is one starter at most and only while transitioning, nothing is         *)
(* installed meanwhile, a manager that has not been built is neither       *)
(* running nor cancelled, and what a starter has to close was built.       *)
(***************************************************************************)
Active(g) == starter[g] \in {"closing", "waiting"}

OneStarter ==
    /\ \A g \in Gens : Active(g) => trans /\ acct[g] = bound
    /\ \A g, h \in Gens : Active(g) /\ Active(h) => g = h

Installed ==
    /\ trans => cur = 0
    /\ cur # 0 => starter[cur] = "done" /\ acct[cur] = bound /\ ~ctxDone[cur]

NotBuilt ==
    /\ \A g \in Gens : starter[g] # "done" => run[g] = "off" /\ ~ctxDone[g]
    /\ \A g \in Gens : prev[g] # 0 => starter[prev[g]] = "done"

Running ==
    \A g \in Gens : run[g] # "off" /\ ~ctxDone[g] =>
        g = cur \/ \E h \in Gens : prev[h] = g /\ starter[h] = "closing"

LinkInv == overtaken \/ (OneStarter /\ Installed /\ NotBuilt /\ Running)

(***************************************************************************)
(* Nothing but the starters and a sign-out touches the binding, and a loop *)
(* never goes back to not having been started.                             *)
(***************************************************************************)
LEMMA BindingFrame ==
    ASSUME TypeOK, [Next]_vars,
           \A a \in Accts : ~EnsureStarted(a), \A a \in Removable : ~AccountRemoved(a),
           \A g \in Gens : ~Starter(g)
    PROVE  /\ UNCHANGED <<bound, trans, cur, starter, acct, prev, ctxDone, overtaken>>
           /\ \A g \in Gens : run'[g] = "off" <=> run[g] = "off"
  <1> USE DEF TypeOK, LoopOK
  <1>1. CASE OpenConversation \/ CloseConversation
    BY <1>1 DEF OpenConversation, CloseConversation, bindVars, startVars, loopVars
  <1>2. ASSUME NEW m \in In, RevealMessage(m) \/ PeerSends(m)
        PROVE  UNCHANGED <<bound, trans, cur, starter, acct, prev, ctxDone, overtaken, run>>
    BY <1>2 DEF RevealMessage, PeerSends, bindVars, startVars, loopVars
  <1>3. CASE ServerChanges
    BY <1>3 DEF ServerChanges, bindVars, startVars
  <1>4. ASSUME NEW g \in Gens, StreamBreaks(g) \/ drainStep(g) \/ drainExit(g) \/ handleEnvelope(g)
        PROVE  UNCHANGED <<bound, trans, cur, starter, acct, prev, ctxDone, overtaken, run>>
    BY <1>4 DEF StreamBreaks, drainStep, drainExit, handleEnvelope, bindVars, startVars, loopVars
  <1>5. ASSUME NEW g \in Gens, \/ runExit(g) \/ ensureToken(g) \/ connectFails(g)
                               \/ OpenStream(g) \/ streamEnds(g) \/ wake(g)
        PROVE  /\ UNCHANGED <<bound, trans, cur, starter, acct, prev, ctxDone, overtaken>>
               /\ \A h \in Gens : run'[h] = "off" <=> run[h] = "off"
    <2>1. UNCHANGED <<bound, trans, cur, starter, acct, prev, ctxDone, overtaken>>
      BY <1>5 DEF runExit, ensureToken, connectFails, OpenStream, streamEnds, wake, bindVars,
             startVars
    <2>2. run[g] # "off" /\ run' \in {[run EXCEPT ![g] = "exited"], [run EXCEPT ![g] = "open"],
                                      [run EXCEPT ![g] = "sleep"], [run EXCEPT ![g] = "live"],
                                      [run EXCEPT ![g] = "token"]}
      BY <1>5 DEF runExit, ensureToken, connectFails, OpenStream, streamEnds, wake
    <2> QED BY <1>5, <2>1, <2>2
  <1>6. CASE UNCHANGED vars
    BY <1>6 DEF vars, bindVars, startVars, loopVars
  <1> QED BY <1>1, <1>2, <1>3, <1>4, <1>5, <1>6 DEF Next, User, Loop

LEMMA LinkInvStep == TypeOK /\ LinkInv /\ [Next]_vars => LinkInv'
  <1> SUFFICES ASSUME TypeOK, LinkInv, [Next]_vars PROVE LinkInv'
    OBVIOUS
  <1>a. BindOK /\ StartOK /\ LoopOK
    BY DEF TypeOK
  <1>b. \A g \in Gens : g # 0
    BY DEF Gens
  <1>0. CASE overtaken
    <2>1. overtaken'
      <3>1. ASSUME NEW a \in Removable, AccountRemoved(a) PROVE overtaken'
        BY <1>0, <3>1, Zenon DEF AccountRemoved
      <3>2. ASSUME NEW a \in Accts, EnsureStarted(a) PROVE overtaken'
        BY <1>0, <3>2 DEF EnsureStarted
      <3>3. ASSUME NEW g \in Gens, Starter(g) PROVE overtaken'
        BY <1>0, <3>3 DEF Starter, CancelPrevious, startManager
      <3> QED BY <1>0, <3>1, <3>2, <3>3, BindingFrame
    <2> QED BY <2>1 DEF LinkInv
  <1> USE <1>a, <1>b DEF StartOK, OneStarter, Installed, NotBuilt, Running, Active
  <1>1. ASSUME ~overtaken, NEW a \in Accts, EnsureStarted(a) PROVE LinkInv'
    <2>1. PICK g \in Gens : /\ NextGen(g)
                            /\ starter' = [starter EXCEPT ![g] = "closing"]
                            /\ acct' = [acct EXCEPT ![g] = a]
                            /\ prev' = [prev EXCEPT ![g] = cur]
      BY <1>1 DEF EnsureStarted
    <2>2. starter[g] = "unused" /\ ~trans /\ bound' = a /\ trans' = TRUE /\ cur' = 0
          /\ UNCHANGED <<ctxDone, run>>
      BY <1>1, <2>1 DEF EnsureStarted, NextGen, MustRebind, loopVars
    <2>3. OneStarter /\ Installed /\ NotBuilt /\ Running
      BY <1>1 DEF LinkInv
    <2>4. \A h \in Gens : ~Active(h)
      BY <2>2, <2>3
    <2>5. OneStarter'
      BY <2>1, <2>2, <2>4
    <2>6. Installed'
      BY <2>2
    <2>7. NotBuilt'
      BY <2>1, <2>2, <2>3, <1>a DEF BindOK
    <2>8. Running'
      BY <2>1, <2>2, <2>3, <2>4
    <2> QED BY <2>5, <2>6, <2>7, <2>8 DEF LinkInv
  <1>2. ASSUME ~overtaken, NEW a \in Removable, AccountRemoved(a) PROVE LinkInv'
    <2>1. CASE trans
      BY <1>2, <2>1, Zenon DEF AccountRemoved, LinkInv
    <2>2. CASE ~trans
      <3>1. bound' = None /\ trans' = FALSE /\ cur' = 0 /\ UNCHANGED <<starter, acct, prev, run>>
            /\ ctxDone' = IF cur = 0 THEN ctxDone ELSE [ctxDone EXCEPT ![cur] = TRUE]
        BY <1>2 DEF AccountRemoved, startVars, loopVars
      <3>2. OneStarter /\ Installed /\ NotBuilt /\ Running
        BY <1>2 DEF LinkInv
      <3>3. cur # 0 => cur \in Gens
        BY DEF BindOK, Gens
      <3>4. OneStarter' /\ Installed'
        BY <2>2, <3>1, <3>2
      <3>5. NotBuilt'
        BY <3>1, <3>2, <3>3
      <3>6. Running'
        BY <2>2, <3>1, <3>2, <3>3
      <3> QED BY <3>4, <3>5, <3>6 DEF LinkInv
    <2> QED BY <2>1, <2>2
  <1>3. ASSUME ~overtaken, NEW g \in Gens, CancelPrevious(g) PROVE LinkInv'
    <2>1. /\ starter[g] = "closing" /\ starter' = [starter EXCEPT ![g] = "waiting"]
          /\ ctxDone' = IF prev[g] = 0 THEN ctxDone ELSE [ctxDone EXCEPT ![prev[g]] = TRUE]
          /\ UNCHANGED <<bound, trans, cur, acct, prev, run>>
      BY <1>3 DEF CancelPrevious, bindVars, loopVars
    <2>2. OneStarter /\ Installed /\ NotBuilt /\ Running
      BY <1>3 DEF LinkInv
    <2>3. trans /\ cur = 0 /\ \A h \in Gens : Active(h) => h = g
      BY <1>3, <2>1, <2>2
    <2>4. prev[g] # 0 => prev[g] \in Gens
      BY <1>3 DEF Gens
    <2>5. OneStarter' /\ Installed'
      BY <1>3, <2>1, <2>2, <2>3
    <2>6. NotBuilt'
      BY <1>3, <2>1, <2>2, <2>4
    <2>7. Running'
      BY <1>3, <2>1, <2>2, <2>3, <2>4
    <2> QED BY <2>5, <2>6, <2>7 DEF LinkInv
  <1>4. ASSUME ~overtaken, NEW g \in Gens, startManager(g) PROVE LinkInv'
    <2>1. /\ starter[g] = "waiting" /\ starter' = [starter EXCEPT ![g] = "done"]
          /\ run' = [run EXCEPT ![g] = "token"] /\ cur' = g /\ trans' = FALSE
          /\ UNCHANGED <<bound, acct, prev, ctxDone>>
      BY <1>4 DEF startManager
    <2>2. OneStarter /\ Installed /\ NotBuilt /\ Running
      BY <1>4 DEF LinkInv
    <2>3. trans /\ cur = 0 /\ \A h \in Gens : Active(h) => h = g
      BY <1>4, <2>1, <2>2
    <2>4. OneStarter'
      BY <1>4, <2>1, <2>2, <2>3
    <2>5. Installed'
      BY <1>4, <2>1, <2>2, <2>3
    <2>6. NotBuilt'
      BY <1>4, <2>1, <2>2 DEF LoopOK
    <2>7. Running'
      BY <1>4, <2>1, <2>2, <2>3 DEF LoopOK
    <2> QED BY <2>4, <2>5, <2>6, <2>7 DEF LinkInv
  <1>5. ASSUME ~overtaken, \A a \in Accts : ~EnsureStarted(a),
               \A a \in Removable : ~AccountRemoved(a), \A g \in Gens : ~Starter(g)
        PROVE  LinkInv'
    <2>1. /\ UNCHANGED <<bound, trans, cur, starter, acct, prev, ctxDone, overtaken>>
          /\ \A g \in Gens : run'[g] = "off" <=> run[g] = "off"
      BY <1>5, BindingFrame
    <2>2. OneStarter /\ Installed /\ NotBuilt /\ Running
      BY <1>5 DEF LinkInv
    <2> QED BY <2>1, <2>2 DEF LinkInv
  <1> QED BY <1>0, <1>1, <1>2, <1>3, <1>4, <1>5 DEF Starter

LEMMA LinkInvInit == Init => LinkInv
  BY DEF Init, LinkInv, OneStarter, Installed, NotBuilt, Running, Active

(***************************************************************************)
(* One manager per binding: however often accounts are switched and signed *)
(* out of, unless a sign-out overtook a starter, the installed manager is  *)
(* the bound account's and alive, and every other one has been cancelled   *)
(* or is about to be.                                                      *)
(***************************************************************************)
THEOREM OneManagerHolds == Spec => []OneManager
  <1>1. TypeOK /\ LinkInv => OneManager
    <2> SUFFICES ASSUME TypeOK, LinkInv, ~overtaken, NEW g \in Gens
                 PROVE  /\ g = cur => acct[g] = bound /\ ~ctxDone[g] /\ ~trans
                        /\ run[g] # "off" /\ ~ctxDone[g] =>
                              g = cur \/ \E h \in Gens : prev[h] = g /\ starter[h] = "closing"
      BY DEF OneManager
    <2>1. g # 0
      BY DEF Gens
    <2> QED BY <2>1 DEF LinkInv, Installed, Running
  <1> QED BY <1>1, InitType, NextType, LinkInvInit, LinkInvStep, PTL DEF Spec

-----------------------------------------------------------------------------
(***************************************************************************)
(* The messages a conversation holds are finitely many, and the badge is   *)
(* no more than their number.                                              *)
(***************************************************************************)
Shown == {m \in In : st[m] # "none"}

BadgeInv == IsFiniteSet(Shown) /\ unread <= Cardinality(Shown)

LEMMA BadgeInit == Init => BadgeInv
  <1> SUFFICES ASSUME Init PROVE BadgeInv
    OBVIOUS
  <1>1. Shown = {}
    BY DEF Init, Shown
  <1> QED BY <1>1, FS_EmptySet DEF Init, BadgeInv

LEMMA BadgeStep == TypeOK /\ BadgeInv /\ [Next]_vars => BadgeInv'
  <1> SUFFICES ASSUME TypeOK, BadgeInv, [Next]_vars PROVE BadgeInv'
    OBVIOUS
  <1>a. IsFiniteSet(Shown) /\ Cardinality(Shown) \in Nat /\ unread <= Cardinality(Shown)
        /\ unread \in Nat /\ st \in [In -> {"none", "sealed", "open"}]
    BY FS_CardinalityType DEF BadgeInv, TypeOK, ViewOK
  <1>1. ASSUME Shown' = Shown, unread' \in {0, unread} PROVE BadgeInv'
    BY <1>a, <1>1 DEF BadgeInv
  <1>2. ASSUME NoRecords PROVE BadgeInv'
    <2>1. Shown' = {} /\ unread' = 0
      BY <1>2 DEF NoRecords, Shown
    <2> QED BY <2>1, FS_EmptySet DEF BadgeInv
  <1>3. CASE OpenConversation \/ CloseConversation
    BY <1>1, <1>3 DEF OpenConversation, CloseConversation, Shown
  <1>4. ASSUME NEW m \in In, RevealMessage(m) PROVE BadgeInv'
    <2>1. Shown' = Shown /\ unread' = unread
      BY <1>a, <1>4 DEF RevealMessage, Shown
    <2> QED BY <1>1, <2>1
  <1>5. ASSUME NEW g \in Gens, drainStep(g) PROVE BadgeInv'
    <2>1. Head(ch[g]) \in Events
      BY <1>5 DEF drainStep, TypeOK, ChanOK
    <2>2. CASE UNCHANGED <<unread, st>>
      BY <1>1, <2>2 DEF Shown
    <2>3. CASE Head(ch[g]).t = "in" /\ st[Head(ch[g]).id] = "none"
      <3> DEFINE m == Head(ch[g]).id
      <3>1. m \in In
        BY <2>1, <2>3 DEF Events
      <3>2. st' = [st EXCEPT ![m] = "sealed"] /\ unread' \in {unread, unread + 1}
        BY <1>5, <2>3 DEF drainStep, applyIncoming
      <3>3. Shown' = Shown \cup {m} /\ m \notin Shown
        BY <1>a, <2>3, <3>1, <3>2 DEF Shown
      <3>4. IsFiniteSet(Shown') /\ Cardinality(Shown') = Cardinality(Shown) + 1
        BY <1>a, <3>3, FS_AddElement
      <3> QED BY <1>a, <3>2, <3>4 DEF BadgeInv
    <2> QED BY <1>5, <2>2, <2>3 DEF drainStep, applyIncoming
  <1>6. ASSUME NEW g \in Gens, startManager(g) PROVE BadgeInv'
    BY <1>2, <1>6 DEF startManager
  <1>7. ASSUME NEW a \in Removable, AccountRemoved(a) PROVE BadgeInv'
    BY <1>2, <1>7 DEF AccountRemoved
  <1>8. CASE UNCHANGED <<unread, st>>
    BY <1>1, <1>8 DEF Shown
  <1>9. ASSUME NEW g \in Gens, CancelPrevious(g) \/ Loop(g) \/ StreamBreaks(g) \/ drainExit(g)
        PROVE  UNCHANGED <<unread, st>>
    BY <1>9 DEF CancelPrevious, Loop, runExit, ensureToken, connectFails, OpenStream,
           handleEnvelope, streamEnds, wake, StreamBreaks, drainExit, viewVars
  <1>10. (\E a \in Accts : EnsureStarted(a)) \/ ServerChanges \/ (\E m \in In : PeerSends(m))
           \/ UNCHANGED vars => UNCHANGED <<unread, st>>
    BY DEF EnsureStarted, ServerChanges, PeerSends, vars, viewVars
  <1> QED BY <1>3, <1>4, <1>5, <1>6, <1>7, <1>8, <1>9, <1>10 DEF Next, User, Starter

(***************************************************************************)
(* The unread badge never counts a message twice, whatever a reconnect     *)
(* flushes again and however many drains are running.                      *)
(***************************************************************************)
THEOREM BadgeCountsOnce == Spec => []UnreadCountsOnce
  <1>1. BadgeInv => UnreadCountsOnce
    BY DEF BadgeInv, UnreadCountsOnce, Shown
  <1> QED BY <1>1, InitType, NextType, BadgeInit, BadgeStep, PTL DEF Spec
=============================================================================
