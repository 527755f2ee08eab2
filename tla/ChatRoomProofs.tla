--------------------------- MODULE ChatRoomProofs ---------------------------
(***************************************************************************)
(* Type correctness of ChatRoom, that a verified shield was earned, and    *)
(* that an outgoing message goes back only when its receipt overtook the   *)
(* answer to the send: for any messages, keys, channel capacity and amount *)
(* of trouble.                                                             *)
(***************************************************************************)
EXTENDS ChatRoom, TLAPS

(***************************************************************************)
(* emit keeps the channel a channel, within its capacity.                  *)
(***************************************************************************)
LEMMA EmitType ==
    ASSUME ChanOK, NEW e \in Events, emit(e)
    PROVE  ch' \in Seq(Events) /\ Len(ch') <= EvCap
  <1>1. Append(ch, e) \in Seq(Events) /\ Len(Append(ch, e)) = Len(ch) + 1
    BY DEF ChanOK
  <1> QED BY <1>1, RoomAssumption DEF emit, ChanOK

LEMMA EventType ==
    /\ \A m \in Out, s \in {"delivered", "read", "expired"} : [t |-> s, id |-> m] \in Events
    /\ \A m \in In, ok \in BOOLEAN : [t |-> "in", id |-> m, ok |-> ok] \in Events
    /\ \A f \in Fps, v \in BOOLEAN : [t |-> "key", fp |-> f, ver |-> v] \in Events
  BY DEF Events

(***************************************************************************)
(* What an event carries.                                                  *)
(***************************************************************************)
LEMMA EventFields ==
    ASSUME NEW e \in Events
    PROVE  /\ e.t \in {"in", "delivered", "read", "expired", "key"}
           /\ e.t = "in" => e.id \in In
           /\ e.t \in {"delivered", "read", "expired"} => e.id \in Out
           /\ e.t = "key" => e.fp \in Fps /\ e.ver \in BOOLEAN
  BY DEF Events

LEMMA UnchangedType ==
    ASSUME TypeOK
    PROVE  /\ UNCHANGED viewVars => ViewOK'
           /\ UNCHANGED <<ch, tok>> => ChanOK'
           /\ UNCHANGED trustVars => TrustOK'
           /\ UNCHANGED callVars => CallOK'
           /\ UNCHANGED serverVars => ServerOK'
           /\ UNCHANGED <<trouble, histVars>> => HistOK'
           /\ Fails /\ UNCHANGED histVars => HistOK'
  <1> USE DEF TypeOK
  <1>1. UNCHANGED viewVars => ViewOK'
    BY DEF ViewOK, viewVars
  <1>2. UNCHANGED <<ch, tok>> => ChanOK'
    BY DEF ChanOK
  <1>3. UNCHANGED trustVars => TrustOK'
    BY DEF TrustOK, trustVars
  <1>4. UNCHANGED callVars => CallOK'
    BY DEF CallOK, callVars
  <1>5. UNCHANGED serverVars => ServerOK'
    BY DEF ServerOK, serverVars
  <1>6. UNCHANGED <<trouble, histVars>> => HistOK'
    BY DEF HistOK, histVars
  <1>7. Fails /\ UNCHANGED histVars => HistOK'
    BY RoomAssumption DEF HistOK, histVars, Fails
  <1> QED BY <1>1, <1>2, <1>3, <1>4, <1>5, <1>6, <1>7

LEMMA InitType == Init => TypeOK
  <1> SUFFICES ASSUME Init PROVE TypeOK
    OBVIOUS
  <1>1. ViewOK
    <2>1. inRoom \in BOOLEAN /\ verified \in BOOLEAN /\ fp = None /\ warn = {} /\ armed = {}
      BY Zenon DEF Init
    <2>2. st \in [In \cup Out -> Statuses]
      BY DEF Init, Statuses
    <2> QED BY <2>1, <2>2, Zenon DEF ViewOK
  <1>2. ChanOK
    BY RoomAssumption DEF Init, ChanOK
  <1>3. TrustOK
    BY DEF Init, TrustOK
  <1>4. CallOK
    BY RoomAssumption DEF Init, CallOK
  <1>5. ServerOK
    BY DEF Init, ServerOK
  <1>6. HistOK
    BY RoomAssumption DEF Init, HistOK
  <1> QED BY <1>1, <1>2, <1>3, <1>4, <1>5, <1>6 DEF TypeOK

(***************************************************************************)
(* The status a delivery event stands for is a status of an outgoing       *)
(* message.                                                                *)
(***************************************************************************)
LEMMA StatusForType ==
    ASSUME NEW e, e.t \in {"delivered", "read", "expired"}
    PROVE  /\ StatusFor(e) \in {"sent", "queued", "read", "expired"}
           /\ e.t # "delivered" => StatusFor(e) = e.t
  BY DEF StatusFor

LEMMA NextType == TypeOK /\ [Next]_vars => TypeOK'
  <1> SUFFICES ASSUME TypeOK, [Next]_vars PROVE TypeOK'
    OBVIOUS
  <1> USE RoomAssumption DEF TypeOK
  <1>a. /\ UNCHANGED viewVars => ViewOK'
        /\ UNCHANGED <<ch, tok>> => ChanOK'
        /\ UNCHANGED trustVars => TrustOK'
        /\ UNCHANGED callVars => CallOK'
        /\ UNCHANGED serverVars => ServerOK'
        /\ UNCHANGED <<trouble, histVars>> => HistOK'
        /\ Fails /\ UNCHANGED histVars => HistOK'
    BY UnchangedType
  <1>1. ASSUME NEW m \in Out, SendMessage(m) PROVE TypeOK'
    <2>1. CallOK'
      BY <1>1 DEF SendMessage, CallOK
    <2> QED BY <1>a, <1>1, <2>1 DEF SendMessage
  <1>2. ASSUME NEW m \in Out, sendTaken(m) PROVE TypeOK'
    <2>1. CallOK' /\ ServerOK' /\ ChanOK'
      BY <1>2 DEF sendTaken, CallOK, ServerOK, ChanOK
    <2> QED BY <1>a, <1>2, <2>1 DEF sendTaken
  <1>3. ASSUME NEW m \in Out, sendFails(m) PROVE TypeOK'
    <2>1. CallOK' /\ ChanOK'
      BY <1>3 DEF sendFails, CallOK, ChanOK
    <2>2. HistOK'
      BY <1>a, <1>3 DEF sendFails
    <2> QED BY <1>a, <1>3, <2>1, <2>2 DEF sendFails
  <1>4. ASSUME NEW m \in Out, sendReturns(m) PROVE TypeOK'
    <2>1. CallOK'
      BY <1>4 DEF sendReturns, CallOK
    <2>2. HistOK'
      BY <1>4 DEF sendReturns, HistOK
    <2>3. ChanOK'
      BY <1>4, EmitType, EventType DEF sendReturns, ChanOK
    <2> QED BY <1>a, <1>4, <2>1, <2>2, <2>3 DEF sendReturns
  <1>5. ASSUME NEW m \in Out, addBubble(m) PROVE TypeOK'
    <2>1. CallOK'
      BY <1>5 DEF addBubble, CallOK
    <2>2. ViewOK'
      BY <1>5 DEF addBubble, ViewOK, Statuses
    <2> QED BY <1>a, <1>5, <2>1, <2>2 DEF addBubble
  <1>6. ASSUME NEW m \in Out, NEW s \in {"read", "expired"}, handleReceipt(m, s) PROVE TypeOK'
    <2>1. ServerOK'
      BY <1>6 DEF handleReceipt, ServerOK
    <2>2. ChanOK'
      BY <1>6, EmitType, EventType DEF handleReceipt, ChanOK
    <2> QED BY <1>a, <1>6, <2>1, <2>2 DEF handleReceipt, histVars
  <1>7. ASSUME NEW m \in In, handleEnvelope(m) PROVE TypeOK'
    <2>1. PICK f \in Fps : /\ sig' = [sig EXCEPT ![m] = f]
                           /\ emit([t |-> "in", id |-> m, ok |-> f \in keys])
      BY <1>7 DEF handleEnvelope
    <2>2. ServerOK'
      BY <1>7, <2>1 DEF handleEnvelope, ServerOK
    <2>3. ChanOK'
      <3> DEFINE ok == f \in keys
      <3>1. ok \in BOOLEAN
        OBVIOUS
      <3>2. emit([t |-> "in", id |-> m, ok |-> ok])
        BY <2>1
      <3> HIDE DEF ok
      <3> QED BY <1>7, <3>1, <3>2, EmitType, EventType DEF handleEnvelope, ChanOK
    <2> QED BY <1>a, <1>7, <2>2, <2>3 DEF handleEnvelope, histVars
  <1>8. ASSUME NEW m \in In, RevealMessage(m) PROVE TypeOK'
    <2>1. ViewOK'
      BY <1>8 DEF RevealMessage, ViewOK, Statuses
    <2> QED BY <1>a, <1>8, <2>1 DEF RevealMessage
  <1>9. ASSUME NEW m \in In \cup Out, Burn(m) PROVE TypeOK'
    <2>1. ViewOK'
      BY <1>9 DEF Burn, ViewOK, Statuses
    <2> QED BY <1>a, <1>9, <2>1 DEF Burn
  <1>10. CASE apply
    <2> DEFINE e == Head(ch)
    <2>1. e \in Events /\ Tail(ch) \in Seq(Events) /\ Len(Tail(ch)) <= EvCap
      BY <1>10 DEF apply, ChanOK
    <2>2. ChanOK'
      BY <1>10, <2>1 DEF apply, ChanOK
    <2>3. ViewOK'
      <3>1. CASE e.t = "key" /\ applyPeerKey(e) /\ UNCHANGED <<st, warn, armed, inRoom>>
        <4>1. e.fp \in Fps /\ e.ver \in BOOLEAN
          BY <2>1, <3>1, EventFields
        <4> QED BY <3>1, <4>1 DEF applyPeerKey, ViewOK
      <3>2. CASE /\ e.t = "in" /\ st' = [st EXCEPT ![e.id] = "sealed"]
                 /\ warn' = (IF Unauthenticated(e) THEN warn \cup {e.id} ELSE warn)
                 /\ UNCHANGED <<fp, verified, armed, inRoom>>
        <4>1. e.id \in In
          BY <2>1, <3>2, EventFields
        <4> QED BY <3>2, <4>1 DEF ViewOK, Statuses
      <3>3. CASE e.t \notin {"key", "in"} /\ setStatusByID(e)
                   /\ UNCHANGED <<fp, verified, warn, inRoom>>
        <4>1. e.id \in Out /\ e.t \in {"delivered", "read", "expired"}
          BY <2>1, <3>3, EventFields
        <4>2. StatusFor(e) \in Statuses
          BY <4>1, StatusForType DEF Statuses
        <4> QED BY <3>3, <4>1, <4>2 DEF setStatusByID, ViewOK
      <3> QED BY <1>10, <3>1, <3>2, <3>3 DEF apply
    <2> QED BY <1>a, <1>10, <2>2, <2>3 DEF apply
  <1>11. CASE OpenConversation \/ CloseConversation \/ FetchKey
    <2>1. CallOK'
      BY <1>11 DEF OpenConversation, CloseConversation, FetchKey, CallOK, callVars
    <2>2. ViewOK'
      BY <1>11 DEF OpenConversation, CloseConversation, FetchKey, ViewOK, viewVars
    <2> QED BY <1>a, <1>11, <2>1, <2>2 DEF OpenConversation, CloseConversation, FetchKey
  <1>12. CASE VerifyPeer
    <2>1. CallOK'
      BY <1>12 DEF VerifyPeer, CallOK
    <2>2. ChanOK'
      <3>1. ASSUME FetchPubKey, emit([t |-> "key", fp |-> keyOf, ver |-> isVerified(keyOf)])
            PROVE  ChanOK'
        <4> DEFINE v == isVerified(keyOf)
        <4>1. v \in BOOLEAN
          BY DEF isVerified
        <4>2. emit([t |-> "key", fp |-> keyOf, ver |-> v]) /\ keyOf \in Fps
          BY <3>1 DEF ServerOK
        <4> HIDE DEF v
        <4> QED BY <3>1, <4>1, <4>2, EmitType, EventType DEF FetchPubKey, ChanOK
      <3> QED BY <1>12, <3>1 DEF VerifyPeer, ChanOK
    <2>3. TrustOK'
      BY <1>12 DEF VerifyPeer, TrustOK, FetchPubKey, ServerOK
    <2>4. HistOK'
      BY <1>a, <1>12 DEF VerifyPeer, histVars
    <2> QED BY <1>a, <1>12, <2>1, <2>2, <2>3, <2>4 DEF VerifyPeer
  <1>13. ASSUME NEW v \in BOOLEAN, SetVerified(v) PROVE TypeOK'
    <2>1. fp \in Fps
      BY <1>13 DEF SetVerified, Offered, ViewOK
    <2>2. ViewOK'
      BY <1>13 DEF SetVerified, ViewOK
    <2>3. TrustOK'
      BY <1>13, <2>1 DEF SetVerified, TrustOK
    <2>4. HistOK'
      BY <1>13, <2>1 DEF SetVerified, HistOK
    <2> QED BY <1>a, <1>13, <2>2, <2>3, <2>4 DEF SetVerified
  <1>14. CASE SetPeerVerified
    <2>1. TrustOK'
      BY <1>14 DEF SetPeerVerified, TrustOK
    <2>2. HistOK'
      BY <1>a, <1>14 DEF SetPeerVerified
    <2> QED BY <1>a, <1>14, <2>1, <2>2 DEF SetPeerVerified
  <1>15. CASE Rebind
    <2>1. ViewOK'
      <3>1. inRoom' \in BOOLEAN /\ verified' \in BOOLEAN /\ fp' = None /\ warn' = {} /\ armed' = {}
        BY <1>15, Zenon DEF Rebind
      <3>2. st' \in [In \cup Out -> Statuses]
        BY <1>15 DEF Rebind, Statuses
      <3> QED BY <3>1, <3>2, Zenon DEF ViewOK
    <2>2. ChanOK'
      BY <1>15 DEF Rebind, ChanOK
    <2>3. CallOK'
      <3>1. \A m \in Out : (snd[m] = "idle") \in BOOLEAN
        BY Zenon
      <3>2. mine' \in [Out -> BOOLEAN]
        BY <1>15, <3>1, Zenon DEF Rebind
      <3> QED BY <1>15, <3>2 DEF Rebind, CallOK
    <2> QED BY <1>a, <1>15, <2>1, <2>2, <2>3 DEF Rebind
  <1>16. CASE ServerChanges
    <2>1. ChanOK'
      BY <1>16 DEF ServerChanges, ChanOK
    <2>2. ServerOK'
      BY <1>16 DEF ServerChanges, ServerOK
    <2> QED BY <1>a, <1>16, <2>1, <2>2 DEF ServerChanges
  <1>17. CASE UNCHANGED vars
    BY <1>a, <1>17 DEF vars
  <1> QED BY <1>1, <1>2, <1>3, <1>4, <1>5, <1>6, <1>7, <1>8, <1>9, <1>10, <1>11, <1>12, <1>13,
             <1>14, <1>15, <1>16, <1>17 DEF Next

(***************************************************************************)
(* Every variable keeps its type and the event channel its capacity.       *)
(***************************************************************************)
THEOREM TypeCorrect == Spec => []TypeOK
  <1> QED BY InitType, NextType, PTL DEF Spec

-----------------------------------------------------------------------------
(***************************************************************************)
(* What the channel holds after emit and after the drain took an event.    *)
(***************************************************************************)
LEMMA EmitHolds ==
    ASSUME ChanOK, NEW e \in Events, emit(e)
    PROVE  \/ ch' = ch
           \/ /\ Len(ch') = Len(ch) + 1 /\ ch'[Len(ch) + 1] = e
              /\ \A i \in 1 .. Len(ch) : ch'[i] = ch[i]
  BY DEF emit, ChanOK

LEMMA TailHolds ==
    ASSUME ChanOK, ch # <<>>, ch' = Tail(ch)
    PROVE  /\ Len(ch) \in Nat /\ Len(ch') = Len(ch) - 1 /\ 1 \in 1 .. Len(ch) /\ Head(ch) = ch[1]
           /\ \A i \in 1 .. Len(ch') : ch'[i] = ch[i + 1] /\ i + 1 \in 1 .. Len(ch)
  BY DEF ChanOK

(***************************************************************************)
(* The strengthening of ShieldWasEarned: a mark that is still to be        *)
(* written, and one that a fetched key is about to bring, were earned too. *)
(***************************************************************************)
SavesEarned == \A s \in saves : s[2] => s[1] \in marked

EventsEarned == \A i \in 1 .. Len(ch) : ch[i].t = "key" /\ ch[i].ver => ch[i].fp \in marked

ShieldInv == ShieldWasEarned /\ SavesEarned /\ EventsEarned

(***************************************************************************)
(* The strengthening of StatusMovesForward, for each outgoing message: the *)
(* server has what was sent, the bubble exists once SendMessage is done, a *)
(* receipt on its way or shown is one the server gave, and unless it       *)
(* overtook the answer it is behind the Delivered event.                   *)
(***************************************************************************)
Receipt(e, m) == e.t \in {"read", "expired"} /\ e.id = m

Delivered(e, m) == e.t = "delivered" /\ e.id = m

SentOnce(m) == snd[m] \in {"idle", "flying"} => srv[m] = "no"

BubbleLast(m) ==
    /\ snd[m] # "done" => st[m] = "none"
    /\ m \in armed => st[m] # "none"

ReceiptGiven(m) ==
    /\ st[m] \in {"read", "expired"} => srv[m] \in {"read", "expired"}
    /\ \A i \in 1 .. Len(ch) : Receipt(ch[i], m) => srv[m] \in {"read", "expired"}

ReceiptBehind(m) ==
    m \notin early => \A j \in 1 .. Len(ch) : Delivered(ch[j], m) =>
        /\ st[m] \notin {"read", "expired"}
        /\ \A i \in 1 .. Len(ch) : Receipt(ch[i], m) => i > j

OrderOf(m) == SentOnce(m) /\ BubbleLast(m) /\ ReceiptGiven(m) /\ ReceiptBehind(m)

OrderInv == \A m \in Out : OrderOf(m)

LEMMA ShieldInit == Init => ShieldInv
  BY DEF Init, ShieldInv, ShieldWasEarned, SavesEarned, EventsEarned

LEMMA ShieldStep == TypeOK /\ ShieldInv /\ [Next]_vars => ShieldInv'
  <1> SUFFICES ASSUME TypeOK, ShieldInv, [Next]_vars PROVE ShieldInv'
    OBVIOUS
  <1>a. ViewOK /\ ChanOK /\ TrustOK /\ ServerOK /\ ShieldWasEarned /\ SavesEarned /\ EventsEarned
    BY DEF TypeOK, ShieldInv
  <1>b. ASSUME UNCHANGED <<fp, verified, stored, saves, marked>>, UNCHANGED ch PROVE ShieldInv'
    BY <1>a, <1>b DEF ShieldInv, ShieldWasEarned, SavesEarned, EventsEarned
  <1>c. ASSUME UNCHANGED <<fp, verified, stored, saves, marked>>, NEW e \in Events, emit(e),
               e.t = "key" /\ e.ver => e.fp \in marked
        PROVE  ShieldInv'
    <2>1. EventsEarned'
      BY <1>a, <1>c, EmitHolds DEF EventsEarned, ChanOK
    <2> QED BY <1>a, <1>c, <2>1 DEF ShieldInv, ShieldWasEarned, SavesEarned
  <1> USE DEF viewVars, trustVars, histVars
  <1>1. ASSUME NEW m \in Out, SendMessage(m) \/ sendTaken(m) \/ sendFails(m) \/ addBubble(m)
        PROVE  ShieldInv'
    BY <1>b, <1>1 DEF SendMessage, sendTaken, sendFails, addBubble
  <1>2. ASSUME NEW m \in Out, sendReturns(m) PROVE ShieldInv'
    <2>1. UNCHANGED <<fp, verified, stored, saves, marked>>
          /\ (UNCHANGED ch \/ emit([t |-> "delivered", id |-> m]))
      BY <1>2 DEF sendReturns
    <2>2. [t |-> "delivered", id |-> m] \in Events
      BY <1>2, EventType
    <2> QED BY <1>b, <1>c, <2>1, <2>2
  <1>3. ASSUME NEW m \in Out, NEW s \in {"read", "expired"}, handleReceipt(m, s) PROVE ShieldInv'
    <2>1. UNCHANGED <<fp, verified, stored, saves, marked>>
          /\ (UNCHANGED ch \/ emit([t |-> s, id |-> m]))
      BY <1>3 DEF handleReceipt
    <2>2. [t |-> s, id |-> m] \in Events
      BY <1>3, EventType
    <2> QED BY <1>b, <1>c, <1>3, <2>1, <2>2
  <1>4. ASSUME NEW m \in In, handleEnvelope(m) PROVE ShieldInv'
    <2>1. PICK f \in Fps : emit([t |-> "in", id |-> m, ok |-> f \in keys])
      BY <1>4 DEF handleEnvelope
    <2> DEFINE ok == f \in keys
    <2>2. ok \in BOOLEAN /\ emit([t |-> "in", id |-> m, ok |-> ok])
      BY <2>1
    <2> HIDE DEF ok
    <2>3. [t |-> "in", id |-> m, ok |-> ok] \in Events
      BY <1>4, <2>2, EventType
    <2>4. UNCHANGED <<fp, verified, stored, saves, marked>>
      BY <1>4 DEF handleEnvelope
    <2> QED BY <1>c, <2>2, <2>3, <2>4
  <1>5. ASSUME NEW m \in In \cup Out, RevealMessage(m) \/ Burn(m) PROVE ShieldInv'
    BY <1>b, <1>5 DEF RevealMessage, Burn
  <1>6. CASE apply
    <2>1. EventsEarned'
      BY <1>a, <1>6, TailHolds DEF apply, EventsEarned
    <2>2. (verified => fp \in marked)'
      <3>1. CASE UNCHANGED <<fp, verified>>
        BY <1>a, <1>6, <3>1 DEF apply, ShieldWasEarned
      <3>2. CASE Head(ch).t = "key" /\ applyPeerKey(Head(ch))
        <4>1. Head(ch).ver => Head(ch).fp \in marked
          BY <1>a, <1>6, <3>2, TailHolds DEF apply, EventsEarned
        <4> QED BY <1>6, <3>2, <4>1 DEF apply, applyPeerKey
      <3> QED BY <1>6, <3>1, <3>2 DEF apply
    <2> QED BY <1>a, <1>6, <2>1, <2>2 DEF apply, ShieldInv, ShieldWasEarned, SavesEarned
  <1>7. CASE OpenConversation \/ CloseConversation \/ FetchKey \/ ServerChanges
    BY <1>b, <1>7 DEF OpenConversation, CloseConversation, FetchKey, ServerChanges
  <1>8. CASE VerifyPeer
    <2>1. UNCHANGED <<fp, verified, stored, saves, marked>>
      BY <1>8 DEF VerifyPeer
    <2>2. CASE UNCHANGED ch
      BY <1>b, <2>1, <2>2
    <2>3. CASE emit([t |-> "key", fp |-> keyOf, ver |-> isVerified(keyOf)])
      <3> DEFINE v == isVerified(keyOf)
      <3>1. v \in BOOLEAN /\ (v => keyOf \in marked) /\ keyOf \in Fps
        BY <1>a DEF isVerified, ShieldWasEarned, ServerOK
      <3> HIDE DEF v
      <3>2. [t |-> "key", fp |-> keyOf, ver |-> v] \in Events
        BY <3>1, EventType
      <3>3. emit([t |-> "key", fp |-> keyOf, ver |-> v])
        BY <2>3 DEF v
      <3> QED BY <1>c, <2>1, <3>1, <3>2, <3>3
    <2> QED BY <1>8, <2>2, <2>3 DEF VerifyPeer
  <1>9. ASSUME NEW v \in BOOLEAN, SetVerified(v) PROVE ShieldInv'
    <2>1. /\ verified' = v /\ UNCHANGED <<fp, stored, ch>> /\ saves' = saves \cup {<<fp, v>>}
          /\ marked' = IF v THEN marked \cup {fp} ELSE marked
      BY <1>9 DEF SetVerified
    <2>2. (verified => fp \in marked)' /\ (stored \subseteq marked)' /\ marked \subseteq marked'
      BY <1>a, <1>9, <2>1 DEF ShieldWasEarned
    <2>3. SavesEarned'
      <3>1. \A s \in saves : s[2] => s[1] \in marked'
        BY <1>a, <2>2 DEF SavesEarned
      <3>2. v => fp \in marked'
        BY <2>1
      <3> QED BY <2>1, <3>1, <3>2 DEF SavesEarned
    <2>4. EventsEarned'
      BY <1>a, <2>1, <2>2 DEF EventsEarned
    <2> QED BY <2>2, <2>3, <2>4 DEF ShieldInv, ShieldWasEarned
  <1>10. CASE SetPeerVerified
    <2>1. PICK s \in saves :
            /\ saves' = saves \ {s}
            /\ stored' \in {stored, IF s[2] THEN stored \cup {s[1]} ELSE stored \ {s[1]}}
      BY <1>10 DEF SetPeerVerified
    <2>2. stored' \subseteq marked /\ UNCHANGED <<fp, verified, marked, ch>>
      BY <1>a, <1>10, <2>1 DEF SetPeerVerified, ShieldWasEarned, SavesEarned
    <2> QED BY <1>a, <2>1, <2>2 DEF ShieldInv, ShieldWasEarned, SavesEarned, EventsEarned
  <1>11. CASE Rebind
    <2>1. ch' = <<>> /\ verified' = FALSE /\ UNCHANGED <<stored, saves, marked>>
      BY <1>11 DEF Rebind
    <2> QED BY <1>a, <2>1 DEF ShieldInv, ShieldWasEarned, SavesEarned, EventsEarned
  <1>12. CASE UNCHANGED vars
    BY <1>b, <1>12 DEF vars
  <1> QED BY <1>1, <1>2, <1>3, <1>4, <1>5, <1>6, <1>7, <1>8, <1>9, <1>10, <1>11, <1>12 DEF Next

(***************************************************************************)
(* A shield stands only for a key the user marked, through late and stale  *)
(* key events, failed writes of the mark, key changes and rebinds.         *)
(***************************************************************************)
THEOREM ShieldEarned == Spec => []ShieldWasEarned
  <1>1. ShieldInv => ShieldWasEarned
    BY DEF ShieldInv
  <1> QED BY <1>1, InitType, NextType, ShieldInit, ShieldStep, PTL DEF Spec

-----------------------------------------------------------------------------
LEMMA OrderInit == Init => OrderInv
  BY RoomAssumption DEF Init, OrderInv, OrderOf, SentOnce, BubbleLast, ReceiptGiven, ReceiptBehind

(***************************************************************************)
(* What is untouched of a message keeps its order: its own state stays,    *)
(* and the channel gains at most an event that is not about it.            *)
(***************************************************************************)
OwnSame(m) ==
    /\ st'[m] = st[m] /\ srv'[m] = srv[m] /\ (m \in early' <=> m \in early)
    /\ snd'[m] = snd[m] /\ (m \in armed' => m \in armed)

LEMMA OrderKept ==
    ASSUME ChanOK, NEW m \in Out, OrderOf(m), OwnSame(m),
           \/ ch' = ch
           \/ \E e \in Events : emit(e) /\ ~Receipt(e, m) /\ ~Delivered(e, m)
    PROVE  OrderOf(m)'
  <1> USE DEF OwnSame, OrderOf
  <1>1. SentOnce(m)' /\ BubbleLast(m)'
    BY DEF SentOnce, BubbleLast
  <1>2. CASE ch' = ch
    <2>1. ReceiptGiven(m)'
      BY <1>2 DEF ReceiptGiven, Receipt
    <2>2. ReceiptBehind(m)'
      BY <1>2 DEF ReceiptBehind, Receipt, Delivered
    <2> QED BY <1>1, <2>1, <2>2
  <1>3. CASE \E e \in Events : emit(e) /\ ~Receipt(e, m) /\ ~Delivered(e, m)
    <2>0. CASE ch' = ch
      BY <1>2, <2>0
    <2>1. CASE ch' # ch
      <3>1. PICK e \in Events : emit(e) /\ ~Receipt(e, m) /\ ~Delivered(e, m)
        BY <1>3
      <3>2. /\ Len(ch') = Len(ch) + 1 /\ ch'[Len(ch) + 1] = e /\ Len(ch) \in Nat
            /\ \A i \in 1 .. Len(ch) : ch'[i] = ch[i]
        BY <2>1, <3>1, EmitHolds DEF ChanOK
      <3>3. \A i \in 1 .. Len(ch') :
              /\ Receipt(ch'[i], m) => i \in 1 .. Len(ch) /\ Receipt(ch[i], m)
              /\ Delivered(ch'[i], m) => i \in 1 .. Len(ch) /\ Delivered(ch[i], m)
        <4> TAKE i \in 1 .. Len(ch')
        <4>1. CASE i = Len(ch) + 1
          BY <3>1, <3>2, <4>1
        <4>2. CASE i \in 1 .. Len(ch)
          BY <3>2, <4>2
        <4> QED BY <3>2, <4>1, <4>2
      <3>4. ReceiptGiven(m)'
        BY <3>3 DEF ReceiptGiven, Receipt
      <3>5. ReceiptBehind(m)'
        BY <3>3 DEF ReceiptBehind, Receipt, Delivered
      <3> QED BY <1>1, <3>4, <3>5
    <2> QED BY <2>0, <2>1
  <1> QED BY <1>2, <1>3

(***************************************************************************)
(* A Delivered event is emitted, and the server has given no receipt yet   *)
(* unless the message is one whose receipt came early.                     *)
(***************************************************************************)
LEMMA OrderDelivered ==
    ASSUME TypeOK, NEW m \in Out, OrderOf(m), sendReturns(m)
    PROVE  OrderOf(m)'
  <1> USE DEF OrderOf
  <1> DEFINE e == [t |-> "delivered", id |-> m]
  <1>a. /\ st' = st /\ srv' = srv /\ armed' = armed /\ snd[m] = "taken" /\ snd'[m] = "returned"
        /\ (ch' = ch \/ emit(e))
        /\ early' = (IF srv[m] = "there" THEN early ELSE early \cup {m})
    BY DEF sendReturns, viewVars, serverVars, TypeOK, CallOK
  <1>b. e \in Events
    BY EventType
  <1>c. \A x : x = e => Delivered(x, m) /\ ~Receipt(x, m)
    BY DEF Delivered, Receipt
  <1>d. ChanOK /\ Len(ch) \in Nat
    BY DEF TypeOK, ChanOK
  <1> HIDE DEF e
  <1>1. SentOnce(m)' /\ BubbleLast(m)'
    BY <1>a DEF SentOnce, BubbleLast
  <1>2. \A i \in 1 .. Len(ch') : Receipt(ch'[i], m) => i \in 1 .. Len(ch) /\ Receipt(ch[i], m)
    <2>1. CASE ch' = ch
      BY <2>1
    <2>2. CASE ch' # ch
      <3>1. /\ Len(ch') = Len(ch) + 1 /\ ch'[Len(ch) + 1] = e
            /\ \A i \in 1 .. Len(ch) : ch'[i] = ch[i]
        BY <1>a, <1>b, <1>d, <2>2, EmitHolds
      <3> TAKE i \in 1 .. Len(ch')
      <3>2. CASE i = Len(ch) + 1
        BY <1>c, <3>1, <3>2
      <3>3. CASE i \in 1 .. Len(ch)
        BY <3>1, <3>3
      <3> QED BY <1>d, <3>1, <3>2, <3>3
    <2> QED BY <2>1, <2>2
  <1>3. ReceiptGiven(m)'
    BY <1>a, <1>2 DEF ReceiptGiven, Receipt
  <1>4. ReceiptBehind(m)'
    <2>1. CASE srv[m] = "there"
      <3>1. st'[m] \notin {"read", "expired"} /\ \A i \in 1 .. Len(ch') : ~Receipt(ch'[i], m)
        BY <1>a, <1>2, <2>1 DEF ReceiptGiven
      <3> QED BY <3>1 DEF ReceiptBehind, Receipt, Delivered
    <2>2. CASE srv[m] # "there"
      BY <1>a, <2>2 DEF ReceiptBehind
    <2> QED BY <2>1, <2>2
  <1> QED BY <1>1, <1>3, <1>4

(***************************************************************************)
(* A receipt goes to the end of the channel, behind any Delivered event.   *)
(***************************************************************************)
LEMMA OrderReceipt ==
    ASSUME TypeOK, NEW m \in Out, NEW s \in {"read", "expired"}, OrderOf(m), handleReceipt(m, s)
    PROVE  OrderOf(m)'
  <1> USE DEF OrderOf
  <1> DEFINE e == [t |-> s, id |-> m]
  <1>a. /\ st' = st /\ snd' = snd /\ armed' = armed /\ early' = early
        /\ srv[m] = "there" /\ srv'[m] = s /\ (ch' = ch \/ emit(e))
    BY DEF handleReceipt, viewVars, callVars, TypeOK, ServerOK
  <1>b. e \in Events
    BY EventType
  <1>c. \A x : x = e => ~Delivered(x, m)
    BY DEF Delivered
  <1>d. ChanOK /\ Len(ch) \in Nat
    BY DEF TypeOK, ChanOK
  <1> HIDE DEF e
  <1>1. SentOnce(m)' /\ BubbleLast(m)'
    BY <1>a DEF SentOnce, BubbleLast
  <1>2. ReceiptGiven(m)'
    BY <1>a DEF ReceiptGiven
  <1>3. /\ \A i \in 1 .. Len(ch) : ~Receipt(ch[i], m)
        /\ st[m] \notin {"read", "expired"}
    BY <1>a DEF ReceiptGiven
  <1>4. \A j \in 1 .. Len(ch') : Delivered(ch'[j], m) => j \in 1 .. Len(ch) 
    <2>1. CASE ch' = ch
      BY <2>1
    <2>2. CASE ch' # ch
      BY <1>a, <1>b, <1>c, <1>d, <2>2, EmitHolds
    <2> QED BY <2>1, <2>2
  <1>5. \A i \in 1 .. Len(ch') : Receipt(ch'[i], m) => i = Len(ch) + 1
    <2>1. CASE ch' = ch
      BY <1>3, <2>1
    <2>2. CASE ch' # ch
      BY <1>3, <1>a, <1>b, <1>d, <2>2, EmitHolds
    <2> QED BY <2>1, <2>2
  <1>6. ReceiptBehind(m)'
    BY <1>a, <1>d, <1>3, <1>4, <1>5 DEF ReceiptBehind, Receipt, Delivered
  <1> QED BY <1>1, <1>2, <1>6

(***************************************************************************)
(* The drain takes the first event: what it shows of a message, and that   *)
(* the rest of the channel keeps its order.                                *)
(***************************************************************************)
LEMMA ApplyShows ==
    ASSUME TypeOK, apply, NEW m \in Out
    PROVE  /\ ch' = Tail(ch) /\ ch # <<>> /\ UNCHANGED <<snd, srv, early>>
           /\ \/ st'[m] = st[m]
              \/ st[m] # "none" /\ Delivered(ch[1], m) /\ st'[m] \in {"sent", "queued"}
              \/ st[m] # "none" /\ Receipt(ch[1], m) /\ st'[m] = ch[1].t
           /\ m \in armed' => m \in armed \/ st[m] # "none"
  <1>1. ch' = Tail(ch) /\ ch # <<>> /\ UNCHANGED <<snd, srv, early>>
    BY DEF apply, callVars, serverVars, histVars
  <1> DEFINE e == ch[1]
  <1>2. Head(ch) = e /\ e \in Events
    BY <1>1, TailHolds DEF TypeOK, ChanOK
  <1>3. st \in [In \cup Out -> Statuses] /\ m \notin In
    BY RoomAssumption DEF TypeOK, ViewOK
  <1>4. CASE e.t = "key" /\ UNCHANGED <<st, warn, armed>>
    BY <1>1, <1>4
  <1>5. CASE e.t = "in" /\ st' = [st EXCEPT ![e.id] = "sealed"] /\ UNCHANGED armed
    <2>1. e.id \in In
      BY <1>2, <1>5, EventFields
    <2> QED BY <1>1, <1>3, <1>5, <2>1
  <1>6. CASE e.t \notin {"key", "in"} /\ setStatusByID(e)
    <2>1. e.id \in Out /\ e.t \in {"delivered", "read", "expired"}
      BY <1>2, <1>6, EventFields
    <2>2. CASE e.id # m
      BY <1>1, <1>3, <1>6, <2>1, <2>2 DEF setStatusByID
    <2>3. CASE e.id = m
      <3>1. m \in armed' => m \in armed \/ st[m] # "none"
        BY <1>6, <2>3 DEF setStatusByID
      <3>2. CASE st[m] \in {"none", "burned"}
        BY <1>1, <1>6, <2>3, <3>1, <3>2 DEF setStatusByID
      <3>3. CASE st[m] \notin {"none", "burned"}
        <4>1. st'[m] = StatusFor(e)
          BY <1>3, <1>6, <2>3, <3>3 DEF setStatusByID
        <4>2. CASE e.t = "delivered"
          BY <1>1, <2>3, <3>1, <3>3, <4>1, <4>2 DEF StatusFor, Delivered
        <4>3. CASE e.t # "delivered"
          <5>1. StatusFor(e) = e.t
            BY <2>1, <4>3, StatusForType
          <5> QED BY <1>1, <2>1, <2>3, <3>1, <3>3, <4>1, <4>3, <5>1 DEF Receipt
        <4> QED BY <4>2, <4>3
      <3> QED BY <3>2, <3>3
    <2> QED BY <2>2, <2>3
  <1> QED BY <1>2, <1>4, <1>5, <1>6 DEF apply

LEMMA OrderApply ==
    ASSUME TypeOK, NEW m \in Out, OrderOf(m), apply
    PROVE  OrderOf(m)'
  <1>a. SentOnce(m) /\ BubbleLast(m) /\ ReceiptGiven(m) /\ ReceiptBehind(m)
    BY DEF OrderOf
  <1>b. /\ UNCHANGED <<snd, srv, early>>
        /\ \/ st'[m] = st[m]
           \/ st[m] # "none" /\ Delivered(ch[1], m) /\ st'[m] \in {"sent", "queued"}
           \/ st[m] # "none" /\ Receipt(ch[1], m) /\ st'[m] = ch[1].t
        /\ m \in armed' => m \in armed \/ st[m] # "none"
    BY ApplyShows
  <1>c. /\ Len(ch) \in Nat /\ Len(ch') = Len(ch) - 1 /\ 1 \in 1 .. Len(ch)
        /\ \A i \in 1 .. Len(ch') : ch'[i] = ch[i + 1] /\ i + 1 \in 1 .. Len(ch)
    BY ApplyShows, TailHolds DEF TypeOK
  <1>1. SentOnce(m)'
    BY <1>a, <1>b DEF SentOnce
  <1>2. BubbleLast(m)'
    BY <1>a, <1>b DEF BubbleLast, Receipt
  <1>3. \A i \in 1 .. Len(ch') :
          /\ Receipt(ch'[i], m) => Receipt(ch[i + 1], m)
          /\ Delivered(ch'[i], m) => Delivered(ch[i + 1], m)
    BY <1>c
  <1>4. ReceiptGiven(m)'
    <2>1. Receipt(ch[1], m) => srv[m] \in {"read", "expired"}
      BY <1>a, <1>c DEF ReceiptGiven
    <2>2. (st[m] \in {"read", "expired"})' => srv[m] \in {"read", "expired"}
      BY <1>a, <1>b, <2>1 DEF ReceiptGiven
    <2>3. \A i \in 1 .. Len(ch') : Receipt(ch'[i], m) => srv[m] \in {"read", "expired"}
      BY <1>a, <1>c, <1>3 DEF ReceiptGiven
    <2> QED BY <1>b, <2>2, <2>3 DEF ReceiptGiven, Receipt
  <1>5. ReceiptBehind(m)'
    <2>1. ASSUME m \notin early, NEW j \in 1 .. Len(ch'), Delivered(ch'[j], m)
          PROVE  /\ st'[m] \notin {"read", "expired"}
                 /\ \A i \in 1 .. Len(ch') : Receipt(ch'[i], m) => i > j
      <3>1. Delivered(ch[j + 1], m) /\ j + 1 \in 1 .. Len(ch)
        BY <1>c, <1>3, <2>1
      <3>2. /\ st[m] \notin {"read", "expired"}
            /\ \A i \in 1 .. Len(ch) : Receipt(ch[i], m) => i > j + 1
        BY <1>a, <2>1, <3>1 DEF ReceiptBehind
      <3>3. ~Receipt(ch[1], m)
        BY <1>c, <3>2
      <3>4. st'[m] \notin {"read", "expired"}
        BY <1>b, <3>2, <3>3
      <3>5. ASSUME NEW i \in 1 .. Len(ch'), Receipt(ch'[i], m) PROVE i > j
        <4>1. i + 1 \in 1 .. Len(ch) /\ Receipt(ch[i + 1], m)
          BY <1>c, <1>3, <3>5
        <4>2. i + 1 > j + 1
          BY <3>2, <4>1
        <4> QED BY <4>2
      <3> QED BY <3>4, <3>5
    <2> QED BY <1>b, <2>1 DEF ReceiptBehind, Receipt, Delivered
  <1> QED BY <1>1, <1>2, <1>4, <1>5 DEF OrderOf

LEMMA OrderStep == TypeOK /\ OrderInv /\ [Next]_vars => OrderInv'
  <1> SUFFICES ASSUME TypeOK, OrderInv, [Next]_vars, NEW n \in Out PROVE OrderOf(n)'
    BY DEF OrderInv
  <1>a. OrderOf(n) /\ ChanOK
    BY DEF OrderInv, TypeOK
  <1>b. /\ st \in [In \cup Out -> Statuses] /\ snd \in [Out -> {"idle", "flying", "taken", "failed", "returned", "done"}]
        /\ srv \in [Out -> {"no", "there", "read", "expired"}] /\ n \in In \cup Out /\ n \notin In
    BY RoomAssumption DEF TypeOK, ViewOK, CallOK, ServerOK
  <1>c. ASSUME OwnSame(n),
               \/ ch' = ch
               \/ \E e \in Events : emit(e) /\ ~Receipt(e, n) /\ ~Delivered(e, n)
        PROVE  OrderOf(n)'
    BY <1>a, <1>c, OrderKept
  <1>d. ASSUME ch' = ch, UNCHANGED <<srv, early>>, SentOnce(n)', BubbleLast(n)',
               st'[n] \in {st[n], "sending", "burned"}
        PROVE  OrderOf(n)'
    <2>1. ReceiptGiven(n)'
      BY <1>a, <1>d DEF OrderOf, ReceiptGiven, Receipt
    <2>2. ReceiptBehind(n)'
      BY <1>a, <1>d DEF OrderOf, ReceiptBehind, Receipt, Delivered
    <2> QED BY <1>d, <2>1, <2>2 DEF OrderOf
  <1>e. SentOnce(n) /\ BubbleLast(n)
    BY <1>a DEF OrderOf
  <1> USE DEF viewVars, callVars, serverVars, histVars
  <1>1. ASSUME NEW m \in Out, SendMessage(m) \/ sendFails(m) PROVE OrderOf(n)'
    <2>1. /\ UNCHANGED <<st, srv, early, armed, ch>>
          /\ snd'[n] = snd[n] \/ (snd[n] = "idle" /\ snd'[n] = "flying")
             \/ (snd[n] \in {"flying", "taken"} /\ snd'[n] = "failed")
      BY <1>1, <1>b DEF SendMessage, sendFails
    <2>2. SentOnce(n)' /\ BubbleLast(n)'
      BY <1>e, <2>1 DEF SentOnce, BubbleLast
    <2> QED BY <1>d, <2>1, <2>2
  <1>2. ASSUME NEW m \in Out, sendTaken(m) PROVE OrderOf(n)'
    <2>1. CASE m # n
      BY <1>2, <1>b, <1>c, <2>1 DEF sendTaken, OwnSame
    <2>2. CASE m = n
      <3>1. /\ UNCHANGED <<st, early, armed, ch>> /\ snd[n] = "flying" /\ snd'[n] = "taken"
            /\ srv'[n] = "there"
        BY <1>2, <1>b, <2>2 DEF sendTaken
      <3>2. srv[n] = "no"
        BY <1>e, <3>1 DEF SentOnce
      <3>3. SentOnce(n)' /\ BubbleLast(n)'
        BY <1>e, <3>1 DEF SentOnce, BubbleLast
      <3>4. ReceiptGiven(n)'
        BY <1>a, <3>1, <3>2 DEF OrderOf, ReceiptGiven, Receipt
      <3>5. ReceiptBehind(n)'
        BY <1>a, <3>1 DEF OrderOf, ReceiptBehind, Receipt, Delivered
      <3> QED BY <3>3, <3>4, <3>5 DEF OrderOf
    <2> QED BY <2>1, <2>2
  <1>3. ASSUME NEW m \in Out, sendReturns(m) PROVE OrderOf(n)'
    <2>1. CASE m # n
      <3>1. OwnSame(n) /\ (ch' = ch \/ emit([t |-> "delivered", id |-> m]))
        BY <1>3, <1>b, <2>1 DEF sendReturns, OwnSame
      <3>2. /\ [t |-> "delivered", id |-> m] \in Events
            /\ ~Receipt([t |-> "delivered", id |-> m], n) /\ ~Delivered([t |-> "delivered", id |-> m], n)
        BY <1>3, <2>1, EventType DEF Receipt, Delivered
      <3> QED BY <1>c, <3>1, <3>2
    <2>2. CASE m = n
      BY <1>a, <1>3, <2>2, OrderDelivered
    <2> QED BY <2>1, <2>2
  <1>4. ASSUME NEW m \in Out, addBubble(m) PROVE OrderOf(n)'
    <2>1. /\ UNCHANGED <<srv, early, armed, ch>>
          /\ (st'[n] = st[n] /\ snd'[n] = snd[n]) \/ (st'[n] = "sending" /\ snd'[n] = "done")
      BY <1>4, <1>b DEF addBubble
    <2>2. SentOnce(n)' /\ BubbleLast(n)'
      BY <1>e, <2>1 DEF SentOnce, BubbleLast
    <2> QED BY <1>d, <2>1, <2>2
  <1>5. ASSUME NEW m \in Out, NEW s \in {"read", "expired"}, handleReceipt(m, s) PROVE OrderOf(n)'
    <2>1. CASE m # n
      <3>1. OwnSame(n) /\ (ch' = ch \/ emit([t |-> s, id |-> m]))
        BY <1>5, <1>b, <2>1 DEF handleReceipt, OwnSame
      <3>2. [t |-> s, id |-> m] \in Events /\ ~Receipt([t |-> s, id |-> m], n) /\ ~Delivered([t |-> s, id |-> m], n)
        BY <1>5, <2>1, EventType DEF Receipt, Delivered
      <3> QED BY <1>c, <3>1, <3>2
    <2>2. CASE m = n
      BY <1>a, <1>5, <2>2, OrderReceipt
    <2> QED BY <2>1, <2>2
  <1>6. ASSUME NEW m \in In, handleEnvelope(m) PROVE OrderOf(n)'
    <2>1. PICK f \in Fps : emit([t |-> "in", id |-> m, ok |-> f \in keys])
      BY <1>6 DEF handleEnvelope
    <2> DEFINE ok == f \in keys
               e == [t |-> "in", id |-> m, ok |-> ok]
    <2>2. ok \in BOOLEAN /\ emit(e)
      BY <2>1
    <2> HIDE DEF ok
    <2>3. e \in Events /\ ~Receipt(e, n) /\ ~Delivered(e, n)
      BY <1>6, <2>2, EventType DEF Receipt, Delivered
    <2>4. OwnSame(n)
      BY <1>6 DEF handleEnvelope, OwnSame
    <2> QED BY <1>c, <2>2, <2>3, <2>4
  <1>7. ASSUME NEW m \in In, RevealMessage(m) PROVE OrderOf(n)'
    <2>1. OwnSame(n) /\ ch' = ch
      BY <1>7, <1>b DEF RevealMessage, OwnSame
    <2> QED BY <1>c, <2>1
  <1>8. ASSUME NEW m \in In \cup Out, Burn(m) PROVE OrderOf(n)'
    <2>1. /\ UNCHANGED <<srv, early, armed, ch, snd>>
          /\ st'[n] = st[n] \/ (st'[n] = "burned" /\ n \in armed)
      BY <1>8, <1>b DEF Burn
    <2>2. SentOnce(n)' /\ BubbleLast(n)'
      BY <1>e, <2>1 DEF SentOnce, BubbleLast
    <2> QED BY <1>d, <2>1, <2>2
  <1>9. CASE apply
    BY <1>a, <1>9, OrderApply
  <1>10. CASE OpenConversation \/ CloseConversation \/ FetchKey \/ ServerChanges \/ SetPeerVerified
    <2>1. OwnSame(n) /\ ch' = ch
      BY <1>10 DEF OpenConversation, CloseConversation, FetchKey, ServerChanges, SetPeerVerified, OwnSame
    <2> QED BY <1>c, <2>1
  <1>11. CASE VerifyPeer
    <2>1. OwnSame(n)
      BY <1>11 DEF VerifyPeer, OwnSame
    <2> DEFINE v == isVerified(keyOf)
               e == [t |-> "key", fp |-> keyOf, ver |-> v]
    <2>2. v \in BOOLEAN /\ keyOf \in Fps
      BY DEF isVerified, TypeOK, ServerOK
    <2>3. ch' = ch \/ emit(e)
      BY <1>11 DEF VerifyPeer
    <2> HIDE DEF v
    <2>4. e \in Events /\ ~Receipt(e, n) /\ ~Delivered(e, n)
      BY <2>2, EventType DEF Receipt, Delivered
    <2> QED BY <1>c, <2>1, <2>3, <2>4
  <1>12. ASSUME NEW v \in BOOLEAN, SetVerified(v) PROVE OrderOf(n)'
    <2>1. OwnSame(n) /\ ch' = ch
      BY <1>12 DEF SetVerified, OwnSame
    <2> QED BY <1>c, <2>1
  <1>13. CASE Rebind
    <2>1. /\ UNCHANGED <<snd, srv, early>> /\ st'[n] = "none" /\ armed' = {} /\ ch' = <<>>
      BY <1>13, <1>b DEF Rebind
    <2>2. SentOnce(n)' /\ BubbleLast(n)'
      BY <1>e, <2>1 DEF SentOnce, BubbleLast
    <2>3. ReceiptGiven(n)' /\ ReceiptBehind(n)'
      BY <2>1 DEF ReceiptGiven, ReceiptBehind
    <2> QED BY <2>2, <2>3 DEF OrderOf
  <1>14. CASE UNCHANGED vars
    <2>1. OwnSame(n) /\ ch' = ch
      BY <1>14 DEF vars, OwnSame
    <2> QED BY <1>c, <2>1
  <1> QED BY <1>1, <1>2, <1>3, <1>4, <1>5, <1>6, <1>7, <1>8, <1>9, <1>10, <1>11, <1>12, <1>13,
             <1>14 DEF Next

(***************************************************************************)
(* One step: only addBubble and apply give an outgoing message one of the  *)
(* earlier statuses, the first to a message that has none, the second      *)
(* behind no receipt unless that came early.                               *)
(***************************************************************************)
LEMMA ForwardStep ==
    ASSUME TypeOK, OrderInv, [Next]_vars, NEW n \in Out,
           st[n] \in {"read", "expired"}, st'[n] \in {"sending", "sent", "queued"}
    PROVE  n \in early
  <1>a. OrderOf(n)
    BY DEF OrderInv
  <1>b. st \in [In \cup Out -> Statuses] /\ n \in In \cup Out /\ n \notin In
    BY RoomAssumption DEF TypeOK, ViewOK
  <1>c. ~UNCHANGED st
    OBVIOUS
  <1>1. ASSUME NEW m \in Out, addBubble(m) PROVE n \in early
    <2>1. m = n /\ snd[n] = "returned"
      BY <1>1, <1>b DEF addBubble
    <2> QED BY <1>a, <2>1 DEF OrderOf, BubbleLast
  <1>2. ASSUME NEW m \in In, RevealMessage(m) PROVE n \in early
    BY <1>2, <1>b DEF RevealMessage
  <1>3. ASSUME NEW m \in In \cup Out, Burn(m) PROVE n \in early
    BY <1>3, <1>b DEF Burn
  <1>4. CASE Rebind
    BY <1>4, <1>b DEF Rebind
  <1>5. CASE apply
    <2>1. Delivered(ch[1], n) /\ 1 \in 1 .. Len(ch)
      BY <1>5, ApplyShows, TailHolds DEF Receipt, TypeOK
    <2> QED BY <1>a, <2>1 DEF OrderOf, ReceiptBehind
  <1> QED
    BY <1>c, <1>1, <1>2, <1>3, <1>4, <1>5
    DEF Next, vars, viewVars, SendMessage, sendTaken, sendFails, sendReturns, handleReceipt, handleEnvelope,
        OpenConversation, CloseConversation, FetchKey, VerifyPeer, SetVerified, SetPeerVerified, ServerChanges

(***************************************************************************)
(* Through dropped events, failed and repeated calls, rebinds and burns, a *)
(* message shown as read or expired goes back to sending, sent or queued   *)
(* only when its receipt reached the server before the send was answered.  *)
(***************************************************************************)
THEOREM OnlyEarlyGoBack == Spec => StatusMovesForward
  <1> DEFINE Forward ==
        \A m \in Out : st[m] \in {"read", "expired"} /\ st'[m] \in {"sending", "sent", "queued"} => m \in early
  <1>1. TypeOK /\ OrderInv /\ [Next]_vars => [Forward]_vars
    BY ForwardStep
  <1> HIDE DEF Forward
  <1>2. Spec => [][Forward]_vars
    BY <1>1, InitType, NextType, OrderInit, OrderStep, PTL DEF Spec
  <1> QED BY <1>2, PTL DEF StatusMovesForward, Forward
=============================================================================
