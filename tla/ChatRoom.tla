------------------------------ MODULE ChatRoom ------------------------------
(***************************************************************************)
(* A VayuTalk conversation: sending, delivery states and receipts, safety  *)
(* numbers and the verified shield (internal/chat/manager_ops.go,          *)
(* ui/state/chatstate*.go, the talk screens).                              *)
(*                                                                         *)
(* Every operation of the user runs on a goroutine of its own that calls   *)
(* the Manager it found bound; its outcome comes back partly through that  *)
(* Manager's event channel, which the drain goroutine applies in order, and*)
(* partly by the goroutine's own writes.  The stream itself is ChatLink's  *)
(* subject: here its events enter the channel when the server sends them.  *)
(***************************************************************************)
EXTENDS Naturals, Sequences, FiniteSets

CONSTANTS In, Out,    \* ids of incoming and of outgoing messages
          Mode,       \* "live" or "store", for each outgoing message
          Fps,        \* fingerprints the correspondent's key may have
          None,
          EvCap,      \* capacity of Manager.eventCh (128)
          MaxFetch,   \* bound: key fetches under way at once
          MaxTrouble  \* bound: failed calls, token expiries, key changes, rebinds

ASSUME RoomAssumption ==
    /\ In \cap Out = {} /\ None \notin Fps /\ Mode \in [Out -> {"live", "store"}]
    /\ EvCap \in Nat \ {0} /\ MaxFetch \in Nat \ {0} /\ MaxTrouble \in Nat

VARIABLES
    inRoom,                 \* activePeer is the correspondent
    fp, verified,           \* the conversation's key and its shield
    st, warn, armed,        \* message -> MsgStatus ("none": not held), those drawn with a warning, those with a countdown
    ch, tok,                \* the bound Manager: eventCh, bearer token
    keys, stored, saves,    \* imported public keys, talk-verified: settings, SetPeerVerified calls under way
    snd, mine, fetch,       \* SendMessage goroutines, is their Manager still bound, key fetches under way
    keyOf, sig, srv,        \* server: the correspondent's key, who signed each message, sent messages
    trouble,
    early, marked           \* history: receipts before the answer, keys marked verified

viewVars   == <<inRoom, fp, verified, st, warn, armed>>
trustVars  == <<keys, stored, saves>>
callVars   == <<snd, mine, fetch>>
serverVars == <<keyOf, sig, srv>>
histVars   == <<early, marked>>
vars == <<viewVars, ch, tok, trustVars, callVars, serverVars, trouble, histVars>>

Statuses == {"none", "sending", "sent", "queued", "read", "sealed", "open", "expired", "burned"}
Events == [t : {"in"}, id : In, ok : BOOLEAN]
          \cup [t : {"delivered", "read", "expired"}, id : Out]
          \cup [t : {"key"}, fp : Fps, ver : BOOLEAN]

Init ==
    /\ inRoom = FALSE /\ fp = None /\ verified = FALSE /\ armed = {}
    /\ st = [m \in In \cup Out |-> "none"] /\ warn = {} /\ ch = <<>> /\ tok = "none"
    /\ keys = {} /\ stored = {} /\ saves = {}
    /\ snd = [m \in Out |-> "idle"] /\ mine = [m \in Out |-> TRUE] /\ fetch = 0
    /\ keyOf \in Fps /\ sig = [m \in In |-> None] /\ srv = [m \in Out |-> "no"]
    /\ trouble = 0 /\ early = {} /\ marked = {}

Fails == trouble < MaxTrouble /\ trouble' = trouble + 1

(* emit: a full channel drops the event.                                   *)
emit(e) ==
    ch' = IF Len(ch) < EvCap THEN Append(ch, e) ELSE ch

-----------------------------------------------------------------------------
(* Sending.                                                                *)

(* handleSend and SendMessage: the text goes to the Manager of the moment. *)
SendMessage(m) ==
    /\ inRoom /\ snd[m] = "idle" /\ snd' = [snd EXCEPT ![m] = "flying"]
    /\ UNCHANGED <<viewVars, ch, tok, trustVars, mine, fetch, serverVars, trouble, histVars>>

(* Manager.Send up to the server taking the message: it is encrypted to    *)
(* the imported key, and ensureToken connects if there is no token.        *)
sendTaken(m) ==
    /\ snd[m] = "flying" /\ keys # {} /\ tok # "bad" /\ tok' = "good"
    /\ snd' = [snd EXCEPT ![m] = "taken"] /\ srv' = [srv EXCEPT ![m] = "there"]
    /\ UNCHANGED <<viewVars, ch, trustVars, mine, fetch, keyOf, sig, trouble, histVars>>

(* It fails: no key to encrypt to, a refused token (which is discarded), a *)
(* network error before the server took the message, or after.             *)
sendFails(m) ==
    /\ \/ snd[m] = "flying" /\ keys = {} /\ UNCHANGED <<tok, trouble>>
       \/ snd[m] = "flying" /\ tok = "bad" /\ tok' = "none" /\ UNCHANGED trouble
       \/ snd[m] \in {"flying", "taken"} /\ Fails /\ UNCHANGED tok
    /\ snd' = [snd EXCEPT ![m] = "failed"]
    /\ UNCHANGED <<viewVars, ch, trustVars, mine, fetch, serverVars, histVars>>

(* Send returns: Delivered goes to the Manager's channel, and only then    *)
(* SendMessage adds the outgoing bubble.                                   *)
sendReturns(m) ==
    /\ snd[m] = "taken" /\ snd' = [snd EXCEPT ![m] = "returned"]
    /\ IF mine[m] THEN emit([t |-> "delivered", id |-> m]) ELSE UNCHANGED ch
    /\ early' = IF srv[m] = "there" THEN early ELSE early \cup {m}
    /\ UNCHANGED <<viewVars, tok, trustVars, mine, fetch, serverVars, trouble, marked>>

addBubbleAndAnnounce(m) ==
    /\ snd[m] = "returned" /\ snd' = [snd EXCEPT ![m] = "done"]
    /\ st' = [st EXCEPT ![m] = "sending"] /\ emit([t |-> "delivered", id |-> m])
    /\ UNCHANGED <<inRoom, fp, verified, warn, armed, tok, trustVars, mine, fetch, serverVars, trouble, histVars>>

addBubble(m) ==
    /\ snd[m] = "returned" /\ snd' = [snd EXCEPT ![m] = "done"]
    /\ st' = [st EXCEPT ![m] = "sending"]
    /\ UNCHANGED <<inRoom, fp, verified, warn, armed, ch, tok, trustVars, mine, fetch, serverVars, trouble,
                   histVars>>

(* handleReceipt, when the correspondent has read the message or its hold  *)
(* on the server ran out.                                                  *)
handleReceipt(m, s) ==
    /\ srv[m] = "there" /\ srv' = [srv EXCEPT ![m] = s]
    /\ IF mine[m] THEN emit([t |-> s, id |-> m]) ELSE UNCHANGED ch
    /\ UNCHANGED <<viewVars, tok, trustVars, callVars, keyOf, sig, trouble, early, marked>>

-----------------------------------------------------------------------------
(* Receiving.                                                              *)

(* handleEnvelope: a message signed by an imported key is authentic; its   *)
(* identity is the signing key, not the sender the relay names.            *)
handleEnvelope(m) ==
    /\ sig[m] = None /\ \E f \in Fps : /\ sig' = [sig EXCEPT ![m] = f]
                                       /\ emit([t |-> "in", id |-> m, ok |-> f \in keys])
    /\ UNCHANGED <<viewVars, tok, trustVars, callVars, keyOf, srv, trouble, early, marked>>

(* applyIncoming's test: not validly signed, or not by the verified key.   *)
Unauthenticated(e) == ~e.ok \/ (verified /\ fp # None /\ sig[e.id] # fp)

(* The status a delivery event stands for.                                 *)
StatusFor(e) ==
    CASE e.t = "delivered" -> IF Mode[e.id] = "store" THEN "queued" ELSE "sent"
      [] e.t \in {"read", "expired"} -> e.t

(* setStatusByID: nothing happens for a message no conversation holds, and *)
(* nothing shows for one that burned; a read message's countdown starts.   *)
setStatusByID(e) ==
    /\ st' = IF st[e.id] \in {"none", "burned"} THEN st ELSE [st EXCEPT ![e.id] = StatusFor(e)]
    /\ armed' = IF st[e.id] # "none" /\ e.t = "read" THEN armed \cup {e.id} ELSE armed

applyPeerKeyOnly(e) == fp' = e.fp /\ UNCHANGED verified

(* A PeerKey event replaces fingerprint and shield together.               *)
applyPeerKey(e) == fp' = e.fp /\ verified' = e.ver

(* drain applies the next event.                                           *)
apply ==
    /\ ch # <<>> /\ ch' = Tail(ch)
    /\ LET e == Head(ch) IN
         \/ e.t = "key" /\ applyPeerKey(e) /\ UNCHANGED <<st, warn, armed>>
         \/ /\ e.t = "in" /\ st' = [st EXCEPT ![e.id] = "sealed"]
            /\ warn' = IF Unauthenticated(e) THEN warn \cup {e.id} ELSE warn
            /\ UNCHANGED <<fp, verified, armed>>
         \/ e.t \notin {"key", "in"} /\ setStatusByID(e) /\ UNCHANGED <<fp, verified, warn>>
    /\ UNCHANGED <<inRoom, tok, trustVars, callVars, serverVars, trouble, histVars>>

(* A tap reveals a sealed message and starts its burn countdown.           *)
RevealMessage(m) ==
    /\ inRoom /\ st[m] = "sealed" /\ st' = [st EXCEPT ![m] = "open"] /\ armed' = armed \cup {m}
    /\ UNCHANGED <<inRoom, fp, verified, warn, ch, tok, trustVars, callVars, serverVars, trouble, histVars>>

(* A countdown that has run out is drawn as a tombstone, whatever arrives. *)
Burn(m) ==
    /\ m \in armed /\ st[m] # "burned" /\ st' = [st EXCEPT ![m] = "burned"]
    /\ UNCHANGED <<inRoom, fp, verified, warn, armed, ch, tok, trustVars, callVars, serverVars, trouble,
                   histVars>>

-----------------------------------------------------------------------------
(* Safety numbers.                                                         *)

(* OpenConversation fetches the key of a conversation that has none;       *)
(* CloseConversation leaves the room.                                      *)
OpenConversation ==
    /\ ~inRoom /\ inRoom' = TRUE /\ fetch < MaxFetch
    /\ fetch' = IF fp = None THEN fetch + 1 ELSE fetch
    /\ UNCHANGED <<fp, verified, st, warn, armed, ch, tok, trustVars, snd, mine, serverVars, trouble,
                   histVars>>

CloseConversation ==
    /\ inRoom /\ inRoom' = FALSE
    /\ UNCHANGED <<fp, verified, st, warn, armed, ch, tok, trustVars, callVars, serverVars, trouble, histVars>>

(* The Fetch button of the verify screen, drawn while there is no key.     *)
FetchKey ==
    /\ inRoom /\ fp = None /\ fetch = 0 /\ fetch' = 1
    /\ UNCHANGED <<viewVars, ch, tok, trustVars, snd, mine, serverVars, trouble, histVars>>

(* Transport.FetchPubKey with a token that is good, the key then imported. *)
FetchPubKey == tok # "bad" /\ tok' = "good" /\ keys' = keys \cup {keyOf}

isVerified(f) == f \in stored

(* Manager.VerifyPeer: import the key and announce it with its stored      *)
(* flag; or fail, a refused token being discarded.                         *)
VerifyPeer ==
    /\ fetch > 0 /\ fetch' = fetch - 1
    /\ \/ FetchPubKey /\ emit([t |-> "key", fp |-> keyOf, ver |-> isVerified(keyOf)]) /\ UNCHANGED trouble
       \/ tok = "bad" /\ tok' = "none" /\ UNCHANGED <<keys, ch, trouble>>
       \/ Fails /\ UNCHANGED <<tok, keys, ch>>
    /\ UNCHANGED <<viewVars, stored, saves, snd, mine, serverVars, early, marked>>

(* The button the verify screen draws: mark, or remove the mark.           *)
Offered(v) == fp # None /\ verified # v

(* SetVerified, from the verify screen: the shield changes at once, the    *)
(* setting of the conversation's key is written by a goroutine.            *)
SetVerified(v) ==
    /\ inRoom /\ Offered(v) /\ verified' = v
    /\ saves' = saves \cup {<<fp, v>>}
    /\ marked' = IF v THEN marked \cup {fp} ELSE marked
    /\ UNCHANGED <<inRoom, fp, st, warn, armed, ch, tok, keys, stored, callVars, serverVars, trouble, early>>

SetPeerVerified ==
    /\ \E s \in saves :
         /\ saves' = saves \ {s}
         /\ \/ /\ stored' = (IF s[2] THEN stored \cup {s[1]} ELSE stored \ {s[1]})
               /\ UNCHANGED trouble
            \/ Fails /\ UNCHANGED stored
    /\ UNCHANGED <<viewVars, ch, tok, keys, callVars, serverVars, histVars>>

-----------------------------------------------------------------------------
(* startManager, for another account or after a sign-out: the records are  *)
(* dropped and a Manager with an empty channel and no token takes over.    *)
Rebind ==
    /\ Fails
    /\ inRoom' = FALSE /\ fp' = None /\ verified' = FALSE
    /\ st' = [m \in In \cup Out |-> "none"] /\ warn' = {} /\ armed' = {} /\ ch' = <<>> /\ tok' = "none"
    /\ mine' = [m \in Out |-> snd[m] = "idle"] /\ fetch' = 0
    /\ UNCHANGED <<trustVars, snd, serverVars, histVars>>

(* The token expires, or the correspondent gets a new key.                 *)
ServerChanges ==
    /\ Fails
    /\ \/ tok = "good" /\ tok' = "bad" /\ UNCHANGED keyOf
       \/ keyOf' \in Fps \ {keyOf} /\ UNCHANGED tok
    /\ UNCHANGED <<viewVars, ch, trustVars, callVars, sig, srv, histVars>>

Next ==
    \/ \E m \in Out : \/ SendMessage(m) \/ sendTaken(m) \/ sendFails(m) \/ sendReturns(m) \/ addBubble(m)
                      \/ handleReceipt(m, "read") \/ handleReceipt(m, "expired")
    \/ \E m \in In : handleEnvelope(m) \/ RevealMessage(m)
    \/ \E m \in In \cup Out : Burn(m)
    \/ apply \/ OpenConversation \/ CloseConversation \/ FetchKey \/ VerifyPeer
    \/ \E v \in BOOLEAN : SetVerified(v)
    \/ SetPeerVerified \/ Rebind \/ ServerChanges

Spec == Init /\ [][Next]_vars

-----------------------------------------------------------------------------
(* The types of the conversation, of the Manager and of the server's side. *)
ViewOK ==
    /\ inRoom \in BOOLEAN /\ fp \in Fps \cup {None} /\ verified \in BOOLEAN
    /\ st \in [In \cup Out -> Statuses] /\ warn \subseteq In /\ armed \subseteq In \cup Out

ChanOK == ch \in Seq(Events) /\ Len(ch) <= EvCap /\ tok \in {"none", "good", "bad"}

TrustOK == keys \subseteq Fps /\ stored \subseteq Fps /\ saves \subseteq Fps \X BOOLEAN

CallOK ==
    /\ snd \in [Out -> {"idle", "flying", "taken", "failed", "returned", "done"}]
    /\ mine \in [Out -> BOOLEAN] /\ fetch \in 0 .. MaxFetch

ServerOK ==
    keyOf \in Fps /\ sig \in [In -> Fps \cup {None}] /\ srv \in [Out -> {"no", "there", "read", "expired"}]

HistOK == trouble \in 0 .. MaxTrouble /\ early \subseteq Out /\ marked \subseteq Fps

TypeOK == ViewOK /\ ChanOK /\ TrustOK /\ CallOK /\ ServerOK /\ HistOK

(* A verified shield, drawn or stored, only ever stands for a fingerprint  *)
(* that was the conversation's key when the user tapped Mark as verified,  *)
(* whatever keys are fetched, announced late or replaced meanwhile.        *)
ShieldWasEarned == (verified => fp \in marked) /\ stored \subseteq marked

(* Outgoing messages move forward.  A read or burned message goes back to  *)
(* sent or queued only when its receipt overtook the answer to the send.   *)
StatusMovesForward ==
    [][\A m \in Out : st[m] \in {"read", "expired"} /\ st'[m] \in {"sending", "sent", "queued"} => m \in early]_vars

=============================================================================
