-------------------------- MODULE FolderSyncProofs --------------------------
(***************************************************************************)
(* The cache of a mailbox, for any number of messages, generations, flag   *)
(* changes, lost connections and deaths: type correctness, that the cache  *)
(* has no gap and mixes no generations while the syncers keep apart, and   *)
(* that a refresh of the flags catches up.                                 *)
(*                                                                         *)
(* The argument follows what a syncer knows at each statement.  Once it    *)
(* has written the anchors they name the generation its connection has     *)
(* selected; the UID it took for the highest has everything below it       *)
(* cached; what it fetched and has not written counts as cached from below.*)
(***************************************************************************)
EXTENDS FolderSync, TLAPS

-----------------------------------------------------------------------------
(* The invariants.                                                         *)

\* Generations only grow, and no UID is ahead of the server.
ServerNumbers ==
    /\ srvVal # 0 /\ uidNext # 0 /\ (world.vals <= 1 => srvVal = 1)
    /\ \A u \in Uids : OnServer(u) => u < uidNext

StoreNumbers ==
    /\ folder.val <= srvVal
    /\ \A u \in Uids : Cached(u) =>
          /\ cache[u].gen # 0 /\ cache[u].gen <= srvVal /\ cache[u].flags # 0
          /\ cache[u].gen = srvVal => u < uidNext

BufferOK(b) == b.gen # 0 /\ b.gen <= srvVal /\ b.flags # 0 /\ (b.gen = srvVal => b.uid < uidNext)

SyncNumbers ==
    \A s \in Syncers : /\ conn[s] <= srvVal /\ snap[s].val <= srvVal /\ sel[s].val <= srvVal
                       /\ \A b \in todo[s] : BufferOK(b)

\* Who is where: the loop never idles, and takes no step unless the user has it.
LoopPlaces == {"off", "select", "clear", "anchor", "highest", "fetch", "store", "refetch", "upsert"}

PlacesKept ==
    /\ pc[Loop] \in LoopPlaces /\ pc[Idle] \notin {"refetch", "upsert"}
    /\ ~world.loop => pc[Loop] = "off"

Numbers == ServerNumbers /\ StoreNumbers /\ SyncNumbers /\ PlacesKept

\* Where the anchors were written by this connection, or by one like it.
Synced == {"highest", "fetch", "store", "idle", "inventory", "list", "purge", "cached", "flags", "apply"}

Anchored(s) == pc[s] \in Synced => conn[s] # 0 /\ folder.val = conn[s]

Anchoring(s) ==
    /\ pc[s] \in {"clear", "anchor"} => conn[s] # 0 /\ sel[s].val = conn[s]
    /\ pc[s] = "anchor" => \A u \in Uids : Cached(u) => cache[u].gen = conn[s]

\* Everything up to the highest UID is cached.
Fetching(s) ==
    pc[s] = "fetch" /\ Fresh(s) =>
        high[s] < uidNext /\ \A u \in Uids : OnServer(u) /\ u <= high[s] => CachedNow(u)

\* What is below a buffer is cached or a buffer itself.
Storing(s) ==
    pc[s] = "store" =>
        \A b \in todo[s] :
            /\ b.gen = conn[s]
            /\ b.gen = srvVal => \A u \in Uids : u < b.uid /\ OnServer(u) =>
                                     CachedNow(u) \/ \E c \in todo[s] : c.uid = u

\* The anchors read before a refresh are still those of the generation.
Refreshing ==
    /\ pc[Idle] \in {"cached", "flags", "apply"} => snap[Idle].val = folder.val
    /\ pc[Idle] = "apply" => sel[Idle].val = folder.val

\* Alone, the IDLE goroutine works on the folders row as it read it.
AsRead ==
    ~world.loop /\ pc[Idle] \in {"select", "clear"} => snap[Idle] = folder

\* Only rows of messages that are gone are purged.
Purging ==
    /\ pc[Idle] = "list" /\ Fresh(Idle) => \A u \in Uids : CachedNow(u) /\ OnServer(u) => u \in uids
    /\ pc[Idle] = "purge" /\ Fresh(Idle) => \A u \in uids : Cached(u) /\ ~OnServer(u)

\* Beside the loop nothing is cleared or purged, so a row read is there still.
Together ==
    world.loop =>
        /\ pc[Idle] \notin {"clear", "inventory", "list", "purge"} /\ pc[Loop] # "clear"
        /\ mode = "poll" \/ ~Pending("expunge")
        /\ pc[Loop] \in {"refetch", "upsert"} => \A b \in todo[Loop] : Cached(b.uid)

SyncerOK(s) == Anchored(s) /\ Anchoring(s) /\ Fetching(s) /\ Storing(s)

SyncInv ==
    /\ \A s \in Syncers : SyncerOK(s)
    /\ Refreshing /\ AsRead /\ Purging /\ Together
    /\ RowsMatchAnchor /\ NoGap

\* The part of the type invariant without the history.
CoreTypeOK == ServerTypeOK /\ StoreTypeOK /\ SyncTypeOK /\ IdleTypeOK /\ faults \in Nat

\* No mod-sequence is ahead of the server's.
ModNumbers ==
    /\ \A u \in Uids : box[u] <= modSeq
    /\ folder.mod <= modSeq
    /\ \A s \in Syncers : snap[s].mod <= modSeq /\ sel[s].mod <= modSeq

\* A row with older flags than the server's, not in the history.
Lags(u) == CachedNow(u) /\ OnServer(u) /\ cache[u].flags # box[u] /\ u \notin skipped

\* Nothing was announced that this refresh does not know of.
Caught == Fresh(Idle) /\ ~Pending("flags") /\ Len(notify) < NotifyCap

\* The change of a row that lags is newer than the anchor, the stored one and
\* the one a refresh started from, so CHANGEDSINCE reports it.
AnchorsBehind ==
    \A u \in Uids : Lags(u) =>
        /\ box[u] > folder.mod
        /\ pc[Idle] \in {"cached", "flags"} => box[u] > snap[Idle].mod

\* What a refresh has not written yet it holds.
Holding ==
    /\ pc[Idle] = "flags" /\ Caught => \A u \in Uids : Lags(u) => known[u] = cache[u].flags
    /\ pc[Idle] = "apply" => \A b \in todo[Idle] : b.gen = conn[Idle]
    /\ pc[Idle] = "apply" /\ Caught =>
          /\ \A b \in todo[Idle] : OnServer(b.uid) => b.flags = box[b.uid]
          /\ \A u \in Uids : Lags(u) => \E b \in todo[Idle] : b.uid = u

FlagsInv == ModNumbers /\ AnchorsBehind /\ Holding

ApartInv == Apart => SyncInv

-----------------------------------------------------------------------------
(* Type correctness.                                                       *)

LEMMA PushType ==
    ASSUME IdleTypeOK, NEW k \in Kinds
    PROVE  Push(k) \in Seq(Kinds) /\ Len(Push(k)) <= NotifyCap
  <1>1. Append(notify, k) \in Seq(Kinds) /\ Len(Append(notify, k)) = Len(notify) + 1
    BY DEF IdleTypeOK
  <1> QED BY <1>1, FolderSyncAssumption DEF Push, IdleTypeOK

LEMMA AnnounceType ==
    ASSUME IdleTypeOK, NEW k \in Kinds, Announce(k), UNCHANGED <<known, uids>>
    PROVE  IdleTypeOK'
  BY PushType DEF Announce, IdleTypeOK

LEMMA InitType == Init => TypeOK
  <1> SUFFICES ASSUME Init PROVE TypeOK
    OBVIOUS
  <1>1. ServerTypeOK
    BY FolderSyncAssumption DEF Init, ServerTypeOK
  <1>2. StoreTypeOK
    BY DEF Init, StoreTypeOK, NoAnchors, Anchors
  <1>3. SyncTypeOK
    BY DEF Init, SyncTypeOK, NoAnchors, NoSelected, Anchors, Selected, Places
  <1>4. IdleTypeOK
    BY FolderSyncAssumption DEF Init, IdleTypeOK
  <1>5. faults \in Nat /\ skipped \subseteq Uids
    BY DEF Init
  <1> QED BY <1>1, <1>2, <1>3, <1>4, <1>5 DEF TypeOK

LEMMA ServerStepType ==
    ASSUME TypeOK, ServerStep PROVE CoreTypeOK'
  <1> USE DEF TypeOK, CoreTypeOK
  <1>1. CASE Deliver
    <2>1. IdleTypeOK'
      BY <1>1, AnnounceType DEF Deliver, Kinds
    <2>2. box \in [Uids -> Nat] /\ modSeq + 1 \in Nat /\ uidNext + 1 \in Nat
      BY DEF ServerTypeOK
    <2>3. box' \in [Uids -> Nat]
      BY <1>1, <2>2 DEF Deliver
    <2>4. ServerTypeOK'
      BY <1>1, <2>2, <2>3 DEF Deliver, ServerTypeOK
    <2> QED BY <1>1, <2>1, <2>4 DEF Deliver, StoreTypeOK, SyncTypeOK, dbVars, syncVars
  <1>2. CASE Recreate
    <2>1. uidNext' \in Nat /\ modSeq' \in Nat /\ srvVal' \in Nat
      BY <1>2, FolderSyncAssumption DEF Recreate, ServerTypeOK
    <2>2. ServerTypeOK'
      BY <1>2, <2>1 DEF Recreate, ServerTypeOK
    <2> QED BY <1>2, <2>2 DEF Recreate, StoreTypeOK, SyncTypeOK, IdleTypeOK, dbVars, syncVars, idleVars
  <1>3. ASSUME NEW u \in Uids, Expunge(u) \/ ChangeFlags(u) PROVE CoreTypeOK'
    <2>1. IdleTypeOK'
      BY <1>3, AnnounceType DEF Expunge, ChangeFlags, Kinds
    <2>2. ServerTypeOK'
      BY <1>3 DEF Expunge, ChangeFlags, ServerTypeOK
    <2> QED BY <1>3, <2>1, <2>2 DEF Expunge, ChangeFlags, StoreTypeOK, SyncTypeOK, dbVars, syncVars
  <1> QED BY <1>1, <1>2, <1>3 DEF ServerStep

LEMMA UpsertType ==
    ASSUME StoreTypeOK, NEW b \in Buffer, UpsertMessage(b)
    PROVE  cache' \in [Uids -> Row \cup {None}]
  <1>1. b.uid \in Uids /\ b.gen \in Nat /\ b.flags \in Nat
    BY DEF Buffer
  <1>2. Cached(b.uid) => cache[b.uid].gen \in Nat
    BY <1>1 DEF StoreTypeOK, Cached, Row
  <1> QED BY <1>1, <1>2 DEF UpsertMessage, StoreTypeOK, Row

\* A buffer of what the server has.
LEMMA FetchedType ==
    ASSUME ServerTypeOK, NEW S \in SUBSET Uids
    PROVE  {[uid |-> u, gen |-> srvVal, flags |-> box[u]] : u \in S} \subseteq Buffer
  BY DEF ServerTypeOK, Buffer

LEMMA SyncStepType ==
    ASSUME TypeOK, NEW s \in Syncers, SyncStep(s) PROVE CoreTypeOK'
  <1> USE DEF TypeOK, CoreTypeOK
  <1>a. UNCHANGED <<srvVars, idleVars, faults>> => ServerTypeOK' /\ IdleTypeOK' /\ (faults \in Nat)'
    BY DEF ServerTypeOK, IdleTypeOK, srvVars, idleVars
  <1>b. UNCHANGED dbVars => StoreTypeOK'
    BY DEF StoreTypeOK, dbVars
  <1>c. "select" \in Places /\ "clear" \in Places /\ "anchor" \in Places /\ "highest" \in Places
        /\ "fetch" \in Places /\ "store" \in Places /\ Rest(s) \in Places
    BY DEF Places, Rest
  <1>1. CASE ReadFolder(s)
    <2>1. SyncTypeOK'
      BY <1>1, <1>c DEF ReadFolder, Goto, SyncTypeOK, StoreTypeOK
    <2> QED BY <1>1, <1>a, <1>b, <2>1 DEF ReadFolder
  <1>2. CASE SelectFolder(s)
    <2>1. [val |-> srvVal, mod |-> IF world.condstore THEN modSeq ELSE 0,
           any |-> IF \E u \in Uids : OnServer(u) THEN "yes" ELSE "no"] \in Selected
      BY DEF Selected, ServerTypeOK
    <2>2. SyncTypeOK'
      BY <1>2, <1>c, <2>1 DEF SelectFolder, Goto, SyncTypeOK, ServerTypeOK
    <2> QED BY <1>2, <1>a, <1>b, <2>2 DEF SelectFolder
  <1>3. CASE ClearFolderMessages(s)
    <2>1. SyncTypeOK'
      BY <1>3, <1>c DEF ClearFolderMessages, Goto, SyncTypeOK
    <2> QED BY <1>3, <1>a, <2>1 DEF ClearFolderMessages, StoreTypeOK
  <1>4. CASE SetFolderSyncState(s)
    <2>1. SyncTypeOK'
      BY <1>4, <1>c DEF SetFolderSyncState, Goto, SyncTypeOK
    <2>2. StoreTypeOK'
      BY <1>4 DEF SetFolderSyncState, StoreTypeOK, SyncTypeOK, Anchors, Selected
    <2> QED BY <1>4, <1>a, <2>1, <2>2 DEF SetFolderSyncState
  <1>5. CASE HighestUID(s)
    <2>1. high' \in [Syncers -> Nat] /\ sel' \in [Syncers -> Selected]
      BY <1>5, FolderSyncAssumption DEF HighestUID, SyncTypeOK, Selected, NoSelected
    <2>2. SyncTypeOK'
      BY <1>5, <1>c, <2>1 DEF HighestUID, Goto, SyncTypeOK
    <2> QED BY <1>5, <1>a, <1>b, <2>2 DEF HighestUID
  <1>6. CASE FetchEnvelopes(s)
    <2>1. todo' \in [Syncers -> SUBSET Buffer]
      <3> DEFINE S == {v \in Uids : OnServer(v) /\ v > high[s]}
                 B == {[uid |-> u, gen |-> srvVal, flags |-> box[u]] : u \in S}
      <3>1. B \subseteq Buffer
        BY FetchedType
      <3>2. todo' = [todo EXCEPT ![s] = B]
        BY <1>6 DEF FetchEnvelopes
      <3> HIDE DEF B
      <3> QED BY <3>1, <3>2 DEF SyncTypeOK
    <2>2. SyncTypeOK'
      BY <1>6, <1>c, <2>1 DEF FetchEnvelopes, Goto, SyncTypeOK
    <2> QED BY <1>6, <1>a, <1>b, <2>2 DEF FetchEnvelopes
  <1>7. CASE StoreMessage(s)
    <2>1. PICK b \in todo[s] : UpsertMessage(b) /\ todo' = [todo EXCEPT ![s] = @ \ {b}]
      BY <1>7 DEF StoreMessage
    <2>2. b \in Buffer
      BY <2>1 DEF SyncTypeOK
    <2>3. StoreTypeOK'
      BY <1>7, <2>1, <2>2, UpsertType DEF StoreMessage, StoreTypeOK
    <2>4. SyncTypeOK'
      BY <1>7, <2>1 DEF StoreMessage, SyncTypeOK
    <2> QED BY <1>7, <1>a, <2>3, <2>4 DEF StoreMessage
  <1>8. CASE SyncReturns(s)
    <2>1. SyncTypeOK'
      BY <1>8, <1>c DEF SyncReturns, Goto, SyncTypeOK, NoAnchors, Anchors
    <2> QED BY <1>8, <1>a, <1>b, <2>1 DEF SyncReturns
  <1> QED BY <1>1, <1>2, <1>3, <1>4, <1>5, <1>6, <1>7, <1>8 DEF SyncStep

\* A goroutine that returned early has no locals.
LEMMA UnwindType ==
    ASSUME SyncTypeOK, NEW s \in Syncers, Unwind(s), conn' = [conn EXCEPT ![s] = 0]
    PROVE  SyncTypeOK'
  BY DEF Unwind, Goto, SyncTypeOK, Places, NoAnchors, NoSelected, Anchors, Selected

LEMMA ChargeType ==
    ASSUME faults \in Nat, NEW s \in Syncers, Charge(s) PROVE faults' \in Nat
  BY DEF Charge

LEMMA IdleStepType ==
    ASSUME TypeOK, IdleStep PROVE CoreTypeOK'
  <1> USE DEF TypeOK, CoreTypeOK
  <1>a. UNCHANGED srvVars => ServerTypeOK'
    BY DEF ServerTypeOK, srvVars
  <1>b. UNCHANGED dbVars => StoreTypeOK'
    BY DEF StoreTypeOK, dbVars
  <1>c. UNCHANGED idleVars => IdleTypeOK'
    BY DEF IdleTypeOK, idleVars
  <1>d. \A p \in {"idle", "inventory", "list", "purge", "cached", "flags", "apply", "anchor", "off"} : p \in Places
    BY DEF Places
  <1>e. Idle \in Syncers
    BY DEF Syncers
  <1>f. folder \in Anchors /\ [val |-> folder.val, mod |-> folder.mod, any |-> "yes"] \in Selected
    BY DEF StoreTypeOK, Anchors, Selected
  <1>g. ASSUME notify # <<>>, notify' = Tail(notify), UNCHANGED <<known, uids>> PROVE IdleTypeOK'
    <2>1. notify \in Seq(Kinds)
      BY DEF IdleTypeOK
    <2>2. Tail(notify) \in Seq(Kinds) /\ Len(Tail(notify)) = Len(notify) - 1
      BY <1>g, <2>1
    <2>3. Len(notify) \in Nat
      BY <2>1
    <2> QED BY <1>g, <2>2, <2>3, FolderSyncAssumption DEF IdleTypeOK
  <1>1. CASE HandleNotification
    <2>1. IdleTypeOK'
      BY <1>1, <1>g DEF HandleNotification
    <2>2. CASE DeltaSync
      BY <1>1, <1>a, <1>b, <1>d, <1>e, <1>f, <2>1, <2>2 DEF HandleNotification, DeltaSync, Goto, SyncTypeOK
    <2>3. CASE Goto(Idle, "inventory") /\ UNCHANGED <<snap, sel>>
      BY <1>1, <1>a, <1>b, <1>d, <1>e, <2>1, <2>3 DEF HandleNotification, Goto, SyncTypeOK
    <2>4. CASE RefreshFlags
      BY <1>1, <1>a, <1>b, <1>d, <1>e, <1>f, <2>1, <2>4 DEF HandleNotification, RefreshFlags, Goto, SyncTypeOK
    <2> QED BY <1>1, <2>2, <2>3, <2>4 DEF HandleNotification
  <1>2. CASE PollTick
    BY <1>2, <1>a, <1>b, <1>c, <1>d, <1>e, <1>f DEF PollTick, DeltaSync, Goto, SyncTypeOK
  <1>3. CASE Inventory \/ ListStale
    <2>1. IdleTypeOK'
      BY <1>3 DEF Inventory, ListStale, IdleTypeOK
    <2>2. SyncTypeOK'
      BY <1>3, <1>d, <1>e DEF Inventory, ListStale, Goto, SyncTypeOK
    <2> QED BY <1>3, <1>a, <1>b, <2>1, <2>2 DEF Inventory, ListStale
  <1>4. CASE DeleteStale
    <2>1. IdleTypeOK' /\ StoreTypeOK'
      BY <1>4 DEF DeleteStale, IdleTypeOK, StoreTypeOK
    <2>2. SyncTypeOK'
      BY <1>4, <1>d, <1>e DEF DeleteStale, Goto, SyncTypeOK
    <2> QED BY <1>4, <1>a, <2>1, <2>2 DEF DeleteStale
  <1>5. CASE FolderFlags
    <2>1. \A u \in Uids : Cached(u) => cache[u].flags \in Nat
      BY DEF StoreTypeOK, Cached, Row
    <2>2. IdleTypeOK'
      BY <1>5, <2>1 DEF FolderFlags, IdleTypeOK
    <2>3. SyncTypeOK'
      BY <1>5, <1>d, <1>e DEF FolderFlags, Goto, SyncTypeOK
    <2> QED BY <1>5, <1>a, <1>b, <2>2, <2>3 DEF FolderFlags
  <1>6. CASE FetchFlags
    <2>1. PICK m \in 0..MaxMod : sel' = [sel EXCEPT ![Idle] = [val |-> snap[Idle].val, mod |-> m, any |-> "yes"]]
      BY <1>6 DEF FetchFlags
    <2>2. sel' \in [Syncers -> Selected]
      <3>1. m \in Nat /\ snap[Idle].val \in Nat
        BY <1>e, <2>1, FolderSyncAssumption DEF SyncTypeOK, Anchors
      <3> QED BY <1>e, <2>1, <3>1 DEF SyncTypeOK, Selected
    <2>3. todo' \in [Syncers -> SUBSET Buffer]
      <3> DEFINE S == {v \in Reported : known[v] # 0 /\ known[v] # box[v]}
                 B == {[uid |-> u, gen |-> srvVal, flags |-> box[u]] : u \in S}
      <3>1. S \in SUBSET Uids
        BY DEF Reported
      <3>2. todo' = [todo EXCEPT ![Idle] = B]
        BY <1>6 DEF FetchFlags
      <3> HIDE DEF S
      <3>3. B \subseteq Buffer
        BY <3>1, FetchedType
      <3> HIDE DEF B
      <3> QED BY <3>2, <3>3 DEF SyncTypeOK
    <2>4. SyncTypeOK'
      BY <1>6, <1>d, <1>e, <2>2, <2>3 DEF FetchFlags, Goto, SyncTypeOK
    <2>5. IdleTypeOK'
      BY <1>6 DEF FetchFlags, IdleTypeOK
    <2> QED BY <1>6, <1>a, <1>b, <2>4, <2>5 DEF FetchFlags
  <1>7. CASE UpdateMessageFlags
    <2>1. PICK b \in todo[Idle] :
               /\ cache' = IF Cached(b.uid)
                           THEN [cache EXCEPT ![b.uid] = [gen |-> cache[b.uid].gen, flags |-> b.flags]]
                           ELSE cache
               /\ todo' = [todo EXCEPT ![Idle] = @ \ {b}]
      BY <1>7 DEF UpdateMessageFlags
    <2>2. b.uid \in Uids /\ b.flags \in Nat
      BY <1>e, <2>1 DEF SyncTypeOK, Buffer
    <2>3. Cached(b.uid) => [gen |-> cache[b.uid].gen, flags |-> b.flags] \in Row
      BY <2>2 DEF StoreTypeOK, Cached, Row
    <2>4. cache' \in [Uids -> Row \cup {None}]
      BY <2>1, <2>2, <2>3 DEF StoreTypeOK
    <2>5. StoreTypeOK'
      BY <1>7, <2>4 DEF UpdateMessageFlags, StoreTypeOK
    <2>6. SyncTypeOK'
      BY <1>7, <1>e, <2>1 DEF UpdateMessageFlags, SyncTypeOK
    <2> QED BY <1>7, <1>a, <1>c, <2>5, <2>6 DEF UpdateMessageFlags
  <1>8. CASE RefreshReturns
    <2>1. StoreTypeOK'
      BY <1>8, <1>e DEF RefreshReturns, StoreTypeOK, SyncTypeOK, Anchors, Selected
    <2>2. SyncTypeOK'
      BY <1>8, <1>d, <1>e DEF RefreshReturns, Goto, SyncTypeOK, NoAnchors, NoSelected, Anchors, Selected
    <2> QED BY <1>8, <1>a, <1>c, <2>1, <2>2 DEF RefreshReturns
  <1>9. CASE SessionEnds
    <2>1. SyncTypeOK'
      BY <1>9, <1>e, UnwindType DEF SessionEnds
    <2>2. IdleTypeOK'
      BY <1>9, FolderSyncAssumption DEF SessionEnds, IdleTypeOK
    <2> QED BY <1>9, <1>a, <1>b, <1>e, <2>1, <2>2, ChargeType DEF SessionEnds
  <1> QED BY <1>1, <1>2, <1>3, <1>4, <1>5, <1>6, <1>7, <1>8, <1>9 DEF IdleStep

LEMMA LoopStepType ==
    ASSUME TypeOK, LoopStep PROVE CoreTypeOK'
  <1> USE DEF TypeOK, CoreTypeOK
  <1>a. UNCHANGED <<srvVars, idleVars>> => ServerTypeOK' /\ IdleTypeOK'
    BY DEF ServerTypeOK, IdleTypeOK, srvVars, idleVars
  <1>b. UNCHANGED dbVars => StoreTypeOK'
    BY DEF StoreTypeOK, dbVars
  <1>c. \A p \in {"off", "refetch", "upsert", "select"} : p \in Places
    BY DEF Places
  <1>d. Loop \in Syncers
    BY DEF Syncers
  <1>1. ASSUME NEW u \in Uids, ExecRefetch(u) PROVE CoreTypeOK'
    <2> DEFINE b == [uid |-> u, gen |-> cache[u].gen, flags |-> cache[u].flags]
    <2>1. b \in Buffer
      BY <1>1 DEF ExecRefetch, Cached, StoreTypeOK, Row, Buffer
    <2>2. todo' = [todo EXCEPT ![Loop] = {b}]
      BY <1>1 DEF ExecRefetch
    <2> HIDE DEF b
    <2>3. SyncTypeOK'
      BY <1>1, <1>c, <1>d, <2>1, <2>2 DEF ExecRefetch, Goto, SyncTypeOK
    <2> QED BY <1>1, <1>a, <1>b, <2>3 DEF ExecRefetch
  <1>2. CASE FetchBody
    <2>1. SyncTypeOK'
      BY <1>2, <1>c, <1>d DEF FetchBody, Goto, SyncTypeOK, ServerTypeOK
    <2> QED BY <1>2, <1>a, <1>b, <2>1 DEF FetchBody
  <1>3. CASE RefetchReturns
    <2>1. PICK b \in todo[Loop] : UpsertMessage(b)
      BY <1>3 DEF RefetchReturns
    <2>2. b \in Buffer
      BY <1>d, <2>1 DEF SyncTypeOK
    <2>3. StoreTypeOK'
      BY <1>3, <2>1, <2>2, UpsertType DEF RefetchReturns, StoreTypeOK
    <2>4. SyncTypeOK'
      BY <1>3, <1>c, <1>d DEF RefetchReturns, Goto, SyncTypeOK
    <2> QED BY <1>3, <1>a, <2>3, <2>4 DEF RefetchReturns
  <1>4. CASE CommandFails
    BY <1>4, <1>a, <1>b, <1>d, UnwindType, ChargeType DEF CommandFails
  <1>5. CASE CommandRetries
    <2>1. SyncTypeOK'
      BY <1>5, <1>c, <1>d DEF CommandRetries, Goto, SyncTypeOK
    <2> QED BY <1>5, <1>a, <1>b, <1>d, <2>1, ChargeType DEF CommandRetries
  <1> QED BY <1>1, <1>2, <1>3, <1>4, <1>5 DEF LoopStep

LEMMA CrashType == ASSUME TypeOK, CrashRestart PROVE CoreTypeOK'
  <1>1. SyncTypeOK' /\ IdleTypeOK'
    BY FolderSyncAssumption DEF CrashRestart, SyncTypeOK, IdleTypeOK, Places, NoAnchors, NoSelected, Anchors, Selected
  <1> QED BY <1>1 DEF CrashRestart, TypeOK, CoreTypeOK, ServerTypeOK, StoreTypeOK, srvVars, dbVars

LEMMA SkipsType ==
    ASSUME skipped \subseteq Uids, NEW us \in SUBSET Uids, Skips(us) PROVE skipped' \subseteq Uids
  BY DEF Skips

\* The history holds UIDs.
LEMMA SkippedType == ASSUME TypeOK, [Next]_vars PROVE skipped' \subseteq Uids
  <1>1. skipped \subseteq Uids /\ todo \in [Syncers -> SUBSET Buffer] /\ Loop \in Syncers
    BY DEF TypeOK, SyncTypeOK, Syncers
  <1>2. skipped' = skipped => skipped' \subseteq Uids
    BY <1>1
  <1>3. ServerStep \/ CrashRestart \/ UNCHANGED vars => skipped' = skipped
    BY DEF ServerStep, Deliver, Recreate, Expunge, ChangeFlags, CrashRestart, vars
  <1>4. ASSUME NEW s \in Syncers, SyncStep(s) PROVE skipped' \subseteq Uids
    <2>1. CASE StoreMessage(s)
      <3>1. PICK b \in todo[s] : Skips(IF s = Loop THEN {b.uid} ELSE {})
        BY <2>1 DEF StoreMessage
      <3>2. b.uid \in Uids
        BY <1>1, <3>1 DEF Buffer
      <3> QED BY <1>1, <3>1, <3>2, SkipsType
    <2>2. CASE SetFolderSyncState(s)
      BY <1>1, <2>2, SkipsType DEF SetFolderSyncState
    <2>3. CASE ~(StoreMessage(s) \/ SetFolderSyncState(s))
      BY <1>1, <1>4, <2>3 DEF SyncStep, ReadFolder, SelectFolder, ClearFolderMessages, HighestUID, FetchEnvelopes, SyncReturns
    <2> QED BY <2>1, <2>2, <2>3
  <1>5. CASE IdleStep
    <2>1. CASE DeleteStale \/ UpdateMessageFlags \/ RefreshReturns
      BY <1>1, <2>1, SkipsType DEF DeleteStale, UpdateMessageFlags, RefreshReturns
    <2>2. CASE ~(DeleteStale \/ UpdateMessageFlags \/ RefreshReturns)
      BY <1>2, <1>5, <2>2 DEF IdleStep, HandleNotification, PollTick, Inventory, ListStale, FolderFlags,
                              FetchFlags, SessionEnds
    <2> QED BY <2>1, <2>2
  <1>6. CASE LoopStep
    <2>1. CASE RefetchReturns
      <3>1. PICK b \in todo[Loop] : Skips({b.uid})
        BY <2>1 DEF RefetchReturns
      <3>2. b.uid \in Uids
        BY <1>1, <3>1 DEF Buffer
      <3> QED BY <1>1, <3>1, <3>2, SkipsType
    <2>2. CASE ~RefetchReturns
      BY <1>2, <1>6, <2>2 DEF LoopStep, ExecRefetch, FetchBody, CommandFails, CommandRetries
    <2> QED BY <2>1, <2>2
  <1> QED BY <1>2, <1>3, <1>4, <1>5, <1>6 DEF Next, Syncers

LEMMA NextType == TypeOK /\ [Next]_vars => TypeOK'
  <1> SUFFICES ASSUME TypeOK, [Next]_vars PROVE TypeOK'
    OBVIOUS
  <1>1. CASE UNCHANGED vars
    BY <1>1 DEF vars, srvVars, dbVars, syncVars, idleVars, TypeOK, ServerTypeOK, StoreTypeOK, SyncTypeOK, IdleTypeOK
  <1>2. Next => CoreTypeOK'
    BY ServerStepType, SyncStepType, IdleStepType, LoopStepType, CrashType DEF Next, Syncers
  <1> QED BY <1>1, <1>2, SkippedType DEF TypeOK, CoreTypeOK

(***************************************************************************)
(* The server, the two tables and the locals of both syncers are well      *)
(* typed, and the notification channel keeps to its capacity.              *)
(***************************************************************************)
THEOREM TypeCorrect == Spec => []TypeOK
  BY InitType, NextType, PTL DEF Spec

-----------------------------------------------------------------------------
(* Generations and UIDs are bounded by the server's, and the loop's places *)
(* are its own.                                                            *)

LEMMA SyncersTwo == Idle \in Syncers /\ Loop \in Syncers /\ Idle # Loop
  BY FolderSyncAssumption DEF Syncers

LEMMA UidsNat == \A u \in Uids : u \in Nat /\ u # 0
  BY FolderSyncAssumption DEF Uids

LEMMA InitNumbers == Init => Numbers
  <1> SUFFICES ASSUME Init PROVE Numbers
    OBVIOUS
  <1>1. ServerNumbers
    BY FolderSyncAssumption DEF Init, ServerNumbers, OnServer
  <1>2. StoreNumbers
    BY DEF Init, StoreNumbers, NoAnchors, Cached
  <1>3. SyncNumbers
    BY DEF Init, SyncNumbers, NoAnchors, NoSelected
  <1>4. PlacesKept
    BY SyncersTwo DEF Init, PlacesKept, LoopPlaces
  <1> QED BY <1>1, <1>2, <1>3, <1>4 DEF Numbers

\* A server step starts a new generation or takes no UID back.
LEMMA ServerForward ==
    ASSUME TypeOK, ServerNumbers, ServerStep
    PROVE  /\ ServerNumbers' /\ srvVal <= srvVal' /\ srvVal' \in Nat
           /\ srvVal' = srvVal => uidNext <= uidNext'
           /\ UNCHANGED <<mode, world, dbVars, syncVars, known, uids, faults>>
  <1>t. srvVal \in Nat /\ uidNext \in Nat /\ modSeq \in Nat /\ box \in [Uids -> Nat] /\ world.vals \in Nat
    BY FolderSyncAssumption DEF TypeOK, ServerTypeOK, World
  <1>1. CASE Deliver
    <2>1. uidNext \in Uids
      BY <1>1, <1>t, FolderSyncAssumption DEF Deliver, ServerNumbers, Uids
    <2>2. \A u \in Uids : box'[u] = IF u = uidNext THEN modSeq + 1 ELSE box[u]
      BY <1>1, <1>t, <2>1 DEF Deliver
    <2>3. ServerNumbers'
      BY <1>1, <1>t, <2>2, UidsNat DEF Deliver, ServerNumbers, OnServer
    <2> QED BY <1>1, <1>t, <2>3 DEF Deliver
  <1>2. CASE Recreate
    <2>1. ServerNumbers'
      BY <1>2, <1>t, UidsNat, FolderSyncAssumption DEF Recreate, ServerNumbers, OnServer
    <2> QED BY <1>2, <1>t, <2>1 DEF Recreate, idleVars
  <1>3. ASSUME NEW u \in Uids, Expunge(u) PROVE ServerNumbers'
    BY <1>3, <1>t DEF Expunge, ServerNumbers, OnServer
  <1>4. ASSUME NEW u \in Uids, ChangeFlags(u) PROVE ServerNumbers'
    BY <1>4, <1>t DEF ChangeFlags, ServerNumbers, OnServer
  <1>5. ASSUME NEW u \in Uids, Expunge(u) \/ ChangeFlags(u)
        PROVE  UNCHANGED <<srvVal, uidNext, mode, world, dbVars, syncVars, known, uids, faults>>
    BY <1>5 DEF Expunge, ChangeFlags
  <1> QED BY <1>1, <1>2, <1>3, <1>4, <1>5, <1>t DEF ServerStep

LEMMA ServerStepNumbers ==
    ASSUME TypeOK, Numbers, ServerStep PROVE Numbers'
  <1>1. /\ ServerNumbers' /\ srvVal <= srvVal' /\ srvVal' \in Nat
        /\ srvVal' = srvVal => uidNext <= uidNext'
        /\ UNCHANGED <<mode, world, dbVars, syncVars, known, uids, faults>>
    BY ServerForward DEF Numbers
  <1>t. srvVal \in Nat /\ uidNext \in Nat /\ uidNext' \in Nat
    BY ServerStepType DEF TypeOK, CoreTypeOK, ServerTypeOK
  <1>2. StoreNumbers'
    <2>1. folder.val \in Nat /\ \A u \in Uids : Cached(u) => cache[u].gen \in Nat
      BY DEF TypeOK, StoreTypeOK, Anchors, Cached, Row
    <2>2. folder' = folder /\ cache' = cache
      BY <1>1 DEF dbVars
    <2> QED BY <1>1, <1>t, <2>1, <2>2, UidsNat DEF Numbers, StoreNumbers, Cached
  <1>3. SyncNumbers'
    <2>0. UNCHANGED <<conn, snap, sel, todo>>
      BY <1>1 DEF syncVars
    <2>1. \A s \in Syncers : conn[s] \in Nat /\ snap[s].val \in Nat /\ sel[s].val \in Nat
      BY DEF TypeOK, SyncTypeOK, Anchors, Selected
    <2>2. \A s \in Syncers : \A b \in todo[s] : b.gen \in Nat /\ b.uid \in Nat
      BY UidsNat DEF TypeOK, SyncTypeOK, Buffer
    <2>3. \A s \in Syncers : \A b \in todo[s] : BufferOK(b)'
      BY <1>1, <1>t, <2>2 DEF Numbers, SyncNumbers, BufferOK
    <2> QED BY <1>1, <1>t, <2>0, <2>1, <2>3 DEF Numbers, SyncNumbers
  <1>4. PlacesKept'
    BY <1>1 DEF Numbers, PlacesKept, syncVars
  <1> QED BY <1>1, <1>2, <1>3, <1>4 DEF Numbers

\* A buffer of what the server has is in bounds, and so is the row it makes.
LEMMA FetchedNumbers ==
    ASSUME TypeOK, ServerNumbers, NEW u \in Uids, OnServer(u)
    PROVE  BufferOK([uid |-> u, gen |-> srvVal, flags |-> box[u]])
  BY DEF BufferOK, ServerNumbers, OnServer, TypeOK, ServerTypeOK

LEMMA UpsertNumbers ==
    ASSUME TypeOK, StoreNumbers, NEW b \in Buffer, BufferOK(b), UpsertMessage(b), UNCHANGED <<folder, srvVars>>
    PROVE  StoreNumbers'
  <1>1. b.uid \in Uids /\ b.gen \in Nat /\ b.flags \in Nat
    BY DEF Buffer
  <1>2. cache \in [Uids -> Row \cup {None}]
    BY DEF TypeOK, StoreTypeOK
  <1>3. \A u \in Uids : u # b.uid => cache'[u] = cache[u]
    BY <1>1, <1>2 DEF UpsertMessage
  <1>4. cache'[b.uid] = IF Cached(b.uid) THEN [gen |-> cache[b.uid].gen, flags |-> b.flags]
                        ELSE [gen |-> b.gen, flags |-> b.flags]
    BY <1>1, <1>2 DEF UpsertMessage
  <1>5. /\ cache'[b.uid].flags = b.flags
        /\ cache'[b.uid].gen = IF Cached(b.uid) THEN cache[b.uid].gen ELSE b.gen
    BY <1>4
  <1> QED BY <1>1, <1>3, <1>5 DEF StoreNumbers, Cached, BufferOK, srvVars

\* Steps that leave the server alone.
LEMMA NumbersFrame ==
    ASSUME Numbers, UNCHANGED <<srvVal, uidNext, box, world>>,
           UNCHANGED dbVars \/ StoreNumbers', SyncNumbers', PlacesKept'
    PROVE  Numbers'
  <1>1. ServerNumbers'
    BY DEF Numbers, ServerNumbers, OnServer
  <1>2. StoreNumbers'
    BY DEF Numbers, StoreNumbers, Cached, dbVars
  <1> QED BY <1>1, <1>2 DEF Numbers

\* One syncer moves: its own numbers are left to show.
LEMMA SyncFrame ==
    ASSUME TypeOK, Numbers, NEW s \in Syncers, UNCHANGED srvVars,
           \A t \in Syncers \ {s} : UNCHANGED <<conn[t], snap[t], sel[t], todo[t]>>,
           conn'[s] <= srvVal, snap'[s].val <= srvVal, sel'[s].val <= srvVal,
           \A b \in todo'[s] : BufferOK(b)
    PROVE  SyncNumbers'
  <1>1. \A b : BufferOK(b)' <=> BufferOK(b)
    BY DEF BufferOK, srvVars
  <1> QED BY <1>1 DEF Numbers, SyncNumbers, srvVars

\* The loop has places of its own, and where s may go it may.
LEMMA PlacesFrame ==
    ASSUME TypeOK, Numbers, NEW s \in Syncers, UNCHANGED world, s = Idle \/ world.loop,
           NEW p \in Places, Goto(s, p),
           s = Idle => p \notin {"refetch", "upsert"}, s = Loop => p \in LoopPlaces
    PROVE  PlacesKept'
  BY SyncersTwo DEF Goto, Numbers, PlacesKept, TypeOK, SyncTypeOK, Syncers

LEMMA SyncStepNumbers ==
    ASSUME TypeOK, Numbers, NEW s \in Syncers, s = Idle \/ world.loop, SyncStep(s)
    PROVE  Numbers'
  <1>t. /\ conn \in [Syncers -> Nat] /\ snap \in [Syncers -> Anchors] /\ sel \in [Syncers -> Selected]
        /\ todo \in [Syncers -> SUBSET Buffer] /\ srvVal \in Nat /\ uidNext \in Nat
    BY DEF TypeOK, SyncTypeOK, ServerTypeOK
  <1>n. /\ conn[s] <= srvVal /\ snap[s].val <= srvVal /\ sel[s].val <= srvVal
        /\ \A b \in todo[s] : BufferOK(b)
    BY DEF Numbers, SyncNumbers
  <1>c. {"select", "clear", "anchor", "highest", "fetch", "store", Rest(s)} \subseteq Places
    BY DEF Places, Rest
  <1>d. \A p \in {"select", "clear", "anchor", "highest", "fetch", "store", Rest(s)} :
           (s = Idle => p \notin {"refetch", "upsert"}) /\ (s = Loop => p \in LoopPlaces)
    BY SyncersTwo DEF Rest, LoopPlaces
  <1>1. CASE ReadFolder(s)
    <2>1. SyncNumbers'
      BY <1>1, <1>t, <1>n, SyncFrame DEF ReadFolder, Numbers, StoreNumbers
    <2>2. PlacesKept'
      BY <1>1, <1>c, <1>d, PlacesFrame DEF ReadFolder, srvVars
    <2> QED BY <1>1, <2>1, <2>2, NumbersFrame DEF ReadFolder, srvVars
  <1>2. CASE SelectFolder(s)
    <2>1. SyncNumbers'
      BY <1>2, <1>t, <1>n, SyncFrame DEF SelectFolder
    <2>2. PlacesKept'
      BY <1>2, <1>c, <1>d, PlacesFrame DEF SelectFolder, srvVars
    <2> QED BY <1>2, <2>1, <2>2, NumbersFrame DEF SelectFolder, srvVars
  <1>3. CASE ClearFolderMessages(s)
    <2>1. SyncNumbers'
      BY <1>3, <1>t, <1>n, SyncFrame DEF ClearFolderMessages
    <2>2. PlacesKept'
      BY <1>3, <1>c, <1>d, PlacesFrame DEF ClearFolderMessages, srvVars
    <2>3. StoreNumbers'
      BY <1>3 DEF ClearFolderMessages, Numbers, StoreNumbers, Cached, srvVars
    <2> QED BY <1>3, <2>1, <2>2, <2>3, NumbersFrame DEF ClearFolderMessages, srvVars
  <1>4. CASE SetFolderSyncState(s)
    <2>1. SyncNumbers'
      BY <1>4, <1>t, <1>n, SyncFrame DEF SetFolderSyncState
    <2>2. PlacesKept'
      BY <1>4, <1>c, <1>d, PlacesFrame DEF SetFolderSyncState, srvVars
    <2>3. StoreNumbers'
      BY <1>4, <1>n DEF SetFolderSyncState, Numbers, StoreNumbers, Cached, srvVars
    <2> QED BY <1>4, <2>1, <2>2, <2>3, NumbersFrame DEF SetFolderSyncState, srvVars
  <1>5. CASE HighestUID(s)
    <2>1. SyncNumbers'
      BY <1>5, <1>t, <1>n, SyncFrame DEF HighestUID, NoSelected
    <2>2. PlacesKept'
      BY <1>5, <1>c, <1>d, PlacesFrame DEF HighestUID, srvVars
    <2> QED BY <1>5, <2>1, <2>2, NumbersFrame DEF HighestUID, srvVars
  <1>6. CASE FetchEnvelopes(s)
    <2>0. \A b \in todo'[s] : BufferOK(b)
      <3> DEFINE S == {v \in Uids : OnServer(v) /\ v > high[s]}
      <3>1. todo'[s] = {[uid |-> u, gen |-> srvVal, flags |-> box[u]] : u \in S}
        BY <1>6, <1>t DEF FetchEnvelopes
      <3>2. \A u \in S : BufferOK([uid |-> u, gen |-> srvVal, flags |-> box[u]])
        BY FetchedNumbers DEF Numbers
      <3> HIDE DEF S
      <3> QED BY <3>1, <3>2
    <2>1. SyncNumbers'
      BY <1>6, <1>t, <1>n, <2>0, SyncFrame DEF FetchEnvelopes
    <2>2. PlacesKept'
      BY <1>6, <1>c, <1>d, PlacesFrame DEF FetchEnvelopes, srvVars
    <2> QED BY <1>6, <2>1, <2>2, NumbersFrame DEF FetchEnvelopes, srvVars
  <1>7. CASE StoreMessage(s)
    <2>1. PICK b \in todo[s] : UpsertMessage(b) /\ todo' = [todo EXCEPT ![s] = @ \ {b}]
      BY <1>7 DEF StoreMessage
    <2>2. b \in Buffer /\ BufferOK(b)
      BY <1>t, <1>n, <2>1
    <2>3. StoreNumbers'
      BY <1>7, <2>1, <2>2, UpsertNumbers DEF StoreMessage, Numbers
    <2>4. SyncNumbers'
      BY <1>7, <1>t, <1>n, <2>1, SyncFrame DEF StoreMessage
    <2>5. PlacesKept'
      BY <1>7 DEF StoreMessage, Numbers, PlacesKept, srvVars
    <2> QED BY <1>7, <2>3, <2>4, <2>5, NumbersFrame DEF StoreMessage, srvVars
  <1>8. CASE SyncReturns(s)
    <2>1. SyncNumbers'
      BY <1>8, <1>t, <1>n, SyncFrame DEF SyncReturns, NoAnchors
    <2>2. PlacesKept'
      BY <1>8, <1>c, <1>d, PlacesFrame DEF SyncReturns, srvVars
    <2> QED BY <1>8, <2>1, <2>2, NumbersFrame DEF SyncReturns, srvVars
  <1> QED BY <1>1, <1>2, <1>3, <1>4, <1>5, <1>6, <1>7, <1>8 DEF SyncStep

LEMMA IdleStepNumbers ==
    ASSUME TypeOK, Numbers, IdleStep PROVE Numbers'
  <1>t. /\ conn \in [Syncers -> Nat] /\ snap \in [Syncers -> Anchors] /\ sel \in [Syncers -> Selected]
        /\ todo \in [Syncers -> SUBSET Buffer] /\ srvVal \in Nat /\ uidNext \in Nat
    BY DEF TypeOK, SyncTypeOK, ServerTypeOK
  <1>n. /\ conn[Idle] <= srvVal /\ snap[Idle].val <= srvVal /\ sel[Idle].val <= srvVal
        /\ (\A b \in todo[Idle] : BufferOK(b)) /\ folder.val <= srvVal
    BY SyncersTwo DEF Numbers, SyncNumbers, StoreNumbers
  <1>p. ASSUME NEW p \in {"off", "idle", "inventory", "list", "purge", "cached", "flags", "apply", "anchor"},
               Goto(Idle, p), UNCHANGED srvVars
        PROVE  PlacesKept'
    <2>1. p \in Places /\ p \notin {"refetch", "upsert"}
      BY DEF Places
    <2> QED BY <1>p, <2>1, SyncersTwo, PlacesFrame DEF srvVars
  <1>1. CASE HandleNotification \/ PollTick
    <2>1. SyncNumbers'
      BY <1>1, <1>t, <1>n, SyncersTwo, SyncFrame DEF HandleNotification, PollTick, DeltaSync, RefreshFlags
    <2>2. PlacesKept'
      BY <1>1, <1>p DEF HandleNotification, PollTick, DeltaSync, RefreshFlags
    <2> QED BY <1>1, <2>1, <2>2, NumbersFrame DEF HandleNotification, PollTick, srvVars
  <1>2. CASE Inventory \/ ListStale \/ FolderFlags
    <2>1. SyncNumbers'
      BY <1>2, <1>t, <1>n, SyncersTwo, SyncFrame DEF Inventory, ListStale, FolderFlags
    <2>2. PlacesKept'
      BY <1>2, <1>p DEF Inventory, ListStale, FolderFlags
    <2> QED BY <1>2, <2>1, <2>2, NumbersFrame DEF Inventory, ListStale, FolderFlags, srvVars
  <1>3. CASE DeleteStale
    <2>1. SyncNumbers'
      BY <1>3, <1>t, <1>n, SyncersTwo, SyncFrame DEF DeleteStale
    <2>2. PlacesKept'
      BY <1>3, <1>p DEF DeleteStale
    <2>3. StoreNumbers'
      BY <1>3 DEF DeleteStale, Numbers, StoreNumbers, Cached, srvVars
    <2> QED BY <1>3, <2>1, <2>2, <2>3, NumbersFrame DEF DeleteStale, srvVars
  <1>4. CASE FetchFlags
    <2>0. \A b \in todo'[Idle] : BufferOK(b)
      <3> DEFINE S == {v \in Reported : known[v] # 0 /\ known[v] # box[v]}
      <3>1. todo'[Idle] = {[uid |-> u, gen |-> srvVal, flags |-> box[u]] : u \in S}
        BY <1>4, <1>t, SyncersTwo DEF FetchFlags
      <3>2. \A u \in S : BufferOK([uid |-> u, gen |-> srvVal, flags |-> box[u]])
        BY FetchedNumbers DEF Numbers, Reported
      <3> HIDE DEF S
      <3> QED BY <3>1, <3>2
    <2>1. sel'[Idle].val <= srvVal
      BY <1>4, <1>t, <1>n, SyncersTwo DEF FetchFlags
    <2>2. \A t \in Syncers \ {Idle} : UNCHANGED <<conn[t], snap[t], sel[t], todo[t]>>
      BY <1>4, <1>t DEF FetchFlags
    <2>3. SyncNumbers'
      BY <1>4, <1>n, <2>0, <2>1, <2>2, SyncersTwo, SyncFrame DEF FetchFlags
    <2>4. PlacesKept'
      BY <1>4, <1>p DEF FetchFlags
    <2> QED BY <1>4, <2>3, <2>4, NumbersFrame DEF FetchFlags, srvVars
  <1>5. CASE UpdateMessageFlags
    <2>1. PICK b \in todo[Idle] :
               /\ cache' = IF Cached(b.uid)
                           THEN [cache EXCEPT ![b.uid] = [gen |-> cache[b.uid].gen, flags |-> b.flags]]
                           ELSE cache
               /\ todo' = [todo EXCEPT ![Idle] = @ \ {b}]
      BY <1>5 DEF UpdateMessageFlags
    <2>2. b \in Buffer /\ BufferOK(b)
      BY <1>t, <1>n, <2>1, SyncersTwo
    <2>3. StoreNumbers'
      <3>1. Cached(b.uid) => UpsertMessage(b)
        BY <2>1 DEF UpsertMessage
      <3>2. CASE ~Cached(b.uid)
        BY <1>5, <2>1, <3>2 DEF UpdateMessageFlags, Numbers, StoreNumbers, Cached, srvVars
      <3> QED BY <1>5, <2>2, <3>1, <3>2, UpsertNumbers DEF UpdateMessageFlags, Numbers
    <2>4. SyncNumbers'
      BY <1>5, <1>t, <1>n, <2>1, SyncersTwo, SyncFrame DEF UpdateMessageFlags
    <2>5. PlacesKept'
      BY <1>5 DEF UpdateMessageFlags, Numbers, PlacesKept, srvVars
    <2> QED BY <1>5, <2>3, <2>4, <2>5, NumbersFrame DEF UpdateMessageFlags, srvVars
  <1>6. CASE RefreshReturns
    <2>1. SyncNumbers'
      BY <1>6, <1>t, <1>n, SyncersTwo, SyncFrame DEF RefreshReturns, NoAnchors, NoSelected
    <2>2. PlacesKept'
      BY <1>6, <1>p DEF RefreshReturns
    <2>3. StoreNumbers'
      BY <1>6, <1>n DEF RefreshReturns, Numbers, StoreNumbers, Cached, srvVars
    <2> QED BY <1>6, <2>1, <2>2, <2>3, NumbersFrame DEF RefreshReturns, srvVars
  <1>7. CASE SessionEnds
    <2>1. SyncNumbers'
      BY <1>7, <1>t, SyncersTwo, SyncFrame DEF SessionEnds, Unwind, NoAnchors, NoSelected
    <2>2. PlacesKept'
      BY <1>7, <1>p DEF SessionEnds, Unwind
    <2> QED BY <1>7, <2>1, <2>2, NumbersFrame DEF SessionEnds, srvVars
  <1> QED BY <1>1, <1>2, <1>3, <1>4, <1>5, <1>6, <1>7 DEF IdleStep

LEMMA LoopStepNumbers ==
    ASSUME TypeOK, Numbers, world.loop, LoopStep PROVE Numbers'
  <1>t. /\ conn \in [Syncers -> Nat] /\ snap \in [Syncers -> Anchors] /\ sel \in [Syncers -> Selected]
        /\ todo \in [Syncers -> SUBSET Buffer] /\ srvVal \in Nat /\ uidNext \in Nat
    BY DEF TypeOK, SyncTypeOK, ServerTypeOK
  <1>n. /\ conn[Loop] <= srvVal /\ snap[Loop].val <= srvVal /\ sel[Loop].val <= srvVal
        /\ \A b \in todo[Loop] : BufferOK(b)
    BY SyncersTwo DEF Numbers, SyncNumbers
  <1>p. ASSUME NEW p \in {"off", "refetch", "upsert", "select"}, Goto(Loop, p), UNCHANGED srvVars
        PROVE  PlacesKept'
    <2>1. p \in Places /\ p \in LoopPlaces
      BY DEF Places, LoopPlaces
    <2> QED BY <1>p, <2>1, SyncersTwo, PlacesFrame DEF srvVars
  <1>1. ASSUME NEW u \in Uids, ExecRefetch(u) PROVE Numbers'
    <2> DEFINE b == [uid |-> u, gen |-> cache[u].gen, flags |-> cache[u].flags]
    <2>1. BufferOK(b)
      BY <1>1 DEF ExecRefetch, Numbers, StoreNumbers, BufferOK
    <2>2. todo'[Loop] = {b} /\ \A t \in Syncers \ {Loop} : todo'[t] = todo[t]
      BY <1>1, <1>t, SyncersTwo DEF ExecRefetch
    <2> HIDE DEF b
    <2>3. SyncNumbers'
      BY <1>1, <1>n, <2>1, <2>2, SyncersTwo, SyncFrame DEF ExecRefetch
    <2>4. PlacesKept'
      BY <1>1, <1>p DEF ExecRefetch
    <2> QED BY <1>1, <2>3, <2>4, NumbersFrame DEF ExecRefetch, srvVars
  <1>2. CASE FetchBody
    <2>1. SyncNumbers'
      BY <1>2, <1>t, <1>n, SyncersTwo, SyncFrame DEF FetchBody
    <2>2. PlacesKept'
      BY <1>2, <1>p DEF FetchBody
    <2> QED BY <1>2, <2>1, <2>2, NumbersFrame DEF FetchBody, srvVars
  <1>3. CASE RefetchReturns
    <2>1. PICK b \in todo[Loop] : UpsertMessage(b)
      BY <1>3 DEF RefetchReturns
    <2>2. b \in Buffer /\ BufferOK(b)
      BY <1>t, <1>n, <2>1, SyncersTwo
    <2>3. StoreNumbers'
      BY <1>3, <2>1, <2>2, UpsertNumbers DEF RefetchReturns, Numbers
    <2>4. SyncNumbers'
      BY <1>3, <1>t, <1>n, SyncersTwo, SyncFrame DEF RefetchReturns
    <2>5. PlacesKept'
      BY <1>3, <1>p DEF RefetchReturns
    <2> QED BY <1>3, <2>3, <2>4, <2>5, NumbersFrame DEF RefetchReturns, srvVars
  <1>4. CASE CommandFails
    <2>1. SyncNumbers'
      BY <1>4, <1>t, SyncersTwo, SyncFrame DEF CommandFails, Unwind, NoAnchors, NoSelected
    <2>2. PlacesKept'
      BY <1>4, <1>p DEF CommandFails, Unwind
    <2> QED BY <1>4, <2>1, <2>2, NumbersFrame DEF CommandFails, srvVars
  <1>5. CASE CommandRetries
    <2>1. SyncNumbers'
      BY <1>5, <1>t, <1>n, SyncersTwo, SyncFrame DEF CommandRetries
    <2>2. PlacesKept'
      BY <1>5, <1>p DEF CommandRetries
    <2> QED BY <1>5, <2>1, <2>2, NumbersFrame DEF CommandRetries, srvVars
  <1> QED BY <1>1, <1>2, <1>3, <1>4, <1>5 DEF LoopStep

LEMMA CrashNumbers == ASSUME TypeOK, Numbers, CrashRestart PROVE Numbers'
  <1>1. SyncNumbers'
    BY DEF CrashRestart, SyncNumbers, NoAnchors, NoSelected, TypeOK, ServerTypeOK, srvVars
  <1>2. PlacesKept'
    BY SyncersTwo DEF CrashRestart, PlacesKept, LoopPlaces
  <1> QED BY <1>1, <1>2, NumbersFrame DEF CrashRestart, srvVars

LEMMA NextNumbers == TypeOK /\ Numbers /\ [Next]_vars => Numbers'
  <1> SUFFICES ASSUME TypeOK, Numbers, [Next]_vars PROVE Numbers'
    OBVIOUS
  <1>1. CASE UNCHANGED vars
    <2>1. ServerNumbers' /\ StoreNumbers' /\ PlacesKept'
      BY <1>1 DEF vars, srvVars, dbVars, syncVars, Numbers, ServerNumbers, StoreNumbers, PlacesKept, OnServer, Cached
    <2>2. SyncNumbers'
      BY <1>1 DEF vars, srvVars, syncVars, Numbers, SyncNumbers, BufferOK
    <2> QED BY <2>1, <2>2 DEF Numbers
  <1>2. CASE ServerStep
    BY <1>2, ServerStepNumbers
  <1>3. CASE SyncStep(Idle)
    BY <1>3, SyncersTwo, SyncStepNumbers
  <1>4. CASE IdleStep
    BY <1>4, IdleStepNumbers
  <1>5. CASE world.loop /\ SyncStep(Loop)
    BY <1>5, SyncersTwo, SyncStepNumbers
  <1>6. CASE world.loop /\ LoopStep
    BY <1>6, LoopStepNumbers
  <1>7. CASE CrashRestart
    BY <1>7, CrashNumbers
  <1> QED BY <1>1, <1>2, <1>3, <1>4, <1>5, <1>6, <1>7 DEF Next

-----------------------------------------------------------------------------
(* No gap and no mixed generations, while the syncers keep apart.          *)

\* Beside the loop there is one generation, and everything is of it.
OneGeneration ==
    /\ srvVal = 1 /\ folder.val \in {0, 1}
    /\ \A u \in Uids : Cached(u) => cache[u].gen = 1
    /\ \A s \in Syncers : /\ conn[s] \in {0, 1} /\ snap[s].val \in {0, 1} /\ sel[s].val \in {0, 1}
                          /\ \A b \in todo[s] : b.gen = 1

LEMMA LoopMeansOne == TypeOK /\ Numbers /\ Apart /\ world.loop => OneGeneration
  <1> SUFFICES ASSUME TypeOK, Numbers, Apart, world.loop PROVE OneGeneration
    OBVIOUS
  <1>1. srvVal = 1
    BY DEF Apart, Numbers, ServerNumbers
  <1>2. folder.val \in {0, 1} /\ \A u \in Uids : Cached(u) => cache[u].gen = 1
    BY <1>1 DEF Numbers, StoreNumbers, TypeOK, StoreTypeOK, Anchors, Row, Cached
  <1>3. \A s \in Syncers : /\ conn[s] \in Nat /\ snap[s].val \in Nat /\ sel[s].val \in Nat
                           /\ \A b \in todo[s] : b.gen \in Nat
    BY DEF TypeOK, SyncTypeOK, Anchors, Selected, Buffer
  <1>4. \A s \in Syncers : /\ conn[s] <= 1 /\ snap[s].val <= 1 /\ sel[s].val <= 1
                           /\ \A b \in todo[s] : b.gen # 0 /\ b.gen <= 1
    BY <1>1 DEF Numbers, SyncNumbers, BufferOK
  <1> QED BY <1>1, <1>2, <1>3, <1>4 DEF OneGeneration

LEMMA LoopMeansOneNext == (TypeOK /\ Numbers /\ Apart /\ world.loop)' => OneGeneration'
  BY LoopMeansOne, PTL

\* What the other syncer may do to the tables.
Growing == world.loop => /\ folder.val # 0 => folder'.val # 0
                         /\ \A u \in Uids : Cached(u) => Cached(u)'

LocalsKept(t) == UNCHANGED <<pc[t], conn[t], snap[t], sel[t], high[t], todo[t]>>

\* A state and the one a syncer's step leads to.
BothStates == TypeOK /\ Numbers /\ TypeOK' /\ Numbers' /\ Apart /\ UNCHANGED srvVars

LEMMA BothOne == ASSUME BothStates, world.loop PROVE OneGeneration /\ OneGeneration'
  <1>1. Apart' /\ (world.loop)'
    BY DEF BothStates, Apart, srvVars
  <1> QED BY <1>1, LoopMeansOne, LoopMeansOneNext DEF BothStates

LEMMA OtherKept ==
    ASSUME BothStates, NEW t \in Syncers, SyncerOK(t), LocalsKept(t), Growing, world.loop \/ t = Loop
    PROVE  SyncerOK(t)'
  <1>1. CASE ~world.loop
    <2>1. pc'[t] = "off"
      BY <1>1 DEF BothStates, Numbers, PlacesKept, LocalsKept
    <2> QED BY <2>1 DEF SyncerOK, Anchored, Anchoring, Fetching, Storing, Synced
  <1>2. CASE world.loop
    <2>1. OneGeneration /\ OneGeneration'
      BY <1>2, BothOne
    <2>2. \A u \in Uids : CachedNow(u) => CachedNow(u)'
      BY <1>2, <2>1 DEF Growing, OneGeneration, CachedNow
    <2>3. Anchored(t)' /\ Anchoring(t)'
      BY <1>2, <2>1 DEF SyncerOK, Anchored, Anchoring, LocalsKept, Growing, OneGeneration
    <2>4. Fetching(t)'
      BY <2>2 DEF BothStates, SyncerOK, Fetching, LocalsKept, Fresh, OnServer, srvVars
    <2>5. Storing(t)'
      BY <2>2 DEF BothStates, SyncerOK, Storing, LocalsKept, OnServer, srvVars
    <2> QED BY <2>3, <2>4, <2>5 DEF SyncerOK
  <1> QED BY <1>1, <1>2

LEMMA IdleMoves ==
    ASSUME BothStates, SyncInv, LocalsKept(Loop), Growing,
           SyncerOK(Idle)', Refreshing', AsRead', Purging', RowsMatchAnchor', NoGap',
           world.loop => /\ pc'[Idle] \notin {"clear", "inventory", "list", "purge"}
                         /\ mode = "poll" \/ ~Pending("expunge")'
    PROVE  SyncInv'
  <1>1. SyncerOK(Loop)'
    BY SyncersTwo, OtherKept DEF SyncInv
  <1>2. \A b \in todo[Loop] : b.uid \in Uids
    BY SyncersTwo DEF BothStates, TypeOK, SyncTypeOK, Buffer
  <1>3. Together'
    <2>1. pc'[Loop] = pc[Loop] /\ todo'[Loop] = todo[Loop] /\ world' = world /\ mode' = mode
      BY DEF LocalsKept, BothStates, srvVars
    <2>2. world.loop /\ pc[Loop] \in {"refetch", "upsert"} => \A b \in todo[Loop] : Cached(b.uid)'
      BY <1>2 DEF SyncInv, Together, Growing
    <2> QED BY <2>1, <2>2 DEF SyncInv, Together
  <1> QED BY <1>1, <1>3 DEF SyncInv, Syncers

LEMMA LoopMoves ==
    ASSUME BothStates, SyncInv, LocalsKept(Idle), UNCHANGED idleVars, Growing, world.loop,
           SyncerOK(Loop)', RowsMatchAnchor', NoGap', pc'[Loop] # "clear",
           pc'[Loop] \in {"refetch", "upsert"} => \A b \in todo'[Loop] : Cached(b.uid)'
    PROVE  SyncInv'
  <1>1. SyncerOK(Idle)'
    BY SyncersTwo, OtherKept DEF SyncInv
  <1>2. Together'
    BY DEF BothStates, SyncInv, Together, LocalsKept, Pending, srvVars, idleVars
  <1>3. AsRead' /\ Purging'
    BY DEF BothStates, SyncInv, Together, AsRead, Purging, LocalsKept, srvVars
  <1>4. Refreshing'
    <2>1. OneGeneration /\ OneGeneration'
      BY BothOne
    <2>2. pc[Idle] \in {"cached", "flags", "apply"} => folder.val # 0
      BY SyncersTwo DEF SyncInv, SyncerOK, Anchored, Synced
    <2>3. folder.val # 0 => folder'.val = folder.val
      BY <2>1 DEF Growing, OneGeneration
    <2> QED BY <2>2, <2>3 DEF SyncInv, Refreshing, LocalsKept
  <1> QED BY <1>1, <1>2, <1>3, <1>4 DEF SyncInv, Syncers

\* Steps that leave the tables alone.
LEMMA TablesKept ==
    ASSUME SyncInv, UNCHANGED <<srvVars, dbVars>>
    PROVE  RowsMatchAnchor' /\ NoGap' /\ Growing
  BY DEF SyncInv, RowsMatchAnchor, NoGap, CachedNow, Cached, OnServer, Growing, srvVars, dbVars

\* A syncer that has returned knows nothing.
LEMMA OffOK == ASSUME NEW s, pc'[s] \in {"off", "select", "refetch", "upsert"} PROVE SyncerOK(s)'
  BY DEF SyncerOK, Anchored, Anchoring, Fetching, Storing, Synced

-----------------------------------------------------------------------------
LEMMA ServerKeepsUids ==
    ASSUME TypeOK, Numbers, ServerStep, srvVal' = srvVal, NEW u \in Uids, u < uidNext, OnServer(u)'
    PROVE  OnServer(u)
  <1>t. srvVal \in Nat /\ uidNext \in Nat /\ box \in [Uids -> Nat] /\ u \in Nat
    BY UidsNat DEF TypeOK, ServerTypeOK
  <1>1. ~Recreate
    BY <1>t DEF Recreate
  <1>2. CASE Deliver
    BY <1>2, <1>t DEF Deliver, OnServer
  <1>3. ASSUME NEW v \in Uids, Expunge(v) \/ ChangeFlags(v) PROVE OnServer(u)
    BY <1>3, <1>t DEF Expunge, ChangeFlags, OnServer
  <1> QED BY <1>1, <1>2, <1>3 DEF ServerStep

LEMMA ServerPending ==
    ASSUME TypeOK, ServerStep, Pending("expunge")'
    PROVE  Pending("expunge") \/ world.expunge # {}
  <1>1. notify \in Seq(Kinds)
    BY DEF TypeOK, IdleTypeOK
  <1>2. ASSUME NEW k \in {"exists", "flags"}, Announce(k) PROVE Pending("expunge")
    <2>1. Append(notify, k) \in Seq(Kinds) /\ Len(Append(notify, k)) = Len(notify) + 1
          /\ \A i \in 1..Len(notify) + 1 : Append(notify, k)[i] = IF i = Len(notify) + 1 THEN k ELSE notify[i]
      BY <1>1, <1>2 DEF Kinds
    <2>2. CASE notify' = notify
      BY <2>2 DEF Pending
    <2>3. CASE notify' = Append(notify, k)
      <3>1. PICK i \in 1..Len(notify) + 1 : Append(notify, k)[i] = "expunge"
        BY <2>1, <2>3 DEF Pending
      <3>2. i # Len(notify) + 1 /\ notify[i] = "expunge"
        BY <2>1, <3>1
      <3>3. i \in 1..Len(notify)
        BY <1>1, <3>1, <3>2
      <3> QED BY <3>2, <3>3 DEF Pending
    <2> QED BY <1>2, <2>2, <2>3 DEF Announce, Push
  <1>3. CASE Recreate
    BY <1>3 DEF Recreate, Pending, idleVars
  <1>4. CASE Deliver
    BY <1>4, <1>2 DEF Deliver
  <1>5. ASSUME NEW u \in Uids, ChangeFlags(u) PROVE Pending("expunge")
    BY <1>5, <1>2 DEF ChangeFlags
  <1>6. ASSUME NEW u \in Uids, Expunge(u) PROVE world.expunge # {}
    BY <1>6 DEF Expunge
  <1> QED BY <1>3, <1>4, <1>5, <1>6 DEF ServerStep

LEMMA ServerStepSync ==
    ASSUME TypeOK, Numbers, Apart, SyncInv, ServerStep PROVE SyncInv'
  <1>1. /\ srvVal <= srvVal' /\ srvVal' \in Nat /\ srvVal \in Nat /\ uidNext \in Nat /\ uidNext' \in Nat
        /\ srvVal' = srvVal => uidNext <= uidNext'
    BY ServerForward, ServerStepType DEF Numbers, TypeOK, CoreTypeOK, ServerTypeOK
  <1>2. UNCHANGED <<mode, world, folder, cache, pc, conn, snap, sel, high, todo, uids>>
    BY ServerForward DEF Numbers, dbVars, syncVars
  <1>3. \A u \in Uids : srvVal' = srvVal /\ u < uidNext /\ OnServer(u)' => OnServer(u)
    BY ServerKeepsUids
  <1>4. \A u \in Uids : CachedNow(u)' => srvVal' = srvVal /\ CachedNow(u) /\ u < uidNext
    <2>1. \A u \in Uids : Cached(u) => cache[u].gen \in Nat
      BY DEF TypeOK, StoreTypeOK, Row, Cached
    <2> QED BY <1>1, <1>2, <2>1 DEF CachedNow, Cached, Numbers, StoreNumbers
  <1>5. \A u \in Uids : srvVal' = srvVal /\ CachedNow(u) => CachedNow(u)'
    BY <1>2 DEF CachedNow, Cached
  <1>6. \A s \in Syncers : Fresh(s)' => srvVal' = srvVal /\ Fresh(s)
    BY <1>1, <1>2 DEF Fresh, Numbers, SyncNumbers, TypeOK, SyncTypeOK
  <1>7. ASSUME NEW s \in Syncers PROVE SyncerOK(s)'
    <2>0. SyncerOK(s)
      BY DEF SyncInv
    <2>1. Anchored(s)' /\ Anchoring(s)'
      BY <1>2, <2>0 DEF SyncerOK, Anchored, Anchoring, Cached
    <2>2. Fetching(s)'
      <3>1. high[s] \in Nat
        BY DEF TypeOK, SyncTypeOK
      <3> QED BY <1>1, <1>2, <1>3, <1>5, <1>6, <2>0, <3>1, UidsNat DEF SyncerOK, Fetching
    <2>3. Storing(s)'
      <3> SUFFICES ASSUME pc[s] = "store", NEW b \in todo[s]
                   PROVE  /\ b.gen = conn[s]
                          /\ b.gen = srvVal' => \A u \in Uids : u < b.uid /\ OnServer(u)' =>
                                 CachedNow(u)' \/ \E c \in todo[s] : c.uid = u
        BY <1>2 DEF Storing
      <3>1. b.gen \in Nat /\ b.uid \in Nat /\ BufferOK(b)
        BY UidsNat DEF TypeOK, SyncTypeOK, Buffer, Numbers, SyncNumbers
      <3>2. b.gen = srvVal' => srvVal' = srvVal /\ b.uid < uidNext
        BY <1>1, <3>1 DEF BufferOK
      <3> QED BY <1>1, <1>3, <1>5, <2>0, <3>1, <3>2, UidsNat DEF SyncerOK, Storing
    <2> QED BY <2>1, <2>2, <2>3 DEF SyncerOK
  <1>8. Refreshing' /\ AsRead' /\ RowsMatchAnchor'
    BY <1>2 DEF SyncInv, Refreshing, AsRead, RowsMatchAnchor, Cached
  <1>9. Purging'
    <2>1. pc[Idle] = "purge" /\ Fresh(Idle) => \A u \in Uids : Cached(u) => CachedNow(u)
      BY SyncersTwo DEF SyncInv, SyncerOK, Anchored, Synced, RowsMatchAnchor, CachedNow, Fresh
    <2>2. uids \subseteq Uids
      BY DEF TypeOK, IdleTypeOK
    <2>3. \A u \in Uids : srvVal' = srvVal /\ CachedNow(u) => u < uidNext
      BY <1>4, <1>5
    <2>4. Fresh(Idle)' => srvVal' = srvVal /\ Fresh(Idle)
      BY <1>6, SyncersTwo
    <2>5. Purging
      BY DEF SyncInv
    <2>6. pc'[Idle] = "list" /\ Fresh(Idle)' => \A u \in Uids : CachedNow(u)' /\ OnServer(u)' => u \in uids'
      BY <1>2, <1>3, <1>4, <2>4, <2>5 DEF Purging
    <2>7. pc'[Idle] = "purge" /\ Fresh(Idle)' => \A u \in uids' : Cached(u)' /\ ~OnServer(u)'
      <3> SUFFICES ASSUME pc[Idle] = "purge", Fresh(Idle)', NEW u \in uids PROVE Cached(u)' /\ ~OnServer(u)'
        BY <1>2
      <3>1. Cached(u) /\ ~OnServer(u) /\ u \in Uids
        BY <2>2, <2>4, <2>5 DEF Purging
      <3>2. u < uidNext /\ srvVal' = srvVal
        BY <2>1, <2>3, <2>4, <3>1
      <3> QED BY <1>2, <1>3, <3>1, <3>2 DEF Cached
    <2> QED BY <2>6, <2>7 DEF Purging
  <1>10. Together'
    <2>1. world.loop /\ mode # "poll" => ~Pending("expunge") /\ ~Pending("expunge")'
      BY ServerPending DEF SyncInv, Together, Apart
    <2> QED BY <1>2, <2>1 DEF SyncInv, Together, Cached
  <1>11. NoGap'
    BY <1>1, <1>3, <1>4, <1>5, UidsNat DEF SyncInv, NoGap
  <1> QED BY <1>7, <1>8, <1>9, <1>10, <1>11 DEF SyncInv

-----------------------------------------------------------------------------
SyncPlaces == {"off", "idle", "select", "clear", "anchor", "highest", "fetch", "store"}

LEMMA SyncerMoves ==
    ASSUME BothStates, SyncInv, NEW s \in Syncers, s = Idle \/ world.loop,
           \A t \in Syncers \ {s} : LocalsKept(t), UNCHANGED idleVars, Growing,
           SyncerOK(s)', RowsMatchAnchor', NoGap', pc'[s] \in SyncPlaces,
           world.loop => pc'[s] # "clear", s = Idle => AsRead'
    PROVE  SyncInv'
  <1>1. CASE s = Idle
    <2>1. Refreshing' /\ Purging'
      BY <1>1 DEF Refreshing, Purging, SyncPlaces
    <2>2. world.loop => mode = "poll" \/ ~Pending("expunge")'
      BY DEF SyncInv, Together, Pending, idleVars
    <2>3. LocalsKept(Loop)
      BY <1>1, SyncersTwo
    <2> QED BY <1>1, <2>1, <2>2, <2>3, IdleMoves DEF SyncPlaces
  <1>2. CASE s = Loop
    <2>1. LocalsKept(Idle) /\ world.loop
      BY <1>2, SyncersTwo
    <2> QED BY <1>2, <2>1, LoopMoves DEF SyncPlaces
  <1> QED BY <1>1, <1>2 DEF Syncers


LEMMA ReadFolderSync ==
    ASSUME BothStates, SyncInv, NEW s \in Syncers, s = Idle \/ world.loop, ReadFolder(s)
    PROVE  SyncInv'
  <1>t. pc \in [Syncers -> Places] /\ snap \in [Syncers -> Anchors]
    BY DEF BothStates, TypeOK, SyncTypeOK
  <1>1. pc'[s] = "select" /\ snap'[s] = folder /\ \A t \in Syncers \ {s} : LocalsKept(t)
    BY <1>t DEF ReadFolder, Goto, LocalsKept
  <1>2. s = Idle => AsRead'
    BY <1>1 DEF ReadFolder, AsRead, dbVars
  <1>3. RowsMatchAnchor' /\ NoGap' /\ Growing
    BY TablesKept DEF ReadFolder
  <1>4. SyncerOK(s)' /\ pc'[s] \in SyncPlaces
    BY <1>1, OffOK DEF SyncPlaces
  <1> QED BY <1>1, <1>2, <1>3, <1>4, SyncerMoves DEF ReadFolder

LEMMA SelectFolderSync ==
    ASSUME BothStates, SyncInv, NEW s \in Syncers, s = Idle \/ world.loop, SelectFolder(s)
    PROVE  SyncInv'
  <1>t. pc \in [Syncers -> Places] /\ conn \in [Syncers -> Nat] /\ sel \in [Syncers -> Selected]
    BY DEF BothStates, TypeOK, SyncTypeOK
  <1>1. /\ pc'[s] = IF Invalidates(s, srvVal) THEN "clear" ELSE "anchor"
        /\ conn'[s] = srvVal /\ sel'[s].val = srvVal /\ snap' = snap
        /\ \A t \in Syncers \ {s} : LocalsKept(t)
    BY <1>t DEF SelectFolder, Goto, LocalsKept
  <1>2. RowsMatchAnchor' /\ NoGap' /\ Growing
    BY TablesKept DEF SelectFolder
  <1>3. s = Idle => AsRead'
    BY <1>1 DEF SelectFolder, SyncInv, AsRead, dbVars, srvVars
  <1>4. world.loop => pc'[s] # "clear"
    BY <1>1, BothOne DEF OneGeneration, Invalidates
  <1>5. pc'[s] = "anchor" => \A u \in Uids : Cached(u) => cache[u].gen = srvVal
    <2>1. CASE world.loop
      BY <2>1, BothOne DEF OneGeneration
    <2>2. CASE ~world.loop
      <3>1. snap[s] = folder
        BY <2>2 DEF SelectFolder, SyncInv, AsRead
      <3>2. pc'[s] = "anchor" => folder.val = 0 \/ folder.val = srvVal
        BY <1>1, <3>1 DEF Invalidates
      <3> QED BY <3>2 DEF BothStates, Numbers, StoreNumbers, SyncInv, RowsMatchAnchor
    <2> QED BY <2>1, <2>2
  <1>6. SyncerOK(s)'
    <2>1. srvVal # 0
      BY DEF BothStates, Numbers, ServerNumbers
    <2> QED BY <1>1, <1>5, <2>1 DEF SelectFolder, SyncerOK, Anchored, Anchoring, Fetching, Storing, Synced, Cached, dbVars
  <1> QED BY <1>1, <1>2, <1>3, <1>4, <1>6, SyncerMoves DEF SelectFolder, SyncPlaces

LEMMA ClearSync ==
    ASSUME BothStates, SyncInv, NEW s \in Syncers, s = Idle \/ world.loop, ClearFolderMessages(s)
    PROVE  SyncInv'
  <1>t. pc \in [Syncers -> Places]
    BY DEF BothStates, TypeOK, SyncTypeOK
  <1>1. /\ pc'[s] = "anchor" /\ UNCHANGED <<conn, snap, sel>> /\ \A u \in Uids : ~Cached(u)'
        /\ \A t \in Syncers \ {s} : LocalsKept(t)
    BY <1>t DEF ClearFolderMessages, Goto, LocalsKept, Cached
  <1>2. ~world.loop
    BY DEF ClearFolderMessages, SyncInv, Together, Syncers
  <1>3. RowsMatchAnchor' /\ NoGap' /\ Growing
    BY <1>1, <1>2 DEF RowsMatchAnchor, NoGap, CachedNow, Growing
  <1>4. AsRead'
    BY <1>1, <1>2 DEF AsRead
  <1>5. SyncerOK(s)'
    BY <1>1 DEF ClearFolderMessages, SyncInv, SyncerOK, Anchored, Anchoring, Fetching, Storing, Synced
  <1> QED BY <1>1, <1>2, <1>3, <1>4, <1>5, SyncerMoves DEF ClearFolderMessages, SyncPlaces

LEMMA SetStateSync ==
    ASSUME BothStates, SyncInv, NEW s \in Syncers, s = Idle \/ world.loop, SetFolderSyncState(s)
    PROVE  SyncInv'
  <1>t. pc \in [Syncers -> Places]
    BY DEF BothStates, TypeOK, SyncTypeOK
  <1>1. /\ pc'[s] = "highest" /\ UNCHANGED <<conn, cache>> /\ folder'.val = sel[s].val
        /\ \A t \in Syncers \ {s} : LocalsKept(t)
    BY <1>t DEF SetFolderSyncState, Goto, LocalsKept
  <1>2. conn[s] # 0 /\ sel[s].val = conn[s] /\ \A u \in Uids : Cached(u) => cache[u].gen = conn[s]
    BY DEF SetFolderSyncState, SyncInv, SyncerOK, Anchoring
  <1>3. RowsMatchAnchor' /\ Growing
    BY <1>1, <1>2 DEF RowsMatchAnchor, Growing, Cached
  <1>4. NoGap'
    BY <1>1 DEF BothStates, SyncInv, NoGap, CachedNow, Cached, OnServer, srvVars
  <1>5. s = Idle => AsRead'
    BY <1>1 DEF AsRead
  <1>6. SyncerOK(s)'
    BY <1>1, <1>2 DEF SyncerOK, Anchored, Anchoring, Fetching, Storing
  <1> QED BY <1>1, <1>3, <1>4, <1>5, <1>6, SyncerMoves DEF SetFolderSyncState, SyncPlaces

\* The rows there are, are of the generation a synced connection has selected.
LEMMA SyncedRows ==
    ASSUME SyncInv, NEW s \in Syncers, pc[s] \in Synced
    PROVE  /\ conn[s] # 0 /\ folder.val = conn[s]
           /\ \A u \in Uids : Cached(u) => cache[u].gen = conn[s]
           /\ Fresh(s) => \A u \in Uids : Cached(u) <=> CachedNow(u)
  BY DEF SyncInv, SyncerOK, Anchored, RowsMatchAnchor, Fresh, CachedNow

LEMMA HighestSync ==
    ASSUME BothStates, SyncInv, NEW s \in Syncers, s = Idle \/ world.loop, HighestUID(s)
    PROVE  SyncInv'
  <1>t. pc \in [Syncers -> Places] /\ high \in [Syncers -> Nat] /\ sel \in [Syncers -> Selected]
    BY DEF BothStates, TypeOK, SyncTypeOK
  <1>0. PICK h \in 0..MaxUid : IsHighest(h) /\ high' = [high EXCEPT ![s] = h]
    BY DEF HighestUID
  <1>1. /\ pc'[s] = (IF sel[s].any = "yes" THEN "fetch" ELSE Rest(s)) /\ UNCHANGED <<conn, todo, snap>>
        /\ high'[s] = h /\ \A t \in Syncers \ {s} : LocalsKept(t)
    BY <1>t, <1>0 DEF HighestUID, Goto, LocalsKept
  <1>2. RowsMatchAnchor' /\ NoGap' /\ Growing
    BY TablesKept DEF HighestUID
  <1>3. pc'[s] \in {"fetch", "idle", "off"}
    BY <1>1 DEF Rest
  <1>4. s = Idle => AsRead'
    BY <1>3 DEF AsRead
  <1>5. /\ conn[s] # 0 /\ folder.val = conn[s]
        /\ Fresh(s) => \A u \in Uids : Cached(u) <=> CachedNow(u)
    BY SyncedRows DEF HighestUID, Synced
  <1>6. Fresh(s) => h < uidNext /\ \A u \in Uids : OnServer(u) /\ u <= h => CachedNow(u)
    <2> SUFFICES ASSUME Fresh(s) PROVE h < uidNext /\ \A u \in Uids : OnServer(u) /\ u <= h => CachedNow(u)
      OBVIOUS
    <2>1. uidNext \in Nat /\ uidNext # 0 /\ h \in Nat
      BY FolderSyncAssumption DEF BothStates, TypeOK, ServerTypeOK, Numbers, ServerNumbers
    <2>2. CASE h = 0
      BY <2>1, <2>2, UidsNat
    <2>3. CASE h \in Uids /\ Cached(h)
      <3>1. CachedNow(h)
        BY <1>5, <2>3
      <3>2. h < uidNext
        BY <2>3, <3>1 DEF BothStates, Numbers, StoreNumbers, CachedNow
      <3>3. \A u \in Uids : OnServer(u) /\ u < h => CachedNow(u)
        BY <2>3, <3>1 DEF SyncInv, NoGap
      <3> QED BY <2>1, <3>1, <3>2, <3>3, UidsNat
    <2> QED BY <1>0, <2>2, <2>3 DEF IsHighest
  <1>7. SyncerOK(s)'
    <2>1. Fresh(s)' => Fresh(s)
      BY <1>1 DEF BothStates, Fresh, srvVars
    <2>2. \A u \in Uids : (OnServer(u)' <=> OnServer(u)) /\ (CachedNow(u)' <=> CachedNow(u)) /\ uidNext' = uidNext
      BY DEF HighestUID, BothStates, OnServer, CachedNow, Cached, srvVars, dbVars
    <2>3. Fetching(s)'
      BY <1>1, <1>6, <2>1, <2>2 DEF Fetching, BothStates, srvVars
    <2> QED BY <1>1, <1>3, <1>5, <2>3 DEF HighestUID, SyncerOK, Anchored, Anchoring, Storing, Synced, dbVars
  <1> QED BY <1>1, <1>2, <1>3, <1>4, <1>7, SyncerMoves DEF HighestUID, SyncPlaces

LEMMA FetchSync ==
    ASSUME BothStates, SyncInv, NEW s \in Syncers, s = Idle \/ world.loop, FetchEnvelopes(s)
    PROVE  SyncInv'
  <1>t. pc \in [Syncers -> Places] /\ high \in [Syncers -> Nat] /\ todo \in [Syncers -> SUBSET Buffer]
    BY DEF BothStates, TypeOK, SyncTypeOK
  <1> DEFINE S == {v \in Uids : OnServer(v) /\ v > high[s]}
             B == {[uid |-> u, gen |-> srvVal, flags |-> box[u]] : u \in S}
  <1>0. todo' = [todo EXCEPT ![s] = B]
    BY DEF FetchEnvelopes
  <1>a. /\ \A b \in B : b.gen = srvVal
        /\ \A u \in S : \E c \in B : c.uid = u
    <2>1. \A b \in B : b.gen = srvVal
      OBVIOUS
    <2>2. ASSUME NEW u \in S PROVE \E c \in B : c.uid = u
      <3>1. [uid |-> u, gen |-> srvVal, flags |-> box[u]] \in B
        OBVIOUS
      <3> QED BY <3>1
    <2> QED BY <2>1, <2>2
  <1>b. \A u \in Uids : OnServer(u) /\ ~(u <= high[s]) => u \in S
    BY <1>t, UidsNat
  <1> HIDE DEF S, B
  <1>1. /\ pc'[s] = "store" /\ UNCHANGED <<conn, snap>> /\ todo'[s] = B
        /\ \A t \in Syncers \ {s} : LocalsKept(t)
    BY <1>t, <1>0 DEF FetchEnvelopes, Goto, LocalsKept
  <1>2. RowsMatchAnchor' /\ NoGap' /\ Growing
    BY TablesKept DEF FetchEnvelopes
  <1>3. s = Idle => AsRead'
    BY <1>1 DEF AsRead
  <1>4. conn[s] # 0 /\ folder.val = conn[s] /\ conn[s] = srvVal
    BY SyncedRows DEF FetchEnvelopes, Synced, Fresh
  <1>5. \A u \in Uids : OnServer(u) => CachedNow(u) \/ \E c \in B : c.uid = u
    BY <1>a, <1>b DEF SyncInv, SyncerOK, Fetching, FetchEnvelopes
  <1>6. SyncerOK(s)'
    <2>1. \A u \in Uids : (OnServer(u)' <=> OnServer(u)) /\ (CachedNow(u)' <=> CachedNow(u))
      BY DEF FetchEnvelopes, OnServer, CachedNow, Cached, srvVars, dbVars
    <2>2. Storing(s)'
      BY <1>a, <1>1, <1>4, <1>5, <2>1 DEF Storing
    <2> QED BY <1>1, <1>4, <2>2 DEF FetchEnvelopes, SyncerOK, Anchored, Anchoring, Fetching, dbVars
  <1> QED BY <1>1, <1>2, <1>3, <1>6, SyncerMoves DEF FetchEnvelopes, SyncPlaces

\* What an upsert does, row by row.
LEMMA UpsertRows ==
    ASSUME TypeOK, NEW b \in Buffer, UpsertMessage(b)
    PROVE  /\ \A u \in Uids : u # b.uid => cache'[u] = cache[u]
           /\ Cached(b.uid)' /\ cache'[b.uid].flags = b.flags
           /\ cache'[b.uid].gen = IF Cached(b.uid) THEN cache[b.uid].gen ELSE b.gen
  <1>1. b.uid \in Uids /\ b.gen \in Nat /\ b.flags \in Nat /\ cache \in [Uids -> Row \cup {None}]
    BY DEF Buffer, TypeOK, StoreTypeOK
  <1>2. cache' \in [Uids -> Row \cup {None}] /\ \A u \in Uids : u # b.uid => cache'[u] = cache[u]
    BY <1>1, UpsertType DEF UpsertMessage, TypeOK
  <1>3. cache'[b.uid] = IF Cached(b.uid) THEN [gen |-> cache[b.uid].gen, flags |-> b.flags]
                        ELSE [gen |-> b.gen, flags |-> b.flags]
    BY <1>1 DEF UpsertMessage
  <1>4. Cached(b.uid) => cache[b.uid].gen \in Nat
    BY <1>1 DEF Cached, Row
  <1>5. cache'[b.uid] \in Row
    BY <1>1, <1>3, <1>4 DEF Row
  <1> QED BY <1>2, <1>3, <1>5, RowAssumption DEF Cached

LEMMA StoreSync ==
    ASSUME BothStates, SyncInv, NEW s \in Syncers, s = Idle \/ world.loop, StoreMessage(s)
    PROVE  SyncInv'
  <1>t. todo \in [Syncers -> SUBSET Buffer]
    BY DEF BothStates, TypeOK, SyncTypeOK
  <1>0. PICK b \in todo[s] : First(s, b) /\ UpsertMessage(b) /\ todo' = [todo EXCEPT ![s] = @ \ {b}]
    BY DEF StoreMessage
  <1>b. b \in Buffer /\ b.uid \in Uids /\ b.uid \in Nat
    BY <1>t, UidsNat DEF Buffer
  <1>1. /\ pc' = pc /\ pc[s] = "store" /\ UNCHANGED <<conn, snap, folder>> /\ todo'[s] = todo[s] \ {b}
        /\ \A t \in Syncers \ {s} : LocalsKept(t)
    BY <1>t, <1>0 DEF StoreMessage, LocalsKept
  <1>2. /\ \A u \in Uids : u # b.uid => cache'[u] = cache[u]
        /\ Cached(b.uid)' /\ cache'[b.uid].gen = IF Cached(b.uid) THEN cache[b.uid].gen ELSE b.gen
    BY <1>0, <1>b, UpsertRows DEF BothStates
  <1>3. conn[s] # 0 /\ folder.val = conn[s] /\ \A u \in Uids : Cached(u) => cache[u].gen = conn[s]
    BY <1>1, SyncedRows DEF Synced
  <1>4. Storing(s)
    BY DEF SyncInv, SyncerOK
  <1>5. cache'[b.uid].gen = conn[s] /\ b.gen = conn[s]
    BY <1>1, <1>2, <1>3, <1>4, <1>b DEF Storing
  <1>6. \A u \in Uids : (Cached(u) => Cached(u)') /\ (CachedNow(u) => CachedNow(u)')
    BY <1>2, <1>3, <1>5, <1>b DEF CachedNow, Cached, StoreMessage, srvVars
  <1>7. RowsMatchAnchor'
    BY <1>1, <1>2, <1>3, <1>5 DEF RowsMatchAnchor, Cached
  <1>8. \A c \in todo[s] : b.uid <= c.uid /\ c.uid \in Nat
    BY <1>0, <1>t, UidsNat DEF First, Buffer
  <1>9. NoGap'
    <2> SUFFICES ASSUME NEW u \in Uids, NEW v \in Uids, u < v, OnServer(u)', CachedNow(v)' PROVE CachedNow(u)'
      BY DEF NoGap
    <2>1. OnServer(u) /\ srvVal' = srvVal
      BY DEF StoreMessage, OnServer, srvVars
    <2>2. CASE v = b.uid
      <3>1. b.gen = srvVal
        BY <1>5, <2>1, <2>2 DEF CachedNow
      <3>2. CachedNow(u) \/ \E c \in todo[s] : c.uid = u
        BY <1>1, <1>4, <2>1, <2>2, <3>1 DEF Storing
      <3> QED BY <1>6, <1>8, <1>b, <2>2, <3>2, UidsNat
    <2>3. CASE v # b.uid
      <3>1. CachedNow(v)
        BY <1>2, <2>1, <2>3 DEF CachedNow, Cached
      <3> QED BY <1>6, <2>1, <3>1 DEF SyncInv, NoGap
    <2> QED BY <2>2, <2>3
  <1>10. Storing(s)'
    <2> SUFFICES ASSUME NEW d \in todo[s], d # b
                 PROVE  /\ d.gen = conn[s]
                        /\ d.gen = srvVal => \A u \in Uids : u < d.uid /\ OnServer(u) =>
                               CachedNow(u)' \/ \E c \in todo[s] \ {b} : c.uid = u
      BY <1>1 DEF Storing, StoreMessage, OnServer, srvVars
    <2>1. d.gen = conn[s]
      BY <1>1, <1>4 DEF Storing
    <2>2. d.gen = srvVal => CachedNow(b.uid)'
      BY <1>2, <1>5, <2>1 DEF CachedNow, StoreMessage, srvVars
    <2> QED BY <1>1, <1>4, <1>6, <2>1, <2>2 DEF Storing
  <1>11. SyncerOK(s)'
    BY <1>1, <1>3, <1>10 DEF SyncerOK, Anchored, Anchoring, Fetching
  <1>12. Growing /\ (s = Idle => AsRead')
    BY <1>1, <1>6 DEF Growing, AsRead
  <1> QED BY <1>1, <1>7, <1>9, <1>11, <1>12, SyncerMoves DEF StoreMessage, SyncPlaces

LEMMA ReturnsSync ==
    ASSUME BothStates, SyncInv, NEW s \in Syncers, s = Idle \/ world.loop, SyncReturns(s)
    PROVE  SyncInv'
  <1>t. pc \in [Syncers -> Places] /\ snap \in [Syncers -> Anchors]
    BY DEF BothStates, TypeOK, SyncTypeOK
  <1>1. /\ pc'[s] \in {"idle", "off"} /\ UNCHANGED <<conn, folder>>
        /\ \A t \in Syncers \ {s} : LocalsKept(t)
    BY <1>t DEF SyncReturns, Goto, LocalsKept, Rest, dbVars
  <1>2. RowsMatchAnchor' /\ NoGap' /\ Growing
    BY TablesKept DEF SyncReturns
  <1>3. s = Idle => AsRead'
    BY <1>1 DEF AsRead
  <1>4. conn[s] # 0 /\ folder.val = conn[s]
    BY SyncedRows DEF SyncReturns, Synced
  <1>5. SyncerOK(s)'
    BY <1>1, <1>4 DEF SyncerOK, Anchored, Anchoring, Fetching, Storing
  <1> QED BY <1>1, <1>2, <1>3, <1>5, SyncerMoves DEF SyncReturns, SyncPlaces

LEMMA SyncStepSync ==
    ASSUME BothStates, SyncInv, NEW s \in Syncers, s = Idle \/ world.loop, SyncStep(s)
    PROVE  SyncInv'
  BY ReadFolderSync, SelectFolderSync, ClearSync, SetStateSync, HighestSync, FetchSync, StoreSync, ReturnsSync
     DEF SyncStep

-----------------------------------------------------------------------------
\* What a step of the IDLE goroutine leaves of the loop.
LEMMA TailPending ==
    ASSUME TypeOK, notify # <<>>, notify' = Tail(notify), NEW k, Pending(k)'
    PROVE  Pending(k)
  <1>1. notify \in Seq(Kinds)
    BY DEF TypeOK, IdleTypeOK
  <1>2. /\ Len(Tail(notify)) = Len(notify) - 1 /\ Len(notify) \in Nat
        /\ \A i \in 1..Len(Tail(notify)) : Tail(notify)[i] = notify[i + 1]
    BY <1>1
  <1>3. PICK i \in 1..Len(Tail(notify)) : Tail(notify)[i] = k
    BY DEF Pending
  <1>4. i + 1 \in 1..Len(notify) /\ notify[i + 1] = k
    BY <1>2, <1>3
  <1> QED BY <1>4 DEF Pending

LEMMA HeadPending ==
    ASSUME TypeOK, notify # <<>> PROVE Pending(Head(notify))
  <1>1. notify \in Seq(Kinds)
    BY DEF TypeOK, IdleTypeOK
  <1>2. 1 \in 1..Len(notify) /\ Head(notify) = notify[1]
    BY <1>1
  <1> QED BY <1>2 DEF Pending

LEMMA DeltaOK ==
    ASSUME BothStates, SyncInv, pc[Idle] = "idle", DeltaSync, UNCHANGED <<conn, dbVars>>
    PROVE  /\ SyncerOK(Idle)' /\ Refreshing' /\ AsRead' /\ Purging'
           /\ pc'[Idle] = "anchor"
  <1>t. pc \in [Syncers -> Places] /\ sel \in [Syncers -> Selected]
    BY DEF BothStates, TypeOK, SyncTypeOK
  <1>1. pc'[Idle] = "anchor" /\ sel'[Idle].val = folder.val
    BY <1>t, SyncersTwo DEF DeltaSync, Goto
  <1>2. conn[Idle] # 0 /\ folder.val = conn[Idle] /\ \A u \in Uids : Cached(u) => cache[u].gen = conn[Idle]
    BY SyncersTwo, SyncedRows DEF Synced
  <1>3. SyncerOK(Idle)'
    BY <1>1, <1>2 DEF SyncerOK, Anchored, Anchoring, Fetching, Storing, Synced, Cached, dbVars
  <1> QED BY <1>1, <1>3 DEF Refreshing, AsRead, Purging

LEMMA NotificationSync ==
    ASSUME BothStates, SyncInv, HandleNotification PROVE SyncInv'
  <1>t. /\ pc \in [Syncers -> Places] /\ sel \in [Syncers -> Selected] /\ snap \in [Syncers -> Anchors]
        /\ Idle \in Syncers /\ Loop \in Syncers /\ Loop # Idle
    BY SyncersTwo DEF BothStates, TypeOK, SyncTypeOK
  <1>1. LocalsKept(Loop)
    BY <1>t DEF HandleNotification, DeltaSync, RefreshFlags, Goto, LocalsKept
  <1>2. RowsMatchAnchor' /\ NoGap' /\ Growing
    BY TablesKept DEF HandleNotification
  <1>3. world.loop => ~Pending("expunge") /\ ~Pending("expunge")'
    BY TailPending DEF BothStates, HandleNotification, SyncInv, Together
  <1>4. conn[Idle] # 0 /\ folder.val = conn[Idle]
    BY SyncersTwo, SyncedRows DEF HandleNotification, Synced
  <1>5. CASE DeltaSync
    <2>1. /\ SyncerOK(Idle)' /\ Refreshing' /\ AsRead' /\ Purging' /\ pc'[Idle] = "anchor"
      BY <1>5, DeltaOK DEF HandleNotification
    <2> QED BY <1>1, <1>2, <1>3, <2>1, IdleMoves
  <1>6. CASE Head(notify) = "expunge" /\ Goto(Idle, "inventory") /\ UNCHANGED <<snap, sel>>
    <2>1. ~world.loop
      BY <1>3, <1>6, HeadPending DEF BothStates, HandleNotification
    <2>2. pc'[Idle] = "inventory"
      BY <1>6, <1>t DEF Goto
    <2>3. SyncerOK(Idle)'
      BY <1>4, <2>2 DEF HandleNotification, SyncerOK, Anchored, Anchoring, Fetching, Storing, dbVars
    <2>4. Refreshing' /\ AsRead' /\ Purging'
      BY <2>2 DEF Refreshing, AsRead, Purging
    <2> QED BY <1>1, <1>2, <2>1, <2>3, <2>4, IdleMoves
  <1>7. CASE RefreshFlags
    <2>1. pc'[Idle] = "cached" /\ snap'[Idle] = folder /\ folder' = folder
      BY <1>7, <1>t DEF RefreshFlags, Goto, HandleNotification, dbVars
    <2>2. SyncerOK(Idle)'
      BY <1>4, <2>1 DEF HandleNotification, SyncerOK, Anchored, Anchoring, Fetching, Storing
    <2>3. Refreshing' /\ AsRead' /\ Purging'
      BY <2>1 DEF Refreshing, AsRead, Purging
    <2> QED BY <1>1, <1>2, <1>3, <2>1, <2>2, <2>3, IdleMoves
  <1> QED BY <1>5, <1>6, <1>7 DEF HandleNotification

LEMMA PollSync ==
    ASSUME BothStates, SyncInv, PollTick PROVE SyncInv'
  <1>1. LocalsKept(Loop)
    BY SyncersTwo DEF PollTick, DeltaSync, Goto, LocalsKept, BothStates, TypeOK, SyncTypeOK
  <1>2. RowsMatchAnchor' /\ NoGap' /\ Growing
    BY TablesKept DEF PollTick
  <1>3. SyncerOK(Idle)' /\ Refreshing' /\ AsRead' /\ Purging' /\ pc'[Idle] = "anchor"
    BY DeltaOK DEF PollTick
  <1>4. mode = "poll"
    BY DEF PollTick
  <1> QED BY <1>1, <1>2, <1>3, <1>4, IdleMoves

LEMMA PurgeStepsSync ==
    ASSUME BothStates, SyncInv, Inventory \/ ListStale \/ DeleteStale PROVE SyncInv'
  <1>t. pc \in [Syncers -> Places] /\ Idle \in Syncers /\ Loop \in Syncers /\ Loop # Idle
    BY SyncersTwo DEF BothStates, TypeOK, SyncTypeOK
  <1>0. pc[Idle] \in {"inventory", "list", "purge"}
    BY DEF Inventory, ListStale, DeleteStale
  <1>1. ~world.loop
    BY <1>0 DEF SyncInv, Together
  <1>2. LocalsKept(Loop) /\ conn' = conn /\ folder' = folder /\ Growing
    BY <1>1, <1>t DEF Inventory, ListStale, DeleteStale, Goto, LocalsKept, dbVars, Growing
  <1>3. /\ conn[Idle] # 0 /\ folder.val = conn[Idle]
        /\ \A u \in Uids : Cached(u) => cache[u].gen = conn[Idle]
        /\ Fresh(Idle) => \A u \in Uids : Cached(u) <=> CachedNow(u)
    BY <1>0, <1>t, SyncedRows DEF Synced
  <1>4. pc'[Idle] \in {"list", "purge", "idle"}
    BY <1>t DEF Inventory, ListStale, DeleteStale, Goto
  <1>5. SyncerOK(Idle)' /\ Refreshing' /\ AsRead'
    BY <1>2, <1>3, <1>4 DEF SyncerOK, Anchored, Anchoring, Fetching, Storing, Refreshing, AsRead
  <1>6. CASE Inventory
    <2>1. pc'[Idle] = "list" /\ uids' = {u \in Uids : OnServer(u)} /\ \A u \in Uids : OnServer(u)' => OnServer(u)
      BY <1>6, <1>t DEF Inventory, Goto, OnServer, srvVars
    <2>2. Purging'
      BY <2>1 DEF Purging
    <2>3. RowsMatchAnchor' /\ NoGap'
      BY <1>6, TablesKept DEF Inventory
    <2> QED BY <1>1, <1>2, <1>5, <2>2, <2>3, IdleMoves
  <1>7. CASE ListStale
    <2>1. pc'[Idle] = "purge" /\ uids' = {u \in Uids : Cached(u) /\ u \notin uids} /\ (Fresh(Idle)' => Fresh(Idle))
          /\ \A u \in Uids : (OnServer(u)' => OnServer(u)) /\ (Cached(u) => Cached(u)')
      BY <1>7, <1>t DEF ListStale, Goto, OnServer, Cached, Fresh, srvVars, dbVars
    <2>2. Fresh(Idle) => \A u \in Uids : Cached(u) /\ OnServer(u) => u \in uids
      BY <1>3, <1>7 DEF ListStale, SyncInv, Purging
    <2>3. Purging'
      BY <2>1, <2>2 DEF Purging
    <2>4. RowsMatchAnchor' /\ NoGap'
      BY <1>7, TablesKept DEF ListStale
    <2> QED BY <1>1, <1>2, <1>5, <2>3, <2>4, IdleMoves
  <1>8. CASE DeleteStale
    <2>1. pc'[Idle] = "idle" /\ cache' = [u \in Uids |-> IF u \in uids THEN None ELSE cache[u]] /\ srvVal' = srvVal
          /\ \A u \in Uids : (OnServer(u)' => OnServer(u))
      BY <1>8, <1>t DEF DeleteStale, Goto, OnServer, srvVars
    <2>2. Purging'
      BY <2>1 DEF Purging
    <2>3. RowsMatchAnchor'
      BY <1>2, <2>1 DEF SyncInv, RowsMatchAnchor, Cached
    <2>4. \A u \in Uids : CachedNow(u)' => CachedNow(u) /\ Fresh(Idle)
      BY <1>3, <2>1 DEF CachedNow, Cached, Fresh
    <2>5. Fresh(Idle) => \A u \in uids : ~OnServer(u)
      BY <1>8 DEF DeleteStale, SyncInv, Purging
    <2>6. NoGap'
      <3> SUFFICES ASSUME NEW u \in Uids, NEW v \in Uids, u < v, OnServer(u)', CachedNow(v)' PROVE CachedNow(u)'
        BY DEF NoGap
      <3>1. CachedNow(u) /\ u \notin uids
        BY <2>1, <2>4, <2>5 DEF SyncInv, NoGap
      <3> QED BY <2>1, <3>1 DEF CachedNow, Cached
    <2> QED BY <1>1, <1>2, <1>5, <2>2, <2>3, <2>6, IdleMoves
  <1> QED BY <1>6, <1>7, <1>8

LEMMA RefreshStepsSync ==
    ASSUME BothStates, SyncInv, FolderFlags \/ FetchFlags \/ UpdateMessageFlags \/ RefreshReturns PROVE SyncInv'
  <1>t. /\ pc \in [Syncers -> Places] /\ sel \in [Syncers -> Selected] /\ snap \in [Syncers -> Anchors]
        /\ todo \in [Syncers -> SUBSET Buffer] /\ Idle \in Syncers /\ Loop \in Syncers /\ Loop # Idle
    BY SyncersTwo DEF BothStates, TypeOK, SyncTypeOK
  <1>0. pc[Idle] \in {"cached", "flags", "apply"}
    BY DEF FolderFlags, FetchFlags, UpdateMessageFlags, RefreshReturns
  <1>1. LocalsKept(Loop)
    BY <1>t DEF FolderFlags, FetchFlags, UpdateMessageFlags, RefreshReturns, Goto, LocalsKept
  <1>2. pc'[Idle] \in {"flags", "apply", "idle"} /\ conn' = conn /\ notify' = notify
    BY <1>t DEF FolderFlags, FetchFlags, UpdateMessageFlags, RefreshReturns, Goto, idleVars
  <1>3. /\ conn[Idle] # 0 /\ folder.val = conn[Idle]
        /\ snap[Idle].val = folder.val /\ (pc[Idle] = "apply" => sel[Idle].val = folder.val)
    BY <1>0, <1>t, SyncedRows DEF Synced, SyncInv, Refreshing
  <1>4. folder'.val = folder.val
    BY <1>3 DEF FolderFlags, FetchFlags, UpdateMessageFlags, RefreshReturns, dbVars
  <1>5. SyncerOK(Idle)' /\ AsRead' /\ Purging'
    BY <1>2, <1>3, <1>4 DEF SyncerOK, Anchored, Anchoring, Fetching, Storing, AsRead, Purging
  <1>6. Refreshing'
    <2>1. CASE FolderFlags
      BY <1>0, <1>3, <1>4, <1>t, <2>1 DEF FolderFlags, Refreshing, Goto
    <2>2. CASE FetchFlags
      <3>1. sel'[Idle].val = snap[Idle].val /\ snap' = snap
        BY <1>t, <2>2 DEF FetchFlags
      <3> QED BY <1>3, <1>4, <3>1 DEF Refreshing
    <2>3. CASE UpdateMessageFlags
      BY <1>3, <1>4, <2>3 DEF UpdateMessageFlags, Refreshing
    <2>4. CASE RefreshReturns
      BY <1>t, <2>4 DEF RefreshReturns, Refreshing, Goto
    <2> QED BY <2>1, <2>2, <2>3, <2>4
  <1>7. \A u \in Uids : /\ Cached(u)' <=> Cached(u)
                        /\ Cached(u) => cache'[u].gen = cache[u].gen
    <2>1. CASE UpdateMessageFlags
      <3>1. PICK b \in todo[Idle] :
               cache' = IF Cached(b.uid)
                        THEN [cache EXCEPT ![b.uid] = [gen |-> cache[b.uid].gen, flags |-> b.flags]]
                        ELSE cache
        BY <2>1 DEF UpdateMessageFlags
      <3>2. CASE ~Cached(b.uid)
        BY <3>1, <3>2 DEF Cached
      <3>3. CASE Cached(b.uid)
        <4>1. UpsertMessage(b) /\ b \in Buffer /\ b.uid \in Uids
          BY <1>t, <3>1, <3>3 DEF UpsertMessage, Buffer
        <4>2. /\ \A u \in Uids : u # b.uid => cache'[u] = cache[u]
              /\ Cached(b.uid)' /\ cache'[b.uid].gen = cache[b.uid].gen
          BY <3>3, <4>1, UpsertRows DEF BothStates
        <4> QED BY <3>3, <4>2 DEF Cached
      <3> QED BY <3>2, <3>3
    <2>2. CASE cache' = cache
      BY <2>2 DEF Cached
    <2> QED BY <2>1, <2>2 DEF FolderFlags, FetchFlags, RefreshReturns, dbVars
  <1>8. RowsMatchAnchor' /\ Growing
    BY <1>4, <1>7 DEF SyncInv, RowsMatchAnchor, Growing
  <1>9. NoGap'
    BY <1>7 DEF BothStates, SyncInv, NoGap, CachedNow, OnServer, srvVars
  <1>10. world.loop => mode = "poll" \/ ~Pending("expunge")'
    BY <1>2 DEF SyncInv, Together, Pending
  <1> QED BY <1>1, <1>2, <1>5, <1>6, <1>8, <1>9, <1>10, IdleMoves

LEMMA SessionEndsSync ==
    ASSUME BothStates, SyncInv, SessionEnds PROVE SyncInv'
  <1>t. /\ pc \in [Syncers -> Places] /\ sel \in [Syncers -> Selected] /\ snap \in [Syncers -> Anchors]
        /\ todo \in [Syncers -> SUBSET Buffer] /\ conn \in [Syncers -> Nat] /\ high \in [Syncers -> Nat]
    BY DEF BothStates, TypeOK, SyncTypeOK
  <1>1. pc'[Idle] = "off" /\ LocalsKept(Loop)
    BY <1>t, SyncersTwo DEF SessionEnds, Unwind, Goto, LocalsKept
  <1>2. RowsMatchAnchor' /\ NoGap' /\ Growing
    BY TablesKept DEF SessionEnds
  <1>3. SyncerOK(Idle)' /\ Refreshing' /\ AsRead' /\ Purging' /\ ~Pending("expunge")'
    BY <1>1, OffOK DEF Refreshing, AsRead, Purging, SessionEnds, Pending
  <1> QED BY <1>1, <1>2, <1>3, IdleMoves

LEMMA IdleStepSync == ASSUME BothStates, SyncInv, IdleStep PROVE SyncInv'
  BY NotificationSync, PollSync, PurgeStepsSync, RefreshStepsSync, SessionEndsSync DEF IdleStep

LEMMA LoopStepSync ==
    ASSUME BothStates, SyncInv, world.loop, LoopStep PROVE SyncInv'
  <1>t. /\ pc \in [Syncers -> Places] /\ sel \in [Syncers -> Selected] /\ snap \in [Syncers -> Anchors]
        /\ todo \in [Syncers -> SUBSET Buffer] /\ conn \in [Syncers -> Nat] /\ high \in [Syncers -> Nat]
        /\ Loop \in Syncers /\ Idle \in Syncers /\ Idle # Loop
    BY SyncersTwo DEF BothStates, TypeOK, SyncTypeOK
  <1>k. UNCHANGED <<srvVars, dbVars>> => RowsMatchAnchor' /\ NoGap' /\ Growing
    BY TablesKept
  <1>1. ASSUME NEW u \in Uids, ExecRefetch(u) PROVE SyncInv'
    <2>1. pc'[Loop] = "refetch" /\ LocalsKept(Idle) /\ (\A b \in todo'[Loop] : b.uid = u) /\ UNCHANGED cache
      BY <1>1, <1>t DEF ExecRefetch, Goto, LocalsKept, dbVars
    <2>2. \A b \in todo'[Loop] : Cached(b.uid)'
      BY <1>1, <2>1 DEF ExecRefetch, Cached
    <2>3. SyncerOK(Loop)'
      BY <2>1, OffOK
    <2> QED BY <1>1, <1>k, <2>1, <2>2, <2>3, LoopMoves DEF ExecRefetch
  <1>2. CASE FetchBody
    <2>1. pc'[Loop] \in {"upsert", "off"} /\ LocalsKept(Idle) /\ UNCHANGED cache
          /\ (pc'[Loop] = "upsert" => todo' = todo)
      BY <1>2, <1>t DEF FetchBody, Goto, LocalsKept, dbVars
    <2>2. pc'[Loop] = "upsert" => \A b \in todo'[Loop] : Cached(b.uid)'
      BY <1>2, <2>1 DEF FetchBody, SyncInv, Together, Cached
    <2>3. SyncerOK(Loop)'
      BY <2>1, OffOK
    <2> QED BY <1>2, <1>k, <2>1, <2>2, <2>3, LoopMoves DEF FetchBody
  <1>3. CASE RefetchReturns
    <2>1. PICK b \in todo[Loop] : UpsertMessage(b)
      BY <1>3 DEF RefetchReturns
    <2>2. b \in Buffer /\ b.uid \in Uids /\ Cached(b.uid)
      BY <1>3, <1>t, <2>1 DEF Buffer, RefetchReturns, SyncInv, Together
    <2>3. \A u \in Uids : /\ Cached(u)' <=> Cached(u)
                          /\ Cached(u) => cache'[u].gen = cache[u].gen
      BY <2>1, <2>2, UpsertRows DEF BothStates, Cached
    <2>4. pc'[Loop] = "off" /\ LocalsKept(Idle) /\ folder' = folder
      BY <1>3, <1>t DEF RefetchReturns, Goto, LocalsKept
    <2>5. RowsMatchAnchor' /\ Growing
      BY <2>3, <2>4 DEF SyncInv, RowsMatchAnchor, Growing
    <2>6. NoGap'
      BY <2>3 DEF BothStates, SyncInv, NoGap, CachedNow, OnServer, srvVars
    <2>7. SyncerOK(Loop)'
      BY <2>4, OffOK
    <2> QED BY <1>3, <2>4, <2>5, <2>6, <2>7, LoopMoves DEF RefetchReturns
  <1>4. CASE CommandFails \/ CommandRetries
    <2>1. pc'[Loop] \in {"off", "select"} /\ LocalsKept(Idle)
      BY <1>4, <1>t DEF CommandFails, CommandRetries, Unwind, Goto, LocalsKept
    <2>2. SyncerOK(Loop)'
      BY <2>1, OffOK
    <2> QED BY <1>4, <1>k, <2>1, <2>2, LoopMoves DEF CommandFails, CommandRetries
  <1> QED BY <1>1, <1>2, <1>3, <1>4 DEF LoopStep

LEMMA CrashSync == ASSUME BothStates, SyncInv, CrashRestart PROVE SyncInv'
  <1>1. pc'[Idle] = "off" /\ pc'[Loop] = "off" /\ ~Pending("expunge")'
    BY SyncersTwo DEF CrashRestart, Pending
  <1>2. \A s \in Syncers : SyncerOK(s)'
    BY OffOK DEF CrashRestart
  <1>3. RowsMatchAnchor' /\ NoGap'
    BY TablesKept DEF CrashRestart
  <1>4. Refreshing' /\ AsRead' /\ Purging' /\ Together'
    BY <1>1 DEF Refreshing, AsRead, Purging, Together
  <1> QED BY <1>2, <1>3, <1>4 DEF SyncInv

-----------------------------------------------------------------------------
LEMMA InitApart == Init => ApartInv
  <1> SUFFICES ASSUME Init PROVE SyncInv
    BY DEF ApartInv
  <1>1. pc[Idle] = "off" /\ pc[Loop] = "off" /\ ~Pending("expunge") /\ \A u \in Uids : ~Cached(u)
    BY SyncersTwo DEF Init, Pending, Cached
  <1>2. \A s \in Syncers : SyncerOK(s)
    BY DEF Init, SyncerOK, Anchored, Anchoring, Fetching, Storing, Synced
  <1>3. Refreshing /\ AsRead /\ Purging /\ Together
    BY <1>1 DEF Refreshing, AsRead, Purging, Together
  <1>4. RowsMatchAnchor /\ NoGap
    BY <1>1 DEF RowsMatchAnchor, NoGap, CachedNow
  <1> QED BY <1>2, <1>3, <1>4 DEF SyncInv

\* A client changes nothing on the server.
LEMMA ServerLeftAlone ==
    ASSUME NEW s \in Syncers, SyncStep(s) \/ IdleStep \/ LoopStep \/ CrashRestart PROVE UNCHANGED srvVars
  <1>1. SyncStep(s) => UNCHANGED srvVars
    BY DEF SyncStep, ReadFolder, SelectFolder, ClearFolderMessages, SetFolderSyncState, HighestUID,
           FetchEnvelopes, StoreMessage, SyncReturns
  <1>2. IdleStep => UNCHANGED srvVars
    BY DEF IdleStep, HandleNotification, PollTick, Inventory, ListStale, DeleteStale, FolderFlags,
           FetchFlags, UpdateMessageFlags, RefreshReturns, SessionEnds
  <1>3. LoopStep \/ CrashRestart => UNCHANGED srvVars
    BY DEF LoopStep, ExecRefetch, FetchBody, RefetchReturns, CommandFails, CommandRetries, CrashRestart
  <1> QED BY <1>1, <1>2, <1>3

\* What others may do is settled at the start.
LEMMA WorldKept == [Next]_vars => UNCHANGED <<world, mode>>
  <1>1. ServerStep => UNCHANGED <<world, mode>>
    BY DEF ServerStep, Deliver, Recreate, Expunge, ChangeFlags
  <1> QED BY <1>1, ServerLeftAlone, SyncersTwo DEF Next, vars, srvVars

LEMMA NextApart ==
    TypeOK /\ Numbers /\ TypeOK' /\ Numbers' /\ ApartInv /\ [Next]_vars => ApartInv'
  <1> SUFFICES ASSUME TypeOK, Numbers, TypeOK', Numbers', ApartInv, [Next]_vars, Apart'
               PROVE  SyncInv'
    BY DEF ApartInv
  <1>1. Apart /\ SyncInv
    BY WorldKept DEF ApartInv, Apart
  <1>2. CASE UNCHANGED vars
    <2>1. \A s \in Syncers : SyncerOK(s)'
      BY <1>1, <1>2 DEF vars, srvVars, dbVars, syncVars, SyncInv, SyncerOK, Anchored, Anchoring, Fetching,
                        Storing, Fresh, CachedNow, Cached, OnServer
    <2>2. RowsMatchAnchor' /\ NoGap'
      BY <1>1, <1>2, TablesKept DEF vars
    <2>3. Refreshing' /\ AsRead' /\ Purging' /\ Together'
      BY <1>1, <1>2 DEF vars, srvVars, dbVars, syncVars, idleVars, SyncInv, Refreshing, AsRead, Purging,
                        Together, Fresh, CachedNow, Cached, OnServer, Pending
    <2> QED BY <2>1, <2>2, <2>3 DEF SyncInv
  <1>3. CASE ServerStep
    BY <1>1, <1>3, ServerStepSync
  <1>4. CASE SyncStep(Idle)
    BY <1>1, <1>4, SyncersTwo, ServerLeftAlone, SyncStepSync DEF BothStates
  <1>5. CASE IdleStep
    BY <1>1, <1>5, SyncersTwo, ServerLeftAlone, IdleStepSync DEF BothStates
  <1>6. CASE world.loop /\ SyncStep(Loop)
    BY <1>1, <1>6, SyncersTwo, ServerLeftAlone, SyncStepSync DEF BothStates
  <1>7. CASE world.loop /\ LoopStep
    BY <1>1, <1>7, SyncersTwo, ServerLeftAlone, LoopStepSync DEF BothStates
  <1>8. CASE CrashRestart
    BY <1>1, <1>8, SyncersTwo, ServerLeftAlone, CrashSync DEF BothStates
  <1> QED BY <1>2, <1>3, <1>4, <1>5, <1>6, <1>7, <1>8 DEF Next

LEMMA ApartAlways == Spec => [](TypeOK /\ Numbers /\ ApartInv)
  BY InitType, InitNumbers, InitApart, NextType, NextNumbers, NextApart, PTL DEF Spec

(***************************************************************************)
(* While the syncers keep apart, HighestUID is a sound anchor: a message   *)
(* on the server below a cached one is cached, whatever is lost, killed,   *)
(* expunged or recreated.                                                  *)
(***************************************************************************)
THEOREM NoGapWhileApart == Spec => [](Apart => NoGap)
  <1>1. ApartInv => (Apart => NoGap)
    BY DEF ApartInv, SyncInv
  <1> QED BY <1>1, ApartAlways, PTL

(***************************************************************************)
(* While the syncers keep apart, the cached rows are those of the          *)
(* generation the folders row names.                                       *)
(***************************************************************************)
THEOREM RowsMatchWhileApart == Spec => [](Apart => RowsMatchAnchor)
  <1>1. ApartInv => (Apart => RowsMatchAnchor)
    BY DEF ApartInv, SyncInv
  <1> QED BY <1>1, ApartAlways, PTL

-----------------------------------------------------------------------------
(* A refresh catches up: with CONDSTORE or without, beside the loop or     *)
(* alone.                                                                  *)

LEMMA ModTypes ==
    ASSUME TypeOK
    PROVE  /\ modSeq \in Nat /\ folder.mod \in Nat /\ box \in [Uids -> Nat]
           /\ \A s \in Syncers : snap[s].mod \in Nat /\ sel[s].mod \in Nat
  BY DEF TypeOK, ServerTypeOK, StoreTypeOK, SyncTypeOK, Anchors, Selected

LEMMA ServerStepMods ==
    ASSUME TypeOK, ModNumbers, ServerStep PROVE ModNumbers' /\ modSeq <= modSeq' /\ modSeq' \in Nat
  <1>1. CASE Deliver
    <2>1. UNCHANGED <<folder, snap, sel>> /\ modSeq' = modSeq + 1 /\ box' = [box EXCEPT ![uidNext] = modSeq + 1]
      BY <1>1 DEF Deliver, dbVars, syncVars
    <2> QED BY <2>1, ModTypes DEF ModNumbers
  <1>2. CASE Recreate
    <2>1. UNCHANGED <<folder, snap, sel>> /\ modSeq' = modSeq + 1 /\ \A u \in Uids : box'[u] \in {modSeq', 0}
      BY <1>2 DEF Recreate, dbVars, syncVars
    <2> QED BY <2>1, ModTypes DEF ModNumbers
  <1>3. ASSUME NEW u \in Uids, Expunge(u) PROVE ModNumbers' /\ modSeq' = modSeq
    <2>1. UNCHANGED <<folder, snap, sel, modSeq>> /\ box' = [box EXCEPT ![u] = 0]
      BY <1>3 DEF Expunge, dbVars, syncVars
    <2> QED BY <2>1, ModTypes DEF ModNumbers
  <1>4. ASSUME NEW u \in Uids, ChangeFlags(u) PROVE ModNumbers' /\ modSeq' = modSeq + 1
    <2>1. UNCHANGED <<folder, snap, sel>> /\ modSeq' = modSeq + 1 /\ box' = [box EXCEPT ![u] = modSeq + 1]
      BY <1>4 DEF ChangeFlags, dbVars, syncVars
    <2> QED BY <2>1, ModTypes DEF ModNumbers
  <1> QED BY <1>1, <1>2, <1>3, <1>4, ModTypes DEF ServerStep

\* A client takes its anchors from the server, from the store or from itself.
LEMMA ClientMods ==
    ASSUME TypeOK, ModNumbers, NEW s \in Syncers, SyncStep(s) \/ IdleStep \/ LoopStep \/ CrashRestart
    PROVE  ModNumbers'
  <1>t. snap \in [Syncers -> Anchors] /\ sel \in [Syncers -> Selected] /\ Idle \in Syncers /\ Loop \in Syncers
    BY SyncersTwo DEF TypeOK, SyncTypeOK
  <1>u. UNCHANGED <<box, modSeq>>
    BY ServerLeftAlone DEF srvVars
  <1>z. 0 <= modSeq /\ NoAnchors.mod = 0 /\ NoSelected.mod = 0
    BY ModTypes DEF NoAnchors, NoSelected
  <1> USE <1>t, <1>u, <1>z, ModTypes DEF ModNumbers
  <1>1. SyncStep(s) => ModNumbers'
    <2>1. ReadFolder(s) \/ ClearFolderMessages(s) \/ FetchEnvelopes(s) \/ StoreMessage(s) \/ SyncReturns(s) => ModNumbers'
      BY DEF ReadFolder, ClearFolderMessages, FetchEnvelopes, StoreMessage, SyncReturns, dbVars
    <2>2. SelectFolder(s) => ModNumbers'
      BY DEF SelectFolder, dbVars
    <2>3. SetFolderSyncState(s) => ModNumbers'
      BY DEF SetFolderSyncState
    <2>4. HighestUID(s) => ModNumbers'
      BY DEF HighestUID, dbVars
    <2> QED BY <2>1, <2>2, <2>3, <2>4 DEF SyncStep
  <1>2. IdleStep => ModNumbers'
    <2>1. HandleNotification \/ PollTick => ModNumbers'
      BY DEF HandleNotification, PollTick, DeltaSync, RefreshFlags, dbVars
    <2>2. Inventory \/ ListStale \/ DeleteStale \/ FolderFlags \/ UpdateMessageFlags => ModNumbers'
      BY DEF Inventory, ListStale, DeleteStale, FolderFlags, UpdateMessageFlags, dbVars
    <2>3. FetchFlags => ModNumbers'
      <3> SUFFICES ASSUME FetchFlags PROVE ModNumbers'
        OBVIOUS
      <3>1. PICK m \in 0..MaxMod :
                 /\ IF ChangedSince THEN NewAnchor(m) ELSE m = snap[Idle].mod
                 /\ sel' = [sel EXCEPT ![Idle] = [val |-> snap[Idle].val, mod |-> m, any |-> "yes"]]
        BY DEF FetchFlags
      <3>2. m <= modSeq
        BY <3>1 DEF NewAnchor, Reported
      <3>3. \A t \in Syncers : sel'[t].mod <= modSeq
        BY <3>1, <3>2
      <3> QED BY <3>3 DEF FetchFlags, dbVars
    <2>4. RefreshReturns => ModNumbers'
      BY DEF RefreshReturns
    <2>5. SessionEnds => ModNumbers'
      BY DEF SessionEnds, Unwind, dbVars
    <2> QED BY <2>1, <2>2, <2>3, <2>4, <2>5 DEF IdleStep
  <1>3. LoopStep => ModNumbers'
    BY DEF LoopStep, ExecRefetch, FetchBody, RefetchReturns, CommandFails, CommandRetries, Unwind, dbVars
  <1>4. CrashRestart => ModNumbers'
    BY DEF CrashRestart, dbVars
  <1> QED BY <1>1, <1>2, <1>3, <1>4

\* An announcement that was neither dropped nor of a flag change.
LEMMA AnnounceCaught ==
    ASSUME TypeOK, NEW k \in Kinds, Announce(k), UNCHANGED <<conn, srvVal>>, Caught'
    PROVE  Caught /\ k # "flags"
  <1>1. notify \in Seq(Kinds) /\ Len(notify) \in Nat
    BY DEF TypeOK, IdleTypeOK
  <1>2. /\ Len(Append(notify, k)) = Len(notify) + 1
        /\ \A i \in 1..Len(notify) : Append(notify, k)[i] = notify[i]
        /\ Append(notify, k)[Len(notify) + 1] = k
    BY <1>1
  <1>3. Fresh(Idle) /\ notify' = Push(k)
    BY DEF Caught, Fresh, Announce
  <1>4. Len(notify) < NotifyCap /\ notify' = Append(notify, k)
    BY <1>3 DEF Caught, Push
  <1>5. k # "flags"
    <2>1. Len(notify) + 1 \in 1..Len(notify')
      BY <1>1, <1>2, <1>4
    <2> QED BY <1>2, <1>4, <2>1 DEF Caught, Pending
  <1>6. ~Pending("flags")
    <2>1. \A i \in 1..Len(notify) : i \in 1..Len(notify') /\ notify'[i] = notify[i]
      BY <1>1, <1>2, <1>4
    <2> QED BY <2>1 DEF Caught, Pending
  <1> QED BY <1>3, <1>4, <1>5, <1>6 DEF Caught

\* Apart from a flag change, a server step puts no row further behind.
LEMMA ServerStepLags ==
    ASSUME TypeOK, Numbers, ModNumbers, ServerStep
    PROVE  /\ \A u \in Uids : Lags(u)' => box'[u] > modSeq \/ (Lags(u) /\ box'[u] = box[u])
           /\ Caught' => /\ Caught /\ srvVal' = srvVal
                         /\ \A u \in Uids : u < uidNext /\ OnServer(u)' => OnServer(u) /\ box'[u] = box[u]
  <1>t. srvVal \in Nat /\ uidNext \in Nat /\ box \in [Uids -> Nat] /\ modSeq \in Nat
    BY DEF TypeOK, ServerTypeOK
  <1>u. UNCHANGED <<cache, conn, skipped>>
    BY DEF ServerStep, Deliver, Recreate, Expunge, ChangeFlags, dbVars, syncVars
  <1>1. CASE Deliver
    <2>1. Caught' => Caught
      BY <1>1, <1>u, AnnounceCaught DEF Deliver, Kinds
    <2>2. \A u \in Uids : box'[u] = IF u = uidNext THEN modSeq + 1 ELSE box[u]
      BY <1>1, <1>t, UidsNat DEF Deliver
    <2>3. srvVal' = srvVal
      BY <1>1 DEF Deliver
    <2>4. \A u \in Uids : u < uidNext => box'[u] = box[u]
      BY <2>2, <1>t, UidsNat
    <2>5. \A u \in Uids : Lags(u)' => box'[u] > modSeq \/ (Lags(u) /\ box'[u] = box[u])
      BY <1>t, <1>u, <2>2, <2>3 DEF Lags, CachedNow, Cached, OnServer
    <2> QED BY <2>1, <2>3, <2>4, <2>5 DEF OnServer
  <1>2. CASE Recreate
    <2>1. ~Caught'
      <3>1. conn[Idle] <= srvVal /\ conn[Idle] \in Nat
        BY SyncersTwo DEF Numbers, SyncNumbers, TypeOK, SyncTypeOK
      <3> QED BY <1>2, <1>t, <1>u, <3>1 DEF Recreate, Caught, Fresh
    <2>2. \A u \in Uids : OnServer(u)' => box'[u] > modSeq
      BY <1>2, <1>t DEF Recreate, OnServer
    <2> QED BY <2>1, <2>2 DEF Lags
  <1>3. ASSUME NEW v \in Uids, Expunge(v)
        PROVE  /\ Caught' => Caught
               /\ srvVal' = srvVal /\ \A u \in Uids : OnServer(u)' => OnServer(u) /\ box'[u] = box[u]
    <2>1. Caught' => Caught
      BY <1>3, <1>u, AnnounceCaught DEF Expunge, Kinds
    <2> QED BY <1>3, <1>t, <2>1 DEF Expunge, OnServer
  <1>4. ASSUME NEW v \in Uids, ChangeFlags(v)
        PROVE  /\ ~Caught' /\ srvVal' = srvVal
               /\ \A u \in Uids : box'[u] = IF u = v THEN modSeq + 1 ELSE box[u]
    <2>1. ~Caught'
      BY <1>4, <1>u, AnnounceCaught DEF ChangeFlags, Kinds
    <2> QED BY <1>4, <1>t, <2>1 DEF ChangeFlags
  <1>5. CASE \E v \in Uids : Expunge(v)
    BY <1>3, <1>5, <1>u DEF Lags, CachedNow, Cached, OnServer
  <1>6. CASE \E v \in Uids : ChangeFlags(v)
    BY <1>4, <1>6, <1>t, <1>u DEF Lags, CachedNow, Cached, OnServer
  <1> QED BY <1>1, <1>2, <1>5, <1>6 DEF ServerStep

LEMMA ServerStepFlags ==
    ASSUME TypeOK, Numbers, FlagsInv, ServerStep PROVE FlagsInv'
  <1>1. UNCHANGED <<folder, cache, pc, conn, snap, todo, known>>
    BY ServerForward DEF Numbers, dbVars, syncVars
  <1>2. ModNumbers' /\ modSeq <= modSeq' /\ modSeq' \in Nat
    BY ServerStepMods DEF FlagsInv
  <1>l. /\ \A u \in Uids : Lags(u)' => box'[u] > modSeq \/ (Lags(u) /\ box'[u] = box[u])
        /\ Caught' => /\ Caught /\ srvVal' = srvVal
                      /\ \A u \in Uids : u < uidNext /\ OnServer(u)' => OnServer(u) /\ box'[u] = box[u]
    BY ServerStepLags DEF FlagsInv
  <1>3. AnchorsBehind'
    <2>2. box' \in [Uids -> Nat]
      BY ServerStepType DEF CoreTypeOK, ServerTypeOK
    <2>3. folder.mod <= modSeq /\ snap[Idle].mod <= modSeq /\ folder.mod \in Nat /\ snap[Idle].mod \in Nat /\ modSeq \in Nat
      BY SyncersTwo, ModTypes DEF FlagsInv, ModNumbers
    <2> QED BY <1>1, <1>l, <2>2, <2>3 DEF AnchorsBehind, FlagsInv
  \* Once nothing is outstanding, the rows that lag are the ones that did.
  <1>4. ASSUME Caught' PROVE \A u \in Uids : Lags(u)' => Lags(u) /\ box'[u] = box[u]
    <2> SUFFICES ASSUME NEW u \in Uids, Lags(u)' PROVE Lags(u) /\ box'[u] = box[u]
      OBVIOUS
    <2>1. u < uidNext
      BY <1>1, <1>l, <1>4 DEF Lags, CachedNow, Cached, Numbers, StoreNumbers
    <2>2. box'[u] = box[u] /\ box[u] <= modSeq
      BY <1>l, <1>4, <2>1 DEF Lags, FlagsInv, ModNumbers
    <2>3. box[u] \in Nat /\ modSeq \in Nat
      BY ModTypes
    <2> QED BY <1>l, <2>2, <2>3
  <1>5. ASSUME pc[Idle] = "apply", Caught'
        PROVE  \A b \in todo[Idle] : OnServer(b.uid)' => b.flags = box'[b.uid]
    <2>1. \A b \in todo[Idle] : b.gen = srvVal
      BY <1>l, <1>5 DEF FlagsInv, Holding, Caught, Fresh
    <2>2. \A b \in todo[Idle] : BufferOK(b) /\ b.uid \in Uids
      BY SyncersTwo DEF Numbers, SyncNumbers, TypeOK, SyncTypeOK, Buffer
    <2> QED BY <1>l, <1>5, <2>1, <2>2 DEF FlagsInv, Holding, BufferOK
  <1>6. Holding'
    BY <1>1, <1>l, <1>4, <1>5 DEF FlagsInv, Holding
  <1> QED BY <1>2, <1>3, <1>6 DEF FlagsInv

\* After Skips a row that lags is newer than the anchor, and lagged before
\* unless this write is the IDLE goroutine's own.
LEMMA SkipsLags ==
    ASSUME NEW us, Skips(us), NEW u \in Uids, Lags(u)', UNCHANGED <<box, srvVal>>
    PROVE  /\ ~(box[u] <= folder'.mod) /\ u \notin us /\ u \notin skipped
           /\ CachedNow(u)' /\ OnServer(u) /\ cache'[u].flags # box[u]
  BY DEF Skips, Lags, CachedNow, Cached, OnServer

LEMMA ClientAnchors ==
    ASSUME TypeOK, TypeOK', AnchorsBehind, NEW s \in Syncers, SyncStep(s) \/ IdleStep \/ LoopStep \/ CrashRestart
    PROVE  \A u \in Uids : Lags(u)' => box'[u] > folder'.mod
  <1>1. UNCHANGED <<box, srvVal>>
    BY ServerLeftAlone DEF srvVars
  <1>2. \A u \in Uids : box[u] \in Nat /\ folder'.mod \in Nat
    BY DEF TypeOK, ServerTypeOK, StoreTypeOK, Anchors
  <1>3. ASSUME NEW us, Skips(us) PROVE \A u \in Uids : Lags(u)' => box'[u] > folder'.mod
    BY <1>1, <1>2, <1>3, SkipsLags
  <1>4. ASSUME UNCHANGED <<cache, folder, skipped>> PROVE \A u \in Uids : Lags(u)' => box'[u] > folder'.mod
    BY <1>1, <1>4 DEF AnchorsBehind, Lags, CachedNow, Cached, OnServer
  <1>5. ASSUME \A u \in Uids : cache'[u] = None PROVE \A u \in Uids : Lags(u)' => box'[u] > folder'.mod
    BY <1>5 DEF Lags, CachedNow, Cached
  <1>6. SyncStep(s) => \/ UNCHANGED <<cache, folder, skipped>>
                       \/ \A u \in Uids : cache'[u] = None
                       \/ \E us : Skips(us)
    BY DEF SyncStep, ReadFolder, SelectFolder, ClearFolderMessages, SetFolderSyncState, HighestUID,
           FetchEnvelopes, StoreMessage, SyncReturns, dbVars
  <1>7. IdleStep => UNCHANGED <<cache, folder, skipped>> \/ \E us : Skips(us)
    BY DEF IdleStep, HandleNotification, PollTick, Inventory, ListStale, DeleteStale, FolderFlags,
           FetchFlags, UpdateMessageFlags, RefreshReturns, SessionEnds, dbVars
  <1>8. LoopStep \/ CrashRestart => UNCHANGED <<cache, folder, skipped>> \/ \E us : Skips(us)
    BY DEF LoopStep, ExecRefetch, FetchBody, RefetchReturns, CommandFails, CommandRetries, CrashRestart, dbVars
  <1> QED BY <1>3, <1>4, <1>5, <1>6, <1>7, <1>8

\* The loop touches nothing of the IDLE goroutine, and a row it leaves behind
\* the server is in the history.
LEMMA LoopLags ==
    ASSUME TypeOK, SyncStep(Loop) \/ LoopStep
    PROVE  /\ pc'[Idle] = pc[Idle] /\ snap'[Idle] = snap[Idle] /\ todo'[Idle] = todo[Idle]
           /\ conn'[Idle] = conn[Idle] /\ UNCHANGED <<known, notify>>
           /\ \A u \in Uids : Lags(u)' => Lags(u) /\ cache'[u] = cache[u]
  <1>1. UNCHANGED <<box, srvVal>>
    BY ServerLeftAlone, SyncersTwo DEF srvVars
  <1>t. SyncTypeOK /\ StoreTypeOK
    BY DEF TypeOK
  <1>2. SyncStep(Loop) =>
          /\ pc'[Idle] = pc[Idle] /\ snap'[Idle] = snap[Idle] /\ todo'[Idle] = todo[Idle]
          /\ conn'[Idle] = conn[Idle] /\ UNCHANGED <<known, notify>>
    BY <1>t, SyncersTwo DEF SyncTypeOK, SyncStep, ReadFolder, SelectFolder, ClearFolderMessages, SetFolderSyncState,
           HighestUID, FetchEnvelopes, StoreMessage, SyncReturns, Goto, idleVars
  <1>3. LoopStep =>
          /\ pc'[Idle] = pc[Idle] /\ snap'[Idle] = snap[Idle] /\ todo'[Idle] = todo[Idle]
          /\ conn'[Idle] = conn[Idle] /\ UNCHANGED <<known, notify>>
    BY <1>t, SyncersTwo DEF SyncTypeOK, LoopStep, ExecRefetch, FetchBody, RefetchReturns, CommandFails, CommandRetries,
           Unwind, Goto, idleVars
  <1>4. ASSUME NEW us, Skips(us), \A u \in Uids : u \notin us => cache'[u] = cache[u]
        PROVE  \A u \in Uids : Lags(u)' => Lags(u) /\ cache'[u] = cache[u]
    BY <1>1, <1>4, SkipsLags DEF Lags, CachedNow, Cached, OnServer
  <1>5. ASSUME UNCHANGED <<cache, skipped>> PROVE \A u \in Uids : Lags(u)' => Lags(u) /\ cache'[u] = cache[u]
    BY <1>1, <1>5 DEF Lags, CachedNow, Cached, OnServer
  <1>6. ASSUME NEW b \in todo[Loop], UpsertMessage(b) PROVE \A u \in Uids : u \notin {b.uid} => cache'[u] = cache[u]
    BY <1>6, <1>t DEF UpsertMessage, StoreTypeOK
  <1>7. SyncStep(Loop) => \A u \in Uids : Lags(u)' => Lags(u) /\ cache'[u] = cache[u]
    <2>1. CASE StoreMessage(Loop)
      BY <2>1, <1>4, <1>6 DEF StoreMessage
    <2>2. CASE SetFolderSyncState(Loop)
      BY <2>2, <1>4 DEF SetFolderSyncState
    <2>3. CASE ClearFolderMessages(Loop)
      BY <2>3 DEF ClearFolderMessages, Lags, CachedNow, Cached
    <2> QED BY <1>5, <2>1, <2>2, <2>3 DEF SyncStep, ReadFolder, SelectFolder, HighestUID, FetchEnvelopes, SyncReturns, dbVars
  <1>8. LoopStep => \A u \in Uids : Lags(u)' => Lags(u) /\ cache'[u] = cache[u]
    <2>1. CASE RefetchReturns
      BY <2>1, <1>4, <1>6 DEF RefetchReturns
    <2> QED BY <1>5, <2>1 DEF LoopStep, ExecRefetch, FetchBody, CommandFails, CommandRetries, dbVars
  <1> QED BY <1>2, <1>3, <1>7, <1>8

LEMMA LoopStepFlags ==
    ASSUME TypeOK, TypeOK', FlagsInv, SyncStep(Loop) \/ LoopStep PROVE FlagsInv'
  <1>1. UNCHANGED <<box, srvVal>>
    BY ServerLeftAlone, SyncersTwo DEF srvVars
  <1>2. ModNumbers'
    BY ClientMods, SyncersTwo DEF FlagsInv
  <1>3. /\ pc'[Idle] = pc[Idle] /\ snap'[Idle] = snap[Idle] /\ todo'[Idle] = todo[Idle]
        /\ conn'[Idle] = conn[Idle] /\ UNCHANGED <<known, notify>>
        /\ \A u \in Uids : Lags(u)' => Lags(u) /\ cache'[u] = cache[u]
    BY LoopLags
  <1>4. AnchorsBehind'
    BY <1>1, <1>3, ClientAnchors, SyncersTwo DEF FlagsInv, AnchorsBehind
  <1>5. Caught' => Caught
    BY <1>1, <1>3 DEF Caught, Fresh, Pending
  <1>6. Holding'
    BY <1>1, <1>3, <1>5 DEF FlagsInv, Holding, OnServer
  <1> QED BY <1>2, <1>4, <1>6 DEF FlagsInv

\* Away from a refresh only the stored anchor matters.
LEMMA ElsewhereFlags ==
    ASSUME TypeOK, TypeOK', FlagsInv, NEW s \in Syncers, SyncStep(s) \/ IdleStep \/ LoopStep \/ CrashRestart,
           pc'[Idle] \notin {"cached", "flags", "apply"}
    PROVE  FlagsInv'
  BY ClientMods, ClientAnchors DEF FlagsInv, AnchorsBehind, Holding

LEMMA RefreshFlagsFlags ==
    ASSUME TypeOK, TypeOK', FlagsInv, HandleNotification, RefreshFlags PROVE FlagsInv'
  <1>1. pc'[Idle] = "cached" /\ snap'[Idle] = folder /\ folder' = folder
    BY SyncersTwo DEF HandleNotification, RefreshFlags, Goto, TypeOK, SyncTypeOK, dbVars
  <1>2. IdleStep
    BY DEF IdleStep
  <1> QED BY <1>1, <1>2, ClientMods, ClientAnchors, SyncersTwo DEF FlagsInv, AnchorsBehind, Holding

LEMMA FolderFlagsFlags == ASSUME TypeOK, TypeOK', FlagsInv, FolderFlags PROVE FlagsInv'
  <1>1. pc[Idle] = "cached" /\ pc'[Idle] = "flags" /\ UNCHANGED <<cache, folder, snap, skipped, box, srvVal>>
    BY SyncersTwo DEF FolderFlags, Goto, TypeOK, SyncTypeOK, dbVars, srvVars
  <1>2. IdleStep
    BY DEF IdleStep
  <1>3. \A u \in Uids : Lags(u)' => Lags(u) /\ Cached(u)
    BY <1>1 DEF Lags, CachedNow, Cached, OnServer
  <1>4. AnchorsBehind'
    BY <1>1, <1>3 DEF FlagsInv, AnchorsBehind
  <1>5. Holding'
    BY <1>1, <1>3 DEF Holding, FolderFlags
  <1> QED BY <1>2, <1>4, <1>5, ClientMods, SyncersTwo DEF FlagsInv

LEMMA FetchFlagsFlags ==
    ASSUME TypeOK, TypeOK', Numbers, FlagsInv, FetchFlags PROVE FlagsInv'
  <1>t. pc \in [Syncers -> Places] /\ todo \in [Syncers -> SUBSET Buffer] /\ Idle \in Syncers
    BY SyncersTwo DEF TypeOK, SyncTypeOK
  <1> DEFINE S == {v \in Reported : known[v] # 0 /\ known[v] # box[v]}
             B == {[uid |-> u, gen |-> srvVal, flags |-> box[u]] : u \in S}
  <1>1. /\ pc[Idle] = "flags" /\ pc'[Idle] = "apply" /\ todo' = [todo EXCEPT ![Idle] = B]
        /\ conn' = conn /\ conn[Idle] = srvVal /\ UNCHANGED <<cache, folder, box, srvVal, skipped, notify>>
    BY <1>t DEF FetchFlags, Goto, Fresh, srvVars, dbVars
  <1>2. \A b \in B : b.gen = srvVal /\ b.flags = box[b.uid]
    OBVIOUS
  <1>3. \A u \in S : \E b \in B : b.uid = u
    <2> SUFFICES ASSUME NEW u \in S PROVE \E b \in B : b.uid = u
      OBVIOUS
    <2>1. [uid |-> u, gen |-> srvVal, flags |-> box[u]] \in B
      OBVIOUS
    <2> QED BY <2>1
  <1>4. Caught => \A u \in Uids : Lags(u) => u \in S
    <2> SUFFICES ASSUME Caught, NEW u \in Uids, Lags(u) PROVE u \in S
      OBVIOUS
    <2>1. known[u] = cache[u].flags /\ box[u] > snap[Idle].mod
      BY <1>1 DEF FlagsInv, Holding, AnchorsBehind
    <2>2. cache[u].flags # 0 /\ cache[u].flags # box[u] /\ OnServer(u)
      BY DEF Lags, CachedNow, Numbers, StoreNumbers
    <2> QED BY <2>1, <2>2 DEF Reported
  <1> HIDE DEF S, B
  <1>5. todo'[Idle] = B
    BY <1>1, <1>t
  <1>6. \A u \in Uids : Lags(u)' => Lags(u)
    BY <1>1 DEF Lags, CachedNow, Cached, OnServer
  <1>7. Caught' => Caught
    BY <1>1 DEF Caught, Fresh, Pending
  <1>8. Holding'
    BY <1>1, <1>2, <1>3, <1>4, <1>5, <1>6, <1>7 DEF Holding
  <1>9. AnchorsBehind'
    BY <1>1, <1>6 DEF FlagsInv, AnchorsBehind
  <1>10. IdleStep
    BY DEF IdleStep
  <1> QED BY <1>8, <1>9, <1>10, <1>t, ClientMods DEF FlagsInv

LEMMA UpdateFlagsFlags ==
    ASSUME TypeOK, TypeOK', FlagsInv, UpdateMessageFlags PROVE FlagsInv'
  <1>t. todo \in [Syncers -> SUBSET Buffer] /\ Idle \in Syncers
    BY SyncersTwo DEF TypeOK, SyncTypeOK
  <1>1. PICK b \in todo[Idle] :
             /\ cache' = IF Cached(b.uid)
                         THEN [cache EXCEPT ![b.uid] = [gen |-> cache[b.uid].gen, flags |-> b.flags]]
                         ELSE cache
             /\ todo' = [todo EXCEPT ![Idle] = @ \ {b}]
    BY DEF UpdateMessageFlags
  <1>2. /\ pc[Idle] = "apply" /\ pc' = pc /\ conn' = conn /\ todo'[Idle] = todo[Idle] \ {b}
        /\ UNCHANGED <<box, srvVal, notify>> /\ Skips({})
    BY <1>t, <1>1 DEF UpdateMessageFlags, srvVars, idleVars
  <1>3. b \in Buffer /\ b.uid \in Uids
    BY <1>t, <1>1 DEF Buffer
  <1>4. \A u \in Uids : CachedNow(u)' => /\ CachedNow(u)
                                         /\ cache'[u].flags = IF u = b.uid THEN b.flags ELSE cache[u].flags
    <2>1. CASE ~Cached(b.uid)
      BY <1>1, <1>2, <2>1 DEF CachedNow, Cached
    <2>2. CASE Cached(b.uid)
      <3>1. UpsertMessage(b)
        BY <1>1, <2>2 DEF UpsertMessage
      <3>2. /\ \A u \in Uids : u # b.uid => cache'[u] = cache[u]
            /\ cache'[b.uid].flags = b.flags /\ cache'[b.uid].gen = cache[b.uid].gen
        BY <1>3, <2>2, <3>1, UpsertRows
      <3> QED BY <1>2, <2>2, <3>2 DEF CachedNow, Cached
    <2> QED BY <2>1, <2>2
  <1>5. Caught' => Caught
    BY <1>2 DEF Caught, Fresh, Pending
  <1>6. Caught' => \A c \in todo'[Idle] : OnServer(c.uid)' => c.flags = box'[c.uid]
    BY <1>2, <1>5 DEF FlagsInv, Holding, OnServer
  <1>7. Caught' => \A u \in Uids : Lags(u)' => \E c \in todo'[Idle] : c.uid = u
    <2> SUFFICES ASSUME Caught', NEW u \in Uids, Lags(u)' PROVE \E c \in todo'[Idle] : c.uid = u
      OBVIOUS
    <2>1. CachedNow(u)' /\ OnServer(u) /\ cache'[u].flags # box[u] /\ u \notin skipped
      BY <1>2, SkipsLags
    <2>2. u # b.uid
      BY <1>1, <1>2, <1>4, <1>5, <2>1 DEF FlagsInv, Holding
    <2>3. Lags(u)
      BY <1>4, <2>1, <2>2 DEF Lags
    <2> QED BY <1>2, <1>5, <2>2, <2>3 DEF FlagsInv, Holding
  <1>8. Holding'
    BY <1>2, <1>6, <1>7 DEF FlagsInv, Holding
  <1>9. IdleStep
    BY DEF IdleStep
  <1> QED BY <1>2, <1>8, <1>9, <1>t, ClientMods, ClientAnchors DEF FlagsInv, AnchorsBehind

LEMMA NextFlags == TypeOK /\ TypeOK' /\ Numbers /\ FlagsInv /\ [Next]_vars => FlagsInv'
  <1> SUFFICES ASSUME TypeOK, TypeOK', Numbers, FlagsInv, [Next]_vars PROVE FlagsInv'
    OBVIOUS
  <1>t. pc \in [Syncers -> Places] /\ Idle \in Syncers /\ Loop \in Syncers
    BY SyncersTwo DEF TypeOK, SyncTypeOK
  <1>1. CASE UNCHANGED vars
    BY <1>1 DEF vars, srvVars, dbVars, syncVars, idleVars, FlagsInv, ModNumbers, AnchorsBehind, Holding, Lags, Caught,
                Fresh, Pending, CachedNow, Cached, OnServer
  <1>2. CASE ServerStep
    BY <1>2, ServerStepFlags
  <1>3. CASE SyncStep(Idle)
    <2>1. pc'[Idle] \notin {"cached", "flags", "apply"}
      BY <1>3, <1>t DEF SyncStep, ReadFolder, SelectFolder, ClearFolderMessages, SetFolderSyncState, HighestUID,
                        FetchEnvelopes, StoreMessage, SyncReturns, Goto, Rest
    <2> QED BY <1>3, <1>t, <2>1, ElsewhereFlags
  <1>4. CASE IdleStep
    <2>1. CASE FolderFlags \/ FetchFlags \/ UpdateMessageFlags
      BY <2>1, FolderFlagsFlags, FetchFlagsFlags, UpdateFlagsFlags
    <2>2. CASE HandleNotification /\ RefreshFlags
      BY <2>2, RefreshFlagsFlags
    <2>3. CASE ~(FolderFlags \/ FetchFlags \/ UpdateMessageFlags \/ (HandleNotification /\ RefreshFlags))
      <3>1. pc'[Idle] \notin {"cached", "flags", "apply"}
        BY <1>4, <1>t, <2>3 DEF IdleStep, HandleNotification, PollTick, DeltaSync, Inventory, ListStale,
                                DeleteStale, RefreshReturns, SessionEnds, Unwind, Goto
      <3> QED BY <1>4, <1>t, <3>1, ElsewhereFlags
    <2> QED BY <2>1, <2>2, <2>3
  <1>5. CASE SyncStep(Loop) \/ LoopStep
    BY <1>5, LoopStepFlags
  <1>6. CASE CrashRestart
    <2>1. pc'[Idle] = "off"
      BY <1>6, <1>t DEF CrashRestart
    <2> QED BY <1>6, <1>t, <2>1, ElsewhereFlags
  <1> QED BY <1>1, <1>2, <1>3, <1>4, <1>5, <1>6 DEF Next

LEMMA InitFlags == Init => FlagsInv
  <1> SUFFICES ASSUME Init PROVE FlagsInv
    OBVIOUS
  <1>1. ModNumbers
    BY DEF Init, ModNumbers, NoAnchors, NoSelected
  <1>2. AnchorsBehind /\ Holding
    BY SyncersTwo DEF Init, AnchorsBehind, Holding, Lags, CachedNow, Cached
  <1> QED BY <1>1, <1>2 DEF FlagsInv

(***************************************************************************)
(* A refresh that returns with no flag change announced or dropped since   *)
(* has brought every cached row up to the server's flags, with CONDSTORE   *)
(* or without and beside the command loop, but for the rows the anchor was *)
(* advanced past and those the loop wrote back with older flags.           *)
(***************************************************************************)
THEOREM FlagsCatchUp == Spec => []RefreshCatchesUp
  <1>1. FlagsInv => RefreshCatchesUp
    BY DEF FlagsInv, Holding, Lags, Caught, RefreshCatchesUp
  <1> QED BY <1>1, InitType, InitNumbers, InitFlags, NextType, NextNumbers, NextFlags, PTL DEF Spec
=============================================================================
