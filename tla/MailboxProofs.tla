--------------------------- MODULE MailboxProofs ----------------------------
(***************************************************************************)
(* The mail commands of Mailbox, for any number of messages, folders,      *)
(* commands and failures.  NeverLost rests on CustodyInv: a message is     *)
(* never without a live entry, and when a move without MOVE is about to    *)
(* flag its source \Deleted, another live copy is already there.           *)
(* StraysExplained rests on AimInv: as long as no row id was handed out    *)
(* again and no folder was renumbered, ids, UIDs and messages name each    *)
(* other.  HiddenIsGone rests on HidingInv: a row is hidden by the delete  *)
(* under way or was left behind by one that could not finish.              *)
(***************************************************************************)
EXTENDS Mailbox, FiniteSetTheorems, WellFoundedInduction, TLAPS

-----------------------------------------------------------------------------
(* The invariants.                                                         *)

\* Everything the app names was delivered once.
NamesDelivered ==
    /\ \A e \in box : e.msg \in arrived
    /\ \A r \in rows : r.msg \in arrived
    /\ \A i \in 1 .. Len(queue) : queue[i].k # "sync" => queue[i].msg \in arrived
    /\ cur # Idle /\ cur.k # "sync" => {cur.meant, cur.row.msg} \subseteq arrived

Excused == condemned \cup strays

\* A live entry, not flagged \Deleted, of every message not to be destroyed.
LiveEntries == \A m \in arrived \ Excused : \E e \in box : e.msg = m /\ ~e.del

\* The copy of a move is there before its source is condemned.
CopyHeld ==
    cur # Idle /\ cur.k = "move" /\ cur.pc = "condemn" /\ cur.meant \notin Excused =>
        \A e \in Target(cur.row) : e.msg = cur.meant =>
            \E d \in box : d.msg = cur.meant /\ ~d.del /\ d \notin Target(cur.row)

DestroyAsked == cur # Idle /\ cur.k = "destroy" => cur.meant \in condemned

CustodyInv == NamesDelivered /\ LiveEntries /\ CopyHeld /\ DestroyAsked

\* No id was handed out twice and no folder was numbered anew.
Steady == ~recycled /\ \A f \in Folders : ~(validity[f] > 1)

\* The ids the app holds are ids that were given out.
IdsGiven ==
    /\ \A i \in 1 .. Len(queue) : queue[i].k # "sync" => queue[i].id <= lastId
    /\ cur # Idle /\ cur.k # "sync" => cur.row.id <= lastId

\* Folder and UID f, u can only mean the message m.
Names(f, u, m) == u < uidNext[f] /\ \A e \in box : e.f = f /\ e.uid = u => e.msg = m

\* The row id i can only mean the message m.
IdNames(i, m) == \A r \in rows : r.id = i => r.msg = m

RowsAim == \A r \in rows : Names(r.f, r.uid, r.msg) /\ IdNames(r.id, r.msg)
QueueAims == \A i \in 1 .. Len(queue) : queue[i].k # "sync" => IdNames(queue[i].id, queue[i].msg)
RunAims ==
    cur # Idle /\ cur.k # "sync" =>
        cur.row.msg = cur.meant /\ IdNames(cur.row.id, cur.meant) /\ Names(cur.row.f, cur.row.uid, cur.meant)
NothingStray == strays = {} /\ \A x \in files : x.of = x.meant

AimInv == IdsGiven /\ (Steady => RowsAim /\ QueueAims /\ RunAims /\ NothingStray)

\* A hidden row is one of the delete under way, or was left behind.
HidingInv ==
    /\ \A r \in rows : r.hidden => \/ r.msg \in stranded
                                   \/ cur # Idle /\ cur.k = "destroy" /\ r.id = cur.row.id
    /\ cur # Idle /\ cur.k = "refetch" /\ cur.row.hidden => cur.row.msg \in stranded


USE DEF capVars

-----------------------------------------------------------------------------
(* Lemmas about numbers and finite sets.                                   *)

\* The maximum of a bounded set of naturals exists, so Max returns it.
LEMMA MaxIsMax ==
  ASSUME NEW T \in SUBSET Nat, NEW n \in Nat, T # {}, \A x \in T : x <= n
  PROVE  Max(T) \in T /\ \A y \in T : y <= Max(T)
  <1> DEFINE D == {n - x : x \in T}
             R == OpToRel(<, Nat)
  <1>1. D \subseteq Nat /\ D # {}
    <2>1. \A x \in T : n - x \in Nat
      OBVIOUS
    <2> QED BY <2>1
  <1>2. PICK d \in D : \A y \in D : ~(<<y, d>> \in R)
    <2>1. IsWellFoundedOn(R, Nat)
      BY NatLessThanWellFounded
    <2> HIDE DEF D, R
    <2> QED BY <1>1, <2>1, WFMin
  <1>3. \A y \in D : ~(y < d)
    BY <1>1, <1>2 DEF OpToRel
  <1>4. PICK x \in T : d = n - x
    BY <1>2
  <1>5. \A y \in T : x >= y
    <2> SUFFICES ASSUME NEW y \in T PROVE x >= y
      OBVIOUS
    <2>1. n - y \in D
      OBVIOUS
    <2>2. ~(n - y < n - x)
      BY <1>3, <1>4, <2>1
    <2> HIDE DEF D, R
    <2> QED BY <2>2
  <1> HIDE DEF D, R
  <1> QED BY <1>4, <1>5 DEF Max

\* The image of a finite set under a function is finite.
LEMMA ImageFinite ==
  ASSUME NEW S, IsFiniteSet(S), NEW g, DOMAIN g = S
  PROVE  IsFiniteSet({g[x] : x \in S})
  <1> DEFINE T == {g[x] : x \in S}
             h == [x \in S |-> g[x]]
  <1>1. h \in Surjection(S, T)
    BY DEF Surjection
  <1> HIDE DEF T, h
  <1>2. IsFiniteSet(T)
    BY <1>1, FS_Surjection
  <1> QED BY <1>2 DEF T

-----------------------------------------------------------------------------
(* The steps of a command.                                                 *)

Last(k) == CASE k = "mark" -> "store" [] k = "move" -> "pull" [] k = "destroy" -> "drop"
             [] k = "refetch" -> "write" [] k = "attach" -> "save" [] k = "sync" -> "pull"

RunKinds == {"mark", "move", "destroy", "refetch", "attach", "sync"}

LEMMA StepsStart ==
  ASSUME NEW k \in RunKinds
  PROVE  Head(Steps(k)) \in PlacesOf(k) /\ Head(Steps(k)) # "conn"
         /\ (k = "move" => Head(Steps(k)) # "condemn")
  BY DEF RunKinds, Steps, PlacesOf

\* After goes through the places of a command, and condemns only once copied.
LEMMA StepsGoOn ==
  ASSUME NEW k \in RunKinds, NEW pc \in PlacesOf(k) \ {"conn"}
  PROVE  \/ After(k, pc) = "done" /\ pc = Last(k)
         \/ /\ After(k, pc) \in PlacesOf(k) \ {"conn"} /\ pc # Last(k) /\ After(k, pc) # "done"
            /\ k = "move" /\ After(k, pc) = "condemn" => pc = "copy"
  <1> DEFINE s == Steps(k)
  <1>0. \E i \in DOMAIN s : s[i] = pc
    BY DEF Steps, PlacesOf, RunKinds
  <1>1. PICK i \in DOMAIN s : s[i] = pc /\ After(k, pc) = IF i = Len(s) THEN "done" ELSE s[i + 1]
    BY <1>0 DEF After
  <1>2. CASE k = "mark"
    BY <1>1, <1>2 DEF Steps, PlacesOf, Last
  <1>3. CASE k = "move" /\ hasMove
    BY <1>1, <1>3 DEF Steps, PlacesOf, Last
  <1>4. CASE k = "move" /\ ~hasMove
    BY <1>1, <1>4 DEF Steps, PlacesOf, Last
  <1>5. CASE k = "destroy"
    BY <1>1, <1>5 DEF Steps, PlacesOf, Last
  <1>6. CASE k = "refetch"
    BY <1>1, <1>6 DEF Steps, PlacesOf, Last
  <1>7. CASE k = "attach" \/ k = "sync"
    BY <1>1, <1>7 DEF Steps, PlacesOf, Last
  <1> QED BY <1>2, <1>3, <1>4, <1>5, <1>6, <1>7 DEF RunKinds
\* The command under way goes on, or is new to its connection again.
Continues == 
    /\ cur # Idle /\ cur' # Idle /\ cur' \in MailRun \cup SyncRun
    /\ cur'.k = cur.k /\ cur'.row = cur.row /\ cur'.to = cur.to /\ cur'.meant = cur.meant

LEMMA CurContinues ==
  ASSUME CurTypeOK, UNCHANGED hasMove, Continues, cur'.pc \in PlacesOf(cur.k)
  PROVE  CurTypeOK'
  BY DEF CurTypeOK, Continues, PlacesOf

LEMMA RunKind ==
  ASSUME CurTypeOK, cur # Idle
  PROVE  cur \in MailRun \cup SyncRun /\ cur.k \in RunKinds /\ cur.pc \in Places
  BY DEF CurTypeOK, MailRun, SyncRun, RunKinds

LEMMA RunMoved ==
  ASSUME CurTypeOK, cur # Idle, NEW q \in Places,
         cur' = [cur EXCEPT !.pc = q] \/ cur' = [cur EXCEPT !.pc = q, !.fresh = TRUE]
  PROVE  Continues /\ cur'.pc = q
  <1>1. CASE cur \in MailRun
    BY <1>1 DEF MailRun, Idle, Continues
  <1>2. CASE cur \in SyncRun
    BY <1>2 DEF SyncRun, Idle, Continues
  <1> QED BY <1>1, <1>2, RunKind

LEMMA PlacesKnown == \A k \in RunKinds : PlacesOf(k) \subseteq Places
  <1> SUFFICES ASSUME NEW k \in RunKinds, NEW q \in PlacesOf(k) PROVE q \in Places
    OBVIOUS
  <1> QED BY DEF RunKinds, PlacesOf, Places, ServerOps

\* What advance may do to the command.
LEMMA AdvanceEffect ==
  ASSUME TypeOK, cur # Idle, cur.pc # "conn", advance, UNCHANGED hasMove
  PROVE  /\ CurTypeOK' /\ pooled' \in BOOLEAN
         /\ \/ cur' = Idle /\ cur.pc = Last(cur.k)
            \/ /\ Continues /\ cur.pc # Last(cur.k) /\ cur'.pc # "conn"
               /\ cur.k = "move" /\ cur'.pc = "condemn" => cur.pc = "copy"
  <1> DEFINE q == After(cur.k, cur.pc)
  <1>1. cur.k \in RunKinds /\ cur.pc \in PlacesOf(cur.k) \ {"conn"}
    BY RunKind DEF TypeOK, CurTypeOK
  <1>2. CASE q = "done"
    <2>1. cur' = Idle /\ pooled' = TRUE
      BY <1>2 DEF advance
    <2>2. cur.pc = Last(cur.k)
      BY <1>1, <1>2, StepsGoOn
    <2> QED BY <2>1, <2>2 DEF CurTypeOK
  <1>3. CASE q # "done"
    <2>1. cur' = [cur EXCEPT !.pc = q] /\ pooled' = pooled
      BY <1>3 DEF advance
    <2>2. /\ q \in PlacesOf(cur.k) \ {"conn"} /\ cur.pc # Last(cur.k)
          /\ cur.k = "move" /\ q = "condemn" => cur.pc = "copy"
      BY <1>1, <1>3, StepsGoOn
    <2>3. q \in Places
      BY <1>1, <2>2, PlacesKnown
    <2> HIDE DEF q
    <2>4. Continues /\ cur'.pc = q
      BY <2>1, <2>3, RunMoved DEF TypeOK
    <2>5. CurTypeOK'
      BY <2>2, <2>4, CurContinues DEF TypeOK
    <2> QED BY <2>1, <2>2, <2>4, <2>5 DEF TypeOK, QueueTypeOK
  <1> QED BY <1>2, <1>3

\* What a failed attempt does to it.
LEMMA RetryEffect ==
  ASSUME TypeOK, cur # Idle, retry, UNCHANGED hasMove
  PROVE  /\ CurTypeOK' /\ pooled' \in BOOLEAN
         /\ cur' = Idle \/ (Continues /\ cur'.pc = "conn")
  <1>1. CASE cur.fresh
    BY <1>1 DEF retry, CurTypeOK, TypeOK, QueueTypeOK
  <1>2. CASE ~cur.fresh
    <2>1. cur' = [cur EXCEPT !.pc = "conn"] /\ pooled' = FALSE
      BY <1>2 DEF retry
    <2>2. Continues /\ cur'.pc = "conn"
      BY <2>1, RunMoved DEF TypeOK, Places
    <2>3. CurTypeOK'
      BY <2>2, CurContinues DEF TypeOK, PlacesOf
    <2> QED BY <2>1, <2>2, <2>3
  <1> QED BY <1>1, <1>2

-----------------------------------------------------------------------------
(* What a step may do to the rows.                                         *)

\* Folder, UID and message of a row come from a row, an entry or the row in
\* the hands of a refetch.
Origin(r) ==
    \/ \E q \in rows : q.f = r.f /\ q.uid = r.uid /\ q.msg = r.msg
    \/ \E e \in box : e.f = r.f /\ e.uid = r.uid /\ e.msg = r.msg
    \/ cur # Idle /\ cur.k = "refetch" /\ cur.row.f = r.f /\ cur.row.uid = r.uid /\ cur.row.msg = r.msg

\* New ids are handed out once.
NewIdsDiffer(t) == \A q, r \in t : q.id = r.id /\ ~(q.id <= lastId) => q.msg = r.msg

RowsEffect ==
    /\ rows' \subseteq MessageRow
    /\ lastId' \in Nat /\ lastId <= lastId' /\ recycled' \in BOOLEAN /\ (recycled => recycled')
    /\ \A r \in rows' : r.id <= lastId' /\ Origin(r)
    /\ ~recycled' => \A r \in rows' : r.id <= lastId => \E q \in rows : q.id = r.id /\ q.msg = r.msg
    /\ \A q, r \in rows' : q.id = r.id /\ ~(q.id <= lastId) => q.msg = r.msg

HideEffect ==
    \A r \in rows' : r.hidden =>
        \/ \E q \in rows : q.hidden /\ q.id = r.id /\ q.msg = r.msg
        \/ cur # Idle /\ cur.k = "refetch" /\ cur.row.hidden /\ cur.row.msg = r.msg
        \/ cur = Idle /\ cur' # Idle /\ cur'.k = "destroy" /\ r.id = cur'.row.id

LEMMA SetRowsEffect ==
  ASSUME TypeOK, NEW t \in SUBSET MessageRow, NEW n \in Nat, \A r \in t : r.id <= n /\ Origin(r),
         NewIdsDiffer(t), SetRows(t)
  PROVE  RowsEffect
  <1> DEFINE T == {lastId} \cup {r.id : r \in t}
             N == IF n <= lastId THEN lastId ELSE n
  <1>1. lastId \in Nat /\ recycled \in BOOLEAN
    BY DEF TypeOK, StoreTypeOK
  <1>2. \A r \in t : r.id \in Nat
    BY DEF MessageRow
  <1>3. T \in SUBSET Nat /\ T # {}
    BY <1>1, <1>2
  <1>4. N \in Nat /\ \A x \in T : x <= N
    BY <1>1, <1>2
  <1>5. \A r \in t : r.id \in T
    OBVIOUS
  <1>6. lastId \in T
    OBVIOUS
  <1> HIDE DEF N
  <1>7. rows' = t /\ lastId' = Max(T)
    BY DEF SetRows
  <1> HIDE DEF T
  <1>8. Max(T) \in T /\ \A y \in T : y <= Max(T)
    BY <1>3, <1>4, MaxIsMax
  <1>9. lastId' \in Nat /\ lastId <= lastId' /\ \A r \in rows' : r.id <= lastId'
    BY <1>3, <1>5, <1>6, <1>7, <1>8
  <1>10. recycled' = (recycled \/ \E r \in t : r.id <= lastId /\ ~\E q \in rows : q.id = r.id /\ q.msg = r.msg)
    BY DEF SetRows
  <1>11. recycled' \in BOOLEAN /\ (recycled => recycled')
    BY <1>10
  <1>12. ~recycled' => \A r \in rows' : r.id <= lastId => \E q \in rows : q.id = r.id /\ q.msg = r.msg
    BY <1>7, <1>10
  <1>13. \A q, r \in rows' : q.id = r.id /\ ~(q.id <= lastId) => q.msg = r.msg
    BY <1>7 DEF NewIdsDiffer
  <1> QED BY <1>7, <1>9, <1>11, <1>12, <1>13 DEF RowsEffect

LEMMA KeptRowsEffect ==
  ASSUME TypeOK, UNCHANGED idVars, rows' \subseteq MessageRow,
         \A r \in rows' : \E q \in rows : q.id = r.id /\ q.f = r.f /\ q.uid = r.uid /\ q.msg = r.msg
  PROVE  RowsEffect
  BY DEF TypeOK, StoreTypeOK, RowsEffect, Origin, idVars, MessageRow

\* What Numbered adds to a table are rows of the entries, with new ids.
LEMMA NumberedRows ==
  ASSUME TypeOK, NEW kept \in SUBSET MessageRow, NEW n \in Nat, \A r \in kept : r.id <= n,
         NEW es \in SUBSET box, \A d, e \in es : d.f = e.f
  PROVE  /\ Numbered(kept, es) \in SUBSET MessageRow
         /\ \E N \in Nat : \A r \in Numbered(kept, es) : r.id <= N
         /\ \A r \in Numbered(kept, es) :
              r \in kept \/ (~r.hidden /\ \E e \in es : e.f = r.f /\ e.uid = r.uid /\ e.msg = r.msg)
         /\ \A q, r \in Numbered(kept, es) : q.id = r.id /\ q \notin kept /\ r \notin kept => q.msg = r.msg
  <1> DEFINE T == {0} \cup {r.id : r \in kept}
             base == Max(T)
             S(e) == {x \in es : x.uid <= e.uid}
             Rank(e) == Cardinality(S(e))
  <1>1. T \in SUBSET Nat /\ T # {} /\ \A x \in T : x <= n
    BY DEF MessageRow
  <1>2. base \in Nat /\ \A r \in kept : r.id <= base
    <2>1. \A r \in kept : r.id \in T
      OBVIOUS
    <2> HIDE DEF T
    <2> QED BY <1>1, <2>1, MaxIsMax
  <1>3. IsFiniteSet(es) /\ Cardinality(es) \in Nat
    BY FS_Subset, FS_CardinalityType DEF TypeOK, ServerTypeOK
  <1>4. \A e \in es : Rank(e) \in Nat /\ Rank(e) <= Cardinality(es)
    <2> SUFFICES ASSUME NEW e \in es PROVE Rank(e) \in Nat /\ Rank(e) <= Cardinality(es)
      OBVIOUS
    <2>1. S(e) \in SUBSET es
      OBVIOUS
    <2> HIDE DEF S
    <2> QED BY <1>3, <2>1, FS_Subset, FS_CardinalityType
  <1>5. Numbered(kept, es) = kept \cup {Row(base + Rank(e), e) : e \in es}
    BY DEF Numbered
  <1> HIDE DEF base, Rank
  <1>6. \A e \in es : /\ Row(base + Rank(e), e) \in MessageRow
                      /\ Row(base + Rank(e), e).id <= base + Cardinality(es)
                      /\ ~Row(base + Rank(e), e).hidden
                      /\ Row(base + Rank(e), e).f = e.f /\ Row(base + Rank(e), e).uid = e.uid
                      /\ Row(base + Rank(e), e).msg = e.msg
    BY <1>2, <1>3, <1>4 DEF Row, MessageRow, TypeOK, ServerTypeOK, ServerEntry
  <1>7. base + Cardinality(es) \in Nat /\ \A r \in kept : r.id <= base + Cardinality(es)
    BY <1>2, <1>3 DEF MessageRow
  <1> HIDE DEF Row
  <1>8. \A r \in Numbered(kept, es) : r.id <= base + Cardinality(es)
    BY <1>5, <1>6, <1>7
  <1>9. \A d, e \in es : base + Rank(d) = base + Rank(e) => d.msg = e.msg
    <2> SUFFICES ASSUME NEW d \in es, NEW e \in es, base + Rank(d) = base + Rank(e) PROVE d.msg = e.msg
      OBVIOUS
    <2>1. Rank(d) = Rank(e)
      BY <1>2, <1>4
    <2>2. S(d) \in SUBSET es /\ S(e) \in SUBSET es
      OBVIOUS
    <2>3. d.uid \in Nat /\ e.uid \in Nat /\ \A x \in es : x.uid \in Nat
      BY DEF TypeOK, ServerTypeOK, ServerEntry
    <2>4. S(d) \in SUBSET S(e) \/ S(e) \in SUBSET S(d)
      BY <2>3
    <2>5. d \in S(d) /\ e \in S(e)
      BY <2>3
    <2>6. S(d) = S(e)
      <3> HIDE DEF S
      <3>1. IsFiniteSet(S(d)) /\ IsFiniteSet(S(e))
        BY <1>3, <2>2, FS_Subset
      <3>2. Cardinality(S(d)) = Cardinality(S(e))
        BY <2>1 DEF Rank
      <3> QED BY <2>4, <3>1, <3>2, FS_Subset
    <2>7. d.uid = e.uid
      BY <2>3, <2>5, <2>6
    <2> QED BY <2>7 DEF TypeOK, ServerTypeOK
  <1>10. \A q, r \in Numbered(kept, es) : q.id = r.id /\ q \notin kept /\ r \notin kept => q.msg = r.msg
    <2> SUFFICES ASSUME NEW d \in es, NEW e \in es, Row(base + Rank(d), d).id = Row(base + Rank(e), e).id
                 PROVE  Row(base + Rank(d), d).msg = Row(base + Rank(e), e).msg
      BY <1>5
    <2>1. Row(base + Rank(d), d).id = base + Rank(d) /\ Row(base + Rank(e), e).id = base + Rank(e)
      BY DEF Row
    <2> QED BY <1>6, <1>9, <2>1
  <1> QED BY <1>5, <1>6, <1>7, <1>8, <1>10
-----------------------------------------------------------------------------
(* What a step may do to the mailbox.                                      *)

Shrinks == box' \subseteq box /\ uidNext' = uidNext

Rewrites(e, d) ==
    /\ e \in box /\ d \in ServerEntry /\ d.f = e.f /\ d.uid = e.uid /\ d.msg = e.msg
    /\ box' = (box \ {e}) \cup {d} /\ uidNext' = uidNext

Adds(d) ==
    /\ d \in ServerEntry /\ d.uid = uidNext[d.f]
    /\ box' \subseteq box \cup {d} /\ d \in box' /\ uidNext' = [uidNext EXCEPT ![d.f] = @ + 1]

LEMMA ShrinksTyped ==
  ASSUME ServerTypeOK, Shrinks, UNCHANGED <<hasMove, hasTrash, validity>>
  PROVE  ServerTypeOK'
  <1>1. IsFiniteSet(box')
    BY FS_Subset DEF ServerTypeOK, Shrinks
  <1> QED BY <1>1 DEF ServerTypeOK, Shrinks

LEMMA RewritesTyped ==
  ASSUME ServerTypeOK, NEW e, NEW d, Rewrites(e, d), UNCHANGED <<hasMove, hasTrash, validity>>
  PROVE  ServerTypeOK'
  <1>1. IsFiniteSet(box')
    <2>1. IsFiniteSet(box \ {e})
      BY FS_Subset DEF ServerTypeOK
    <2> QED BY <2>1, FS_AddElement DEF Rewrites
  <1>2. box' \subseteq ServerEntry
    BY DEF ServerTypeOK, Rewrites
  <1>3. \A x \in box' : x.uid < uidNext'[x.f]
    BY DEF ServerTypeOK, Rewrites
  <1>4. \A x, y \in box' : x.f = y.f /\ x.uid = y.uid => x = y
    BY DEF ServerTypeOK, Rewrites
  <1> QED BY <1>1, <1>2, <1>3, <1>4 DEF ServerTypeOK, Rewrites

LEMMA AddsTyped ==
  ASSUME ServerTypeOK, NEW d, Adds(d), UNCHANGED <<hasMove, hasTrash, validity>>
  PROVE  ServerTypeOK' /\ \A f \in Folders : uidNext[f] \in Nat /\ uidNext'[f] \in Nat /\ uidNext[f] <= uidNext'[f]
  <1>1. IsFiniteSet(box')
    <2>1. IsFiniteSet(box \cup {d})
      BY FS_AddElement DEF ServerTypeOK
    <2> QED BY <2>1, FS_Subset DEF Adds
  <1>2. box' \subseteq ServerEntry /\ d.f \in Folders /\ d.uid \in Nat
    BY DEF ServerTypeOK, Adds, ServerEntry
  <1>3. uidNext' \in [Folders -> Nat]
    BY <1>2 DEF ServerTypeOK, Adds
  <1>4. \A f \in Folders : uidNext[f] \in Nat /\ uidNext'[f] \in Nat /\ uidNext[f] <= uidNext'[f]
    BY <1>2 DEF ServerTypeOK, Adds
  <1>5. \A x \in box : x.uid \in Nat /\ x.f \in Folders /\ x.uid < uidNext[x.f]
    BY DEF ServerTypeOK, ServerEntry
  <1>6. \A x \in box' : x.uid < uidNext'[x.f]
    <2> SUFFICES ASSUME NEW x \in box' PROVE x.uid < uidNext'[x.f]
      OBVIOUS
    <2>1. CASE x \in box
      BY <2>1, <1>4, <1>5
    <2>2. CASE x = d
      BY <2>2, <1>2 DEF Adds, ServerTypeOK
    <2> QED BY <2>1, <2>2 DEF Adds
  <1>7. \A x, y \in box' : x.f = y.f /\ x.uid = y.uid => x = y
    <2>1. \A x \in box : ~(x.f = d.f /\ x.uid = d.uid)
      BY <1>5 DEF Adds
    <2> QED BY <2>1 DEF Adds, ServerTypeOK
  <1> QED BY <1>1, <1>2, <1>3, <1>4, <1>6, <1>7 DEF ServerTypeOK

\* The command of a server operation is one about a message.
LEMMA OpIsMail ==
  ASSUME TypeOK, cur # Idle, cur.pc \in ServerOps
  PROVE  /\ cur \in MailRun /\ cur.row \in MessageRow /\ cur.k # "sync"
         /\ cur.pc \in {"move", "copy"} => cur.k = "move" /\ cur.to \in Folders
         /\ cur.pc \in {"condemn", "expunge"} => cur.k \in {"move", "destroy"}
  <1>1. cur.pc \in PlacesOf(cur.k) /\ cur \in MailRun \cup SyncRun /\ cur.k \in RunKinds
    BY RunKind DEF TypeOK, CurTypeOK
  <1>2. cur.k # "sync"
    BY <1>1 DEF PlacesOf, ServerOps
  <1>3. cur \in MailRun
    BY <1>1, <1>2 DEF SyncRun
  <1>4. cur.pc \in {"move", "copy"} => cur.k = "move"
    BY <1>1 DEF PlacesOf, RunKinds
  <1>5. cur.pc \in {"condemn", "expunge"} => cur.k \in {"move", "destroy"}
    BY <1>1 DEF PlacesOf, RunKinds
  <1> QED BY <1>2, <1>3, <1>4, <1>5 DEF MailRun, TypeOK, CurTypeOK

OpRemoves ==
    /\ Shrinks /\ \A e \in box : e \notin box' => e.del
    /\ cur.pc # "expunge" => box' = box /\ Target(cur.row) = {}

OpRewrites ==
    \E e \in Target(cur.row), d \in ServerEntry :
        Rewrites(e, d) /\ cur.pc \in {"store", "condemn"} /\ (d.del => e.del \/ cur.pc = "condemn")

OpAdds ==
    \E e \in Target(cur.row), d \in ServerEntry :
        /\ Adds(d) /\ d.msg = e.msg /\ d.del = e.del /\ cur.pc \in {"move", "copy"}
        /\ box \ {e} \subseteq box' /\ (cur.pc = "copy" => e \in box')

LEMMA OpEffect ==
  ASSUME TypeOK, cur # Idle, cur.pc \in ServerOps, takesEffect
  PROVE  OpRemoves \/ OpRewrites \/ OpAdds
  <1> DEFINE es == Target(cur.row)
             to == cur.to
  <1>0. /\ cur.row \in MessageRow
        /\ box' = Effect(cur.row, cur.pc, to)
        /\ uidNext' = IF cur.pc \in {"move", "copy"} /\ es # {} THEN [uidNext EXCEPT ![to] = @ + 1] ELSE uidNext
        /\ cur.pc \in {"move", "copy"} => to \in Folders
    BY OpIsMail DEF takesEffect
  <1>1. CASE cur.pc = "expunge"
    <2>1. box' = {e \in box : e.f = cur.row.f => ~e.del} /\ uidNext' = uidNext
      BY <1>0, <1>1 DEF Effect
    <2> QED BY <2>1, <1>1 DEF OpRemoves, Shrinks
  <1>2. CASE cur.pc # "expunge" /\ es = {}
    <2>1. box' = box /\ uidNext' = uidNext
      BY <1>0, <1>2 DEF Effect, Moved, ServerOps
    <2> QED BY <2>1, <1>2 DEF OpRemoves, Shrinks
  <1>3. CASE cur.pc # "expunge" /\ es # {}
    <2>1. PICK e \in box : e \in es
      BY <1>3 DEF Target
    <2>2. es = {e} /\ e \in ServerEntry
      BY <2>1 DEF Target, TypeOK, ServerTypeOK
    <2>3. CASE cur.pc = "store"
      <3> DEFINE d == [e EXCEPT !.seen = TRUE]
      <3>1. box' = (box \ {e}) \cup {d} /\ uidNext' = uidNext
        BY <1>0, <2>2, <2>3 DEF Effect
      <3>2. d \in ServerEntry /\ d.f = e.f /\ d.uid = e.uid /\ d.msg = e.msg /\ d.del = e.del
        BY <2>2 DEF ServerEntry
      <3> HIDE DEF d
      <3> QED BY <3>1, <3>2, <2>1, <2>3 DEF OpRewrites, Rewrites
    <2>4. CASE cur.pc = "condemn"
      <3> DEFINE d == [e EXCEPT !.del = TRUE]
      <3>1. box' = (box \ {e}) \cup {d} /\ uidNext' = uidNext
        BY <1>0, <2>2, <2>4 DEF Effect
      <3>2. d \in ServerEntry /\ d.f = e.f /\ d.uid = e.uid /\ d.msg = e.msg
        BY <2>2 DEF ServerEntry
      <3> HIDE DEF d
      <3> QED BY <3>1, <3>2, <2>1, <2>4 DEF OpRewrites, Rewrites
    <2>5. CASE cur.pc \in {"move", "copy"}
      <3> DEFINE d == [e EXCEPT !.f = to, !.uid = uidNext[to]]
      <3>1. Moved(es, to) = {d}
        BY <2>2 DEF Moved
      <3>2. box' = (box \ {e}) \cup {d} \/ (cur.pc = "copy" /\ box' = box \cup {d})
        BY <1>0, <2>2, <2>5, <3>1 DEF Effect
      <3>3. cur.pc = "copy" => box' = box \cup {d}
        BY <1>0, <2>2, <2>5, <3>1 DEF Effect
      <3>4. to \in Folders /\ uidNext[to] \in Nat
        BY <1>0, <2>5 DEF TypeOK, ServerTypeOK
      <3>5. d \in ServerEntry /\ d.f = to /\ d.uid = uidNext[to] /\ d.msg = e.msg /\ d.del = e.del
        BY <2>2, <3>4 DEF ServerEntry
      <3>6. uidNext' = [uidNext EXCEPT ![to] = @ + 1]
        BY <1>0, <2>5, <1>3
      <3> HIDE DEF d
      <3>7. Adds(d)
        BY <3>2, <3>5, <3>6 DEF Adds
      <3>8. box \ {e} \subseteq box' /\ (cur.pc = "copy" => e \in box')
        BY <2>1, <3>2, <3>3
      <3> QED BY <2>1, <2>5, <3>5, <3>7, <3>8 DEF OpAdds
    <2> QED BY <1>3, <2>3, <2>4, <2>5 DEF ServerOps
  <1> QED BY <1>1, <1>2, <1>3
ClientEffect ==
    \E e \in box :
        \/ \E d \in ServerEntry : Rewrites(e, d) /\ (d.del /\ ~e.del => e.msg \in condemned')
        \/ Shrinks /\ box' = box \ {e} /\ e.msg \in condemned'

LEMMA OtherClientEffect ==
  ASSUME TypeOK, OtherClient
  PROVE  ClientEffect /\ condemned \subseteq condemned'
  <1> USE DEF OtherClient
  <1>1. PICK e \in box :
          \/ box' = (box \ {e}) \cup {[e EXCEPT !.seen = ~@]} /\ UNCHANGED condemned
          \/ box' = (box \ {e}) \cup {[e EXCEPT !.del = TRUE]} /\ condemned' = condemned \cup {e.msg}
          \/ box' = box \ {e} /\ condemned' = condemned \cup {e.msg}
    OBVIOUS
  <1>2. uidNext' = uidNext /\ e \in ServerEntry
    BY DEF TypeOK, ServerTypeOK
  <1>3. CASE box' = (box \ {e}) \cup {[e EXCEPT !.seen = ~@]} /\ UNCHANGED condemned
    <2> DEFINE d == [e EXCEPT !.seen = ~@]
    <2>1. d \in ServerEntry /\ d.f = e.f /\ d.uid = e.uid /\ d.msg = e.msg /\ d.del = e.del
      BY <1>2 DEF ServerEntry
    <2>2. box' = (box \ {e}) \cup {d}
      BY <1>3
    <2> HIDE DEF d
    <2>3. Rewrites(e, d)
      BY <1>2, <2>1, <2>2 DEF Rewrites
    <2> QED BY <2>1, <2>3, <1>3 DEF ClientEffect
  <1>4. CASE box' = (box \ {e}) \cup {[e EXCEPT !.del = TRUE]} /\ condemned' = condemned \cup {e.msg}
    <2> DEFINE d == [e EXCEPT !.del = TRUE]
    <2>1. d \in ServerEntry /\ d.f = e.f /\ d.uid = e.uid /\ d.msg = e.msg
      BY <1>2 DEF ServerEntry
    <2>2. box' = (box \ {e}) \cup {d}
      BY <1>4
    <2> HIDE DEF d
    <2>3. Rewrites(e, d)
      BY <1>2, <2>1, <2>2 DEF Rewrites
    <2> QED BY <2>1, <2>3, <1>4 DEF ClientEffect
  <1>5. CASE box' = box \ {e} /\ condemned' = condemned \cup {e.msg}
    BY <1>2, <1>5 DEF ClientEffect, Shrinks
  <1> QED BY <1>1, <1>3, <1>4, <1>5

LEMMA DeliverEffect ==
  ASSUME TypeOK, Deliver
  PROVE  \E d \in ServerEntry : /\ Adds(d) /\ box' = box \cup {d} /\ ~d.del
                                /\ d.msg \notin arrived /\ arrived' = arrived \cup {d.msg}
  <1>1. PICK m \in Msgs \ arrived : /\ arrived' = arrived \cup {m}
                                    /\ box' = box \cup {Entry(Inbox, uidNext[Inbox], m)}
    BY DEF Deliver
  <1> DEFINE d == Entry(Inbox, uidNext[Inbox], m)
  <1>2. Inbox \in Folders /\ uidNext[Inbox] \in Nat
    BY MailboxAssumption DEF TypeOK, ServerTypeOK
  <1>3. d \in ServerEntry /\ d.f = Inbox /\ d.uid = uidNext[Inbox] /\ d.msg = m /\ ~d.del
    BY <1>2 DEF Entry, ServerEntry
  <1>4. box' = box \cup {d} /\ uidNext' = [uidNext EXCEPT ![Inbox] = @ + 1]
    BY <1>1 DEF Deliver
  <1> HIDE DEF d
  <1> QED BY <1>1, <1>3, <1>4 DEF Adds

\* A renumbering changes UIDs only.
RenumberMap ==
    /\ \A e \in box : \E d \in box' : d.msg = e.msg /\ d.del = e.del
    /\ \A d \in box' : \E e \in box : d.msg = e.msg

LEMMA RenumberEffect ==
  ASSUME TypeOK, Renumber
  PROVE  ServerTypeOK' /\ RenumberMap /\ validity'[Inbox] > 1
  <1> DEFINE es == {e \in box : e.f = Inbox}
             n == Cardinality(es)
  <1>1. PICK p \in [es -> 1 .. n] :
          /\ \A a, b \in es : p[a] = p[b] => a = b
          /\ box' = (box \ es) \cup {[e EXCEPT !.uid = p[e]] : e \in es}
          /\ uidNext' = [uidNext EXCEPT ![Inbox] = n + 1]
    BY DEF Renumber
  <1> DEFINE g == [e \in es |-> [e EXCEPT !.uid = p[e]]]
             G == {g[e] : e \in es}
  <1>2. IsFiniteSet(es) /\ n \in Nat
    <2>1. es \in SUBSET box /\ IsFiniteSet(box)
      BY DEF TypeOK, ServerTypeOK
    <2> HIDE DEF es
    <2> QED BY <2>1, FS_Subset, FS_CardinalityType
  <1>3. box' = (box \ es) \cup G
    BY <1>1
  <1>4. \A e \in es : /\ g[e] \in ServerEntry /\ g[e].f = Inbox /\ g[e].uid = p[e] /\ g[e].uid \in 1 .. n
                      /\ g[e].msg = e.msg /\ g[e].del = e.del
    <2> SUFFICES ASSUME NEW e \in es
                 PROVE  /\ g[e] \in ServerEntry /\ g[e].f = Inbox /\ g[e].uid = p[e] /\ g[e].uid \in 1 .. n
                        /\ g[e].msg = e.msg /\ g[e].del = e.del
      OBVIOUS
    <2>1. e \in ServerEntry /\ e.f = Inbox
      BY DEF TypeOK, ServerTypeOK
    <2>2. p[e] \in 1 .. n /\ p[e] \in Nat
      BY <1>2
    <2> HIDE DEF es, n
    <2> QED BY <2>1, <2>2 DEF ServerEntry
  <1>5. IsFiniteSet(box')
    <2>1. DOMAIN g = es
      OBVIOUS
    <2>2. IsFiniteSet(box \ es)
      BY FS_Subset DEF TypeOK, ServerTypeOK
    <2> HIDE DEF g, es
    <2>3. IsFiniteSet(G)
      BY <2>1, <1>2, ImageFinite
    <2> HIDE DEF G
    <2> QED BY <2>2, <2>3, <1>3, FS_Union
  <1>6. \A x \in box \ es : x \in ServerEntry /\ x.f \in Folders /\ x.f # Inbox /\ x.uid < uidNext[x.f]
    BY DEF TypeOK, ServerTypeOK, ServerEntry
  <1>7. \A e \in es : e \in box
    OBVIOUS
  <1>8. Inbox \in Folders /\ uidNext' \in [Folders -> Nat] /\ uidNext'[Inbox] = n + 1
        /\ \A f \in Folders : f # Inbox => uidNext'[f] = uidNext[f]
    BY <1>1, <1>2, MailboxAssumption DEF TypeOK, ServerTypeOK
  <1>9. validity' \in [Folders -> Nat \ {0}] /\ validity'[Inbox] > 1 /\ hasMove' = hasMove /\ hasTrash' = hasTrash
    <2>1. validity' = [validity EXCEPT ![Inbox] = @ + 1] /\ hasMove' = hasMove /\ hasTrash' = hasTrash
      BY DEF Renumber
    <2>2. validity \in [Folders -> Nat \ {0}] /\ Inbox \in Folders
      BY MailboxAssumption DEF TypeOK, ServerTypeOK
    <2> HIDE DEF es, n, g, G
    <2> QED BY <2>1, <2>2
  <1>10. \A a, b \in es : g[a].uid = g[b].uid => a = b
    BY <1>1, <1>4
  <1>11. \A e \in box : e \in es \/ e \in box \ es
    OBVIOUS
  <1> HIDE DEF g, es, n
  <1>12. \A x \in box' : x \in ServerEntry /\ x.uid < uidNext'[x.f]
    BY <1>2, <1>3, <1>4, <1>6, <1>8
  <1>13. \A x, y \in box' : x.f = y.f /\ x.uid = y.uid => x = y
    <2> SUFFICES ASSUME NEW x \in box', NEW y \in box', x.f = y.f, x.uid = y.uid PROVE x = y
      OBVIOUS
    <2>1. CASE x \in G /\ y \in G
      BY <2>1, <1>10
    <2>2. CASE x \in box \ es /\ y \in box \ es
      BY <2>2 DEF TypeOK, ServerTypeOK
    <2>3. CASE (x \in G /\ y \in box \ es) \/ (x \in box \ es /\ y \in G)
      BY <2>3, <1>4, <1>6
    <2> QED BY <1>3, <2>1, <2>2, <2>3
  <1>14. RenumberMap
    <2>1. \A e \in es : g[e] \in box'
      BY <1>3
    <2>2. \A e \in box \ es : e \in box'
      BY <1>3
    <2>3. \A e \in box : \E d \in box' : d.msg = e.msg /\ d.del = e.del
      BY <2>1, <2>2, <1>4, <1>11
    <2>4. \A d \in box' : \E e \in box : d.msg = e.msg
      BY <1>3, <1>4, <1>7
    <2> QED BY <2>3, <2>4 DEF RenumberMap
  <1>15. hasMove' \in BOOLEAN /\ hasTrash' \in BOOLEAN
    BY <1>9 DEF TypeOK, ServerTypeOK
  <1> QED BY <1>5, <1>8, <1>9, <1>12, <1>13, <1>14, <1>15 DEF ServerTypeOK
-----------------------------------------------------------------------------
(* Syncs and the refetch, as far as they change the rows.                  *)

\* The rows kept are rows as they were, but for flags.
SameBut(q, r) == q.id = r.id /\ q.f = r.f /\ q.uid = r.uid /\ q.msg = r.msg /\ q.hidden = r.hidden

LEMMA NumberedEffect ==
  ASSUME TypeOK, NEW kept \in SUBSET MessageRow, \A r \in kept : \E q \in rows : SameBut(q, r),
         NEW es \in SUBSET box, \A d, e \in es : d.f = e.f, SetRows(Numbered(kept, es))
  PROVE  RowsEffect /\ HideEffect
  <1> DEFINE t == Numbered(kept, es)
  <1>1. lastId \in Nat /\ \A r \in kept : r.id <= lastId
    BY DEF SameBut, TypeOK, StoreTypeOK
  <1>2. t \in SUBSET MessageRow /\ \E n \in Nat : \A r \in t : r.id <= n
    BY <1>1, NumberedRows
  <1>3. \A r \in t : r \in kept \/ (~r.hidden /\ \E e \in es : e.f = r.f /\ e.uid = r.uid /\ e.msg = r.msg)
    BY <1>1, NumberedRows
  <1>4. rows' = t /\ SetRows(t)
    BY DEF SetRows
  <1>8. \A q, r \in t : q.id = r.id /\ q \notin kept /\ r \notin kept => q.msg = r.msg
    BY <1>1, NumberedRows
  <1> HIDE DEF t
  <1>9. NewIdsDiffer(t)
    BY <1>1, <1>8 DEF NewIdsDiffer
  <1>5. \A r \in t : Origin(r)
    BY <1>3 DEF Origin, SameBut
  <1>6. RowsEffect
    BY <1>2, <1>4, <1>5, <1>9, SetRowsEffect
  <1>7. HideEffect
    BY <1>3, <1>4 DEF HideEffect, SameBut
  <1> QED BY <1>6, <1>7

LEMMA SyncFolderEffect ==
  ASSUME TypeOK, NEW f \in Folders, SyncFolder(f)
  PROVE  RowsEffect /\ HideEffect /\ anchor' \in [Folders -> Nat]
  <1> DEFINE kept == IF anchor[f] # validity[f] THEN {r \in rows : r.f # f} ELSE rows
             high == IF anchor[f] # validity[f] THEN 0 ELSE HighestUID(f)
             es == {e \in box : e.f = f /\ e.uid > high}
  <1>1. kept \in SUBSET rows /\ es \in SUBSET box /\ \A d, e \in es : d.f = e.f
    OBVIOUS
  <1>2. SetRows(Numbered(kept, es)) /\ anchor' = [anchor EXCEPT ![f] = validity[f]]
    BY DEF SyncFolder
  <1> HIDE DEF kept, es
  <1>3. kept \in SUBSET MessageRow /\ \A r \in kept : \E q \in rows : SameBut(q, r)
    BY <1>1 DEF TypeOK, StoreTypeOK, SameBut
  <1>4. RowsEffect /\ HideEffect
    BY <1>1, <1>2, <1>3, NumberedEffect
  <1> QED BY <1>2, <1>4 DEF TypeOK, StoreTypeOK, ServerTypeOK

LEMMA InboxFlagsKeep ==
  ASSUME TypeOK, NEW r \in rows
  PROVE  InboxFlags(r) \in MessageRow /\ SameBut(r, InboxFlags(r))
  <1>1. r \in MessageRow
    BY DEF TypeOK, StoreTypeOK
  <1>2. CASE Entries(r) # {}
    <2> DEFINE b == (CHOOSE e \in Entries(r) : TRUE).seen
    <2>1. b \in BOOLEAN
      BY <1>2 DEF TypeOK, ServerTypeOK, ServerEntry, Entries
    <2>2. InboxFlags(r) = [r EXCEPT !.seen = b]
      BY <1>2 DEF InboxFlags
    <2> HIDE DEF b
    <2> QED BY <1>1, <2>1, <2>2 DEF MessageRow, SameBut
  <1>3. CASE Entries(r) = {}
    <2>1. InboxFlags(r) = r
      BY <1>3 DEF InboxFlags
    <2> QED BY <1>1, <2>1 DEF SameBut
  <1> QED BY <1>2, <1>3

\* Rows that were there before, but for flags, are no new ones.
LEMMA KeepsEffect ==
  ASSUME TypeOK, NEW t \in SUBSET MessageRow, \A r \in t : \E q \in rows : SameBut(q, r), SetRows(t)
  PROVE  RowsEffect /\ HideEffect
  <1>1. lastId \in Nat /\ \A r \in t : r.id <= lastId
    BY DEF SameBut, TypeOK, StoreTypeOK
  <1>2. \A r \in t : Origin(r)
    BY DEF Origin, SameBut
  <1>3. NewIdsDiffer(t)
    BY <1>1 DEF NewIdsDiffer
  <1>4. RowsEffect
    BY <1>1, <1>2, <1>3, SetRowsEffect
  <1>5. rows' = t
    BY DEF SetRows
  <1> QED BY <1>4, <1>5 DEF HideEffect, SameBut

LEMMA IdleEffect ==
  ASSUME TypeOK, IdleWorker
  PROVE  RowsEffect /\ HideEffect /\ anchor' \in [Folders -> Nat]
  <1>0. anchor \in [Folders -> Nat] /\ rows \subseteq MessageRow
    BY DEF TypeOK, StoreTypeOK
  <1>1. CASE runSession \/ deltaSync
    BY <1>1, SyncFolderEffect, MailboxAssumption DEF runSession, deltaSync
  <1>2. CASE reconcileExpunged
    <2> DEFINE t == {r \in rows : r.f = Inbox => Entries(r) # {}}
    <2>1. t \in SUBSET MessageRow /\ \A r \in t : \E q \in rows : SameBut(q, r)
      BY <1>0 DEF SameBut
    <2>2. SetRows(t) /\ UNCHANGED anchor
      BY <1>2 DEF reconcileExpunged
    <2> HIDE DEF t
    <2> QED BY <1>0, <2>1, <2>2, KeepsEffect
  <1>3. CASE RefreshFlags
    <2>1. PICK us : SetRows({IF r.f = Inbox /\ r.uid \in us THEN InboxFlags(r) ELSE r : r \in rows})
      BY <1>3 DEF RefreshFlags
    <2> DEFINE new(r) == IF r.f = Inbox /\ r.uid \in us THEN InboxFlags(r) ELSE r
               t == {new(r) : r \in rows}
    <2>2. \A r \in rows : new(r) \in MessageRow /\ SameBut(r, new(r))
      BY <1>0, InboxFlagsKeep DEF SameBut
    <2>3. SetRows(t) /\ UNCHANGED anchor
      BY <1>3, <2>1 DEF RefreshFlags
    <2> HIDE DEF new
    <2>4. t \in SUBSET MessageRow /\ \A r \in t : \E q \in rows : SameBut(q, r)
      BY <2>2
    <2> HIDE DEF t
    <2> QED BY <1>0, <2>3, <2>4, KeepsEffect
  <1> QED BY <1>1, <1>2, <1>3 DEF IdleWorker

LEMMA WriteBackEffect ==
  ASSUME TypeOK, cur # Idle, cur.k = "refetch", UpsertMessage(cur.row)
  PROVE  RowsEffect /\ HideEffect
  <1> DEFINE old == cur.row
             same == {r \in rows : r.f = old.f /\ r.uid = old.uid}
             t == rows \ same
             T == {0} \cup {r.id : r \in t}
  <1>1. old \in MessageRow
    BY DEF TypeOK, CurTypeOK, MailRun, SyncRun
  <1>2. rows \subseteq MessageRow /\ lastId \in Nat /\ \A r \in rows : r.id \in Nat /\ r.id <= lastId
    BY DEF TypeOK, StoreTypeOK, MessageRow
  <1>3. Max(T) \in Nat /\ Max(T) <= lastId
    <2>1. T \in SUBSET Nat /\ T # {} /\ \A x \in T : x <= lastId
      BY <1>2
    <2> HIDE DEF T
    <2> QED BY <1>2, <2>1, MaxIsMax
  <1>4. PICK i \in Nat, b \in BOOLEAN : i <= lastId + 1 /\ SetRows(t \cup {[old EXCEPT !.id = i, !.snoozed = b]})
    <2>1. CASE same = {}
      <3>1. SetRows(t \cup {[old EXCEPT !.id = Max(T) + 1, !.snoozed = FALSE]})
        BY <2>1 DEF UpsertMessage
      <3>2. Max(T) + 1 \in Nat /\ Max(T) + 1 <= lastId + 1
        BY <1>2, <1>3
      <3> HIDE DEF T
      <3> QED BY <3>1, <3>2
    <2>2. CASE same # {}
      <3> DEFINE r == CHOOSE r \in same : TRUE
      <3>1. SetRows(t \cup {[old EXCEPT !.id = r.id, !.snoozed = r.snoozed]})
        BY <2>2 DEF UpsertMessage
      <3>2. r \in rows
        BY <2>2
      <3> HIDE DEF r
      <3>3. r.id \in Nat /\ r.id <= lastId + 1 /\ r.snoozed \in BOOLEAN
        BY <1>2, <3>2 DEF MessageRow
      <3> QED BY <3>1, <3>3
    <2> QED BY <2>1, <2>2
  <1> DEFINE w == [old EXCEPT !.id = i, !.snoozed = b]
             u == t \cup {w}
  <1>5. w \in MessageRow /\ w.id = i /\ w.f = old.f /\ w.uid = old.uid /\ w.msg = old.msg /\ w.hidden = old.hidden
    BY <1>1 DEF MessageRow
  <1>6. SetRows(u) /\ \A r \in u : r = w \/ r \in rows
    BY <1>4
  <1>7. u \in SUBSET MessageRow
    BY <1>2, <1>5
  <1> HIDE DEF w, u
  <1>8. \A r \in u : r.id <= lastId + 1 /\ Origin(r)
    <2> SUFFICES ASSUME NEW r \in u PROVE r.id <= lastId + 1 /\ Origin(r)
      OBVIOUS
    <2>1. CASE r = w
      BY <2>1, <1>4, <1>5 DEF Origin
    <2>2. CASE r \in rows
      BY <2>2, <1>2 DEF Origin
    <2> QED BY <1>6, <2>1, <2>2
  <1>9. RowsEffect
    <2>1. NewIdsDiffer(u)
      BY <1>2, <1>6 DEF NewIdsDiffer
    <2> QED BY <1>2, <1>6, <1>7, <1>8, <2>1, SetRowsEffect
  <1>10. rows' = u
    BY <1>6 DEF SetRows
  <1>11. HideEffect
    BY <1>5, <1>6, <1>10 DEF HideEffect
  <1> QED BY <1>9, <1>11

-----------------------------------------------------------------------------
(* Taps and the start of a command.                                        *)

\* A command about the message of a row that is there, or a folder sync.
Queues(c) ==
    /\ queue' = Append(queue, c)
    /\ c \in SyncCmd \/ (c \in MailCmd /\ \E r \in rows : c.id = r.id /\ c.msg = r.msg)

AllButQueue == UNCHANGED <<capVars, inboxVars, serverVars, storeVars, cur, pooled, idVars, histVars>>

LEMMA UserEffect ==
  ASSUME TypeOK, UserActs
  PROVE  AllButQueue /\ (UNCHANGED queue \/ \E c \in MailCmd \cup SyncCmd : Queues(c))
  <1>1. ASSUME NEW r \in rows, NEW k \in {"mark", "move", "delete", "refetch", "attach", "snooze"}, Send(Command(k, r))
        PROVE  AllButQueue /\ \E c \in MailCmd \cup SyncCmd : Queues(c)
    <2> DEFINE c == Command(k, r)
    <2>1. c \in MailCmd /\ c.id = r.id /\ c.msg = r.msg
      BY <1>1 DEF Command, MailCmd, TypeOK, StoreTypeOK, MessageRow
    <2>2. queue' = Append(queue, c) /\ AllButQueue
      BY <1>1 DEF Send, AllButQueue
    <2> HIDE DEF c
    <2> QED BY <2>1, <2>2 DEF Queues
  <1>2. ASSUME NEW f \in Folders, SelectFolder(f)
        PROVE  AllButQueue /\ \E c \in MailCmd \cup SyncCmd : Queues(c)
    <2> DEFINE c == [k |-> "sync", to |-> f]
    <2>1. c \in SyncCmd
      BY DEF SyncCmd
    <2>2. queue' = Append(queue, c) /\ AllButQueue
      BY <1>2 DEF SelectFolder, Send, AllButQueue
    <2> HIDE DEF c
    <2> QED BY <2>1, <2>2 DEF Queues
  <1>3. ASSUME NEW r \in rows, requestRefetch(r), ~Send(Command("refetch", r))
        PROVE  AllButQueue /\ UNCHANGED queue
    BY <1>3 DEF requestRefetch, AllButQueue
  <1>4. ASSUME NEW r \in rows, handleAction(r) \/ handleActions(r) \/ DownloadAttachment(r)
        PROVE  \E k \in {"mark", "move", "delete", "refetch", "attach", "snooze"} : Send(Command(k, r))
    BY <1>4 DEF handleAction, handleActions, DownloadAttachment
  <1> QED BY <1>1, <1>2, <1>3, <1>4 DEF UserActs
Starts(r, c) ==
    /\ cur' \in MailRun /\ cur'.row = r /\ cur'.meant = c.msg /\ cur'.pc = "conn"
    /\ cur'.k = "move" => cur'.to \in Folders
    /\ cur'.k = "destroy" => c.msg \in condemned'

ReplacesRow(r, w) ==
    /\ w \in MessageRow /\ rows' = (rows \ {r}) \cup {w}
    /\ w.id = r.id /\ w.f = r.f /\ w.uid = r.uid /\ w.msg = r.msg
    /\ w.hidden => r.hidden \/ (cur' \in MailRun /\ cur'.k = "destroy" /\ cur'.row = r)

StartsOn(r, c) ==
    /\ r \in rows /\ r.id = c.id
    /\ strays' = IF r.msg = c.msg THEN strays ELSE strays \cup {r.msg}
    /\ condemned \subseteq condemned'
    /\ UNCHANGED cur \/ Starts(r, c)
    /\ UNCHANGED rows \/ \E w \in MessageRow : ReplacesRow(r, w)

LEMMA StartsOnEffect ==
  ASSUME TypeOK, cur = Idle, NEW c \in MailCmd, NEW r \in rows, r.id = c.id,
         strays' = IF r.msg = c.msg THEN strays ELSE strays \cup {r.msg},
         \/ execMark(r, c.msg)
         \/ execMove(r, Archive, c.msg)
         \/ execDelete(r, c.msg)
         \/ execRefetchMessage(r, c.msg)
         \/ execFetchAttachment(r, c.msg)
         \/ execSnooze(r)
  PROVE  StartsOn(r, c)
  <1>1. r \in MessageRow /\ c.msg \in Msgs
    BY DEF TypeOK, StoreTypeOK, MailCmd
  <1>2. \A k \in {"mark", "move", "destroy", "refetch", "attach"}, to \in Folders \cup {None} :
           LET n == Running(k, r, to, c.msg)
           IN  n \in MailRun /\ n.k = k /\ n.row = r /\ n.to = to /\ n.meant = c.msg /\ n.pc = "conn"
    BY <1>1 DEF Running, MailRun, Places
  <1>3. Archive \in Folders /\ Trash \in Folders
    BY MailboxAssumption
  <1> HIDE DEF Running
  <1>4. CASE execMark(r, c.msg)
    <2> DEFINE w == [r EXCEPT !.seen = TRUE]
    <2>1. cur' = Running("mark", r, None, c.msg) /\ rows' = (rows \ {r}) \cup {w} /\ condemned' = condemned
      BY <1>4 DEF execMark
    <2>2. w \in MessageRow /\ w.id = r.id /\ w.f = r.f /\ w.uid = r.uid /\ w.msg = r.msg /\ w.hidden = r.hidden
      BY <1>1 DEF MessageRow
    <2> HIDE DEF w
    <2>3. Starts(r, c)
      BY <2>1, <1>2 DEF Starts
    <2>4. ReplacesRow(r, w)
      BY <2>1, <2>2 DEF ReplacesRow
    <2> QED BY <2>1, <2>2, <2>3, <2>4 DEF StartsOn
  <1>5. ASSUME NEW to \in Folders, execMove(r, to, c.msg) PROVE StartsOn(r, c)
    <2>1. cur' = Running("move", r, to, c.msg) /\ rows' = rows /\ condemned' = condemned
      BY <1>5 DEF execMove
    <2>2. Starts(r, c)
      BY <2>1, <1>2 DEF Starts
    <2> QED BY <2>1, <2>2 DEF StartsOn
  <1>6. CASE execDelete(r, c.msg) /\ ~(hasTrash /\ r.f # Trash)
    <2> DEFINE w == [r EXCEPT !.hidden = TRUE]
    <2>1. /\ cur' = Running("destroy", r, None, c.msg) /\ rows' = (rows \ {r}) \cup {w}
          /\ condemned' = condemned \cup {c.msg}
      BY <1>6 DEF execDelete
    <2>2. w \in MessageRow /\ w.id = r.id /\ w.f = r.f /\ w.uid = r.uid /\ w.msg = r.msg
      BY <1>1 DEF MessageRow
    <2> HIDE DEF w
    <2>3. Starts(r, c) /\ cur'.k = "destroy"
      BY <2>1, <1>2 DEF Starts
    <2>4. ReplacesRow(r, w)
      BY <2>1, <2>2, <2>3 DEF ReplacesRow, Starts
    <2> QED BY <2>1, <2>2, <2>3, <2>4 DEF StartsOn
  <1>7. CASE execRefetchMessage(r, c.msg) \/ execFetchAttachment(r, c.msg)
    <2>1. \E k \in {"refetch", "attach"} : cur' = Running(k, r, None, c.msg) /\ rows' = rows /\ condemned' = condemned
      BY <1>7 DEF execRefetchMessage, execFetchAttachment
    <2>2. Starts(r, c)
      BY <2>1, <1>2 DEF Starts
    <2> QED BY <2>1, <2>2 DEF StartsOn
  <1>8. CASE execSnooze(r)
    <2> DEFINE w == [r EXCEPT !.snoozed = TRUE]
    <2>1. cur' = cur /\ rows' = (rows \ {r}) \cup {w} /\ condemned' = condemned
      BY <1>8 DEF execSnooze, SetSnooze
    <2>2. w \in MessageRow /\ w.id = r.id /\ w.f = r.f /\ w.uid = r.uid /\ w.msg = r.msg /\ w.hidden = r.hidden
      BY <1>1 DEF MessageRow
    <2> HIDE DEF w
    <2>3. ReplacesRow(r, w)
      BY <2>1, <2>2 DEF ReplacesRow
    <2> QED BY <2>1, <2>2, <2>3 DEF StartsOn
  <1> QED BY <1>3, <1>4, <1>5, <1>6, <1>7, <1>8 DEF execDelete

HandleStart ==
    /\ cur = Idle /\ queue # <<>> /\ queue' = Tail(queue)
    /\ UNCHANGED <<capVars, inboxVars, serverVars, anchor, files, pooled, idVars, arrived, stranded>>
    /\ \/ cur' \in SyncRun /\ cur'.pc = "conn" /\ UNCHANGED <<rows, condemned, strays>>
       \/ UNCHANGED <<cur, rows, condemned, strays>>
       \/ Head(queue) \in MailCmd /\ \E r \in rows : StartsOn(r, Head(queue))

LEMMA HandleEffect ==
  ASSUME TypeOK, handleCmd
  PROVE  HandleStart
  <1> DEFINE c == Head(queue)
  <1>1. /\ cur = Idle /\ queue # <<>> /\ queue' = Tail(queue)
        /\ UNCHANGED <<capVars, inboxVars, serverVars, anchor, files, pooled, idVars, arrived, stranded>>
    BY DEF handleCmd
  <1>2. c \in MailCmd \cup SyncCmd
    BY <1>1 DEF TypeOK, QueueTypeOK
  <1>3. CASE c.k = "sync"
    <2>1. c \in SyncCmd
      BY <1>2, <1>3 DEF MailCmd
    <2>2. cur' = Running("sync", None, c.to, None) /\ UNCHANGED <<rows, condemned, strays>>
      BY <1>3 DEF handleCmd, execSyncFolder
    <2>3. cur' \in SyncRun /\ cur'.pc = "conn"
      BY <2>1, <2>2 DEF Running, SyncCmd, SyncRun, Places
    <2> QED BY <1>1, <2>2, <2>3 DEF HandleStart
  <1>4. CASE c.k # "sync" /\ ~UNCHANGED <<rows, cur, condemned, strays>>
    <2>1. c \in MailCmd
      BY <1>2, <1>4 DEF SyncCmd
    <2>2. \E r \in RowWith(c.id) :
            /\ strays' = IF r.msg = c.msg THEN strays ELSE strays \cup {r.msg}
            /\ \/ execMark(r, c.msg)
               \/ execMove(r, Archive, c.msg)
               \/ execDelete(r, c.msg)
               \/ execRefetchMessage(r, c.msg)
               \/ execFetchAttachment(r, c.msg)
               \/ execSnooze(r)
      BY <1>4 DEF handleCmd
    <2> HIDE DEF c
    <2>3. \E r \in rows : StartsOn(r, c)
      BY <1>1, <2>1, <2>2, StartsOnEffect DEF RowWith
    <2> QED BY <1>1, <2>1, <2>3 DEF HandleStart, c
  <1> QED BY <1>1, <1>3, <1>4 DEF HandleStart

LEMMA ConnectEffect ==
  ASSUME TypeOK, usePooled \/ dial
  PROVE  Continues /\ cur'.pc # "conn" /\ CurTypeOK' /\ (cur.k = "move" => cur'.pc # "condemn")
  <1>0. cur # Idle /\ cur.k \in RunKinds /\ UNCHANGED hasMove
    BY RunKind DEF TypeOK, usePooled, dial
  <1> DEFINE q == Head(Steps(cur.k))
  <1>1. q \in PlacesOf(cur.k) /\ q # "conn" /\ (cur.k = "move" => q # "condemn")
    BY <1>0, StepsStart
  <1>2. q \in Places
    BY <1>0, <1>1, PlacesKnown
  <1>3. cur' = [cur EXCEPT !.pc = q] \/ cur' = [cur EXCEPT !.pc = q, !.fresh = TRUE]
    BY DEF usePooled, dial
  <1> HIDE DEF q
  <1>4. Continues /\ cur'.pc = q
    BY <1>0, <1>2, <1>3, RunMoved DEF TypeOK
  <1> QED BY <1>0, <1>1, <1>4, CurContinues DEF TypeOK
-----------------------------------------------------------------------------
(* Every step, seen from the rows.                                         *)

LEMMA SameRows ==
  ASSUME TypeOK, UNCHANGED <<rows, idVars>>
  PROVE  RowsEffect /\ HideEffect
  BY KeptRowsEffect DEF HideEffect, TypeOK, StoreTypeOK

LEMMA RestoreEffect ==
  ASSUME TypeOK, restore, UNCHANGED idVars
  PROVE  /\ RowsEffect /\ HideEffect /\ stranded \subseteq stranded'
         /\ \A r \in rows' : r.hidden /\ cur.k = "destroy" /\ r.id = cur.row.id => r.msg \in stranded'
  <1> DEFINE new(r) == IF cur.k = "destroy" /\ r.id = cur.row.id THEN [r EXCEPT !.hidden = FALSE] ELSE r
  <1>1. CASE rows' = {new(r) : r \in rows} /\ UNCHANGED stranded
    <2>2. \A r \in rows : /\ new(r) \in MessageRow /\ new(r).id = r.id /\ new(r).f = r.f /\ new(r).uid = r.uid
                          /\ new(r).msg = r.msg /\ (new(r).hidden => r.hidden)
                          /\ (new(r).hidden => ~(cur.k = "destroy" /\ r.id = cur.row.id))
      BY DEF TypeOK, StoreTypeOK, MessageRow
    <2> HIDE DEF new
    <2>3. RowsEffect
      BY <1>1, <2>2, KeptRowsEffect
    <2>4. HideEffect
      BY <1>1, <2>2 DEF HideEffect
    <2> QED BY <1>1, <2>2, <2>3, <2>4
  <1>2. CASE UNCHANGED rows /\ stranded' = stranded \cup StillHidden
    BY <1>2, SameRows DEF StillHidden, RowWith
  <1> QED BY <1>1, <1>2 DEF restore

LEMMA HandleRows ==
  ASSUME TypeOK, HandleStart
  PROVE  RowsEffect /\ HideEffect
  <1>1. UNCHANGED idVars /\ cur = Idle
    BY DEF HandleStart
  <1>2. CASE UNCHANGED rows
    BY <1>1, <1>2, SameRows
  <1>3. CASE ~UNCHANGED rows
    <2>1. PICK r \in rows, w \in MessageRow : ReplacesRow(r, w)
      BY <1>3 DEF HandleStart, StartsOn
    <2>2. RowsEffect
      BY <1>1, <2>1, KeptRowsEffect DEF ReplacesRow, TypeOK, StoreTypeOK
    <2>3. \A x \in MailRun : x # Idle
      BY DEF MailRun, Idle
    <2>4. HideEffect
      BY <1>1, <2>1, <2>3 DEF ReplacesRow, HideEffect
    <2> QED BY <2>2, <2>4
  <1> QED BY <1>2, <1>3

LEMMA PullEffect ==
  ASSUME TypeOK, pull
  PROVE  RowsEffect /\ HideEffect /\ anchor' \in [Folders -> Nat]
  <1>1. cur.k \in {"move", "sync"}
    BY RunKind DEF TypeOK, CurTypeOK, pull, PlacesOf, RunKinds
  <1>2. cur # Idle /\ cur.to \in Folders
    BY <1>1 DEF pull, TypeOK, CurTypeOK
  <1>3. CASE SyncFolder(cur.to)
    BY <1>2, <1>3, SyncFolderEffect
  <1>4. CASE ~SyncFolder(cur.to)
    <2>1. UNCHANGED <<rows, idVars, anchor>>
      BY <1>4 DEF pull, storeVars
    <2> QED BY <2>1, SameRows DEF TypeOK, StoreTypeOK
  <1> QED BY <1>3, <1>4

LEMMA WriteIsRefetch ==
  ASSUME TypeOK, writeBack
  PROVE  cur # Idle /\ cur.k = "refetch"
  BY RunKind DEF TypeOK, CurTypeOK, writeBack, PlacesOf, RunKinds

LEMMA DropEffect ==
  ASSUME TypeOK, deleteLocal
  PROVE  /\ RowsEffect /\ HideEffect /\ stranded \subseteq stranded' /\ rows' \subseteq rows
         /\ \A r \in rows' : r.hidden /\ r.id = cur.row.id => r.msg \in stranded'
  <1>0. UNCHANGED idVars
    BY DEF deleteLocal
  <1>1. CASE rows' = rows \ RowWith(cur.row.id) /\ UNCHANGED stranded
    <2>1. \A r \in rows' : r \in rows /\ r.id # cur.row.id
      BY <1>1 DEF RowWith
    <2>2. RowsEffect
      BY <1>0, <1>1, <2>1, KeptRowsEffect DEF TypeOK, StoreTypeOK
    <2> QED BY <1>1, <2>1, <2>2 DEF HideEffect
  <1>2. CASE UNCHANGED rows /\ RowWith(cur.row.id) = {} /\ UNCHANGED stranded
    BY <1>0, <1>2, SameRows DEF RowWith
  <1>3. CASE UNCHANGED rows /\ stranded' = stranded \cup StillHidden
    BY <1>0, <1>3, SameRows DEF StillHidden, RowWith
  <1> QED BY <1>1, <1>2, <1>3 DEF deleteLocal

LEMMA RowsStep ==
  ASSUME TypeOK, [Next]_vars
  PROVE  RowsEffect /\ HideEffect /\ anchor' \in [Folders -> Nat]
  <1>0. anchor \in [Folders -> Nat]
    BY DEF TypeOK, StoreTypeOK
  <1> USE DEF storeVars
  <1>1. CASE UserActs
    BY <1>0, <1>1, UserEffect, SameRows DEF AllButQueue
  <1>2. CASE handleCmd
    BY <1>0, <1>2, HandleEffect, HandleRows DEF HandleStart
  <1>3. CASE usePooled \/ dial \/ dialFails \/ maxCmdIdle \/ fetchBody \/ saveAttachment
    BY <1>0, <1>3, SameRows DEF usePooled, dial, dialFails, maxCmdIdle, fetchBody, saveAttachment
  <1>4. CASE serverOp
    BY <1>0, <1>4, SameRows, RestoreEffect DEF serverOp
  <1>5. CASE serverOpRefused
    BY <1>0, <1>5, RestoreEffect DEF serverOpRefused
  <1>6. CASE deleteLocal
    BY <1>0, <1>6, DropEffect DEF deleteLocal
  <1>7. CASE pull
    BY <1>7, PullEffect
  <1>8. CASE writeBack
    <2>1. CASE UpsertMessage(cur.row) /\ UNCHANGED anchor
      BY <1>0, <1>8, <2>1, WriteIsRefetch, WriteBackEffect
    <2>2. CASE UNCHANGED <<rows, idVars, anchor>>
      BY <1>0, <2>2, SameRows
    <2> QED BY <1>8, <2>1, <2>2 DEF writeBack
  <1>9. CASE IdleWorker
    BY <1>9, IdleEffect
  <1>10. CASE SessionEnds \/ CrashRestart \/ Deliver \/ OtherClient \/ Renumber \/ UNCHANGED vars
    BY <1>0, <1>10, SameRows DEF SessionEnds, CrashRestart, Deliver, OtherClient, Renumber, vars
  <1> QED BY <1>1, <1>2, <1>3, <1>4, <1>5, <1>6, <1>7, <1>8, <1>9, <1>10 DEF Next, CommandLoop

-----------------------------------------------------------------------------
(* Types.                                                                  *)

LEMMA ServerStep ==
  ASSUME TypeOK, [Next]_vars
  PROVE  ServerTypeOK'
  <1>0. ServerTypeOK
    BY DEF TypeOK
  <1>1. CASE UNCHANGED <<capVars, serverVars>>
    BY <1>0, <1>1 DEF ServerTypeOK, serverVars
  <1>2. CASE serverOp
    <2>1. UNCHANGED <<hasMove, hasTrash, validity>> /\ (OpRemoves \/ OpRewrites \/ OpAdds)
      BY <1>2, OpEffect DEF serverOp
    <2> QED BY <1>0, <2>1, ShrinksTyped, RewritesTyped, AddsTyped DEF OpRemoves, OpRewrites, OpAdds
  <1>3. CASE Deliver
    <2>1. UNCHANGED <<hasMove, hasTrash, validity>> /\ \E d \in ServerEntry : Adds(d)
      BY <1>3, DeliverEffect DEF Deliver
    <2> QED BY <1>0, <2>1, AddsTyped
  <1>4. CASE OtherClient
    <2>1. UNCHANGED <<hasMove, hasTrash, validity>> /\ ClientEffect
      BY <1>4, OtherClientEffect DEF OtherClient
    <2> QED BY <1>0, <2>1, ShrinksTyped, RewritesTyped DEF ClientEffect
  <1>5. CASE Renumber
    BY <1>5, RenumberEffect
  <1>6. CASE UserActs
    BY <1>6, <1>1, UserEffect DEF AllButQueue
  <1>7. CASE handleCmd
    BY <1>7, <1>1 DEF handleCmd
  <1>8. CASE usePooled \/ dial \/ dialFails \/ maxCmdIdle \/ serverOpRefused \/ deleteLocal
    BY <1>8, <1>1 DEF usePooled, dial, dialFails, maxCmdIdle, serverOpRefused, deleteLocal
  <1>9. CASE pull \/ fetchBody \/ writeBack \/ saveAttachment \/ IdleWorker \/ SessionEnds \/ CrashRestart \/ UNCHANGED vars
    BY <1>9, <1>1 DEF pull, fetchBody, writeBack, saveAttachment, IdleWorker, runSession, deltaSync, reconcileExpunged,
       RefreshFlags, SessionEnds, CrashRestart, vars
  <1> QED BY <1>2, <1>3, <1>4, <1>5, <1>6, <1>7, <1>8, <1>9 DEF Next, CommandLoop

LEMMA CurSame ==
  ASSUME TypeOK, UNCHANGED <<hasMove, cur>>
  PROVE  CurTypeOK'
  BY DEF TypeOK, CurTypeOK, PlacesOf

\* A new command has a connection to find first.
LEMMA HandleTyped ==
  ASSUME TypeOK, HandleStart
  PROVE  CurTypeOK' /\ queue' \in Seq(MailCmd \cup SyncCmd) /\ UNCHANGED pooled
  <1>1. queue' \in Seq(MailCmd \cup SyncCmd) /\ UNCHANGED <<pooled, hasMove>>
    BY DEF HandleStart, TypeOK, QueueTypeOK
  <1>2. CASE UNCHANGED cur
    BY <1>1, <1>2, CurSame
  <1>3. CASE cur' \in SyncRun /\ cur'.pc = "conn"
    <2>1. (cur.pc \in PlacesOf(cur.k))'
      BY <1>3 DEF PlacesOf
    <2>2. (cur \in {Idle} \cup MailRun \cup SyncRun)' /\ (cur.k \in {"move", "sync"} => cur.to \in Folders)'
      BY <1>3 DEF SyncRun
    <2> QED BY <1>1, <2>1, <2>2, Zenon DEF CurTypeOK
  <1>4. CASE \E r \in rows : Starts(r, Head(queue))
    <2>1. cur' \in MailRun /\ cur'.pc = "conn" /\ (cur'.k = "move" => cur'.to \in Folders)
      BY <1>4 DEF Starts
    <2>2. (cur.pc \in PlacesOf(cur.k))'
      BY <2>1 DEF PlacesOf
    <2>3. (cur \in {Idle} \cup MailRun \cup SyncRun)' /\ (cur.k \in {"move", "sync"} => cur.to \in Folders)'
      BY <2>1 DEF MailRun
    <2> QED BY <1>1, <2>2, <2>3, Zenon DEF CurTypeOK
  <1> QED BY <1>1, <1>2, <1>3, <1>4 DEF HandleStart, StartsOn

\* How the running command of a step ends, goes on or is retried.
RunEffect ==
    \/ cur' = Idle
    \/ Continues /\ cur'.pc = "conn"
    \/ Continues /\ (cur.k = "move" /\ cur'.pc = "condemn" => cur.pc = "copy")

LEMMA RunningStep ==
  ASSUME TypeOK, usePooled \/ dial \/ dialFails \/ serverOp \/ serverOpRefused \/ deleteLocal
                 \/ pull \/ fetchBody \/ writeBack \/ saveAttachment
  PROVE  /\ CurTypeOK' /\ pooled' \in BOOLEAN /\ UNCHANGED <<queue, hasMove>>
         /\ cur # Idle /\ RunEffect
  <1>0. pooled \in BOOLEAN
    BY DEF TypeOK, QueueTypeOK
  <1>1. CASE usePooled \/ dial
    BY <1>0, <1>1, ConnectEffect DEF usePooled, dial, RunEffect
  <1>2. CASE dialFails
    BY <1>0, <1>2 DEF dialFails, CurTypeOK, RunEffect
  <1>3. CASE serverOp \/ serverOpRefused
    <2>1. cur # Idle /\ UNCHANGED <<queue, hasMove>> /\ cur.pc # "conn" /\ (advance \/ retry)
      BY <1>3 DEF serverOp, serverOpRefused, ServerOps
    <2> QED BY <2>1, AdvanceEffect, RetryEffect DEF RunEffect
  <1>4. CASE deleteLocal
    <2>1. cur # Idle /\ UNCHANGED <<queue, hasMove>> /\ cur.pc # "conn" /\ (advance \/ retry)
      BY <1>4 DEF deleteLocal
    <2> QED BY <2>1, AdvanceEffect, RetryEffect DEF RunEffect
  <1>5. CASE pull \/ fetchBody \/ writeBack \/ saveAttachment
    <2>1. cur # Idle /\ UNCHANGED <<queue, hasMove>> /\ cur.pc # "conn" /\ (advance \/ retry)
      BY <1>5 DEF pull, fetchBody, writeBack, saveAttachment
    <2> QED BY <2>1, AdvanceEffect, RetryEffect DEF RunEffect
  <1> QED BY <1>1, <1>2, <1>3, <1>4, <1>5

\* What the IDLE worker is told.
LEMMA InboxStep ==
  ASSUME TypeOK, [Next]_vars
  PROVE  InboxTypeOK'
  <1>0. InboxTypeOK /\ box \subseteq ServerEntry
    BY DEF TypeOK, ServerTypeOK
  <1>1. CASE UNCHANGED <<up, told, changed>>
    BY <1>0, <1>1 DEF InboxTypeOK
  <1>2. ASSUME Announce PROVE InboxTypeOK'
    <2>1. Numbers(Altered) \subseteq Nat
      BY <1>0 DEF Numbers, Altered, ServerEntry
    <2>2. CASE up
      <3>1. told' \subseteq {"exists", "expunge", "flags"}
        BY <1>0, <1>2, <2>2 DEF Announce, InboxTypeOK
      <3>2. changed' = changed \cup Numbers(Altered) /\ up' = up
        BY <1>2, <2>2 DEF Announce
      <3> QED BY <1>0, <2>1, <3>1, <3>2 DEF InboxTypeOK
    <2>3. CASE ~up
      BY <1>1, <1>2, <2>3 DEF Announce
    <2> QED BY <2>2, <2>3
  <1>3. CASE serverOp \/ Deliver \/ OtherClient
    BY <1>2, <1>3 DEF serverOp, Deliver, OtherClient
  <1>4. CASE IdleWorker \/ SessionEnds \/ CrashRestart \/ Renumber
    BY <1>0, <1>4 DEF IdleWorker, runSession, deltaSync, reconcileExpunged,
       RefreshFlags, SessionEnds, SessionDown,
                      CrashRestart, Renumber, InboxTypeOK
  <1>5. CASE UserActs
    BY <1>1, <1>5, UserEffect DEF AllButQueue, inboxVars
  <1>6. CASE handleCmd \/ usePooled \/ dial \/ dialFails \/ serverOpRefused \/ deleteLocal
    BY <1>1, <1>6 DEF handleCmd, usePooled, dial, dialFails, serverOpRefused, deleteLocal, inboxVars
  <1>7. CASE pull \/ fetchBody \/ writeBack \/ saveAttachment \/ maxCmdIdle \/ UNCHANGED vars
    BY <1>1, <1>7 DEF pull, fetchBody, writeBack, saveAttachment, maxCmdIdle, vars, inboxVars
  <1> QED BY <1>3, <1>4, <1>5, <1>6, <1>7 DEF Next, CommandLoop

LEMMA TypeStep ==
  ASSUME TypeOK, [Next]_vars
  PROVE  TypeOK'
  <1>1. ServerTypeOK'
    BY ServerStep
  <1>2. StoreTypeOK'
    BY RowsStep DEF RowsEffect, StoreTypeOK
  <1>3. QueueTypeOK' /\ CurTypeOK'
    <2>0. queue \in Seq(MailCmd \cup SyncCmd) /\ pooled \in BOOLEAN
      BY DEF TypeOK, QueueTypeOK
    <2>1. CASE UserActs
      <3>1. queue' \in Seq(MailCmd \cup SyncCmd)
        BY <2>0, <2>1, UserEffect DEF Queues
      <3>2. UNCHANGED <<pooled, hasMove, cur>>
        BY <2>1, UserEffect DEF AllButQueue
      <3> QED BY <2>0, <3>1, <3>2, CurSame DEF QueueTypeOK
    <2>2. CASE handleCmd
      BY <2>0, <2>2, HandleEffect, HandleTyped DEF QueueTypeOK
    <2>3. CASE usePooled \/ dial \/ dialFails \/ serverOp \/ serverOpRefused \/ deleteLocal
               \/ pull \/ fetchBody \/ writeBack \/ saveAttachment
      BY <2>0, <2>3, RunningStep DEF QueueTypeOK
    <2>4. CASE maxCmdIdle \/ IdleWorker \/ SessionEnds \/ Deliver \/ OtherClient \/ UNCHANGED vars
      BY <2>0, <2>4, CurSame DEF QueueTypeOK, maxCmdIdle, IdleWorker, runSession, deltaSync, reconcileExpunged,
         RefreshFlags, SessionEnds, Deliver, OtherClient, vars, loopVars
    <2>5. CASE Renumber
      BY <2>0, <2>5, CurSame DEF QueueTypeOK, Renumber, loopVars
    <2>6. CASE CrashRestart
      <3>1. queue' = <<>> /\ cur' = Idle /\ pooled' = FALSE
        BY <2>6 DEF CrashRestart
      <3>2. CurTypeOK'
        BY <3>1 DEF CurTypeOK
      <3>3. queue' \in Seq(MailCmd \cup SyncCmd)
        BY <3>1
      <3> QED BY <3>1, <3>2, <3>3 DEF QueueTypeOK
    <2> QED BY <2>1, <2>2, <2>3, <2>4, <2>5, <2>6 DEF Next, CommandLoop
  <1>4. InboxTypeOK'
    BY InboxStep
  <1> QED BY <1>1, <1>2, <1>3, <1>4 DEF TypeOK

LEMMA InitTyped == Init => TypeOK
  <1> SUFFICES ASSUME Init PROVE TypeOK
    OBVIOUS
  <1> DEFINE m == CHOOSE m \in Msgs : TRUE
  <1>1. PICK g \in {Inbox, Trash} :
          /\ box = {Entry(g, 1, m)} /\ rows = {Row(1, Entry(g, 1, m))}
          /\ uidNext = [f \in Folders |-> IF f = g THEN 2 ELSE 1]
    BY DEF Init
  <1>2. m \in Msgs /\ g \in Folders
    BY MailboxAssumption
  <1> HIDE DEF m
  <1> DEFINE e == Entry(g, 1, m)
             r == Row(1, e)
  <1>3. e \in ServerEntry /\ e.f = g /\ e.uid = 1
    BY <1>2 DEF Entry, ServerEntry
  <1>4. r \in MessageRow /\ r.id = 1
    BY <1>3 DEF Row, ServerEntry, MessageRow
  <1>5. box = {e} /\ rows = {r}
    BY <1>1
  <1> HIDE DEF e, r
  <1>6. IsFiniteSet(box)
    BY <1>5, FS_Singleton
  <1>7. ServerTypeOK
    <2>1. hasMove \in BOOLEAN /\ hasTrash \in BOOLEAN
      BY MailboxAssumption DEF Init
    <2>2. validity = [f \in Folders |-> 1]
      BY DEF Init
    <2> QED BY <1>1, <1>2, <1>3, <1>5, <1>6, <2>1, <2>2 DEF ServerTypeOK
  <1>8. StoreTypeOK
    <2>1. anchor = [f \in Folders |-> 1] /\ lastId = 1 /\ recycled = FALSE
      BY DEF Init
    <2>2. anchor \in [Folders -> Nat]
      BY <2>1
    <2>3. rows \subseteq MessageRow /\ \A x \in rows : x.id <= lastId
      BY <1>4, <1>5, <2>1
    <2> QED BY <2>1, <2>2, <2>3 DEF StoreTypeOK
  <1>9. QueueTypeOK /\ CurTypeOK
    <2>1. queue = <<>> /\ cur = Idle /\ pooled = FALSE
      BY DEF Init
    <2>2. queue \in Seq(MailCmd \cup SyncCmd)
      BY <2>1
    <2> QED BY <2>1, <2>2 DEF QueueTypeOK, CurTypeOK
  <1>10. InboxTypeOK
    BY DEF Init, InboxTypeOK
  <1> QED BY <1>7, <1>8, <1>9, <1>10 DEF TypeOK

(***************************************************************************)
(* The commands, syncs and other clients keep the types: entries of a      *)
(* folder have UIDs of their own below UIDNEXT, and row ids are bounded    *)
(* by the highest ever handed out.                                         *)
(***************************************************************************)
THEOREM TypeCorrect == Spec => []TypeOK
  <1> QED BY InitTyped, TypeStep, PTL DEF Spec
-----------------------------------------------------------------------------
(* A hidden row.                                                           *)

LEMMA StrandedGrows ==
  ASSUME TypeOK, [Next]_vars
  PROVE  stranded \subseteq stranded'
  <1> USE DEF histVars
  <1>1. CASE UserActs
    BY <1>1, UserEffect DEF AllButQueue
  <1>2. CASE CommandLoop
    BY <1>2 DEF CommandLoop, handleCmd, usePooled, dial, dialFails, serverOp, serverOpRefused, restore, deleteLocal,
                pull, fetchBody, writeBack, saveAttachment
  <1>3. CASE maxCmdIdle \/ IdleWorker \/ SessionEnds \/ CrashRestart \/ Deliver \/ OtherClient \/ Renumber \/ UNCHANGED vars
    BY <1>3 DEF maxCmdIdle, IdleWorker, runSession, deltaSync, reconcileExpunged,
       RefreshFlags, SessionEnds, CrashRestart, Deliver, OtherClient, Renumber, vars
  <1> QED BY <1>1, <1>2, <1>3 DEF Next

LEMMA DestroyPlaces ==
  ASSUME TypeOK, cur # Idle, cur.k = "destroy"
  PROVE  cur.pc \in {"conn", "condemn", "expunge", "drop"} /\ Last(cur.k) = "drop"
  BY DEF TypeOK, CurTypeOK, PlacesOf, Last

\* A delete that ends leaves no row hidden that is not accounted for.
LEMMA DestroyEnds ==
  ASSUME TypeOK, [Next]_vars, cur # Idle, cur.k = "destroy", NEW r \in rows', r.hidden, r.id = cur.row.id,
         \E q \in rows : q.hidden /\ q.msg = r.msg
  PROVE  \/ cur' # Idle /\ cur'.k = "destroy" /\ cur'.row = cur.row
         \/ r.msg \in stranded'
  <1>1. CASE UNCHANGED cur
    BY <1>1
  <1>2. CASE usePooled \/ dial
    BY <1>2, ConnectEffect DEF Continues
  <1>3. CASE dialFails \/ CrashRestart
    BY <1>3 DEF dialFails, CrashRestart, Hidden
  <1>4. CASE serverOp
    <2>1. CASE advance
      BY <1>4, <2>1, AdvanceEffect, DestroyPlaces DEF serverOp, ServerOps, Continues
    <2>2. CASE restore
      BY <1>4, <2>2, RestoreEffect DEF serverOp
    <2> QED BY <1>4, <2>1, <2>2 DEF serverOp
  <1>5. CASE serverOpRefused
    BY <1>5, RestoreEffect DEF serverOpRefused
  <1>6. CASE deleteLocal
    BY <1>6, DropEffect
  <1>7. CASE pull \/ fetchBody \/ writeBack \/ saveAttachment
    BY <1>7, DestroyPlaces DEF pull, fetchBody, writeBack, saveAttachment
  <1>8. CASE handleCmd
    BY <1>8 DEF handleCmd
  <1>9. CASE UserActs
    BY <1>1, <1>9, UserEffect DEF AllButQueue
  <1>10. CASE maxCmdIdle \/ IdleWorker \/ SessionEnds \/ Deliver \/ OtherClient \/ Renumber \/ UNCHANGED vars
    BY <1>1, <1>10 DEF maxCmdIdle, IdleWorker, runSession, deltaSync, reconcileExpunged,
       RefreshFlags, SessionEnds, Deliver, OtherClient, Renumber, vars, loopVars
  <1> QED BY <1>2, <1>3, <1>4, <1>5, <1>6, <1>7, <1>8, <1>9, <1>10 DEF Next, CommandLoop

\* The command under way after a step is the old one or one just begun.
LEMMA CurStep ==
  ASSUME TypeOK, [Next]_vars
  PROVE  \/ cur' = cur \/ cur' = Idle \/ Continues
         \/ HandleStart /\ cur' \in SyncRun
         \/ HandleStart /\ Head(queue) \in MailCmd /\ \E r \in rows : StartsOn(r, Head(queue)) /\ Starts(r, Head(queue))
  <1>1. CASE UserActs
    BY <1>1, UserEffect DEF AllButQueue
  <1>2. CASE handleCmd
    BY <1>2, HandleEffect DEF HandleStart, StartsOn
  <1>3. CASE usePooled \/ dial \/ dialFails \/ serverOp \/ serverOpRefused \/ deleteLocal
             \/ pull \/ fetchBody \/ writeBack \/ saveAttachment
    BY <1>3, RunningStep DEF RunEffect
  <1>4. CASE maxCmdIdle \/ IdleWorker \/ SessionEnds \/ CrashRestart \/ Deliver \/ OtherClient \/ Renumber \/ UNCHANGED vars
    BY <1>4 DEF maxCmdIdle, IdleWorker, runSession, deltaSync, reconcileExpunged,
       RefreshFlags, SessionEnds, CrashRestart, Deliver, OtherClient, Renumber, vars, loopVars
  <1> QED BY <1>1, <1>2, <1>3, <1>4 DEF Next, CommandLoop

LEMMA HidingStep ==
  ASSUME TypeOK, HidingInv, [Next]_vars
  PROVE  HidingInv'
  <1>0. stranded \subseteq stranded' /\ HideEffect
    BY StrandedGrows, RowsStep
  <1>1. ASSUME NEW r \in rows', r.hidden
        PROVE  r.msg \in stranded' \/ (cur' # Idle /\ cur'.k = "destroy" /\ r.id = cur'.row.id)
    <2>1. CASE \E q \in rows : q.hidden /\ q.id = r.id /\ q.msg = r.msg
      <3>1. r.msg \in stranded \/ (cur # Idle /\ cur.k = "destroy" /\ r.id = cur.row.id)
        BY <2>1 DEF HidingInv
      <3> QED BY <1>0, <1>1, <2>1, <3>1, DestroyEnds
    <2>2. CASE cur # Idle /\ cur.k = "refetch" /\ cur.row.hidden /\ cur.row.msg = r.msg
      BY <1>0, <2>2 DEF HidingInv
    <2>3. CASE cur = Idle /\ cur' # Idle /\ cur'.k = "destroy" /\ r.id = cur'.row.id
      BY <2>3
    <2> QED BY <1>0, <1>1, <2>1, <2>2, <2>3 DEF HideEffect
  <1>2. ASSUME cur' # Idle, cur'.k = "refetch", cur'.row.hidden
        PROVE  cur'.row.msg \in stranded'
    <2>1. CASE cur' = cur \/ Continues
      BY <1>0, <1>2, <2>1 DEF HidingInv, Continues
    <2>2. CASE cur' \in SyncRun
      BY <1>2, <2>2 DEF SyncRun
    <2>3. CASE HandleStart /\ \E r \in rows : Starts(r, Head(queue))
      <3>1. cur = Idle /\ cur'.row \in rows
        BY <2>3 DEF HandleStart, Starts
      <3> QED BY <1>0, <1>2, <3>1 DEF HidingInv
    <2> QED BY <1>2, <2>1, <2>2, <2>3, CurStep
  <1> QED BY <1>1, <1>2 DEF HidingInv

(***************************************************************************)
(* execDelete and the restore of a failed DeleteUID: whatever IDLE syncs,  *)
(* refetches and failures come between, no row stays hidden once its       *)
(* delete is over, except one whose dial failed, whose process died, or    *)
(* which the database refused to drop or to restore (exec.go:155-176).     *)
(***************************************************************************)
THEOREM NothingLeftHidden == Spec => []HiddenIsGone
  <1>1. Init => HidingInv
    <2> SUFFICES ASSUME Init PROVE HidingInv
      OBVIOUS
    <2>1. cur = Idle /\ \E e : rows = {Row(1, e)}
      BY DEF Init
    <2>2. \A e : Row(1, e).hidden = FALSE
      BY DEF Row
    <2> QED BY <2>1, <2>2 DEF HidingInv
  <1>2. TypeOK /\ HidingInv /\ [Next]_vars => HidingInv'
    BY HidingStep
  <1>3. HidingInv => HiddenIsGone
    BY DEF HidingInv, HiddenIsGone
  <1> QED BY <1>1, <1>2, <1>3, TypeCorrect, PTL DEF Spec
-----------------------------------------------------------------------------
(* A message and its entries on the server.                                *)

HistoryGrows == arrived \subseteq arrived' /\ condemned \subseteq condemned' /\ strays \subseteq strays'

LEMMA HistoryStep ==
  ASSUME TypeOK, [Next]_vars
  PROVE  HistoryGrows
  <1> USE DEF histVars, HistoryGrows
  <1>1. CASE UserActs
    BY <1>1, UserEffect DEF AllButQueue
  <1>2. CASE handleCmd
    BY <1>2, HandleEffect DEF HandleStart, StartsOn
  <1>3. CASE usePooled \/ dial \/ dialFails \/ serverOp \/ serverOpRefused \/ deleteLocal
             \/ pull \/ fetchBody \/ writeBack \/ saveAttachment
    BY <1>3 DEF usePooled, dial, dialFails, serverOp, takesEffect, serverOpRefused, deleteLocal,
                pull, fetchBody, writeBack, saveAttachment
  <1>4. CASE maxCmdIdle \/ IdleWorker \/ SessionEnds \/ CrashRestart \/ Deliver \/ Renumber \/ UNCHANGED vars
    BY <1>4 DEF maxCmdIdle, IdleWorker, runSession, deltaSync, reconcileExpunged,
       RefreshFlags, SessionEnds, CrashRestart, Deliver, Renumber, vars
  <1>5. CASE OtherClient
    BY <1>5, OtherClientEffect DEF OtherClient
  <1> QED BY <1>1, <1>2, <1>3, <1>4, <1>5 DEF Next, CommandLoop

\* The steps that leave the mailbox alone.
LEMMA BoxSame ==
  ASSUME TypeOK, [Next]_vars, ~serverOp, ~Deliver, ~OtherClient, ~Renumber
  PROVE  UNCHANGED <<box, uidNext, validity>>
  <1> USE DEF serverVars
  <1>1. CASE UserActs
    BY <1>1, UserEffect DEF AllButQueue
  <1>2. CASE CommandLoop
    BY <1>2 DEF CommandLoop, handleCmd, usePooled, dial, dialFails, serverOpRefused, deleteLocal,
                pull, fetchBody, writeBack, saveAttachment
  <1>3. CASE maxCmdIdle \/ IdleWorker \/ SessionEnds \/ CrashRestart \/ UNCHANGED vars
    BY <1>3 DEF maxCmdIdle, IdleWorker, runSession, deltaSync, reconcileExpunged,
       RefreshFlags, SessionEnds, CrashRestart, vars
  <1> QED BY <1>1, <1>2, <1>3 DEF Next

LEMMA BoxMessages ==
  ASSUME TypeOK, NamesDelivered, [Next]_vars
  PROVE  \A d \in box' : d.msg \in arrived'
  <1>0. arrived \subseteq arrived' /\ \A e \in box : e.msg \in arrived
    BY HistoryStep DEF HistoryGrows, NamesDelivered
  <1>1. CASE serverOp
    BY <1>0, <1>1, OpEffect DEF serverOp, OpRemoves, OpRewrites, OpAdds, Shrinks, Rewrites, Adds, Target
  <1>2. CASE Deliver
    BY <1>0, <1>2, DeliverEffect
  <1>3. CASE OtherClient
    BY <1>0, <1>3, OtherClientEffect DEF ClientEffect, Shrinks, Rewrites
  <1>4. CASE Renumber
    BY <1>0, <1>4, RenumberEffect DEF RenumberMap
  <1> QED BY <1>0, <1>1, <1>2, <1>3, <1>4, BoxSame

LEMMA QueueStep ==
  ASSUME TypeOK, [Next]_vars
  PROVE  \A i \in 1 .. Len(queue') :
            \/ \E j \in 1 .. Len(queue) : queue'[i] = queue[j]
            \/ queue'[i] \in SyncCmd
            \/ \E r \in rows : queue'[i].id = r.id /\ queue'[i].msg = r.msg /\ UNCHANGED <<rows, box, uidNext, lastId>>
  <1>0. queue \in Seq(MailCmd \cup SyncCmd)
    BY DEF TypeOK, QueueTypeOK
  <1>1. CASE UNCHANGED queue
    BY <1>1
  <1>2. CASE \E c \in MailCmd \cup SyncCmd : Queues(c) /\ AllButQueue
    <2>1. PICK c : Queues(c) /\ AllButQueue
      BY <1>2
    <2>2. \A i \in 1 .. Len(queue') : queue'[i] = c \/ \E j \in 1 .. Len(queue) : queue'[i] = queue[j]
      BY <1>0, <2>1 DEF Queues
    <2>3. UNCHANGED <<rows, box, uidNext, lastId>>
      BY <2>1 DEF AllButQueue, storeVars, serverVars, idVars
    <2> QED BY <2>1, <2>2, <2>3 DEF Queues
  <1>3. CASE handleCmd
    BY <1>0, <1>3 DEF handleCmd
  <1>4. CASE CrashRestart
    BY <1>4 DEF CrashRestart
  <1>5. CASE UserActs
    BY <1>1, <1>2, <1>5, UserEffect
  <1>6. CASE usePooled \/ dial \/ dialFails \/ serverOp \/ serverOpRefused \/ deleteLocal
             \/ pull \/ fetchBody \/ writeBack \/ saveAttachment
    BY <1>1, <1>6, RunningStep
  <1>7. CASE maxCmdIdle \/ IdleWorker \/ SessionEnds \/ Deliver \/ OtherClient \/ Renumber \/ UNCHANGED vars
    BY <1>1, <1>7 DEF maxCmdIdle, IdleWorker, runSession, deltaSync, reconcileExpunged,
       RefreshFlags, SessionEnds, Deliver, OtherClient, Renumber, vars, loopVars
  <1> QED BY <1>3, <1>4, <1>5, <1>6, <1>7 DEF Next, CommandLoop

LEMMA NamesStep ==
  ASSUME TypeOK, NamesDelivered, [Next]_vars
  PROVE  NamesDelivered'
  <1>0. arrived \subseteq arrived'
    BY HistoryStep DEF HistoryGrows
  <1>1. \A d \in box' : d.msg \in arrived'
    BY BoxMessages
  <1>2. \A r \in rows' : r.msg \in arrived'
    <2> SUFFICES ASSUME NEW r \in rows' PROVE r.msg \in arrived'
      OBVIOUS
    <2>1. Origin(r)
      BY RowsStep DEF RowsEffect
    <2>2. CASE cur # Idle /\ cur.k = "refetch" /\ cur.row.msg = r.msg
      BY <1>0, <2>2 DEF NamesDelivered
    <2> QED BY <1>0, <2>1, <2>2 DEF Origin, NamesDelivered
  <1>3. \A i \in 1 .. Len(queue') : queue'[i].k # "sync" => queue'[i].msg \in arrived'
    BY <1>0, QueueStep DEF NamesDelivered, SyncCmd
  <1>4. cur' # Idle /\ cur'.k # "sync" => {cur'.meant, cur'.row.msg} \subseteq arrived'
    <2>1. CASE cur' = cur \/ cur' = Idle \/ Continues
      BY <1>0, <2>1 DEF NamesDelivered, Continues
    <2>2. CASE cur' \in SyncRun
      BY <2>2 DEF SyncRun
    <2>3. CASE HandleStart /\ Head(queue) \in MailCmd /\ \E r \in rows : Starts(r, Head(queue))
      <3>1. cur'.meant = Head(queue).msg /\ cur'.row \in rows /\ queue # <<>>
        BY <2>3 DEF HandleStart, Starts
      <3>2. Len(queue) >= 1 /\ Head(queue) = queue[1] /\ Len(queue) \in Nat
        BY <3>1 DEF TypeOK, QueueTypeOK
      <3>3. Head(queue).k # "sync"
        BY <2>3 DEF MailCmd
      <3> QED BY <1>0, <3>1, <3>2, <3>3 DEF NamesDelivered
    <2> QED BY <2>1, <2>2, <2>3, CurStep
  <1> QED BY <1>1, <1>2, <1>3, <1>4 DEF NamesDelivered
LEMMA LiveStep ==
  ASSUME TypeOK, CustodyInv, [Next]_vars
  PROVE  LiveEntries'
  <1>0. HistoryGrows
    BY HistoryStep
  <1> SUFFICES ASSUME NEW m \in arrived', m \notin condemned', m \notin strays'
               PROVE  \E d \in box' : d.msg = m /\ ~d.del
    BY DEF LiveEntries, Excused
  <1>1. m \notin condemned /\ m \notin strays
    BY <1>0 DEF HistoryGrows
  <1>2. m \in arrived => \E e \in box : e.msg = m /\ ~e.del
    BY <1>1 DEF CustodyInv, LiveEntries, Excused
  <1>3. CASE serverOp
    <2>0. cur # Idle /\ cur.pc \in ServerOps /\ takesEffect /\ arrived' = arrived
      BY <1>3 DEF serverOp
    <2>1. PICK e \in box : e.msg = m /\ ~e.del
      BY <1>2, <2>0
    <2>2. CASE OpRemoves
      BY <2>1, <2>2 DEF OpRemoves
    <2>3. CASE OpRewrites
      <3>1. PICK x \in Target(cur.row), d \in ServerEntry :
              Rewrites(x, d) /\ (d.del => x.del \/ cur.pc = "condemn")
        BY <2>3 DEF OpRewrites
      <3>2. CASE x # e
        BY <2>1, <3>1, <3>2 DEF Rewrites
      <3>3. CASE x = e /\ ~d.del
        BY <2>1, <3>1, <3>3 DEF Rewrites
      <3>4. CASE x = e /\ d.del
        <4>1. cur.pc = "condemn" /\ cur.k \in {"move", "destroy"}
          BY <2>0, <2>1, <3>1, <3>4, OpIsMail
        <4>2. m = cur.meant
          <5>1. m # cur.meant => m \in strays'
            BY <2>0, <2>1, <3>1, <3>4 DEF takesEffect
          <5> QED BY <5>1
        <4>3. cur.k # "destroy"
          BY <1>1, <2>0, <4>2 DEF CustodyInv, DestroyAsked
        <4>4. PICK y \in box : y.msg = m /\ ~y.del /\ y \notin Target(cur.row)
          BY <1>1, <2>0, <2>1, <3>1, <3>4, <4>1, <4>2, <4>3 DEF CustodyInv, CopyHeld, Excused
        <4> QED BY <3>1, <4>4 DEF Rewrites
      <3> QED BY <3>2, <3>3, <3>4
    <2>4. CASE OpAdds
      BY <2>1, <2>4 DEF OpAdds, Adds
    <2> QED BY <2>0, <2>2, <2>3, <2>4, OpEffect
  <1>4. CASE Deliver
    BY <1>2, <1>4, DeliverEffect
  <1>5. CASE OtherClient
    <2>1. arrived' = arrived /\ ClientEffect
      BY <1>5, OtherClientEffect DEF OtherClient
    <2>2. PICK e \in box : e.msg = m /\ ~e.del
      BY <1>2, <2>1
    <2>3. PICK x \in box :
            \/ \E d \in ServerEntry : Rewrites(x, d) /\ (d.del /\ ~x.del => x.msg \in condemned')
            \/ Shrinks /\ box' = box \ {x} /\ x.msg \in condemned'
      BY <2>1 DEF ClientEffect
    <2>4. CASE x # e
      BY <2>2, <2>3, <2>4 DEF Rewrites
    <2>5. CASE x = e
      BY <2>2, <2>3, <2>5 DEF Rewrites
    <2> QED BY <2>4, <2>5
  <1>6. CASE Renumber
    <2>1. arrived' = arrived /\ RenumberMap
      BY <1>6, RenumberEffect DEF Renumber, histVars
    <2>2. PICK e \in box : e.msg = m /\ ~e.del
      BY <1>2, <2>1
    <2>3. PICK d \in box' : d.msg = e.msg /\ d.del = e.del
      BY <2>1 DEF RenumberMap
    <2> QED BY <2>2, <2>3
  <1>7. CASE ~serverOp /\ ~Deliver /\ ~OtherClient /\ ~Renumber
    <2>1. box' = box
      BY <1>7, BoxSame
    <2>2. arrived' = arrived
      <3> USE DEF histVars
      <3>1. CASE UserActs
        BY <3>1, UserEffect DEF AllButQueue
      <3>2. CASE CommandLoop
        BY <3>2 DEF CommandLoop, handleCmd, usePooled, dial, dialFails, serverOp, serverOpRefused, deleteLocal,
                    pull, fetchBody, writeBack, saveAttachment
      <3>3. CASE maxCmdIdle \/ IdleWorker \/ SessionEnds \/ CrashRestart \/ UNCHANGED vars
        BY <3>3 DEF maxCmdIdle, IdleWorker, runSession, deltaSync, reconcileExpunged,
           RefreshFlags, SessionEnds, CrashRestart, vars
      <3> QED BY <1>7, <3>1, <3>2, <3>3 DEF Next
    <2> QED BY <1>2, <2>1, <2>2
  <1> QED BY <1>3, <1>4, <1>5, <1>6, <1>7

\* What the source of a move can have become.
At(b, r) == {e \in b : e.f = r.f /\ e.uid = r.uid}

LEMMA CopyKept ==
  ASSUME TypeOK, CustodyInv, [Next]_vars, UNCHANGED cur
  PROVE  CopyHeld'
  <1>0. HistoryGrows
    BY HistoryStep
  <1> SUFFICES ASSUME cur # Idle, cur.k = "move", cur.pc = "condemn",
                      cur.meant \notin condemned', cur.meant \notin strays',
                      NEW e \in At(box', cur.row), e.msg = cur.meant
               PROVE  \E d \in box' : d.msg = cur.meant /\ ~d.del /\ d \notin At(box', cur.row)
    BY DEF CopyHeld, Target, At, Excused
  <1>1. cur.meant \notin Excused /\ cur.meant \in arrived
    BY <1>0 DEF HistoryGrows, Excused, CustodyInv, NamesDelivered
  <1>2. \A x \in Target(cur.row) : x.msg = cur.meant =>
            \E d \in box : d.msg = cur.meant /\ ~d.del /\ d \notin Target(cur.row)
    BY <1>1 DEF CustodyInv, CopyHeld
  <1>3. CASE box' = box
    BY <1>2, <1>3 DEF Target, At
  <1>4. CASE Deliver
    <2>1. PICK n \in ServerEntry : box' = box \cup {n} /\ n.msg \notin arrived
      BY <1>4, DeliverEffect
    <2>2. e \in Target(cur.row)
      BY <1>1, <2>1 DEF Target, At
    <2> QED BY <1>2, <2>1, <2>2 DEF Target, At
  <1>5. CASE OtherClient
    <2>1. PICK x \in box :
            \/ \E d \in ServerEntry : Rewrites(x, d) /\ (d.del /\ ~x.del => x.msg \in condemned')
            \/ Shrinks /\ box' = box \ {x} /\ x.msg \in condemned'
      BY <1>5, OtherClientEffect DEF ClientEffect
    <2>2. \E y \in Target(cur.row) : y.msg = cur.meant
      BY <2>1 DEF Target, At, Rewrites
    <2>3. PICK d \in box : d.msg = cur.meant /\ ~d.del /\ d \notin Target(cur.row)
      BY <1>2, <2>2
    <2>4. CASE x # d
      BY <2>1, <2>3, <2>4 DEF Rewrites, Target, At
    <2>5. CASE x = d
      BY <2>1, <2>3, <2>5 DEF Rewrites, Target, At
    <2> QED BY <2>4, <2>5
  <1>6. CASE Renumber
    BY <1>6 DEF Renumber
  <1>7. CASE serverOp
    <2>1. cur # Idle /\ UNCHANGED hasMove /\ cur.pc = "condemn" /\ (advance \/ retry)
      BY <1>7 DEF serverOp
    <2> QED BY <2>1, AdvanceEffect, RetryEffect
  <1> QED BY <1>3, <1>4, <1>5, <1>6, <1>7, BoxSame

\* COPY comes first.
LEMMA CopyMade ==
  ASSUME TypeOK, CustodyInv, serverOp, cur.pc = "copy", Continues
  PROVE  CopyHeld'
  <1>0. cur # Idle /\ takesEffect /\ condemned' = condemned
    BY DEF serverOp
  <1> SUFFICES ASSUME cur.meant \notin condemned, cur.meant \notin strays,
                      NEW e \in At(box', cur.row), e.msg = cur.meant, cur.k = "move"
               PROVE  \E d \in box' : d.msg = cur.meant /\ ~d.del /\ d \notin At(box', cur.row)
    <2>1. strays \subseteq strays'
      BY <1>0 DEF takesEffect
    <2> QED BY <1>0, <2>1 DEF CopyHeld, Target, At, Excused, Continues
  <1>1. OpRemoves \/ OpRewrites \/ OpAdds
    BY <1>0, OpEffect DEF ServerOps
  <1>2. CASE OpRemoves
    BY <1>2 DEF OpRemoves, Target, At
  <1>3. CASE OpRewrites
    BY <1>3 DEF OpRewrites
  <1>4. CASE OpAdds
    <2>1. PICK x \in Target(cur.row), d \in ServerEntry :
            Adds(d) /\ d.msg = x.msg /\ d.del = x.del /\ box \ {x} \subseteq box' /\ x \in box'
      BY <1>4 DEF OpAdds
    <2>2. x \in box /\ x.f = cur.row.f /\ x.uid = cur.row.uid
      BY DEF Target
    <2>3. d \notin At(box', cur.row)
      BY <2>1, <2>2 DEF Adds, At, TypeOK, ServerTypeOK, ServerEntry
    <2>4. e = x
      BY <2>1, <2>2, <2>3 DEF Adds, At, TypeOK, ServerTypeOK
    <2>5. CASE ~x.del
      BY <2>1, <2>3, <2>4, <2>5 DEF Adds
    <2>6. CASE x.del
      <3>1. cur.meant \in arrived
        BY <1>0 DEF CustodyInv, NamesDelivered
      <3>2. PICK y \in box : y.msg = cur.meant /\ ~y.del
        BY <3>1 DEF CustodyInv, LiveEntries, Excused
      <3>3. y # x /\ y \in box'
        BY <2>1, <2>6, <3>2
      <3>4. y \notin At(box', cur.row)
        BY <2>2, <3>2, <3>3 DEF At, TypeOK, ServerTypeOK
      <3> QED BY <3>2, <3>3, <3>4
    <2> QED BY <2>5, <2>6
  <1> QED BY <1>1, <1>2, <1>3, <1>4

LEMMA CopyStep ==
  ASSUME TypeOK, CustodyInv, [Next]_vars
  PROVE  CopyHeld'
  <1>1. CASE UNCHANGED cur
    BY <1>1, CopyKept
  <1>2. CASE cur' = Idle \/ cur'.pc # "condemn" \/ cur'.k # "move"
    BY <1>2 DEF CopyHeld
  <1>3. CASE handleCmd
    <2>1. cur' = Idle \/ cur'.pc = "conn"
      BY <1>3, HandleEffect DEF HandleStart, StartsOn, Starts
    <2> QED BY <1>2, <2>1
  <1>4. CASE usePooled \/ dial
    BY <1>2, <1>4, ConnectEffect DEF Continues
  <1>5. CASE dialFails \/ CrashRestart
    BY <1>2, <1>5 DEF dialFails, CrashRestart
  <1>6. CASE serverOp
    <2>1. cur # Idle /\ UNCHANGED hasMove /\ cur.pc # "conn" /\ (advance \/ retry)
      BY <1>6 DEF serverOp, ServerOps
    <2>2. CASE retry
      BY <1>2, <2>1, <2>2, RetryEffect
    <2>3. CASE advance
      BY <1>2, <1>6, <2>1, <2>3, AdvanceEffect, CopyMade DEF Continues
    <2> QED BY <2>1, <2>2, <2>3
  <1>7. CASE serverOpRefused
    BY <1>2, <1>7, RetryEffect DEF serverOpRefused
  <1>8. CASE deleteLocal \/ pull \/ fetchBody \/ writeBack \/ saveAttachment
    <2>1. cur # Idle /\ UNCHANGED hasMove /\ cur.pc \notin {"conn", "copy"} /\ (advance \/ retry)
      BY <1>8 DEF deleteLocal, pull, fetchBody, writeBack, saveAttachment
    <2> QED BY <1>2, <2>1, AdvanceEffect, RetryEffect DEF Continues
  <1>9. CASE UserActs
    BY <1>1, <1>9, UserEffect DEF AllButQueue
  <1>10. CASE maxCmdIdle \/ IdleWorker \/ SessionEnds \/ Deliver \/ OtherClient \/ Renumber \/ UNCHANGED vars
    BY <1>1, <1>10 DEF maxCmdIdle, IdleWorker, runSession, deltaSync, reconcileExpunged,
       RefreshFlags, SessionEnds, Deliver, OtherClient, Renumber, vars, loopVars
  <1> QED BY <1>3, <1>4, <1>5, <1>6, <1>7, <1>8, <1>9, <1>10 DEF Next, CommandLoop

LEMMA CustodyStep ==
  ASSUME TypeOK, CustodyInv, [Next]_vars
  PROVE  CustodyInv'
  <1>1. DestroyAsked'
    <2>0. condemned \subseteq condemned'
      BY HistoryStep DEF HistoryGrows
    <2>1. CASE cur' = cur \/ cur' = Idle \/ Continues
      BY <2>0, <2>1 DEF CustodyInv, DestroyAsked, Continues
    <2>2. CASE cur' \in SyncRun
      BY <2>2 DEF SyncRun, DestroyAsked
    <2>3. CASE \E r \in rows : Starts(r, Head(queue))
      BY <2>3 DEF Starts, DestroyAsked
    <2> QED BY <2>1, <2>2, <2>3, CurStep
  <1> QED BY <1>1, NamesStep, LiveStep, CopyStep DEF CustodyInv

(***************************************************************************)
(* The IMAP operations of execMove and execDelete: connections lost        *)
(* between COPY, STORE and EXPUNGE, retries on a fresh connection, deaths  *)
(* of the process and other clients never lose a message that was not to   *)
(* be destroyed.                                                           *)
(***************************************************************************)
THEOREM NoMessageLost == Spec => []NeverLost
  <1>1. Init => CustodyInv
    <2> SUFFICES ASSUME Init PROVE CustodyInv
      OBVIOUS
    <2> DEFINE m == CHOOSE m \in Msgs : TRUE
    <2>1. PICK g : /\ box = {Entry(g, 1, m)} /\ rows = {Row(1, Entry(g, 1, m))}
                   /\ queue = <<>> /\ cur = Idle /\ arrived = {m}
      BY DEF Init
    <2> HIDE DEF m
    <2> DEFINE e == Entry(g, 1, m)
               r == Row(1, e)
    <2>2. e.msg = m /\ e.del = FALSE
      BY DEF Entry
    <2>3. r.msg = m
      BY <2>2 DEF Row
    <2>4. box = {e} /\ rows = {r}
      BY <2>1
    <2> HIDE DEF e, r
    <2>5. NamesDelivered
      BY <2>1, <2>2, <2>3, <2>4 DEF NamesDelivered
    <2>6. LiveEntries
      BY <2>1, <2>2, <2>4 DEF LiveEntries
    <2> QED BY <2>1, <2>5, <2>6 DEF CustodyInv, CopyHeld, DestroyAsked
  <1>2. TypeOK /\ CustodyInv /\ [Next]_vars => CustodyInv'
    BY CustodyStep
  <1>3. CustodyInv => NeverLost
    BY DEF CustodyInv, LiveEntries, Excused, NeverLost
  <1> QED BY <1>1, <1>2, <1>3, TypeCorrect, PTL DEF Spec
-----------------------------------------------------------------------------
(* Ids, UIDs and the messages they mean.                                   *)

LEMMA SteadyBefore ==
  ASSUME TypeOK, [Next]_vars, Steady'
  PROVE  Steady /\ ~Renumber
  <1>1. ~recycled
    BY RowsStep DEF RowsEffect, Steady
  <1>2. ~Renumber
    BY RenumberEffect, MailboxAssumption DEF Steady
  <1>3. validity' = validity
    <2>1. CASE serverOp \/ Deliver \/ OtherClient
      BY <2>1 DEF serverOp, Deliver, OtherClient
    <2> QED BY <1>2, <2>1, BoxSame
  <1> QED BY <1>1, <1>2, <1>3 DEF Steady

\* UIDs keep their meaning unless the folder is renumbered.
LEMMA NamesKept ==
  ASSUME TypeOK, [Next]_vars, ~Renumber, NEW f \in Folders, NEW u \in Nat, NEW m, Names(f, u, m)
  PROVE  Names(f, u, m)'
  <1>0. u < uidNext[f] /\ (\A e \in box : e.f = f /\ e.uid = u => e.msg = m) /\ uidNext[f] \in Nat
    BY DEF Names, TypeOK, ServerTypeOK
  <1>1. CASE Shrinks
    BY <1>0, <1>1 DEF Shrinks, Names
  <1>2. ASSUME NEW e, NEW d, Rewrites(e, d) PROVE Names(f, u, m)'
    BY <1>0, <1>2 DEF Rewrites, Names
  <1>3. ASSUME NEW d, Adds(d), UNCHANGED <<hasMove, hasTrash, validity>> PROVE Names(f, u, m)'
    <2>1. uidNext'[f] \in Nat /\ uidNext[f] <= uidNext'[f]
      BY <1>3, AddsTyped DEF TypeOK
    <2>2. ~(d.f = f /\ d.uid = u)
      BY <1>0, <1>3 DEF Adds
    <2>3. u < uidNext'[f]
      BY <1>0, <2>1
    <2>4. \A e \in box' : e.f = f /\ e.uid = u => e.msg = m
      BY <1>0, <1>3, <2>2 DEF Adds
    <2> QED BY <2>3, <2>4 DEF Names
  <1>4. CASE serverOp
    <2>1. (OpRemoves \/ OpRewrites \/ OpAdds) /\ UNCHANGED <<hasMove, hasTrash, validity>>
      BY <1>4, OpEffect DEF serverOp
    <2> QED BY <1>1, <1>2, <1>3, <2>1 DEF OpRemoves, OpRewrites, OpAdds
  <1>5. CASE Deliver
    BY <1>3, <1>5, DeliverEffect DEF Deliver
  <1>6. CASE OtherClient
    BY <1>1, <1>2, <1>6, OtherClientEffect DEF ClientEffect
  <1>7. CASE ~serverOp /\ ~Deliver /\ ~OtherClient
    BY <1>1, <1>7, BoxSame DEF Shrinks
  <1> QED BY <1>4, <1>5, <1>6, <1>7

LEMMA IdsStep ==
  ASSUME TypeOK, IdsGiven, [Next]_vars
  PROVE  IdsGiven'
  <1>0. lastId \in Nat /\ lastId' \in Nat /\ lastId <= lastId' /\ \A r \in rows : r.id \in Nat /\ r.id <= lastId
    BY RowsStep DEF RowsEffect, TypeOK, StoreTypeOK, MessageRow
  <1>1. \A i \in 1 .. Len(queue') : queue'[i].k # "sync" => queue'[i].id <= lastId'
    <2> SUFFICES ASSUME NEW i \in 1 .. Len(queue'), queue'[i].k # "sync" PROVE queue'[i].id <= lastId'
      OBVIOUS
    <2>1. CASE \E j \in 1 .. Len(queue) : queue'[i] = queue[j]
      <3>1. PICK j \in 1 .. Len(queue) : queue'[i] = queue[j]
        BY <2>1
      <3>2. queue[j] \in MailCmd \cup SyncCmd
        BY DEF TypeOK, QueueTypeOK
      <3>3. queue[j].id \in Nat /\ queue[j].id <= lastId
        BY <3>1, <3>2 DEF IdsGiven, MailCmd, SyncCmd
      <3> QED BY <1>0, <3>1, <3>3
    <2>2. CASE queue'[i] \in SyncCmd
      BY <2>2 DEF SyncCmd
    <2>3. CASE \E r \in rows : queue'[i].id = r.id
      BY <1>0, <2>3
    <2> QED BY <2>1, <2>2, <2>3, QueueStep
  <1>2. cur' # Idle /\ cur'.k # "sync" => cur'.row.id <= lastId'
    <2>1. CASE cur # Idle /\ cur.k # "sync" /\ (cur' = cur \/ Continues)
      <3>1. cur.row.id \in Nat /\ cur.row.id <= lastId
        BY <2>1 DEF IdsGiven, TypeOK, CurTypeOK, MailRun, SyncRun, MessageRow
      <3> QED BY <1>0, <2>1, <3>1 DEF Continues
    <2>2. CASE \E r \in rows : Starts(r, Head(queue))
      BY <1>0, <2>2 DEF Starts
    <2>3. CASE cur' \in SyncRun
      BY <2>3 DEF SyncRun
    <2> QED BY <2>1, <2>2, <2>3, CurStep DEF Continues
  <1> QED BY <1>1, <1>2 DEF IdsGiven

\* The command at the head of the queue.
LEMMA HeadAims ==
  ASSUME TypeOK, Steady, AimInv, queue # <<>>, Head(queue) \in MailCmd, NEW r \in rows, r.id = Head(queue).id
  PROVE  r.msg = Head(queue).msg
  <1>1. Len(queue) \in Nat /\ Len(queue) >= 1 /\ Head(queue) = queue[1]
    BY DEF TypeOK, QueueTypeOK
  <1>2. Head(queue).k # "sync"
    BY DEF MailCmd
  <1>3. IdNames(Head(queue).id, Head(queue).msg)
    BY <1>1, <1>2 DEF AimInv, QueueAims
  <1> QED BY <1>3 DEF IdNames

LEMMA RowsAimStep ==
  ASSUME TypeOK, AimInv, [Next]_vars, Steady', Steady, ~Renumber
  PROVE  RowsAim'
  <1>0. RowsEffect /\ ~recycled' /\ lastId \in Nat
    BY RowsStep DEF Steady, TypeOK, StoreTypeOK
  <1>1. ASSUME NEW r \in rows' PROVE Names(r.f, r.uid, r.msg)'
    <2>1. Origin(r) /\ r.f \in Folders /\ r.uid \in Nat
      BY <1>0 DEF RowsEffect, MessageRow
    <2>2. Names(r.f, r.uid, r.msg)
      <3>1. CASE \E q \in rows : q.f = r.f /\ q.uid = r.uid /\ q.msg = r.msg
        BY <3>1 DEF AimInv, RowsAim
      <3>2. CASE \E e \in box : e.f = r.f /\ e.uid = r.uid /\ e.msg = r.msg
        BY <3>2 DEF Names, TypeOK, ServerTypeOK
      <3>3. CASE /\ cur # Idle /\ cur.k = "refetch"
                 /\ cur.row.f = r.f /\ cur.row.uid = r.uid /\ cur.row.msg = r.msg
        BY <3>3 DEF AimInv, RunAims
      <3> QED BY <2>1, <3>1, <3>2, <3>3 DEF Origin
    <2> QED BY <2>1, <2>2, NamesKept
  <1>2. ASSUME NEW r \in rows', NEW q \in rows', q.id = r.id PROVE q.msg = r.msg
    <2>1. CASE q.id <= lastId
      <3>1. PICK a \in rows : a.id = q.id /\ a.msg = q.msg
        BY <1>0, <2>1 DEF RowsEffect
      <3>2. PICK b \in rows : b.id = r.id /\ b.msg = r.msg
        BY <1>0, <1>2, <2>1 DEF RowsEffect
      <3> QED BY <1>2, <3>1, <3>2 DEF AimInv, RowsAim, IdNames
    <2>2. CASE ~(q.id <= lastId)
      BY <1>0, <1>2, <2>2 DEF RowsEffect
    <2> QED BY <2>1, <2>2
  <1> QED BY <1>1, <1>2 DEF RowsAim, IdNames

LEMMA QueueAimsStep ==
  ASSUME TypeOK, AimInv, [Next]_vars, Steady', Steady
  PROVE  QueueAims'
  <1>0. RowsEffect /\ ~recycled'
    BY RowsStep DEF Steady
  <1> SUFFICES ASSUME NEW i \in 1 .. Len(queue'), queue'[i].k # "sync"
               PROVE  \A r \in rows' : r.id = queue'[i].id => r.msg = queue'[i].msg
    BY DEF QueueAims, IdNames
  <1>1. CASE \E j \in 1 .. Len(queue) : queue'[i] = queue[j]
    <2>1. PICK j \in 1 .. Len(queue) : queue'[i] = queue[j]
      BY <1>1
    <2> DEFINE x == queue[j].id
               m == queue[j].msg
    <2>2. x <= lastId /\ IdNames(x, m)
      BY <2>1 DEF AimInv, IdsGiven, QueueAims
    <2>3. \A r \in rows' : r.id <= lastId => \E q \in rows : q.id = r.id /\ q.msg = r.msg
      BY <1>0 DEF RowsEffect
    <2> QED BY <2>1, <2>2, <2>3 DEF IdNames
  <1>2. CASE queue'[i] \in SyncCmd
    BY <1>2 DEF SyncCmd
  <1>3. CASE \E r \in rows : queue'[i].id = r.id /\ queue'[i].msg = r.msg /\ UNCHANGED rows
    BY <1>3 DEF AimInv, RowsAim, IdNames
  <1> QED BY <1>1, <1>2, <1>3, QueueStep

LEMMA RunAimsStep ==
  ASSUME TypeOK, AimInv, [Next]_vars, Steady', Steady, ~Renumber
  PROVE  RunAims'
  <1>0. RowsEffect /\ ~recycled'
    BY RowsStep DEF Steady
  <1>1. \A r \in rows' : r.id <= lastId => \E q \in rows : q.id = r.id /\ q.msg = r.msg
    BY <1>0 DEF RowsEffect
  <1>2. ASSUME NEW row \in MessageRow, NEW m, row.msg = m, row.id <= lastId, IdNames(row.id, m),
               Names(row.f, row.uid, m), cur'.row = row, cur'.meant = m
        PROVE  RunAims'
    <2>1. row.f \in Folders /\ row.uid \in Nat
      BY DEF MessageRow
    <2>2. Names(row.f, row.uid, m)'
      BY <1>2, <2>1, NamesKept
    <2>3. \A r \in rows' : r.id = row.id => r.msg = m
      BY <1>1, <1>2 DEF IdNames
    <2> QED BY <1>2, <2>2, <2>3 DEF RunAims, IdNames, Names
  <1>3. CASE cur # Idle /\ cur.k # "sync" /\ (cur' = cur \/ Continues)
    <2>1. cur.row \in MessageRow /\ cur.row.id <= lastId
      BY <1>3 DEF AimInv, IdsGiven, TypeOK, CurTypeOK, MailRun, SyncRun
    <2> QED BY <1>2, <1>3, <2>1 DEF AimInv, RunAims, Continues
  <1>4. CASE HandleStart /\ Head(queue) \in MailCmd /\ \E r \in rows : StartsOn(r, Head(queue)) /\ Starts(r, Head(queue))
    <2>1. PICK r \in rows : StartsOn(r, Head(queue)) /\ Starts(r, Head(queue))
      BY <1>4
    <2>2. r.msg = Head(queue).msg /\ cur'.row = r /\ cur'.meant = r.msg
      BY <1>4, <2>1, HeadAims DEF HandleStart, StartsOn, Starts
    <2>3. r \in MessageRow /\ r.id <= lastId /\ IdNames(r.id, r.msg) /\ Names(r.f, r.uid, r.msg)
      BY DEF TypeOK, StoreTypeOK, AimInv, RowsAim
    <2> QED BY <1>2, <2>2, <2>3
  <1>5. CASE cur' = Idle \/ cur' \in SyncRun \/ cur'.k = "sync"
    BY <1>5 DEF RunAims, SyncRun
  <1> QED BY <1>3, <1>4, <1>5, CurStep DEF Continues

LEMMA NothingStrayStep ==
  ASSUME TypeOK, AimInv, [Next]_vars, Steady
  PROVE  NothingStray'
  <1>0. strays = {} /\ (\A x \in files : x.of = x.meant) /\ RunAims
    BY DEF AimInv, NothingStray
  <1> USE DEF histVars, storeVars
  <1>1. CASE UNCHANGED <<strays, files>>
    BY <1>0, <1>1 DEF NothingStray
  <1>2. CASE handleCmd
    <2>1. HandleStart /\ files' = files
      BY <1>2, HandleEffect DEF HandleStart
    <2>2. strays' = strays
      BY <2>1, HeadAims DEF HandleStart, StartsOn
    <2> QED BY <1>1, <2>1, <2>2
  <1>3. CASE serverOp
    <2>1. cur # Idle /\ cur.pc \in ServerOps /\ takesEffect /\ files' = files
      BY <1>3 DEF serverOp
    <2>2. cur.k # "sync"
      BY <2>1, OpIsMail
    <2>3. \A e \in Target(cur.row) : e.msg = cur.meant
      BY <1>0, <2>1, <2>2 DEF RunAims, Names, Target
    <2>4. strays' = strays
      BY <2>1, <2>3 DEF takesEffect
    <2> QED BY <1>1, <2>1, <2>4
  <1>4. CASE deleteLocal
    <2>1. cur # Idle /\ cur.pc = "drop" /\ files' = files
          /\ \/ strays' = strays
             \/ strays' = strays \cup {r.msg : r \in {x \in RowWith(cur.row.id) : x.msg # cur.meant}}
      BY <1>4 DEF deleteLocal
    <2>2. cur.k # "sync"
      BY <2>1 DEF TypeOK, CurTypeOK, PlacesOf
    <2>3. \A x \in RowWith(cur.row.id) : x.msg = cur.meant
      BY <1>0, <2>1, <2>2 DEF RunAims, IdNames, RowWith
    <2>4. strays' = strays
      BY <2>1, <2>3
    <2> QED BY <1>1, <2>1, <2>4
  <1>5. CASE saveAttachment
    <2>1. cur # Idle /\ cur.pc = "save" /\ strays' = strays
      BY <1>5 DEF saveAttachment
    <2>2. cur.k # "sync"
      BY <2>1 DEF TypeOK, CurTypeOK, PlacesOf
    <2>3. \A e \in Target(cur.row) : e.msg = cur.meant
      BY <1>0, <2>1, <2>2 DEF RunAims, Names, Target
    <2>4. CASE UNCHANGED files
      BY <1>1, <2>1, <2>4
    <2>5. CASE \E e \in Target(cur.row) :
                 files' = {x \in files : x.id # cur.row.id} \cup {[id |-> cur.row.id, of |-> e.msg, meant |-> cur.meant]}
      BY <1>0, <2>1, <2>3, <2>5 DEF NothingStray
    <2> QED BY <1>5, <2>4, <2>5 DEF saveAttachment
  <1>6. CASE UserActs
    BY <1>1, <1>6, UserEffect DEF AllButQueue
  <1>7. CASE usePooled \/ dial \/ dialFails \/ serverOpRefused \/ pull \/ fetchBody \/ writeBack
    BY <1>1, <1>7 DEF usePooled, dial, dialFails, serverOpRefused, pull, fetchBody, writeBack
  <1>8. CASE maxCmdIdle \/ IdleWorker \/ SessionEnds \/ CrashRestart \/ Deliver \/ OtherClient \/ Renumber \/ UNCHANGED vars
    BY <1>1, <1>8 DEF maxCmdIdle, IdleWorker, runSession, deltaSync, reconcileExpunged,
       RefreshFlags, SessionEnds, CrashRestart, Deliver, OtherClient, Renumber, vars
  <1> QED BY <1>2, <1>3, <1>4, <1>5, <1>6, <1>7, <1>8 DEF Next, CommandLoop

LEMMA AimStep ==
  ASSUME TypeOK, AimInv, [Next]_vars
  PROVE  AimInv'
  <1>1. IdsGiven'
    BY IdsStep DEF AimInv
  <1>2. ASSUME Steady' PROVE RowsAim' /\ QueueAims' /\ RunAims' /\ NothingStray'
    BY <1>2, SteadyBefore, RowsAimStep, QueueAimsStep, RunAimsStep, NothingStrayStep
  <1> QED BY <1>1, <1>2 DEF AimInv

(***************************************************************************)
(* Commands name their message by row id and rows name it by UID: a        *)
(* command reaches another message than the one its user pointed at, or    *)
(* saves another one's attachment, only after an id was handed out again   *)
(* or the server renumbered a folder.                                      *)
(***************************************************************************)
THEOREM CommandsHitTheirMessage == Spec => []StraysExplained
  <1>1. Init => AimInv
    <2> SUFFICES ASSUME Init PROVE AimInv
      OBVIOUS
    <2> DEFINE m == CHOOSE m \in Msgs : TRUE
    <2>1. PICK g \in {Inbox, Trash} :
            /\ box = {Entry(g, 1, m)} /\ rows = {Row(1, Entry(g, 1, m))}
            /\ uidNext = [f \in Folders |-> IF f = g THEN 2 ELSE 1]
            /\ queue = <<>> /\ cur = Idle /\ strays = {} /\ files = {}
      BY DEF Init
    <2> HIDE DEF m
    <2> DEFINE e == Entry(g, 1, m)
               r == Row(1, e)
    <2>2. e.msg = m /\ e.f = g /\ e.uid = 1
      BY DEF Entry
    <2>3. r.msg = m /\ r.f = g /\ r.uid = 1
      BY <2>2 DEF Row
    <2>4. box = {e} /\ rows = {r} /\ uidNext[g] = 2
      BY <2>1, MailboxAssumption
    <2> HIDE DEF e, r
    <2>5. RowsAim
      BY <2>2, <2>3, <2>4 DEF RowsAim, Names, IdNames
    <2>6. IdsGiven /\ QueueAims /\ RunAims /\ NothingStray
      BY <2>1 DEF IdsGiven, QueueAims, RunAims, NothingStray
    <2> QED BY <2>5, <2>6 DEF AimInv
  <1>2. TypeOK /\ AimInv /\ [Next]_vars => AimInv'
    BY AimStep
  <1>3. AimInv => StraysExplained
    BY DEF AimInv, NothingStray, Steady, StraysExplained
  <1> QED BY <1>1, <1>2, <1>3, TypeCorrect, PTL DEF Spec
=============================================================================
