---------------------------- MODULE AccountProofs ----------------------------
(***************************************************************************)
(* Theorems about AccountLifecycle for all constants: the state is well    *)
(* typed, no account is synced twice or into another account's mail, and   *)
(* credentials outlive what depends on them.  The second half is about     *)
(* Setup, the way an account is added: a try is told what became of it,    *)
(* and one the user left adds nothing.                                     *)
(***************************************************************************)
EXTENDS AccountLifecycle, Setup, TLAPS

LEMMA StartTyped ==
    ASSUME TypeOK, NEW id \in Ids, rows[id] # None, StartAccount(id)
    PROVE  /\ runners' \in [Ids -> Groups \cup {None}]
           /\ grp' \in [Groups -> Group \cup {None}]
  <1>1. NewGroup(id) \in Group
    BY DEF NewGroup, TypeOK, Account, Group, Members
  <1> QED BY <1>1 DEF StartAccount, TypeOK, taskVars

LEMMA LeaveTyped ==
    ASSUME TypeOK, NEW g \in Groups, ~Gone(g), NEW m, Leave(g, m)
    PROVE  grp' \in [Groups -> Group \cup {None}]
  <1>1. grp[g] \in Group
    BY DEF TypeOK, Gone
  <1>2. [id |-> grp[g].id, alias |-> grp[g].alias, ctx |-> grp[g].ctx,
         alive |-> grp[g].alive \ {m}] \in Group
    BY <1>1 DEF Group
  <1> QED BY <1>2 DEF Leave, TypeOK

LEMMA SendTyped ==
    ASSUME TypeOK, NEW cmd \in AddCmds \cup IdCmds, Send(cmd)
    PROVE  cmdQ' \in Seq(AddCmds \cup IdCmds) /\ Len(cmdQ') <= QueueCap
  BY AccountAssumption DEF TypeOK, Send

LEMMA KeystoreTyped ==
    ASSUME TypeOK, NEW n \in Names, NEW v \in Nat,
           KsStore(n, v) \/ KsStoreFails(n, v) \/ KsDelete(n)
    PROVE  ks' \in [Names -> Nat] /\ disk' \in [Names -> Nat]
  <1>1. ASSUME NEW u \in Nat PROVE [ks EXCEPT ![n] = u] \in [Names -> Nat]
    BY DEF TypeOK
  <1>2. CASE KsStore(n, v)
    BY <1>1, <1>2 DEF KsStore
  <1>3. CASE KsStoreFails(n, v)
    BY <1>1, <1>3 DEF KsStoreFails, TypeOK
  <1>4. CASE KsDelete(n)
    <2>1. ks' \in [Names -> Nat] /\ (disk' = ks' \/ disk' = disk)
      BY <1>1, <1>4 DEF KsDelete
    <2> QED BY <2>1 DEF TypeOK
  <1> QED BY <1>2, <1>3, <1>4

(***************************************************************************)
(* The loop's own types, step by step.                                     *)
(***************************************************************************)
LEMMA LoopTyped ==
    ASSUME TypeOK, LoopKnows
    PROVE  /\ FreeCmd \in [kind : Kinds, id : Ids \cup {0}, email : Emails \cup {None},
                            alias : Aliases \cup {0}]
           /\ Done => loop' \in Loops
           /\ \A place \in Places : Goto(place) => loop' \in Loops
           /\ \A place \in Places, id \in Ids :
                 rows[id] # None /\ Found(id, place) => loop' \in Loops
  <1>1. FreeCmd \in [kind : Kinds, id : Ids \cup {0}, email : Emails \cup {None},
                     alias : Aliases \cup {0}]
    BY DEF FreeCmd, IdCmd, Kinds
  <1>2. Done => loop' \in Loops
    BY <1>1 DEF Done, Loops, Places
  <1>3. \A place \in Places : Goto(place) => loop' \in Loops
    BY DEF Goto, Loops, TypeOK
  <1>4. \A place \in Places, id \in Ids :
           rows[id] # None /\ Found(id, place) => loop' \in Loops
    <2> TAKE place \in Places, id \in Ids
    <2> HAVE rows[id] # None /\ Found(id, place)
    <2>1. rows[id] \in Account
      BY DEF TypeOK
    <2> QED BY <2>1 DEF Found, Loops, TypeOK, Account
  <1> QED BY <1>1, <1>2, <1>3, <1>4

(***************************************************************************)
(* Type correctness, with what the loop knows of its command.              *)
(***************************************************************************)
LEMMA InitTyped == Init => TypeOK /\ LoopKnows
  <1> SUFFICES ASSUME Init PROVE TypeOK /\ LoopKnows
    OBVIOUS
  <1>1. loop \in Loops
    BY DEF Init, Off, FreeCmd, IdCmd, Kinds, Loops
  <1>2. cmdQ \in Seq(AddCmds \cup IdCmds) /\ Len(cmdQ) <= QueueCap
    BY AccountAssumption DEF Init
  <1>3. TypeOK
    BY <1>1, <1>2, AccountAssumption DEF Init, TypeOK
  <1>4. LoopKnows
    BY DEF Init, Off, LoopKnows, Adding, Holding
  <1> QED BY <1>3, <1>4

LEMMA UserTyped ==
    ASSUME TypeOK, LoopKnows, UserStep \/ \E id \in Ids : SendKeyReq(id)
    PROVE  TypeOK' /\ LoopKnows'
  <1> USE DEF diskVars, dbVars, ksVars, taskVars, userVars
  <1>1. ASSUME NEW e \in Emails, UserAdds(e) PROVE TypeOK' /\ LoopKnows'
    <2>1. adds + 1 \in Aliases /\ adds' \in 0..MaxAdds /\ sends' \in 0..MaxSends
      BY <1>1, AccountAssumption DEF UserAdds, TypeOK, Aliases
    <2>2. AddCmd(e, adds + 1) \in AddCmds
      BY <2>1 DEF AddCmd, AddCmds
    <2>3. cmdQ' \in Seq(AddCmds \cup IdCmds) /\ Len(cmdQ') <= QueueCap
      BY <1>1, <2>2, SendTyped DEF UserAdds
    <2> QED BY <1>1, <2>1, <2>3 DEF UserAdds, TypeOK, LoopKnows
  <1>2. ASSUME NEW kind \in {"remove", "update", "use", "key"}, NEW id \in Ids,
               UserSends(kind, id)
        PROVE  TypeOK' /\ LoopKnows'
    <2>1. IdCmd(kind, id) \in IdCmds
      BY DEF IdCmd, IdCmds, Kinds
    <2>2. cmdQ' \in Seq(AddCmds \cup IdCmds) /\ Len(cmdQ') <= QueueCap
      BY <1>2, <2>1, SendTyped DEF UserSends
    <2>3. sends' \in 0..MaxSends
      BY <1>2, AccountAssumption DEF UserSends, TypeOK
    <2> QED BY <1>2, <2>2, <2>3 DEF UserSends, TypeOK, LoopKnows
  <1>3. ASSUME NEW id \in Ids, SendKeyReq(id) PROVE TypeOK' /\ LoopKnows'
    <2>1. IdCmd("key", id) \in IdCmds
      BY DEF IdCmd, IdCmds, Kinds
    <2>2. cmdQ' \in Seq(AddCmds \cup IdCmds) /\ Len(cmdQ') <= QueueCap
      BY <1>3, <2>1, SendTyped DEF SendKeyReq
    <2> QED BY <1>3, <2>2 DEF SendKeyReq, TypeOK, LoopKnows
  <1> QED BY <1>1, <1>2, <1>3 DEF UserStep

LEMMA GroupTyped ==
    ASSUME TypeOK, LoopKnows, NEW g \in Groups, GroupStep(g)
    PROVE  TypeOK' /\ LoopKnows'
  <1> USE DEF diskVars, dbVars, ksVars, taskVars, userVars
  <1>1. CASE SyncWrites(g)
    <2>1. grp[g] \in Group
      BY <1>1 DEF SyncWrites, Gone, TypeOK
    <2>2. grp[g].id \in Ids /\ grp[g].alias \in Aliases
      BY <2>1 DEF Group
    <2>3. data' \in [Ids -> SUBSET Aliases]
      BY <1>1, <2>2 DEF SyncWrites, TypeOK
    <2> QED BY <1>1, <2>3 DEF SyncWrites, TypeOK, LoopKnows
  <1>2. CASE IdleAborts(g)
    BY <1>2, LeaveTyped DEF IdleAborts, TypeOK, LoopKnows
  <1>3. CASE WorkerExits(g)
    <2>1. PICK m : Leave(g, m)
      BY <1>3 DEF WorkerExits
    <2> QED BY <1>3, <2>1, LeaveTyped DEF WorkerExits, TypeOK, LoopKnows
  <1>4. CASE WatcherExits(g)
    BY <1>4, LeaveTyped DEF WatcherExits, TypeOK, LoopKnows
  <1> QED BY <1>1, <1>2, <1>3, <1>4 DEF GroupStep

\* What the loop knows of a row it has found, and of a command it has ended.
LEMMA LoopMoves ==
    ASSUME TypeOK, LoopKnows
    PROVE  /\ Done => LoopKnows'
           /\ \A place \in Holding : loop.pc \in Holding /\ Goto(place) /\ rows' = rows => LoopKnows'
           /\ \A place \in Holding, id \in Ids :
                 rows[id] # None /\ Found(id, place) /\ rows' = rows => LoopKnows'
  <1>1. Done => LoopKnows'
    BY DEF Done, LoopKnows, Adding, Holding
  <1>2. ASSUME NEW place \in Holding, loop.pc \in Holding, Goto(place), rows' = rows
        PROVE  LoopKnows'
    <2>1. loop'.pc = place /\ loop'.cmd = loop.cmd
      BY <1>2 DEF Goto
    <2>2. place \notin Adding /\ place # "get"
      BY DEF Adding, Holding
    <2> QED BY <1>2, <2>1, <2>2 DEF LoopKnows
  <1>3. ASSUME NEW place \in Holding, NEW id \in Ids, rows[id] # None, Found(id, place),
               rows' = rows
        PROVE  LoopKnows'
    <2>1. rows[id] \in Account
      BY <1>3 DEF TypeOK
    <2>2. loop'.pc = place /\ loop'.cmd.id = id /\ loop'.cmd.email = rows[id].email
          /\ loop'.cmd.alias = rows[id].alias
      BY <1>3 DEF Found
    <2>3. place \notin Adding /\ place # "get"
      BY DEF Adding, Holding
    <2> QED BY <1>3, <2>1, <2>2, <2>3 DEF LoopKnows, Account
  <1> QED BY <1>1, <1>2, <1>3

LEMMA AddTyped ==
    ASSUME TypeOK, LoopKnows,
           Dequeue \/ LoopExits \/ AddStores \/ AddInserts \/ StartsAccount
    PROVE  TypeOK' /\ LoopKnows'
  <1> USE DEF diskVars, dbVars, ksVars, taskVars, userVars
  <1>1. CASE Dequeue
    <2>1. /\ Head(cmdQ) \in AddCmds \cup IdCmds
          /\ cmdQ' \in Seq(AddCmds \cup IdCmds) /\ Len(cmdQ') <= QueueCap
      BY <1>1, AccountAssumption DEF Dequeue, TypeOK
    <2>2. Head(cmdQ) \in [kind : Kinds, id : Ids \cup {0}, email : Emails \cup {None},
                          alias : Aliases \cup {0}]
      BY <2>1 DEF AddCmds, IdCmds, Kinds
    <2>3. loop' \in Loops
      BY <1>1, <2>2 DEF Dequeue, Loops, Places
    <2>4. LoopKnows'
      BY <1>1, <2>1 DEF Dequeue, LoopKnows, AddCmds, IdCmds, Adding, Holding
    <2> QED BY <1>1, <2>1, <2>3, <2>4 DEF Dequeue, TypeOK
  <1>2. CASE LoopExits
    <2>1. loop' \in Loops /\ LoopKnows'
      BY <1>2, LoopTyped DEF LoopExits, Loops, LoopKnows, Adding, Holding
    <2> QED BY <1>2, <2>1 DEF LoopExits, TypeOK
  <1>3. CASE AddStores
    <2>1. loop.cmd.alias \in Names /\ Credential \in Nat
      BY <1>3 DEF AddStores, LoopKnows, At, Adding, Names, Credential
    <2>2. ks' \in [Names -> Nat] /\ disk' \in [Names -> Nat]
      BY <1>3, <2>1, KeystoreTyped DEF AddStores
    <2>3. loop' \in Loops
      BY <1>3, LoopTyped DEF AddStores, Places
    <2>4. Goto("insert") => LoopKnows'
      BY <1>3 DEF AddStores, At, Goto, LoopKnows, Adding, Holding
    <2> QED BY <1>3, <2>2, <2>3, <2>4, LoopMoves DEF AddStores, TypeOK
  <1>4. CASE AddInserts
    <2>1. CASE Done /\ UNCHANGED rows
      BY <1>4, <2>1, LoopTyped, LoopMoves DEF AddInserts, TypeOK
    <2>2. CASE ~(Done /\ UNCHANGED rows)
      <3>1. PICK id \in Ids :
              /\ rows' = [rows EXCEPT ![id] = [email |-> loop.cmd.email, alias |-> loop.cmd.alias]]
              /\ loop' = [pc |-> "start",
                          cmd |-> [kind |-> "add", id |-> id,
                                   email |-> loop.cmd.email, alias |-> loop.cmd.alias]]
        BY <1>4, <2>2 DEF AddInserts
      <3>2. loop.cmd.email \in Emails /\ loop.cmd.alias \in Aliases
        BY <1>4 DEF AddInserts, At, LoopKnows, Adding
      <3>3. [email |-> loop.cmd.email, alias |-> loop.cmd.alias] \in Account
        BY <3>2 DEF Account
      <3>4. rows' \in [Ids -> Account \cup {None}]
        BY <3>1, <3>3 DEF TypeOK
      <3>5. loop' \in Loops
        BY <3>1, <3>2 DEF Loops, Places, Kinds
      <3>6. rows'[id] = [email |-> loop.cmd.email, alias |-> loop.cmd.alias] /\ rows'[id] # None
        BY <3>1, <3>3, AccountAssumption DEF TypeOK
      <3>7. LoopKnows'
        BY <3>1, <3>2, <3>6 DEF LoopKnows, Adding, Holding
      <3> QED BY <1>4, <3>4, <3>5, <3>7 DEF AddInserts, TypeOK
    <2> QED BY <2>1, <2>2
  <1>5. CASE StartsAccount
    <2>1. Target \in Ids /\ rows[Target] # None
      BY <1>5 DEF StartsAccount, At, LoopKnows, Holding, Target
    <2>2. /\ runners' \in [Ids -> Groups \cup {None}]
          /\ grp' \in [Groups -> Group \cup {None}]
      BY <1>5, <2>1, StartTyped DEF StartsAccount, Target
    <2>3. keyReqs' \subseteq Ids
      BY <1>5, <2>1 DEF StartsAccount, TypeOK, Target
    <2> QED BY <1>5, <2>2, <2>3, LoopTyped, LoopMoves DEF StartsAccount, TypeOK
  <1> QED BY <1>1, <1>2, <1>3, <1>4, <1>5

LEMMA StopTyped ==
    ASSUME TypeOK, NEW id \in Ids, StopAccount(id)
    PROVE  /\ runners' \in [Ids -> Groups \cup {None}]
           /\ grp' \in [Groups -> Group \cup {None}]
  <1>1. ASSUME NEW g \in Groups, ~Gone(g)
        PROVE  [id |-> grp[g].id, alias |-> grp[g].alias,
                ctx |-> "cancelled", alive |-> grp[g].alive] \in Group
    <2>1. grp[g] \in Group
      BY <1>1 DEF Gone, TypeOK
    <2> QED BY <2>1 DEF Group
  <1> QED BY <1>1 DEF StopAccount, TypeOK

LEMMA RemoveTyped ==
    ASSUME TypeOK, LoopKnows,
           GetAndStop \/ WaitEnds \/ RemoveUnstores \/ RemoveDeletes \/ UpdateStores
    PROVE  TypeOK' /\ LoopKnows'
  <1> USE DEF diskVars, dbVars, ksVars, taskVars, userVars
  <1>1. CASE GetAndStop
    <2>1. Target \in Ids
      BY <1>1 DEF GetAndStop, At, LoopKnows, Target
    <2>2. CASE Missing(Target)
      BY <1>1, <2>2, LoopTyped, LoopMoves DEF GetAndStop, TypeOK
    <2>3. CASE ~Missing(Target)
      <3>1. rows[Target] # None /\ Found(Target, "wait") /\ StopAccount(Target) /\ rows' = rows
        BY <1>1, <2>3 DEF GetAndStop, Missing
      <3>2. loop' \in Loops /\ LoopKnows'
        BY <2>1, <3>1, LoopTyped, LoopMoves DEF Places, Holding
      <3> QED BY <1>1, <2>1, <3>1, <3>2, StopTyped DEF GetAndStop, TypeOK
    <2> QED BY <2>2, <2>3
  <1>2. CASE WaitEnds
    <2>1. loop.pc \in Holding /\ rows' = rows
      BY <1>2 DEF WaitEnds, At, Holding
    <2>2. loop' \in Loops /\ LoopKnows'
      BY <1>2, <2>1, LoopTyped, LoopMoves DEF WaitEnds, Places, Holding
    <2>3. pool' \subseteq Aliases
      BY <1>2 DEF WaitEnds, DropCommandConn, TypeOK
    <2> QED BY <1>2, <2>2, <2>3 DEF WaitEnds, TypeOK
  <1>3. CASE RemoveUnstores
    <2>1. loop.pc \in Holding /\ rows' = rows
      BY <1>3 DEF RemoveUnstores, At, Holding
    <2>2. loop' \in Loops /\ LoopKnows'
      BY <1>3, <2>1, LoopTyped, LoopMoves DEF RemoveUnstores, Places, Holding
    <2>3. rows[Target] \in Account
      BY <2>1 DEF LoopKnows, TypeOK, Target
    <2>4. loop.cmd.alias \in Aliases
      BY <2>1, <2>3 DEF LoopKnows, Account, Target
    <2>5. ks' \in [Names -> Nat] /\ disk' \in [Names -> Nat]
      BY <1>3, <2>4, KeystoreTyped DEF RemoveUnstores, Names
    <2>6. signedOut' \subseteq Aliases
      BY <1>3, <2>4 DEF RemoveUnstores, TypeOK
    <2> QED BY <1>3, <2>2, <2>5, <2>6 DEF RemoveUnstores, TypeOK
  <1>4. CASE RemoveDeletes
    <2>1. rows' \in [Ids -> Account \cup {None}] /\ data' \in [Ids -> SUBSET Aliases]
      BY <1>4 DEF RemoveDeletes, TypeOK
    <2> QED BY <1>4, <2>1, LoopTyped, LoopMoves DEF RemoveDeletes, TypeOK
  <1>5. CASE UpdateStores
    <2>1. loop.pc \in Holding /\ rows' = rows
      BY <1>5 DEF UpdateStores, At, Holding
    <2>2. loop' \in Loops /\ LoopKnows'
      BY <1>5, <2>1, LoopTyped, LoopMoves DEF UpdateStores, Places, Holding
    <2>3. rows[Target] \in Account
      BY <2>1 DEF LoopKnows, TypeOK, Target
    <2>4. loop.cmd.alias \in Names /\ Credential \in Nat
      BY <2>1, <2>3 DEF LoopKnows, Account, Target, Names, Credential
    <2>5. ks' \in [Names -> Nat] /\ disk' \in [Names -> Nat]
      BY <1>5, <2>4, KeystoreTyped DEF UpdateStores
    <2> QED BY <1>5, <2>2, <2>5 DEF UpdateStores, TypeOK
  <1> QED BY <1>1, <1>2, <1>3, <1>4, <1>5

LEMMA UseTyped ==
    ASSUME TypeOK, LoopKnows,
           UseGets \/ UsePooled \/ UseDials \/ KeyGets \/ KeyFetches \/ KeySeals
    PROVE  TypeOK' /\ LoopKnows'
  <1> USE DEF diskVars, dbVars, ksVars, taskVars, userVars
  <1>1. CASE UseGets
    <2>1. Target \in Ids /\ rows' = rows
      BY <1>1 DEF UseGets, At, LoopKnows, Target
    <2>2. loop' \in Loops /\ LoopKnows'
      BY <1>1, <2>1, LoopTyped, LoopMoves DEF UseGets, Missing, Places, Holding
    <2> QED BY <1>1, <2>2 DEF UseGets, TypeOK
  <1>2. CASE UsePooled
    <2>1. loop.pc \in Holding /\ rows' = rows
      BY <1>2 DEF UsePooled, At, Holding
    <2>2. loop' \in Loops /\ LoopKnows'
      BY <1>2, <2>1, LoopTyped, LoopMoves DEF UsePooled, Places, Holding
    <2>3. pool' \subseteq Aliases
      BY <1>2 DEF UsePooled, TypeOK
    <2>4. data' \in [Ids -> SUBSET Aliases]
      BY <1>2 DEF UsePooled, UseWrites, TypeOK
    <2> QED BY <1>2, <2>2, <2>3, <2>4 DEF UsePooled, TypeOK
  <1>3. CASE UseDials
    <2>1. loop.pc \in Holding /\ rows' = rows
      BY <1>3 DEF UseDials, At, Holding
    <2>2. rows[Target] \in Account
      BY <2>1 DEF LoopKnows, TypeOK, Target
    <2>3. loop.cmd.alias \in Aliases
      BY <2>1, <2>2 DEF LoopKnows, Account, Target
    <2>4. pool' \subseteq Aliases
      BY <1>3, <2>3 DEF UseDials, TypeOK
    <2>5. data' \in [Ids -> SUBSET Aliases]
      BY <1>3, <2>3 DEF UseDials, UseWrites, TypeOK
    <2> QED BY <1>3, <2>4, <2>5, LoopTyped, LoopMoves DEF UseDials, TypeOK
  <1>4. CASE KeyGets
    <2>1. Target \in Ids /\ rows' = rows
      BY <1>4 DEF KeyGets, At, LoopKnows, Target
    <2>2. loop' \in Loops /\ LoopKnows'
      BY <1>4, <2>1, LoopTyped, LoopMoves DEF KeyGets, Missing, Places, Holding
    <2> QED BY <1>4, <2>2 DEF KeyGets, TypeOK
  <1>5. CASE KeyFetches
    <2>1. loop.pc \in Holding /\ rows' = rows
      BY <1>5 DEF KeyFetches, At, Holding
    <2>2. loop' \in Loops /\ LoopKnows'
      BY <1>5, <2>1, LoopTyped, LoopMoves DEF KeyFetches, Places, Holding
    <2>3. loop.cmd.email \in Names /\ ServerKey \in Nat
      BY <2>1 DEF LoopKnows, Names, ServerKey
    <2>4. ks' \in [Names -> Nat] /\ disk' \in [Names -> Nat]
      BY <1>5, <2>3, KeystoreTyped DEF KeyFetches, TypeOK
    <2> QED BY <1>5, <2>2, <2>4 DEF KeyFetches, TypeOK
  <1>6. CASE KeySeals
    <2>1. loop.pc \in Holding /\ rows' = rows
      BY <1>6 DEF KeySeals, At, Holding
    <2>2. loop.cmd.email \in Names
      BY <2>1 DEF LoopKnows, Names
    <2>3. CASE UNCHANGED <<ks, disk, keys>>
      BY <1>6, <2>3, LoopTyped, LoopMoves DEF KeySeals, TypeOK
    <2>4. CASE ~UNCHANGED <<ks, disk, keys>>
      <3>1. /\ keys' = keys + 1
            /\ KsStore(loop.cmd.email, DeviceKey(keys')) \/ KsStoreFails(loop.cmd.email, DeviceKey(keys'))
        BY <1>6, <2>4 DEF KeySeals
      <3>2. keys' \in Nat /\ DeviceKey(keys') \in Nat
        BY <3>1 DEF TypeOK, DeviceKey
      <3>3. ks' \in [Names -> Nat] /\ disk' \in [Names -> Nat]
        BY <2>2, <3>1, <3>2, KeystoreTyped
      <3> QED BY <1>6, <3>2, <3>3, LoopTyped, LoopMoves DEF KeySeals, TypeOK
    <2> QED BY <2>3, <2>4
  <1> QED BY <1>1, <1>2, <1>3, <1>4, <1>5, <1>6

LEMMA BootTyped ==
    ASSUME TypeOK, LoopKnows, BootStep
    PROVE  TypeOK' /\ LoopKnows'
  <1> USE DEF diskVars, dbVars, ksVars, taskVars, userVars
  <1>1. CASE Start
    <2>1. PICK f \in [{i \in Ids : rows[i] # None} -> Groups] :
            /\ \A i, j \in DOMAIN f : f[i] = f[j] => i = j
            /\ runners' = [i \in Ids |-> IF i \in DOMAIN f THEN f[i] ELSE None]
            /\ grp' = [g \in Groups |->
                         IF \E i \in DOMAIN f : f[i] = g
                         THEN NewGroup(CHOOSE i \in DOMAIN f : f[i] = g) ELSE None]
      BY <1>1 DEF Start
    <2>2. ASSUME NEW i \in Ids, rows[i] # None PROVE NewGroup(i) \in Group
      BY <2>2 DEF NewGroup, TypeOK, Account, Group, Members
    <2>3. ASSUME NEW g \in Groups, \E i \in DOMAIN f : f[i] = g
          PROVE  NewGroup(CHOOSE i \in DOMAIN f : f[i] = g) \in Group
      <3>1. (CHOOSE i \in DOMAIN f : f[i] = g) \in DOMAIN f
        BY <2>3
      <3> QED BY <2>2, <3>1
    <2>4. grp' \in [Groups -> Group \cup {None}]
      BY <2>1, <2>3
    <2>5. runners' \in [Ids -> Groups \cup {None}]
      BY <2>1
    <2>6. loop' \in Loops /\ LoopKnows'
      BY <1>1, LoopTyped DEF Start, Loops, Places, LoopKnows, Adding, Holding
    <2> QED BY <1>1, <2>4, <2>5, <2>6 DEF Start, TypeOK
  <1>2. CASE StartFails
    BY <1>2 DEF StartFails, TypeOK, LoopKnows
  <1>3. CASE FrameTakes
    BY <1>3 DEF FrameTakes, TypeOK, LoopKnows
  <1>4. CASE Destroy
    BY <1>4 DEF Destroy, TypeOK, LoopKnows
  <1>5. CASE Shutdown
    BY <1>5 DEF Shutdown, TypeOK, LoopKnows
  <1>6. CASE Restart
    <2>1. loop' \in Loops /\ LoopKnows'
      BY <1>6, LoopTyped DEF Restart, Off, Loops, LoopKnows, Adding, Holding
    <2>2. cmdQ' \in Seq(AddCmds \cup IdCmds) /\ Len(cmdQ') <= QueueCap
      BY <1>6, AccountAssumption DEF Restart
    <2>3. restarts' \in 0..MaxRestarts
      BY <1>6, AccountAssumption DEF Restart, TypeOK
    <2> QED BY <1>6, <2>1, <2>2, <2>3 DEF Restart, TypeOK
  <1> QED BY <1>1, <1>2, <1>3, <1>4, <1>5, <1>6 DEF BootStep

LEMMA NextTyped ==
    ASSUME TypeOK, LoopKnows, [Next]_vars
    PROVE  TypeOK' /\ LoopKnows'
  <1>1. CASE UNCHANGED vars
    BY <1>1 DEF vars, diskVars, dbVars, ksVars, taskVars, userVars, TypeOK, LoopKnows
  <1>2. CASE UserStep \/ \E id \in Ids : SendKeyReq(id)
    BY <1>2, UserTyped
  <1>3. CASE LoopStep
    BY <1>3, AddTyped, RemoveTyped, UseTyped DEF LoopStep
  <1>4. CASE BootStep
    BY <1>4, BootTyped
  <1>5. ASSUME NEW g \in Groups, GroupStep(g) PROVE TypeOK' /\ LoopKnows'
    BY <1>5, GroupTyped
  <1> QED BY <1>1, <1>2, <1>3, <1>4, <1>5 DEF Next

(***************************************************************************)
(* The state stays well typed; the queue does not pass its capacity.       *)
(***************************************************************************)
THEOREM TypeCorrect == Spec => []TypeOK
  <1>1. Spec => [](TypeOK /\ LoopKnows)
    BY InitTyped, NextTyped, PTL DEF Spec
  <1> QED BY <1>1, PTL

-----------------------------------------------------------------------------
(***************************************************************************)
(* Who owns a group and the mail.  LiveGroupsAreKnown is not inductive:    *)
(* a removed account's rowid may be given away, so it also takes that a    *)
(* runner belongs to a row (RunnersMatchRows), and that the loop never     *)
(* deletes a row that still has one (StoppedIsOut).                        *)
(***************************************************************************)
Owned == LiveGroupsAreKnown /\ RunnersMatchRows /\ StoppedIsOut /\ MailBelongsToAccount

\* Steps that leave the accounts and the groups alone.
LEMMA OwnedFrame ==
    ASSUME TypeOK, Owned, UNCHANGED <<rows, data, runners, grp>>,
           \/ loop'.pc \notin Stopped
           \/ loop' = loop
           \/ loop.pc \in Stopped /\ loop'.cmd = loop.cmd
    PROVE  Owned'
  <1>1. StoppedIsOut'
    BY DEF Owned, StoppedIsOut
  <1> QED BY <1>1 DEF Owned, LiveGroupsAreKnown, RunnersMatchRows, MailBelongsToAccount, Gone

LEMMA InitOwned == Init => Owned
  BY DEF Init, Owned, Off, LiveGroupsAreKnown, RunnersMatchRows, StoppedIsOut, Stopped,
         MailBelongsToAccount, Gone

LEMMA StartOwned ==
    ASSUME TypeOK, Owned, NEW id \in Ids, rows[id] # None, StartAccount(id),
           UNCHANGED <<rows, data>>, loop'.pc \notin Stopped
    PROVE  Owned'
  <1>1. CASE runners[id] # None
    BY <1>1, OwnedFrame DEF StartAccount, taskVars
  <1>2. CASE runners[id] = None
    <2>1. PICK g \in Groups :
            /\ Gone(g) /\ \A i \in Ids : runners[i] # g
            /\ runners' = [runners EXCEPT ![id] = g]
            /\ grp' = [grp EXCEPT ![g] = NewGroup(id)]
      BY <1>2 DEF StartAccount
    <2>2. NewGroup(id) \in Group /\ NewGroup(id) # None
      BY AccountAssumption DEF NewGroup, TypeOK, Account, Group, Members
    <2>3. NewGroup(id).id = id /\ NewGroup(id).alias = rows[id].alias
      BY DEF NewGroup
    <2>4. grp'[g] = NewGroup(id) /\ runners'[id] = g
      BY <2>1 DEF TypeOK
    <2>5. ASSUME NEW h \in Groups, ~Gone(h)', grp'[h].ctx = "live"
          PROVE  runners'[grp'[h].id] = h
      <3>1. CASE h = g
        BY <2>3, <2>4, <3>1
      <3>2. CASE h # g
        <4>1. grp'[h] = grp[h] /\ grp[h] # None
          BY <2>1, <2>5, <3>2 DEF TypeOK, Gone
        <4>2. grp[h].id \in Ids /\ runners[grp[h].id] = h
          BY <2>5, <4>1 DEF Owned, LiveGroupsAreKnown, Gone, TypeOK, Group
        <4>3. h # None
          BY AccountAssumption
        <4> QED BY <1>2, <2>1, <4>1, <4>2, <4>3 DEF TypeOK
      <3> QED BY <3>1, <3>2
    <2>6. ASSUME NEW i \in Ids, runners'[i] # None
          PROVE  /\ rows'[i] # None
                 /\ grp'[runners'[i]] # None => /\ grp'[runners'[i]].id = i
                                                /\ grp'[runners'[i]].alias = rows'[i].alias
      <3>1. CASE i = id
        BY <2>3, <2>4, <3>1
      <3>2. CASE i # id
        <4>1. runners'[i] = runners[i] /\ runners[i] \in Groups /\ runners[i] # g
          BY <2>1, <2>6, <3>2 DEF TypeOK
        <4>2. grp'[runners[i]] = grp[runners[i]]
          BY <2>1, <4>1 DEF TypeOK
        <4> QED BY <2>6, <4>1, <4>2 DEF Owned, RunnersMatchRows, Gone
      <3> QED BY <3>1, <3>2
    <2>7. LiveGroupsAreKnown' /\ RunnersMatchRows'
      BY <2>5, <2>6 DEF LiveGroupsAreKnown, RunnersMatchRows, Gone
    <2> QED BY <2>7 DEF Owned, StoppedIsOut, MailBelongsToAccount
  <1> QED BY <1>1, <1>2

LEMMA StopOwned ==
    ASSUME TypeOK, Owned, NEW id \in Ids, StopAccount(id),
           UNCHANGED <<rows, data>>, loop'.cmd.id = id
    PROVE  Owned'
  <1>1. ASSUME NEW g \in Groups
        PROVE  /\ Gone(g)' <=> Gone(g)
               /\ ~Gone(g) => grp'[g].id = grp[g].id /\ grp'[g].alias = grp[g].alias
               /\ runners[id] # g => grp'[g] = grp[g]
               /\ runners[id] = g /\ ~Gone(g) => grp'[g].ctx = "cancelled"
    <2>1. grp[g] # None => [id |-> grp[g].id, alias |-> grp[g].alias,
                            ctx |-> "cancelled", alive |-> grp[g].alive] \in Group
      BY DEF TypeOK, Group
    <2> QED BY <2>1, AccountAssumption DEF StopAccount, Gone
  <1>2. runners'[id] = None /\ \A i \in Ids : i # id => runners'[i] = runners[i]
    BY DEF StopAccount, TypeOK
  <1>3. LiveGroupsAreKnown'
    <2> SUFFICES ASSUME NEW g \in Groups, ~Gone(g)', grp'[g].ctx = "live"
                 PROVE  runners'[grp'[g].id] = g
      BY DEF LiveGroupsAreKnown
    <2>1. ~Gone(g) /\ runners[id] # g /\ grp'[g] = grp[g]
      BY <1>1
    <2>2. grp[g].id \in Ids /\ runners[grp[g].id] = g
      BY <2>1 DEF Owned, LiveGroupsAreKnown, Gone, TypeOK, Group
    <2> QED BY <1>2, <2>1, <2>2
  <1>4. RunnersMatchRows'
    <2> SUFFICES ASSUME NEW i \in Ids, runners'[i] # None
                 PROVE  /\ rows'[i] # None
                        /\ grp'[runners'[i]] # None => /\ grp'[runners'[i]].id = i
                                                       /\ grp'[runners'[i]].alias = rows'[i].alias
      BY DEF RunnersMatchRows, Gone
    <2>1. i # id /\ runners'[i] = runners[i] /\ runners[i] \in Groups
      BY <1>2 DEF TypeOK
    <2>2. /\ grp'[runners[i]] # None => grp[runners[i]] # None
          /\ ~Gone(runners[i]) => /\ grp'[runners[i]].id = grp[runners[i]].id
                                  /\ grp'[runners[i]].alias = grp[runners[i]].alias
      BY <1>1, <2>1 DEF Gone
    <2>3. rows[i] # None /\ (~Gone(runners[i]) => /\ grp[runners[i]].id = i
                                                 /\ grp[runners[i]].alias = rows[i].alias)
      BY <2>1 DEF Owned, RunnersMatchRows
    <2> QED BY <2>1, <2>2, <2>3 DEF Gone
  <1> QED BY <1>2, <1>3, <1>4 DEF Owned, StoppedIsOut, MailBelongsToAccount

LEMMA LeaveOwned ==
    ASSUME TypeOK, Owned, NEW g \in Groups, ~Gone(g), NEW m, Leave(g, m),
           UNCHANGED <<rows, data, runners, loop>>
    PROVE  Owned'
  <1>1. ASSUME NEW h \in Groups, grp'[h] # None
        PROVE  /\ grp[h] # None /\ grp'[h].id = grp[h].id
               /\ grp'[h].alias = grp[h].alias /\ grp'[h].ctx = grp[h].ctx
    BY <1>1 DEF Leave, Gone, TypeOK
  <1>2. LiveGroupsAreKnown'
    BY <1>1 DEF Owned, LiveGroupsAreKnown, Gone
  <1>3. RunnersMatchRows'
    BY <1>1 DEF Owned, RunnersMatchRows, Gone, TypeOK
  <1> QED BY <1>2, <1>3 DEF Owned, StoppedIsOut, MailBelongsToAccount

LEMMA LoopOwned ==
    ASSUME TypeOK, LoopKnows, Owned, LoopStep
    PROVE  Owned'
  <1> USE DEF diskVars, dbVars, ksVars, taskVars, userVars
  <1>0. /\ Done => loop'.pc \notin Stopped
        /\ \A place : Goto(place) => loop'.pc = place /\ loop'.cmd = loop.cmd
        /\ \A place, id : Found(id, place) => loop'.pc = place /\ loop'.cmd.id = id
    BY DEF Done, Stopped, Goto, Found
  <1>1. CASE Dequeue \/ LoopExits
    <2>1. loop'.pc \notin Stopped /\ UNCHANGED <<rows, data, runners, grp>>
      BY <1>1 DEF Dequeue, LoopExits, Stopped
    <2> QED BY <2>1, OwnedFrame
  <1>2. CASE AddStores \/ UseGets \/ KeyGets \/ KeyFetches \/ KeySeals
    <2>1. loop'.pc \notin Stopped /\ UNCHANGED <<rows, data, runners, grp>>
      BY <1>0, <1>2 DEF AddStores, UseGets, KeyGets, KeyFetches, KeySeals, Stopped
    <2> QED BY <2>1, OwnedFrame
  <1>3. CASE WaitEnds \/ RemoveUnstores \/ UpdateStores
    <2>1. /\ loop.pc \in Stopped /\ UNCHANGED <<rows, data, runners, grp>>
          /\ loop'.pc \notin Stopped \/ loop'.cmd = loop.cmd
      BY <1>0, <1>3 DEF WaitEnds, RemoveUnstores, UpdateStores, Stopped, At
    <2> QED BY <2>1, OwnedFrame
  <1>4. CASE AddInserts
    <2>1. CASE Done /\ UNCHANGED rows
      BY <1>0, <1>4, <2>1, OwnedFrame DEF AddInserts
    <2>2. CASE ~(Done /\ UNCHANGED rows)
      <3>1. PICK id \in Ids :
              /\ NextRowid(id)
              /\ rows' = [rows EXCEPT ![id] = [email |-> loop.cmd.email, alias |-> loop.cmd.alias]]
              /\ loop'.cmd.id = id
        BY <1>4, <2>2 DEF AddInserts
      <3>2. rows[id] = None
        BY <3>1 DEF NextRowid, Ids
      <3>3. runners[id] = None /\ data[id] = {}
        BY <3>2 DEF Owned, RunnersMatchRows, MailBelongsToAccount
      <3>4. UNCHANGED <<data, runners, grp>>
        BY <1>4 DEF AddInserts
      <3>5. \A i \in Ids : i # id => rows'[i] = rows[i]
        BY <3>1 DEF TypeOK
      <3>6. RunnersMatchRows'
        BY <3>3, <3>4, <3>5 DEF Owned, RunnersMatchRows, Gone
      <3>7. MailBelongsToAccount'
        BY <3>3, <3>4, <3>5 DEF Owned, MailBelongsToAccount
      <3>8. LiveGroupsAreKnown' /\ StoppedIsOut'
        BY <3>1, <3>3, <3>4 DEF Owned, LiveGroupsAreKnown, Gone, StoppedIsOut
      <3> QED BY <3>6, <3>7, <3>8 DEF Owned
    <2> QED BY <2>1, <2>2
  <1>5. CASE StartsAccount
    <2>1. Target \in Ids /\ rows[Target] # None
      BY <1>5 DEF StartsAccount, At, LoopKnows, Holding, Target
    <2> QED BY <1>0, <1>5, <2>1, StartOwned DEF StartsAccount, Target
  <1>6. CASE GetAndStop
    <2>1. Target \in Ids
      BY <1>6 DEF GetAndStop, At, LoopKnows, Target
    <2>2. CASE Missing(Target)
      BY <1>0, <1>6, <2>2, OwnedFrame DEF GetAndStop
    <2>3. CASE ~Missing(Target)
      BY <1>0, <1>6, <2>1, <2>3, StopOwned DEF GetAndStop
    <2> QED BY <2>2, <2>3
  <1>7. CASE RemoveDeletes
    <2>1. CASE UNCHANGED <<rows, data>>
      BY <1>0, <1>7, <2>1, OwnedFrame DEF RemoveDeletes
    <2>2. CASE ~UNCHANGED <<rows, data>>
      <3>1. Target \in Ids /\ runners[Target] = None
        BY <1>7 DEF RemoveDeletes, At, LoopKnows, Holding, Owned, StoppedIsOut, Stopped, Target
      <3>2. /\ rows' = [rows EXCEPT ![Target] = None] /\ data' = [data EXCEPT ![Target] = {}]
            /\ UNCHANGED <<runners, grp>>
        BY <1>7, <2>2 DEF RemoveDeletes
      <3>3. \A i \in Ids : i # Target => rows'[i] = rows[i] /\ data'[i] = data[i]
        BY <3>2 DEF TypeOK
      <3>4. rows'[Target] = None /\ data'[Target] = {}
        BY <3>1, <3>2 DEF TypeOK
      <3>5. RunnersMatchRows'
        BY <3>1, <3>2, <3>3 DEF Owned, RunnersMatchRows, Gone
      <3>6. MailBelongsToAccount'
        BY <3>3, <3>4 DEF Owned, MailBelongsToAccount
      <3>7. LiveGroupsAreKnown' /\ StoppedIsOut'
        BY <1>0, <1>7, <3>2 DEF RemoveDeletes, Owned, LiveGroupsAreKnown, Gone, StoppedIsOut
      <3> QED BY <3>5, <3>6, <3>7 DEF Owned
    <2> QED BY <2>1, <2>2
  <1>8. CASE UsePooled \/ UseDials
    <2>1. /\ Target \in Ids /\ rows[Target] # None /\ loop.cmd.alias = rows[Target].alias
          /\ UNCHANGED <<rows, runners, grp>> /\ loop'.pc \notin Stopped
      BY <1>0, <1>8 DEF UsePooled, UseDials, At, LoopKnows, Holding, Stopped, Target
    <2>2. \/ data' = data
          \/ data' = [data EXCEPT ![Target] = @ \cup {loop.cmd.alias}]
      BY <1>8 DEF UsePooled, UseDials, UseWrites
    <2>3. data'[Target] \subseteq {rows[Target].alias}
      BY <2>1, <2>2 DEF Owned, MailBelongsToAccount, TypeOK
    <2>4. \A i \in Ids : i # Target => data'[i] = data[i]
      BY <2>1, <2>2 DEF TypeOK
    <2>5. MailBelongsToAccount'
      BY <2>1, <2>3, <2>4 DEF Owned, MailBelongsToAccount
    <2> QED BY <2>1, <2>5 DEF Owned, LiveGroupsAreKnown, RunnersMatchRows, StoppedIsOut, Gone
  <1> QED BY <1>1, <1>2, <1>3, <1>4, <1>5, <1>6, <1>7, <1>8 DEF LoopStep

LEMMA GroupOwned ==
    ASSUME TypeOK, Owned, NEW g \in Groups, GroupStep(g)
    PROVE  Owned'
  <1> USE DEF diskVars, dbVars, ksVars, taskVars, userVars
  <1>1. CASE SyncWrites(g)
    <2>1. /\ ~Gone(g) /\ grp[g].ctx # "cancelled" /\ rows[grp[g].id] # None
          /\ data' = [data EXCEPT ![grp[g].id] = @ \cup {grp[g].alias}]
          /\ UNCHANGED <<rows, runners, grp, loop>>
      BY <1>1 DEF SyncWrites, Cancelled
    <2>2. grp[g].id \in Ids /\ grp[g].ctx = "live"
      BY <2>1 DEF Gone, TypeOK, Group
    <2>3. runners[grp[g].id] = g /\ g # None
      BY <2>1, <2>2, AccountAssumption DEF Owned, LiveGroupsAreKnown
    <2>4. grp[g].alias = rows[grp[g].id].alias
      BY <2>1, <2>2, <2>3 DEF Owned, RunnersMatchRows
    <2>5. data'[grp[g].id] \subseteq {rows[grp[g].id].alias}
      BY <2>1, <2>2, <2>4 DEF Owned, MailBelongsToAccount, TypeOK
    <2>6. \A i \in Ids : i # grp[g].id => data'[i] = data[i]
      BY <2>1 DEF TypeOK
    <2>7. MailBelongsToAccount'
      BY <2>1, <2>5, <2>6 DEF Owned, MailBelongsToAccount
    <2> QED BY <2>1, <2>7 DEF Owned, LiveGroupsAreKnown, RunnersMatchRows, StoppedIsOut, Gone
  <1>2. CASE IdleAborts(g) \/ WorkerExits(g) \/ WatcherExits(g)
    <2>1. PICK m : Leave(g, m)
      BY <1>2 DEF IdleAborts, WorkerExits, WatcherExits
    <2>2. ~Gone(g) /\ UNCHANGED <<rows, data, runners, loop>>
      BY <1>2 DEF IdleAborts, WorkerExits, WatcherExits
    <2> QED BY <2>1, <2>2, LeaveOwned
  <1> QED BY <1>1, <1>2 DEF GroupStep

LEMMA BootOwned ==
    ASSUME TypeOK, Owned, BootStep
    PROVE  Owned'
  <1> USE DEF diskVars, dbVars, ksVars, taskVars, userVars
  <1>1. CASE Start
    <2>1. PICK f \in [{i \in Ids : rows[i] # None} -> Groups] :
            /\ \A i, j \in DOMAIN f : f[i] = f[j] => i = j
            /\ runners' = [i \in Ids |-> IF i \in DOMAIN f THEN f[i] ELSE None]
            /\ grp' = [g \in Groups |->
                         IF \E i \in DOMAIN f : f[i] = g
                         THEN NewGroup(CHOOSE i \in DOMAIN f : f[i] = g) ELSE None]
      BY <1>1 DEF Start
    <2>2. ASSUME NEW i \in DOMAIN f
          PROVE  /\ i \in Ids /\ rows[i] # None /\ f[i] \in Groups
                 /\ runners'[i] = f[i] /\ grp'[f[i]] = NewGroup(i)
      <3>1. i \in Ids /\ rows[i] # None /\ f[i] \in Groups
        OBVIOUS
      <3>2. (CHOOSE j \in DOMAIN f : f[j] = f[i]) = i
        BY <2>1
      <3> QED BY <2>1, <3>1, <3>2
    <2>3. \A g \in Groups : grp'[g] # None => \E i \in DOMAIN f : f[i] = g
      BY <2>1
    <2>4. UNCHANGED <<rows, data>> /\ loop'.pc \notin Stopped
      BY <1>1 DEF Start, Stopped
    <2>5. LiveGroupsAreKnown'
      <3> SUFFICES ASSUME NEW g \in Groups, grp'[g] # None
                   PROVE  runners'[grp'[g].id] = g
        BY DEF LiveGroupsAreKnown, Gone
      <3>1. PICK i \in DOMAIN f : f[i] = g
        BY <2>3
      <3>2. runners'[i] = g /\ grp'[g] = NewGroup(i)
        BY <2>2, <3>1
      <3>3. NewGroup(i).id = i
        BY DEF NewGroup
      <3> QED BY <3>2, <3>3
    <2>6. RunnersMatchRows'
      <3> SUFFICES ASSUME NEW i \in Ids, runners'[i] # None
                   PROVE  /\ rows'[i] # None
                          /\ grp'[runners'[i]] # None => /\ grp'[runners'[i]].id = i
                                                         /\ grp'[runners'[i]].alias = rows'[i].alias
        BY DEF RunnersMatchRows, Gone
      <3>1. i \in DOMAIN f
        BY <2>1
      <3>2. runners'[i] = f[i] /\ grp'[f[i]] = NewGroup(i) /\ rows[i] # None
        BY <2>2, <3>1
      <3>3. NewGroup(i).id = i /\ NewGroup(i).alias = rows[i].alias
        BY DEF NewGroup
      <3> QED BY <2>4, <3>2, <3>3
    <2> QED BY <2>4, <2>5, <2>6 DEF Owned, StoppedIsOut, MailBelongsToAccount
  <1>2. CASE StartFails \/ FrameTakes \/ Destroy \/ Shutdown
    <2>1. UNCHANGED <<rows, data, runners, grp, loop>>
      BY <1>2 DEF StartFails, FrameTakes, Destroy, Shutdown
    <2> QED BY <2>1, OwnedFrame
  <1>3. CASE Restart
    BY <1>3 DEF Restart, Off, Owned, LiveGroupsAreKnown, RunnersMatchRows, StoppedIsOut, Stopped,
                MailBelongsToAccount, Gone
  <1> QED BY <1>1, <1>2, <1>3 DEF BootStep

LEMMA AlwaysOwned == Spec => [](TypeOK /\ LoopKnows /\ Owned)
  <1>1. ASSUME TypeOK, LoopKnows, Owned, [Next]_vars PROVE Owned'
    <2>1. CASE UNCHANGED vars
      BY <1>1, <2>1, OwnedFrame DEF vars, diskVars, dbVars, taskVars
    <2>2. CASE UserStep \/ \E id \in Ids : SendKeyReq(id)
      <3>1. UNCHANGED <<rows, data, runners, grp, loop>>
        BY <2>2 DEF UserStep, UserAdds, UserSends, SendKeyReq, diskVars, dbVars, taskVars
      <3> QED BY <1>1, <3>1, OwnedFrame
    <2>3. CASE LoopStep
      BY <1>1, <2>3, LoopOwned
    <2>4. CASE BootStep
      BY <1>1, <2>4, BootOwned
    <2>5. ASSUME NEW g \in Groups, GroupStep(g) PROVE Owned'
      BY <1>1, <2>5, GroupOwned
    <2> QED BY <1>1, <2>1, <2>2, <2>3, <2>4, <2>5 DEF Next
  <1>2. TypeOK /\ LoopKnows /\ Owned /\ [Next]_vars => (TypeOK /\ LoopKnows /\ Owned)'
    BY <1>1, NextTyped
  <1>3. Init => TypeOK /\ LoopKnows /\ Owned
    BY InitTyped, InitOwned
  <1> QED BY <1>2, <1>3, PTL DEF Spec

(***************************************************************************)
(* stopAccount can reach every group of goroutines that was not cancelled: *)
(* an account is never synced by two groups, and none syncs for an account *)
(* whose runners entry is gone.                                            *)
(***************************************************************************)
THEOREM LiveGroupsKnown == Spec => []LiveGroupsAreKnown
  BY AlwaysOwned, PTL DEF Owned

(***************************************************************************)
(* Mail is stored under the account it came from, although the wait for a  *)
(* removed account's goroutines is bounded and its rowid is reused.        *)
(***************************************************************************)
THEOREM MailIsOwn == Spec => []MailBelongsToAccount
  BY AlwaysOwned, PTL DEF Owned

-----------------------------------------------------------------------------
(***************************************************************************)
(* Credentials.  Every change of the keystore writes the whole copy in     *)
(* memory, so what is in the file and what is in memory are proved         *)
(* together: CredentialsOnTheWay is what a restart falls back on.          *)
(***************************************************************************)
Safe == CredentialPrecedesRow /\ CredentialsOnTheWay /\ PooledHasCredential

\* A secret that is in memory and in the file stays in both.
Kept ==
    \A n \in Names : ks[n] # 0 => /\ ks'[n] # 0
                                  /\ disk[n] # 0 => disk'[n] # 0

LEMMA StoreKeeps ==
    ASSUME TypeOK, NEW n \in Names, NEW v \in Nat \ {0}, KsStore(n, v) \/ KsStoreFails(n, v)
    PROVE  Kept
  <1>1. CASE ks' = ks /\ disk' = disk
    BY <1>1 DEF Kept
  <1>2. CASE ks' = [ks EXCEPT ![n] = v] /\ (disk' = disk \/ disk' = ks')
    <2>1. \A k \in Names : ks[k] # 0 => ks'[k] # 0
      BY <1>2 DEF TypeOK
    <2> QED BY <1>2, <2>1 DEF Kept
  <1> QED BY <1>1, <1>2 DEF KsStore, KsStoreFails

LEMMA RowNamed ==
    ASSUME TypeOK, NEW i \in Ids, rows[i] # None
    PROVE  rows[i].alias \in Aliases /\ rows[i].alias \in Names
  BY DEF TypeOK, Account, Names

\* Steps that add secrets only and do not reach the two places of the loop
\* at which something is known of the credential.
LEMMA SafeFrame ==
    ASSUME TypeOK, Safe, Kept, UNCHANGED <<rows, signedOut>>, pool' \subseteq pool,
           \/ loop'.pc \notin {"insert", "unstore"}
           \/ loop' = loop /\ UNCHANGED <<ks, disk>>
    PROVE  Safe'
  <1>1. ASSUME NEW i \in Ids, rows'[i] # None
        PROVE  /\ ks'[rows'[i].alias] # 0 \/ rows'[i].alias \in signedOut'
               /\ disk'[rows'[i].alias] # 0 \/ rows'[i].alias \in signedOut'
    <2>1. rows[i].alias \in Names /\ rows' = rows /\ signedOut' = signedOut
      BY <1>1, RowNamed
    <2>2. /\ ks[rows[i].alias] # 0 \/ rows[i].alias \in signedOut
          /\ disk[rows[i].alias] # 0 \/ rows[i].alias \in signedOut
      BY <1>1, <2>1 DEF Safe, CredentialPrecedesRow, CredentialsOnTheWay, Has
    <2> QED BY <2>1, <2>2 DEF Kept
  <1>2. PooledHasCredential'
    <2>1. \A a \in pool' : a \in Names /\ ks[a] # 0
      BY DEF Safe, PooledHasCredential, Has, TypeOK, Names
    <2> QED BY <2>1 DEF Kept, PooledHasCredential, Has
  <1>3. /\ loop'.pc = "insert" => Has(loop.cmd.alias)' /\ disk'[loop'.cmd.alias] # 0
        /\ loop'.pc = "unstore" => loop'.cmd.alias \notin pool'
    BY DEF Safe, CredentialsOnTheWay, Has
  <1>4. CredentialsOnTheWay'
    BY <1>1, <1>3 DEF CredentialsOnTheWay
  <1>5. CredentialPrecedesRow'
    BY <1>1 DEF CredentialPrecedesRow, Has
  <1> QED BY <1>2, <1>4, <1>5 DEF Safe

LEMMA InitSafe == Init => Safe
  BY DEF Init, Off, Safe, CredentialPrecedesRow, CredentialsOnTheWay, PooledHasCredential

LEMMA LoopSafe ==
    ASSUME TypeOK, LoopKnows, Safe, LoopStep
    PROVE  Safe'
  <1> USE DEF diskVars, dbVars, ksVars, taskVars, userVars
  <1>0. /\ Done => loop'.pc = "free"
        /\ \A place : Goto(place) => loop'.pc = place /\ loop'.cmd = loop.cmd
        /\ \A place, id : Found(id, place) => loop'.pc = place
        /\ UNCHANGED <<ks, disk>> => Kept
    BY DEF Done, Goto, Found, Kept
  <1>1. CASE Dequeue \/ LoopExits \/ StartsAccount \/ GetAndStop \/ UseGets \/ UsePooled
             \/ KeyGets
    <2>1. /\ UNCHANGED <<rows, signedOut, ks, disk>> /\ pool' \subseteq pool
          /\ loop'.pc \notin {"insert", "unstore"}
      BY <1>0, <1>1 DEF Dequeue, LoopExits, StartsAccount, GetAndStop, UseGets, UsePooled, KeyGets
    <2> QED BY <1>0, <2>1, SafeFrame
  <1>2. CASE UpdateStores
    <2>1. loop.cmd.alias \in Names
      BY <1>2, RowNamed DEF UpdateStores, At, LoopKnows, Holding
    <2>2. Kept
      BY <1>2, <2>1, StoreKeeps DEF UpdateStores, Credential
    <2> QED BY <1>0, <1>2, <2>2, SafeFrame DEF UpdateStores
  <1>3. CASE KeyFetches
    <2>1. loop.cmd.email \in Names
      BY <1>3 DEF KeyFetches, At, LoopKnows, Holding, Names
    <2>2. Kept
      BY <1>0, <1>3, <2>1, StoreKeeps DEF KeyFetches, ServerKey
    <2> QED BY <1>0, <1>3, <2>2, SafeFrame DEF KeyFetches
  <1>4. CASE KeySeals
    <2>1. loop.cmd.email \in Names
      BY <1>4 DEF KeySeals, At, LoopKnows, Holding, Names
    <2>2. DeviceKey(keys + 1) \in Nat \ {0}
      BY DEF DeviceKey, TypeOK
    <2>3. Kept
      BY <1>0, <1>4, <2>1, <2>2, StoreKeeps DEF KeySeals
    <2> QED BY <1>0, <1>4, <2>3, SafeFrame DEF KeySeals
  <1>5. CASE AddStores
    <2>1. loop.cmd.alias \in Names
      BY <1>5 DEF AddStores, At, LoopKnows, Adding, Names
    <2>2. Kept
      BY <1>5, <2>1, StoreKeeps DEF AddStores, Credential
    <2>3. CASE Done
      BY <1>0, <1>5, <2>2, <2>3, SafeFrame DEF AddStores
    <2>4. CASE KsStore(loop.cmd.alias, Credential) /\ Goto("insert")
      <3>1. ks'[loop.cmd.alias] # 0 /\ disk' = ks' /\ loop'.pc = "insert" /\ loop'.cmd = loop.cmd
        BY <1>0, <2>1, <2>4 DEF KsStore, TypeOK, Credential
      <3>2. UNCHANGED <<rows, signedOut, pool>>
        BY <1>5 DEF AddStores
      <3>3. CredentialPrecedesRow'
        BY <2>2, <3>2, RowNamed DEF Safe, CredentialPrecedesRow, Kept, Has
      <3>4. CredentialsOnTheWay'
        BY <3>1, <3>3 DEF CredentialsOnTheWay, CredentialPrecedesRow, Has
      <3>5. \A a \in pool : a \in Names
        BY DEF TypeOK, Names
      <3>6. PooledHasCredential'
        BY <2>2, <3>2, <3>5 DEF Safe, PooledHasCredential, Kept, Has
      <3> QED BY <3>3, <3>4, <3>6 DEF Safe
    <2> QED BY <1>5, <2>3, <2>4 DEF AddStores
  <1>6. CASE AddInserts
    <2>1. CASE Done /\ UNCHANGED rows
      BY <1>0, <1>6, <2>1, SafeFrame DEF AddInserts
    <2>2. CASE ~(Done /\ UNCHANGED rows)
      <3>1. PICK id \in Ids :
              /\ rows' = [rows EXCEPT ![id] = [email |-> loop.cmd.email, alias |-> loop.cmd.alias]]
              /\ loop'.pc = "start"
        BY <1>6, <2>2 DEF AddInserts
      <3>2. rows'[id].alias = loop.cmd.alias /\ \A i \in Ids : i # id => rows'[i] = rows[i]
        BY <3>1 DEF TypeOK
      <3>3. ks[loop.cmd.alias] # 0 /\ disk[loop.cmd.alias] # 0
        BY <1>6 DEF AddInserts, At, Safe, CredentialsOnTheWay, Has
      <3>4. UNCHANGED <<ks, disk, pool, signedOut>>
        BY <1>6 DEF AddInserts
      <3>5. CredentialPrecedesRow'
        BY <3>2, <3>3, <3>4 DEF Safe, CredentialPrecedesRow, Has
      <3>6. CredentialsOnTheWay'
        BY <3>1, <3>2, <3>3, <3>4 DEF Safe, CredentialsOnTheWay
      <3>7. PooledHasCredential'
        BY <3>4 DEF Safe, PooledHasCredential, Has
      <3> QED BY <3>5, <3>6, <3>7 DEF Safe
    <2> QED BY <2>1, <2>2
  <1>7. CASE WaitEnds
    <2>1. /\ UNCHANGED <<rows, signedOut, ks, disk>> /\ pool' \subseteq pool
          /\ loop'.pc # "insert"
          /\ loop'.pc = "unstore" => loop'.cmd.alias \notin pool'
      BY <1>0, <1>7 DEF WaitEnds, DropCommandConn
    <2>2. CredentialPrecedesRow' /\ PooledHasCredential'
      BY <2>1 DEF Safe, CredentialPrecedesRow, PooledHasCredential, Has
    <2>3. CredentialsOnTheWay'
      BY <2>1 DEF Safe, CredentialsOnTheWay
    <2> QED BY <2>2, <2>3 DEF Safe
  <1>8. CASE RemoveUnstores
    <2>1. /\ UNCHANGED <<rows, pool>> /\ loop'.pc = "delete"
          /\ signedOut' = signedOut \cup {loop.cmd.alias}
          /\ ks' = [ks EXCEPT ![loop.cmd.alias] = 0] /\ (disk' = ks' \/ disk' = disk)
          /\ loop.cmd.alias \notin pool
      BY <1>0, <1>8 DEF RemoveUnstores, KsDelete, At, Safe, CredentialsOnTheWay
    <2>2. \A n \in Names : n # loop.cmd.alias => ks'[n] = ks[n]
      BY <2>1 DEF TypeOK
    <2>3. CredentialPrecedesRow'
      BY <2>1, <2>2, RowNamed DEF Safe, CredentialPrecedesRow, Has
    <2>4. CredentialsOnTheWay'
      BY <2>1, <2>3 DEF Safe, CredentialsOnTheWay, CredentialPrecedesRow, Has
    <2>5. \A a \in pool : a \in Names /\ a # loop.cmd.alias
      BY <2>1 DEF TypeOK, Names
    <2>6. PooledHasCredential'
      BY <2>1, <2>2, <2>5 DEF Safe, PooledHasCredential, Has
    <2> QED BY <2>3, <2>4, <2>6 DEF Safe
  <1>9. CASE RemoveDeletes
    <2>1. \A i \in Ids : rows'[i] # None => rows'[i] = rows[i]
      BY <1>9 DEF RemoveDeletes, TypeOK
    <2>2. UNCHANGED <<ks, disk, pool, signedOut>> /\ loop'.pc = "free"
      BY <1>0, <1>9 DEF RemoveDeletes
    <2>3. CredentialPrecedesRow' /\ PooledHasCredential'
      BY <2>1, <2>2 DEF Safe, CredentialPrecedesRow, PooledHasCredential, Has
    <2>4. CredentialsOnTheWay'
      BY <2>1, <2>2 DEF Safe, CredentialsOnTheWay
    <2> QED BY <2>3, <2>4 DEF Safe
  <1>10. CASE UseDials
    <2>1. UNCHANGED <<rows, signedOut, ks, disk>> /\ loop'.pc = "free"
      BY <1>0, <1>10 DEF UseDials
    <2>2. PooledHasCredential'
      BY <1>10, <2>1 DEF UseDials, Safe, PooledHasCredential, Has
    <2>3. CredentialPrecedesRow'
      BY <2>1 DEF Safe, CredentialPrecedesRow, Has
    <2>4. CredentialsOnTheWay'
      BY <2>1 DEF Safe, CredentialsOnTheWay
    <2> QED BY <2>2, <2>3, <2>4 DEF Safe
  <1> QED BY <1>1, <1>2, <1>3, <1>4, <1>5, <1>6, <1>7, <1>8, <1>9, <1>10 DEF LoopStep

LEMMA AlwaysSafe == Spec => [](TypeOK /\ LoopKnows /\ Safe)
  <1>1. ASSUME TypeOK, LoopKnows, Safe, [Next]_vars PROVE Safe'
    <2> USE DEF diskVars, dbVars, ksVars, taskVars, userVars
    <2>0. UNCHANGED <<ks, disk>> => Kept
      BY DEF Kept
    <2>1. CASE UNCHANGED vars
      BY <1>1, <2>0, <2>1, SafeFrame DEF vars
    <2>2. CASE UserStep \/ \E id \in Ids : SendKeyReq(id)
      <3>1. UNCHANGED <<rows, signedOut, pool, loop, ks, disk>>
        BY <2>2 DEF UserStep, UserAdds, UserSends, SendKeyReq
      <3> QED BY <1>1, <2>0, <3>1, SafeFrame
    <2>3. CASE LoopStep
      BY <1>1, <2>3, LoopSafe
    <2>4. CASE Start \/ StartFails \/ FrameTakes \/ Destroy \/ Shutdown
      <3>1. /\ UNCHANGED <<rows, signedOut, ks, disk>> /\ pool' \subseteq pool
            /\ loop' = loop \/ loop'.pc \notin {"insert", "unstore"}
        BY <2>4 DEF Start, StartFails, FrameTakes, Destroy, Shutdown
      <3> QED BY <1>1, <2>0, <3>1, SafeFrame
    <2>5. CASE Restart
      <3>1. /\ UNCHANGED <<rows, signedOut, disk>> /\ ks' = disk /\ pool' = {}
            /\ loop'.pc \notin {"insert", "unstore"}
        BY <2>5 DEF Restart, Off
      <3> QED BY <1>1, <3>1 DEF Safe, CredentialPrecedesRow, CredentialsOnTheWay,
                                PooledHasCredential, Has
    <2>6. ASSUME NEW g \in Groups, GroupStep(g) PROVE Safe'
      <3>1. UNCHANGED <<rows, signedOut, pool, loop, ks, disk>>
        BY <2>6 DEF GroupStep, SyncWrites, IdleAborts, WorkerExits, WatcherExits
      <3> QED BY <1>1, <2>0, <3>1, SafeFrame
    <2> QED BY <1>1, <2>1, <2>2, <2>3, <2>4, <2>5, <2>6 DEF Next, BootStep
  <1>2. TypeOK /\ LoopKnows /\ Safe /\ [Next]_vars => (TypeOK /\ LoopKnows /\ Safe)'
    BY <1>1, NextTyped
  <1>3. Init => TypeOK /\ LoopKnows /\ Safe
    BY InitTyped, InitSafe
  <1> QED BY <1>2, <1>3, PTL DEF Spec

(***************************************************************************)
(* An account row without a credential can only be one whose removal was   *)
(* cut short: not one that was added while the keystore or the process     *)
(* failed.                                                                 *)
(***************************************************************************)
THEOREM CredentialBeforeRow == Spec => []CredentialPrecedesRow
  BY AlwaysSafe, PTL DEF Safe

(***************************************************************************)
(* No connection stays parked for an account whose credential is gone.     *)
(***************************************************************************)
THEOREM PoolFollowsCredential == Spec => []PooledHasCredential
  BY AlwaysSafe, PTL DEF Safe

-----------------------------------------------------------------------------
(***************************************************************************)
(* The restart of a group.                                                 *)
(***************************************************************************)
LEMMA AlwaysOpeningOff == Spec => []OpeningIsOff
  <1> USE DEF OpeningIsOff
  <1>1. Init => OpeningIsOff
    BY DEF Init, Off
  <1>2. ASSUME OpeningIsOff, [Next]_vars PROVE OpeningIsOff'
    <2> USE DEF taskVars, diskVars, dbVars, ksVars, userVars
    <2>1. CASE UNCHANGED vars
      BY <1>2, <2>1 DEF vars
    <2>2. CASE UserStep \/ \E id \in Ids : SendKeyReq(id)
      BY <1>2, <2>2 DEF UserStep, UserAdds, UserSends, SendKeyReq
    <2>3. CASE LoopStep
      <3>1. loop.pc \notin {"off", "exited"} /\ boot' = boot
        BY <2>3 DEF LoopStep, At, Dequeue, LoopExits, AddStores, AddInserts, StartsAccount,
                    GetAndStop, WaitEnds, RemoveUnstores, RemoveDeletes, UpdateStores,
                    UseGets, UsePooled, UseDials, KeyGets, KeyFetches, KeySeals
      <3> QED BY <1>2, <3>1
    <2>4. CASE BootStep
      BY <1>2, <2>4 DEF BootStep, Start, StartFails, FrameTakes, Destroy, Shutdown, Restart, Off
    <2>5. ASSUME NEW g \in Groups, GroupStep(g) PROVE OpeningIsOff'
      <3>1. UNCHANGED <<boot, loop>>
        BY <2>5 DEF GroupStep, SyncWrites, IdleAborts, WorkerExits, WatcherExits
      <3> QED BY <1>2, <3>1
    <2> QED BY <1>2, <2>1, <2>2, <2>3, <2>4, <2>5 DEF Next
  <1> QED BY <1>1, <1>2, PTL DEF Spec

(***************************************************************************)
(* A credential update that ends in startAccount starts a whole new group: *)
(* the early return for an account that has a runner is never taken.       *)
(***************************************************************************)
THEOREM UpdateStartsGroup == Spec => UpdateRevives
  <1> DEFINE Revives ==
        At("start") /\ loop.cmd.kind = "update" /\ loop'.pc = "free"
          => LET g == runners'[Target] IN
               g # None /\ grp'[g].alive = Members /\ grp'[g].ctx = "live"
  <1>1. ASSUME TypeOK, LoopKnows, Owned, OpeningIsOff, [Next]_vars PROVE [Revives]_vars
    <2> SUFFICES ASSUME At("start"), loop'.pc = "free"
                 PROVE  LET g == runners'[Target] IN
                          g # None /\ grp'[g].alive = Members /\ grp'[g].ctx = "live"
      BY <1>1
    <2> USE DEF taskVars, diskVars, dbVars, ksVars, userVars
    <2>1. StartsAccount
      <3>1. loop.pc = "start" /\ boot # "opening" /\ loop' # loop
        BY <1>1 DEF At, OpeningIsOff
      <3>2. ~UNCHANGED vars /\ ~UserStep /\ ~(\E id \in Ids : SendKeyReq(id))
        BY <3>1 DEF vars, UserStep, UserAdds, UserSends, SendKeyReq
      <3>3. ~BootStep
        BY <3>1 DEF BootStep, Start, StartFails, FrameTakes, Destroy, Shutdown, Restart, Off
      <3>4. ~(\E g \in Groups : GroupStep(g))
        BY <3>1 DEF GroupStep, SyncWrites, IdleAborts, WorkerExits, WatcherExits
      <3>5. LoopStep
        BY <1>1, <3>2, <3>3, <3>4 DEF Next
      <3> QED BY <3>1, <3>5 DEF LoopStep, At, Dequeue, LoopExits, AddStores, AddInserts,
                    GetAndStop, WaitEnds, RemoveUnstores, RemoveDeletes, UpdateStores,
                    UseGets, UsePooled, UseDials, KeyGets, KeyFetches, KeySeals
    <2>2. Target \in Ids /\ runners[Target] = None
      BY <1>1 DEF At, LoopKnows, Holding, Owned, StoppedIsOut, Stopped, Target
    <2>3. PICK g \in Groups : /\ runners' = [runners EXCEPT ![Target] = g]
                              /\ grp' = [grp EXCEPT ![g] = NewGroup(Target)]
      BY <2>1, <2>2 DEF StartsAccount, StartAccount, Target
    <2>4. runners'[Target] = g /\ grp'[g] = NewGroup(Target) /\ g # None
      BY <1>1, <2>2, <2>3, AccountAssumption DEF TypeOK
    <2> QED BY <2>4 DEF NewGroup
  <1>2. Spec => [][Revives]_vars
    BY <1>1, AlwaysOwned, AlwaysOpeningOff, PTL DEF Spec
  <1> QED BY <1>2 DEF UpdateRevives

-----------------------------------------------------------------------------
(* Setting up an account.                                                  *)

\* A try that has not sent its command has no outcome; a waiter has none yet.
Untold ==
    /\ \A t \in Tries : /\ try[t].pc \notin {"await", "ended"} => try[t].done = "none"
                        /\ try[t].pc # "ended" => try[t].told = "none"
                        /\ try[t].pc = "ended" => try[t].done = "none"
    /\ \A t \in addWaiters : try[t].pc = "await" /\ try[t].done = "none"

\* Every wait has a number of its own, and the newest can be cancelled.
Waiting ==
    /\ \A t \in Tries : try[t].gen <= waitGen
    /\ \A t, u \in Tries : t # u /\ try[t].gen # 0 => try[t].gen # try[u].gen
    /\ \A t \in Tries : try[t].pc \in {"wait", "poll"} => try[t].gen # 0
    /\ \A t \in Tries : try[t].pc \in {"wait", "poll"} /\ try[t].ctx = "live" /\ try[t].gen = waitGen
                            => waitCancel = t

\* A wait that was left can only end; what was sent was not left.
Leaving ==
    /\ \A t \in Tries : try[t].left = "yes" => \/ try[t].pc = "wait" /\ try[t].ctx # "live"
                                               \/ try[t].pc = "ended"
    /\ \A t \in Tries : Queued(t) \/ Working(t) \/ t \in account
                            => try[t].pc \in {"await", "ended"} /\ try[t].left = "no"

\* One add at a time is in the queue, under way or announced.
NoneWorking == cur # Nobody => cur.cmd \notin Tries
NoneAnnounced == \A i \in DOMAIN eventCh : eventCh[i].of \notin Tries

OneAdd ==
    /\ \A i, j \in DOMAIN queue : queue[i] \in Tries /\ queue[j] \in Tries => i = j
    /\ \A i, j \in DOMAIN eventCh : eventCh[i].of \in Tries /\ eventCh[j].of \in Tries => i = j
    /\ \A i \in DOMAIN queue : queue[i] \in Tries => NoneWorking /\ NoneAnnounced
    /\ NoneWorking \/ NoneAnnounced

\* What is announced is what happened.
Announcements ==
    \A i \in DOMAIN eventCh :
        /\ eventCh[i].k = "added" => account = {eventCh[i].of}
        /\ eventCh[i].k = "notAdded" => eventCh[i].of \notin account

\* An add that is outstanding and one that is waited for are the same.
Sole == \A t, u \in Outstanding \cup addWaiters : t = u

\* A command not yet carried out has no outcome, one carried out its own.
Outcomes ==
    \A t \in Tries :
        /\ Queued(t) \/ Working(t) => /\ t \notin account /\ try[t].done = "none"
                                      /\ try[t].told \notin {"connected", "refused"}
        /\ "connected" \in {try[t].done, try[t].told} => t \in account
        /\ "refused" \in {try[t].done, try[t].told} => t \notin account

Honest == OneAdd /\ Announcements /\ Sole /\ Outcomes
SetupInv == Untold /\ Waiting /\ Leaving
HonestInv == overlap = "no" => Honest

-----------------------------------------------------------------------------
(* Types.                                                                  *)

Outcome == {"none", "connected", "refused", "failed", "unfinished"}

LEMMA LocalsTyped ==
    ASSUME NEW kind \in {"none", "connect", "code", "manual"}, NEW pc \in {"idle", "discover", "ended"},
           NEW left \in {"yes", "no"}, NEW told \in Outcome
    PROVE  Locals(kind, pc, left, told) \in Goroutines
  BY DEF Locals, Goroutines, Outcome

LEMMA SetupInitType == SetupInit => SetupTypeOK
  <1> SUFFICES ASSUME SetupInit PROVE SetupTypeOK
    OBVIOUS
  <1>1. try \in [Tries -> Goroutines]
    BY LocalsTyped DEF SetupInit, Outcome
  <1>2. queue \in Seq(Tries \cup {"sync"}) /\ Len(queue) <= QCap /\ eventCh \in Seq(Events) /\ Len(eventCh) <= ECap
    BY SetupAssumption DEF SetupInit
  <1> HIDE DEF Events
  <1> QED BY <1>1, <1>2 DEF SetupInit, SetupTypeOK

\* What the end of a goroutine, and a cancel, make of the tries.
LEMMA EndsEffect ==
    ASSUME SetupTypeOK, NEW t \in Tries, NEW told \in Outcome, ends(t, told)
    PROVE  /\ try' \in [Tries -> Goroutines] /\ \A u \in Tries \ {t} : try'[u] = try[u]
           /\ try'[t].pc = "ended" /\ try'[t].left = try[t].left /\ try'[t].gen = 0
           /\ try'[t].done = "none" /\ try'[t].told = told
           /\ busy' \in BOOLEAN /\ waitCancel' \in {waitCancel, Nobody} /\ UNCHANGED <<shown, mode, waitGen>>
           /\ waitCancel' = IF try[t].gen = waitGen /\ try[t].gen > 0 THEN Nobody ELSE waitCancel
  <1> DEFINE r == Locals("none", "ended", try[t].left, told)
  <1>1. try[t] \in Goroutines /\ try \in [Tries -> Goroutines]
    BY DEF SetupTypeOK
  <1>2. try[t].kind \in {"none", "connect", "code", "manual"} /\ try[t].left \in {"yes", "no"}
    BY <1>1 DEF Goroutines
  <1>3. r \in Goroutines
    BY <1>2, LocalsTyped
  <1>4. r.pc = "ended" /\ r.left = try[t].left /\ r.gen = 0 /\ r.done = "none" /\ r.told = told
    BY DEF Locals
  <1>5. try' = [try EXCEPT ![t] = r]
    BY DEF ends
  <1> HIDE DEF r
  <1>7. try' \in [Tries -> Goroutines] /\ try'[t] = r /\ \A u \in Tries \ {t} : try'[u] = try[u]
    BY <1>1, <1>3, <1>5
  <1>8. busy' \in BOOLEAN
    BY DEF ends, SetupTypeOK
  <1> QED BY <1>3, <1>4, <1>7, <1>8 DEF ends, clearWait

LEMMA StepEffect ==
    ASSUME SetupTypeOK, NEW t \in Tries,
           NEW p \in {"register", "wait", "poll", "exchange", "add", "await"}, Step(t, p)
    PROVE  /\ try' \in [Tries -> Goroutines] /\ \A u \in Tries \ {t} : try'[u] = try[u]
           /\ try'[t].pc = p /\ try'[t].ctx = try[t].ctx /\ try'[t].left = try[t].left
           /\ try'[t].gen = try[t].gen /\ try'[t].done = try[t].done /\ try'[t].told = try[t].told
  <1> DEFINE r == [try[t] EXCEPT !.pc = p]
  <1>1. try[t] \in Goroutines /\ try \in [Tries -> Goroutines]
    BY DEF SetupTypeOK
  <1>2. /\ r \in Goroutines /\ r.pc = p /\ r.ctx = try[t].ctx /\ r.left = try[t].left
        /\ r.gen = try[t].gen /\ r.done = try[t].done /\ r.told = try[t].told
    BY <1>1 DEF Goroutines
  <1>3. try' = [try EXCEPT ![t] = r]
    BY DEF Step
  <1> HIDE DEF r
  <1> QED BY <1>1, <1>2, <1>3

LEMMA CancelEffect ==
    ASSUME waitCancel \in Tries \cup {Nobody}, NEW f \in [Tries -> Goroutines]
    PROVE  /\ CancelledTries(f) \in [Tries -> Goroutines]
           /\ \A t \in Tries : LET r == CancelledTries(f)[t] IN
                 /\ r.pc = f[t].pc /\ r.gen = f[t].gen /\ r.done = f[t].done /\ r.told = f[t].told
                 /\ r.ctx = IF t = waitCancel /\ f[t].pc \in {"wait", "poll"} /\ f[t].ctx = "live"
                            THEN "cancelled" ELSE f[t].ctx
                 /\ r.left = IF Waits(f[t]) THEN "yes" ELSE f[t].left
  <1> DEFINE c(t) == IF t = waitCancel /\ f[t].pc \in {"wait", "poll"} /\ f[t].ctx = "live"
                     THEN "cancelled" ELSE f[t].ctx
             l(t) == IF Waits(f[t]) THEN "yes" ELSE f[t].left
             e(t) == [f[t] EXCEPT !.ctx = c(t), !.left = l(t)]
  <1>1. CancelledTries(f) = [t \in Tries |-> e(t)]
    BY DEF CancelledTries
  <1>2. ASSUME NEW t \in Tries PROVE c(t) \in {"live", "cancelled", "expired"} /\ l(t) \in {"yes", "no"}
    BY DEF Goroutines
  <1> HIDE DEF c, l
  <1>3. ASSUME NEW t \in Tries
        PROVE  /\ e(t) \in Goroutines /\ e(t).pc = f[t].pc /\ e(t).gen = f[t].gen /\ e(t).done = f[t].done
               /\ e(t).told = f[t].told /\ e(t).ctx = c(t) /\ e(t).left = l(t)
    <2>1. f[t] \in Goroutines
      BY <1>3
    <2>2. e(t) \in Goroutines
      BY <1>2, <2>1 DEF Goroutines
    <2>3. e(t).pc = f[t].pc /\ e(t).gen = f[t].gen /\ e(t).done = f[t].done /\ e(t).told = f[t].told
      BY <2>1 DEF Goroutines
    <2>4. e(t).ctx = c(t) /\ e(t).left = l(t)
      BY <2>1 DEF Goroutines
    <2> QED BY <2>2, <2>3, <2>4
  <1> HIDE DEF e
  <1> QED BY <1>1, <1>3 DEF c, l

-----------------------------------------------------------------------------
(* Steps that leave the manager alone: taps, timers, and goroutines on     *)
(* their way to AddAccountAwait or after it.                               *)

Waited == {"wait", "poll"}
Handed == {"await", "ended"}

\* What may become of one try: it goes on, it stays, or it ends.
GoesOn(t) ==
    /\ try[t].pc \notin Handed /\ try'[t].pc \notin Handed
    /\ try'[t].done = try[t].done /\ try'[t].told = try[t].told
    /\ try'[t].left = "yes" => try'[t].pc = "wait" /\ try'[t].ctx # "live"

Stays(t) ==
    /\ try[t].pc \in Handed /\ try'[t].pc = try[t].pc
    /\ try'[t].done = try[t].done /\ try'[t].told = try[t].told /\ try'[t].left = try[t].left

HasEnded(t) ==
    /\ try[t].pc # "ended" /\ try'[t].pc = "ended" /\ t \notin addWaiters'
    /\ try'[t].done = "none" /\ try'[t].left = try[t].left
    /\ \/ try'[t].told \in {"failed", "unfinished"}
       \/ try[t].pc = "await" /\ try[t].done # "none" /\ try'[t].told = try[t].done

Quiet ==
    /\ UNCHANGED <<managerVars, overlap>> /\ addWaiters' \subseteq addWaiters
    /\ \A t \in Tries : GoesOn(t) \/ Stays(t) \/ HasEnded(t)
    /\ Waiting'

LEMMA QuietHonest ==
    ASSUME SetupTypeOK, SetupInv, Honest, Quiet PROVE Honest'
  <1>1. UNCHANGED <<queue, cur, eventCh, account>> /\ addWaiters' \subseteq addWaiters
    BY DEF Quiet, managerVars
  <1>2. OneAdd'
    BY <1>1 DEF Honest, OneAdd, NoneWorking, NoneAnnounced
  <1>3. Announcements'
    BY <1>1 DEF Honest, Announcements
  <1>4. Sole'
    BY <1>1 DEF Honest, Sole, Outstanding, Queued, Working, Announced
  <1>5. ASSUME NEW t \in Tries
        PROVE  /\ "connected" \in {try'[t].done, try'[t].told} => "connected" \in {try[t].done, try[t].told}
               /\ "refused" \in {try'[t].done, try'[t].told} => "refused" \in {try[t].done, try[t].told}
               /\ try[t].done = "none" => try'[t].done = "none"
               /\ try[t].done = "none" /\ try[t].told \notin {"connected", "refused"}
                    => try'[t].told \notin {"connected", "refused"}
    BY DEF Quiet, GoesOn, Stays, HasEnded
  <1>6. Outcomes'
    BY <1>1, <1>5 DEF Honest, Outcomes, Queued, Working
  <1> QED BY <1>2, <1>3, <1>4, <1>6 DEF Honest

LEMMA QuietInv ==
    ASSUME SetupTypeOK, SetupInv, HonestInv, Quiet PROVE SetupInv' /\ HonestInv'
  <1>1. UNCHANGED <<queue, cur, eventCh, account>> /\ addWaiters' \subseteq addWaiters
    BY DEF Quiet, managerVars
  <1>2. Untold'
    <2>1. \A t \in Tries : /\ try'[t].pc \notin {"await", "ended"} => try'[t].done = "none"
                           /\ try'[t].pc # "ended" => try'[t].told = "none"
                           /\ try'[t].pc = "ended" => try'[t].done = "none"
      BY DEF SetupInv, Untold, Quiet, GoesOn, Stays, HasEnded, Handed
    <2>2. \A t \in addWaiters' : try'[t].pc = "await" /\ try'[t].done = "none"
      BY <1>1 DEF SetupTypeOK, SetupInv, Untold, Quiet, GoesOn, Stays, HasEnded, Handed
    <2> QED BY <2>1, <2>2 DEF Untold
  <1>3. Leaving'
    <2>1. \A t \in Tries : try'[t].left = "yes" => \/ try'[t].pc = "wait" /\ try'[t].ctx # "live"
                                                   \/ try'[t].pc = "ended"
      BY DEF SetupInv, Leaving, Quiet, GoesOn, Stays, HasEnded, Handed
    <2>2. \A t \in Tries : Queued(t) \/ Working(t) \/ t \in account
                              => try'[t].pc \in {"await", "ended"} /\ try'[t].left = "no"
      BY DEF SetupInv, Leaving, Quiet, GoesOn, Stays, HasEnded, Handed
    <2> QED BY <1>1, <2>1, <2>2 DEF Leaving, Queued, Working
  <1>5. SetupInv'
    BY <1>2, <1>3 DEF SetupInv, Quiet
  <1>6. HonestInv'
    BY QuietHonest DEF HonestInv, Quiet
  <1> QED BY <1>5, <1>6

\* The waits of a step that starts none.
WaitsOn(t) ==
    /\ try'[t].gen \in {0, try[t].gen}
    /\ try'[t].pc \in Waited => /\ try[t].pc \in Waited /\ try'[t].gen = try[t].gen
                                /\ try'[t].ctx = "live" => try[t].ctx = "live"

LEMMA WaitingKept ==
    ASSUME SetupTypeOK, Waiting, waitGen' = waitGen, \A t \in Tries : WaitsOn(t),
           \/ waitCancel' = waitCancel
           \/ \A t \in Tries : try'[t].pc \in Waited /\ try'[t].ctx = "live" => try'[t].gen # waitGen
    PROVE  Waiting'
  <1>1. \A t \in Tries : try[t].gen \in Nat
    BY DEF SetupTypeOK, Goroutines
  <1>2. \A t \in Tries : try'[t].gen <= waitGen'
    BY <1>1 DEF Waiting, WaitsOn, SetupTypeOK
  <1>3. \A t, u \in Tries : t # u /\ try'[t].gen # 0 => try'[t].gen # try'[u].gen
    BY DEF Waiting, WaitsOn
  <1>4. \A t \in Tries : try'[t].pc \in Waited => try'[t].gen # 0
    BY DEF Waiting, WaitsOn, Waited
  <1>5. \A t \in Tries : try'[t].pc \in Waited /\ try'[t].ctx = "live" /\ try'[t].gen = waitGen' => waitCancel' = t
    BY DEF Waiting, WaitsOn, Waited
  <1> QED BY <1>2, <1>3, <1>4, <1>5 DEF Waiting, Waited

LEMMA SameTry ==
    ASSUME SetupTypeOK, SetupInv, NEW t \in Tries, try'[t] = try[t]
    PROVE  (GoesOn(t) \/ Stays(t)) /\ WaitsOn(t)
  BY DEF SetupInv, Leaving, GoesOn, Stays, WaitsOn, Handed

\* Everything but the tries, the screen and the waiters is as it was.
Elsewhere == UNCHANGED <<managerVars, code, other, syncs, overlap>>

LEMMA QuietTyped ==
    ASSUME SetupTypeOK, UNCHANGED <<managerVars, other, syncs, overlap>>,
           code' \in {"none", "minted", "gone"}, addWaiters' \subseteq addWaiters, try' \in [Tries -> Goroutines],
           shown' \in BOOLEAN, mode' \in {"connect", "code", "manual"}, busy' \in BOOLEAN,
           waitCancel' \in Tries \cup {Nobody}, waitGen' \in Nat
    PROVE  SetupTypeOK'
  BY DEF SetupTypeOK, managerVars

\* A goroutine that ends.
LEMMA EndsQuiet ==
    ASSUME SetupTypeOK, SetupInv, NEW t \in Tries, NEW told \in Outcome, ends(t, told),
           try[t].pc # "ended", addWaiters' \subseteq addWaiters, t \notin addWaiters',
           \/ told \in {"failed", "unfinished"}
           \/ try[t].pc = "await" /\ try[t].done # "none" /\ told = try[t].done,
           UNCHANGED <<managerVars, other, syncs, overlap>>, code' \in {"none", "minted", "gone"}
    PROVE  SetupTypeOK' /\ Quiet
  <1>1. /\ try' \in [Tries -> Goroutines] /\ \A u \in Tries \ {t} : try'[u] = try[u]
        /\ try'[t].pc = "ended" /\ try'[t].left = try[t].left /\ try'[t].gen = 0
        /\ try'[t].done = "none" /\ try'[t].told = told
        /\ busy' \in BOOLEAN /\ waitCancel' \in {waitCancel, Nobody} /\ UNCHANGED <<shown, mode, waitGen>>
        /\ waitCancel' = IF try[t].gen = waitGen /\ try[t].gen > 0 THEN Nobody ELSE waitCancel
    BY EndsEffect
  <1>2. SetupTypeOK'
    BY <1>1, QuietTyped DEF SetupTypeOK
  <1>3. HasEnded(t)
    BY <1>1 DEF HasEnded
  <1>4. \A u \in Tries \ {t} : (GoesOn(u) \/ Stays(u)) /\ WaitsOn(u)
    BY <1>1, SameTry
  <1>5. WaitsOn(t)
    BY <1>1 DEF WaitsOn, Waited
  <1>6. CASE waitCancel' = waitCancel
    <2>1. Waiting'
      BY <1>1, <1>4, <1>5, <1>6, WaitingKept DEF SetupInv
    <2> QED BY <1>2, <1>3, <1>4, <2>1 DEF Quiet
  <1>7. CASE waitCancel' # waitCancel
    <2>0. try[t].gen = waitGen /\ try[t].gen # 0
      BY <1>1, <1>7 DEF SetupTypeOK, Goroutines
    <2>1. \A u \in Tries : try'[u].pc \in Waited /\ try'[u].ctx = "live" => try'[u].gen # waitGen
      BY <1>1, <2>0 DEF SetupInv, Waiting, Waited
    <2>2. Waiting'
      BY <1>1, <1>4, <1>5, <2>1, WaitingKept DEF SetupInv
    <2> QED BY <1>2, <1>3, <1>4, <2>2 DEF Quiet
  <1> QED BY <1>6, <1>7

\* A goroutine that goes on to its next request.
LEMMA StepQuiet ==
    ASSUME SetupTypeOK, SetupInv, NEW t \in Tries,
           NEW p \in {"register", "wait", "poll", "exchange", "add"}, Step(t, p),
           try[t].pc \in {"discover", "register", "wait", "poll", "verify", "exchange"},
           try[t].pc = "wait" => try[t].ctx = "live",
           p \in Waited => try[t].pc \in Waited, UNCHANGED <<screenVars, addWaiters>>,
           UNCHANGED <<managerVars, other, syncs, overlap>>, code' \in {"none", "minted", "gone"}
    PROVE  SetupTypeOK' /\ Quiet
  <1>1. /\ try' \in [Tries -> Goroutines] /\ \A u \in Tries \ {t} : try'[u] = try[u]
        /\ try'[t].pc = p /\ try'[t].ctx = try[t].ctx /\ try'[t].left = try[t].left
        /\ try'[t].gen = try[t].gen /\ try'[t].done = try[t].done /\ try'[t].told = try[t].told
    BY StepEffect
  <1>2. SetupTypeOK'
    BY <1>1, QuietTyped DEF SetupTypeOK, screenVars
  <1>3. \A u \in Tries \ {t} : (GoesOn(u) \/ Stays(u)) /\ WaitsOn(u)
    BY <1>1, SameTry
  <1>4. try[t].left # "yes"
    BY DEF SetupInv, Leaving
  <1>5. GoesOn(t) /\ WaitsOn(t)
    BY <1>1, <1>4 DEF GoesOn, WaitsOn, Handed, Waited
  <1>6. Waiting'
    BY <1>3, <1>5, WaitingKept DEF SetupInv, screenVars
  <1> QED BY <1>2, <1>3, <1>5, <1>6 DEF Quiet

\* A tap that cancels the newest wait, on tries f that a tap has left.
LEMMA CancelQuiet ==
    ASSUME SetupTypeOK, SetupInv, NEW f \in [Tries -> Goroutines], try' = CancelledTries(f), waitCancel' = Nobody,
           \A t \in Tries : \/ f[t] = try[t]
                            \/ /\ try[t].pc = "idle" /\ f[t].pc = "discover" /\ f[t].gen = 0
                               /\ f[t].left = "no" /\ f[t].done = "none" /\ f[t].told = "none",
           shown' \in BOOLEAN, mode' \in {"connect", "code", "manual"}, busy' \in BOOLEAN,
           UNCHANGED <<waitGen, addWaiters>>, Elsewhere
    PROVE  SetupTypeOK' /\ Quiet
  <1>1. waitCancel \in Tries \cup {Nobody}
    BY DEF SetupTypeOK
  <1>2. /\ try' \in [Tries -> Goroutines]
        /\ \A t \in Tries :
              /\ try'[t].pc = f[t].pc /\ try'[t].gen = f[t].gen /\ try'[t].done = f[t].done /\ try'[t].told = f[t].told
              /\ try'[t].ctx = IF t = waitCancel /\ f[t].pc \in {"wait", "poll"} /\ f[t].ctx = "live"
                               THEN "cancelled" ELSE f[t].ctx
              /\ try'[t].left = IF Waits(f[t]) THEN "yes" ELSE f[t].left
    BY <1>1, CancelEffect
  <1>3. SetupTypeOK'
    BY <1>2, QuietTyped DEF SetupTypeOK, Elsewhere
  <1>4. ASSUME NEW t \in Tries, f[t] = try[t]
        PROVE  /\ GoesOn(t) \/ Stays(t)
               /\ WaitsOn(t) /\ (try'[t].pc \in Waited /\ try'[t].ctx = "live" => try'[t].gen # waitGen)
    <2>1. Waits(f[t]) => waitCancel = t /\ try'[t].ctx = "cancelled" /\ try'[t].pc = "wait"
      BY <1>2, <1>4 DEF Waits, SetupInv, Waiting
    <2>2. try'[t].left = "yes" => \/ try'[t].pc = "wait" /\ try'[t].ctx # "live"
                                  \/ try'[t].pc = "ended"
      BY <1>2, <1>4, <2>1 DEF SetupInv, Leaving
    <2>3. try[t].pc \in Handed => try'[t].left = try[t].left
      BY <1>2, <1>4, <2>1 DEF Handed
    <2>4. GoesOn(t) \/ Stays(t)
      BY <1>2, <1>4, <2>2, <2>3 DEF GoesOn, Stays, Handed
    <2>5. WaitsOn(t) /\ (try'[t].pc \in Waited /\ try'[t].ctx = "live" => try'[t].gen # waitGen)
      BY <1>2, <1>4 DEF WaitsOn, Waited, SetupInv, Waiting
    <2> QED BY <2>4, <2>5
  <1>5. ASSUME NEW t \in Tries, f[t] # try[t]
        PROVE  /\ GoesOn(t) \/ Stays(t)
               /\ WaitsOn(t) /\ (try'[t].pc \in Waited /\ try'[t].ctx = "live" => try'[t].gen # waitGen)
    <2>1. ~Waits(f[t])
      BY <1>5 DEF Waits
    <2>2. try[t].done = "none" /\ try[t].told = "none"
      BY <1>5 DEF SetupInv, Untold
    <2> QED BY <1>2, <1>5, <2>1, <2>2 DEF GoesOn, WaitsOn, Handed, Waited
  <1>6. Waiting'
    BY <1>4, <1>5, WaitingKept DEF SetupInv
  <1> QED BY <1>3, <1>4, <1>5, <1>6 DEF Quiet, Elsewhere

\* One try alone is touched, and not by a wait that starts or ends.
LEMMA OneQuiet ==
    ASSUME SetupTypeOK, SetupInv, NEW t \in Tries, NEW r \in Goroutines, try' = [try EXCEPT ![t] = r],
           r.done = try[t].done, r.told = try[t].told,
           \/ /\ try[t].pc \notin Handed /\ r.pc \notin Handed
              /\ r.left = "yes" => r.pc = "wait" /\ r.ctx # "live"
           \/ r.pc = try[t].pc /\ r.left = try[t].left /\ try[t].pc \in Handed,
           r.gen = try[t].gen,
           r.pc \in Waited => try[t].pc \in Waited /\ (r.ctx = "live" => try[t].ctx = "live"),
           mode' \in {"connect", "code", "manual"}, UNCHANGED <<shown, busy, waitCancel, waitGen, addWaiters>>, Elsewhere
    PROVE  SetupTypeOK' /\ Quiet
  <1>1. try' \in [Tries -> Goroutines] /\ try'[t] = r /\ \A u \in Tries \ {t} : try'[u] = try[u]
    BY DEF SetupTypeOK
  <1>2. SetupTypeOK'
    BY <1>1, QuietTyped DEF SetupTypeOK, Elsewhere
  <1>3. \A u \in Tries \ {t} : (GoesOn(u) \/ Stays(u)) /\ WaitsOn(u)
    BY <1>1, SameTry
  <1>4. (GoesOn(t) \/ Stays(t)) /\ WaitsOn(t)
    BY <1>1 DEF GoesOn, Stays, WaitsOn
  <1>5. Waiting'
    BY <1>3, <1>4, WaitingKept DEF SetupInv
  <1> QED BY <1>2, <1>3, <1>4, <1>5 DEF Quiet, Elsewhere

LEMMA TapsQuiet ==
    ASSUME SetupTypeOK, SetupInv, Taps, ~SyncNow PROVE SetupTypeOK' /\ Quiet
  <1>t. /\ try \in [Tries -> Goroutines] /\ shown \in BOOLEAN
        /\ mode \in {"connect", "code", "manual"} /\ busy \in BOOLEAN
    BY DEF SetupTypeOK
  <1>1. ASSUME NEW t \in Tries, connect(t) PROVE SetupTypeOK' /\ Quiet
    <2> DEFINE r == Locals("connect", "discover", "no", "none")
               f == [try EXCEPT ![t] = r]
    <2>1. r \in Goroutines
      BY LocalsTyped DEF Outcome
    <2>2. r.pc = "discover" /\ r.gen = 0 /\ r.left = "no" /\ r.done = "none" /\ r.told = "none"
      BY DEF Locals
    <2>3. try' = CancelledTries(f) /\ try[t].pc = "idle"
      BY <1>1 DEF connect
    <2> HIDE DEF r
    <2>4. f \in [Tries -> Goroutines] /\ f[t] = r /\ \A u \in Tries \ {t} : f[u] = try[u]
      BY <1>t, <2>1
    <2> HIDE DEF f
    <2> QED BY <1>1, <1>t, <2>2, <2>3, <2>4, CancelQuiet DEF connect, Elsewhere
  <1>2. CASE leaveCard
    BY <1>2, <1>t, CancelQuiet DEF leaveCard, Elsewhere
  <1>3. CASE back
    BY <1>3, <1>t, CancelQuiet DEF back, Elsewhere
  <1>4. CASE backToConnect \/ handleBackKey \/ Push
    <2>0. /\ shown' \in BOOLEAN /\ mode' \in {"connect", "code", "manual"}
          /\ UNCHANGED <<busy, waitCancel, waitGen, try, addWaiters>> /\ Elsewhere
      BY <1>4, <1>t DEF backToConnect, handleBackKey, Push, Elsewhere
    <2>1. SetupTypeOK'
      BY <2>0, <1>t, QuietTyped DEF SetupTypeOK, Elsewhere
    <2>2. \A u \in Tries : (GoesOn(u) \/ Stays(u)) /\ WaitsOn(u)
      BY <2>0, SameTry
    <2>3. Waiting'
      BY <2>0, <2>2, WaitingKept DEF SetupInv
    <2> QED BY <2>0, <2>1, <2>2, <2>3 DEF Quiet, Elsewhere
  <1>5. ASSUME NEW t \in Tries, submitCode(t) \/ addManual(t) PROVE SetupTypeOK' /\ Quiet
    <2>0. PICK k \in {"code", "manual"}, p \in {"verify", "add"} : try' = [try EXCEPT ![t].kind = k, ![t].pc = p]
      BY <1>5 DEF submitCode, addManual
    <2> DEFINE r == [try[t] EXCEPT !.kind = k, !.pc = p]
    <2>g. try[t] \in Goroutines
      BY <1>t
    <2>m. r \in Goroutines
      BY <2>g DEF Goroutines
    <2>1. /\ r.pc = p /\ r.gen = try[t].gen /\ r.left = try[t].left
          /\ r.done = try[t].done /\ r.told = try[t].told
      BY <2>g DEF Goroutines
    <2>2. try' = [try EXCEPT ![t] = r]
      BY <1>t, <2>0
    <2>3. try[t].pc = "idle" /\ mode' \in {"connect", "code", "manual"} /\ Elsewhere
          /\ UNCHANGED <<shown, busy, waitCancel, waitGen, addWaiters>>
      BY <1>5, <1>t DEF submitCode, addManual, Elsewhere, screenVars
    <2>4. r.left # "yes"
      BY <2>1, <2>3 DEF SetupInv, Leaving
    <2> HIDE DEF r
    <2> QED BY <2>m, <2>1, <2>2, <2>3, <2>4, OneQuiet DEF Handed, Waited
  <1> QED BY <1>1, <1>2, <1>3, <1>4, <1>5 DEF Taps

\* The newest wait gets the next number, and the cancel.
LEMMA ParkQuiet ==
    ASSUME SetupTypeOK, SetupInv, NEW t \in Tries, try[t].pc = "register", park(t), UNCHANGED addWaiters, Elsewhere
    PROVE  SetupTypeOK' /\ Quiet
  <1>t. try \in [Tries -> Goroutines] /\ waitGen \in Nat /\ \A u \in Tries : try[u].gen \in Nat
    BY DEF SetupTypeOK, Goroutines
  <1> DEFINE r == [try[t] EXCEPT !.pc = "wait", !.gen = waitGen + 1, !.device = "pending"]
  <1>g. try[t] \in Goroutines /\ waitGen + 1 \in Nat
    BY <1>t
  <1>m. r \in Goroutines
    BY <1>g DEF Goroutines
  <1>1. /\ r.pc = "wait" /\ r.gen = waitGen + 1 /\ r.left = try[t].left
        /\ r.done = try[t].done /\ r.told = try[t].told
    BY <1>g DEF Goroutines
  <1>2. try' = [try EXCEPT ![t] = r]
    BY <1>t DEF park
  <1> HIDE DEF r
  <1>3. try' \in [Tries -> Goroutines] /\ try'[t] = r /\ \A u \in Tries \ {t} : try'[u] = try[u]
    BY <1>t, <1>m, <1>2
  <1>4. waitGen' = waitGen + 1 /\ waitCancel' = t /\ UNCHANGED <<shown, mode, busy>>
    BY DEF park
  <1>5. SetupTypeOK'
    BY <1>3, <1>4, <1>t, QuietTyped DEF SetupTypeOK, Elsewhere
  <1>6. \A u \in Tries \ {t} : GoesOn(u) \/ Stays(u)
    BY <1>3, SameTry
  <1>7. try[t].left # "yes"
    BY DEF SetupInv, Leaving
  <1>8. GoesOn(t)
    BY <1>1, <1>3, <1>7 DEF GoesOn, Handed
  <1>9. Waiting'
    <2>1. \A u \in Tries : try[u].gen <= waitGen /\ try[u].gen # waitGen + 1
      BY <1>t DEF SetupInv, Waiting
    <2>2. \A u \in Tries : try'[u].gen <= waitGen'
      BY <1>1, <1>3, <1>4, <1>t, <2>1
    <2>3. \A u, v \in Tries : u # v /\ try'[u].gen # 0 => try'[u].gen # try'[v].gen
      BY <1>1, <1>3, <2>1 DEF SetupInv, Waiting
    <2>4. \A u \in Tries : try'[u].pc \in {"wait", "poll"} => try'[u].gen # 0
      BY <1>1, <1>3, <1>t DEF SetupInv, Waiting
    <2>5. \A u \in Tries : try'[u].gen = waitGen' => u = t
      BY <1>3, <1>4, <2>1
    <2> QED BY <1>4, <2>2, <2>3, <2>4, <2>5 DEF Waiting
  <1> QED BY <1>5, <1>6, <1>8, <1>9 DEF Quiet, Elsewhere

LEMMA GoroutineQuiet ==
    ASSUME SetupTypeOK, SetupInv, NEW t \in Tries,
           \/ discover(t) \/ register(t) \/ poll(t) \/ polled(t) \/ ctxDone(t) \/ verify(t) \/ ExchangeToken(t)
           \/ awaited(t) \/ DeadlineExceeded(t) \/ awaitTimesOut(t)
    PROVE  SetupTypeOK' /\ Quiet
  <1>t. try \in [Tries -> Goroutines] /\ code \in {"none", "minted", "gone"}
    BY DEF SetupTypeOK
  <1>w. try[t].pc # "await" => t \notin addWaiters
    BY DEF SetupInv, Untold
  <1>e. ASSUME ends(t, "failed"), try[t].pc \notin Handed, UNCHANGED addWaiters, code' \in {"none", "minted", "gone"},
               UNCHANGED <<managerVars, other, syncs, overlap>>
        PROVE  SetupTypeOK' /\ Quiet
    BY <1>e, <1>w, EndsQuiet DEF Outcome, Handed
  <1>1. CASE discover(t)
    <2>0. try[t].pc = "discover" /\ UNCHANGED addWaiters /\ Elsewhere
      BY <1>1 DEF discover, Elsewhere
    <2>1. CASE Step(t, "register") /\ UNCHANGED screenVars
      BY <1>t, <2>0, <2>1, StepQuiet DEF Waited, Elsewhere
    <2>2. CASE ends(t, "failed")
      BY <1>t, <1>e, <2>0, <2>2 DEF Handed, Elsewhere
    <2> QED BY <1>1, <2>1, <2>2 DEF discover
  <1>2. CASE register(t)
    <2>0. try[t].pc = "register" /\ UNCHANGED addWaiters /\ Elsewhere
      BY <1>2 DEF register, Elsewhere
    <2>1. CASE Step(t, "add") /\ UNCHANGED screenVars
      BY <1>t, <2>0, <2>1, StepQuiet DEF Waited, Elsewhere
    <2>2. CASE ends(t, "failed")
      BY <1>t, <1>e, <2>0, <2>2 DEF Handed, Elsewhere
    <2>3. CASE park(t)
      BY <2>0, <2>3, ParkQuiet
    <2> QED BY <1>2, <2>1, <2>2, <2>3 DEF register
  <1>3. CASE poll(t)
    BY <1>3, <1>t, StepQuiet DEF poll, Waited
  <1>4. CASE polled(t)
    <2>0. try[t].pc = "poll" /\ UNCHANGED addWaiters /\ Elsewhere
      BY <1>4 DEF polled, Elsewhere
    <2>1. CASE Step(t, "wait") /\ UNCHANGED screenVars
      BY <1>t, <2>0, <2>1, StepQuiet DEF Waited, Elsewhere
    <2>2. CASE ends(t, "failed")
      BY <1>t, <1>e, <2>0, <2>2 DEF Handed, Elsewhere
    <2>3. CASE UNCHANGED screenVars /\ try' = [try EXCEPT ![t].pc = "add", ![t].device = "none", ![t].ctx = "live"]
      <3> DEFINE r == [try[t] EXCEPT !.pc = "add", !.device = "none", !.ctx = "live"]
      <3>g. try[t] \in Goroutines
        BY <1>t
      <3>m. r \in Goroutines
        <4> DEFINE q == [try[t] EXCEPT !.pc = "add"]
        <4>1. q \in Goroutines
          BY <3>g DEF Goroutines
        <4>2. r = [q EXCEPT !.device = "none", !.ctx = "live"]
          BY <3>g
        <4> HIDE DEF q, r
        <4>3. [q EXCEPT !.device = "none", !.ctx = "live"] \in Goroutines
          BY <4>1 DEF Goroutines
        <4> QED BY <4>2, <4>3
      <3>1. /\ r.pc = "add" /\ r.gen = try[t].gen /\ r.left = try[t].left
            /\ r.done = try[t].done /\ r.told = try[t].told
        <4>1. r.pc = "add" /\ r.gen = try[t].gen /\ r.left = try[t].left
          BY <3>g DEF Goroutines
        <4>2. r.done = try[t].done /\ r.told = try[t].told
          BY <3>g DEF Goroutines
        <4> QED BY <4>1, <4>2
      <3>2. try' = [try EXCEPT ![t] = r]
        BY <1>t, <2>3
      <3>3. r.left # "yes" /\ mode' \in {"connect", "code", "manual"}
        BY <2>0, <2>3, <3>1 DEF SetupInv, Leaving, SetupTypeOK, screenVars
      <3> HIDE DEF r
      <3> QED BY <2>0, <2>3, <3>m, <3>1, <3>2, <3>3, OneQuiet DEF Handed, Waited, screenVars
    <2> QED BY <1>4, <2>1, <2>2, <2>3 DEF polled
  <1>5. CASE ctxDone(t)
    BY <1>5, <1>e, <1>t DEF ctxDone, Handed
  <1>6. CASE verify(t)
    <2>0. try[t].pc = "verify" /\ UNCHANGED addWaiters /\ Elsewhere
      BY <1>6 DEF verify, Elsewhere
    <2>1. CASE Step(t, "exchange") /\ UNCHANGED screenVars
      BY <1>t, <2>0, <2>1, StepQuiet DEF Waited, Elsewhere
    <2>2. CASE ends(t, "failed")
      BY <1>t, <1>e, <2>0, <2>2 DEF Handed, Elsewhere
    <2> QED BY <1>6, <2>1, <2>2 DEF verify
  <1>7. CASE ExchangeToken(t)
    <2>0. /\ try[t].pc = "exchange" /\ UNCHANGED addWaiters
          /\ UNCHANGED <<managerVars, other, syncs, overlap>>
      BY <1>7 DEF ExchangeToken
    <2>1. code' \in {"none", "minted", "gone"}
      BY <1>7, <1>t DEF ExchangeToken, handleExchange
    <2>2. CASE Step(t, "add") /\ UNCHANGED screenVars
      BY <2>0, <2>1, <2>2, StepQuiet DEF Waited
    <2>3. CASE ends(t, "failed")
      BY <1>e, <2>0, <2>1, <2>3 DEF Handed
    <2> QED BY <1>7, <2>2, <2>3 DEF ExchangeToken
  <1>8. CASE awaited(t)
    <2>1. try[t].done \in Outcome /\ t \notin addWaiters
      BY <1>8, <1>t DEF Outcome, Goroutines, awaited, SetupInv, Untold
    <2> QED BY <1>8, <1>t, <2>1, EndsQuiet DEF awaited
  <1>9. CASE DeadlineExceeded(t)
    <2> DEFINE r == [try[t] EXCEPT !.ctx = "expired"]
    <2>1. /\ r \in Goroutines /\ r.pc = try[t].pc /\ r.gen = try[t].gen /\ r.left = try[t].left
          /\ r.done = try[t].done /\ r.told = try[t].told /\ r.ctx = "expired"
      BY <1>t DEF Goroutines
    <2>2. try' = [try EXCEPT ![t] = r] /\ try[t].pc \in Waited /\ try[t].ctx = "live"
      BY <1>t, <1>9 DEF DeadlineExceeded, Waited
    <2>3. r.left # "yes" /\ mode' \in {"connect", "code", "manual"}
      BY <1>9, <2>1, <2>2 DEF DeadlineExceeded, SetupInv, Leaving, SetupTypeOK, screenVars, Waited
    <2> HIDE DEF r
    <2> QED BY <1>9, <2>1, <2>2, <2>3, OneQuiet DEF DeadlineExceeded, Elsewhere, Handed, Waited, screenVars
  <1>10. CASE awaitTimesOut(t)
    BY <1>10, <1>t, EndsQuiet DEF awaitTimesOut, Outcome
  <1> QED BY <1>1, <1>2, <1>3, <1>4, <1>5, <1>6, <1>7, <1>8, <1>9, <1>10

LEMMA ServerQuiet ==
    ASSUME SetupTypeOK, SetupInv, handleSetupCode \/ Operator PROVE SetupTypeOK' /\ Quiet
  <1>t. try \in [Tries -> Goroutines] /\ code \in {"none", "minted", "gone"}
    BY DEF SetupTypeOK
  <1>1. ASSUME NEW t \in Tries, NEW d \in {"approved", "blocked"}, try' = [try EXCEPT ![t].device = d],
               UNCHANGED <<screenVars, addWaiters>>, Elsewhere
        PROVE  SetupTypeOK' /\ Quiet
    <2> DEFINE r == [try[t] EXCEPT !.device = d]
    <2>1. /\ r \in Goroutines /\ r.pc = try[t].pc /\ r.gen = try[t].gen /\ r.left = try[t].left
          /\ r.done = try[t].done /\ r.told = try[t].told /\ r.ctx = try[t].ctx
      BY <1>t DEF Goroutines
    <2>2. try' = [try EXCEPT ![t] = r]
      BY <1>t, <1>1
    <2>3. try[t].left = "yes" => \/ try[t].pc = "wait" /\ try[t].ctx # "live"
                                 \/ try[t].pc = "ended"
      BY DEF SetupInv, Leaving
    <2>4. mode' \in {"connect", "code", "manual"}
      BY <1>1 DEF SetupTypeOK, screenVars
    <2> HIDE DEF r
    <2>5. UNCHANGED <<shown, busy, waitCancel, waitGen, addWaiters>> /\ Elsewhere
      BY <1>1 DEF screenVars
    <2>6. CASE try[t].pc \in Handed
      BY <2>1, <2>2, <2>4, <2>5, <2>6, OneQuiet DEF Handed, Waited
    <2>7. CASE try[t].pc \notin Handed
      <3>1. r.left = "yes" => r.pc = "wait" /\ r.ctx # "live"
        BY <2>1, <2>3, <2>7 DEF Handed
      <3> QED BY <2>1, <2>2, <2>4, <2>5, <2>7, <3>1, OneQuiet
    <2> QED BY <2>6, <2>7
  <1>2. ASSUME try' = try, code' \in {"none", "minted", "gone"}, UNCHANGED <<screenVars, addWaiters>>,
               UNCHANGED <<managerVars, other, syncs, overlap>>
        PROVE  SetupTypeOK' /\ Quiet
    <2>1. SetupTypeOK'
      BY <1>2, QuietTyped DEF SetupTypeOK, screenVars
    <2>2. \A u \in Tries : (GoesOn(u) \/ Stays(u)) /\ WaitsOn(u)
      BY <1>2, SameTry
    <2>3. Waiting'
      BY <1>2, <2>2, WaitingKept DEF SetupInv, screenVars
    <2> QED BY <1>2, <2>1, <2>2, <2>3 DEF Quiet
  <1>3. CASE handleSetupCode
    BY <1>2, <1>3, <1>t DEF handleSetupCode
  <1>4. CASE Operator
    BY <1>1, <1>2, <1>4, <1>t DEF Operator, Elsewhere
  <1> QED BY <1>3, <1>4

-----------------------------------------------------------------------------
(* Steps of the manager and of the event pump.                             *)

LEMMA AppendFacts ==
    ASSUME NEW S, NEW s \in Seq(S), NEW e \in S
    PROVE  /\ Append(s, e) \in Seq(S) /\ Len(Append(s, e)) = Len(s) + 1
           /\ \A i \in DOMAIN s : i \in DOMAIN Append(s, e) /\ Append(s, e)[i] = s[i]
           /\ Len(s) + 1 \in DOMAIN Append(s, e) /\ Append(s, e)[Len(s) + 1] = e
           /\ \A i \in DOMAIN Append(s, e) : i \in DOMAIN s \/ i = Len(s) + 1
  OBVIOUS

LEMMA TailFacts ==
    ASSUME NEW S, NEW s \in Seq(S), s # <<>>
    PROVE  /\ Tail(s) \in Seq(S) /\ Len(Tail(s)) = Len(s) - 1
           /\ Head(s) = s[1] /\ Head(s) \in S /\ 1 \in DOMAIN s
           /\ \A i \in DOMAIN Tail(s) : i \in Nat /\ i + 1 \in DOMAIN s /\ i + 1 # 1 /\ Tail(s)[i] = s[i + 1]
           /\ \A i \in DOMAIN s : i # 1 => i - 1 \in DOMAIN Tail(s) /\ Tail(s)[i - 1] = s[i]
  OBVIOUS

LEMMA EventFacts ==
    ASSUME SetupTypeOK, NEW i \in DOMAIN eventCh
    PROVE  /\ eventCh[i] \in Events /\ eventCh[i].k \in {"added", "notAdded", "mail"}
           /\ eventCh[i].k \in {"added", "notAdded"} <=> eventCh[i].of \in Tries
  <1>1. eventCh[i] \in Events
    BY DEF SetupTypeOK
  <1> QED BY <1>1, SetupAssumption DEF Events

LEMMA CurFacts ==
    ASSUME SetupTypeOK, cur # Nobody
    PROVE  /\ cur.cmd \in Tries \/ cur.cmd = "sync"
           /\ cur = [cmd |-> cur.cmd, at |-> cur.at]
  BY DEF SetupTypeOK, Command

LEMMA CommandFacts ==
    ASSUME NEW c \in Tries \cup {"sync"}, NEW a \in {"begin", "insert", "sync"}
    PROVE  LET r == [cmd |-> c, at |-> a] IN r \in Command /\ r # Nobody /\ r.cmd = c
  BY SetupAssumption DEF Command

\* Steps that leave the goroutines and the screen alone.
Manages == UNCHANGED <<screenVars, try, addWaiters, code, other, overlap>>

LEMMA ManagesInv ==
    ASSUME SetupTypeOK, SetupInv, Manages,
           \A t \in Tries : (Queued(t) \/ Working(t) \/ t \in account)' => Queued(t) \/ Working(t) \/ t \in account
    PROVE  SetupInv'
  <1>1. UNCHANGED <<try, addWaiters, waitCancel, waitGen>>
    BY DEF Manages, screenVars
  <1>2. Untold' /\ Waiting'
    BY <1>1 DEF SetupInv, Untold, Waiting
  <1>3. Leaving'
    BY <1>1 DEF SetupInv, Leaving
  <1> QED BY <1>2, <1>3 DEF SetupInv

LEMMA SyncNowInv ==
    ASSUME SetupTypeOK, SetupInv, HonestInv, SyncNow PROVE SetupTypeOK' /\ SetupInv' /\ HonestInv'
  <1>1. /\ Manages /\ UNCHANGED <<cur, eventCh, account>> /\ syncs' \in Nat
        /\ UNCHANGED <<screenVars, try, addWaiters, code, other, overlap>>
    BY DEF SyncNow, Manages, SetupTypeOK
  <1>2. queue \in Seq(Tries \cup {"sync"}) /\ Len(queue) <= QCap /\ Len(queue) \in Nat /\ QCap \in Nat
    BY SetupAssumption DEF SetupTypeOK
  <1>3. /\ queue' \in Seq(Tries \cup {"sync"}) /\ Len(queue') <= QCap
        /\ \A i \in DOMAIN queue : i \in DOMAIN queue' /\ queue'[i] = queue[i]
        /\ \A i \in DOMAIN queue' : i \in DOMAIN queue \/ queue'[i] = "sync"
    <2>1. CASE Len(queue) < QCap
      <3>1. queue' = Append(queue, "sync")
        BY <2>1 DEF SyncNow
      <3>2. Len(queue) + 1 <= QCap /\ "sync" \in Tries \cup {"sync"}
        BY <1>2, <2>1
      <3> QED BY <1>2, <3>1, <3>2, AppendFacts
    <2>2. CASE ~(Len(queue) < QCap)
      <3>1. queue' = queue
        BY <2>2 DEF SyncNow
      <3> QED BY <1>2, <3>1
    <2> QED BY <2>1, <2>2
  <1>4. SetupTypeOK'
    BY <1>1, <1>3 DEF SetupTypeOK, screenVars
  <1>5. \A t \in Tries : Queued(t)' <=> Queued(t)
    BY <1>3, SetupAssumption DEF Queued
  <1>7. SetupInv'
    BY <1>1, <1>5, ManagesInv DEF Working
  <1>8. ASSUME Honest PROVE Honest'
    <2>1. OneAdd'
      BY <1>1, <1>3, <1>8, SetupAssumption DEF Honest, OneAdd, NoneWorking, NoneAnnounced
    <2>2. Announcements' /\ Sole'
      BY <1>1, <1>5, <1>8 DEF Honest, Announcements, Sole, Outstanding, Working, Announced
    <2>3. Outcomes'
      BY <1>1, <1>5, <1>8 DEF Honest, Outcomes, Working
    <2> QED BY <2>1, <2>2, <2>3 DEF Honest
  <1> QED BY <1>1, <1>4, <1>7, <1>8 DEF HonestInv

LEMMA CommandLoopInv ==
    ASSUME SetupTypeOK, SetupInv, HonestInv, commandLoop PROVE SetupTypeOK' /\ SetupInv' /\ HonestInv'
  <1>1. /\ Manages /\ UNCHANGED <<eventCh, account, syncs>> /\ cur = Nobody
        /\ UNCHANGED <<screenVars, try, addWaiters, code, other, overlap>>
    BY DEF commandLoop, Manages
  <1>2. queue \in Seq(Tries \cup {"sync"}) /\ queue # <<>> /\ queue' = Tail(queue) /\ Len(queue) <= QCap
    BY DEF commandLoop, SetupTypeOK
  <1>3. /\ queue' \in Seq(Tries \cup {"sync"}) /\ Len(queue') <= QCap
        /\ Head(queue) = queue[1] /\ Head(queue) \in Tries \cup {"sync"} /\ 1 \in DOMAIN queue
        /\ \A i \in DOMAIN queue' : i \in Nat /\ i + 1 \in DOMAIN queue /\ i + 1 # 1 /\ queue'[i] = queue[i + 1]
        /\ \A i \in DOMAIN queue : i # 1 => i - 1 \in DOMAIN queue' /\ queue'[i - 1] = queue[i]
    BY <1>2, TailFacts, SetupAssumption
  <1>4. cur' \in Command /\ cur' # Nobody /\ cur'.cmd = queue[1]
    BY <1>3, CommandFacts DEF commandLoop
  <1>5. SetupTypeOK'
    BY <1>1, <1>3, <1>4 DEF SetupTypeOK, screenVars
  <1>6. \A t \in Tries : (Queued(t) \/ Working(t))' <=> Queued(t) \/ Working(t)
    BY <1>1, <1>3, <1>4 DEF Queued, Working
  <1>8. SetupInv'
    BY <1>1, <1>6, ManagesInv
  <1>9. ASSUME Honest PROVE Honest'
    <2>1. \A i, j \in DOMAIN queue' : queue'[i] \in Tries /\ queue'[j] \in Tries => i = j
      BY <1>3, <1>9 DEF Honest, OneAdd
    <2>2. \A i \in DOMAIN queue' : queue'[i] \in Tries => NoneWorking' /\ NoneAnnounced'
      BY <1>1, <1>3, <1>4, <1>9 DEF Honest, OneAdd, NoneWorking, NoneAnnounced
    <2>3. NoneWorking' \/ NoneAnnounced'
      BY <1>1, <1>3, <1>4, <1>9 DEF Honest, OneAdd, NoneWorking, NoneAnnounced
    <2>4. OneAdd'
      BY <1>1, <1>9, <2>1, <2>2, <2>3 DEF Honest, OneAdd
    <2>5. Announcements'
      BY <1>1, <1>9 DEF Honest, Announcements
    <2>6. Sole'
      BY <1>1, <1>6, <1>9 DEF Honest, Sole, Outstanding, Announced
    <2>7. Outcomes'
      BY <1>1, <1>6, <1>9 DEF Honest, Outcomes
    <2> QED BY <2>4, <2>5, <2>6, <2>7 DEF Honest
  <1> QED BY <1>1, <1>5, <1>8, <1>9 DEF HonestInv

\* What an event that may be dropped makes of the channel.
Emits(e) ==
    /\ eventCh' \in Seq(Events) /\ Len(eventCh') <= ECap
    /\ \A i \in DOMAIN eventCh : i \in DOMAIN eventCh' /\ eventCh'[i] = eventCh[i]
    /\ \A i \in DOMAIN eventCh' : i \in DOMAIN eventCh \/ (i = Len(eventCh) + 1 /\ eventCh'[i] = e)
    /\ Len(eventCh) < ECap => \E i \in DOMAIN eventCh' : eventCh'[i] = e

LEMMA EmitFacts ==
    ASSUME SetupTypeOK, NEW e \in Events, emit(e) PROVE Emits(e)
  <1>1. eventCh \in Seq(Events) /\ Len(eventCh) <= ECap /\ ECap \in Nat /\ Len(eventCh) \in Nat
    BY SetupAssumption DEF SetupTypeOK
  <1> HIDE DEF Events
  <1>2. CASE Len(eventCh) < ECap
    <2>1. eventCh' = Append(eventCh, e)
      BY <1>2 DEF emit
    <2>2. /\ Append(eventCh, e) \in Seq(Events) /\ Len(Append(eventCh, e)) = Len(eventCh) + 1
          /\ \A i \in DOMAIN eventCh : i \in DOMAIN Append(eventCh, e) /\ Append(eventCh, e)[i] = eventCh[i]
          /\ Len(eventCh) + 1 \in DOMAIN Append(eventCh, e) /\ Append(eventCh, e)[Len(eventCh) + 1] = e
          /\ \A i \in DOMAIN Append(eventCh, e) : i \in DOMAIN eventCh \/ i = Len(eventCh) + 1
      BY <1>1, AppendFacts
    <2>3. Len(eventCh) + 1 <= ECap
      BY <1>1, <1>2
    <2>4. \E i \in DOMAIN eventCh' : eventCh'[i] = e
      BY <2>1, <2>2
    <2>5. \A i \in DOMAIN eventCh' : i \in DOMAIN eventCh \/ (i = Len(eventCh) + 1 /\ eventCh'[i] = e)
      <3> DEFINE s == Append(eventCh, e)
      <3>1. \A i \in DOMAIN s : i \in DOMAIN eventCh \/ (i = Len(eventCh) + 1 /\ s[i] = e)
        BY <2>2
      <3> QED BY <2>1, <3>1
    <2>6. /\ eventCh' \in Seq(Events) /\ Len(eventCh') <= ECap
          /\ \A i \in DOMAIN eventCh : i \in DOMAIN eventCh' /\ eventCh'[i] = eventCh[i]
      BY <2>1, <2>2, <2>3
    <2> QED BY <2>4, <2>5, <2>6 DEF Emits
  <1>3. CASE ~(Len(eventCh) < ECap)
    <2>1. eventCh' = eventCh
      BY <1>3 DEF emit
    <2>2. \A i \in DOMAIN eventCh' : i \in DOMAIN eventCh
      BY <2>1
    <2>3. /\ eventCh' \in Seq(Events) /\ Len(eventCh') <= ECap
          /\ \A i \in DOMAIN eventCh : i \in DOMAIN eventCh' /\ eventCh'[i] = eventCh[i]
      BY <1>1, <2>1
    <2> QED BY <1>3, <2>2, <2>3 DEF Emits
  <1> QED BY <1>2, <1>3

\* An event about mail or a sync, whoever emits it.
LEMMA MailInv ==
    ASSUME SetupTypeOK, SetupInv, HonestInv, emit(Event("mail", Nobody)), Manages, UNCHANGED <<queue, account>>,
           cur' \in Command \cup {Nobody}, \A t \in Tries : Working(t)' <=> Working(t),
           NoneWorking => NoneWorking', syncs' \in Nat
    PROVE  SetupTypeOK' /\ SetupInv' /\ HonestInv'
  <1> DEFINE e == Event("mail", Nobody)
  <1>2. e \in Events /\ e.of = Nobody /\ e.k = "mail" /\ e.of \notin Tries
    BY SetupAssumption DEF Events, Event
  <1>3. Emits(e)
    BY <1>2, EmitFacts
  <1> HIDE DEF e
  <1>6. SetupTypeOK'
    BY <1>3 DEF SetupTypeOK, Manages, Emits, screenVars
  <1>7. \A t \in Tries : Queued(t)' <=> Queued(t)
    BY DEF Queued
  <1>9. SetupInv'
    BY <1>7, ManagesInv
  <1>10. ASSUME Honest PROVE Honest'
    <2>1. UNCHANGED <<try, addWaiters, queue, account>>
      BY DEF Manages
    <2>2. (NoneAnnounced => NoneAnnounced') /\ \A t \in Tries : Announced(t)' => Announced(t)
      BY <1>2, <1>3 DEF NoneAnnounced, Announced, Emits
    <2>3. \A i, j \in DOMAIN eventCh' : eventCh'[i].of \in Tries /\ eventCh'[j].of \in Tries => i = j
      BY <1>2, <1>3, <1>10 DEF Honest, OneAdd, Emits
    <2>4. OneAdd'
      BY <1>10, <2>1, <2>2, <2>3 DEF Honest, OneAdd
    <2>5. Announcements'
      BY <1>2, <1>3, <1>10, <2>1 DEF Honest, Announcements, Emits
    <2>6. Sole'
      BY <1>7, <1>10, <2>1, <2>2 DEF Honest, Sole, Outstanding
    <2>7. Outcomes'
      BY <1>7, <1>10, <2>1 DEF Honest, Outcomes
    <2> QED BY <2>4, <2>5, <2>6, <2>7 DEF Honest
  <1> QED BY <1>6, <1>9, <1>10 DEF HonestInv, Manages

LEMMA OtherSyncsInv ==
    ASSUME SetupTypeOK, SetupInv, HonestInv, OtherSyncs PROVE SetupTypeOK' /\ SetupInv' /\ HonestInv'
  <1>1. /\ Manages /\ UNCHANGED <<queue, account, cur>> /\ emit(Event("mail", Nobody)) /\ syncs' \in Nat
        /\ cur' \in Command \cup {Nobody}
    BY DEF OtherSyncs, Manages, SetupTypeOK
  <1> QED BY <1>1, MailInv DEF Working, NoneWorking

LEMMA ExecSyncInv ==
    ASSUME SetupTypeOK, SetupInv, HonestInv, cur # Nobody, cur.cmd = "sync", execSyncNow,
           Manages, UNCHANGED <<queue, syncs>>
    PROVE  SetupTypeOK' /\ SetupInv' /\ HonestInv'
  <1>1. emit(Event("mail", Nobody)) /\ account' = account /\ syncs' \in Nat
    BY DEF execSyncNow, SetupTypeOK
  <1>2. cur' \in Command \cup {Nobody} /\ (cur' # Nobody => cur'.cmd = "sync")
    <2>1. CASE cur' = [cur EXCEPT !.at = "sync"]
      <3>1. cur' = [cmd |-> "sync", at |-> "sync"]
        BY <2>1, CurFacts
      <3> QED BY <3>1, CommandFacts DEF execSyncNow
    <2> QED BY <2>1 DEF execSyncNow
  <1>3. NoneWorking' /\ \A t \in Tries : Working(t)' <=> Working(t)
    BY <1>2, SetupAssumption DEF NoneWorking, Working
  <1> QED BY <1>1, <1>2, <1>3, MailInv

\* execAddAccount gives up: the outcome is announced unless the channel is
\* full.
LEMMA NotAddedInv ==
    ASSUME SetupTypeOK, SetupInv, HonestInv, cur # Nobody, cur.cmd \in Tries, cur' = Nobody,
           emit(Event("notAdded", cur.cmd)), UNCHANGED account, Manages, UNCHANGED <<queue, syncs>>
    PROVE  SetupTypeOK' /\ SetupInv' /\ HonestInv'
  <1> DEFINE x == cur.cmd
             e == Event("notAdded", x)
  <1>1. e \in Events /\ e.k = "notAdded" /\ e.of = x /\ x \in Tries
    BY DEF Events, Event
  <1>2. Emits(e)
    BY <1>1, EmitFacts
  <1> HIDE DEF e
  <1>3. SetupTypeOK'
    BY <1>2 DEF SetupTypeOK, Manages, Emits, screenVars
  <1>4. \A t \in Tries : ~Working(t)' /\ (Queued(t)' <=> Queued(t)) /\ (Working(t) <=> t = x)
    BY DEF Working, Queued
  <1>6. SetupInv'
    BY <1>4, ManagesInv
  <1>7. ASSUME Honest PROVE Honest'
    <2>1. UNCHANGED <<try, addWaiters, queue, account>>
      BY DEF Manages
    <2>2. NoneAnnounced /\ \A i \in DOMAIN queue : queue[i] \notin Tries
      BY <1>1, <1>7 DEF Honest, OneAdd, NoneWorking
    <2>3. NoneWorking'
      BY DEF NoneWorking
    <2>4. \A i, j \in DOMAIN eventCh' : eventCh'[i].of \in Tries /\ eventCh'[j].of \in Tries => i = j
      BY <1>2, <2>2 DEF NoneAnnounced, Emits
    <2>5. OneAdd'
      BY <2>1, <2>2, <2>3, <2>4 DEF OneAdd
    <2>6. x \notin account
      BY <1>1, <1>4, <1>7 DEF Honest, Outcomes
    <2>7. Announcements'
      BY <1>1, <1>2, <1>7, <2>1, <2>6 DEF Honest, Announcements, Emits
    <2>10. \A t \in Tries : Announced(t)' => Working(t)
      BY <1>1, <1>2, <1>4, <2>2 DEF Announced, NoneAnnounced, Emits
    <2>8. Sole'
      BY <1>1, <1>4, <1>7, <2>1, <2>10 DEF Honest, Sole, Outstanding
    <2>9. Outcomes'
      BY <1>4, <1>7, <2>1 DEF Honest, Outcomes
    <2> QED BY <2>5, <2>7, <2>8, <2>9 DEF Honest
  <1> QED BY <1>3, <1>6, <1>7 DEF HonestInv, Manages

LEMMA AddedInv ==
    ASSUME SetupTypeOK, SetupInv, HonestInv, cur # Nobody, cur.cmd \in Tries, cur' = Nobody,
           account = {}, account' = {cur.cmd}, emit(Event("added", cur.cmd)),
           Manages, UNCHANGED <<queue, syncs>>
    PROVE  SetupTypeOK' /\ SetupInv' /\ HonestInv'
  <1> DEFINE x == cur.cmd
             e == Event("added", x)
  <1>1. e \in Events /\ e.k = "added" /\ e.of = x /\ x \in Tries
    BY DEF Events, Event
  <1>2. Emits(e)
    BY <1>1, EmitFacts
  <1> HIDE DEF e
  <1>3. SetupTypeOK'
    BY <1>1, <1>2 DEF SetupTypeOK, Manages, Emits, screenVars
  <1>4. \A t \in Tries : ~Working(t)' /\ (Queued(t)' <=> Queued(t)) /\ (Working(t) <=> t = x)
    BY DEF Working, Queued
  <1>6. SetupInv'
    BY <1>1, <1>4, ManagesInv
  <1>7. ASSUME Honest PROVE Honest'
    <2>1. UNCHANGED <<try, addWaiters, queue>>
      BY DEF Manages
    <2>2. NoneAnnounced /\ \A i \in DOMAIN queue : queue[i] \notin Tries
      BY <1>1, <1>7 DEF Honest, OneAdd, NoneWorking
    <2>3. NoneWorking'
      BY DEF NoneWorking
    <2>4. \A i \in DOMAIN eventCh : eventCh[i].of \notin Tries /\ eventCh[i].k \notin {"added", "notAdded"}
      BY <2>2, EventFacts DEF NoneAnnounced
    <2>5. \A i, j \in DOMAIN eventCh' : eventCh'[i].of \in Tries /\ eventCh'[j].of \in Tries => i = j
      BY <1>2, <2>4 DEF Emits
    <2>6. OneAdd'
      BY <2>1, <2>2, <2>3, <2>5 DEF OneAdd
    <2>7. \A t \in Tries : Announced(t)' => Working(t)
      BY <1>1, <1>2, <1>4, <2>4 DEF Announced, Emits
    <2>9. Announcements'
      BY <1>1, <1>2, <2>4 DEF Announcements, Emits
    <2>10. Sole'
      BY <1>1, <1>4, <1>7, <2>1, <2>7 DEF Honest, Sole, Outstanding
    <2>11. Outcomes'
      <3>1. \A t \in Tries : ~Queued(t)
        BY <2>2 DEF Queued
      <3>2. \A t \in Tries : "connected" \notin {try[t].done, try[t].told}
        BY <1>7 DEF Honest, Outcomes
      <3>3. try[x].done = "none" /\ try[x].told \notin {"connected", "refused"}
        BY <1>1, <1>4, <1>7 DEF Honest, Outcomes
      <3> QED BY <1>1, <1>4, <2>1, <3>1, <3>2, <3>3 DEF Outcomes
    <2> QED BY <2>6, <2>9, <2>10, <2>11 DEF Honest
  <1> QED BY <1>3, <1>6, <1>7 DEF HonestInv, Manages

LEMMA ExecuteInv ==
    ASSUME SetupTypeOK, SetupInv, HonestInv, execute PROVE SetupTypeOK' /\ SetupInv' /\ HonestInv'
  <1>1. cur # Nobody /\ Manages /\ UNCHANGED <<queue, syncs>>
    BY DEF execute, Manages
  <1>2. CASE cur.cmd = "sync"
    BY <1>1, <1>2, ExecSyncInv DEF execute
  <1>3. CASE cur.cmd # "sync"
    <2>1. cur.cmd \in Tries /\ execAddAccount
      BY <1>1, <1>3, CurFacts DEF execute
    <2>2. CASE cur' = [cur EXCEPT !.at = "insert"] /\ UNCHANGED <<eventCh, account>>
      <3>1. cur' = [cmd |-> cur.cmd, at |-> "insert"]
        BY <1>1, <2>2, CurFacts
      <3>2. cur' \in Command /\ cur' # Nobody /\ cur'.cmd = cur.cmd
        BY <2>1, <3>1, CommandFacts
      <3>3. SetupTypeOK'
        BY <1>1, <2>2, <3>2 DEF SetupTypeOK, Manages, screenVars
      <3>4. \A t \in Tries : (Working(t)' <=> Working(t)) /\ (Queued(t)' <=> Queued(t))
        BY <1>1, <3>2 DEF Working, Queued
      <3>6. SetupInv'
        BY <1>1, <2>2, <3>4, ManagesInv
      <3>7. ASSUME Honest PROVE Honest'
        <4>1. UNCHANGED <<try, addWaiters, queue, eventCh, account>>
          BY <1>1, <2>2 DEF Manages
        <4>2. OneAdd'
          BY <1>1, <3>2, <3>7, <4>1 DEF Honest, OneAdd, NoneWorking, NoneAnnounced
        <4>3. Announcements'
          BY <3>7, <4>1 DEF Honest, Announcements
        <4>4. Sole'
          BY <3>4, <3>7, <4>1 DEF Honest, Sole, Outstanding, Announced
        <4>5. Outcomes'
          BY <3>4, <3>7, <4>1 DEF Honest, Outcomes
        <4> QED BY <4>2, <4>3, <4>4, <4>5 DEF Honest
      <3> QED BY <1>1, <3>3, <3>6, <3>7 DEF HonestInv, Manages
    <2>3. CASE cur' = Nobody /\ emit(Event("notAdded", cur.cmd)) /\ UNCHANGED account
      BY <1>1, <2>1, <2>3, NotAddedInv
    <2>4. CASE cur' = Nobody /\ account = {} /\ account' = {cur.cmd} /\ emit(Event("added", cur.cmd))
      BY <1>1, <2>1, <2>4, AddedInv
    <2> QED BY <2>1, <2>2, <2>3, <2>4 DEF execAddAccount
  <1> QED BY <1>2, <1>3

\* The event at the head leaves the channel.
LEMMA AppliedTail ==
    ASSUME SetupTypeOK, eventCh # <<>>, eventCh' = Tail(eventCh)
    PROVE  /\ eventCh' \in Seq(Events) /\ Len(eventCh') <= ECap /\ ECap > 0
           /\ Head(eventCh) = eventCh[1] /\ 1 \in DOMAIN eventCh
           /\ \A i \in DOMAIN eventCh' : i \in Nat /\ i + 1 \in DOMAIN eventCh /\ i + 1 # 1 /\ eventCh'[i] = eventCh[i + 1]
           /\ \A i \in DOMAIN eventCh : i # 1 => i - 1 \in DOMAIN eventCh' /\ eventCh'[i - 1] = eventCh[i]
  <1>1. eventCh \in Seq(Events) /\ Len(eventCh) <= ECap /\ ECap \in Nat
    BY SetupAssumption DEF SetupTypeOK
  <1> HIDE DEF Events
  <1>2. Len(eventCh) > 0
    BY <1>1
  <1> QED BY <1>1, <1>2, TailFacts

LEMMA AppliedOne ==
    ASSUME SetupTypeOK, OneAdd, eventCh # <<>>, eventCh' = Tail(eventCh), UNCHANGED <<queue, cur>>
    PROVE  OneAdd' /\ (eventCh[1].of \in Tries => NoneAnnounced')
  <1>1. /\ 1 \in DOMAIN eventCh
        /\ \A i \in DOMAIN eventCh' : i \in Nat /\ i + 1 \in DOMAIN eventCh /\ i + 1 # 1 /\ eventCh'[i] = eventCh[i + 1]
    BY AppliedTail
  <1>2. \A i, j \in DOMAIN eventCh' : eventCh'[i].of \in Tries /\ eventCh'[j].of \in Tries => i = j
    BY <1>1 DEF OneAdd
  <1>3. NoneAnnounced => NoneAnnounced'
    BY <1>1 DEF NoneAnnounced
  <1>4. eventCh[1].of \in Tries => NoneAnnounced'
    BY <1>1 DEF OneAdd, NoneAnnounced
  <1>5. OneAdd'
    BY <1>2, <1>3 DEF OneAdd, NoneWorking
  <1> QED BY <1>4, <1>5

\* resolveAddWaiters: whoever waits is told, nobody waits any more.
LEMMA ResolveEffect ==
    ASSUME SetupTypeOK, SetupInv, NEW told \in {"connected", "refused"}, resolveAddWaiters(told)
    PROVE  /\ addWaiters' = {} /\ try' \in [Tries -> Goroutines]
           /\ \A t \in Tries : /\ try'[t].pc = try[t].pc /\ try'[t].left = try[t].left /\ try'[t].ctx = try[t].ctx
                               /\ try'[t].gen = try[t].gen /\ try'[t].told = try[t].told
                               /\ try'[t].done = IF t \in addWaiters THEN told ELSE try[t].done
  <1> DEFINE r(t) == [try[t] EXCEPT !.done = told]
  <1>1. try \in [Tries -> Goroutines] /\ \A t \in addWaiters : try[t].done = "none"
    BY DEF SetupTypeOK, SetupInv, Untold
  <1>2. ASSUME NEW t \in Tries
        PROVE  /\ r(t) \in Goroutines /\ r(t).pc = try[t].pc /\ r(t).left = try[t].left /\ r(t).ctx = try[t].ctx
               /\ r(t).gen = try[t].gen /\ r(t).told = try[t].told /\ r(t).done = told
    <2>1. try[t] \in Goroutines
      BY <1>1
    <2> QED BY <2>1 DEF Goroutines
  <1>3. try' = [t \in Tries |-> IF t \in addWaiters /\ try[t].done = "none" THEN r(t) ELSE try[t]] /\ addWaiters' = {}
    BY DEF resolveAddWaiters
  <1> HIDE DEF r
  <1> QED BY <1>1, <1>2, <1>3

LEMMA ResolveInv ==
    ASSUME SetupTypeOK, SetupInv, HonestInv, NEW told \in {"connected", "refused"}, resolveAddWaiters(told),
           eventCh # <<>>, eventCh' = Tail(eventCh), eventCh[1].of \in Tries,
           eventCh[1].k = IF told = "connected" THEN "added" ELSE "notAdded",
           UNCHANGED <<screenVars, queue, cur, account, code, other, syncs, overlap>>
    PROVE  SetupTypeOK' /\ SetupInv' /\ HonestInv'
  <1>1. /\ addWaiters' = {} /\ try' \in [Tries -> Goroutines]
        /\ \A t \in Tries : /\ try'[t].pc = try[t].pc /\ try'[t].left = try[t].left /\ try'[t].ctx = try[t].ctx
                            /\ try'[t].gen = try[t].gen /\ try'[t].told = try[t].told
                            /\ try'[t].done = IF t \in addWaiters THEN told ELSE try[t].done
    BY ResolveEffect
  <1>2. /\ eventCh' \in Seq(Events) /\ Len(eventCh') <= ECap /\ ECap > 0 /\ 1 \in DOMAIN eventCh
        /\ \A i \in DOMAIN eventCh' : i + 1 \in DOMAIN eventCh /\ eventCh'[i] = eventCh[i + 1]
    BY AppliedTail
  <1>3. SetupTypeOK'
    BY <1>1, <1>2 DEF SetupTypeOK, screenVars
  <1>4. Untold'
    BY <1>1 DEF SetupInv, Untold
  <1>5. Waiting'
    <2>1. \A t \in Tries : WaitsOn(t)
      BY <1>1 DEF WaitsOn
    <2> QED BY <2>1, WaitingKept DEF SetupInv, screenVars
  <1>6. Leaving'
    BY <1>1 DEF SetupInv, Leaving, Queued, Working
  <1>8. ASSUME Honest PROVE Honest'
    <2>1. OneAdd'
      BY <1>8, AppliedOne DEF Honest
    <2>2. Announcements'
      BY <1>1, <1>2, <1>8 DEF Honest, Announcements
    <2>0. NoneAnnounced'
      BY <1>8, AppliedOne DEF Honest
    <2>4. \A t \in Tries : ~Queued(t) /\ ~Working(t)
      BY <1>2, <1>8 DEF Honest, OneAdd, Queued, Working, NoneWorking, NoneAnnounced
    <2>3. Sole'
      BY <1>1, <2>0, <2>4 DEF Sole, Outstanding, Queued, Working, Announced, NoneAnnounced
    <2>5. \A t \in addWaiters : IF told = "connected" THEN t \in account ELSE t \notin account
      <3>1. eventCh[1].of \in Outstanding
        BY <1>2 DEF Outstanding, Announced
      <3>2. \A t \in addWaiters : t = eventCh[1].of
        BY <1>8, <3>1 DEF Honest, Sole
      <3> QED BY <1>2, <1>8, <3>2 DEF Honest, Announcements
    <2>6. Outcomes'
      <3>1. \A t \in Tries : ~Queued(t)' /\ ~Working(t)'
        BY <2>4 DEF Queued, Working
      <3>2. ASSUME NEW t \in Tries
            PROVE  /\ "connected" \in {try'[t].done, try'[t].told} => t \in account
                   /\ "refused" \in {try'[t].done, try'[t].told} => t \notin account
        <4>1. CASE t \in addWaiters
          BY <1>1, <1>8, <2>5, <4>1 DEF Honest, Outcomes
        <4>2. CASE t \notin addWaiters
          BY <1>1, <1>8, <4>2 DEF Honest, Outcomes
        <4> QED BY <4>1, <4>2
      <3> QED BY <3>1, <3>2 DEF Outcomes
    <2> QED BY <2>1, <2>2, <2>3, <2>6 DEF Honest
  <1> QED BY <1>3, <1>4, <1>5, <1>6, <1>8 DEF SetupInv, HonestInv

LEMMA SyncEventInv ==
    ASSUME SetupTypeOK, SetupInv, HonestInv, eventCh # <<>>, eventCh' = Tail(eventCh), eventCh[1].of \notin Tries,
           UNCHANGED <<addWaiters, try>>,
           UNCHANGED <<screenVars, queue, cur, account, code, other, syncs, overlap>>
    PROVE  SetupTypeOK' /\ SetupInv' /\ HonestInv'
  <1>2. /\ eventCh' \in Seq(Events) /\ Len(eventCh') <= ECap /\ 1 \in DOMAIN eventCh
        /\ \A i \in DOMAIN eventCh' : i + 1 \in DOMAIN eventCh /\ eventCh'[i] = eventCh[i + 1]
        /\ \A i \in DOMAIN eventCh : i # 1 => i - 1 \in DOMAIN eventCh' /\ eventCh'[i - 1] = eventCh[i]
    BY AppliedTail
  <1>3. SetupTypeOK'
    BY <1>2 DEF SetupTypeOK, screenVars
  <1>5. SetupInv'
    <2>1. Manages
      BY DEF Manages
    <2> QED BY <2>1, ManagesInv DEF Queued, Working
  <1>6. ASSUME Honest PROVE Honest'
    <2>1. OneAdd'
      BY <1>6, AppliedOne DEF Honest
    <2>2. Announcements'
      BY <1>2, <1>6 DEF Honest, Announcements
    <2>3. Sole'
      BY <1>2, <1>6 DEF Honest, Sole, Outstanding, Queued, Working, Announced
    <2>4. Outcomes'
      BY <1>6 DEF Honest, Outcomes, Queued, Working
    <2> QED BY <2>1, <2>2, <2>3, <2>4 DEF Honest
  <1> QED BY <1>3, <1>5, <1>6 DEF HonestInv

LEMMA ApplyInv ==
    ASSUME SetupTypeOK, SetupInv, HonestInv, Apply PROVE SetupTypeOK' /\ SetupInv' /\ HonestInv'
  <1>1. /\ eventCh # <<>> /\ eventCh' = Tail(eventCh)
        /\ UNCHANGED <<screenVars, queue, cur, account, code, other, syncs, overlap>>
    BY DEF Apply
  <1>2. Head(eventCh) = eventCh[1] /\ 1 \in DOMAIN eventCh
    BY <1>1, AppliedTail
  <1>3. eventCh[1].k \in {"added", "notAdded"} <=> eventCh[1].of \in Tries
    BY <1>2, EventFacts
  <1>4. CASE eventCh[1].k = "added"
    BY <1>1, <1>2, <1>3, <1>4, ResolveInv DEF Apply
  <1>5. CASE eventCh[1].k = "notAdded"
    BY <1>1, <1>2, <1>3, <1>5, ResolveInv DEF Apply
  <1>6. CASE eventCh[1].k \notin {"added", "notAdded"}
    BY <1>1, <1>2, <1>3, <1>6, SyncEventInv DEF Apply
  <1> QED BY <1>4, <1>5, <1>6

LEMMA AddAccountAwaitInv ==
    ASSUME SetupTypeOK, SetupInv, HonestInv, NEW t \in Tries, AddAccountAwait(t)
    PROVE  SetupTypeOK' /\ SetupInv' /\ HonestInv'
  <1>0. /\ try[t].pc = "add" /\ UNCHANGED <<cur, eventCh, account, code, other, syncs>>
        /\ queue \in Seq(Tries \cup {"sync"}) /\ Len(queue) \in Nat /\ QCap \in Nat
    BY SetupAssumption DEF AddAccountAwait, SetupTypeOK
  <1>1. CASE ~(Len(queue) < QCap)
    <2>1. ends(t, "failed") /\ UNCHANGED <<queue, addWaiters, overlap>>
      BY <1>1 DEF AddAccountAwait
    <2>2. t \notin addWaiters /\ code \in {"none", "minted", "gone"}
      BY <1>0 DEF SetupInv, Untold, SetupTypeOK
    <2>3. SetupTypeOK' /\ Quiet
      BY <1>0, <2>1, <2>2, EndsQuiet DEF Outcome, managerVars
    <2> QED BY <2>3, QuietInv
  <1>2. CASE Len(queue) < QCap
    <2>1. /\ queue' = Append(queue, t) /\ addWaiters' = addWaiters \cup {t} /\ Step(t, "await")
          /\ overlap' = (IF Outstanding \cup addWaiters = {} THEN overlap ELSE "yes") /\ UNCHANGED screenVars
      BY <1>2 DEF AddAccountAwait
    <2>2. /\ try' \in [Tries -> Goroutines] /\ \A u \in Tries \ {t} : try'[u] = try[u]
          /\ try'[t].pc = "await" /\ try'[t].ctx = try[t].ctx /\ try'[t].left = try[t].left
          /\ try'[t].gen = try[t].gen /\ try'[t].done = try[t].done /\ try'[t].told = try[t].told
      BY <2>1, StepEffect
    <2>3. /\ queue' \in Seq(Tries \cup {"sync"}) /\ Len(queue') = Len(queue) + 1
          /\ \A i \in DOMAIN queue : i \in DOMAIN queue' /\ queue'[i] = queue[i]
          /\ Len(queue) + 1 \in DOMAIN queue' /\ queue'[Len(queue) + 1] = t
          /\ \A i \in DOMAIN queue' : i \in DOMAIN queue \/ i = Len(queue) + 1
      <3>1. t \in Tries \cup {"sync"}
        OBVIOUS
      <3> QED BY <1>0, <2>1, <3>1, AppendFacts
    <2>4. Len(queue') <= QCap
      BY <1>0, <1>2, <2>3
    <2>5. SetupTypeOK'
      BY <1>0, <2>1, <2>2, <2>3, <2>4 DEF SetupTypeOK, screenVars
    <2>6. try[t].done = "none" /\ try[t].told = "none" /\ try[t].left = "no" /\ t \notin account
      <3>1. try[t].left \in {"yes", "no"}
        BY DEF SetupTypeOK, Goroutines
      <3> QED BY <1>0, <3>1 DEF SetupInv, Untold, Leaving
    <2>7. \A u \in Tries : (Queued(u)' <=> Queued(u) \/ u = t) /\ (Working(u)' <=> Working(u))
      BY <1>0, <2>3 DEF Queued, Working
    <2>8. Untold'
      BY <2>1, <2>2, <2>6 DEF SetupInv, Untold, SetupTypeOK
    <2>9. Waiting'
      <3>1. \A u \in Tries \ {t} : WaitsOn(u)
        BY <2>2, SameTry
      <3>2. WaitsOn(t)
        BY <2>2 DEF WaitsOn, Waited
      <3> QED BY <2>1, <3>1, <3>2, WaitingKept DEF SetupInv, screenVars
    <2>10. Leaving'
      BY <1>0, <2>2, <2>6, <2>7 DEF SetupInv, Leaving
    <2>12. ASSUME Honest, Outstanding \cup addWaiters = {} PROVE Honest'
      <3>1. \A u \in Tries : ~Queued(u) /\ ~Working(u) /\ ~Announced(u)
        BY <2>12 DEF Outstanding
      <3>2. NoneAnnounced' /\ NoneWorking'
        BY <1>0, <3>1 DEF NoneAnnounced, NoneWorking, Announced, Working
      <3>3. \A i \in DOMAIN queue' : queue'[i] \in Tries => i = Len(queue) + 1
        BY <2>3, <3>1 DEF Queued
      <3>4. OneAdd'
        BY <3>2, <3>3 DEF OneAdd, NoneAnnounced
      <3>5. Announcements'
        <4>1. \A i \in DOMAIN eventCh : eventCh[i].k \notin {"added", "notAdded"}
          BY <3>1, EventFacts DEF Announced
        <4> QED BY <1>0, <4>1 DEF Announcements
      <3>6. Sole'
        BY <1>0, <2>1, <2>7, <2>12, <3>1 DEF Sole, Outstanding, Announced
      <3>7. Outcomes'
        BY <1>0, <2>2, <2>6, <2>7, <2>12 DEF Honest, Outcomes
      <3> QED BY <3>4, <3>5, <3>6, <3>7 DEF Honest
    <2> QED BY <2>1, <2>5, <2>8, <2>9, <2>10, <2>12 DEF SetupInv, HonestInv
  <1> QED BY <1>1, <1>2

-----------------------------------------------------------------------------
(* The results.                                                            *)

LEMMA SetupInitInv == SetupInit => SetupTypeOK /\ SetupInv /\ HonestInv
  <1> SUFFICES ASSUME SetupInit PROVE SetupTypeOK /\ SetupInv /\ HonestInv
    OBVIOUS
  <1>1. SetupTypeOK
    BY SetupInitType
  <1>2. /\ queue = <<>> /\ cur = Nobody /\ eventCh = <<>> /\ account = {} /\ addWaiters = {} /\ waitGen = 0
        /\ \A t \in Tries : /\ try[t].pc = "idle" /\ try[t].left = "no" /\ try[t].gen = 0
                            /\ try[t].done = "none" /\ try[t].told = "none"
    BY DEF SetupInit, Locals
  <1>3. SetupInv
    BY <1>2 DEF SetupInv, Untold, Waiting, Leaving, Queued, Working
  <1>4. Honest
    BY <1>2 DEF Honest, OneAdd, NoneWorking, NoneAnnounced, Announcements, Sole, Outstanding, Outcomes, Queued, Working, Announced
  <1> QED BY <1>1, <1>3, <1>4 DEF HonestInv

LEMMA SetupStep ==
    SetupTypeOK /\ SetupInv /\ HonestInv /\ [SetupNext]_setupVars => SetupTypeOK' /\ SetupInv' /\ HonestInv'
  <1> SUFFICES ASSUME SetupTypeOK, SetupInv, HonestInv, [SetupNext]_setupVars
               PROVE  SetupTypeOK' /\ SetupInv' /\ HonestInv'
    OBVIOUS
  <1>1. CASE Taps /\ ~SyncNow
    BY <1>1, TapsQuiet, QuietInv
  <1>2. CASE SyncNow
    BY <1>2, SyncNowInv
  <1>3. CASE commandLoop
    BY <1>3, CommandLoopInv
  <1>4. CASE execute
    BY <1>4, ExecuteInv
  <1>5. CASE Apply
    BY <1>5, ApplyInv
  <1>9. CASE OtherSyncs
    BY <1>9, OtherSyncsInv
  <1>6. CASE handleSetupCode \/ Operator
    BY <1>6, ServerQuiet, QuietInv
  <1>7. ASSUME NEW t \in Tries, Goroutine(t) \/ DeadlineExceeded(t) \/ awaitTimesOut(t)
        PROVE  SetupTypeOK' /\ SetupInv' /\ HonestInv'
    <2>1. CASE AddAccountAwait(t)
      BY <2>1, AddAccountAwaitInv
    <2>2. CASE ~AddAccountAwait(t)
      BY <1>7, <2>2, GoroutineQuiet, QuietInv DEF Goroutine
    <2> QED BY <2>1, <2>2
  <1>8. CASE UNCHANGED setupVars
    <2>1. SetupTypeOK'
      BY <1>8 DEF SetupTypeOK, setupVars, screenVars, managerVars
    <2>2. \A t \in Tries : GoesOn(t) \/ Stays(t)
      BY <1>8, SameTry DEF setupVars
    <2>3. Waiting'
      BY <1>8 DEF SetupInv, Waiting, setupVars, screenVars
    <2>4. Quiet
      BY <1>8, <2>2, <2>3 DEF Quiet, setupVars, managerVars
    <2> QED BY <2>1, <2>4, QuietInv
  <1> QED BY <1>1, <1>2, <1>3, <1>4, <1>5, <1>6, <1>7, <1>8, <1>9 DEF SetupNext

\* The set-up screen, its goroutines and the manager's channels keep their
\* types and capacities whatever is tapped, answered or timed out.
THEOREM SetupTypeCorrect == SetupSpec => []SetupTypeOK
  <1>1. SetupInit => SetupTypeOK /\ SetupInv /\ HonestInv
    BY SetupInitInv
  <1>2. SetupTypeOK /\ SetupInv /\ HonestInv /\ [SetupNext]_setupVars => (SetupTypeOK /\ SetupInv /\ HonestInv)'
    BY SetupStep
  <1> QED BY <1>1, <1>2, PTL DEF SetupSpec

\* Unless an add was sent while another was outstanding or still waited
\* for, what AddAccountAwait tells a try is what execAddAccount did for it,
\* over any channel capacities, whatever events of this or another account
\* fill the channel, and with any number of tries and time-outs.
THEOREM OutcomeIsHonest == SetupSpec => []HonestOutcome
  <1>1. SetupInit => SetupTypeOK /\ SetupInv /\ HonestInv
    BY SetupInitInv
  <1>2. SetupTypeOK /\ SetupInv /\ HonestInv /\ [SetupNext]_setupVars => (SetupTypeOK /\ SetupInv /\ HonestInv)'
    BY SetupStep
  <1>3. HonestInv => HonestOutcome
    BY DEF HonestInv, Honest, Outcomes, HonestOutcome
  <1> QED BY <1>1, <1>2, <1>3, PTL DEF SetupSpec

\* The newest wait that the user left through a button adds no account,
\* however many waits were parked, cancelled and cleared since.  (The back
\* key cancels nothing and leaves a wait alive.)
THEOREM LeftNeverAdded == SetupSpec => []LeftIsNotAdded
  <1>1. SetupInit => SetupTypeOK /\ SetupInv /\ HonestInv
    BY SetupInitInv
  <1>2. SetupTypeOK /\ SetupInv /\ HonestInv /\ [SetupNext]_setupVars => (SetupTypeOK /\ SetupInv /\ HonestInv)'
    BY SetupStep
  <1>3. SetupInv => LeftIsNotAdded
    BY DEF SetupInv, Leaving, LeftIsNotAdded
  <1> QED BY <1>1, <1>2, <1>3, PTL DEF SetupSpec
=============================================================================
