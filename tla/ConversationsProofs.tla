------------------------- MODULE ConversationsProofs -------------------------
(***************************************************************************)
(* Proofs about Conversations, for any number of users, conversations and  *)
(* concurrent requests and any pin limit: its type invariant with the      *)
(* foreign keys, that two users are paired once (OneConversation), that    *)
(* only those who left are missing (MembersComplete), that Conversations   *)
(* implements ChatLife (ChatSpec), and the bound on the race of concurrent *)
(* pins (PinBound).                                                        *)
(***************************************************************************)
EXTENDS Conversations, FiniteSetTheorems, TLAPS

------------------------------------------------------------------------------
(* The inductive invariants. *)

\* What a request in flight has found out about its parameters.
TaskInv ==
  \A t \in Task :
    /\ task[t].pc \in {"insert", "created"} =>
         task[t].user \in User /\ task[t].other \in User
           /\ task[t].user # task[t].other
    /\ task[t].pc \notin {"idle", "insert"} => task[t].conv \in Conv
    /\ task[t].pc # "idle" => task[t].user \in User

LEMMA IdleType == Idle \in Request
BY DEF Idle, Request, Want, Pref

LEMMA InitType == Init => TypeOK /\ TaskInv
<1> SUFFICES ASSUME Init PROVE TypeOK /\ TaskInv
  OBVIOUS
<1> USE DEF Init
<1>1. key \in [Conv -> (User \X User) \cup {NoKey}]
  BY ExistingAssumption
<1>2. participants \subseteq {p \in Conv \X users : key[p[1]] # NoKey}
  BY ExistingAssumption, NoneAssumption
<1>3. /\ pref \in [User \X Conv -> Pref]
      /\ \A p \in User \X Conv : pref[p] # "none" => p[1] \in users
  BY DEF Pref
<1>4. task \in [Task -> Request]
  BY IdleType
<1>5. TaskInv
  BY DEF TaskInv, Idle
<1> QED
  BY <1>1, <1>2, <1>3, <1>4, <1>5 DEF TypeOK

LEMMA DirectKeyType ==
  ASSUME NEW u \in User, NEW o \in User
  PROVE  DirectKey(u, o) \in User \X User
BY DEF DirectKey

LEMMA ValueType ==
  ASSUME TypeOK, NEW t \in Task
  PROVE  Value(t) \in {"plain", "pinned"}
<1>1. task[t].want \in Want /\ task[t].seen \in Pref
  BY DEF TypeOK, Request
<1> QED
  BY <1>1 DEF Value, Want, Pref

\* The steps of a request that change its own record only.
LEMMA TaskType ==
  ASSUME TypeOK, NEW t \in Task, NEW r \in Request,
         task' = [task EXCEPT ![t] = r]
  PROVE  task' \in [Task -> Request]
BY DEF TypeOK

LEMMA CreateType ==
  ASSUME TypeOK, TaskInv, NEW t \in Task,
         \/ \E u \in Caller, o \in User : CreateRead(t, u, o)
         \/ CreateInsert(t)
         \/ CreateCommit(t)
  PROVE  TypeOK' /\ TaskInv'
<1>1. CASE \E u \in Caller, o \in User : CreateRead(t, u, o)
  <2>1. PICK u \in Caller, o \in User : CreateRead(t, u, o)
    BY <1>1
  <2>2. u \in User /\ u # o
    BY <2>1, CallerAssumption DEF CreateRead
  <2>3. CASE /\ Begin(t, [Idle EXCEPT !.pc = "insert", !.user = u, !.other = o])
             /\ UNCHANGED served
    <3>1. [Idle EXCEPT !.pc = "insert", !.user = u, !.other = o] \in Request
      BY <2>2, IdleType DEF Idle, Request
    <3>2. UNCHANGED <<dbVars, left, served>>
      BY <2>1, <2>3 DEF CreateRead
    <3>3. task' \in [Task -> Request]
      BY <2>3, <3>1, TaskType DEF Begin
    <3>4. TypeOK'
      BY <3>2, <3>3 DEF TypeOK, dbVars
    <3>5. TaskInv'
      BY <2>2, <2>3 DEF TaskInv, TypeOK, Begin, Idle
    <3> QED
      BY <3>4, <3>5
  <2>4. CASE \E c \in Conv : served' = served \cup {<<u, o, c>>} /\ UNCHANGED task
    <3>1. UNCHANGED <<dbVars, left, task>>
      BY <2>1, <2>4 DEF CreateRead
    <3>2. served' \subseteq User \X User \X Conv
      BY <2>2, <2>4 DEF TypeOK
    <3> QED
      BY <3>1, <3>2 DEF TypeOK, TaskInv, dbVars
  <2> QED
    BY <2>1, <2>3, <2>4 DEF CreateRead
<1>2. CASE CreateInsert(t)
  <2>1. UNCHANGED <<dbVars, left>> /\ task[t].pc = "insert"
    BY <1>2 DEF CreateInsert
  <2>2. task[t].user \in User /\ task[t].other \in User
    BY <2>1 DEF TaskInv
  <2>3. /\ task' \in [Task -> Request]
        /\ served' \subseteq User \X User \X Conv
    BY <1>2, <2>2, IdleType DEF CreateInsert, TypeOK, End, Request, Created
  <2>4. TypeOK'
    BY <2>1, <2>3 DEF TypeOK, dbVars
  <2>5. TaskInv'
    <3>1. CASE End(t)
      BY <3>1 DEF TaskInv, TypeOK, End, Idle
    <3>2. CASE \E c \in Conv :
                 task' = [task EXCEPT ![t].pc = "created", ![t].conv = c]
      BY <2>1, <2>2, <3>2 DEF TaskInv, TypeOK
    <3> QED
      BY <1>2, <3>1, <3>2 DEF CreateInsert, Created
  <2> QED
    BY <2>4, <2>5
<1>3. CASE CreateCommit(t)
  <2>1. UNCHANGED <<users, pref, left>> /\ task[t].pc = "created" /\ End(t)
    BY <1>3 DEF CreateCommit
  <2>2. /\ task[t].user \in User /\ task[t].other \in User
        /\ task[t].conv \in Conv
    BY <2>1 DEF TaskInv
  <2>3. task' \in [Task -> Request]
    BY <2>1, IdleType, TaskType DEF End
  <2>4. key' \in [Conv -> (User \X User) \cup {NoKey}]
    BY <1>3, <2>2, DirectKeyType DEF CreateCommit, TypeOK
  <2>5. participants' \subseteq {p \in Conv \X users' : key'[p[1]] # NoKey}
    <3>1. CASE UNCHANGED <<key, participants>>
      BY <2>1, <3>1 DEF TypeOK
    <3>2. CASE /\ BothExist(t)
               /\ key' = [key EXCEPT ![task[t].conv] =
                            DirectKey(task[t].user, task[t].other)]
               /\ participants' = participants \cup NewMembers(t)
      <4>1. DirectKey(task[t].user, task[t].other) # NoKey
        BY <2>2, DirectKeyType, NoneAssumption
      <4> QED
        BY <2>1, <2>2, <3>2, <4>1 DEF TypeOK, BothExist, NewMembers
    <3> QED
      BY <1>3, <3>1, <3>2 DEF CreateCommit
  <2>6. served' \subseteq User \X User \X Conv
    BY <1>3, <2>2 DEF CreateCommit, TypeOK
  <2>7. TypeOK'
    BY <2>1, <2>3, <2>4, <2>5, <2>6 DEF TypeOK
  <2>8. TaskInv'
    BY <2>1 DEF TaskInv, TypeOK, End, Idle
  <2> QED
    BY <2>7, <2>8
<1> QED
  BY <1>1, <1>2, <1>3

LEMMA PrefType ==
  ASSUME TypeOK, TaskInv, NEW t \in Task,
         \/ \E u \in Caller, c \in Conv, want \in Want : PrefEnsure(t, u, c, want)
         \/ PrefLoad(t) \/ PrefCount(t) \/ PrefInsert(t) \/ PrefUpdate(t)
  PROVE  TypeOK' /\ TaskInv'
<1>1. CASE \E u \in Caller, c \in Conv, want \in Want : PrefEnsure(t, u, c, want)
  <2>1. PICK u \in Caller, c \in Conv, want \in Want : PrefEnsure(t, u, c, want)
    BY <1>1
  <2>2. u \in User
    BY CallerAssumption
  <2>3. [Idle EXCEPT !.pc = "load", !.user = u, !.conv = c, !.want = want]
          \in Request
    BY <2>2, IdleType DEF Idle, Request
  <2>4. task' \in [Task -> Request]
    BY <2>1, <2>3, TaskType DEF PrefEnsure, Begin
  <2>5. TypeOK'
    BY <2>1, <2>4 DEF PrefEnsure, TypeOK, dbVars
  <2>6. TaskInv'
    BY <2>1, <2>2 DEF PrefEnsure, TaskInv, TypeOK, Begin, Idle
  <2> QED
    BY <2>5, <2>6
<1>2. CASE PrefLoad(t)
  <2>1. task[t].user \in User /\ task[t].conv \in Conv
    BY <1>2 DEF PrefLoad, TaskInv
  <2>2. pref[<<task[t].user, task[t].conv>>] \in Pref
    BY <2>1 DEF TypeOK
  <2>3. task' \in [Task -> Request]
    BY <1>2, <2>2 DEF PrefLoad, TypeOK, Request
  <2>4. TypeOK'
    BY <1>2, <2>3 DEF PrefLoad, TypeOK, dbVars
  <2>5. TaskInv'
    BY <1>2 DEF PrefLoad, TaskInv, TypeOK
  <2> QED
    BY <2>4, <2>5
<1>3. CASE PrefCount(t)
  <2>1. task' \in [Task -> Request]
    BY <1>3, IdleType DEF PrefCount, Goto, End, TypeOK, Request
  <2>2. TypeOK'
    BY <1>3, <2>1 DEF PrefCount, TypeOK, dbVars
  <2>3. TaskInv'
    <3>1. CASE End(t)
      BY <3>1 DEF TaskInv, TypeOK, End, Idle
    <3>2. CASE Goto(t, "write")
      BY <1>3, <3>2 DEF PrefCount, TaskInv, TypeOK, Goto
    <3> QED
      BY <1>3, <3>1, <3>2 DEF PrefCount
  <2> QED
    BY <2>2, <2>3
<1>4. CASE PrefInsert(t) \/ PrefUpdate(t)
  <2>1. /\ UNCHANGED <<users, key, participants, left, served>>
        /\ task[t].pc = "write" /\ End(t)
    BY <1>4 DEF PrefInsert, PrefUpdate
  <2>2. <<task[t].user, task[t].conv>> \in User \X Conv
    BY <2>1 DEF TaskInv
  <2>3. task' \in [Task -> Request]
    BY <2>1, IdleType, TaskType DEF End
  <2>4. \/ pref' = pref
        \/ /\ pref' = [pref EXCEPT ![<<task[t].user, task[t].conv>>] = Value(t)]
           /\ task[t].user \in users
    BY <1>4, <2>2 DEF PrefInsert, PrefUpdate, TypeOK
  <2>5. /\ pref' \in [User \X Conv -> Pref]
        /\ \A p \in User \X Conv : pref'[p] # "none" => p[1] \in users'
    BY <2>1, <2>2, <2>4, ValueType DEF TypeOK, Pref
  <2>6. TypeOK'
    BY <2>1, <2>3, <2>5 DEF TypeOK
  <2>7. TaskInv'
    BY <2>1 DEF TaskInv, TypeOK, End, Idle
  <2> QED
    BY <2>6, <2>7
<1> QED
  BY <1>1, <1>2, <1>3, <1>4

LEMMA LeaveType ==
  ASSUME TypeOK, TaskInv, NEW t \in Task,
         \/ \E u \in Caller, c \in Conv : LeaveEnsure(t, u, c)
         \/ LeaveDelete(t) \/ LeaveCommit(t) \/ Abort(t)
  PROVE  TypeOK' /\ TaskInv'
<1>1. CASE \E u \in Caller, c \in Conv : LeaveEnsure(t, u, c)
  <2>1. PICK u \in Caller, c \in Conv : LeaveEnsure(t, u, c)
    BY <1>1
  <2>2. u \in User
    BY CallerAssumption
  <2>3. [Idle EXCEPT !.pc = "leave", !.user = u, !.conv = c] \in Request
    BY <2>2, IdleType DEF Idle, Request
  <2>4. task' \in [Task -> Request]
    BY <2>1, <2>3, TaskType DEF LeaveEnsure, Begin
  <2>5. TypeOK'
    BY <2>1, <2>4 DEF LeaveEnsure, TypeOK, dbVars
  <2>6. TaskInv'
    BY <2>1, <2>2 DEF LeaveEnsure, TaskInv, TypeOK, Begin, Idle
  <2> QED
    BY <2>5, <2>6
<1>2. CASE LeaveDelete(t)
  <2>1. task[t].user \in User /\ task[t].conv \in Conv
    BY <1>2 DEF LeaveDelete, TaskInv
  <2>2. pref[<<task[t].user, task[t].conv>>] \in Pref
    BY <2>1 DEF TypeOK
  <2>3. task' \in [Task -> Request]
    <3>1. /\ task' = [task EXCEPT ![t] =
                        [task[t] EXCEPT !.pc = "leaving",
                           !.seen = pref[<<task[t].user, task[t].conv>>]]]
          /\ task[t] \in Request
      BY <1>2 DEF LeaveDelete, TypeOK
    <3>2. [task[t] EXCEPT !.pc = "leaving",
             !.seen = pref[<<task[t].user, task[t].conv>>]] \in Request
      BY <2>2, <3>1 DEF Request
    <3> QED
      BY <3>1, <3>2, TaskType
  <2>4. TypeOK'
    BY <1>2, <2>3 DEF LeaveDelete, TypeOK, dbVars
  <2>5. TaskInv'
    BY <1>2 DEF LeaveDelete, TaskInv, TypeOK
  <2> QED
    BY <2>4, <2>5
<1>3. CASE LeaveCommit(t)
  <2>1. /\ UNCHANGED <<users, key, served>>
        /\ task[t].pc = "leaving" /\ End(t)
        /\ participants' \subseteq participants
    BY <1>3 DEF LeaveCommit
  <2>2. task[t].user \in User /\ task[t].conv \in Conv
    BY <2>1 DEF TaskInv
  <2>3. task' \in [Task -> Request]
    BY <2>1, IdleType, TaskType DEF End
  <2>4. /\ pref' \in [User \X Conv -> Pref]
        /\ \A p \in User \X Conv : pref'[p] # "none" => p[1] \in users
    BY <1>3, <2>2 DEF LeaveCommit, TypeOK, Pref
  <2>5. left' \subseteq Conv \X User
    BY <1>3, <2>2 DEF LeaveCommit, TypeOK
  <2>6. TypeOK'
    BY <2>1, <2>3, <2>4, <2>5 DEF TypeOK
  <2>7. TaskInv'
    BY <2>1 DEF TaskInv, TypeOK, End, Idle
  <2> QED
    BY <2>6, <2>7
<1>4. CASE Abort(t)
  <2>1. UNCHANGED <<dbVars, left, served>> /\ End(t)
    BY <1>4 DEF Abort
  <2>2. task' \in [Task -> Request]
    BY <2>1, IdleType, TaskType DEF End
  <2>3. TypeOK'
    BY <2>1, <2>2 DEF TypeOK, dbVars
  <2>4. TaskInv'
    BY <2>1 DEF TaskInv, TypeOK, End, Idle
  <2> QED
    BY <2>3, <2>4
<1> QED
  BY <1>1, <1>2, <1>3, <1>4

LEMMA AccountType ==
  ASSUME TypeOK, TaskInv, NEW u \in User, DeleteAccount(u)
  PROVE  TypeOK' /\ TaskInv'
<1> USE DEF DeleteAccount
<1>1. participants' \subseteq {p \in Conv \X users' : key'[p[1]] # NoKey}
  BY DEF TypeOK
<1>2. /\ pref' \in [User \X Conv -> Pref]
      /\ \A p \in User \X Conv : pref'[p] # "none" => p[1] \in users'
  BY DEF TypeOK, Pref
<1>3. users' \subseteq User /\ left' \subseteq Conv \X User
  BY DEF TypeOK
<1> QED
  BY <1>1, <1>2, <1>3 DEF TypeOK, TaskInv

LEMMA NextType == TypeOK /\ TaskInv /\ [Next]_vars => TypeOK' /\ TaskInv'
<1> SUFFICES ASSUME TypeOK, TaskInv, [Next]_vars PROVE TypeOK' /\ TaskInv'
  OBVIOUS
<1>1. CASE \E t \in Task : TaskNext(t)
  BY <1>1, CreateType, PrefType, LeaveType DEF TaskNext
<1>2. CASE \E u \in Leavers : DeleteAccount(u)
  BY <1>2, AccountType, CallerAssumption
<1>3. CASE UNCHANGED vars
  BY <1>3 DEF vars, dbVars, TypeOK, TaskInv
<1> QED
  BY <1>1, <1>2, <1>3 DEF Next

\* Every reachable state of the conversation requests respects the types, the
\* foreign keys of the participants and those of the preferences.
THEOREM TypeCorrect == Spec => []TypeOK
<1> QED
  BY InitType, NextType, PTL DEF Spec

------------------------------------------------------------------------------
(* Keys: ordered, unique, and reserved by the insert that will commit them.  *)

TaskKey(t) == DirectKey(task[t].user, task[t].other)

KeyInv ==
  /\ \A c \in Created : Order[key[c][1]] < Order[key[c][2]]
  /\ \A c, d \in Created : key[c] = key[d] => c = d
  /\ \A t \in Task : task[t].pc = "created" =>
       \A c \in Created : key[c] # TaskKey(t) /\ c # task[t].conv
  /\ \A s, t \in Task :
       task[s].pc = "created" /\ task[t].pc = "created" /\ s # t =>
         TaskKey(s) # TaskKey(t) /\ task[s].conv # task[t].conv

\* Participants are of the pair, and an answer names the conversation of the
\* pair that asked.
MemberInv ==
  /\ \A p \in participants : p[2] \in PairOf(p[1])
  /\ \A s \in served : key[s[3]] # NoKey /\ PairOf(s[3]) = {s[1], s[2]}
  /\ MembersComplete

LEMMA DirectKeyFacts ==
  ASSUME NEW u \in User, NEW o \in User, u # o
  PROVE  /\ DirectKey(u, o) \in User \X User
         /\ DirectKey(u, o) # NoKey
         /\ {DirectKey(u, o)[1], DirectKey(u, o)[2]} = {u, o}
         /\ Order[DirectKey(u, o)[1]] < Order[DirectKey(u, o)[2]]
<1>1. Order[u] \in Nat /\ Order[o] \in Nat /\ Order[u] # Order[o]
  BY OrderAssumption
<1> QED
  BY <1>1, NoneAssumption DEF DirectKey

LEMMA InitKey == Init => KeyInv /\ MemberInv
<1> SUFFICES ASSUME Init PROVE KeyInv /\ MemberInv
  OBVIOUS
<1>1. /\ Created = DOMAIN Existing
      /\ \A c \in Created : key[c] = Existing[c] /\ c \in Conv
  BY ExistingAssumption, NoneAssumption DEF Init, Created
<1>2. KeyInv
  BY <1>1, ExistingAssumption DEF Init, KeyInv, Idle
<1>3. \A p \in participants : p[2] \in PairOf(p[1])
  BY <1>1 DEF Init, PairOf
<1>4. MembersComplete
  BY <1>1, ExistingAssumption DEF Init, MembersComplete, PairOf
<1> QED
  BY <1>2, <1>3, <1>4 DEF MemberInv, Init

\* Steps that neither create a row nor claim a key.
LEMMA KeyQuiet ==
  ASSUME KeyInv, UNCHANGED key,
         \A t \in Task : task'[t].pc = "created" => task'[t] = task[t]
  PROVE  KeyInv'
BY DEF KeyInv, Created, TaskKey, DirectKey

LEMMA MemberQuiet ==
  ASSUME MemberInv, UNCHANGED <<key, participants, left, served>>
  PROVE  MemberInv'
BY DEF MemberInv, MembersComplete, Created, PairOf

LEMMA CreateReadKey ==
  ASSUME TypeOK, KeyInv, MemberInv, NEW t \in Task,
         NEW u \in User, NEW o \in User, CreateRead(t, u, o)
  PROVE  KeyInv' /\ MemberInv'
<1>1. UNCHANGED <<key, participants, left>> /\ u # o
  BY DEF CreateRead, dbVars
<1>2. \A s \in Task : task'[s].pc = "created" => task'[s] = task[s]
  BY DEF CreateRead, Begin, TypeOK, Idle
<1>3. KeyInv'
  BY <1>1, <1>2, KeyQuiet
<1>4. \A s \in served' : key'[s[3]] # NoKey /\ {key'[s[3]][1], key'[s[3]][2]} = {s[1], s[2]}
  <2>1. CASE UNCHANGED served
    BY <1>1, <2>1 DEF MemberInv, PairOf
  <2>2. CASE \E c \in Conv :
               /\ {<<c, u>>, <<c, o>>} \subseteq participants
               /\ served' = served \cup {<<u, o, c>>}
    <3>1. PICK c \in Conv :
               /\ {<<c, u>>, <<c, o>>} \subseteq participants
               /\ served' = served \cup {<<u, o, c>>}
      BY <2>2
    <3>2. u \in PairOf(c) /\ o \in PairOf(c) /\ key[c] # NoKey
      BY <3>1 DEF MemberInv, TypeOK
    <3>3. {key[c][1], key[c][2]} = {u, o}
      BY <1>1, <3>2 DEF PairOf
    <3> QED
      BY <1>1, <3>1, <3>2, <3>3 DEF MemberInv, PairOf
  <2> QED
    BY <2>1, <2>2 DEF CreateRead
<1> QED
  BY <1>1, <1>3, <1>4 DEF MemberInv, MembersComplete, Created, PairOf

LEMMA CreateInsertKey ==
  ASSUME TypeOK, TaskInv, KeyInv, MemberInv, NEW t \in Task, CreateInsert(t)
  PROVE  KeyInv' /\ MemberInv'
<1>1. UNCHANGED <<key, participants, left>> /\ task[t].pc = "insert"
  BY DEF CreateInsert, dbVars
<1>2. task[t].user \in User /\ task[t].other \in User /\ task[t].user # task[t].other
  BY <1>1 DEF TaskInv
<1>3. CASE \E c \in Conv :
             /\ key[c] = TaskKey(t)
             /\ served' = served \cup {<<task[t].user, task[t].other, c>>}
             /\ End(t)
  <2>1. PICK c \in Conv :
             /\ key[c] = TaskKey(t)
             /\ served' = served \cup {<<task[t].user, task[t].other, c>>}
             /\ End(t)
    BY <1>3
  <2>2. \A s \in Task : task'[s].pc = "created" => task'[s] = task[s]
    BY <2>1 DEF End, TypeOK, Idle
  <2>3. key[c] # NoKey /\ {key[c][1], key[c][2]} = {task[t].user, task[t].other}
    BY <1>2, <2>1, DirectKeyFacts DEF TaskKey
  <2>4. \A s \in served' : key'[s[3]] # NoKey /\ {key'[s[3]][1], key'[s[3]][2]} = {s[1], s[2]}
    BY <1>1, <2>1, <2>3 DEF MemberInv, PairOf
  <2>5. MemberInv'
    BY <1>1, <2>4 DEF MemberInv, MembersComplete, Created, PairOf
  <2> QED
    BY <1>1, <2>2, <2>5, KeyQuiet
<1>4. CASE \E c \in Conv \ Created :
             /\ \A d \in Conv : key[d] # TaskKey(t)
             /\ \A s \in Task : task[s].pc = "created" =>
                  task[s].conv # c /\ TaskKey(s) # TaskKey(t)
             /\ task' = [task EXCEPT ![t].pc = "created", ![t].conv = c]
             /\ UNCHANGED served
  <2>1. PICK c \in Conv \ Created :
             /\ \A d \in Conv : key[d] # TaskKey(t)
             /\ \A s \in Task : task[s].pc = "created" =>
                  task[s].conv # c /\ TaskKey(s) # TaskKey(t)
             /\ task' = [task EXCEPT ![t].pc = "created", ![t].conv = c]
             /\ UNCHANGED served
    BY <1>4
  <2>2. \A s \in Task : /\ task'[s].user = task[s].user
                        /\ task'[s].other = task[s].other
                        /\ s # t => task'[s] = task[s]
                        /\ s = t => task'[s].conv = c
    BY <2>1 DEF TypeOK, Request
  <2>3. \A s \in Task :
          DirectKey(task'[s].user, task'[s].other) = TaskKey(s)
    BY <2>2 DEF TaskKey
  <2>4. KeyInv'
    <3>1. \A s \in Task : task'[s].pc = "created" => s = t \/ task[s].pc = "created"
      BY <2>2
    <3>2. \A s \in Task : task'[s].pc = "created" =>
            \A d \in Created : key[d] # TaskKey(s) /\ d # task'[s].conv
      <4>1. ASSUME NEW s \in Task, s = t, NEW d \in Created
            PROVE  key[d] # TaskKey(s) /\ d # task'[s].conv
        <5>1. task'[s].conv = c /\ d \in Conv
          BY <2>2, <4>1 DEF Created
        <5> QED
          BY <2>1, <4>1, <5>1
      <4>2. ASSUME NEW s \in Task, s # t, task'[s].pc = "created",
                   NEW d \in Created
            PROVE  key[d] # TaskKey(s) /\ d # task'[s].conv
        <5>1. task'[s] = task[s]
          BY <2>2, <4>2
        <5> QED
          BY <4>2, <5>1 DEF KeyInv
      <4> QED
        BY <4>1, <4>2
    <3>3. \A s, r \in Task :
            task'[s].pc = "created" /\ task'[r].pc = "created" /\ s # r =>
              TaskKey(s) # TaskKey(r) /\ task'[s].conv # task'[r].conv
      <4>1. ASSUME NEW s \in Task, s # t, task'[s].pc = "created"
            PROVE  /\ TaskKey(s) # TaskKey(t) /\ task'[s].conv # task'[t].conv
                   /\ task'[s] = task[s]
        <5>1. task'[s] = task[s] /\ task'[t].conv = c
          BY <2>2, <4>1
        <5> QED
          BY <2>1, <4>1, <5>1
      <4>2. ASSUME NEW s \in Task, NEW r \in Task, s # r, s # t, r # t,
                   task'[s].pc = "created", task'[r].pc = "created"
            PROVE  TaskKey(s) # TaskKey(r) /\ task'[s].conv # task'[r].conv
        <5>1. task'[s] = task[s] /\ task'[r] = task[r]
          BY <4>1, <4>2
        <5> QED
          BY <4>2, <5>1 DEF KeyInv
      <4> QED
        BY <4>1, <4>2
    <3>4. Created' = Created
      BY <1>1 DEF Created
    <3>5. \A s \in Task : TaskKey(s)' = TaskKey(s)
      BY <2>3 DEF TaskKey
    <3> QED
      BY <1>1, <3>2, <3>3, <3>4, <3>5 DEF KeyInv
  <2> QED
    BY <1>1, <2>1, <2>4, MemberQuiet
<1> QED
  BY <1>3, <1>4 DEF CreateInsert, TaskKey

LEMMA CreateCommitKey ==
  ASSUME TypeOK, TaskInv, KeyInv, MemberInv, NEW t \in Task, CreateCommit(t)
  PROVE  KeyInv' /\ MemberInv'
<1>1. UNCHANGED left /\ task[t].pc = "created" /\ End(t)
  BY DEF CreateCommit
<1>2. \A s \in Task : task'[s].pc = "created" => s # t /\ task'[s] = task[s]
  BY <1>1 DEF End, TypeOK, Idle
<1>3. CASE UNCHANGED <<key, participants, served>>
  BY <1>1, <1>2, <1>3, KeyQuiet, MemberQuiet
<1>4. CASE /\ key' = [key EXCEPT ![task[t].conv] = TaskKey(t)]
           /\ participants' = participants \cup NewMembers(t)
           /\ served' = served \cup
                {<<task[t].user, task[t].other, task[t].conv>>}
  <2>1. PICK u \in User, o \in User, c \in Conv :
          /\ u = task[t].user /\ o = task[t].other /\ c = task[t].conv
          /\ u # o
    BY <1>1 DEF TaskInv
  <2>2. PICK k \in User \X User :
          /\ k = TaskKey(t) /\ k # NoKey
          /\ {k[1], k[2]} = {u, o} /\ Order[k[1]] < Order[k[2]]
    BY <2>1, DirectKeyFacts DEF TaskKey
  <2>3. /\ key' = [key EXCEPT ![c] = k]
        /\ participants' = participants \cup {<<c, u>>, <<c, o>>}
        /\ served' = served \cup {<<u, o, c>>}
    BY <1>4, <2>1, <2>2 DEF NewMembers
  <2>4. c \notin Created
    BY <1>1, <2>1 DEF KeyInv
  <2>5. key'[c] = k /\ \A d \in Conv : d # c => key'[d] = key[d]
    BY <2>3 DEF TypeOK
  <2>6. \A d \in Conv : key'[d] # NoKey <=> d = c \/ d \in Created
    BY <2>2, <2>4, <2>5 DEF Created
  <2>7. \A d \in Created : key[d] # k
    BY <1>1, <2>2 DEF KeyInv
  <2>8. \A s \in Task : task'[s].pc = "created" =>
          /\ task[s].pc = "created" /\ s # t
          /\ DirectKey(task'[s].user, task'[s].other) = TaskKey(s)
          /\ TaskKey(s) # k /\ task'[s].conv # c
    BY <1>1, <1>2, <2>1, <2>2 DEF KeyInv, TaskKey
  <2>9. KeyInv'
    <3>1. \A d \in Created' : Order[key'[d][1]] < Order[key'[d][2]]
      BY <2>2, <2>5, <2>6 DEF KeyInv, Created
    <3>2. \A d, e \in Created' : key'[d] = key'[e] => d = e
      BY <2>5, <2>6, <2>7 DEF KeyInv, Created
    <3>3. \A s \in Task : task'[s].pc = "created" =>
            \A d \in Created' : key'[d] # TaskKey(s)' /\ d # task'[s].conv
      BY <1>2, <2>5, <2>6, <2>8 DEF KeyInv, Created, TaskKey
    <3>4. \A s, r \in Task :
            task'[s].pc = "created" /\ task'[r].pc = "created" /\ s # r =>
              TaskKey(s)' # TaskKey(r)' /\ task'[s].conv # task'[r].conv
      BY <1>2, <2>8 DEF KeyInv, TaskKey
    <3> QED
      BY <3>1, <3>2, <3>3, <3>4 DEF KeyInv
  <2>10. \A d \in Conv : d # c => PairOf(d)' = PairOf(d)
    BY <2>5 DEF PairOf
  <2>11. PairOf(c)' = {u, o}
    BY <2>2, <2>5 DEF PairOf
  <2>12. \A p \in participants : p[1] \in Conv /\ p[1] # c
    BY <2>4 DEF TypeOK, Created
  <2>13. \A s \in served : s[3] \in Conv /\ s[3] # c
    BY <2>4 DEF MemberInv, TypeOK, Created
  <2>14. \A p \in participants' : p[2] \in PairOf(p[1])'
    BY <2>3, <2>10, <2>11, <2>12 DEF MemberInv
  <2>15. \A s \in served' : key'[s[3]] # NoKey /\ PairOf(s[3])' = {s[1], s[2]}
    BY <2>2, <2>3, <2>5, <2>10, <2>11, <2>13 DEF MemberInv
  <2>16. MembersComplete'
    BY <1>1, <2>3, <2>6, <2>10, <2>11 DEF MemberInv, MembersComplete, Created
  <2> QED
    BY <2>9, <2>14, <2>15, <2>16 DEF MemberInv
<1> QED
  BY <1>3, <1>4 DEF CreateCommit, TaskKey

LEMMA LeaveCommitKey ==
  ASSUME TypeOK, KeyInv, MemberInv, NEW t \in Task, LeaveCommit(t)
  PROVE  KeyInv' /\ MemberInv'
<1>1. /\ UNCHANGED <<key, served>> /\ End(t)
      /\ participants' = participants \ {<<task[t].conv, task[t].user>>}
      /\ left' = left \cup {<<task[t].conv, task[t].user>>}
  BY DEF LeaveCommit
<1>2. \A s \in Task : task'[s].pc = "created" => task'[s] = task[s]
  BY <1>1 DEF End, TypeOK, Idle
<1> QED
  BY <1>1, <1>2, KeyQuiet DEF MemberInv, MembersComplete, Created, PairOf

LEMMA AccountKey ==
  ASSUME TypeOK, KeyInv, MemberInv, NEW u \in User, DeleteAccount(u)
  PROVE  KeyInv' /\ MemberInv'
<1>1. /\ UNCHANGED <<key, task, served>>
      /\ participants' = {p \in participants : p[2] # u}
      /\ left' = left \cup {p \in participants : p[2] = u}
  BY DEF DeleteAccount
<1>2. KeyInv'
  BY <1>1, KeyQuiet
<1>3. MembersComplete'
  BY <1>1 DEF MemberInv, MembersComplete, Created, PairOf
<1> QED
  BY <1>1, <1>2, <1>3 DEF MemberInv, PairOf

LEMMA NextKey ==
  TypeOK /\ TaskInv /\ KeyInv /\ MemberInv /\ [Next]_vars => KeyInv' /\ MemberInv'
<1> SUFFICES ASSUME TypeOK, TaskInv, KeyInv, MemberInv, [Next]_vars
             PROVE  KeyInv' /\ MemberInv'
  OBVIOUS
<1>1. ASSUME NEW t \in Task, TaskNext(t)
      PROVE  KeyInv' /\ MemberInv'
  <2>1. CASE \E u \in Caller, o \in User : CreateRead(t, u, o)
    BY <2>1, CreateReadKey, CallerAssumption
  <2>2. CASE CreateInsert(t) \/ CreateCommit(t)
    BY <2>2, CreateInsertKey, CreateCommitKey
  <2>3. CASE LeaveCommit(t)
    BY <2>3, LeaveCommitKey
  <2>4. CASE \/ \E u \in Caller, c \in Conv :
                  LeaveEnsure(t, u, c) \/ \E want \in Want : PrefEnsure(t, u, c, want)
             \/ LeaveDelete(t) \/ Abort(t)
    <3>1. UNCHANGED <<key, participants, left, served>>
      BY <2>4 DEF LeaveEnsure, PrefEnsure, LeaveDelete, Abort, dbVars
    <3>2. \A s \in Task : task'[s].pc = "created" => task'[s] = task[s]
      <4>1. CASE \E u \in Caller, c \in Conv, want \in Want :
                   LeaveEnsure(t, u, c) \/ PrefEnsure(t, u, c, want)
        BY <4>1 DEF LeaveEnsure, PrefEnsure, Begin, Idle, TypeOK
      <4>2. CASE LeaveDelete(t)
        <5>1. \A s \in Task : s # t => task'[s] = task[s]
          BY <4>2 DEF LeaveDelete, TypeOK
        <5>2. task'[t].pc = "leaving"
          BY <4>2 DEF LeaveDelete, TypeOK, Request
        <5> QED
          BY <5>1, <5>2
      <4>3. CASE Abort(t)
        BY <4>3 DEF Abort, End, Idle, TypeOK
      <4> QED
        BY <2>4, <4>1, <4>2, <4>3 DEF Want
    <3> QED
      BY <3>1, <3>2, KeyQuiet, MemberQuiet
  <2>5. CASE PrefLoad(t) \/ PrefCount(t) \/ PrefInsert(t) \/ PrefUpdate(t)
    <3>1. UNCHANGED <<key, participants, left, served>>
      BY <2>5 DEF PrefLoad, PrefCount, PrefInsert, PrefUpdate, dbVars
    <3>2. \A s \in Task : task'[s].pc = "created" => task'[s] = task[s]
      <4>1. CASE PrefLoad(t)
        <5>1. \A s \in Task : s # t => task'[s] = task[s]
          BY <4>1 DEF PrefLoad, TypeOK
        <5>2. task'[t].pc \in {"count", "write"}
          BY <4>1 DEF PrefLoad, TypeOK, Request
        <5> QED
          BY <5>1, <5>2
      <4>2. CASE End(t)
        BY <4>2 DEF End, Idle, TypeOK
      <4>3. CASE Goto(t, "write")
        BY <4>3 DEF Goto, TypeOK
      <4> QED
        BY <2>5, <4>1, <4>2, <4>3 DEF PrefCount, PrefInsert, PrefUpdate
    <3> QED
      BY <3>1, <3>2, KeyQuiet, MemberQuiet
  <2> QED
    BY <1>1, <2>1, <2>2, <2>3, <2>4, <2>5 DEF TaskNext
<1>2. CASE \E u \in Leavers : DeleteAccount(u)
  BY <1>2, AccountKey, CallerAssumption
<1>3. CASE UNCHANGED vars
  BY <1>3, KeyQuiet, MemberQuiet DEF vars, dbVars
<1> QED
  BY <1>1, <1>2, <1>3 DEF Next

LEMMA MembersKnown == Spec => [](TypeOK /\ TaskInv /\ KeyInv /\ MemberInv)
<1> QED
  BY InitType, NextType, InitKey, NextKey, PTL DEF Spec

\* However creates race, abort and repeat, two users are paired in at most one
\* conversation and every answer of create_or_get_conversation names it.
THEOREM PairedOnce == Spec => []OneConversation
<1>1. TypeOK /\ KeyInv /\ MemberInv => OneConversation
  <2> SUFFICES ASSUME TypeOK, KeyInv, MemberInv PROVE OneConversation
    OBVIOUS
  <2>1. ASSUME NEW c \in Created, NEW d \in Created, PairOf(c) = PairOf(d)
        PROVE  c = d
    <3>1. key[c] \in User \X User /\ key[d] \in User \X User
      BY DEF TypeOK, Created
    <3>2. PICK c1 \in User, c2 \in User, d1 \in User, d2 \in User :
            key[c] = <<c1, c2>> /\ key[d] = <<d1, d2>>
      BY <3>1
    <3>3. {c1, c2} = {d1, d2}
      BY <2>1, <3>2 DEF PairOf
    <3>4. Order[c1] < Order[c2] /\ Order[d1] < Order[d2]
      BY <3>2 DEF KeyInv
    <3>5. \A u \in User : Order[u] \in Nat
      BY OrderAssumption
    <3>6. c1 = d1 /\ c2 = d2
      BY <3>3, <3>4, <3>5
    <3> QED
      BY <3>2, <3>6 DEF KeyInv
  <2> QED
    BY <2>1 DEF OneConversation, MemberInv
<1> QED
  BY <1>1, MembersKnown, PTL

\* A conversation has both its participants from the moment it is committed,
\* but for those who left it or deleted their account.
THEOREM BothAreMembers == Spec => []MembersComplete
<1> QED
  BY MembersKnown, PTL DEF MemberInv

------------------------------------------------------------------------------
(* Conversations implements ChatLife. *)

\* Who left a conversation is out of it for good, and a request that is about to
\* leave one found its caller in it.
LeftInv ==
  /\ \A p \in left : key[p[1]] # NoKey /\ p \notin participants
  /\ \A t \in Task : task[t].pc \in {"leave", "leaving"} =>
       <<task[t].conv, task[t].user>> \in participants \cup left

\* Steps that neither add nor remove a participant.
LEMMA LeftQuiet ==
  ASSUME LeftInv, UNCHANGED <<key, participants, left>>,
         \A t \in Task : task'[t].pc \in {"leave", "leaving"} =>
           <<task'[t].conv, task'[t].user>> \in participants \cup left
  PROVE  LeftInv'
BY DEF LeftInv

LEMMA CreateLeft ==
  ASSUME TypeOK, TaskInv, KeyInv, LeftInv, NEW t \in Task,
         \/ \E u \in Caller, o \in User : CreateRead(t, u, o)
         \/ CreateInsert(t) \/ CreateCommit(t)
  PROVE  LeftInv'
<1>1. \A s \in Task : task'[s].pc \in {"leave", "leaving"} =>
        task'[s] = task[s]
  <2>1. CASE End(t) \/ UNCHANGED task
    BY <2>1 DEF End, Idle, TypeOK
  <2>2. CASE \E u \in User, o \in User :
               Begin(t, [Idle EXCEPT !.pc = "insert", !.user = u, !.other = o])
    BY <2>2 DEF Begin, Idle, TypeOK
  <2>3. CASE \E c \in Conv :
               task' = [task EXCEPT ![t].pc = "created", ![t].conv = c]
    <3>1. \A s \in Task : s # t => task'[s] = task[s]
      BY <2>3 DEF TypeOK
    <3>2. task'[t].pc = "created"
      BY <2>3 DEF TypeOK, Request
    <3> QED
      BY <3>1, <3>2
  <2> QED
    BY <2>1, <2>2, <2>3, CallerAssumption
    DEF CreateRead, CreateInsert, CreateCommit, Created
<1>2. CASE UNCHANGED <<key, participants, left>>
  BY <1>1, <1>2, LeftQuiet DEF LeftInv
<1>3. CASE CreateCommit(t)
  <2>1. UNCHANGED left /\ task[t].pc = "created"
    BY <1>3 DEF CreateCommit
  <2>2. PICK c \in Conv : c = task[t].conv
    BY <2>1 DEF TaskInv
  <2>3. key[c] = NoKey
    BY <2>1, <2>2 DEF KeyInv, Created
  <2>4. \A p \in left : p[1] \in Conv /\ p[1] # c
    BY <2>3 DEF LeftInv, TypeOK
  <2>5. /\ \A d \in Conv : d # c => key'[d] = key[d]
        /\ \A p \in participants' : p \in participants \/ p[1] = c
        /\ participants \subseteq participants'
    BY <1>3, <2>2 DEF CreateCommit, NewMembers, TypeOK
  <2>6. \A p \in left' : key'[p[1]] # NoKey /\ p \notin participants'
    BY <2>1, <2>4, <2>5 DEF LeftInv
  <2> QED
    BY <1>1, <2>1, <2>5, <2>6 DEF LeftInv
<1> QED
  BY <1>2, <1>3 DEF CreateRead, CreateInsert, dbVars

LEMMA PrefLeft ==
  ASSUME TypeOK, LeftInv, NEW t \in Task,
         \/ \E u \in Caller, c \in Conv, want \in Want : PrefEnsure(t, u, c, want)
         \/ PrefLoad(t) \/ PrefCount(t) \/ PrefInsert(t) \/ PrefUpdate(t)
         \/ Abort(t)
  PROVE  LeftInv'
<1>1. UNCHANGED <<key, participants, left>>
  BY DEF PrefEnsure, PrefLoad, PrefCount, PrefInsert, PrefUpdate, Abort, dbVars
<1>2. \A s \in Task : s # t => task'[s] = task[s]
  BY DEF PrefEnsure, PrefLoad, PrefCount, PrefInsert, PrefUpdate, Abort, Begin,
         Goto, End, TypeOK
<1>3. task'[t].pc \notin {"leave", "leaving"}
  <2>1. CASE \E u \in Caller, c \in Conv, want \in Want : PrefEnsure(t, u, c, want)
    BY <2>1 DEF PrefEnsure, Begin, Idle, TypeOK
  <2>2. CASE PrefLoad(t)
    BY <2>2 DEF PrefLoad, TypeOK, Request
  <2>3. CASE End(t)
    BY <2>3 DEF End, Idle, TypeOK
  <2>4. CASE Goto(t, "write")
    BY <2>4 DEF Goto, TypeOK, Request
  <2> QED
    BY <2>1, <2>2, <2>3, <2>4 DEF PrefCount, PrefInsert, PrefUpdate, Abort
<1> QED
  BY <1>1, <1>2, <1>3, LeftQuiet DEF LeftInv

LEMMA LeaveLeft ==
  ASSUME TypeOK, TaskInv, LeftInv, NEW t \in Task,
         \/ \E u \in Caller, c \in Conv : LeaveEnsure(t, u, c)
         \/ LeaveDelete(t) \/ LeaveCommit(t)
  PROVE  LeftInv'
<1>1. CASE \E u \in Caller, c \in Conv : LeaveEnsure(t, u, c)
  <2>1. PICK u \in Caller, c \in Conv : LeaveEnsure(t, u, c)
    BY <1>1
  <2>2. UNCHANGED <<key, participants, left>> /\ <<c, u>> \in participants
    BY <2>1 DEF LeaveEnsure, dbVars
  <2>3. /\ \A s \in Task : s # t => task'[s] = task[s]
        /\ task'[t].conv = c /\ task'[t].user = u
    BY <2>1 DEF LeaveEnsure, Begin, Idle, TypeOK
  <2> QED
    BY <2>2, <2>3, LeftQuiet DEF LeftInv
<1>2. CASE LeaveDelete(t)
  <2>1. UNCHANGED <<key, participants, left>> /\ task[t].pc = "leave"
    BY <1>2 DEF LeaveDelete, dbVars
  <2>2. /\ \A s \in Task : s # t => task'[s] = task[s]
        /\ task'[t].conv = task[t].conv /\ task'[t].user = task[t].user
    BY <1>2 DEF LeaveDelete, TypeOK, Request
  <2> QED
    BY <2>1, <2>2, LeftQuiet DEF LeftInv
<1>3. CASE LeaveCommit(t)
  <2>1. PICK p : p = <<task[t].conv, task[t].user>>
    OBVIOUS
  <2>2. /\ task[t].pc = "leaving" /\ End(t) /\ UNCHANGED key
        /\ participants' = participants \ {p}
        /\ left' = left \cup {p}
    BY <1>3, <2>1 DEF LeaveCommit
  <2>3. p \in participants \cup left
    BY <2>1, <2>2 DEF LeftInv
  <2>4. key[p[1]] # NoKey
    BY <2>3 DEF LeftInv, TypeOK
  <2>5. \A q \in left' : key'[q[1]] # NoKey /\ q \notin participants'
    BY <2>2, <2>4 DEF LeftInv
  <2>6. \A s \in Task : task'[s].pc \in {"leave", "leaving"} =>
          task'[s] = task[s]
    BY <2>2 DEF End, Idle, TypeOK
  <2> QED
    BY <2>2, <2>5, <2>6 DEF LeftInv
<1> QED
  BY <1>1, <1>2, <1>3

LEMMA AccountLeft ==
  ASSUME TypeOK, LeftInv, NEW u \in User, DeleteAccount(u)
  PROVE  LeftInv'
<1>1. /\ UNCHANGED <<key, task>>
      /\ participants' = {p \in participants : p[2] # u}
      /\ left' = left \cup {p \in participants : p[2] = u}
  BY DEF DeleteAccount
<1>2. \A p \in participants : key[p[1]] # NoKey
  BY DEF TypeOK
<1> QED
  BY <1>1, <1>2 DEF LeftInv

LEMMA NextLeft ==
  TypeOK /\ TaskInv /\ KeyInv /\ LeftInv /\ [Next]_vars => LeftInv'
<1> SUFFICES ASSUME TypeOK, TaskInv, KeyInv, LeftInv, [Next]_vars PROVE LeftInv'
  OBVIOUS
<1>1. CASE \E t \in Task : TaskNext(t)
  BY <1>1, CreateLeft, PrefLeft, LeaveLeft DEF TaskNext
<1>2. CASE \E u \in Leavers : DeleteAccount(u)
  BY <1>2, AccountLeft, CallerAssumption
<1>3. CASE UNCHANGED vars
  BY <1>3, LeftQuiet DEF vars, dbVars, LeftInv
<1> QED
  BY <1>1, <1>2, <1>3 DEF Next

LEMMA ChatQuiet == UNCHANGED <<key, participants, left>> => UNCHANGED Chats
BY DEF Chats, ChatOf, PairOf

LEMMA InitChat == Init => Chat!ChatInit /\ LeftInv
<1> SUFFICES ASSUME Init PROVE Chat!ChatInit /\ LeftInv
  OBVIOUS
<1>1. LeftInv
  BY DEF Init, LeftInv, Idle
<1>2. ASSUME NEW c \in Conv, c \notin DOMAIN Existing
      PROVE  Chats[c] = Chat!NoChat
  <2>1. key[c] = NoKey /\ left = {} /\ \A u \in User : <<c, u>> \notin participants
    BY <1>2 DEF Init
  <2> QED
    BY <2>1 DEF Chats, ChatOf, Chat!NoChat
<1>3. ASSUME NEW c \in DOMAIN Existing
      PROVE  \E u, o \in User :
               /\ u # o /\ Existing[c] = <<u, o>> /\ Order[u] < Order[o]
               /\ Chats[c] = Chat!Fresh(u, o) /\ Chats[c].pair = {u, o}
  <2>1. PICK u \in User, o \in User :
          Existing[c] = <<u, o>> /\ Order[u] < Order[o]
    BY ExistingAssumption
  <2>2. u # o /\ c \in Conv
    BY <2>1, OrderAssumption, ExistingAssumption
  <2>3. key[c] = <<u, o>> /\ key[c] # NoKey /\ left = {}
    BY <2>1, <2>2, NoneAssumption DEF Init
  <2>4. {v \in User : <<c, v>> \in participants} = {u, o}
    BY <2>1, <2>2 DEF Init
  <2>5. PairOf(c) = {u, o} /\ {v \in User : <<c, v>> \in left} = {}
    BY <2>3 DEF PairOf
  <2>6. ChatOf(c) = Chat!Fresh(u, o)
    BY <2>3, <2>4, <2>5 DEF ChatOf, Chat!Fresh
  <2>7. Chats[c] = Chat!Fresh(u, o)
    BY <2>2, <2>6 DEF Chats
  <2>8. Chats[c].pair = {u, o}
    BY <2>7 DEF Chat!Fresh
  <2> QED
    BY <2>1, <2>2, <2>7, <2>8
<1>4. \A c \in Conv : Chats[c] = Chat!NoChat
        \/ \E u, o \in User : u # o /\ Chats[c] = Chat!Fresh(u, o)
  BY <1>2, <1>3
<1>5. ASSUME NEW c \in Conv, NEW d \in Conv, Chats[c].pair = Chats[d].pair
      PROVE  c = d \/ Chats[c] = Chat!NoChat
  <2>1. CASE c \notin DOMAIN Existing
    BY <1>2, <2>1
  <2>2. CASE c \in DOMAIN Existing /\ d \notin DOMAIN Existing
    <3>1. Chats[d].pair = {}
      BY <1>2, <2>2 DEF Chat!NoChat
    <3>2. Chats[c].pair # {}
      BY <1>3, <2>2
    <3> QED
      BY <1>5, <3>1, <3>2
  <2>3. CASE c \in DOMAIN Existing /\ d \in DOMAIN Existing
    <3>1. PICK c1 \in User, c2 \in User :
            /\ Existing[c] = <<c1, c2>> /\ Order[c1] < Order[c2]
            /\ Chats[c].pair = {c1, c2}
      BY <1>3, <2>3
    <3>2. PICK d1 \in User, d2 \in User :
            /\ Existing[d] = <<d1, d2>> /\ Order[d1] < Order[d2]
            /\ Chats[d].pair = {d1, d2}
      BY <1>3, <2>3
    <3>3. \A u \in User : Order[u] \in Nat
      BY OrderAssumption
    <3>4. {c1, c2} = {d1, d2} /\ Order[c1] < Order[c2] /\ Order[d1] < Order[d2]
      BY <1>5, <3>1, <3>2
    <3>5. c1 = d1 /\ c2 = d2
      BY <3>3, <3>4
    <3> QED
      BY <2>3, <3>1, <3>2, <3>5, ExistingAssumption
  <2> QED
    BY <2>1, <2>2, <2>3
<1>6. served = {}
  BY DEF Init
<1> QED
  BY <1>1, <1>4, <1>5, <1>6 DEF Chat!ChatInit

\* A request that is answered names the conversation of the two it was for.
LEMMA AnswerChat ==
  ASSUME UNCHANGED <<key, participants, left>>, MemberInv',
         NEW u \in User, NEW o \in User, NEW c \in Conv,
         served' = served \cup {<<u, o, c>>}
  PROVE  Chat!ChatNext
<1>1. key[c] # NoKey /\ PairOf(c) = {u, o}
  <2>1. \A s \in served' :
          key[s[3]] # NoKey /\ {key[s[3]][1], key[s[3]][2]} = {s[1], s[2]}
    BY DEF MemberInv, PairOf
  <2>2. PICK a : a = <<u, o, c>>
    OBVIOUS
  <2>3. a \in served' /\ a[1] = u /\ a[2] = o /\ a[3] = c
    BY <2>2
  <2>4. key[a[3]] # NoKey /\ {key[a[3]][1], key[a[3]][2]} = {a[1], a[2]}
    BY <2>1, <2>3
  <2> QED
    BY <2>3, <2>4 DEF PairOf
<1>2. Chats[c].pair = {u, o}
  BY <1>1 DEF Chats, ChatOf
<1>3. Chat!Answer(c, u, o)
  BY <1>2, ChatQuiet DEF Chat!Answer
<1> QED
  BY <1>3 DEF Chat!ChatNext

LEMMA CreateReadChat ==
  ASSUME TypeOK, KeyInv, MemberInv, NEW t \in Task,
         NEW u \in User, NEW o \in User, CreateRead(t, u, o)
  PROVE  Chat!ChatNext \/ UNCHANGED <<Chats, served>>
<1>1. UNCHANGED <<key, participants, left>>
  BY DEF CreateRead, dbVars
<1>2. MemberInv'
  BY CreateReadKey
<1> QED
  BY <1>1, <1>2, AnswerChat, ChatQuiet DEF CreateRead

LEMMA CreateInsertChat ==
  ASSUME TypeOK, TaskInv, KeyInv, MemberInv, NEW t \in Task, CreateInsert(t)
  PROVE  Chat!ChatNext \/ UNCHANGED <<Chats, served>>
<1>1. UNCHANGED <<key, participants, left>> /\ task[t].pc = "insert"
  BY DEF CreateInsert, dbVars
<1>2. MemberInv'
  BY CreateInsertKey
<1>3. task[t].user \in User /\ task[t].other \in User
  BY <1>1 DEF TaskInv
<1> QED
  BY <1>1, <1>2, <1>3, AnswerChat, ChatQuiet DEF CreateInsert

LEMMA CreateCommitChat ==
  ASSUME TypeOK, TaskInv, KeyInv, MemberInv, LeftInv, NEW t \in Task,
         CreateCommit(t)
  PROVE  Chat!ChatNext \/ UNCHANGED <<Chats, served>>
<1>1. UNCHANGED left /\ task[t].pc = "created"
  BY DEF CreateCommit
<1>2. CASE UNCHANGED <<key, participants, served>>
  BY <1>1, <1>2, ChatQuiet
<1>3. CASE /\ key' = [key EXCEPT ![task[t].conv] = TaskKey(t)]
           /\ participants' = participants \cup NewMembers(t)
           /\ served' = served \cup
                {<<task[t].user, task[t].other, task[t].conv>>}
  <2>1. PICK u \in User, o \in User, c \in Conv :
          /\ u = task[t].user /\ o = task[t].other /\ c = task[t].conv
          /\ u # o
    BY <1>1 DEF TaskInv
  <2>2. PICK k \in User \X User :
          /\ k = TaskKey(t) /\ k # NoKey
          /\ {k[1], k[2]} = {u, o} /\ Order[k[1]] < Order[k[2]]
    BY <2>1, DirectKeyFacts DEF TaskKey
  <2>3. /\ key' = [key EXCEPT ![c] = k]
        /\ participants' = participants \cup {<<c, u>>, <<c, o>>}
        /\ served' = served \cup {<<u, o, c>>}
    BY <1>3, <2>1, <2>2 DEF NewMembers
  <2>4. key[c] = NoKey /\ \A d \in Created : key[d] # k
    BY <1>1, <2>1, <2>2 DEF KeyInv, Created
  <2>5. \A v \in User : <<c, v>> \notin participants /\ <<c, v>> \notin left
    BY <2>4 DEF TypeOK, LeftInv
  <2>6. Chats[c] = Chat!NoChat
    BY <2>4, <2>5 DEF Chats, ChatOf, Chat!NoChat
  <2>7. ASSUME NEW d \in Conv PROVE Chats[d].pair # {u, o}
    <3>1. CASE key[d] = NoKey
      BY <3>1 DEF Chats, ChatOf
    <3>2. CASE key[d] # NoKey
      <4>1. d \in Created /\ key[d] \in User \X User
        BY <3>2 DEF Created, TypeOK
      <4>2. PICK d1 \in User, d2 \in User : key[d] = <<d1, d2>>
        BY <4>1
      <4>3. PICK k1 \in User, k2 \in User : k = <<k1, k2>>
        BY <2>2
      <4>4. Order[d1] < Order[d2] /\ Order[k1] < Order[k2]
        BY <2>2, <4>1, <4>2, <4>3 DEF KeyInv
      <4>5. \A v \in User : Order[v] \in Nat
        BY OrderAssumption
      <4>6. ~(d1 = k1 /\ d2 = k2)
        BY <2>4, <4>1, <4>2, <4>3
      <4>7. {d1, d2} # {k1, k2}
        BY <4>4, <4>5, <4>6
      <4>8. Chats[d].pair = {d1, d2}
        BY <3>2, <4>2 DEF Chats, ChatOf, PairOf
      <4> QED
        BY <2>2, <4>3, <4>7, <4>8
    <3> QED
      BY <3>1, <3>2
  <2>8. ChatOf(c)' = Chat!Fresh(u, o)
    <3>1. key'[c] = k
      BY <2>3 DEF TypeOK
    <3>2. PairOf(c)' = {u, o}
      BY <2>2, <3>1 DEF PairOf
    <3>3. {v \in User : <<c, v>> \in participants'} = {u, o}
      BY <2>3, <2>5
    <3>4. {v \in User : <<c, v>> \in left'} = {}
      BY <1>1, <2>5
    <3> QED
      BY <2>2, <3>1, <3>2, <3>3, <3>4 DEF ChatOf, Chat!Fresh
  <2>9. ASSUME NEW d \in Conv, d # c PROVE ChatOf(d)' = ChatOf(d)
    <3>1. key'[d] = key[d] /\ PairOf(d)' = PairOf(d)
      BY <2>3, <2>9 DEF PairOf, TypeOK
    <3>2. \A v \in User : <<d, v>> \in participants' <=> <<d, v>> \in participants
      BY <2>3, <2>9
    <3> QED
      BY <1>1, <3>1, <3>2 DEF ChatOf
  <2>10. Chats' = [Chats EXCEPT ![c] = Chat!Fresh(u, o)]
    BY <2>8, <2>9 DEF Chats
  <2>11. Chat!Found(c, u, o)
    BY <2>1, <2>3, <2>6, <2>7, <2>10 DEF Chat!Found
  <2> QED
    BY <2>11 DEF Chat!ChatNext
<1> QED
  BY <1>2, <1>3 DEF CreateCommit, TaskKey

LEMMA LeaveCommitChat ==
  ASSUME TypeOK, TaskInv, LeftInv, NEW t \in Task, LeaveCommit(t)
  PROVE  Chat!ChatNext \/ UNCHANGED <<Chats, served>>
<1>1. task[t].pc = "leaving" /\ UNCHANGED <<key, served>>
  BY DEF LeaveCommit
<1>2. PICK u \in User, c \in Conv : u = task[t].user /\ c = task[t].conv
  BY <1>1 DEF TaskInv
<1>3. /\ participants' = participants \ {<<c, u>>}
      /\ left' = left \cup {<<c, u>>}
      /\ <<c, u>> \in participants \cup left
  BY <1>1, <1>2 DEF LeaveCommit, LeftInv
<1>4. CASE <<c, u>> \notin participants
  BY <1>1, <1>3, <1>4, ChatQuiet
<1>5. CASE <<c, u>> \in participants
  <2>1. ChatOf(c)' = Chat!Departed(ChatOf(c), u)
    <3>1. PairOf(c)' = PairOf(c) /\ key'[c] = key[c]
      BY <1>1 DEF PairOf
    <3>2. {v \in User : <<c, v>> \in participants'}
            = {v \in User : <<c, v>> \in participants} \ {u}
      BY <1>3
    <3>3. {v \in User : <<c, v>> \in left'}
            = {v \in User : <<c, v>> \in left}
                \cup ({v \in User : <<c, v>> \in participants} \cap {u})
      BY <1>3, <1>5
    <3> QED
      BY <3>1, <3>2, <3>3 DEF ChatOf, Chat!Departed
  <2>2. ASSUME NEW d \in Conv, d # c PROVE ChatOf(d)' = ChatOf(d)
    <3>1. key'[d] = key[d] /\ PairOf(d)' = PairOf(d)
      BY <1>1 DEF PairOf
    <3>2. \A v \in User : /\ <<d, v>> \in participants' <=> <<d, v>> \in participants
                          /\ <<d, v>> \in left' <=> <<d, v>> \in left
      BY <1>3, <2>2
    <3> QED
      BY <3>1, <3>2 DEF ChatOf
  <2>3. Chats' = [Chats EXCEPT ![c] = Chat!Departed(Chats[c], u)]
    BY <2>1, <2>2 DEF Chats
  <2>4. u \in Chats[c].members
    BY <1>5 DEF Chats, ChatOf
  <2>5. Chat!Leave(c, u)
    BY <1>1, <2>3, <2>4 DEF Chat!Leave
  <2> QED
    BY <2>5 DEF Chat!ChatNext
<1> QED
  BY <1>4, <1>5

LEMMA AccountChat ==
  ASSUME TypeOK, NEW u \in User, DeleteAccount(u)
  PROVE  Chat!ChatNext
<1>1. /\ UNCHANGED <<key, served>>
      /\ participants' = {p \in participants : p[2] # u}
      /\ left' = left \cup {p \in participants : p[2] = u}
  BY DEF DeleteAccount
<1>2. ASSUME NEW c \in Conv
      PROVE  ChatOf(c)' = Chat!Departed(ChatOf(c), u)
  <2>1. PairOf(c)' = PairOf(c) /\ key'[c] = key[c]
    BY <1>1 DEF PairOf
  <2>2. {v \in User : <<c, v>> \in participants'}
          = {v \in User : <<c, v>> \in participants} \ {u}
    BY <1>1
  <2>3. {v \in User : <<c, v>> \in left'}
          = {v \in User : <<c, v>> \in left}
              \cup ({v \in User : <<c, v>> \in participants} \cap {u})
    BY <1>1
  <2> QED
    BY <2>1, <2>2, <2>3 DEF ChatOf, Chat!Departed
<1>3. Chats' = [c \in Conv |-> Chat!Departed(Chats[c], u)]
  BY <1>2 DEF Chats
<1>4. Chat!Erase(u)
  BY <1>1, <1>3 DEF Chat!Erase
<1> QED
  BY <1>4 DEF Chat!ChatNext

LEMMA NextChat ==
  TypeOK /\ TaskInv /\ KeyInv /\ MemberInv /\ LeftInv /\ [Next]_vars
    => [Chat!ChatNext]_<<Chats, served>>
<1> SUFFICES ASSUME TypeOK, TaskInv, KeyInv, MemberInv, LeftInv, [Next]_vars
             PROVE  Chat!ChatNext \/ UNCHANGED <<Chats, served>>
  OBVIOUS
<1>1. ASSUME NEW t \in Task, TaskNext(t)
      PROVE  Chat!ChatNext \/ UNCHANGED <<Chats, served>>
  <2>1. CASE \E u \in Caller, o \in User : CreateRead(t, u, o)
    BY <2>1, CreateReadChat, CallerAssumption
  <2>2. CASE CreateInsert(t)
    BY <2>2, CreateInsertChat
  <2>3. CASE CreateCommit(t)
    BY <2>3, CreateCommitChat
  <2>4. CASE LeaveCommit(t)
    BY <2>4, LeaveCommitChat
  <2>5. CASE \/ \E u \in Caller, c \in Conv :
                  LeaveEnsure(t, u, c) \/ \E want \in Want : PrefEnsure(t, u, c, want)
             \/ PrefLoad(t) \/ PrefCount(t) \/ PrefInsert(t) \/ PrefUpdate(t)
             \/ LeaveDelete(t) \/ Abort(t)
    <3>1. UNCHANGED <<key, participants, left, served>>
      BY <2>5 DEF LeaveEnsure, PrefEnsure, PrefLoad, PrefCount, PrefInsert,
                  PrefUpdate, LeaveDelete, Abort, dbVars
    <3> QED
      BY <3>1, ChatQuiet
  <2> QED
    BY <1>1, <2>1, <2>2, <2>3, <2>4, <2>5 DEF TaskNext
<1>2. CASE \E u \in Leavers : DeleteAccount(u)
  BY <1>2, AccountChat, CallerAssumption
<1>3. CASE UNCHANGED vars
  BY <1>3, ChatQuiet DEF vars, dbVars
<1> QED
  BY <1>1, <1>2, <1>3 DEF Next

\* Conversations implements ChatLife: every step of a create, a leave, a preference
\* request or an account deletion is one of its steps or changes nothing it sees.
THEOREM ChatsImplemented == Spec => ChatSpec
<1>1. Init => TypeOK /\ TaskInv /\ KeyInv /\ MemberInv /\ LeftInv /\ Chat!ChatInit
  BY InitType, InitKey, InitChat
<1>2. TypeOK /\ TaskInv /\ KeyInv /\ MemberInv /\ LeftInv /\ [Next]_vars
        => (TypeOK /\ TaskInv /\ KeyInv /\ MemberInv /\ LeftInv)'
  BY NextType, NextKey, NextLeft
<1>3. TypeOK /\ TaskInv /\ KeyInv /\ MemberInv /\ LeftInv /\ [Next]_vars
        => [Chat!ChatNext]_<<Chats, served>>
  BY NextChat
<1> QED
  BY <1>1, <1>2, <1>3, PTL DEF Spec, ChatSpec, Chat!ChatLifeSpec

------------------------------------------------------------------------------
(* Pins: a request that has counted fewer pins than the limit and has not    *)
(* written yet will add one, whatever the others have written since.         *)

Counted(u) == {t \in Task : /\ task[t].pc = "write" /\ task[t].user = u
                            /\ task[t].want = "pin" /\ task[t].seen # "pinned"}

PinInv ==
  \A u \in User : Cardinality(Pinned(u)) + Cardinality(Counted(u))
                    <= PinLimit + Cardinality(Task) - 1

LEMMA PinFinite ==
  ASSUME NEW u
  PROVE  /\ IsFiniteSet(Pinned(u)) /\ Cardinality(Pinned(u)) \in Nat
         /\ IsFiniteSet(Counted(u)) /\ Cardinality(Counted(u)) \in Nat
<1>1. Pinned(u) \subseteq Conv /\ Counted(u) \subseteq Task
  BY DEF Pinned, Counted
<1> QED
  BY <1>1, FiniteAssumption, FS_Subset, FS_CardinalityType

\* Unpinning, leaving and giving up never exceed the bound.
LEMMA FewerPins ==
  ASSUME PinInv, NEW u \in User, NEW P, NEW C,
         P \subseteq Pinned(u), C \subseteq Counted(u)
  PROVE  Cardinality(P) + Cardinality(C) <= PinLimit + Cardinality(Task) - 1
<1>1. /\ Cardinality(P) \in Nat /\ Cardinality(P) <= Cardinality(Pinned(u))
      /\ Cardinality(C) \in Nat /\ Cardinality(C) <= Cardinality(Counted(u))
  BY PinFinite, FS_Subset, FS_CardinalityType
<1>2. Cardinality(Task) \in Nat /\ PinLimit \in Nat
  BY FiniteAssumption, PinLimitAssumption, FS_CardinalityType
<1> QED
  BY <1>1, <1>2, PinFinite DEF PinInv

LEMMA InitPin == Init => PinInv
<1> SUFFICES ASSUME Init, NEW u \in User
             PROVE  Cardinality(Pinned(u)) + Cardinality(Counted(u))
                      <= PinLimit + Cardinality(Task) - 1
  BY DEF PinInv
<1>1. Pinned(u) = {} /\ Counted(u) = {}
  BY DEF Init, Pinned, Counted, Idle
<1>2. Cardinality(Task) \in Nat /\ Cardinality(Task) # 0
  BY FiniteAssumption, FS_CardinalityType, FS_EmptySet
<1> QED
  BY <1>1, <1>2, FS_EmptySet, PinLimitAssumption

\* Steps that pin nothing and let no request past the count.
LEMMA PinQuiet ==
  ASSUME PinInv,
         \A p \in User \X Conv : pref'[p] = "pinned" => pref[p] = "pinned",
         \A t \in Task : task'[t].pc = "write" /\ task'[t].want = "pin"
                           /\ task'[t].seen # "pinned" => task'[t] = task[t]
  PROVE  PinInv'
<1> SUFFICES ASSUME NEW u \in User
             PROVE  Cardinality(Pinned(u)') + Cardinality(Counted(u)')
                      <= PinLimit + Cardinality(Task) - 1
  BY DEF PinInv
<1>1. Pinned(u)' \subseteq Pinned(u) /\ Counted(u)' \subseteq Counted(u)
  BY DEF Pinned, Counted
<1> QED
  BY <1>1, FewerPins

\* A request passes the count only below the limit.
LEMMA CountPin ==
  ASSUME TypeOK, PinInv, NEW t \in Task, PrefCount(t)
  PROVE  PinInv'
<1>1. UNCHANGED pref /\ task[t].pc = "count"
  BY DEF PrefCount, dbVars
<1>2. CASE End(t)
  BY <1>1, <1>2, PinQuiet DEF End, TypeOK, Idle
<1>3. CASE Goto(t, "write") /\ ~LimitReached(task[t].user)
  <2> SUFFICES ASSUME NEW u \in User
               PROVE  Cardinality(Pinned(u)') + Cardinality(Counted(u)')
                        <= PinLimit + Cardinality(Task) - 1
    BY DEF PinInv
  <2>1. Pinned(u)' = Pinned(u)
    BY <1>1 DEF Pinned
  <2>2. CASE u = task[t].user
    <3>1. Cardinality(Pinned(u)) < PinLimit /\ Cardinality(Pinned(u)) \in Nat
      BY <1>3, <2>2, PinFinite, PinLimitAssumption DEF LimitReached
    <3>2. Counted(u)' \subseteq Task
      BY DEF Counted
    <3>3. /\ Cardinality(Counted(u)') <= Cardinality(Task)
          /\ Cardinality(Counted(u)') \in Nat /\ Cardinality(Task) \in Nat
      BY <3>2, FiniteAssumption, FS_Subset, FS_CardinalityType
    <3> QED
      BY <2>1, <3>1, <3>3, PinLimitAssumption
  <2>3. CASE u # task[t].user
    <3>1. \A s \in Task : task'[s].user = task[s].user /\ (s # t => task'[s] = task[s])
      BY <1>3 DEF Goto, TypeOK
    <3>2. Counted(u)' \subseteq Counted(u)
      BY <2>3, <3>1 DEF Counted
    <3> QED
      BY <2>1, <3>2, FewerPins
  <2> QED
    BY <2>2, <2>3
<1> QED
  BY <1>2, <1>3 DEF PrefCount

\* A write pins what was not pinned only for a request that was counted, and
\* that request is over.
LEMMA WritePin ==
  ASSUME TypeOK, TaskInv, PinInv, NEW t \in Task, PrefInsert(t) \/ PrefUpdate(t)
  PROVE  PinInv'
<1>1. task[t].pc = "write" /\ End(t)
  BY DEF PrefInsert, PrefUpdate
<1>2. /\ task[t].user \in User /\ task[t].conv \in Conv
      /\ task[t].want \in Want /\ task[t].seen \in Pref
  BY <1>1 DEF TaskInv, TypeOK, Request
<1>3. \A s \in Task : task'[s].pc = "write" => s # t /\ task'[s] = task[s]
  BY <1>1 DEF End, TypeOK, Idle
<1>4. \/ pref' = pref
      \/ /\ pref' = [pref EXCEPT ![<<task[t].user, task[t].conv>>] = Value(t)]
         /\ task[t].seen = "none" \/ Value(t) # task[t].seen
  BY DEF PrefInsert, PrefUpdate
<1>5. CASE \A p \in User \X Conv : pref'[p] = "pinned" => pref[p] = "pinned"
  BY <1>3, <1>5, PinQuiet
<1>6. CASE \E p \in User \X Conv : pref'[p] = "pinned" /\ pref[p] # "pinned"
  <2>1. /\ pref' = [pref EXCEPT ![<<task[t].user, task[t].conv>>] = Value(t)]
        /\ task[t].seen = "none" \/ Value(t) # task[t].seen
        /\ Value(t) = "pinned"
    BY <1>4, <1>6 DEF TypeOK
  <2>2. task[t].want = "pin" /\ task[t].seen # "pinned"
    BY <1>2, <2>1 DEF Value, Want
  <2> SUFFICES ASSUME NEW u \in User
               PROVE  Cardinality(Pinned(u)') + Cardinality(Counted(u)')
                        <= PinLimit + Cardinality(Task) - 1
    BY DEF PinInv
  <2>3. CASE u = task[t].user
    <3>1. t \in Counted(u) /\ Counted(u)' \subseteq Counted(u) \ {t}
      BY <1>1, <1>3, <2>2, <2>3 DEF Counted
    <3>2. Pinned(u)' \subseteq Pinned(u) \cup {task[t].conv}
      BY <2>1, <2>3 DEF Pinned, TypeOK
    <3>3. /\ IsFiniteSet(Counted(u) \ {t})
          /\ Cardinality(Counted(u) \ {t}) = Cardinality(Counted(u)) - 1
      BY <3>1, PinFinite, FS_RemoveElement
    <3>4. /\ IsFiniteSet(Pinned(u) \cup {task[t].conv})
          /\ Cardinality(Pinned(u) \cup {task[t].conv}) \in Nat
          /\ Cardinality(Pinned(u) \cup {task[t].conv})
               <= Cardinality(Pinned(u)) + 1
      <4>1. /\ IsFiniteSet(Pinned(u) \cup {task[t].conv})
            /\ \/ Cardinality(Pinned(u) \cup {task[t].conv})
                    = Cardinality(Pinned(u))
               \/ Cardinality(Pinned(u) \cup {task[t].conv})
                    = Cardinality(Pinned(u)) + 1
        BY PinFinite, FS_AddElement
      <4> QED
        BY <4>1, PinFinite
    <3>5. /\ Cardinality(Counted(u)') \in Nat
          /\ Cardinality(Counted(u)') <= Cardinality(Counted(u) \ {t})
      BY <3>1, <3>3, FS_Subset, FS_CardinalityType
    <3>6. /\ Cardinality(Pinned(u)') \in Nat
          /\ Cardinality(Pinned(u)')
               <= Cardinality(Pinned(u) \cup {task[t].conv})
      BY <3>2, <3>4, FS_Subset, FS_CardinalityType
    <3>7. /\ Cardinality(Task) \in Nat /\ PinLimit \in Nat
          /\ Cardinality(Pinned(u)) \in Nat /\ Cardinality(Counted(u)) \in Nat
      BY FiniteAssumption, PinLimitAssumption, PinFinite, FS_CardinalityType
    <3> QED
      BY <3>3, <3>4, <3>5, <3>6, <3>7 DEF PinInv
  <2>4. CASE u # task[t].user
    <3>1. Pinned(u)' \subseteq Pinned(u)
      BY <2>1, <2>4 DEF Pinned, TypeOK
    <3>2. Counted(u)' \subseteq Counted(u)
      BY <1>3 DEF Counted
    <3> QED
      BY <3>1, <3>2, FewerPins
  <2> QED
    BY <2>3, <2>4
<1> QED
  BY <1>5, <1>6

LEMMA NextPin == TypeOK /\ TaskInv /\ PinInv /\ [Next]_vars => PinInv'
<1> SUFFICES ASSUME TypeOK, TaskInv, PinInv, [Next]_vars PROVE PinInv'
  OBVIOUS
<1>1. ASSUME NEW t \in Task, TaskNext(t)
      PROVE  PinInv'
  <2>1. CASE PrefCount(t)
    BY <2>1, CountPin
  <2>2. CASE PrefInsert(t) \/ PrefUpdate(t)
    BY <2>2, WritePin
  <2>3. CASE \E u \in Caller, o \in User : CreateRead(t, u, o)
    <3>1. UNCHANGED pref
      BY <2>3 DEF CreateRead, dbVars
    <3>2. \A s \in Task : task'[s].pc = "write" => task'[s] = task[s]
      BY <2>3 DEF CreateRead, Begin, Idle, TypeOK
    <3> QED
      BY <3>1, <3>2, PinQuiet
  <2>4. CASE \E u \in Caller, c \in Conv, want \in Want :
               LeaveEnsure(t, u, c) \/ PrefEnsure(t, u, c, want)
    BY <2>4, PinQuiet DEF LeaveEnsure, PrefEnsure, Begin, Idle, TypeOK, dbVars
  <2>5. CASE CreateInsert(t)
    <3>1. UNCHANGED pref
      BY <2>5 DEF CreateInsert, dbVars
    <3>2. CASE End(t)
      BY <3>1, <3>2, PinQuiet DEF End, Idle, TypeOK
    <3>3. CASE \E c \in Conv :
                 task' = [task EXCEPT ![t].pc = "created", ![t].conv = c]
      <4>1. \A s \in Task : s # t => task'[s] = task[s]
        BY <3>3 DEF TypeOK
      <4>2. task'[t].pc = "created"
        BY <3>3 DEF TypeOK, Request
      <4> QED
        BY <3>1, <4>1, <4>2, PinQuiet
    <3> QED
      BY <2>5, <3>2, <3>3 DEF CreateInsert
  <2>6. CASE CreateCommit(t) \/ Abort(t)
    BY <2>6, PinQuiet DEF CreateCommit, Abort, End, Idle, TypeOK, dbVars
  <2>7. CASE PrefLoad(t)
    <3>1. UNCHANGED pref
      BY <2>7 DEF PrefLoad, dbVars
    <3>2. \A s \in Task : s # t => task'[s] = task[s]
      BY <2>7 DEF PrefLoad, TypeOK
    <3>3. task'[t].pc = "write" /\ task'[t].want = "pin" => task'[t].seen = "pinned"
      BY <2>7 DEF PrefLoad, TypeOK, Request
    <3> QED
      BY <3>1, <3>2, <3>3, PinQuiet
  <2>8. CASE LeaveDelete(t)
    <3>1. UNCHANGED pref
      BY <2>8 DEF LeaveDelete, dbVars
    <3>2. \A s \in Task : s # t => task'[s] = task[s]
      BY <2>8 DEF LeaveDelete, TypeOK
    <3>3. task'[t].pc = "leaving"
      BY <2>8 DEF LeaveDelete, TypeOK, Request
    <3> QED
      BY <3>1, <3>2, <3>3, PinQuiet
  <2>9. CASE LeaveCommit(t)
    <3>1. \A p \in User \X Conv : pref'[p] = "pinned" => pref[p] = "pinned"
      BY <2>9 DEF LeaveCommit, TypeOK
    <3>2. \A s \in Task : task'[s].pc = "write" => task'[s] = task[s]
      BY <2>9 DEF LeaveCommit, End, Idle, TypeOK
    <3> QED
      BY <3>1, <3>2, PinQuiet
  <2> QED
    BY <1>1, <2>1, <2>2, <2>3, <2>4, <2>5, <2>6, <2>7, <2>8, <2>9
    DEF TaskNext, Want
<1>2. CASE \E u \in Leavers : DeleteAccount(u)
  BY <1>2, PinQuiet DEF DeleteAccount
<1>3. CASE UNCHANGED vars
  BY <1>3, PinQuiet DEF vars, dbVars
<1> QED
  BY <1>1, <1>2, <1>3 DEF Next

\* However many pins race, the limit is exceeded by at most one pin for each
\* other request in flight (update_conversation_prefs).
THEOREM PinsBounded == Spec => []PinBound
<1>1. PinInv => PinBound
  <2> SUFFICES ASSUME PinInv, NEW u \in User
               PROVE  Cardinality(Pinned(u)) <= PinLimit + Cardinality(Task) - 1
    BY DEF PinBound
  <2>1. Cardinality(Task) \in Nat /\ PinLimit \in Nat
    BY FiniteAssumption, PinLimitAssumption, FS_CardinalityType
  <2> QED
    BY <2>1, PinFinite DEF PinInv
<1> QED
  BY <1>1, InitType, NextType, InitPin, NextPin, PTL DEF Spec
==============================================================================
