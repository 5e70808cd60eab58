---------------------------- MODULE Conversations ----------------------------
(***************************************************************************)
(* The direct conversations of the messenger, their participants and the   *)
(* per-user preferences (app/api/v1/endpoints/conversations.py): create or *)
(* get a conversation, leave it, pin it.  Each request runs as a task of   *)
(* its own, one transaction per task; a step is what runs between two      *)
(* awaits that another request can interleave with.  Only the unique keys  *)
(* and the foreign keys of the database order the requests.                *)
(***************************************************************************)
EXTENDS Integers, FiniteSets

CONSTANTS
  User,      \* accounts
  Order,     \* Order[u]: the place of u's uuid in string order
  Conv,      \* conversation ids (uuid4, never drawn twice)
  Existing,  \* the conversations there are: from ids to their direct keys
  Task,      \* requests in flight at the same time
  Caller,    \* users who send requests
  Leavers,   \* users who may delete their account
  PinLimit,  \* PIN_LIMIT
  NoUser, NoConv, NoKey

ASSUME OrderAssumption ==
  /\ Order \in [User -> Nat]
  /\ \A u, o \in User : Order[u] = Order[o] => u = o
ASSUME ExistingAssumption ==
  /\ DOMAIN Existing \subseteq Conv
  /\ \A c \in DOMAIN Existing :
       Existing[c] \in User \X User /\ Order[Existing[c][1]] < Order[Existing[c][2]]
  /\ \A c, d \in DOMAIN Existing : Existing[c] = Existing[d] => c = d
ASSUME CallerAssumption == Caller \subseteq User /\ Leavers \subseteq User
ASSUME PinLimitAssumption == PinLimit \in Nat
ASSUME NoneAssumption ==
  NoUser \notin User /\ NoConv \notin Conv /\ NoKey \notin User \X User
ASSUME FiniteAssumption == IsFiniteSet(Conv) /\ IsFiniteSet(Task) /\ Task # {}

VARIABLES
  users,         \* accounts that exist
  key,           \* key[c]: conversations.direct_key, NoKey: no such row
  participants,  \* conversation_participants: <<conversation, user>>
  pref,          \* conversation_prefs: the row of <<user, conversation>>
  task,          \* the requests in flight
  \* History variables; no action reads them.
  left,          \* <<c, u>>: u left c, or deleted the account
  served         \* <<u, o, c>>: a create of u with o was answered with c

dbVars == <<users, key, participants, pref>>
vars   == <<dbVars, task, left, served>>

------------------------------------------------------------------------------
Pref == {"none", "plain", "pinned"}   \* no row, a row not pinned, a pinned row
Want == {"pin", "unpin", "other"}     \* other: mute or mark unread only

Request == [pc : {"idle", "insert", "created", "load", "count", "write",
                  "leave", "leaving"},
            user : User \cup {NoUser}, other : User \cup {NoUser},
            conv : Conv \cup {NoConv}, want : Want, seen : Pref]

Idle == [pc |-> "idle", user |-> NoUser, other |-> NoUser, conv |-> NoConv,
         want |-> "other", seen |-> "none"]

\* The types, and the foreign keys.
TypeOK ==
  /\ users \subseteq User
  /\ key \in [Conv -> (User \X User) \cup {NoKey}]
  /\ participants \subseteq {p \in Conv \X users : key[p[1]] # NoKey}
  /\ pref \in [User \X Conv -> Pref]
  /\ \A p \in User \X Conv : pref[p] # "none" => p[1] \in users
  /\ task \in [Task -> Request]
  /\ left \subseteq Conv \X User
  /\ served \subseteq User \X User \X Conv

Init ==
  /\ users = User
  /\ key = [c \in Conv |-> IF c \in DOMAIN Existing THEN Existing[c] ELSE NoKey]
  /\ participants = {p \in (DOMAIN Existing) \X User :
                       \E i \in {1, 2} : Existing[p[1]][i] = p[2]}
  /\ pref = [p \in User \X Conv |-> "none"]
  /\ task = [t \in Task |-> Idle]
  /\ left = {}
  /\ served = {}

------------------------------------------------------------------------------
\* direct_key: the two ids in string order.  (Mutant: in the order of the
\* request.)
UnsortedKey(u, o) == <<u, o>>
DirectKey(u, o) == IF Order[u] < Order[o] THEN <<u, o>> ELSE <<o, u>>

PairOf(c) == {key[c][1], key[c][2]}
Created == {c \in Conv : key[c] # NoKey}

\* The two rows a create inserts.  (Mutant: the caller's only.)
CallerOnly(t) == {<<task[t].conv, task[t].user>>}
NewMembers(t) == {<<task[t].conv, task[t].user>>, <<task[t].conv, task[t].other>>}

\* The foreign keys of those rows.  (Mutant: the other's is not declared.)
CallerExists(t) == task[t].user \in users
BothExist(t) == {task[t].user, task[t].other} \subseteq users

Pinned(u) == {c \in Conv : pref[<<u, c>>] = "pinned"}

\* The pin limit is reached.  (Mutant: off by one.)
PastLimit(u) == Cardinality(Pinned(u)) > PinLimit
LimitReached(u) == Cardinality(Pinned(u)) >= PinLimit

\* What a preference request wants is_pinned to be.
Value(t) == CASE task[t].want = "pin"   -> "pinned"
              [] task[t].want = "unpin" -> "plain"
              [] task[t].want = "other" ->
                   IF task[t].seen = "none" THEN "plain" ELSE task[t].seen

Begin(t, r) == task[t].pc = "idle" /\ task' = [task EXCEPT ![t] = r]
Goto(t, pc) == task' = [task EXCEPT ![t].pc = pc]
End(t) == task' = [task EXCEPT ![t] = Idle]

------------------------------------------------------------------------------
(* create_or_get_conversation. *)

\* The other user and, if there is one, a conversation both take part in.
CreateRead(t, u, o) ==
  LET both == {c \in Conv : {<<c, u>>, <<c, o>>} \subseteq participants}
  IN  /\ u # o /\ {u, o} \subseteq users
      /\ task[t].pc = "idle"
      /\ \/ /\ both = {}
            /\ Begin(t, [Idle EXCEPT !.pc = "insert", !.user = u, !.other = o])
            /\ UNCHANGED served
         \/ \E c \in both :
              /\ served' = served \cup {<<u, o, c>>}
              /\ UNCHANGED task
      /\ UNCHANGED <<dbVars, left>>

\* The flush of the new row.  The unique index makes it wait for an uncommitted
\* insert of the same key; if the key is taken, the transaction is rolled back
\* and the row that has it is the answer.
CreateInsert(t) ==
  LET k == DirectKey(task[t].user, task[t].other)
      uncommitted == {s \in Task : task[s].pc = "created"}
  IN  /\ task[t].pc = "insert"
      /\ \A s \in uncommitted : DirectKey(task[s].user, task[s].other) # k
      /\ \/ \E c \in Conv :
              /\ key[c] = k
              /\ served' = served \cup {<<task[t].user, task[t].other, c>>}
              /\ End(t)
         \/ \E c \in Conv \ Created :
              /\ \A d \in Conv : key[d] # k
              /\ \A s \in uncommitted : task[s].conv # c
              /\ task' = [task EXCEPT ![t].pc = "created", ![t].conv = c]
              /\ UNCHANGED served
      /\ UNCHANGED <<dbVars, left>>

\* The participants are inserted and everything commits, unless an account went.
CreateCommit(t) ==
  /\ task[t].pc = "created"
  /\ \/ /\ BothExist(t)
        /\ key' = [key EXCEPT ![task[t].conv] =
                     DirectKey(task[t].user, task[t].other)]
        /\ participants' = participants \cup NewMembers(t)
        /\ served' = served \cup {<<task[t].user, task[t].other, task[t].conv>>}
     \/ /\ ~BothExist(t)
        /\ UNCHANGED <<key, participants, served>>
  /\ End(t)
  /\ UNCHANGED <<users, pref, left>>

------------------------------------------------------------------------------
(* update_conversation_prefs. *)

PrefEnsure(t, u, c, want) ==
  /\ u \in users /\ <<c, u>> \in participants
  /\ Begin(t, [Idle EXCEPT !.pc = "load", !.user = u, !.conv = c, !.want = want])
  /\ UNCHANGED <<dbVars, left, served>>

\* Only a pin of what was not pinned is counted.
PrefLoad(t) ==
  LET seen == pref[<<task[t].user, task[t].conv>>]
  IN  /\ task[t].pc = "load"
      /\ task' = [task EXCEPT ![t].seen = seen,
                    ![t].pc = IF task[t].want = "pin" /\ seen # "pinned"
                              THEN "count" ELSE "write"]
      /\ UNCHANGED <<dbVars, left, served>>

PrefCount(t) ==
  /\ task[t].pc = "count"
  /\ IF LimitReached(task[t].user) THEN End(t) ELSE Goto(t, "write")
  /\ UNCHANGED <<dbVars, left, served>>

\* No row was found: INSERT, refused if there is one by now or the account went.
PrefInsert(t) ==
  LET p == <<task[t].user, task[t].conv>>
  IN  /\ task[t].pc = "write" /\ task[t].seen = "none"
      /\ pref' = IF pref[p] = "none" /\ task[t].user \in users
                 THEN [pref EXCEPT ![p] = Value(t)] ELSE pref
      /\ End(t)
      /\ UNCHANGED <<users, key, participants, left, served>>

\* A row was found: UPDATE of what changed since; an error if the row is gone.
PrefUpdate(t) ==
  LET p == <<task[t].user, task[t].conv>>
  IN  /\ task[t].pc = "write" /\ task[t].seen # "none"
      /\ pref' = IF pref[p] # "none" /\ Value(t) # task[t].seen
                 THEN [pref EXCEPT ![p] = Value(t)] ELSE pref
      /\ End(t)
      /\ UNCHANGED <<users, key, participants, left, served>>

------------------------------------------------------------------------------
(* leave_conversation. *)

LeaveEnsure(t, u, c) ==
  /\ u \in users /\ <<c, u>> \in participants
  /\ Begin(t, [Idle EXCEPT !.pc = "leave", !.user = u, !.conv = c])
  /\ UNCHANGED <<dbVars, left, served>>

\* The participant row is deleted, not yet committed; the pref row is looked for.
LeaveDelete(t) ==
  /\ task[t].pc = "leave"
  /\ task' = [task EXCEPT ![t].pc = "leaving",
                          ![t].seen = pref[<<task[t].user, task[t].conv>>]]
  /\ UNCHANGED <<dbVars, left, served>>

LeaveCommit(t) ==
  LET p == <<task[t].user, task[t].conv>>
  IN  /\ task[t].pc = "leaving"
      /\ participants' = participants \ {<<task[t].conv, task[t].user>>}
      /\ pref' = IF task[t].seen # "none" THEN [pref EXCEPT ![p] = "none"] ELSE pref
      /\ left' = left \cup {<<task[t].conv, task[t].user>>}
      /\ End(t)
      /\ UNCHANGED <<users, key, served>>

------------------------------------------------------------------------------
\* A database error or a stopped worker: the transaction rolls back.
Abort(t) ==
  /\ task[t].pc # "idle"
  /\ End(t)
  /\ UNCHANGED <<dbVars, left, served>>

\* delete_user_by_id: DELETE FROM users cascades to the participants and the
\* prefs.  The conversations stay.
DeleteAccount(u) ==
  /\ u \in users
  /\ users' = users \ {u}
  /\ participants' = {p \in participants : p[2] # u}
  /\ pref' = [p \in User \X Conv |-> IF p[1] = u THEN "none" ELSE pref[p]]
  /\ left' = left \cup {p \in participants : p[2] = u}
  /\ UNCHANGED <<key, task, served>>

TaskNext(t) ==
  \/ \E u \in Caller, o \in User : CreateRead(t, u, o)
  \/ \E u \in Caller, c \in Conv :
       LeaveEnsure(t, u, c) \/ \E want \in Want : PrefEnsure(t, u, c, want)
  \/ CreateInsert(t) \/ CreateCommit(t)
  \/ PrefLoad(t) \/ PrefCount(t) \/ PrefInsert(t) \/ PrefUpdate(t)
  \/ LeaveDelete(t) \/ LeaveCommit(t)
  \/ Abort(t)

Next ==
  \/ \E t \in Task : TaskNext(t)
  \/ \E u \in Leavers : DeleteAccount(u)

Spec == Init /\ [][Next]_vars

------------------------------------------------------------------------------
(* Safety. *)

\* However creates race, crash and repeat, two users are paired in one
\* conversation and every answer names it (create_or_get_conversation).
OneConversation ==
  /\ \A c, d \in Created : PairOf(c) = PairOf(d) => c = d
  /\ \A s \in served : key[s[3]] # NoKey /\ PairOf(s[3]) = {s[1], s[2]}

\* A conversation has both its participants from the moment it can be seen;
\* only one who left is missing.
MembersComplete ==
  \A c \in Created : \A u \in PairOf(c) :
    <<c, u>> \in participants \/ <<c, u>> \in left

\* Through every race, rollback and account deletion the rows of a conversation
\* live the life ChatLife allows: both members appear with it, each departs once,
\* nobody returns, and creates are answered with the pair's one conversation.
ChatOf(c) == [pair    |-> IF key[c] = NoKey THEN {} ELSE PairOf(c),
              members |-> {u \in User : <<c, u>> \in participants},
              gone    |-> {u \in User : <<c, u>> \in left}]
Chats == [c \in Conv |-> ChatOf(c)]
Chat == INSTANCE ChatLife WITH chat <- Chats, answers <- served
ChatSpec == Chat!ChatLifeSpec

\* The race of concurrent pins is bounded: at most one pin too many for every
\* other request in flight (update_conversation_prefs).
PinBound ==
  \A u \in User : Cardinality(Pinned(u)) <= PinLimit + Cardinality(Task) - 1

(* Statements of the source that its code does not keep. *)

\* create_or_get_conversation: the caller of an answered create is a participant
\* of the conversation it got.
CreateGivesMembership ==
  [][\A s \in served' \ served : <<s[3], s[1]>> \in participants']_vars
==============================================================================
