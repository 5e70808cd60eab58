------------------------------ MODULE Messaging ------------------------------
(***************************************************************************)
(* One conversation of the messenger: its WebSocket handlers               *)
(* (app/websocket/router.py), the HTTP operations that race with them      *)
(* (delete for everyone, block, unblock, leave, account deletion), the     *)
(* Redis channel of the conversation and the background notification of    *)
(* each new message.                                                       *)
(*                                                                         *)
(* Every variable above the line is a committed database row set, an       *)
(* in-memory registry of the server, the Redis channel, or the local       *)
(* variables of a coroutine suspended at an await; a step is what runs     *)
(* between two awaits that another coroutine can interleave with.  The     *)
(* database is PostgreSQL at READ COMMITTED: a SELECT sees what is         *)
(* committed when it runs, an UPDATE holds its row lock until the          *)
(* transaction ends.                                                       *)
(***************************************************************************)
EXTENDS Integers, Sequences, FiniteSets

CONSTANTS
  User,        \* accounts
  Socket,      \* conversation sockets the clients may open
  Owner,       \* Owner[s]: the account whose token opened socket s
  Message,     \* message ids (uuid4, never drawn twice)
  Request,     \* in-flight POST /messages/{id}/delete requests
  NoUser,      \* "nobody"
  BlockPairs,  \* the <<blocker, blocked>> pairs the users may create
  Sent,        \* the history: a function from stored messages to senders
  Frames,      \* the frame kinds the clients send
  Leavers,     \* the users who may leave or delete their account
  MaxChannel,  \* bound: events published and not yet routed
  MayLose      \* whether the subscriber may be down when an event arrives

ASSUME OwnerAssumption == Owner \in [Socket -> User]
ASSUME NoUserAssumption == NoUser \notin User
ASSUME BlockPairsAssumption ==
  /\ BlockPairs \subseteq User \X User
  /\ \A p \in BlockPairs : p[1] # p[2]
ASSUME SentAssumption ==
  /\ DOMAIN Sent \subseteq Message
  /\ \A m \in DOMAIN Sent : Sent[m] \in User
ASSUME FramesAssumption ==
  Frames \subseteq {"message", "delivery", "read", "reaction"}
ASSUME LeaversAssumption == Leavers \subseteq User
ASSUME MaxChannelAssumption == MaxChannel \in Nat
ASSUME MayLoseAssumption == MayLose \in BOOLEAN

VARIABLES
  users,         \* accounts that exist
  participants,  \* conversation_participants of this conversation
  blocked,       \* blocked_users: <<blocker, blocked>>
  row,           \* messages_metadata
  reactions,     \* message_reactions of one emoji: <<user, message>>
  open,          \* manager._conv_connections of this conversation
  frame,         \* frame[s]: the handler of the frame socket s is processing
  request,       \* request[r]: a delete-for-everyone request
  channel,       \* Redis channel conversation:{id}
  notify,        \* notify[m]: the background task _notify_new_message of m
  \* History variables; no action reads them.
  reached,       \* <<user, message, way>>: m was sent to user by that way
  skipped,       \* <<user, message>>: notify found user in the conversation
  shield         \* <<v, u, m>>: v blocked u when u began to send m, ever since

dbVars  == <<users, participants, blocked, row, reactions>>
history == <<reached, skipped, shield>>
vars    == <<dbVars, open, frame, request, channel, notify, history>>

------------------------------------------------------------------------------
(* Shapes of the state. *)

Status == {"none", "live", "wiped", "purged"}
Kind   == {"none", "message", "delivery", "read", "reaction"}
Way    == {"thread", "channel", "push"}

Row == [status : Status, sender : User \cup {NoUser},
        delivered : BOOLEAN, read : BOOLEAN]

NoRow == [status |-> "none", sender |-> NoUser,
          delivered |-> FALSE, read |-> FALSE]

Frame == [pc : {"idle", "blockers", "commit", "publish"}, kind : Kind,
          ms : SUBSET Message, others : SUBSET User, skip : SUBSET User,
          delivered : SUBSET Message, read : SUBSET Message, added : BOOLEAN]

Idle == [pc |-> "idle", kind |-> "none", ms |-> {}, others |-> {},
         skip |-> {}, delivered |-> {}, read |-> {}, added |-> FALSE]

Event == [type : {"message", "delivery", "read", "reaction", "deletion"},
          ms : SUBSET Message, by : User \cup {NoUser}, skip : SUBSET User, added : BOOLEAN]

Delete == [pc : {"idle", "flush", "publish", "commit"},
           m : SUBSET Message, by : User \cup {NoUser}]

NoDelete == [pc |-> "idle", m |-> {}, by |-> NoUser]

Notify == [pc : {"none", "others", "presence", "route", "done"},
           by : User \cup {NoUser}, skip : SUBSET User, todo : SUBSET User,
           inConversation : SUBSET User, offline : SUBSET User]

NoNotify == [pc |-> "none", by |-> NoUser, skip |-> {}, todo |-> {},
             inConversation |-> {}, offline |-> {}]

TypeOK ==
  /\ users \subseteq User
  /\ participants \subseteq User
  /\ blocked \subseteq BlockPairs
  /\ row \in [Message -> Row]
  /\ reactions \subseteq User \X Message
  /\ open \subseteq Socket
  /\ frame \in [Socket -> Frame]
  /\ request \in [Request -> Delete]
  /\ channel \in Seq(Event)
  /\ notify \in [Message -> Notify]
  /\ reached \subseteq User \X Message \X Way
  /\ skipped \subseteq User \X Message
  /\ shield \subseteq User \X User \X Message

Init ==
  /\ users = User
  /\ participants = User
  /\ blocked = {}
  /\ row = [m \in Message |->
              IF m \in DOMAIN Sent
              THEN [NoRow EXCEPT !.status = "live", !.sender = Sent[m]]
              ELSE NoRow]
  /\ reactions = {}
  /\ open = {}
  /\ frame = [s \in Socket |-> Idle]
  /\ request = [r \in Request |-> NoDelete]
  /\ channel = <<>>
  /\ notify = [m \in Message |-> NoNotify]
  /\ reached = {}
  /\ skipped = {}
  /\ shield = {}

------------------------------------------------------------------------------
(* Operators the handlers share. *)

Stored(m) == row[m].status \in {"live", "wiped"}

\* The events published and not yet routed.
Pending == {channel[i] : i \in DOMAIN channel}

\* The users with a registered socket in this conversation.
Present == {Owner[s] : s \in open}

\* recipients_blocking: participants who have blocked u.  (Mutants: the columns
\* of the WHERE clause swapped; rows returned where ids are meant.)
SwappedBlocking(u) == {v \in participants \ {u} : <<u, v>> \in blocked}
BlockingRows(u) == {p \in blocked : p[2] = u}
RecipientsBlocking(u) == {v \in participants \ {u} : <<v, u>> \in blocked}

\* A send that no other participant may receive.  (Mutant: one blocker too many
\* is asked for.)
MoreBlockers(others, blockers) == Cardinality(blockers) > Cardinality(others)
FullyBlocked(others, blockers) == others # {} /\ others \subseteq blockers

\* The row of m once frame[s] has acknowledged it: the UPDATE sets only the
\* columns that were NULL when the handler read them.  (Mutants: a read frame
\* that leaves delivered_at alone; an UPDATE of both columns from the copy read.)
ReadOnly(s, m) == [row[m] EXCEPT !.read = @ \/ m \in frame[s].read]
WholeRow(s, m) == [row[m] EXCEPT !.delivered = m \in frame[s].delivered,
                                 !.read      = m \in frame[s].read]
Acknowledged(s, m) == [row[m] EXCEPT
                         !.delivered = @ \/ m \in frame[s].delivered,
                         !.read      = @ \/ m \in frame[s].read]

\* A delete-for-everyone transaction has updated m and not ended yet.  (Mutant:
\* the row is already locked, by another session, when it is read.)
LockedByReader(m) == \E r \in Request :
                       request[r].pc # "idle" /\ m \in request[r].m
Locked(m) == \E r \in Request :
               /\ request[r].pc \in {"publish", "commit"}
               /\ m \in request[r].m

\* manager.publish, with the bound on the channel.
Publish(e) ==
  /\ Len(channel) < MaxChannel
  /\ channel' = Append(channel, e)

\* A handler ends; one that raises takes its socket out of the registry.
Finish(s) == frame' = [frame EXCEPT ![s] = Idle]
Die(s) == Finish(s) /\ open' = open \ {s}

------------------------------------------------------------------------------
(* Connection life cycle. *)

\* websocket_endpoint: authorize, accept, register.  The participant row is
\* looked at here and never again.
Connect(s) ==
  /\ s \notin open
  /\ frame[s].pc = "idle"
  /\ Owner[s] \in participants
  /\ open' = open \cup {s}
  /\ UNCHANGED <<dbVars, frame, request, channel, notify, history>>

\* The client goes away, or a send to its socket failed: the socket leaves
\* the registry.  A handler already running on it goes on.
Disconnect(s) ==
  /\ s \in open
  /\ open' = open \ {s}
  /\ UNCHANGED <<dbVars, frame, request, channel, notify, history>>

\* A database error, a failed publish or a stopped worker ends a handler at
\* any of its awaits; the finally clause unregisters the socket.
HandlerFails(s) ==
  /\ frame[s].pc # "idle"
  /\ Die(s)
  /\ UNCHANGED <<dbVars, request, channel, notify, history>>

------------------------------------------------------------------------------
(* _handle_message. *)

\* The payload, the reply target and the blob were accepted; the first of the
\* two block-enforcement reads, participant_ids, has returned.
SendReadOthers(s, m) ==
  /\ s \in open /\ "message" \in Frames
  /\ frame[s].pc = "idle"
  /\ row[m].status = "none"
  /\ \A t \in Socket : m \notin frame[t].ms
  /\ frame' = [frame EXCEPT ![s] =
                 [Idle EXCEPT !.pc = "blockers", !.kind = "message",
                              !.ms = {m},
                              !.others = participants \ {Owner[s]}]]
  /\ shield' = {t \in shield : t[3] # m}
                 \cup {<<v, Owner[s], m>> :
                         v \in {w \in User : <<w, Owner[s]>> \in blocked}}
  /\ UNCHANGED <<dbVars, open, request, channel, notify, reached, skipped>>

\* recipients_blocking has returned.  Blocked by every recipient: the sender
\* gets an echo and nothing else happens.
SendReadBlockers(s) ==
  LET blockers == RecipientsBlocking(Owner[s])
  IN  /\ frame[s].pc = "blockers"
      /\ frame' = [frame EXCEPT ![s] =
                     IF FullyBlocked(frame[s].others, blockers) THEN Idle
                     ELSE [@ EXCEPT !.pc = "commit", !.skip = blockers]]
      /\ UNCHANGED <<dbVars, open, request, channel, notify, history>>

\* INSERT and commit.  The foreign key refuses a sender whose account is gone.
SendCommit(s) ==
  /\ frame[s].pc = "commit" /\ frame[s].kind = "message"
  /\ \/ /\ Owner[s] \in users
        /\ row' = [m \in Message |->
                     IF m \in frame[s].ms
                     THEN [NoRow EXCEPT !.status = "live", !.sender = Owner[s]]
                     ELSE row[m]]
        /\ frame' = [frame EXCEPT ![s].pc = "publish"]
        /\ UNCHANGED open
     \/ /\ Owner[s] \notin users
        /\ Die(s)
        /\ UNCHANGED row
  /\ UNCHANGED <<users, participants, blocked, reactions>>
  /\ UNCHANGED <<request, channel, notify, history>>

\* Publish with the skip list, then spawn the notification task.
SendPublish(s) ==
  /\ frame[s].pc = "publish" /\ frame[s].kind = "message"
  /\ Publish([type |-> "message", ms |-> frame[s].ms, by |-> Owner[s],
              skip |-> frame[s].skip, added |-> FALSE])
  /\ notify' = [m \in Message |->
                  IF m \in frame[s].ms
                  THEN [NoNotify EXCEPT !.pc = "others", !.by = Owner[s],
                                        !.skip = frame[s].skip]
                  ELSE notify[m]]
  /\ Finish(s)
  /\ UNCHANGED <<dbVars, open, request, history>>

------------------------------------------------------------------------------
(* _handle_receipt: one frame acknowledges a batch of messages. *)

ReceiptRead(s, kind, ms) ==
  LET msgs == {m \in ms : Stored(m) /\ row[m].sender # Owner[s]}
      delivered == {m \in msgs : ~row[m].delivered}
      read == {m \in msgs : kind = "read" /\ ~row[m].read}
  IN  /\ s \in open
      /\ frame[s].pc = "idle"
      /\ delivered \cup read # {}      \* else: nothing written, nothing sent
      /\ frame' = [frame EXCEPT ![s] =
                     [Idle EXCEPT !.pc = "commit", !.kind = kind,
                                  !.ms = delivered \cup read,
                                  !.delivered = delivered, !.read = read]]
      /\ UNCHANGED <<dbVars, open, request, channel, notify, history>>

\* The UPDATEs set only the columns this handler changed.  They wait for row
\* locks.  A row purged since the read matches nothing: the driver's row count
\* check, made for a single-row statement only, raises; a batch goes on.
ReceiptCommit(s) ==
  LET alive == {m \in frame[s].ms : Stored(m)}
  IN  /\ frame[s].pc = "commit" /\ frame[s].kind \in {"delivery", "read"}
      /\ \A m \in frame[s].ms : ~Locked(m)
      /\ \/ /\ \/ alive = frame[s].ms
               \/ Cardinality(frame[s].ms) > 1
            /\ row' = [m \in Message |->
                         IF m \in alive
                         THEN Acknowledged(s, m)
                         ELSE row[m]]
            /\ frame' = [frame EXCEPT ![s].pc = "publish"]
            /\ UNCHANGED open
         \/ /\ alive # frame[s].ms
            /\ Cardinality(frame[s].ms) = 1
            /\ Die(s)
            /\ UNCHANGED row
      /\ UNCHANGED <<users, participants, blocked, reactions>>
      /\ UNCHANGED <<request, channel, notify, history>>

------------------------------------------------------------------------------
(* _handle_reaction: toggle one emoji. *)

ReactionRead(s, m) ==
  /\ s \in open /\ "reaction" \in Frames
  /\ frame[s].pc = "idle"
  /\ Stored(m)
  /\ frame' = [frame EXCEPT ![s] =
                 [Idle EXCEPT !.pc = "commit", !.kind = "reaction", !.ms = {m},
                              !.added = <<Owner[s], m>> \notin reactions]]
  /\ UNCHANGED <<dbVars, open, request, channel, notify, history>>

\* The INSERT is refused by the primary key when the same reaction was added
\* since the read, and by the foreign keys when the message or the account is
\* gone.  A DELETE that matches nothing is only logged.
ReactionCommit(s) ==
  LET mine == {Owner[s]} \X frame[s].ms
      accepted == /\ Owner[s] \in users
                  /\ \A m \in frame[s].ms : Stored(m)
                  /\ mine \cap reactions = {}
  IN  /\ frame[s].pc = "commit" /\ frame[s].kind = "reaction"
      /\ \/ /\ frame[s].added => accepted
            /\ reactions' = IF frame[s].added THEN reactions \cup mine
                                              ELSE reactions \ mine
            /\ frame' = [frame EXCEPT ![s].pc = "publish"]
            /\ UNCHANGED open
         \/ /\ frame[s].added /\ ~accepted
            /\ Die(s)
            /\ UNCHANGED reactions
      /\ UNCHANGED <<users, participants, blocked, row>>
      /\ UNCHANGED <<request, channel, notify, history>>

\* Receipts and reactions are published after their commit, to everybody.
AnswerPublish(s) ==
  /\ frame[s].pc = "publish"
  /\ frame[s].kind \in {"delivery", "read", "reaction"}
  /\ Publish([type |-> frame[s].kind, ms |-> frame[s].ms, by |-> Owner[s],
              skip |-> {}, added |-> frame[s].added])
  /\ Finish(s)
  /\ UNCHANGED <<dbVars, open, request, notify, history>>

------------------------------------------------------------------------------
(* The subscriber routes one event to the registered sockets. *)

Broadcast ==
  LET e == Head(channel)
      hit == Present \ e.skip
  IN  /\ channel # <<>>
      /\ channel' = Tail(channel)
      /\ reached' = reached \cup
           {<<v, m, "thread">> :
              v \in IF e.type = "message" THEN hit \ {e.by} ELSE {},
              m \in e.ms}
      /\ UNCHANGED <<dbVars, open, frame, request, notify, skipped, shield>>

\* Pub/sub keeps nothing for a subscriber that is reconnecting.
LoseEvent ==
  /\ MayLose
  /\ channel # <<>>
  /\ channel' = Tail(channel)
  /\ UNCHANGED <<dbVars, open, frame, request, notify, history>>

------------------------------------------------------------------------------
(* _notify_new_message. *)

NotifyOthers(m) ==
  /\ notify[m].pc = "others"
  /\ LET todo == (participants \ {notify[m].by}) \ notify[m].skip
     IN  notify' = [notify EXCEPT ![m].todo = todo,
                      ![m].pc = IF todo = {} THEN "done" ELSE "presence"]
  /\ UNCHANGED <<dbVars, open, frame, request, channel, history>>

\* The snapshot of the sockets in this conversation.
NotifyPresence(m) ==
  /\ notify[m].pc = "presence"
  /\ notify' = [notify EXCEPT ![m].pc = "route", ![m].inConversation = Present]
  /\ UNCHANGED <<dbVars, open, frame, request, channel, history>>

\* One turn of the loop, for v.  elsewhere: the other sockets v has on this
\* server, its user channel or those of other conversations.
NotifyUser(m, v, elsewhere) ==
  /\ notify[m].pc = "route"
  /\ v \in notify[m].todo
  /\ \/ /\ v \in notify[m].inConversation
        /\ skipped' = skipped \cup {<<v, m>>}
        /\ notify' = [notify EXCEPT ![m].todo = @ \ {v}]
        /\ UNCHANGED reached
     \/ /\ v \notin notify[m].inConversation
        /\ elsewhere # "nothing" \/ v \in Present     \* is_user_connected
        /\ reached' = IF elsewhere = "user channel"
                      THEN reached \cup {<<v, m, "channel">>} ELSE reached
        /\ notify' = [notify EXCEPT ![m].todo = @ \ {v}]
        /\ UNCHANGED skipped
     \/ /\ v \notin notify[m].inConversation
        /\ elsewhere = "nothing" /\ v \notin Present
        /\ notify' = [notify EXCEPT ![m].todo = @ \ {v},
                                    ![m].offline = @ \cup {v}]
        /\ UNCHANGED <<reached, skipped>>
  /\ UNCHANGED <<dbVars, open, frame, request, channel, shield>>

\* One push for all the offline participants, and the task is over.
NotifyPush(m) ==
  /\ notify[m].pc = "route" /\ notify[m].todo = {}
  /\ reached' = reached \cup {<<v, m, "push">> : v \in notify[m].offline}
  /\ notify' = [notify EXCEPT ![m].pc = "done", ![m].offline = {},
                              ![m].inConversation = {}]
  /\ UNCHANGED <<dbVars, open, frame, request, channel, skipped, shield>>

\* Any exception in the task is logged and swallowed.
NotifyFails(m) ==
  /\ notify[m].pc \notin {"none", "done"}
  /\ notify' = [notify EXCEPT ![m].pc = "done", ![m].todo = {},
                              ![m].offline = {}, ![m].inConversation = {}]
  /\ UNCHANGED <<dbVars, open, frame, request, channel, history>>

------------------------------------------------------------------------------
(* delete_message with scope "everyone".  The age limit only refuses, so it  *)
(* is the choice not to start.                                               *)

DeleteResolve(r, u, m) ==
  /\ request[r].pc = "idle"
  /\ u \in users \cap participants
  /\ row[m].status = "live" /\ row[m].sender = u
  /\ request' = [request EXCEPT ![r] = [pc |-> "flush", m |-> {m}, by |-> u]]
  /\ UNCHANGED <<dbVars, open, frame, channel, notify, history>>

\* The flushed UPDATE waits for, then holds, the row lock.
DeleteFlush(r) ==
  /\ request[r].pc = "flush"
  /\ \A m \in request[r].m : Stored(m) /\ ~Locked(m)
  /\ request' = [request EXCEPT ![r].pc = "publish"]
  /\ UNCHANGED <<dbVars, open, frame, channel, notify, history>>

\* The tombstone is published inside the transaction.
DeletePublish(r) ==
  /\ request[r].pc = "publish"
  /\ Publish([type |-> "deletion", ms |-> request[r].m, by |-> request[r].by,
              skip |-> {}, added |-> FALSE])
  /\ request' = [request EXCEPT ![r].pc = "commit"]
  /\ UNCHANGED <<dbVars, open, frame, notify, history>>

\* get_session commits when the handler has returned.
DeleteCommit(r) ==
  /\ request[r].pc = "commit"
  /\ row' = [m \in Message |-> IF m \in request[r].m
                               THEN [row[m] EXCEPT !.status = "wiped"]
                               ELSE row[m]]
  /\ request' = [request EXCEPT ![r] = NoDelete]
  /\ UNCHANGED <<users, participants, blocked, reactions>>
  /\ UNCHANGED <<open, frame, channel, notify, history>>

\* get_session rolls back: the row vanished before the flush, the publish
\* raised, the commit failed, the worker stopped.
DeleteAbort(r) ==
  /\ request[r].pc # "idle"
  /\ request' = [request EXCEPT ![r] = NoDelete]
  /\ UNCHANGED <<dbVars, open, frame, channel, notify, history>>

------------------------------------------------------------------------------
(* block_user, unblock_user, leave_conversation, delete_user_by_id: one      *)
(* transaction each.                                                         *)

BlockUser(v, u) ==
  /\ {v, u} \subseteq users
  /\ <<v, u>> \in BlockPairs
  /\ blocked' = blocked \cup {<<v, u>>}
  /\ UNCHANGED <<users, participants, row, reactions>>
  /\ UNCHANGED <<open, frame, request, channel, notify, history>>

UnblockUser(v, u) ==
  /\ <<v, u>> \in blocked
  /\ blocked' = blocked \ {<<v, u>>}
  /\ shield' = {t \in shield : ~(t[1] = v /\ t[2] = u)}
  /\ UNCHANGED <<users, participants, row, reactions>>
  /\ UNCHANGED <<open, frame, request, channel, notify, reached, skipped>>

\* The participant row goes; an open socket stays.
Leave(u) ==
  /\ u \in users \cap participants
  /\ participants' = participants \ {u}
  /\ UNCHANGED <<users, blocked, row, reactions>>
  /\ UNCHANGED <<open, frame, request, channel, notify, history>>

\* The cascades of DELETE FROM users; they wait for locked message rows.
DeleteAccount(u) ==
  LET mine == {m \in Message : Stored(m) /\ row[m].sender = u}
  IN  /\ u \in users
      /\ \A m \in mine : ~Locked(m)
      /\ users' = users \ {u}
      /\ participants' = participants \ {u}
      /\ blocked' = {p \in blocked : u \notin {p[1], p[2]}}
      /\ row' = [m \in Message |->
                   IF m \in mine THEN [row[m] EXCEPT !.status = "purged"]
                                 ELSE row[m]]
      /\ reactions' = {p \in reactions : p[1] # u /\ p[2] \notin mine}
      /\ shield' = {t \in shield : u \notin {t[1], t[2]}}
      /\ UNCHANGED <<open, frame, request, channel, notify, reached, skipped>>

------------------------------------------------------------------------------
SocketNext(s) ==
  \/ Connect(s) \/ Disconnect(s) \/ HandlerFails(s)
  \/ \E m \in Message : SendReadOthers(s, m) \/ ReactionRead(s, m)
  \/ SendReadBlockers(s) \/ SendCommit(s) \/ SendPublish(s)
  \/ \E kind \in {"delivery", "read"} \cap Frames, ms \in SUBSET Message :
       ReceiptRead(s, kind, ms)
  \/ ReceiptCommit(s) \/ ReactionCommit(s) \/ AnswerPublish(s)

NotifyNext(m) ==
  \/ NotifyOthers(m) \/ NotifyPresence(m) \/ NotifyPush(m) \/ NotifyFails(m)
  \/ \E v \in User, elsewhere \in {"user channel", "conversation", "nothing"} :
       NotifyUser(m, v, elsewhere)

RequestNext(r) ==
  \/ \E u \in User, m \in Message : DeleteResolve(r, u, m)
  \/ DeleteFlush(r) \/ DeletePublish(r) \/ DeleteCommit(r) \/ DeleteAbort(r)

UserNext ==
  \/ \E v, u \in User : BlockUser(v, u) \/ UnblockUser(v, u)
  \/ \E u \in Leavers : Leave(u) \/ DeleteAccount(u)

Next ==
  \/ \E s \in Socket : SocketNext(s)
  \/ \E m \in Message : NotifyNext(m)
  \/ \E r \in Request : RequestNext(r)
  \/ Broadcast \/ LoseEvent
  \/ UserNext

Spec == Init /\ [][Next]_vars

\* Every coroutine runs until it ends: the event loop starves nobody.  SF where
\* the others can make a step wait again and again: for a row lock, which
\* PostgreSQL grants first come first served, and for room in the channel, whose
\* bound is the model's.  Nobody has to connect, send, block, leave or delete.
Fairness ==
  /\ \A s \in Socket :
       /\ WF_vars(SendReadBlockers(s)) /\ WF_vars(SendCommit(s))
       /\ SF_vars(SendPublish(s)) /\ SF_vars(AnswerPublish(s))
       /\ WF_vars(ReactionCommit(s)) /\ SF_vars(ReceiptCommit(s))
  /\ \A r \in Request :
       /\ SF_vars(DeleteFlush(r)) /\ SF_vars(DeletePublish(r))
       /\ WF_vars(DeleteCommit(r))
       /\ WF_vars((\E m \in request[r].m : ~Stored(m)) /\ DeleteAbort(r))
  /\ WF_vars(Broadcast)

FairSpec == Spec /\ Fairness

------------------------------------------------------------------------------
(* Safety. *)

\* A user who blocked the sender before the sender began to send a message, and
\* neither unblocked nor left since, gets it by no way: not in the thread, not
\* on the user channel, not as a push (moderation_service.py, the skip list of
\* _handle_message, broadcast_to_conversation and _notify_new_message).
BlockRespected ==
  \A t \in shield : t[1] \in participants =>
    \A way \in Way : <<t[1], t[3], way>> \notin reached

\* An event other than a tombstone is published after its transaction has
\* committed: its readers find the row, and find it acknowledged
\* (_handle_message, _handle_receipt).
EventsBacked ==
  \A e \in Pending : \A m \in e.ms :
    /\ row[m].status # "none"
    /\ e.type = "delivery" /\ Stored(m) => row[m].delivered
    /\ e.type = "read" /\ Stored(m) => row[m].read

\* A message whose sender every recipient had blocked when the send began is not
\* written, unless one of them unblocked or left since (_handle_message, "a
\* message nobody is allowed to receive is never written").
NeverWritten ==
  [][\A s \in Socket :
       (frame[s].kind = "message" /\ frame[s].pc = "commit"
          /\ frame'[s].pc = "publish"
          /\ frame[s].others # {} /\ frame[s].others \subseteq participants)
       => \E v \in frame[s].others : \A m \in frame[s].ms :
             <<v, Owner[s], m>> \notin shield]_vars

\* The stored row of every message lives the life MessageLife allows, whatever
\* receipts, deletions and account deletions interleave.
LifeOf == [m \in Message |-> [status    |-> row[m].status,
                              delivered |-> row[m].delivered,
                              read      |-> row[m].read]]
Life == INSTANCE MessageLife WITH life <- LifeOf
LifeSpec == Life!LifeSpec

(* Liveness. *)

\* No handler and no delete request waits forever, not even for a row lock.
HandlersFinish ==
  /\ \A s \in Socket : (frame[s].pc # "idle") ~> (frame[s].pc = "idle")
  /\ \A r \in Request : (request[r].pc # "idle") ~> (request[r].pc = "idle")

(* A statement of the source that its code does not keep. *)

\* _notify_new_message: a user found in the conversation "already received the
\* full message in-thread".
SkippedMeansReceived ==
  \A p \in skipped :
    \/ <<p[1], p[2], "thread">> \in reached
    \/ \E e \in Pending : e.type = "message" /\ p[2] \in e.ms
==============================================================================
