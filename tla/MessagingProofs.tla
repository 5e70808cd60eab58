--------------------------- MODULE MessagingProofs ---------------------------
(***************************************************************************)
(* Proofs about Messaging, for any number of users, sockets, messages and  *)
(* requests: its type invariant, that a block holds on every delivery way  *)
(* (BlockRespected), that a message for nobody is not written              *)
(* (NeverWritten), that events follow their commit (EventsBacked), and     *)
(* that stored messages live the life MessageLife allows (LifeSpec).       *)
(***************************************************************************)
EXTENDS Messaging, TLAPS

------------------------------------------------------------------------------
(* The inductive invariant. *)

Sending(s) == frame[s].kind = "message" /\ frame[s].pc # "idle"

\* A frame that sends carries one message, not yet stored before its commit
\* and stored after it; what any other frame, request, event or task speaks of
\* has been stored.
FrameRows ==
  \A s \in Socket :
    /\ Sending(s) => /\ \E m \in Message : frame[s].ms = {m}
                     /\ \A m \in frame[s].ms :
                          (row[m].status = "none") <=> (frame[s].pc # "publish")
    /\ ~Sending(s) => \A m \in frame[s].ms : row[m].status # "none"
    /\ frame[s].kind = "message" => frame[s].pc # "idle"
    /\ frame[s].pc = "blockers" => frame[s].kind = "message"

RequestRows ==
  \A r \in Request :
    /\ request[r].pc # "idle" => \E m \in Message : request[r].m = {m}
    /\ request[r].pc # "idle" => request[r].by \in User
    /\ \A m \in request[r].m : row[m].status # "none"
    /\ request[r].pc \in {"publish", "commit"} =>
         \A m \in request[r].m : Stored(m)

OtherRows ==
  \A m \in Message : row[m].status = "none" =>
    /\ notify[m].pc = "none"
    /\ \A e \in Pending : m \notin e.ms
    /\ \A v \in User, way \in Way : <<v, m, way>> \notin reached

\* No two frames send the same message.
DistinctSends ==
  \A s, t \in Socket :
    s # t /\ Sending(s) /\ Sending(t) => frame[s].ms \cap frame[t].ms = {}

\* The history variable shield speaks of blocks that are in force, and of the
\* sender of the frame that sends the message.
ShieldBlocked == \A t \in shield : <<t[1], t[2]>> \in blocked
ShieldSender ==
  \A s \in Socket, t \in shield :
    Sending(s) /\ t[3] \in frame[s].ms => t[2] = Owner[s]

\* From the moment the blockers are known the skip list travels with the
\* message: in the frame, in the event, in the notification task.
Shields(S, m) == \A t \in shield : t[3] = m /\ t[1] \in participants => t[1] \in S

FrameSkips ==
  \A s \in Socket : Sending(s) /\ frame[s].pc # "blockers" =>
    \A m \in frame[s].ms : Shields(frame[s].skip, m)

EventSkips ==
  \A e \in Pending : e.type = "message" => \A m \in e.ms : Shields(e.skip, m)

NotifySkips ==
  \A m \in Message : notify[m].pc # "none" =>
    /\ Shields(notify[m].skip, m)
    /\ Shields(User \ (notify[m].todo \cup notify[m].offline), m)

\* What a receipt frame loaded is still true or still to be written.
AckFrames ==
  \A s \in Socket : \A m \in frame[s].ms :
    (frame[s].kind \in {"delivery", "read"} /\ Stored(m)) =>
      LET later == frame[s].pc = "commit"
      IN  /\ row[m].delivered \/ (later /\ m \in frame[s].delivered)
          /\ frame[s].kind = "read" =>
               row[m].read \/ (later /\ m \in frame[s].read)

SkipInv == /\ ShieldBlocked /\ ShieldSender /\ FrameSkips /\ EventSkips
           /\ NotifySkips /\ BlockRespected

RowInv  == FrameRows /\ RequestRows /\ OtherRows /\ DistinctSends

AckInv  == AckFrames /\ EventsBacked

------------------------------------------------------------------------------
(* The channel as the set of its pending events. *)

\* Publishing adds one event to those pending.
LEMMA PendingAppend ==
  ASSUME NEW e \in Event, channel \in Seq(Event), Publish(e)
  PROVE  channel' \in Seq(Event) /\ Pending' = Pending \cup {e}
  <1>1. channel' = Append(channel, e) /\ channel' \in Seq(Event)
    BY DEF Publish
  <1>2. DOMAIN channel = 1..Len(channel)
    OBVIOUS
  <1>3. DOMAIN channel' = 1..(Len(channel) + 1)
    BY <1>1
  <1>4. \A i \in DOMAIN channel : channel'[i] = channel[i]
    BY <1>1, <1>2
  <1>5. channel'[Len(channel) + 1] = e
    BY <1>1
  <1> QED
    BY <1>1, <1>2, <1>3, <1>4, <1>5 DEF Pending

\* Routing takes the event at the head and leaves no new one.
LEMMA PendingTail ==
  ASSUME channel \in Seq(Event), channel # <<>>, channel' = Tail(channel)
  PROVE  /\ channel' \in Seq(Event)
         /\ Head(channel) \in Event
         /\ Head(channel) \in Pending
         /\ Pending' \subseteq Pending
  <1>1. channel' \in Seq(Event) /\ Len(channel') = Len(channel) - 1
    OBVIOUS
  <1>2. \A i \in 1..Len(channel') : channel'[i] = channel[i + 1]
    OBVIOUS
  <1>3. Head(channel) = channel[1] /\ 1 \in 1..Len(channel)
    OBVIOUS
  <1>4. DOMAIN channel = 1..Len(channel) /\ DOMAIN channel' = 1..Len(channel')
    BY <1>1
  <1> QED
    BY <1>1, <1>2, <1>3, <1>4 DEF Pending

------------------------------------------------------------------------------
(* Type correctness. *)

LEMMA IdleType == Idle \in Frame
  BY DEF Idle, Frame, Kind

LEMMA LiveRowType ==
  \A u \in User : [NoRow EXCEPT !.status = "live", !.sender = u] \in Row
  BY DEF NoRow, Row, Status

LEMMA InitType == Init => TypeOK
  <1> SUFFICES ASSUME Init PROVE TypeOK
    OBVIOUS
  <1>1. NoRow \in Row
    BY DEF NoRow, Row, Status
  <1>2. row \in [Message -> Row]
    <2>1. \A m \in DOMAIN Sent :
            [NoRow EXCEPT !.status = "live", !.sender = Sent[m]] \in Row
      BY LiveRowType, SentAssumption
    <2> QED
      BY <1>1, <2>1 DEF Init
  <1>3. NoNotify \in Notify /\ NoDelete \in Delete
    BY DEF NoNotify, Notify, NoDelete, Delete
  <1>4. notify \in [Message -> Notify] /\ request \in [Request -> Delete]
    BY <1>3 DEF Init
  <1>5. frame \in [Socket -> Frame]
    BY IdleType DEF Init
  <1>6. channel \in Seq(Event)
    <2>1. channel = <<>>
      BY DEF Init
    <2> QED
      BY <2>1
  <1>7. /\ users \subseteq User /\ participants \subseteq User
        /\ blocked \subseteq BlockPairs /\ reactions \subseteq User \X Message
        /\ open \subseteq Socket /\ reached \subseteq User \X Message \X Way
        /\ skipped \subseteq User \X Message
        /\ shield \subseteq User \X User \X Message
    BY Zenon DEF Init
  <1> QED
    BY <1>2, <1>4, <1>5, <1>6, <1>7, Zenon DEF TypeOK

LEMMA SendType ==
  ASSUME TypeOK, NEW s \in Socket,
         \/ \E m \in Message : SendReadOthers(s, m)
         \/ SendReadBlockers(s) \/ SendCommit(s) \/ SendPublish(s)
  PROVE  TypeOK'
  <1> USE DEF dbVars, history
  <1>0. frame[s] \in Frame /\ Owner[s] \in User
    BY OwnerAssumption DEF TypeOK
  <1>1. CASE \E m \in Message : SendReadOthers(s, m)
    <2> PICK m \in Message : SendReadOthers(s, m)
      BY <1>1
    <2>1. frame' \in [Socket -> Frame]
      BY <1>0, IdleType DEF SendReadOthers, TypeOK, Frame, Idle, Kind
    <2>2. \A v \in User : <<v, Owner[s], m>> \in User \X User \X Message
      BY <1>0
    <2>3. shield' \subseteq User \X User \X Message
      BY <2>2 DEF SendReadOthers, TypeOK
    <2> QED
      BY <2>1, <2>3 DEF SendReadOthers, TypeOK
  <1>2. CASE SendReadBlockers(s)
    <2>1. frame' \in [Socket -> Frame]
      BY <1>0, <1>2, IdleType DEF SendReadBlockers, RecipientsBlocking, TypeOK, Frame
    <2> QED
      BY <1>2, <2>1 DEF SendReadBlockers, TypeOK
  <1>3. CASE SendCommit(s)
    <2>1. frame' \in [Socket -> Frame]
      BY <1>0, <1>3, IdleType DEF SendCommit, Die, Finish, TypeOK, Frame
    <2>2. row' \in [Message -> Row]
      BY <1>0, <1>3, LiveRowType DEF SendCommit, TypeOK
    <2> QED
      BY <1>3, <2>1, <2>2 DEF SendCommit, Die, TypeOK
  <1>4. CASE SendPublish(s)
    <2>1. channel' \in Seq(Event)
      BY <1>0, <1>4, PendingAppend DEF SendPublish, TypeOK, Frame, Event
    <2>2. notify' \in [Message -> Notify]
      BY <1>0, <1>4 DEF SendPublish, TypeOK, Frame, NoNotify, Notify
    <2>3. frame' \in [Socket -> Frame]
      BY <1>4, IdleType DEF SendPublish, Finish, TypeOK
    <2> QED
      BY <1>4, <2>1, <2>2, <2>3 DEF SendPublish, TypeOK
  <1> QED
    BY <1>1, <1>2, <1>3, <1>4

LEMMA AnswerType ==
  ASSUME TypeOK, NEW s \in Socket,
         \/ Connect(s) \/ Disconnect(s) \/ HandlerFails(s)
         \/ \E m \in Message : ReactionRead(s, m)
         \/ \E kind \in {"delivery", "read"}, ms \in SUBSET Message :
              ReceiptRead(s, kind, ms)
         \/ ReceiptCommit(s) \/ ReactionCommit(s) \/ AnswerPublish(s)
  PROVE  TypeOK'
  <1> USE DEF dbVars, history
  <1>0. frame[s] \in Frame /\ Owner[s] \in User
    BY OwnerAssumption DEF TypeOK
  <1>1. CASE Connect(s) \/ Disconnect(s)
    BY <1>1 DEF Connect, Disconnect, TypeOK
  <1>2. CASE HandlerFails(s)
    <2>1. frame' \in [Socket -> Frame] /\ open' \subseteq Socket
      BY <1>2, IdleType DEF HandlerFails, Die, Finish, TypeOK
    <2> QED
      BY <1>2, <2>1 DEF HandlerFails, TypeOK
  <1>3. CASE \E m \in Message : ReactionRead(s, m)
    <2> PICK m \in Message : ReactionRead(s, m)
      BY <1>3
    <2>1. frame' \in [Socket -> Frame]
      BY <1>0, IdleType DEF ReactionRead, TypeOK, Frame, Idle, Kind
    <2> QED
      BY <2>1 DEF ReactionRead, TypeOK
  <1>4. CASE \E kind \in {"delivery", "read"}, ms \in SUBSET Message :
               ReceiptRead(s, kind, ms)
    <2> PICK kind \in {"delivery", "read"}, ms \in SUBSET Message :
               ReceiptRead(s, kind, ms)
      BY <1>4
    <2>1. frame' \in [Socket -> Frame]
      BY <1>0, IdleType DEF ReceiptRead, TypeOK, Frame, Idle, Kind
    <2> QED
      BY <2>1 DEF ReceiptRead, TypeOK
  <1>5. CASE ReceiptCommit(s)
    <2>1. frame' \in [Socket -> Frame]
      <3>1. \/ frame' = [frame EXCEPT ![s].pc = "publish"]
            \/ frame' = [frame EXCEPT ![s] = Idle]
        BY <1>5 DEF ReceiptCommit, Die, Finish
      <3>2. [frame[s] EXCEPT !.pc = "publish"] \in Frame
        BY <1>0 DEF Frame
      <3> QED
        BY <3>1, <3>2, IdleType DEF TypeOK
    <2>2. row' \in [Message -> Row]
      <3> DEFINE alive == {m \in frame[s].ms : Stored(m)}
      <3>1. \/ row' = row
            \/ row' = [m \in Message |-> IF m \in alive THEN Acknowledged(s, m)
                                                  ELSE row[m]]
        BY <1>5 DEF ReceiptCommit
      <3>2. \A m \in Message : Acknowledged(s, m) \in Row
        BY DEF Acknowledged, TypeOK, Row
      <3> HIDE DEF alive
      <3> QED
        BY <3>1, <3>2 DEF TypeOK
    <2> QED
      BY <1>5, <2>1, <2>2 DEF ReceiptCommit, Die, TypeOK
  <1>6. CASE ReactionCommit(s)
    <2>1. frame' \in [Socket -> Frame]
      BY <1>0, <1>6, IdleType DEF ReactionCommit, Die, Finish, TypeOK, Frame
    <2>2. reactions' \subseteq User \X Message
      BY <1>0, <1>6 DEF ReactionCommit, TypeOK, Frame
    <2> QED
      BY <1>6, <2>1, <2>2 DEF ReactionCommit, Die, TypeOK
  <1>7. CASE AnswerPublish(s)
    <2>1. [type |-> frame[s].kind, ms |-> frame[s].ms, by |-> Owner[s],
           skip |-> {}, added |-> frame[s].added] \in Event
      BY <1>0, <1>7 DEF AnswerPublish, Frame, Event, Kind
    <2>2. channel' \in Seq(Event)
      BY <1>7, <2>1, PendingAppend DEF AnswerPublish, TypeOK
    <2>3. frame' \in [Socket -> Frame]
      BY <1>7, IdleType DEF AnswerPublish, Finish, TypeOK
    <2> QED
      BY <1>7, <2>2, <2>3 DEF AnswerPublish, TypeOK
  <1> QED
    BY <1>1, <1>2, <1>3, <1>4, <1>5, <1>6, <1>7

LEMMA ChannelType ==
  ASSUME TypeOK, Broadcast \/ LoseEvent
  PROVE  TypeOK'
  <1> USE DEF dbVars, history
  <1>1. channel' \in Seq(Event) /\ Head(channel) \in Event
    BY PendingTail DEF Broadcast, LoseEvent, TypeOK
  <1>2. CASE Broadcast
    <2>1. Present \subseteq User
      BY OwnerAssumption DEF Present, TypeOK
    <2>2. \A v \in User, m \in Message :
            <<v, m, "thread">> \in User \X Message \X Way
      BY DEF Way
    <2>3. reached' \subseteq User \X Message \X Way
      BY <1>1, <1>2, <2>1, <2>2 DEF Broadcast, TypeOK, Event
    <2> QED
      BY <1>1, <1>2, <2>3 DEF Broadcast, TypeOK
  <1>3. CASE LoseEvent
    BY <1>1, <1>3 DEF LoseEvent, TypeOK
  <1> QED
    BY <1>2, <1>3

LEMMA NotifyType ==
  ASSUME TypeOK, NEW m \in Message, NotifyNext(m)
  PROVE  TypeOK'
  <1> USE DEF dbVars, history
  <1>0. notify[m] \in Notify
    BY DEF TypeOK
  <1>1. CASE NotifyOthers(m)
    <2>1. notify' \in [Message -> Notify]
      BY <1>0, <1>1 DEF NotifyOthers, TypeOK, Notify
    <2> QED
      BY <1>1, <2>1 DEF NotifyOthers, TypeOK
  <1>2. CASE NotifyPresence(m)
    <2>1. Present \subseteq User
      BY OwnerAssumption DEF Present, TypeOK
    <2>2. notify' \in [Message -> Notify]
      BY <1>0, <1>2, <2>1 DEF NotifyPresence, TypeOK, Notify
    <2> QED
      BY <1>2, <2>2 DEF NotifyPresence, TypeOK
  <1>3. CASE NotifyPush(m)
    <2>1. notify' \in [Message -> Notify]
      BY <1>0, <1>3 DEF NotifyPush, TypeOK, Notify
    <2>2. \A v \in User : <<v, m, "push">> \in User \X Message \X Way
      BY DEF Way
    <2>3. reached' \subseteq User \X Message \X Way
      BY <1>0, <1>3, <2>2 DEF NotifyPush, TypeOK, Notify
    <2> QED
      BY <1>3, <2>1, <2>3 DEF NotifyPush, TypeOK
  <1>4. CASE NotifyFails(m)
    <2>1. notify' \in [Message -> Notify]
      BY <1>0, <1>4 DEF NotifyFails, TypeOK, Notify
    <2> QED
      BY <1>4, <2>1 DEF NotifyFails, TypeOK
  <1>5. ASSUME NEW v \in User,
               NEW e \in {"user channel", "conversation", "nothing"},
               NotifyUser(m, v, e)
        PROVE  TypeOK'
    <2>1. notify' \in [Message -> Notify]
      <3>1. \/ notify' = [notify EXCEPT ![m].todo = @ \ {v}]
            \/ notify' = [notify EXCEPT ![m].todo = @ \ {v},
                                       ![m].offline = @ \cup {v}]
        BY <1>5 DEF NotifyUser
      <3>2. /\ [notify[m] EXCEPT !.todo = @ \ {v}] \in Notify
            /\ [notify[m] EXCEPT !.todo = @ \ {v},
                                 !.offline = @ \cup {v}] \in Notify
        BY <1>0 DEF Notify
      <3> QED
        BY <3>1, <3>2 DEF TypeOK
    <2>2. <<v, m, "channel">> \in User \X Message \X Way
      BY DEF Way
    <2>3. reached' \subseteq User \X Message \X Way
      <3>1. reached' \subseteq reached \cup {<<v, m, "channel">>}
        BY <1>5 DEF NotifyUser
      <3> QED
        BY <2>2, <3>1 DEF TypeOK
    <2>4. skipped' \subseteq User \X Message
      <3>1. skipped' \subseteq skipped \cup {<<v, m>>}
        BY <1>5 DEF NotifyUser
      <3>2. <<v, m>> \in User \X Message
        OBVIOUS
      <3>3. skipped \subseteq User \X Message
        BY DEF TypeOK
      <3> QED
        BY <3>1, <3>2, <3>3
    <2> QED
      BY <1>5, <2>1, <2>3, <2>4 DEF NotifyUser, TypeOK
  <1> QED
    BY <1>1, <1>2, <1>3, <1>4, <1>5 DEF NotifyNext

LEMMA RequestType ==
  ASSUME TypeOK, NEW r \in Request, RequestNext(r)
  PROVE  TypeOK'
  <1> USE DEF dbVars, history
  <1>0. request[r] \in Delete /\ NoDelete \in Delete
    BY DEF TypeOK, NoDelete, Delete
  <1>1. ASSUME NEW u \in User, NEW m \in Message, DeleteResolve(r, u, m)
        PROVE  TypeOK'
    <2>1. [pc |-> "flush", m |-> {m}, by |-> u] \in Delete
      BY DEF Delete
    <2>2. request' \in [Request -> Delete]
      BY <1>1, <2>1 DEF DeleteResolve, TypeOK
    <2> QED
      BY <1>1, <2>2 DEF DeleteResolve, TypeOK
  <1>2. CASE DeleteFlush(r)
    <2>1. request' \in [Request -> Delete]
      BY <1>0, <1>2 DEF DeleteFlush, TypeOK, Delete
    <2> QED
      BY <1>2, <2>1 DEF DeleteFlush, TypeOK
  <1>4. CASE DeleteCommit(r)
    <2>1. request' \in [Request -> Delete]
      BY <1>0, <1>4 DEF DeleteCommit, TypeOK
    <2>2. row' \in [Message -> Row]
      BY <1>0, <1>4 DEF DeleteCommit, TypeOK, Row, Status
    <2> QED
      BY <1>4, <2>1, <2>2 DEF DeleteCommit, TypeOK
  <1>5. CASE DeleteAbort(r)
    <2>1. request' \in [Request -> Delete]
      BY <1>0, <1>5 DEF DeleteAbort, TypeOK
    <2> QED
      BY <1>5, <2>1 DEF DeleteAbort, TypeOK
  <1>3. CASE DeletePublish(r)
    <2>1. request' \in [Request -> Delete]
      BY <1>0, <1>3 DEF DeletePublish, TypeOK, Delete
    <2>2. [type |-> "deletion", ms |-> request[r].m, by |-> request[r].by,
           skip |-> {}, added |-> FALSE] \in Event
      BY <1>0, <1>3 DEF DeletePublish, TypeOK, Delete, Event
    <2>3. channel' \in Seq(Event)
      BY <1>3, <2>2, PendingAppend DEF DeletePublish, TypeOK
    <2> QED
      BY <1>3, <2>1, <2>3 DEF DeletePublish, TypeOK
  <1> QED
    BY <1>1, <1>2, <1>3, <1>4, <1>5 DEF RequestNext

LEMMA UserType == TypeOK /\ UserNext => TypeOK'
  <1> SUFFICES ASSUME TypeOK, UserNext PROVE TypeOK'
    OBVIOUS
  <1> USE DEF dbVars, history
  <1>1. ASSUME NEW v \in User, NEW u \in User,
               BlockUser(v, u) \/ UnblockUser(v, u)
        PROVE  TypeOK'
    BY <1>1 DEF BlockUser, UnblockUser, TypeOK
  <1>2. ASSUME NEW u \in Leavers, Leave(u)
        PROVE  TypeOK'
    BY <1>2 DEF Leave, TypeOK
  <1>3. ASSUME NEW u \in Leavers, DeleteAccount(u)
        PROVE  TypeOK'
    <2>1. row' \in [Message -> Row]
      BY <1>3 DEF DeleteAccount, TypeOK, Row, Status
    <2> QED
      BY <1>3, <2>1 DEF DeleteAccount, TypeOK
  <1> QED
    BY <1>1, <1>2, <1>3 DEF UserNext

LEMMA NextType == TypeOK /\ [Next]_vars => TypeOK'
  <1> SUFFICES ASSUME TypeOK, [Next]_vars PROVE TypeOK'
    OBVIOUS
  <1>1. CASE UNCHANGED vars
    BY <1>1 DEF vars, dbVars, history, TypeOK
  <1>2. ASSUME NEW s \in Socket, SocketNext(s) PROVE TypeOK'
    BY <1>2, SendType, AnswerType DEF SocketNext
  <1> QED
    BY <1>1, <1>2, ChannelType, NotifyType, RequestType, UserType DEF Next

\* The state of Messaging is always well typed.
THEOREM TypeCorrect == Spec => []TypeOK
  BY InitType, NextType, PTL DEF Spec

------------------------------------------------------------------------------
(* RowInv: what frames, requests, events and tasks speak of is stored. *)

LEMMA InitRow == Init => RowInv
  <1> SUFFICES ASSUME Init PROVE RowInv
    OBVIOUS
  <1>1. Pending = {}
    <2>1. channel = <<>>
      BY DEF Init
    <2>2. DOMAIN channel = {}
      BY <2>1
    <2> QED
      BY <2>2 DEF Pending
  <1>2. FrameRows /\ DistinctSends
    BY DEF Init, Idle, FrameRows, DistinctSends, Sending
  <1>3. RequestRows
    BY DEF Init, NoDelete, RequestRows
  <1>4. OtherRows
    BY <1>1 DEF Init, NoNotify, OtherRows
  <1> QED
    BY <1>2, <1>3, <1>4 DEF RowInv

LEMMA RowQuiet ==
  ASSUME TypeOK, RowInv,
         UNCHANGED <<row, frame, request, channel, notify, reached>>
  PROVE  RowInv'
  BY DEF RowInv, FrameRows, RequestRows, OtherRows, DistinctSends, Sending,
         Stored, Pending

\* One frame changes and nothing it speaks of does.
LEMMA RowOneFrame ==
  ASSUME TypeOK, RowInv, NEW s \in Socket,
         \A t \in Socket \ {s} : frame'[t] = frame[t],
         UNCHANGED <<row, request, channel, notify, reached>>,
         \/ frame'[s] = Idle
         \/ /\ frame'[s].kind # "message" /\ frame'[s].pc # "blockers"
            /\ \A m \in frame'[s].ms : row[m].status # "none"
         \/ /\ frame'[s].kind = "message" /\ frame[s].kind = "message"
            /\ frame[s].pc = "blockers" /\ frame'[s].pc = "commit"
            /\ frame'[s].ms = frame[s].ms
         \/ /\ frame'[s].kind = "message" /\ frame'[s].pc = "blockers"
            /\ \E m \in Message : /\ frame'[s].ms = {m}
                                  /\ row[m].status = "none"
                                  /\ \A t \in Socket : m \notin frame[t].ms
  PROVE  RowInv'
  <1>1. FrameRows'
    BY DEF RowInv, FrameRows, Sending, Idle
  <1>2. DistinctSends'
    BY DEF RowInv, FrameRows, DistinctSends, Sending, Idle
  <1> QED
    BY <1>1, <1>2 DEF RowInv, RequestRows, OtherRows, Stored, Pending

LEMMA RowSocket ==
  ASSUME TypeOK, RowInv, NEW s \in Socket, SocketNext(s)
  PROVE  RowInv'
  <1> USE DEF dbVars, history
  <1>1. CASE Connect(s) \/ Disconnect(s)
    BY <1>1, RowQuiet DEF Connect, Disconnect
  <1>2. CASE HandlerFails(s)
    BY <1>2, RowOneFrame DEF HandlerFails, Die, Finish, TypeOK
  <1>3. ASSUME NEW m \in Message, SendReadOthers(s, m) PROVE RowInv'
    BY <1>3, RowOneFrame DEF SendReadOthers, TypeOK, Idle
  <1>4. ASSUME NEW m \in Message, ReactionRead(s, m) PROVE RowInv'
    BY <1>4, RowOneFrame DEF ReactionRead, TypeOK, Idle, Stored
  <1>5. ASSUME NEW kind \in {"delivery", "read"}, NEW ms \in SUBSET Message,
               ReceiptRead(s, kind, ms)
        PROVE  RowInv'
    BY <1>5, RowOneFrame DEF ReceiptRead, TypeOK, Idle, Stored
  <1>6. CASE SendReadBlockers(s)
    <2>1. \/ frame'[s] = Idle
          \/ /\ frame'[s].kind = frame[s].kind /\ frame'[s].ms = frame[s].ms
             /\ frame[s].pc = "blockers" /\ frame'[s].pc = "commit"
      BY <1>6 DEF SendReadBlockers, TypeOK
    <2>2. frame[s].kind = "message"
      BY <1>6 DEF SendReadBlockers, RowInv, FrameRows
    <2> QED
      BY <1>6, <2>1, <2>2, RowOneFrame DEF SendReadBlockers, TypeOK
  <1>7. CASE SendCommit(s)
    <2>1. CASE Owner[s] \notin users
      BY <1>7, <2>1, RowOneFrame DEF SendCommit, Die, Finish, TypeOK
    <2>2. CASE Owner[s] \in users
      <3>1. /\ \A m \in Message \ frame[s].ms : row'[m] = row[m]
            /\ \A m \in frame[s].ms : row'[m].status = "live"
        BY <1>7, <2>2 DEF SendCommit, TypeOK, Frame, NoRow
      <3>2. /\ \A t \in Socket \ {s} : frame'[t] = frame[t]
            /\ frame'[s].pc = "publish" /\ frame'[s].kind = "message"
            /\ frame'[s].ms = frame[s].ms
            /\ UNCHANGED <<request, channel, notify, reached>>
        <4>1. /\ frame' = [frame EXCEPT ![s].pc = "publish"]
              /\ frame[s].kind = "message"
          BY <1>7, <2>2 DEF SendCommit
        <4>2. frame \in [Socket -> Frame] /\ frame[s] \in Frame
          BY DEF TypeOK
        <4>3. UNCHANGED <<request, channel, notify, reached>>
          BY <1>7 DEF SendCommit
        <4> QED
          BY <4>1, <4>2, <4>3 DEF Frame
      <3>3. Sending(s) /\ frame[s].pc = "commit"
        BY <1>7 DEF SendCommit, Sending
      <3>4. \A m \in frame[s].ms : row[m].status = "none"
        BY <3>3 DEF RowInv, FrameRows
      <3>5. DistinctSends'
        BY <3>2, <3>3 DEF RowInv, DistinctSends, Sending
      <3>6. FrameRows'
        <4>1. ASSUME NEW t \in Socket, t # s
              PROVE  \A m \in frame[t].ms : row'[m] = row[m]
          BY <3>1, <3>3, <3>4, <4>1
             DEF RowInv, FrameRows, DistinctSends, TypeOK, Frame
        <4> QED
          BY <3>1, <3>2, <3>3, <4>1 DEF RowInv, FrameRows, Sending
      <3>7. RequestRows' /\ OtherRows'
        BY <3>1, <3>2, <3>4
           DEF RowInv, RequestRows, OtherRows, Stored, Pending, TypeOK, Delete
      <3> QED
        BY <3>5, <3>6, <3>7 DEF RowInv
    <2> QED
      BY <2>1, <2>2
  <1>8. CASE SendPublish(s) \/ AnswerPublish(s)
    <2>1. /\ \A t \in Socket \ {s} : frame'[t] = frame[t]
          /\ frame'[s] = Idle
          /\ UNCHANGED <<row, request, reached>>
      BY <1>8 DEF SendPublish, AnswerPublish, Finish, TypeOK
    <2>2. \A m \in frame[s].ms : row[m].status # "none"
      BY <1>8 DEF SendPublish, AnswerPublish, RowInv, FrameRows, Sending
    <2>3. \E e \in Event : e.ms = frame[s].ms /\ Publish(e)
      <3>1. frame[s] \in Frame /\ Owner[s] \in User
        BY OwnerAssumption DEF TypeOK
      <3>2. /\ [type |-> "message", ms |-> frame[s].ms, by |-> Owner[s],
                skip |-> frame[s].skip, added |-> FALSE] \in Event
            /\ AnswerPublish(s) =>
                 [type |-> frame[s].kind, ms |-> frame[s].ms, by |-> Owner[s],
                  skip |-> {}, added |-> frame[s].added] \in Event
        BY <3>1 DEF AnswerPublish, Event, Frame
      <3> QED
        BY <1>8, <3>2 DEF SendPublish, AnswerPublish
    <2>4. PICK e \in Event : e.ms = frame[s].ms /\ Pending' = Pending \cup {e}
      BY <2>3, PendingAppend DEF TypeOK
    <2>5. \A m \in Message \ frame[s].ms : notify'[m] = notify[m]
      BY <1>8 DEF SendPublish, AnswerPublish, TypeOK
    <2>6. FrameRows' /\ DistinctSends'
      BY <2>1 DEF RowInv, FrameRows, DistinctSends, Sending, Idle
    <2>7. RequestRows' /\ OtherRows'
      BY <2>1, <2>2, <2>4, <2>5 DEF RowInv, RequestRows, OtherRows, Stored
    <2> QED
      BY <2>6, <2>7 DEF RowInv
  <1>9. CASE ReceiptCommit(s)
    <2>0. /\ \/ frame' = [frame EXCEPT ![s].pc = "publish"]
             \/ frame' = [frame EXCEPT ![s] = Idle]
          /\ frame[s].kind # "message"
          /\ UNCHANGED <<request, channel, notify, reached>>
      BY <1>9 DEF ReceiptCommit, Die, Finish
    <2>1. \A m \in Message : row'[m].status = row[m].status
      <3>1. ASSUME NEW m \in Message
            PROVE  row'[m] = row[m] \/ row'[m] = Acknowledged(s, m)
        BY <1>9 DEF ReceiptCommit
      <3>2. \A m \in Message : Acknowledged(s, m).status = row[m].status
        BY DEF Acknowledged, TypeOK, Row
      <3> QED
        BY <3>1, <3>2
    <2>2. /\ \A t \in Socket \ {s} : frame'[t] = frame[t]
          /\ UNCHANGED <<request, channel, notify, reached>>
          /\ \/ frame'[s] = Idle
             \/ /\ frame'[s].pc = "publish" /\ frame'[s].kind = frame[s].kind
                /\ frame'[s].ms = frame[s].ms
          /\ frame[s].kind # "message"
      <3>1. frame \in [Socket -> Frame] /\ frame[s] \in Frame
        BY DEF TypeOK
      <3> QED
        BY <2>0, <3>1 DEF Frame
    <2>3. FrameRows' /\ DistinctSends'
      BY <2>1, <2>2
         DEF RowInv, FrameRows, DistinctSends, Sending, Idle, TypeOK, Frame
    <2>4. RequestRows' /\ OtherRows'
      BY <2>1, <2>2
         DEF RowInv, RequestRows, OtherRows, Stored, Pending, TypeOK, Delete
    <2> QED
      BY <2>3, <2>4 DEF RowInv
  <1>10. CASE ReactionCommit(s)
    <2>1. /\ \A t \in Socket \ {s} : frame'[t] = frame[t]
          /\ UNCHANGED <<row, request, channel, notify, reached>>
          /\ \/ frame'[s] = Idle
             \/ /\ frame'[s].pc = "publish" /\ frame'[s].kind = frame[s].kind
                /\ frame'[s].ms = frame[s].ms
          /\ frame[s].kind = "reaction" /\ frame[s].pc = "commit"
      <3>1. /\ \/ frame' = [frame EXCEPT ![s].pc = "publish"]
               \/ frame' = [frame EXCEPT ![s] = Idle]
            /\ frame[s].kind = "reaction" /\ frame[s].pc = "commit"
            /\ UNCHANGED <<row, request, channel, notify, reached>>
        BY <1>10 DEF ReactionCommit, Die, Finish
      <3>2. frame \in [Socket -> Frame] /\ frame[s] \in Frame
        BY DEF TypeOK
      <3> QED
        BY <3>1, <3>2 DEF Frame
    <2>2. \A m \in frame[s].ms : row[m].status # "none"
      BY <2>1 DEF RowInv, FrameRows, Sending
    <2> QED
      BY <2>1, <2>2, RowOneFrame
  <1> QED
    BY <1>1, <1>2, <1>3, <1>4, <1>5, <1>6, <1>7, <1>8, <1>9, <1>10
       DEF SocketNext

LEMMA RowChannel ==
  ASSUME TypeOK, RowInv, Broadcast \/ LoseEvent
  PROVE  RowInv'
  <1> USE DEF dbVars, history
  <1>1. /\ Pending' \subseteq Pending /\ Head(channel) \in Pending
        /\ UNCHANGED <<row, frame, request, notify>>
    BY PendingTail DEF Broadcast, LoseEvent, TypeOK
  <1>2. \A v \in User, m \in Message, way \in Way :
          <<v, m, way>> \in reached' \ reached => m \in Head(channel).ms
    BY DEF Broadcast, LoseEvent
  <1>3. OtherRows'
    BY <1>1, <1>2 DEF RowInv, OtherRows
  <1> QED
    BY <1>1, <1>3
       DEF RowInv, FrameRows, RequestRows, DistinctSends, Sending, Stored

LEMMA RowNotify ==
  ASSUME TypeOK, RowInv, NEW m \in Message, NotifyNext(m)
  PROVE  RowInv'
  <1> USE DEF dbVars, history
  <1>1. /\ UNCHANGED <<row, frame, request, channel>>
        /\ notify[m].pc # "none"
        /\ \A n \in Message \ {m} : notify'[n] = notify[n]
    <2>1. CASE NotifyOthers(m)
      BY <2>1 DEF NotifyOthers, TypeOK
    <2>2. CASE NotifyPresence(m)
      BY <2>2 DEF NotifyPresence, TypeOK
    <2>3. CASE NotifyPush(m)
      BY <2>3 DEF NotifyPush, TypeOK
    <2>4. CASE NotifyFails(m)
      BY <2>4 DEF NotifyFails, TypeOK
    <2>5. ASSUME NEW v \in User, NEW elsewhere, NotifyUser(m, v, elsewhere)
          PROVE  /\ UNCHANGED <<row, frame, request, channel>>
                 /\ notify[m].pc # "none"
                 /\ \A n \in Message \ {m} : notify'[n] = notify[n]
      BY <2>5 DEF NotifyUser, TypeOK
    <2> QED
      BY <2>1, <2>2, <2>3, <2>4, <2>5 DEF NotifyNext
  <1>2. row[m].status # "none"
    BY <1>1 DEF RowInv, OtherRows
  <1>3. \A v \in User, n \in Message, way \in Way :
          <<v, n, way>> \in reached' \ reached => n = m
    <2>1. CASE UNCHANGED reached
      BY <2>1
    <2>2. CASE NotifyPush(m)
      BY <2>2 DEF NotifyPush
    <2>3. ASSUME NEW v \in User, NEW elsewhere, NotifyUser(m, v, elsewhere)
          PROVE  reached' \subseteq reached \cup {<<v, m, "channel">>}
      BY <2>3 DEF NotifyUser
    <2>4. NotifyOthers(m) \/ NotifyPresence(m) \/ NotifyFails(m)
            => UNCHANGED reached
      BY DEF NotifyOthers, NotifyPresence, NotifyFails
    <2> QED
      BY <2>1, <2>2, <2>3, <2>4 DEF NotifyNext
  <1>4. OtherRows'
    BY <1>1, <1>2, <1>3 DEF RowInv, OtherRows, Pending
  <1> QED
    BY <1>1, <1>4
       DEF RowInv, FrameRows, RequestRows, DistinctSends, Sending, Stored

LEMMA RowRequest ==
  ASSUME TypeOK, RowInv, NEW r \in Request, RequestNext(r)
  PROVE  RowInv'
  <1> USE DEF dbVars, history
  <1>1. /\ UNCHANGED <<frame, notify, reached>>
        /\ \A q \in Request \ {r} : request'[q] = request[q]
    BY DEF RequestNext, DeleteResolve, DeleteFlush, DeletePublish,
           DeleteCommit, DeleteAbort, TypeOK
  <1>2. ASSUME NEW u \in User, NEW m \in Message, DeleteResolve(r, u, m)
        PROVE  RowInv'
    <2>1. /\ request'[r].pc = "flush" /\ request'[r].m = {m}
          /\ request'[r].by = u /\ row[m].status # "none"
          /\ UNCHANGED <<row, channel>>
      BY <1>2 DEF DeleteResolve, TypeOK
    <2>2. RequestRows'
      BY <1>1, <2>1 DEF RowInv, RequestRows, Stored
    <2> QED
      BY <1>1, <2>1, <2>2
         DEF RowInv, FrameRows, OtherRows, DistinctSends, Sending, Pending
  <1>3. CASE DeleteFlush(r)
    <2>1. /\ request'[r].pc = "publish" /\ request'[r].m = request[r].m
          /\ request'[r].by = request[r].by /\ request[r].pc = "flush"
          /\ \A m \in request[r].m : Stored(m)
          /\ UNCHANGED <<row, channel>>
      BY <1>3 DEF DeleteFlush, TypeOK
    <2>2. RequestRows'
      BY <1>1, <2>1 DEF RowInv, RequestRows, Stored
    <2>3. OtherRows'
      BY <1>1, <2>1 DEF RowInv, OtherRows, Pending
    <2> QED
      BY <1>1, <2>1, <2>2, <2>3
         DEF RowInv, FrameRows, DistinctSends, Sending
  <1>4. CASE DeletePublish(r)
    <2>1. /\ request'[r].pc = "commit" /\ request'[r].m = request[r].m
          /\ request'[r].by = request[r].by /\ request[r].pc = "publish"
          /\ UNCHANGED row
      BY <1>4 DEF DeletePublish, TypeOK
    <2>2. [type |-> "deletion", ms |-> request[r].m, by |-> request[r].by,
           skip |-> {}, added |-> FALSE] \in Event
      BY DEF TypeOK, Delete, Event
    <2>3. PICK e \in Event : e.ms = request[r].m /\ Pending' = Pending \cup {e}
      BY <1>4, <2>2, PendingAppend DEF DeletePublish, TypeOK
    <2>4. RequestRows'
      BY <1>1, <2>1 DEF RowInv, RequestRows, Stored
    <2>5. OtherRows'
      BY <1>1, <2>1, <2>3 DEF RowInv, RequestRows, OtherRows
    <2> QED
      BY <1>1, <2>1, <2>4, <2>5 DEF RowInv, FrameRows, DistinctSends, Sending
  <1>5. CASE DeleteCommit(r)
    <2>1. /\ request'[r] = NoDelete /\ UNCHANGED channel
          /\ \A m \in Message : \/ row'[m] = row[m]
                                \/ m \in request[r].m /\ row'[m].status = "wiped"
      BY <1>5 DEF DeleteCommit, TypeOK, Row
    <2>2. \A m \in Message : row'[m].status = "none" <=> row[m].status = "none"
      BY <2>1 DEF RowInv, RequestRows
    <2>3. FrameRows' /\ DistinctSends'
      BY <1>1, <2>2 DEF RowInv, FrameRows, DistinctSends, Sending, TypeOK, Frame
    <2>4. RequestRows'
      <3>1. request'[r].pc = "idle" /\ request'[r].m = {}
        BY <2>1 DEF NoDelete
      <3>2. ASSUME NEW q \in Request, q # r
            PROVE  /\ request'[q] = request[q] /\ request[q].m \subseteq Message
                   /\ \A m \in request[q].m : Stored(m) => Stored(m)'
        BY <1>1, <2>1, <3>2 DEF TypeOK, Delete, Stored
      <3> QED
        BY <2>2, <3>1, <3>2 DEF RowInv, RequestRows
    <2>5. OtherRows'
      BY <1>1, <2>1, <2>2 DEF RowInv, OtherRows, Pending
    <2> QED
      BY <2>3, <2>4, <2>5 DEF RowInv
  <1>6. CASE DeleteAbort(r)
    <2>1. request'[r] = NoDelete /\ UNCHANGED <<row, channel>>
      BY <1>6 DEF DeleteAbort, TypeOK
    <2>2. RequestRows'
      BY <1>1, <2>1 DEF RowInv, RequestRows, Stored, NoDelete
    <2> QED
      BY <1>1, <2>1, <2>2
         DEF RowInv, FrameRows, OtherRows, DistinctSends, Sending, Pending
  <1> QED
    BY <1>2, <1>3, <1>4, <1>5, <1>6 DEF RequestNext

LEMMA RowUser ==
  ASSUME TypeOK, RowInv, UserNext
  PROVE  RowInv'
  <1> USE DEF dbVars, history
  <1>1. ASSUME NEW v \in User, NEW u \in User,
               BlockUser(v, u) \/ UnblockUser(v, u)
        PROVE  RowInv'
    BY <1>1, RowQuiet DEF BlockUser, UnblockUser
  <1>2. ASSUME NEW u \in Leavers, Leave(u) PROVE RowInv'
    BY <1>2, RowQuiet DEF Leave
  <1>3. ASSUME NEW u \in Leavers, DeleteAccount(u) PROVE RowInv'
    <2>1. /\ \A m \in Message : \/ row'[m] = row[m]
                                \/ Stored(m) /\ ~Locked(m)
                                   /\ row'[m].status = "purged"
          /\ UNCHANGED <<frame, request, channel, notify, reached>>
      BY <1>3 DEF DeleteAccount, TypeOK, Row
    <2>2. \A m \in Message : row'[m].status = "none" <=> row[m].status = "none"
      BY <2>1 DEF Stored
    <2>3. FrameRows' /\ DistinctSends'
      BY <2>1, <2>2 DEF RowInv, FrameRows, DistinctSends, Sending, TypeOK, Frame
    <2>4. RequestRows'
      BY <2>1, <2>2 DEF RowInv, RequestRows, Stored, Locked, TypeOK, Delete
    <2>5. OtherRows'
      BY <2>1, <2>2 DEF RowInv, OtherRows, Pending
    <2> QED
      BY <2>3, <2>4, <2>5 DEF RowInv
  <1> QED
    BY <1>1, <1>2, <1>3 DEF UserNext

LEMMA NextRow == TypeOK /\ RowInv /\ [Next]_vars => RowInv'
  <1> SUFFICES ASSUME TypeOK, RowInv, [Next]_vars PROVE RowInv'
    OBVIOUS
  <1>1. CASE UNCHANGED vars
    BY <1>1, RowQuiet DEF vars, dbVars, history
  <1> QED
    BY <1>1, RowSocket, RowChannel, RowNotify, RowRequest, RowUser DEF Next

------------------------------------------------------------------------------
(* SkipInv: the skip list travels with the message. *)

LEMMA InitSkip == Init => SkipInv
  <1> SUFFICES ASSUME Init PROVE SkipInv
    OBVIOUS
  <1>1. shield = {}
    BY DEF Init
  <1> QED
    BY <1>1 DEF SkipInv, ShieldBlocked, ShieldSender, FrameSkips, EventSkips,
                NotifySkips, BlockRespected, Shields

\* Steps that raise no shield, send no message event and keep the skip lists.
LEMMA SkipStable ==
  ASSUME SkipInv, shield' \subseteq shield, participants' \subseteq participants,
         ShieldBlocked',
         \A s \in Socket :
           \/ ~Sending(s)'
           \/ frame'[s] = frame[s]
           \/ /\ Sending(s) /\ frame[s].pc # "blockers"
              /\ frame'[s].ms = frame[s].ms /\ frame'[s].skip = frame[s].skip,
         \A e \in Pending' : e.type = "message" => e \in Pending,
         UNCHANGED <<notify, reached>>
  PROVE  SkipInv'
  <1>1. ASSUME NEW S, NEW m, Shields(S, m) PROVE Shields(S, m)'
    BY <1>1 DEF Shields
  <1>2. ShieldSender'
    BY DEF SkipInv, ShieldSender, Sending
  <1>3. FrameSkips'
    <2> SUFFICES ASSUME NEW s \in Socket, Sending(s)', frame'[s].pc # "blockers",
                        NEW m \in frame'[s].ms
                 PROVE  Shields(frame[s].skip, m)' /\ frame'[s].skip = frame[s].skip
      BY DEF FrameSkips, Shields
    <2>1. /\ Sending(s) /\ frame[s].pc # "blockers"
          /\ m \in frame[s].ms /\ frame'[s].skip = frame[s].skip
      BY DEF Sending
    <2>2. Shields(frame[s].skip, m)
      BY <2>1 DEF SkipInv, FrameSkips
    <2> QED
      BY <2>1, <2>2 DEF Shields
  <1>4. EventSkips'
    BY DEF SkipInv, EventSkips, Shields
  <1>5. NotifySkips'
    BY DEF SkipInv, NotifySkips, Shields
  <1>6. BlockRespected'
    BY DEF SkipInv, BlockRespected
  <1> QED
    BY <1>2, <1>3, <1>4, <1>5, <1>6 DEF SkipInv

LEMMA SkipSendReadOthers ==
  ASSUME TypeOK, RowInv, SkipInv, NEW s \in Socket, NEW m \in Message,
         SendReadOthers(s, m)
  PROVE  SkipInv'
  <1> USE DEF dbVars
  <1>1. /\ frame'[s].ms = {m} /\ frame'[s].pc = "blockers"
        /\ \A t \in Socket \ {s} : frame'[t] = frame[t] /\ m \notin frame[t].ms
        /\ UNCHANGED <<participants, blocked, channel, notify, reached>>
    BY DEF SendReadOthers, Idle, TypeOK
  <1>2. \A t \in shield' : \/ t \in shield /\ t[3] # m
                           \/ t[3] = m /\ t[2] = Owner[s] /\ <<t[1], t[2]>> \in blocked
    <2> SUFFICES ASSUME NEW t \in shield'
                 PROVE  \/ t \in shield /\ t[3] # m
                        \/ /\ t[3] = m /\ t[2] = Owner[s]
                           /\ <<t[1], t[2]>> \in blocked
      OBVIOUS
    <2>1. CASE t \in shield /\ t[3] # m
      BY <2>1
    <2>2. CASE \E v \in User : /\ t = <<v, Owner[s], m>>
                              /\ <<v, Owner[s]>> \in blocked
      BY <2>2
    <2> QED
      BY <2>1, <2>2 DEF SendReadOthers
  <1>3. ASSUME NEW S, NEW n, n # m, Shields(S, n) PROVE Shields(S, n)'
    BY <1>1, <1>2, <1>3 DEF Shields
  <1>4. /\ notify[m].pc = "none" /\ \A e \in Pending : m \notin e.ms
        /\ \A v \in User, way \in Way : <<v, m, way>> \notin reached
    BY DEF SendReadOthers, RowInv, OtherRows
  <1>5. ShieldBlocked'
    BY <1>1, <1>2 DEF SkipInv, ShieldBlocked
  <1>6. ShieldSender'
    <2>1. ASSUME NEW t \in shield', t[3] \in frame'[s].ms PROVE t[2] = Owner[s]
      BY <1>1, <1>2, <2>1
    <2>2. ASSUME NEW x \in Socket, x # s, NEW t \in shield', Sending(x)',
                 t[3] \in frame'[x].ms
          PROVE  t[2] = Owner[x]
      <3>1. frame'[x] = frame[x] /\ t[3] # m /\ t \in shield
        BY <1>1, <1>2, <2>2
      <3> QED
        BY <2>2, <3>1 DEF SkipInv, ShieldSender, Sending
    <2> QED
      BY <2>1, <2>2 DEF ShieldSender
  <1>7. FrameSkips'
    <2>1. ASSUME NEW t \in Socket, Sending(t)', frame'[t].pc # "blockers",
                 NEW n \in frame'[t].ms
          PROVE  Shields(frame[t].skip, n) /\ n # m /\ frame'[t] = frame[t]
      BY <1>1, <2>1 DEF SkipInv, FrameSkips, Sending
    <2> QED
      BY <1>2, <1>1, <2>1 DEF FrameSkips, Shields
  <1>8. EventSkips'
    <2>1. Pending' = Pending
      BY <1>1 DEF Pending
    <2> QED
      BY <1>1, <1>2, <1>4, <2>1 DEF SkipInv, EventSkips, Shields
  <1>9. NotifySkips'
    BY <1>1, <1>2, <1>4 DEF SkipInv, NotifySkips, Shields
  <1>10. BlockRespected'
    <2>1. participants \subseteq User
      BY DEF TypeOK
    <2> QED
      BY <1>1, <1>2, <1>4, <2>1 DEF SkipInv, BlockRespected
  <1> QED
    BY <1>5, <1>6, <1>7, <1>8, <1>9, <1>10 DEF SkipInv

LEMMA SkipSendReadBlockers ==
  ASSUME TypeOK, RowInv, SkipInv, NEW s \in Socket, SendReadBlockers(s)
  PROVE  SkipInv'
  <1> USE DEF dbVars, history
  <1>1. /\ \A t \in Socket \ {s} : frame'[t] = frame[t]
        /\ UNCHANGED <<participants, blocked, channel, notify, reached, shield>>
        /\ \/ frame'[s] = Idle
           \/ /\ frame'[s].ms = frame[s].ms
              /\ frame'[s].skip = RecipientsBlocking(Owner[s])
    BY DEF SendReadBlockers, TypeOK
  <1>2. Sending(s)
    BY DEF SendReadBlockers, RowInv, FrameRows, Sending
  <1>3. ASSUME NEW m \in frame[s].ms
        PROVE  Shields(RecipientsBlocking(Owner[s]), m)
    <2> SUFFICES ASSUME NEW t \in shield, t[3] = m, t[1] \in participants
                 PROVE  t[1] \in RecipientsBlocking(Owner[s])
      BY DEF Shields
    <2>1. t[2] = Owner[s] /\ <<t[1], t[2]>> \in blocked
      BY <1>2 DEF SkipInv, ShieldSender, ShieldBlocked
    <2>2. <<t[1], t[2]>>[1] # <<t[1], t[2]>>[2]
      BY <2>1, BlockPairsAssumption DEF TypeOK
    <2> QED
      BY <2>1, <2>2 DEF RecipientsBlocking
  <1>4. ShieldBlocked' /\ EventSkips' /\ NotifySkips' /\ BlockRespected'
    BY <1>1 DEF SkipInv, ShieldBlocked, EventSkips, NotifySkips,
                BlockRespected, Shields, Pending
  <1>5. ShieldSender'
    BY <1>1, <1>2 DEF SkipInv, ShieldSender, Sending, Idle
  <1>6. FrameSkips'
    BY <1>1, <1>3 DEF SkipInv, FrameSkips, Sending, Shields, Idle
  <1> QED
    BY <1>4, <1>5, <1>6 DEF SkipInv

LEMMA SkipSendPublish ==
  ASSUME TypeOK, RowInv, SkipInv, NEW s \in Socket, SendPublish(s)
  PROVE  SkipInv'
  <1> USE DEF dbVars, history
  <1> DEFINE e == [type |-> "message", ms |-> frame[s].ms, by |-> Owner[s],
                   skip |-> frame[s].skip, added |-> FALSE]
  <1>1. /\ \A t \in Socket \ {s} : frame'[t] = frame[t]
        /\ frame'[s] = Idle
        /\ UNCHANGED <<participants, blocked, reached, shield>>
    BY DEF SendPublish, Finish, TypeOK
  <1>2. Sending(s) /\ frame[s].pc = "publish"
    BY DEF SendPublish, Sending
  <1>3. \A m \in frame[s].ms : Shields(frame[s].skip, m)
    BY <1>2 DEF SkipInv, FrameSkips
  <1>4. Pending' = Pending \cup {e}
    <2>1. frame[s] \in Frame /\ Owner[s] \in User
      BY OwnerAssumption DEF TypeOK
    <2>2. e \in Event
      BY <2>1 DEF Event, Frame
    <2> QED
      BY <2>2, PendingAppend DEF SendPublish, TypeOK
  <1>5. \A m \in Message :
          \/ m \notin frame[s].ms /\ notify'[m] = notify[m]
          \/ /\ m \in frame[s].ms /\ notify'[m].skip = frame[s].skip
             /\ notify'[m].todo = {} /\ notify'[m].offline = {}
    BY DEF SendPublish, NoNotify, TypeOK
  <1>6. ShieldBlocked' /\ BlockRespected'
    BY <1>1 DEF SkipInv, ShieldBlocked, BlockRespected
  <1>7. ShieldSender' /\ FrameSkips'
    BY <1>1 DEF SkipInv, ShieldSender, FrameSkips, Sending, Idle, Shields
  <1>8. EventSkips'
    BY <1>1, <1>3, <1>4 DEF SkipInv, EventSkips, Shields
  <1>9. NotifySkips'
    <2>1. participants \subseteq User
      BY DEF TypeOK
    <2> QED
      BY <1>1, <1>3, <1>5, <2>1 DEF SkipInv, NotifySkips, Shields
  <1> QED
    BY <1>6, <1>7, <1>8, <1>9 DEF SkipInv

LEMMA SkipSocket ==
  ASSUME TypeOK, RowInv, SkipInv, NEW s \in Socket, SocketNext(s)
  PROVE  SkipInv'
  <1> USE DEF dbVars, history
  <1>1. CASE Connect(s) \/ Disconnect(s)
    BY <1>1, SkipStable
       DEF Connect, Disconnect, SkipInv, ShieldBlocked, Sending, Pending
  <1>2. CASE \/ HandlerFails(s) \/ SendCommit(s) \/ ReceiptCommit(s)
             \/ ReactionCommit(s)
             \/ \E m \in Message : ReactionRead(s, m)
             \/ \E kind \in {"delivery", "read"}, ms \in SUBSET Message :
                  ReceiptRead(s, kind, ms)
    <2>1. UNCHANGED <<participants, blocked, channel, notify, reached, shield>>
      BY <1>2 DEF HandlerFails, SendCommit, ReceiptCommit, ReactionCommit,
                  ReactionRead, ReceiptRead
    <2>2. /\ \A t \in Socket \ {s} : frame'[t] = frame[t]
          /\ \/ ~Sending(s)'
             \/ /\ Sending(s) /\ frame[s].pc # "blockers"
                /\ frame'[s].ms = frame[s].ms /\ frame'[s].skip = frame[s].skip
      <3>1. frame \in [Socket -> Frame] /\ frame[s] \in Frame
        BY DEF TypeOK
      <3>2. CASE HandlerFails(s)
        BY <3>1, <3>2 DEF HandlerFails, Die, Finish, Sending, Idle
      <3>3. CASE SendCommit(s) \/ ReceiptCommit(s) \/ ReactionCommit(s)
        <4>1. \/ frame' = [frame EXCEPT ![s] = Idle]
              \/ /\ frame' = [frame EXCEPT ![s].pc = "publish"]
                 /\ frame[s].pc = "commit"
          BY <3>3 DEF SendCommit, ReceiptCommit, ReactionCommit, Die, Finish
        <4> QED
          BY <3>1, <4>1 DEF Sending, Idle, Frame
      <3>4. ASSUME NEW m \in Message, ReactionRead(s, m)
            PROVE  /\ \A t \in Socket \ {s} : frame'[t] = frame[t]
                   /\ ~Sending(s)'
        BY <3>1, <3>4 DEF ReactionRead, Idle, Sending
      <3>5. ASSUME NEW kind \in {"delivery", "read"}, NEW ms \in SUBSET Message,
                   ReceiptRead(s, kind, ms)
            PROVE  /\ \A t \in Socket \ {s} : frame'[t] = frame[t]
                   /\ ~Sending(s)'
        BY <3>1, <3>5 DEF ReceiptRead, Idle, Sending
      <3> QED
        BY <1>2, <3>2, <3>3, <3>4, <3>5
    <2> QED
      BY <2>1, <2>2, SkipStable DEF SkipInv, ShieldBlocked, Pending
  <1>3. CASE AnswerPublish(s)
    <2>1. /\ \A t \in Socket \ {s} : frame'[t] = frame[t]
          /\ frame'[s] = Idle
          /\ UNCHANGED <<participants, blocked, notify, reached, shield>>
      BY <1>3 DEF AnswerPublish, Finish, TypeOK
    <2>2. \A e \in Pending' : e.type = "message" => e \in Pending
      <3> DEFINE d == [type |-> frame[s].kind, ms |-> frame[s].ms,
                       by |-> Owner[s], skip |-> {}, added |-> frame[s].added]
      <3>1. frame[s] \in Frame /\ Owner[s] \in User
        BY OwnerAssumption DEF TypeOK
      <3>2. d \in Event /\ d.type # "message"
        BY <1>3, <3>1 DEF AnswerPublish, Event, Frame
      <3>3. Pending' = Pending \cup {d}
        BY <1>3, <3>2, PendingAppend DEF AnswerPublish, TypeOK
      <3> QED
        BY <3>2, <3>3
    <2> QED
      BY <2>1, <2>2, SkipStable DEF SkipInv, ShieldBlocked, Sending, Idle
  <1> QED
    BY <1>1, <1>2, <1>3, SkipSendReadOthers, SkipSendReadBlockers,
       SkipSendPublish DEF SocketNext

LEMMA SkipChannel ==
  ASSUME TypeOK, SkipInv, Broadcast \/ LoseEvent
  PROVE  SkipInv'
  <1> USE DEF dbVars, history
  <1>1. /\ Pending' \subseteq Pending /\ Head(channel) \in Pending
        /\ UNCHANGED <<participants, blocked, frame, notify, shield>>
    BY PendingTail DEF Broadcast, LoseEvent, TypeOK
  <1>2. CASE LoseEvent
    BY <1>1, <1>2, SkipStable DEF LoseEvent, SkipInv, ShieldBlocked
  <1>3. CASE Broadcast
    <2>1. ASSUME NEW t \in shield, t[1] \in participants, NEW way \in Way
          PROVE  <<t[1], t[3], way>> \notin reached'
      <3>1. <<t[1], t[3], way>> \notin reached
        BY <2>1 DEF SkipInv, BlockRespected
      <3>2. ASSUME Head(channel).type = "message", t[3] \in Head(channel).ms
            PROVE  t[1] \in Head(channel).skip
        BY <1>1, <2>1, <3>2 DEF SkipInv, EventSkips, Shields
      <3> QED
        BY <1>3, <3>1, <3>2 DEF Broadcast
    <2>2. BlockRespected'
      BY <1>1, <2>1 DEF BlockRespected
    <2> QED
      BY <1>1, <2>2 DEF SkipInv, ShieldBlocked, ShieldSender, FrameSkips,
                        EventSkips, NotifySkips, Shields, Sending
  <1> QED
    BY <1>2, <1>3

LEMMA SkipNotify ==
  ASSUME TypeOK, SkipInv, NEW m \in Message, NotifyNext(m)
  PROVE  SkipInv'
  <1> USE DEF dbVars, history
  <1> DEFINE Safe(n) == User \ (notify[n].todo \cup notify[n].offline)
  <1>1. /\ UNCHANGED <<participants, blocked, frame, channel, shield>>
        /\ notify[m].pc # "none"
        /\ \A n \in Message \ {m} : notify'[n] = notify[n]
        /\ notify'[m].skip = notify[m].skip
        /\ notify'[m].todo \cup notify'[m].offline
             \subseteq notify[m].todo \cup notify[m].offline
                          \cup (participants \ notify[m].skip)
        /\ \A n \in Message, way \in Way, v \in User :
             <<v, n, way>> \in reached' \ reached
               => n = m /\ v \in notify[m].todo \cup notify[m].offline
    <2>1. notify \in [Message -> Notify] /\ notify[m] \in Notify
      BY DEF TypeOK
    <2>2. CASE NotifyOthers(m)
      BY <2>1, <2>2 DEF NotifyOthers, Notify
    <2>3. CASE NotifyPresence(m)
      BY <2>1, <2>3 DEF NotifyPresence, Notify
    <2>4. CASE NotifyPush(m)
      BY <2>1, <2>4 DEF NotifyPush, Notify
    <2>5. CASE NotifyFails(m)
      BY <2>1, <2>5 DEF NotifyFails, Notify
    <2>6. ASSUME NEW v \in User, NEW elsewhere, NotifyUser(m, v, elsewhere)
          PROVE  /\ UNCHANGED <<participants, blocked, frame, channel, shield>>
                 /\ notify[m].pc # "none"
                 /\ \A n \in Message \ {m} : notify'[n] = notify[n]
                 /\ notify'[m].skip = notify[m].skip
                 /\ notify'[m].todo \cup notify'[m].offline
                      \subseteq notify[m].todo \cup notify[m].offline
                 /\ reached' \subseteq reached \cup {<<v, m, "channel">>}
                 /\ v \in notify[m].todo
      <3>1. /\ \/ notify' = [notify EXCEPT ![m].todo = @ \ {v}]
               \/ notify' = [notify EXCEPT ![m].todo = @ \ {v},
                                          ![m].offline = @ \cup {v}]
            /\ v \in notify[m].todo /\ notify[m].pc = "route"
            /\ reached' \subseteq reached \cup {<<v, m, "channel">>}
            /\ UNCHANGED <<participants, blocked, frame, channel, shield>>
        BY <2>6 DEF NotifyUser
      <3> QED
        BY <2>1, <3>1 DEF Notify
    <2> QED
      BY <2>2, <2>3, <2>4, <2>5, <2>6 DEF NotifyNext
  <1>2. Shields(notify[m].skip, m) /\ Shields(Safe(m), m)
    BY <1>1 DEF SkipInv, NotifySkips
  <1>3. ShieldBlocked' /\ ShieldSender' /\ FrameSkips' /\ EventSkips'
    BY <1>1 DEF SkipInv, ShieldBlocked, ShieldSender, FrameSkips, EventSkips,
                Sending, Shields, Pending
  <1>4. NotifySkips'
    <2> SUFFICES ASSUME NEW n \in Message, notify'[n].pc # "none",
                        NEW t \in shield, t[3] = n, t[1] \in participants
                 PROVE  /\ t[1] \in notify'[n].skip
                        /\ t[1] \in User
                        /\ t[1] \notin notify'[n].todo \cup notify'[n].offline
      BY <1>1 DEF NotifySkips, Shields
    <2>1. t[1] \in notify[n].skip /\ t[1] \in Safe(n)
      BY <1>1, <1>2 DEF SkipInv, NotifySkips, Shields
    <2> QED
      BY <1>1, <2>1
  <1>5. BlockRespected'
    <2>1. ASSUME NEW t \in shield, t[1] \in participants, NEW way \in Way
          PROVE  <<t[1], t[3], way>> \notin reached'
      <3>1. <<t[1], t[3], way>> \notin reached
        BY <2>1 DEF SkipInv, BlockRespected
      <3>2. t[1] \in User /\ t[3] \in Message
        BY <2>1 DEF TypeOK
      <3>3. t[3] = m => t[1] \in Safe(m)
        BY <1>2, <2>1 DEF Shields
      <3> QED
        BY <1>1, <3>1, <3>2, <3>3
    <2> QED
      BY <1>1, <2>1 DEF BlockRespected
  <1> QED
    BY <1>3, <1>4, <1>5 DEF SkipInv

LEMMA SkipRequest ==
  ASSUME TypeOK, SkipInv, NEW r \in Request, RequestNext(r)
  PROVE  SkipInv'
  <1> USE DEF dbVars, history
  <1>1. UNCHANGED <<participants, blocked, frame, notify, reached, shield>>
    BY DEF RequestNext, DeleteResolve, DeleteFlush, DeletePublish,
           DeleteCommit, DeleteAbort
  <1>2. \A e \in Pending' : e.type = "message" => e \in Pending
    <2>1. CASE DeletePublish(r)
      <3> DEFINE d == [type |-> "deletion", ms |-> request[r].m,
                       by |-> request[r].by, skip |-> {}, added |-> FALSE]
      <3>1. d \in Event /\ d.type # "message"
        BY DEF TypeOK, Delete, Event
      <3>2. Pending' = Pending \cup {d}
        BY <2>1, <3>1, PendingAppend DEF DeletePublish, TypeOK
      <3> QED
        BY <3>1, <3>2
    <2>2. CASE UNCHANGED channel
      BY <2>2 DEF Pending
    <2> QED
      BY <2>1, <2>2 DEF RequestNext, DeleteResolve, DeleteFlush, DeleteCommit,
                        DeleteAbort
  <1> QED
    BY <1>1, <1>2, SkipStable DEF SkipInv, ShieldBlocked, Sending

LEMMA SkipUser ==
  ASSUME TypeOK, SkipInv, UserNext
  PROVE  SkipInv'
  <1> USE DEF dbVars, history
  <1> DEFINE Kept == /\ shield' \subseteq shield
                     /\ participants' \subseteq participants
                     /\ ShieldBlocked'
                     /\ UNCHANGED <<frame, channel, notify, reached>>
  <1>1. Kept
    <2>1. ASSUME NEW v \in User, NEW u \in User, BlockUser(v, u)
          PROVE  Kept
      BY <2>1 DEF BlockUser, SkipInv, ShieldBlocked
    <2>2. ASSUME NEW v \in User, NEW u \in User, UnblockUser(v, u)
          PROVE  Kept
      BY <2>2 DEF UnblockUser, SkipInv, ShieldBlocked
    <2>3. ASSUME NEW u \in Leavers, Leave(u)
          PROVE  Kept
      BY <2>3 DEF Leave, SkipInv, ShieldBlocked
    <2>4. ASSUME NEW u \in Leavers, DeleteAccount(u)
          PROVE  Kept
      BY <2>4 DEF DeleteAccount, SkipInv, ShieldBlocked
    <2> QED
      BY <2>1, <2>2, <2>3, <2>4 DEF UserNext
  <1> QED
    BY <1>1, SkipStable DEF Sending, Pending

LEMMA NextSkip == TypeOK /\ RowInv /\ SkipInv /\ [Next]_vars => SkipInv'
  <1> SUFFICES ASSUME TypeOK, RowInv, SkipInv, [Next]_vars PROVE SkipInv'
    OBVIOUS
  <1>1. CASE UNCHANGED vars
    BY <1>1, SkipStable
       DEF vars, dbVars, history, SkipInv, ShieldBlocked, Sending, Pending
  <1> QED
    BY <1>1, SkipSocket, SkipChannel, SkipNotify, SkipRequest, SkipUser DEF Next

\* A block that was in force when the send of a message began keeps it from the
\* blocker: not in the thread, not on the user channel, not as a push.
THEOREM BlocksHold == Spec => []BlockRespected
  <1>1. Init => TypeOK /\ RowInv /\ SkipInv
    BY InitType, InitRow, InitSkip
  <1>2. TypeOK /\ RowInv /\ SkipInv /\ [Next]_vars
          => (TypeOK /\ RowInv /\ SkipInv)'
    BY NextType, NextRow, NextSkip
  <1>3. SkipInv => BlockRespected
    BY DEF SkipInv
  <1> QED
    BY <1>1, <1>2, <1>3, PTL DEF Spec

------------------------------------------------------------------------------
(* What a step does to the rows, and AckInv. *)

\* Only four actions write message rows.
LEMMA Writers ==
  ASSUME [Next]_vars
  PROVE  \/ UNCHANGED row
         \/ \E s \in Socket : SendCommit(s) \/ ReceiptCommit(s)
         \/ \E r \in Request : DeleteCommit(r)
         \/ \E u \in Leavers : DeleteAccount(u)
  <1> USE DEF dbVars, history
  <1>1. ASSUME NEW s \in Socket, SocketNext(s)
        PROVE  UNCHANGED row \/ SendCommit(s) \/ ReceiptCommit(s)
    BY <1>1 DEF SocketNext, Connect, Disconnect, HandlerFails, SendReadOthers,
                SendReadBlockers, SendPublish, ReceiptRead, ReactionRead,
                ReactionCommit, AnswerPublish
  <1>2. ASSUME NEW m \in Message, NotifyNext(m) PROVE UNCHANGED row
    BY <1>2 DEF NotifyNext, NotifyOthers, NotifyPresence, NotifyPush,
                NotifyFails, NotifyUser
  <1>3. ASSUME NEW r \in Request, RequestNext(r)
        PROVE  UNCHANGED row \/ DeleteCommit(r)
    BY <1>3 DEF RequestNext, DeleteResolve, DeleteFlush, DeletePublish,
                DeleteAbort
  <1>4. CASE Broadcast \/ LoseEvent
    BY <1>4 DEF Broadcast, LoseEvent
  <1>5. CASE UserNext
    BY <1>5 DEF UserNext, BlockUser, UnblockUser, Leave
  <1>6. CASE UNCHANGED vars
    BY <1>6 DEF vars
  <1> QED
    BY <1>1, <1>2, <1>3, <1>4, <1>5, <1>6 DEF Next

\* What ReceiptCommit and DeleteCommit do to one row.
LEMMA ReceiptRows ==
  ASSUME TypeOK, NEW s \in Socket, ReceiptCommit(s), NEW m \in Message
  PROVE  \/ row'[m] = row[m] /\ (m \notin frame[s].ms \/ ~Stored(m) \/ row' = row)
         \/ m \in frame[s].ms /\ Stored(m) /\ row'[m] = Acknowledged(s, m)
  BY DEF ReceiptCommit

Grows ==
  \A m \in Message :
    /\ row[m].status # "none" => row'[m].status # "none"
    /\ Stored(m)' => Stored(m) \/ row[m].status = "none"
    /\ Stored(m) => /\ row[m].delivered => row'[m].delivered
                    /\ row[m].read => row'[m].read

LEMMA NextGrows == ASSUME TypeOK, RowInv, [Next]_vars PROVE Grows
  <1>1. CASE UNCHANGED row
    BY <1>1 DEF Grows, Stored
  <1>2. ASSUME NEW s \in Socket, SendCommit(s) PROVE Grows
    <2>1. \A m \in frame[s].ms : row[m].status = "none"
      BY <1>2 DEF SendCommit, RowInv, FrameRows, Sending
    <2>2. \A m \in Message :
            \/ row'[m] = row[m]
            \/ m \in frame[s].ms /\ row'[m].status = "live"
      <3>1. CASE UNCHANGED row
        BY <3>1
      <3>2. CASE row' = [m \in Message |->
                           IF m \in frame[s].ms
                           THEN [NoRow EXCEPT !.status = "live", !.sender = Owner[s]]
                           ELSE row[m]]
        BY <3>2 DEF NoRow
      <3> QED
        BY <1>2, <3>1, <3>2 DEF SendCommit
    <2> QED
      BY <2>1, <2>2 DEF Grows, Stored
  <1>3. ASSUME NEW s \in Socket, ReceiptCommit(s) PROVE Grows
    <2>1. \A m \in Message :
            /\ Acknowledged(s, m).status = row[m].status
            /\ row[m].delivered => Acknowledged(s, m).delivered
            /\ row[m].read => Acknowledged(s, m).read
      BY DEF Acknowledged, TypeOK, Row
    <2>2. \A m \in Message : row'[m] = row[m] \/ row'[m] = Acknowledged(s, m)
      BY <1>3, ReceiptRows
    <2> QED
      BY <2>1, <2>2 DEF Grows, Stored
  <1>4. ASSUME NEW r \in Request, DeleteCommit(r) PROVE Grows
    <2>1. \A m \in Message :
            \/ row'[m] = row[m]
            \/ /\ m \in request[r].m /\ row'[m].status = "wiped"
               /\ row'[m].delivered = row[m].delivered
               /\ row'[m].read = row[m].read
      BY <1>4 DEF DeleteCommit, TypeOK, Row
    <2>2. \A m \in request[r].m : Stored(m)
      BY <1>4 DEF DeleteCommit, RowInv, RequestRows
    <2> QED
      BY <2>1, <2>2 DEF Grows, Stored
  <1>5. ASSUME NEW u \in Leavers, DeleteAccount(u) PROVE Grows
    <2>1. \A m \in Message :
            \/ row'[m] = row[m]
            \/ /\ row'[m].status = "purged"
               /\ row'[m].delivered = row[m].delivered
               /\ row'[m].read = row[m].read
      BY <1>5 DEF DeleteAccount, TypeOK, Row
    <2> QED
      BY <2>1 DEF Grows, Stored
  <1> QED
    BY <1>1, <1>2, <1>3, <1>4, <1>5, Writers

\* EventsBacked, one event at a time.
Backed(e) ==
  \A m \in e.ms :
    /\ row[m].status # "none"
    /\ e.type = "delivery" /\ Stored(m) => row[m].delivered
    /\ e.type = "read" /\ Stored(m) => row[m].read

\* A row that only moves forward backs the events it backed.
LEMMA AckEvents ==
  ASSUME TypeOK, EventsBacked, Grows,
         \A e \in Pending' : e \in Pending \/ Backed(e)'
  PROVE  EventsBacked'
  <1> SUFFICES ASSUME NEW e \in Pending' PROVE Backed(e)'
    BY DEF EventsBacked, Backed
  <1>1. CASE e \in Pending
    <2>1. Backed(e)
      BY <1>1 DEF EventsBacked, Backed
    <2>2. e.ms \subseteq Message
      <3>1. PICK i \in DOMAIN channel : e = channel[i]
        BY <1>1 DEF Pending
      <3>2. channel \in Seq(Event)
        BY DEF TypeOK
      <3>3. e \in Event
        BY <3>1, <3>2
      <3> QED
        BY <3>3 DEF Event
    <2>3. \A m \in e.ms : Stored(m)' => Stored(m)
      BY <2>1, <2>2 DEF Grows, Backed
    <2> QED
      BY <2>1, <2>2, <2>3 DEF Grows, Backed
  <1> QED
    BY <1>1

LEMMA AckStable ==
  ASSUME TypeOK, TypeOK', RowInv, AckInv, Grows,
         \A s \in Socket : \/ frame'[s] = frame[s]
                           \/ frame'[s].kind \notin {"delivery", "read"},
         \A e \in Pending' : e \in Pending \/ Backed(e)'
  PROVE  AckInv'
  <1>1. AckFrames'
    <2> SUFFICES ASSUME NEW s \in Socket, NEW m \in frame'[s].ms,
                        frame'[s].kind \in {"delivery", "read"}, Stored(m)'
                 PROVE  /\ \/ row'[m].delivered
                           \/ frame'[s].pc = "commit" /\ m \in frame'[s].delivered
                        /\ frame'[s].kind = "read" =>
                             \/ row'[m].read
                             \/ frame'[s].pc = "commit" /\ m \in frame'[s].read
      BY DEF AckFrames
    <2>1. frame'[s] = frame[s]
      OBVIOUS
    <2>2. m \in Message /\ m \in frame[s].ms /\ row[m].status # "none"
      BY <2>1 DEF RowInv, FrameRows, Sending, TypeOK, Frame
    <2>3. Stored(m)
      BY <2>2 DEF Grows
    <2>4. row[m].delivered => row'[m].delivered
      BY <2>2, <2>3 DEF Grows
    <2>5. row[m].read => row'[m].read
      BY <2>2, <2>3 DEF Grows
    <2> QED
      BY <2>1, <2>2, <2>3, <2>4, <2>5 DEF AckInv, AckFrames
  <1>2. EventsBacked'
    BY AckEvents DEF AckInv
  <1> QED
    BY <1>1, <1>2 DEF AckInv

LEMMA InitAck == Init => AckInv
  <1> SUFFICES ASSUME Init PROVE AckInv
    OBVIOUS
  <1>1. Pending = {}
    <2>1. channel = <<>>
      BY DEF Init
    <2>2. DOMAIN channel = {}
      BY <2>1
    <2> QED
      BY <2>2 DEF Pending
  <1>2. \A s \in Socket : frame[s].ms = {}
    BY DEF Init, Idle
  <1> QED
    BY <1>1, <1>2 DEF AckInv, AckFrames, EventsBacked

LEMMA NextAck ==
  ASSUME TypeOK, TypeOK', RowInv, AckInv, [Next]_vars
  PROVE  AckInv'
  <1> USE DEF dbVars, history
  <1>0. Grows
    BY NextGrows
  <1>1. ASSUME NEW s \in Socket, SocketNext(s) PROVE AckInv'
    <2>0. frame \in [Socket -> Frame] /\ frame[s] \in Frame /\ Owner[s] \in User
      BY OwnerAssumption DEF TypeOK
    <2>1. CASE Connect(s) \/ Disconnect(s)
      BY <1>0, <2>1, AckStable DEF Connect, Disconnect, Pending
    <2>2. CASE \/ HandlerFails(s) \/ SendReadBlockers(s) \/ SendCommit(s)
               \/ ReactionCommit(s)
               \/ \E m \in Message : SendReadOthers(s, m) \/ ReactionRead(s, m)
      <3>1. UNCHANGED channel
        BY <2>2 DEF HandlerFails, SendReadBlockers, SendCommit, ReactionCommit,
                    SendReadOthers, ReactionRead
      <3> DEFINE Other == /\ \A t \in Socket \ {s} : frame'[t] = frame[t]
                          /\ frame'[s].kind \notin {"delivery", "read"}
      <3>2. Other
        <4>1. CASE HandlerFails(s)
          BY <2>0, <4>1 DEF HandlerFails, Die, Finish, Idle
        <4>2. CASE SendReadBlockers(s)
          <5>1. frame[s].kind = "message"
            BY <4>2 DEF SendReadBlockers, RowInv, FrameRows
          <5> QED
            BY <2>0, <4>2, <5>1 DEF SendReadBlockers, Idle, Frame
        <4>3. CASE SendCommit(s)
          <5>1. \/ frame' = [frame EXCEPT ![s].pc = "publish"]
                \/ frame' = [frame EXCEPT ![s] = Idle]
            BY <4>3 DEF SendCommit, Die, Finish
          <5> QED
            BY <2>0, <4>3, <5>1 DEF SendCommit, Idle, Frame
        <4>4. CASE ReactionCommit(s)
          <5>1. \/ frame' = [frame EXCEPT ![s].pc = "publish"]
                \/ frame' = [frame EXCEPT ![s] = Idle]
            BY <4>4 DEF ReactionCommit, Die, Finish
          <5>2. frame[s].kind = "reaction"
            BY <4>4 DEF ReactionCommit
          <5> QED
            BY <2>0, <5>1, <5>2 DEF Idle, Frame
        <4>5. ASSUME NEW m \in Message, SendReadOthers(s, m) PROVE Other
          BY <2>0, <4>5 DEF SendReadOthers, Idle
        <4>6. ASSUME NEW m \in Message, ReactionRead(s, m) PROVE Other
          BY <2>0, <4>6 DEF ReactionRead, Idle
        <4> QED
          BY <2>2, <4>1, <4>2, <4>3, <4>4, <4>5, <4>6
      <3> QED
        BY <1>0, <3>1, <3>2, AckStable DEF Pending
    <2>3. CASE SendPublish(s) \/ AnswerPublish(s)
      <3>1. /\ \A t \in Socket \ {s} : frame'[t] = frame[t]
            /\ frame'[s] = Idle /\ UNCHANGED row
        BY <2>0, <2>3 DEF SendPublish, AnswerPublish, Finish
      <3> DEFINE e == [type |-> frame[s].kind, ms |-> frame[s].ms,
                       by |-> Owner[s], skip |-> frame[s].skip, added |-> FALSE]
                 f == [type |-> frame[s].kind, ms |-> frame[s].ms,
                       by |-> Owner[s], skip |-> {}, added |-> frame[s].added]
      <3>2. \/ Publish(e) /\ e \in Event
            \/ Publish(f) /\ f \in Event
        BY <2>0, <2>3 DEF SendPublish, AnswerPublish, Frame, Event
      <3>3. \A m \in frame[s].ms : row[m].status # "none"
        BY <2>3 DEF SendPublish, AnswerPublish, RowInv, FrameRows, Sending
      <3>4. frame[s].pc # "commit"
        BY <2>3 DEF SendPublish, AnswerPublish
      <3>5. PICK d \in Event : /\ Pending' = Pending \cup {d}
                             /\ d.type = frame[s].kind /\ d.ms = frame[s].ms
        BY <3>2, PendingAppend DEF TypeOK
      <3>6. Backed(d)
        BY <3>3, <3>4, <3>5 DEF AckInv, AckFrames, Backed
      <3>7. Backed(d)'
        BY <3>1, <3>6 DEF Backed, Stored
      <3>8. \A x \in Pending' : x \in Pending \/ Backed(x)'
        BY <3>5, <3>7
      <3> QED
        BY <1>0, <3>1, <3>8, AckStable DEF Idle
    <2>4. ASSUME NEW kind \in {"delivery", "read"}, NEW ms \in SUBSET Message,
                 ReceiptRead(s, kind, ms)
          PROVE  AckInv'
      <3>1. /\ \A t \in Socket \ {s} : frame'[t] = frame[t]
            /\ frame'[s].pc = "commit" /\ frame'[s].kind = kind
            /\ \A m \in frame'[s].ms :
                 /\ row[m].delivered \/ m \in frame'[s].delivered
                 /\ kind = "read" => row[m].read \/ m \in frame'[s].read
            /\ UNCHANGED <<row, channel>>
        BY <2>0, <2>4 DEF ReceiptRead, Idle
      <3>2. AckFrames'
        BY <3>1 DEF AckInv, AckFrames, Stored
      <3> QED
        BY <3>1, <3>2 DEF AckInv, EventsBacked, Stored, Pending
    <2>5. CASE ReceiptCommit(s)
      <3>1. /\ \/ frame' = [frame EXCEPT ![s].pc = "publish"]
               \/ frame' = [frame EXCEPT ![s] = Idle]
            /\ UNCHANGED channel /\ frame[s].pc = "commit"
        BY <2>5 DEF ReceiptCommit, Die, Finish
      <3>2. \/ frame' = [frame EXCEPT ![s] = Idle]
            \/ /\ frame' = [frame EXCEPT ![s].pc = "publish"]
               /\ row' = [m \in Message |->
                            IF m \in {n \in frame[s].ms : Stored(n)}
                            THEN Acknowledged(s, m) ELSE row[m]]
        BY <2>5 DEF ReceiptCommit, Die, Finish
      <3>3. CASE frame' = [frame EXCEPT ![s] = Idle]
        <4>1. /\ \A t \in Socket \ {s} : frame'[t] = frame[t]
              /\ frame'[s].kind \notin {"delivery", "read"}
          BY <2>0, <3>3 DEF Idle
        <4> QED
          BY <1>0, <3>1, <4>1, AckStable DEF Pending
      <3>4. CASE /\ frame' = [frame EXCEPT ![s].pc = "publish"]
                 /\ row' = [m \in Message |->
                              IF m \in {n \in frame[s].ms : Stored(n)}
                              THEN Acknowledged(s, m) ELSE row[m]]
        <4>1. /\ \A t \in Socket \ {s} : frame'[t] = frame[t]
              /\ frame'[s].ms = frame[s].ms /\ frame'[s].kind = frame[s].kind
          BY <2>0, <3>4 DEF Frame
        <4>2. ASSUME NEW m \in frame[s].ms, Stored(m)',
                     frame[s].kind \in {"delivery", "read"}
              PROVE  /\ row'[m].delivered
                     /\ frame[s].kind = "read" => row'[m].read
          <5>1. m \in Message
            BY <2>0 DEF Frame
          <5>2. Stored(m)
            BY <3>4, <4>2, <5>1 DEF Stored
          <5>3. /\ row[m].delivered \/ m \in frame[s].delivered
                /\ frame[s].kind = "read" => row[m].read \/ m \in frame[s].read
            BY <4>2, <5>2 DEF AckInv, AckFrames
          <5>4. row'[m] = Acknowledged(s, m)
            BY <3>4, <5>1, <5>2
          <5>5. row[m] \in Row
            BY <5>1 DEF TypeOK
          <5> QED
            BY <5>3, <5>4, <5>5 DEF Acknowledged, Row
        <4>3. ASSUME NEW t \in Socket, t # s, NEW m \in frame[t].ms, Stored(m)',
                     frame[t].kind \in {"delivery", "read"}
              PROVE  /\ Stored(m)
                     /\ row[m].delivered => row'[m].delivered
                     /\ row[m].read => row'[m].read
          <5>1. m \in Message /\ row[m].status # "none"
            BY <4>3 DEF RowInv, FrameRows, Sending, TypeOK, Frame
          <5> QED
            BY <1>0, <4>3, <5>1 DEF Grows
        <4>4. AckFrames'
          <5> SUFFICES ASSUME NEW t \in Socket, NEW m \in frame'[t].ms,
                              frame'[t].kind \in {"delivery", "read"}, Stored(m)'
                       PROVE  /\ \/ row'[m].delivered
                                 \/ frame'[t].pc = "commit" /\ m \in frame'[t].delivered
                              /\ frame'[t].kind = "read" =>
                                   \/ row'[m].read
                                   \/ frame'[t].pc = "commit" /\ m \in frame'[t].read
            BY DEF AckFrames
          <5>1. CASE t = s
            BY <4>1, <4>2, <5>1
          <5>2. CASE t # s
            BY <4>1, <4>3, <5>2 DEF AckInv, AckFrames
          <5> QED
            BY <5>1, <5>2
        <4>5. EventsBacked'
          BY <1>0, <3>1, AckEvents DEF AckInv, Pending
        <4> QED
          BY <4>4, <4>5 DEF AckInv
      <3> QED
        BY <3>2, <3>3, <3>4
    <2> QED
      BY <1>1, <2>1, <2>2, <2>3, <2>4, <2>5 DEF SocketNext
  <1>2. ASSUME NEW m \in Message, NotifyNext(m) PROVE AckInv'
    BY <1>0, <1>2, AckStable
       DEF NotifyNext, NotifyOthers, NotifyPresence, NotifyPush, NotifyFails,
           NotifyUser, Pending
  <1>3. ASSUME NEW r \in Request, RequestNext(r) PROVE AckInv'
    <2>1. UNCHANGED frame
      BY <1>3 DEF RequestNext, DeleteResolve, DeleteFlush, DeletePublish,
                  DeleteCommit, DeleteAbort
    <2>2. CASE DeletePublish(r)
      <3>1. [type |-> "deletion", ms |-> request[r].m, by |-> request[r].by,
             skip |-> {}, added |-> FALSE] \in Event
        BY DEF TypeOK, Delete, Event
      <3>2. PICK d \in Event : /\ Pending' = Pending \cup {d}
                             /\ d.type = "deletion" /\ d.ms = request[r].m
        BY <2>2, <3>1, PendingAppend DEF DeletePublish, TypeOK
      <3>3. Backed(d)'
        <4>1. \A m \in d.ms : row[m].status # "none"
          BY <3>2 DEF RowInv, RequestRows
        <4>2. UNCHANGED row
          BY <2>2 DEF DeletePublish
        <4> QED
          BY <3>2, <4>1, <4>2 DEF Backed
      <3> QED
        BY <1>0, <2>1, <3>2, <3>3, AckStable
    <2>3. CASE UNCHANGED channel
      BY <1>0, <2>1, <2>3, AckStable DEF Pending
    <2> QED
      BY <1>3, <2>2, <2>3 DEF RequestNext, DeleteResolve, DeleteFlush,
                              DeleteCommit, DeleteAbort
  <1>4. CASE Broadcast \/ LoseEvent
    <2>1. Pending' \subseteq Pending /\ UNCHANGED frame
      BY <1>4, PendingTail DEF Broadcast, LoseEvent, TypeOK
    <2> QED
      BY <1>0, <2>1, AckStable
  <1>5. CASE UserNext
    <2>1. UNCHANGED <<frame, channel>>
      BY <1>5 DEF UserNext, BlockUser, UnblockUser, Leave, DeleteAccount
    <2> QED
      BY <1>0, <2>1, AckStable DEF Pending
  <1>6. CASE UNCHANGED vars
    BY <1>0, <1>6, AckStable DEF vars, Pending
  <1> QED
    BY <1>1, <1>2, <1>3, <1>4, <1>5, <1>6 DEF Next

\* Events speak of committed rows: a reader of an event finds the message, and
\* finds it acknowledged.
THEOREM EventsFollowCommits == Spec => []EventsBacked
  <1>1. Init => TypeOK /\ RowInv /\ AckInv
    BY InitType, InitRow, InitAck
  <1>2. TypeOK /\ RowInv /\ AckInv /\ [Next]_vars
          => (TypeOK /\ RowInv /\ AckInv)'
    BY NextType, NextRow, NextAck
  <1>3. AckInv => EventsBacked
    BY DEF AckInv
  <1> QED
    BY <1>1, <1>2, <1>3, PTL DEF Spec

------------------------------------------------------------------------------
(* Messaging implements MessageLife. *)

\* A message that was never written carries no tick.
Fresh == \A m \in Message :
           row[m].status = "none" => ~row[m].delivered /\ ~row[m].read

LEMMA NextFresh ==
  ASSUME TypeOK, RowInv, Fresh, [Next]_vars
  PROVE  Fresh'
  <1>1. CASE UNCHANGED row
    BY <1>1 DEF Fresh
  <1>2. ASSUME NEW s \in Socket, SendCommit(s) \/ ReceiptCommit(s) PROVE Fresh'
    <2>1. CASE SendCommit(s)
      BY <2>1 DEF SendCommit, NoRow, Fresh
    <2>2. CASE ReceiptCommit(s)
      <3>1. \A m \in Message : Acknowledged(s, m).status = row[m].status
        BY DEF Acknowledged, TypeOK, Row
      <3>2. \A m \in Message : \/ row'[m] = row[m]
                               \/ Stored(m) /\ row'[m] = Acknowledged(s, m)
        BY <2>2, ReceiptRows
      <3> QED
        BY <3>1, <3>2 DEF Fresh, Stored
    <2> QED
      BY <1>2, <2>1, <2>2
  <1>3. ASSUME NEW r \in Request, DeleteCommit(r) PROVE Fresh'
    <2>1. \A m \in Message : row'[m] = row[m] \/ row'[m].status = "wiped"
      BY <1>3 DEF DeleteCommit, TypeOK, Row
    <2> QED
      BY <2>1 DEF Fresh
  <1>4. ASSUME NEW u \in Leavers, DeleteAccount(u) PROVE Fresh'
    <2>1. \A m \in Message : row'[m] = row[m] \/ row'[m].status = "purged"
      BY <1>4 DEF DeleteAccount, TypeOK, Row
    <2> QED
      BY <2>1 DEF Fresh
  <1> QED
    BY <1>1, <1>2, <1>3, <1>4, Writers

LEMMA InitLife == Init => Life!LifeInit /\ Fresh
  <1> SUFFICES ASSUME Init PROVE Life!LifeInit /\ Fresh
    OBVIOUS
  <1>1. ASSUME NEW m \in Message
        PROVE  /\ row[m].status \in {"none", "live"}
               /\ row[m].delivered = FALSE /\ row[m].read = FALSE
    <2>1. CASE m \in DOMAIN Sent
      <3>1. row[m] = [NoRow EXCEPT !.status = "live", !.sender = Sent[m]]
        BY <2>1 DEF Init
      <3> QED
        BY <3>1 DEF NoRow
    <2>2. CASE m \notin DOMAIN Sent
      <3>1. row[m] = NoRow
        BY <2>2 DEF Init
      <3> QED
        BY <3>1 DEF NoRow
    <2> QED
      BY <2>1, <2>2
  <1>2. ASSUME NEW m \in Message
        PROVE  \/ LifeOf[m] = Life!Unsent
               \/ LifeOf[m] = [Life!Unsent EXCEPT !.status = "live"]
    <2>1. LifeOf[m] = [status |-> row[m].status, delivered |-> FALSE,
                       read |-> FALSE]
      BY <1>1 DEF LifeOf
    <2>2. row[m].status = "none" \/ row[m].status = "live"
      BY <1>1
    <2>3. CASE row[m].status = "none"
      BY <2>1, <2>3 DEF Life!Unsent
    <2>4. CASE row[m].status = "live"
      <3> DEFINE Live == [Life!Unsent EXCEPT !.status = "live"]
      <3>1. ASSUME NEW live, live = Live
            PROVE  live = [status |-> "live", delivered |-> FALSE, read |-> FALSE]
        BY <3>1 DEF Life!Unsent
      <3> QED
        BY <2>1, <2>4, <3>1
    <2> QED
      BY <2>2, <2>3, <2>4
  <1>3. LifeOf \in [Message -> {Life!Unsent, [Life!Unsent EXCEPT !.status = "live"]}]
    BY <1>2 DEF LifeOf
  <1>4. Fresh
    BY <1>1 DEF Fresh
  <1> QED
    BY <1>3, <1>4 DEF Life!LifeInit

LEMMA SendLife ==
  ASSUME TypeOK, RowInv, Fresh, NEW s \in Socket, SendCommit(s)
  PROVE  Life!LifeNext \/ UNCHANGED LifeOf
  <1>1. CASE UNCHANGED row
    BY <1>1 DEF LifeOf
  <1>2. CASE row' = [m \in Message |->
                       IF m \in frame[s].ms
                       THEN [NoRow EXCEPT !.status = "live", !.sender = Owner[s]]
                       ELSE row[m]]
    <2>1. PICK m \in Message : frame[s].ms = {m}
      BY DEF SendCommit, RowInv, FrameRows, Sending
    <2>2. row[m].status = "none" /\ row[m].delivered = FALSE /\ row[m].read = FALSE
      BY <2>1 DEF SendCommit, RowInv, FrameRows, Sending, Fresh, TypeOK, Row
    <2>3. /\ row'[m].status = "live"
          /\ row'[m].delivered = FALSE /\ row'[m].read = FALSE
          /\ \A n \in Message \ {m} : row'[n] = row[n]
      BY <1>2, <2>1 DEF NoRow
    <2>4. Life!Send(m)
      BY <2>2, <2>3 DEF Life!Send, LifeOf
    <2> QED
      BY <2>4 DEF Life!LifeNext
  <1> QED
    BY <1>1, <1>2 DEF SendCommit

LEMMA ReceiptLife ==
  ASSUME TypeOK, RowInv, AckInv, NEW s \in Socket, ReceiptCommit(s)
  PROVE  Life!LifeNext \/ UNCHANGED LifeOf
  <1>1. CASE UNCHANGED row
    BY <1>1 DEF LifeOf
  <1>2. CASE row' = [m \in Message |->
                       IF m \in {n \in frame[s].ms : Stored(n)}
                       THEN Acknowledged(s, m) ELSE row[m]]
    <2> DEFINE D == {m \in frame[s].ms : Stored(m) /\ m \in frame[s].delivered}
               R == {m \in frame[s].ms : Stored(m) /\ m \in frame[s].read}
    <2>1. frame[s] \in Frame /\ frame[s].kind \in {"delivery", "read"}
      BY DEF TypeOK, ReceiptCommit
    <2>2. D \in SUBSET Message /\ R \in SUBSET Message
      BY <2>1 DEF Frame
    <2>3. \A m \in D \cup R : Life!Stored(m)
      BY <2>2 DEF Life!Stored, LifeOf, Stored
    <2>4. \A m \in R : LifeOf[m].delivered \/ m \in D
      <3>1. \A m \in R : row[m].delivered \/ m \in frame[s].delivered
        BY <2>1 DEF AckInv, AckFrames
      <3> QED
        BY <2>2, <3>1 DEF LifeOf
    <2>5. ASSUME NEW m \in Message
          PROVE  /\ row'[m].status = row[m].status
                 /\ row'[m].delivered = (LifeOf[m].delivered \/ m \in D)
                 /\ row'[m].read = (LifeOf[m].read \/ m \in R)
      <3>1. row[m] \in Row
        BY DEF TypeOK
      <3>2. /\ row'[m].status = row[m].status
            /\ row'[m].delivered = (row[m].delivered \/ m \in D)
            /\ row'[m].read = (row[m].read \/ m \in R)
        <4>1. CASE m \in frame[s].ms /\ Stored(m)
          <5>1. row'[m] = Acknowledged(s, m)
            BY <1>2, <4>1
          <5>2. /\ row'[m].status = row[m].status
                /\ row'[m].delivered = (row[m].delivered \/ m \in frame[s].delivered)
                /\ row'[m].read = (row[m].read \/ m \in frame[s].read)
            BY <3>1, <5>1 DEF Acknowledged, Row
          <5>3. /\ m \in D <=> m \in frame[s].delivered
                /\ m \in R <=> m \in frame[s].read
            BY <4>1
          <5> QED
            BY <5>2, <5>3
        <4>2. CASE ~(m \in frame[s].ms /\ Stored(m))
          <5>1. row'[m] = row[m] /\ m \notin D /\ m \notin R
            BY <1>2, <4>2
          <5>2. row[m].delivered \in BOOLEAN /\ row[m].read \in BOOLEAN
            BY <3>1 DEF Row
          <5> QED
            BY <5>1, <5>2
        <4> QED
          BY <4>1, <4>2
      <3>3. LifeOf[m].delivered = row[m].delivered /\ LifeOf[m].read = row[m].read
        BY DEF LifeOf
      <3> QED
        BY <3>2, <3>3
    <2>6. LifeOf' = [m \in Message |->
                       [status    |-> LifeOf[m].status,
                        delivered |-> LifeOf[m].delivered \/ m \in D,
                        read      |-> LifeOf[m].read \/ m \in R]]
      <3>1. \A m \in Message : row'[m].status = LifeOf[m].status
        BY <2>5 DEF LifeOf
      <3>2. LifeOf' = [m \in Message |-> [status    |-> row'[m].status,
                                         delivered |-> row'[m].delivered,
                                         read      |-> row'[m].read]]
        BY DEF LifeOf
      <3> HIDE DEF D, R
      <3> QED
        BY <2>5, <3>1, <3>2
    <2>7. Life!Ack(D, R)
      BY <2>3, <2>4, <2>6 DEF Life!Ack
    <2> QED
      BY <2>2, <2>7 DEF Life!LifeNext
  <1> QED
    BY <1>1, <1>2 DEF ReceiptCommit

LEMMA DeleteLife ==
  ASSUME TypeOK, RowInv, NEW r \in Request, DeleteCommit(r)
  PROVE  Life!LifeNext
  <1>1. PICK m \in Message : request[r].m = {m}
    BY DEF DeleteCommit, RowInv, RequestRows
  <1>2. Stored(m)
    BY <1>1 DEF DeleteCommit, RowInv, RequestRows
  <1>3. /\ row'[m].status = "wiped"
        /\ row'[m].delivered = row[m].delivered /\ row'[m].read = row[m].read
        /\ \A n \in Message \ {m} : row'[n] = row[n]
    BY <1>1 DEF DeleteCommit, TypeOK, Row
  <1>4. Life!Wipe(m)
    BY <1>2, <1>3 DEF Life!Wipe, Life!Stored, LifeOf, Stored
  <1> QED
    BY <1>4 DEF Life!LifeNext

LEMMA AccountLife ==
  ASSUME TypeOK, NEW u \in Leavers, DeleteAccount(u)
  PROVE  Life!LifeNext
  <1> DEFINE M == {m \in Message : Stored(m) /\ row[m].sender = u}
  <1>1. \A m \in M : Life!Stored(m)
    BY DEF Life!Stored, LifeOf, Stored
  <1>2. \A m \in Message :
          \/ m \notin M /\ row'[m] = row[m]
          \/ /\ m \in M /\ row'[m].status = "purged"
             /\ row'[m].delivered = row[m].delivered
             /\ row'[m].read = row[m].read
    BY DEF DeleteAccount, TypeOK, Row
  <1>3. LifeOf' = [m \in Message |->
                     IF m \in M THEN [LifeOf[m] EXCEPT !.status = "purged"]
                                ELSE LifeOf[m]]
    BY <1>2 DEF LifeOf
  <1>4. Life!Purge(M)
    BY <1>1, <1>3 DEF Life!Purge
  <1> QED
    BY <1>4 DEF Life!LifeNext

LEMMA NextLife ==
  ASSUME TypeOK, RowInv, AckInv, Fresh, [Next]_vars
  PROVE  [Life!LifeNext]_LifeOf
  <1>1. UNCHANGED row => UNCHANGED LifeOf
    BY DEF LifeOf
  <1> QED
    BY <1>1, Writers, SendLife, ReceiptLife, DeleteLife, AccountLife

\* Messaging implements MessageLife: each step of a handler, a request or a task
\* is a step of the life of its messages, or changes none.
THEOREM LivesImplemented == Spec => LifeSpec
  <1>1. Init => TypeOK /\ RowInv /\ AckInv /\ Fresh /\ Life!LifeInit
    BY InitType, InitRow, InitAck, InitLife
  <1>2. TypeOK /\ RowInv /\ AckInv /\ Fresh /\ [Next]_vars
          => (TypeOK /\ RowInv /\ AckInv /\ Fresh)'
    BY NextType, NextRow, NextAck, NextFresh
  <1>3. TypeOK /\ RowInv /\ AckInv /\ Fresh /\ [Next]_vars
          => [Life!LifeNext]_LifeOf
    BY NextLife
  <1> QED
    BY <1>1, <1>2, <1>3, PTL DEF Spec, LifeSpec, Life!LifeSpec

------------------------------------------------------------------------------
(* NeverWritten: a send past the check has a recipient outside its skip list. *)

SomeoneLeft ==
  \A s \in Socket :
    Sending(s) /\ frame[s].pc # "blockers" /\ frame[s].others # {}
      => \E v \in frame[s].others : v \notin frame[s].skip

LEMMA NextSomeone ==
  ASSUME TypeOK, SomeoneLeft, [Next]_vars
  PROVE  SomeoneLeft'
  <1> USE DEF dbVars, history
  <1>0. frame \in [Socket -> Frame]
    BY DEF TypeOK
  <1>1. CASE UNCHANGED frame
    BY <1>1 DEF SomeoneLeft, Sending
  <1>2. ASSUME NEW s \in Socket, SocketNext(s) PROVE SomeoneLeft'
    <2>0. frame[s] \in Frame
      BY <1>0
    <2>1. CASE SendReadBlockers(s)
      <3>1. \/ frame'[s] = Idle
            \/ /\ frame'[s].others = frame[s].others
               /\ frame'[s].skip = RecipientsBlocking(Owner[s])
               /\ ~FullyBlocked(frame[s].others, RecipientsBlocking(Owner[s]))
        BY <1>0, <2>0, <2>1 DEF SendReadBlockers, Frame
      <3>2. \A t \in Socket \ {s} : frame'[t] = frame[t]
        BY <1>0, <2>1 DEF SendReadBlockers
      <3> QED
        BY <3>1, <3>2 DEF SomeoneLeft, Sending, FullyBlocked, Idle
    <2>2. CASE SendCommit(s) \/ ReceiptCommit(s) \/ ReactionCommit(s)
      <3>1. \/ frame' = [frame EXCEPT ![s] = Idle]
            \/ /\ frame' = [frame EXCEPT ![s].pc = "publish"]
               /\ frame[s].pc = "commit"
        BY <2>2 DEF SendCommit, ReceiptCommit, ReactionCommit, Die, Finish
      <3> QED
        BY <1>0, <2>0, <3>1 DEF SomeoneLeft, Sending, Idle, Frame
    <2>3. CASE HandlerFails(s) \/ SendPublish(s) \/ AnswerPublish(s)
      <3>1. frame' = [frame EXCEPT ![s] = Idle]
        BY <2>3 DEF HandlerFails, SendPublish, AnswerPublish, Die, Finish
      <3> QED
        BY <1>0, <3>1 DEF SomeoneLeft, Sending, Idle
    <2>4. ASSUME NEW m \in Message, SendReadOthers(s, m) \/ ReactionRead(s, m)
          PROVE  SomeoneLeft'
      <3>1. /\ \A t \in Socket \ {s} : frame'[t] = frame[t]
            /\ frame'[s].pc = "blockers" \/ frame'[s].kind = "reaction"
        BY <1>0, <2>4 DEF SendReadOthers, ReactionRead, Idle
      <3> QED
        BY <3>1 DEF SomeoneLeft, Sending
    <2>5. ASSUME NEW kind \in {"delivery", "read"}, NEW ms \in SUBSET Message,
                 ReceiptRead(s, kind, ms)
          PROVE  SomeoneLeft'
      <3>1. /\ \A t \in Socket \ {s} : frame'[t] = frame[t]
            /\ frame'[s].kind = kind
        BY <1>0, <2>5 DEF ReceiptRead, Idle
      <3> QED
        BY <3>1 DEF SomeoneLeft, Sending
    <2>6. CASE Connect(s) \/ Disconnect(s)
      BY <1>1, <2>6 DEF Connect, Disconnect
    <2> QED
      BY <1>2, <2>1, <2>2, <2>3, <2>4, <2>5, <2>6 DEF SocketNext
  <1>3. ASSUME NEW m \in Message, NotifyNext(m) PROVE UNCHANGED frame
    BY <1>3 DEF NotifyNext, NotifyOthers, NotifyPresence, NotifyPush,
                NotifyFails, NotifyUser
  <1>4. ASSUME NEW r \in Request, RequestNext(r) PROVE UNCHANGED frame
    BY <1>4 DEF RequestNext, DeleteResolve, DeleteFlush, DeletePublish,
                DeleteCommit, DeleteAbort
  <1>5. Broadcast \/ LoseEvent => UNCHANGED frame
    BY DEF Broadcast, LoseEvent
  <1>6. UserNext => UNCHANGED frame
    BY DEF UserNext, BlockUser, UnblockUser, Leave, DeleteAccount
  <1>7. UNCHANGED vars => UNCHANGED frame
    BY DEF vars
  <1> QED
    BY <1>1, <1>2, <1>3, <1>4, <1>5, <1>6, <1>7 DEF Next

\* A message that every recipient's block forbids is never written: the INSERT of
\* a send finds a recipient who had not blocked the sender when it began.
THEOREM NothingWrittenForNobody == Spec => NeverWritten
  <1>1. Init => TypeOK /\ RowInv /\ SkipInv /\ SomeoneLeft
    <2>1. ASSUME Init PROVE SomeoneLeft
      <3>1. frame = [s \in Socket |-> Idle]
        BY <2>1 DEF Init
      <3> QED
        BY <3>1 DEF SomeoneLeft, Sending, Idle
    <2> QED
      BY <2>1, InitType, InitRow, InitSkip
  <1>2. TypeOK /\ RowInv /\ SkipInv /\ SomeoneLeft /\ [Next]_vars
          => (TypeOK /\ RowInv /\ SkipInv /\ SomeoneLeft)'
    BY NextType, NextRow, NextSkip, NextSomeone
  <1> DEFINE Checked(s) ==
        (frame[s].kind = "message" /\ frame[s].pc = "commit"
           /\ frame'[s].pc = "publish"
           /\ frame[s].others # {} /\ frame[s].others \subseteq participants)
        => \E v \in frame[s].others : \A m \in frame[s].ms :
              <<v, Owner[s], m>> \notin shield
  <1>3. TypeOK /\ RowInv /\ SkipInv /\ SomeoneLeft => \A s \in Socket : Checked(s)
    <2> SUFFICES ASSUME SkipInv, SomeoneLeft, NEW s \in Socket,
                        frame[s].kind = "message", frame[s].pc = "commit",
                        frame[s].others # {}, frame[s].others \subseteq participants
                 PROVE  \E v \in frame[s].others : \A m \in frame[s].ms :
                          <<v, Owner[s], m>> \notin shield
      OBVIOUS
    <2>1. PICK v \in frame[s].others : v \notin frame[s].skip
      BY DEF SomeoneLeft, Sending
    <2>2. \A m \in frame[s].ms : Shields(frame[s].skip, m)
      BY DEF SkipInv, FrameSkips, Sending
    <2>3. ASSUME NEW m \in frame[s].ms PROVE <<v, Owner[s], m>> \notin shield
      BY <2>1, <2>2 DEF Shields
    <2> QED
      BY <2>3
  <1>4. TypeOK /\ RowInv /\ SkipInv /\ SomeoneLeft /\ [Next]_vars
          => [\A s \in Socket : Checked(s)]_vars
    BY <1>3
  <1> QED
    BY <1>1, <1>2, <1>4, PTL DEF Spec, NeverWritten
==============================================================================
