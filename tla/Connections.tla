----------------------------- MODULE Connections -----------------------------
(***************************************************************************)
(* The connection manager of one worker (app/websocket/manager.py): the    *)
(* registries of sockets, the Redis subscriber, and its broadcasts, which  *)
(* await every send while they iterate over the live registry.  One        *)
(* conversation, and the user channels; every socket connects at most      *)
(* once.                                                                   *)
(***************************************************************************)
EXTENDS Requests, Sequences

CONSTANTS
  Socket,      \* sockets the clients may open
  UserSocket,  \* those of /ws/user; the others are of the conversation
  Owner,       \* Owner[s]: the account of socket s
  Blocker      \* members of the conversation who may have blocked a sender

ASSUME ConnectionsAssumption ==
  UserSocket \subseteq Socket /\ Owner \in [Socket -> User] /\ Blocker \subseteq User

VARIABLES
  handler,     \* handler[s]: the endpoint of s; "broken": its client is gone
  sockets,     \* _conv_connections[id] and _user_connections: lists of sockets
  keys,        \* the keys of _conv_connections[id], in the order of insertion
  cast,        \* the broadcast that the subscriber is in
  subscriber   \* the task start_subscriber

connectionsVars == <<handler, sockets, keys, cast, subscriber>>

------------------------------------------------------------------------------
Channel == {"conversation", "user"}
ChannelOf(s) == IF s \in UserSocket THEN "user" ELSE "conversation"

Listed(c, u) == {sockets[c][u][i] : i \in DOMAIN sockets[c][u]}
Registered == {s \in Socket : s \in Listed(ChannelOf(s), Owner[s])}

\* is_user_connected.
Connected(u) == \E c \in Channel : Listed(c, u) # {}

\* The two nested iterators: over the dict, with the size it had, the keys ahead,
\* and over the list of user, of which at sockets are consumed.  A size of -1: the
\* dict was dropped; no user: the list was.  The last five are history: who was
\* served (somebody again), who stays open, whose list did not shift under its
\* index, and whether keys came or went.
Cast == [pc : {"idle", "sending", "next", "over"}, channel : Channel, skip : SUBSET User,
         size : Nat \cup {-1}, ahead : Seq(User), user : User \cup {NoUser}, at : Nat,
         to : SUBSET Socket, dead : SUBSET Socket,
         served : SUBSET Socket, again : BOOLEAN, stay : SUBSET Socket,
         intact : SUBSET User, disturbed : BOOLEAN]

NoCast == [pc |-> "idle", channel |-> "user", skip |-> {},
           size |-> 0, ahead |-> <<>>, user |-> NoUser, at |-> 0, to |-> {}, dead |-> {},
           served |-> {}, again |-> FALSE, stay |-> {}, intact |-> {}, disturbed |-> FALSE]

Broadcasting == cast.pc \in {"sending", "next"}

\* The types; the dict has exactly the users with a socket as its keys.
ConnectionsTypeOK ==
  /\ handler \in [Socket -> {"new", "open", "broken", "ended"}]
  /\ sockets \in [Channel -> [User -> Seq(Socket)]]
  /\ \A i, j \in DOMAIN keys : keys[i] = keys[j] => i = j
  /\ {keys[i] : i \in DOMAIN keys} = {u \in User : Listed("conversation", u) # {}}
  /\ cast \in Cast
  /\ subscriber \in {"up", "down", "off"}

ConnectionsInit ==
  /\ handler = [s \in Socket |-> "new"]
  /\ sockets = [c \in Channel |-> [u \in User |-> <<>>]]
  /\ keys = <<>>
  /\ cast = NoCast
  /\ subscriber = "off"

------------------------------------------------------------------------------
(* Pieces of the manager. *)

\* The elements of a sequence that are not in D, each at the place that counts those
\* before it.
Kept(seq, D) == {i \in DOMAIN seq : seq[i] \notin D}
Place(seq, D, i) == Cardinality({j \in Kept(seq, D) : j <= i})
Without(seq, D) ==
  [n \in 1 .. Cardinality(Kept(seq, D)) |->
     seq[CHOOSE i \in Kept(seq, D) : Place(seq, D, i) = n]]

\* disconnect and disconnect_user of the sockets D: what is left in the lists,
\* and the keys that are left.  (Mutant: of emptied lists too.)
Left(D) == [c \in Channel |-> [u \in User |-> Without(sockets[c][u], D)]]
Emptied(left) == {u \in User : left["conversation"][u] = <<>>}
AllKeys(left) == keys
KeysLeft(left) == Without(keys, Emptied(left))

\* A socket at or before the index left the list of u, and the others moved up under it.
Shifted(left, u) ==
  u = cast.user /\ \E i \in DOMAIN sockets[cast.channel][u] :
    /\ i <= cast.at
    /\ \A j \in DOMAIN left[cast.channel][u] :
         left[cast.channel][u][j] # sockets[cast.channel][u][i]

\* What the running broadcast makes of lists and keys that changed under it.
Disturbs(left, ks) ==
  [cast EXCEPT
     !.ahead = Without(@, Emptied(left)),
     !.size  = IF ks = <<>> THEN -1 ELSE @,
     !.user  = IF @ = NoUser THEN @ ELSE IF left[cast.channel][@] = <<>> THEN NoUser ELSE @,
     !.intact = {u \in @ : ~Shifted(left, u)},
     !.disturbed = @ \/ (cast.channel = "conversation" /\ ks # keys)]

\* The sockets an endpoint unregisters when it ends.  (Mutant: none.)
NotReleased(s) == {}
Released(s) == {s}

\* The sockets unregistered before the loops are over.  (Mutant: one to which a
\* send failed, at once.)
DroppedAtOnce == {s \in cast.to : handler[s] # "open"}
DroppedInLoop == {}

\* What the subscriber is after an error.  (Mutant: its task has ended.)
TaskEnded == "ended"
AfterError == "down"

------------------------------------------------------------------------------
(* The endpoints. *)

\* connect and connect_user, after accept; uvicorn serves from startup to shutdown.
Connect(s) ==
  LET u == Owner[s]
      enters == ChannelOf(s) = "conversation" /\ sockets["conversation"][u] = <<>>
  IN  /\ handler[s] = "new" /\ subscriber # "off"
      /\ handler' = [handler EXCEPT ![s] = "open"]
      /\ sockets' = [sockets EXCEPT ![ChannelOf(s)][u] = Append(@, s)]
      /\ keys' = IF enters THEN Append(keys, u) ELSE keys
      /\ cast' = IF enters /\ Broadcasting /\ cast.channel = "conversation"
                 THEN [cast EXCEPT !.disturbed = TRUE,
                                   !.ahead = IF cast.size = -1 THEN @ ELSE Append(@, u)]
                 ELSE cast
      /\ UNCHANGED subscriber

\* The client goes away: sends fail from here on.
ClientGoes(s) ==
  /\ handler[s] = "open"
  /\ handler' = [handler EXCEPT ![s] = "broken"]
  /\ cast' = [cast EXCEPT !.stay = @ \ {s}]
  /\ UNCHANGED <<sockets, keys, subscriber>>

\* The finally of the endpoint: the client is gone, the frame handler raised, or
\* the server closes the socket.
HandlerEnds(s) ==
  LET left == Left(Released(s))
      ks   == KeysLeft(left)
  IN  /\ handler[s] \in {"open", "broken"}
      /\ handler' = [handler EXCEPT ![s] = "ended"]
      /\ sockets' = left /\ keys' = ks
      /\ cast' = IF ~Broadcasting THEN cast
                 ELSE [Disturbs(left, ks) EXCEPT !.stay = @ \ {s}]
      /\ UNCHANGED subscriber

------------------------------------------------------------------------------
(* The subscriber and its broadcasts. *)

SendTo(c, u, i) ==
  [c EXCEPT !.pc = "sending", !.user = u, !.at = i, !.to = {sockets[c.channel][u][i]}]

\* broadcast_to_conversation: the users of skip are not served.
RouteConversation(skip) ==
  LET us == Without(keys, skip)
      c  == [NoCast EXCEPT !.channel = "conversation", !.skip = skip,
               !.size = Len(keys), !.ahead = Tail(us), !.intact = User \ skip,
               !.stay = {s \in Registered \ UserSocket :
                           handler[s] = "open" /\ Owner[s] \notin skip}]
  IN  /\ subscriber = "up" /\ cast.pc = "idle"
      /\ us # <<>>
      /\ cast' = SendTo(c, Head(us), 1)
      /\ UNCHANGED <<handler, sockets, keys, subscriber>>

\* broadcast_to_user.
RouteUser(u) ==
  LET c == [NoCast EXCEPT !.intact = {u},
              !.stay = {s \in Listed("user", u) : handler[s] = "open"}]
  IN  /\ subscriber = "up" /\ cast.pc = "idle"
      /\ sockets["user"][u] # <<>>
      /\ cast' = SendTo(c, u, 1)
      /\ UNCHANGED <<handler, sockets, keys, subscriber>>

\* A send returns, or raises because the client is gone.
SendEnds ==
  LET fine == {s \in cast.to : handler[s] = "open"}
      left == Left(DroppedInLoop)
  IN  /\ cast.pc = "sending"
      /\ cast' = [cast EXCEPT !.pc = "next", !.dead = @ \cup (cast.to \ fine),
                     !.served = @ \cup fine, !.again = @ \/ fine \cap cast.served # {},
                     !.to = {}]
      /\ sockets' = left /\ keys' = KeysLeft(left)
      /\ UNCHANGED <<handler, subscriber>>

ListEnds ==
  \A u \in {cast.user} \ {NoUser} : cast.at >= Len(sockets[cast.channel][u])

\* The next index of the list, whatever was removed before it.
NextSocket ==
  /\ cast.pc = "next" /\ ~ListEnds
  /\ cast' = SendTo(cast, cast.user, cast.at + 1)
  /\ UNCHANGED <<handler, sockets, keys, subscriber>>

\* The next key of the dict, if their number is what it was.
NextKey ==
  LET us == Without(cast.ahead, cast.skip)
  IN  /\ cast.pc = "next" /\ ListEnds
      /\ cast.channel = "conversation" /\ cast.size = Len(keys)
      /\ us # <<>>
      /\ cast' = SendTo([cast EXCEPT !.ahead = Tail(us)], Head(us), 1)
      /\ UNCHANGED <<handler, sockets, keys, subscriber>>

CastOver == [NoCast EXCEPT !.pc = "over", !.served = cast.served, !.again = cast.again,
               !.stay = cast.stay, !.intact = cast.intact, !.disturbed = cast.disturbed]

\* Else a RuntimeError, which _route_pmessage logs.
Interrupted ==
  /\ cast.pc = "next" /\ ListEnds
  /\ cast.channel = "conversation" /\ cast.size # Len(keys)
  /\ cast' = CastOver
  /\ UNCHANGED <<handler, sockets, keys, subscriber>>

\* After the loops, the sockets to which a send failed are unregistered.
LoopsEnd ==
  LET left == Left(cast.dead)
  IN  /\ cast.pc = "next" /\ ListEnds
      /\ cast.channel = "conversation"
           => cast.size = Len(keys) /\ Without(cast.ahead, cast.skip) = <<>>
      /\ sockets' = left /\ keys' = KeysLeft(left)
      /\ cast' = CastOver
      /\ UNCHANGED <<handler, subscriber>>

\* get_message is called again.
Polls ==
  /\ cast.pc = "over"
  /\ cast' = NoCast
  /\ UNCHANGED <<handler, sockets, keys, subscriber>>

\* Redis closes the connection; what is published from here on is lost.
SubscriberFails ==
  /\ subscriber = "up" /\ cast.pc = "idle"
  /\ subscriber' = AfterError
  /\ UNCHANGED <<handler, sockets, keys, cast>>

\* The lifespan of the application starts the task.
StartUp ==
  /\ subscriber = "off"
  /\ subscriber' = "down"
  /\ UNCHANGED <<handler, sockets, keys, cast>>

\* psubscribe succeeds, at the start or a second after an error.
Subscribes ==
  /\ subscriber = "down"
  /\ subscriber' = "up"
  /\ UNCHANGED <<handler, sockets, keys, cast>>

\* lifespan cancels the task; uvicorn has closed the sockets before.
ShutDown ==
  /\ subscriber # "off" /\ Registered = {}
  /\ subscriber' = "off" /\ cast' = NoCast
  /\ UNCHANGED <<handler, sockets, keys>>

ConnectionsNext ==
  \/ \E s \in Socket : Connect(s) \/ ClientGoes(s) \/ HandlerEnds(s)
  \/ \E skip \in SUBSET Blocker : RouteConversation(skip)
  \/ \E u \in User : RouteUser(u)
  \/ SendEnds \/ NextSocket \/ NextKey \/ Interrupted \/ LoopsEnd \/ Polls
  \/ StartUp \/ SubscriberFails \/ Subscribes \/ ShutDown

\* A send returns, or raises when the keepalive of the socket fails, and the task is
\* scheduled again; Redis comes back.
ConnectionsFairness ==
  /\ WF_connectionsVars(SendEnds \/ NextSocket \/ NextKey \/ Interrupted
                           \/ LoopsEnd \/ Polls)
  /\ WF_connectionsVars(Subscribes)

ConnectionsSpec ==
  ConnectionsInit /\ [][ConnectionsNext]_connectionsVars /\ ConnectionsFairness

------------------------------------------------------------------------------
(* Safety and liveness. *)

\* connect, disconnect and the cleanup of the broadcasts together: a client that is
\* there is registered, a registered socket has a running endpoint that will
\* unregister it, and is_user_connected tells of no user without one.
RegistryExact ==
  /\ \A s \in Socket : handler[s] = "open" => s \in Registered
  /\ \A s \in Registered : handler[s] \in {"open", "broken"}
  /\ \A u \in User :
       Connected(u) => \E s \in Socket : Owner[s] = u /\ handler[s] \in {"open", "broken"}

\* broadcast_to_conversation and broadcast_to_user: nobody is served twice, and if
\* no user entered or left the registry of the conversation meanwhile, every client
\* that stayed is served, unless a socket of the same user that the loop had already come
\* to left the list before the loop was done with it.
StayersServed ==
  cast.pc = "over" =>
    /\ ~cast.again
    /\ \/ cast.disturbed
       \/ \A s \in cast.stay : Owner[s] \in cast.intact => s \in cast.served

\* start_subscriber: the task never dies silently.  From startup to shutdown it comes
\* back to reading events, after every broadcast and every error.
SubscriberReads ==
  []<>(\/ subscriber = "off"
       \/ subscriber = "up" /\ cast.pc = "idle")

(* A statement of the source that its code does not keep. *)

\* "Send `data` to all WebSockets in this conversation on THIS instance"
\* (broadcast_to_conversation).
SentToAll == cast.pc = "over" => cast.stay \subseteq cast.served
==============================================================================
