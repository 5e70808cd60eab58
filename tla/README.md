# Verification of the private messenger backend

TLA+ models of the chat server in `src/app` (FastAPI, SQLAlchemy on PostgreSQL,
Redis pub/sub, WebSockets), the TLC runs that check them on small instances and
the TLAPS proofs that hold for every instance. `PROJECT.json` is the index: which
run checks what, which definition stands for which lines, which hazards of the
code are covered by which property.

## The system

Every HTTP request and every WebSocket frame runs in a coroutine of one event
loop per process. What can interleave is what lies between two awaits, and, with
several processes or one database, whatever the database and Redis let through.

- A request has one transaction: `get_session` commits when the handler has
  returned and rolls back when it raised. A WebSocket frame opens a session of
  its own and commits before it publishes.
- PostgreSQL runs at READ COMMITTED. A SELECT sees what is committed when it
  runs. ORM objects remember what was read; an UPDATE sets the columns that the
  handler changed. Only unique keys, foreign keys and row locks order requests.
  A single-row UPDATE that matches nothing raises (`StaleDataError`); a DELETE
  that matches nothing only warns.
- Redis carries the events of a conversation to every process; it keeps nothing
  for a subscriber that is reconnecting. It also holds the counters of failed
  logins and the keys that guard call notifications, outside any transaction.

### Inventory

| Component | State | Operations | Interacts with | What is hard | Correct when |
|---|---|---|---|---|---|
| Conversation sockets (`websocket/router.py`) | message rows, ticks, reactions, the coroutine of each frame | connect, message, delivery, read, reaction, notify | database, Redis, registry, push | decisions from reads made at different times; publish after or before commit | blocks hold, ticks only move forward, events tell of committed rows |
| Connection manager (`websocket/manager.py`) | sockets by conversation and by user, the subscriber task | connect, disconnect, publish, broadcast, subscribe | Redis, sockets | the registry changes during a broadcast; errors of a send and of Redis | the registry is exact, stayers are served once, the task never stops reading |
| Message deletion and history (`endpoints/messages.py`, `endpoints/conversations.py`) | message rows, hide set, blobs, files | delete for me, for everyone, page through messages | Redis, storage | tombstone and file removal inside the transaction; pages read at different times | a walk over the pages misses and repeats nothing |
| Moderation (`endpoints/moderation.py`, `services/moderation_service.py`) | blocked_users, reports | block, unblock, report | messages, calls, signaling | takes effect in the middle of a send | no message by any way, no call |
| Conversations (`endpoints/conversations.py`) | conversations, participants, prefs | create or get, list, prefs, leave | accounts | create races, leave and return, count then write | one conversation per pair, complete; pins bounded |
| Media (`endpoints/media.py`, `services/media_storage.py`) | media_blobs, files | reserve, upload, download | messages, avatars, sweep, accounts | two stores, one transaction | what is referenced can be read, what is not goes |
| Maintenance (`services/maintenance.py`) | none of its own | hourly sweep | blobs, sessions, calls | references read in several steps; several processes | removes only what nobody uses, and in the end all of it |
| Accounts and sessions (`services/auth_service.py`, `endpoints/auth.py`, `endpoints/users.py`) | users, sessions | register, login, refresh, logout, change password, delete | everything, by cascades | token rotation raced; sessions read before they are deleted | rotation is bounded; a password change logs the others out |
| Login lockout (`endpoints/auth.py`) | Redis counters | check, count a failure | login | INCR and EXPIRE are two commands, check and count are far apart | failures are bounded; a counter expires |
| Calls (`endpoints/calls.py`) | calls | create, update | sweep, blocks | set-once fields written from stale reads | blocked calls leave no row, every call is closed |
| Call signaling (`websocket/user_router.py`) | verdict cache, notification keys | relay, offer push | blocks, registry, push | verdicts 30 seconds old, offers sent again | no signal across an old block, no stale refusal, one notification per ring for offers that carry a call id (the others are not guarded) |
| Devices and push (`services/device_service.py`, `services/push_service.py`) | devices | register, clear token, push | Expo | no unique key on the token, late answers | a token belongs to one user |
| Throttle (`websocket/throttle.py`) | a window and a counter per connection | allow | every frame | window edges | bursts bounded |
| Chat list (`endpoints/conversations.py`) | - | list, answer about one chat | messages, receipts, accounts | statements that each see another moment | no badge for a message newer than the preview |
| Contacts, WebRTC credentials, legal pages, health, migrations | - | read | - | - | - |

## Modules

| Module | Models |
|---|---|
| `MessageLife` | abstract specification: the life of a stored message |
| `ChatLife` | abstract specification: the life of a direct conversation and the answers about it |
| `Messaging` | one conversation: WebSocket handlers, delete for everyone, blocks, leave, account deletion, the Redis channel, the notification task |
| `Conversations` | direct conversations, participants, preferences |
| `Media` | blob rows, files, what refers to them, the sweep |
| `Requests` | what `Sessions`, `Lockout`, `Devices`, `Signaling`, `CallLog` and `Connections` share: accounts, and a fixed number of requests in flight |
| `Sessions` | accounts, refresh tokens, password changes |
| `Lockout` | the counter of failed logins |
| `Devices` | device rows, push tokens, notifications |
| `Signaling` | frames of `/ws/user`, the verdict cache, the guarded notification |
| `CallLog` | call rows and the pass of the sweep that closes them |
| `Connections` | registries, broadcasts, the subscriber task |
| `Throttle` | the throttle of a connection |
| `History` | `list_messages` and its cursor |
| `ChatList` | what the chat list shows of a conversation |
| `MCMessaging`, `MCConversations`, `MCMedia`, `MCAccounts`, `MCActivity` | instances for TLC |
| `MessagingProofs`, `ConversationsProofs`, `MediaProofs`, `ConnectionsProofs` | theorems about the module of that name |
| `AccountsProofs` | theorems about `Sessions` and `Devices` |
| `CallsProofs` | theorems about `Signaling` and `CallLog` |
| `LimitsProofs` | theorems about `Lockout` and `Throttle` |
| `ReadingProofs` | theorems about `History` and `ChatList` |

Variables that record the past for a property ("history") are named as such at
their declaration, and no action is guarded by them except, where it is said, to
bound a counter.

**Messaging.** `row`, `participants`, `blocked`, `reactions`, `users` are the
committed rows; `open` is the registry of the manager; `frame[s]` holds the local
variables of the handler socket `s` is in (its program counter names the await it
is suspended at); `request[r]` is a delete request with its open transaction;
`channel` is the Redis channel and `notify[m]` the background task of a message.
A send is four steps: the read of the participants, the read of the blockers, the
commit, the publish. A delete is resolve, flush (which takes the row lock),
publish, commit. Handlers fail at any await. `Broadcast` delivers one event to
everybody registered at that moment, which is more than the code guarantees:
`Connections` shows what a broadcast misses. This favours the properties that
forbid a delivery; no property of this module relies on one.

**Conversations.** `key[c]` is the row of a conversation with its `direct_key`,
`participants` and `pref` the other two tables, `task[t]` a request. A create
reads, inserts the row (waiting for an uncommitted row with the same key, and
answering with the row that has it), then inserts the members and commits. A
preference request checks membership, loads the row, counts pins when it pins,
writes. `served` remembers every answered create and `left` who left.
`ChatLife` sees of all this the pair of a conversation, who is in it, who is gone
(`left`), and the answers (`served`); requests in flight and their locks are hidden.

**Media.** `blob` and `message` are rows, `files` the storage, `avatar` the
profile picture keys, which are plain text. A deletion collects rows in `doomed`
and removes their files one by one (`todo`) before the transaction commits; when
it fails, the rows come back and the files do not. The sweep reads candidates,
message references and avatars in three steps and commits once, at the end.
`torn` and `escaped` record deletions that failed half-way and files written too
late; `used` what was in use when the sweep chose.

**Sessions.** `number`, `password` are columns of users, `owner[k]` the session
row of refresh token `k`, `login[t]` a request. bcrypt runs on a worker thread, so
login and password change are split before and after it: login reads the user,
then inserts a session; a refresh reads the session row, then deletes it and
inserts another; a password change reads the account, then the session rows, then
commits. `offers` and `intents` are the signed tokens of registration and
deletion. `parent`, `under` and `raced` record from which token a token was
exchanged, which password its holder last proved, and which were issued by a
request that overlapped a password change.

**Lockout.** `fails[n]` is the Redis key of a number, `window` the keys with a
time to live. Check, verification, INCR and EXPIRE are four steps; Redis or the
worker may fail at each, and the check then fails open.

**Devices.** A registration deletes the rows other users have with the token
(and holds their locks until its commit), looks for its own row, inserts or
updates it. `scalar_one_or_none` raises on two rows. A push reads the targets,
waits for Expo, and in a transaction of its own deletes the rows whose phone is
gone.

**Signaling.** `cache[p]` is the entry of `_share_cache`, `guard[c]` the Redis
key `call_push:{c}`, `signal[t]` a frame in flight with its program counter:
lookup of the conversation, lookup of the blocks, put, refusal, notification,
publish. `signal[t].call` is what `data.get("call_id")` gives: one id, or none, for
nothing validates it. An offer with an id takes its key or finds it taken
(`TakeGuard`, `NoPushOf`); one without skips the key and notifies (`PushUnguarded`),
each time it is sent. `pushes[c]` counts the notifications of the offers with the id
`c`, and `PushRate` speaks of these only. `Meets` and `Blocks` change conversations and blocks meanwhile; `clock`
is the time both caches expire by. Throttled frames never start.

**CallLog.** `call[c]` is a row, `patch[t]` a create or an update in flight. An
update decides from the row it read which columns are still NULL, and writes
those later, whatever they are by then. `SweepCalls` closes all stale calls in
one commit, `Grows` lets two hours pass, `DeleteParty` sets the foreign keys to
NULL. Blocks come and go while a create is between its check and its insert.

**Connections.** `sockets` are the lists of both registries, `keys` the keys of
the conversation's dict in their order, `handler[s]` the endpoint of a socket.
`cast` is the broadcast in progress as the two nested Python iterators over the
live dict and the live list: an index into a list that may shift under it, the
keys ahead, the size the dict had. `cast.intact` are the users of whose list no socket
at or before the index has left, so that the list has not shifted under it. A changed size raises (`Interrupted`); sockets
to which a send failed are unregistered only after the loops (`LoopsEnd`).
`subscriber` is the task: down after an error of Redis, up after `psubscribe`.

**Throttle.** The two fields of `ConnectionThrottle`, a clock, and the times of
the frames that passed.

**History.** A message draws its `created_at` before it is committed, so a row
may appear behind a newer one. A page is two reads: the newest rows before the
cursor, then the hide set; the next cursor comes from all rows of a full page,
hidden or not. Messages are sent, hidden and deleted on the way. Times are
distinct, and this matters: two messages with the same `created_at` on both sides
of a page edge would lose one, because the cursor is strictly older.

**ChatList.** `line` is a request that has found its conversation and runs two
statements, the count of unread messages and the newest message, each on the rows
of its moment. `list_conversations` counts first, so that nothing it counts is newer
than what it shows; the answer about one conversation (`_hydrate_conversation`)
reads the message first, and may count one that it does not show. Neither looks at
the hide set: a message deleted "for me" stays the preview, and while unread stays
in the count.

## Runs

| Run | Instance | Shows |
|---|---|---|
| `Messaging_group` | 3 users, 1 message, blocks of one sender by two, two may leave, lossy channel | `TypeOK`, `BlockRespected`, `NeverWritten` |
| `Messaging_ticks` | 2 sockets of one user, 2 messages, 1 delete request, lossy channel | `EventsBacked`, and `LifeSpec`: `Messaging` implements `MessageLife` |
| `Messaging_liveness` | 1 socket, 2 delete requests of one message | `HandlersFinish` |
| `Conversations_pairs` | 2 users, both call and leave, 2 ids, 2 requests | `TypeOK`, `OneConversation`, and `ChatSpec`: `Conversations` implements `ChatLife` |
| `Conversations_pins` | 1 caller, 3 conversations, limit 1, 2 requests | `PinBound` |
| `Media_files` | 1 blob, 2 messages, 2 requests, 1 sweeper | `TypeOK`, `AttachmentReadable`, `StrayFilesExplained`, `UsedMediaKept` |
| `Media_expire` | 1 blob, 1 message, 1 request, 1 sweeper | `AbandonedSwept` |
| `Accounts_parts` | `Sessions` (1 newcomer, 3 tokens), `Devices` (2 users, 1 phone, 3 rows), `Signaling` (1 pair, offers with 1 call id or none), 2 requests each | `RotationBound`, `PasswordChangeLogsOut`, `TokenReclaimed`, `DuplicateBound`, `ForwardJustified`, `RefusalsFresh`, `PushRate`, and the types |
| `Activity_parts` | `Connections` (5 sockets of 2 users), `CallLog` (1 call, 2 requests), `Lockout` (limit 2, 2 logins), `Throttle` (budget 2), `History` (4 messages, pages of 2), `ChatList` (4 messages, 1 of the reader) | `RegistryExact`, `StayersServed`, `SubscriberReads`, `NoPhantomCall`, `EndedBound`, `CallsClosed`, `LockoutBound`, `CounterExpires`, `BurstBound`, `WalkComplete`, `ListCoherent`, and the types |
| `Messaging_skipped`, `Conversations_rejoin`, `Activity_sent` | as above | counterexamples to sentences of the source, below |

**Parts.** `MCAccounts` and `MCActivity` check components that share no variable.
`turn` is drawn once and names the component that moves; the others stay in their
initial state, where their properties hold and nothing that is fair is enabled.
So one run covers the sum of the state spaces and not their product, and a
property of a component is checked on all of its behaviours.

**Bounds.** Three users in the group separate "some recipients blocked the
sender" from "all did". One direction of blocking is enough because the roles are
played by different users. Two messages let one receipt frame carry a batch of
which one row vanishes; two are needed for one attachment under both. Two
requests in flight show every race of two; the theorems say that more change
nothing. With a limit of one and two requests `PinBound` is two, and a third pin
would be possible if it were wrong. `MaxChannel` bounds events published and not
yet routed; with one place every order of publishing and routing of two events
still occurs, and a full channel only delays the publisher. One blob is enough
for `Media`: its rules never relate two blobs. `MaxTokens` = 3 is a login and both
successors that two racing refreshes give it. `MaxDevices` = 3 leaves a third row
to be wrongly created where the bound is two. `TTL` = `Ring` = 1 with `MaxTime` = 2
lets an entry and a key expire and be made anew. `MaxWrites` = 4 lies above the
bound of three that `EndedBound` states, `MaxPassed` = 6 above twice `MaxEvents`,
and `MaxNow` = 6 is three windows. `Limit` = 2 with `MaxOutages` = 1 lets each term
of `LockoutBound` count. `MaxMessages` = 4 with `PageLimit` = 2 gives two full pages
and an empty one. Five sockets give one user two in the conversation and two on
`/ws/user`, so that lists shift, and another user one, so that the dict grows and
shrinks; each socket connects at most once. In `MCAccounts` the requests, and the
passwords other than the delete password, are symmetric; the run has no liveness
property.

`CHECK_DEADLOCK FALSE` appears where the system may really be at rest: accounts
are deleted, ids or tokens used up, or the bounded clock has run out.

**Fairness.** Coroutines are scheduled by one event loop that starves nobody, so
each step of a running handler is weakly fair. Strong fairness stands for row
locks, which PostgreSQL grants in order of arrival, and for room in the bounded
channel. A delete request whose row vanished must fail (its UPDATE raises). The
maintenance loop sweeps for ever and retries after a failure
(`run_maintenance_loop`): strong fairness of its steps in `Media` says that no
step of it fails every time; in `CallLog`, where a pass is one step, weak fairness
is enough, and time passes. In `Connections` an awaited send returns, or raises
when the keepalive of a dead socket fails, the subscriber task is scheduled again,
and Redis comes back. Nobody has to connect, send, block or leave, and users are
under no fairness.

### Where the source says more than the code does

Three runs end in a counterexample to a sentence of the source; each is described
with its lines in `PROJECT.json`.

- `Messaging_skipped`: "already received the full message in-thread"
  (`router.py:319`) is false of a client that connected after the broadcast.
- `Conversations_rejoin`: a user who left a conversation and creates it again is
  answered with the old conversation, in which it is not, and is never added.
- `Activity_sent`: "Send `data` to all WebSockets in this conversation"
  (`manager.py:150`) is false of a client whose neighbour leaves the list while a
  send is awaited, and of everyone behind a change of the dict.

Other differences found while modelling, without a run of their own:

- "Effective immediately" (`moderation.py:81`): a recipient who blocks the sender
  and leaves during the send is no longer looked for among the blockers and still
  has an open socket.
- `delete_message` publishes the tombstone before it commits (`messages.py:186`).
- An upload that outlasts the deletion of its row leaves its file for ever
  (`media.py:141`, `auth_service.py:222`); `StrayFilesExplained` counts it.
- The pin limit of `conversations.py:52` can be exceeded by concurrent pins;
  `PinBound` says by how much. A preference row can be written after its owner
  left, although `leave_conversation` removes it "to avoid orphaned pref data".
- The docstring of `leave_conversation` says the conversation is "cleaned up by FK
  cascade when users are deleted", but `conversations` has no key to `users`.
- The sweep removes a blob that is attached or made an avatar between its reads
  and its commit; `UsedMediaKept` speaks of those in use all along.
- A user who left goes on reacting and acknowledging through an open socket,
  although `router.py:377` holds that the check at connect time makes membership
  implicit.
- "Set once" of `accepted_at` and `ended_at` (`schemas/messaging.py:276`) is not
  kept by requests that race; `EndedBound` says how often it can fail.
- A refresh or a login that races a password change leaves a session that the
  change was to end; `PasswordChangeLogsOut` says which.
- Two registrations of one phone at once make two rows, and the next registration
  fails on them.
- "Only PUSH once per call" (`user_router.py:248`): an offer without a call id, or with
  an empty one, skips the guard (`user_router.py:260`), and every resend of it notifies.
  With an id, a call that rings longer than the life of its key notifies again.
- "Successful logins are never throttled by this; only failures count"
  (`auth.py:65`): only failures are counted, but once a number has ten the check
  (`auth.py:86`) answers 429 before the password is looked at, the right one too.
  `LoginCheck` has it: a login starts only if the number is not locked out, whoever
  sends it.
- "Try again in a few minutes" (`auth.py:89`) does not hold when EXPIRE was lost:
  the counter stays.

### Hazards that no property covers

`PROJECT.json` lists the hazards of the code with the properties that catch them. Six
are in the models and have no property, because the code does nothing against them and
no sentence of it, beyond those quoted above, promises otherwise: a tombstone on the
wire before its commit, events lost while the subscriber reconnects, a preference row
that outlives its owner's membership, a blob first used between the reads of a sweep, a
login counter whose EXPIRE was lost, and a push answer that comes after its rows
changed. Two more: the notification that a user with another thread open does not get
(promised nowhere), and two sockets of one user toggling one reaction (the liveness run
has one socket; with two it is out of TLC's reach here).

## Proofs

`tlapm` proves, for every value of the constants, what follows. The inductive
invariant of each module is named in it, as a conjunction of named parts.

| Theorem | States | Inductive argument |
|---|---|---|
| `MessagingProofs!TypeCorrect` | `TypeOK` | inductive as it stands |
| `MessagingProofs!BlocksHold` | `BlockRespected` | a frame past its second read has every shielding participant in `skip`, or that user is no participant; events and notifications carry the same list |
| `MessagingProofs!NothingWrittenForNobody` | `NeverWritten` | the same facts, read at the commit |
| `MessagingProofs!EventsFollowCommits` | `EventsBacked` | a handler at its publish has its ticks in the rows, and ticks are never taken back |
| `MessagingProofs!LivesImplemented` | `LifeSpec` | each action maps to `Send`, `Ack`, `Wipe`, `Purge` or a stutter; needs that a message being sent is stored nowhere and that what others hold was stored |
| `ConversationsProofs!TypeCorrect` | `TypeOK` | inductive with the shape of each request |
| `ConversationsProofs!PairedOnce` | `OneConversation` | `KeyInv`: keys are sorted, the keys of rows and of uncommitted inserts are all different |
| `ConversationsProofs!BothAreMembers` | `MembersComplete` | `MemberInv`: participants are of the pair, and answers name its conversation |
| `ConversationsProofs!ChatsImplemented` | `ChatSpec` | a create maps to `Found` or `Answer`, a leave to `Leave` or a stutter, an account deletion to `Erase`; needs `KeyInv` (no row has the pair of an uncommitted insert), `MemberInv` and `LeftInv`: who left is no participant and left a conversation that exists, and a request about to leave one found its caller in it |
| `ConversationsProofs!PinsBounded` | `PinBound` | `PinInv`: the pins of a user plus the requests that have counted and not written yet are at most limit + requests - 1; a count below the limit leaves room for every request in flight |
| `MediaProofs!MediaTypes` | `TypeOK` | with `JobsInv`, the shape of each job and of what it holds |
| `MediaProofs!AttachmentsReadable` | `AttachmentReadable` | `FileInv`: an uploaded blob has its file, or is torn, or a deletion holds it; `UseInv`: only uploaded blobs are referred to |
| `MediaProofs!StrayFilesAreExplained` | `StrayFilesExplained` | `FileInv`: a file a job has already removed is back only if it escaped |
| `MediaProofs!UsedMediaIsKept` | `UsedMediaKept` | `SweepInv`: what a sweep remembers as in use still is, and is neither doomed nor, once the messages are read, a candidate |
| `AccountsProofs!SessionsTypes` | `SessionsTypeOK` | `RequestInv`: a token belongs to one user for ever, so requests that hold the same one serve the same user |
| `AccountsProofs!RotationsBounded` | `RotationBound` | `RotationInv`: the successors of a token plus the refreshes that have read it are at most the requests in flight; an exchanged token has no row left to read |
| `AccountsProofs!PasswordChangesLogOut` | `PasswordChangeLogsOut` | `PasswordInv`: a request in flight has raced or knows the present password, and a change has seen every session of the account but the raced ones |
| `AccountsProofs!DevicesTypes` | `DevicesTypeOK` | with the users of the registrations in flight |
| `AccountsProofs!TokensReclaimed` | `TokenReclaimed` | `EvictsMet`: what shares a token with a registration past its DELETE is among the rows the DELETE locked or was registered by one it met; `RacesMet`: registrations in flight for one token have met |
| `AccountsProofs!DuplicatesBounded` | `DuplicateBound` | `CopiesBounded`: the rows of an account for a phone plus the requests about to insert one are at most the requests in flight; a request that finds no row starts the count anew |
| `CallsProofs!SignalingTypes` | `SignalingTypeOK` | with `FrameOK` for the verdicts that are put |
| `CallsProofs!ForwardsJustified` | `ForwardJustified` | `FrameOK`: what the program counter of a frame says of what it has seen; `CacheInv`: an entry expires at most TTL after the last put that saw its verdict hold |
| `CallsProofs!RefusalsAreFresh` | `RefusalsFresh` | the same: no refusal is ever cached |
| `CallsProofs!PushesPaced` | `PushRate`: offers that carry a call id; the others take no key, are not paced, and change nothing for these | `RateInv`: `Ring` times the notifications sent or about to be for an id is at most the time at which the key expires, and that is at most `clock + Ring`: each of them has had the key for a life of its own |
| `CallsProofs!CallLogTypes` | `CallLogTypeOK` | inductive with the rest: a row that the sweep closed keeps a reason |
| `CallsProofs!NoPhantomCalls` | `NoPhantomCall` | `BlockInv`: a create that was blocked all the time still is, so it is not past the check |
| `CallsProofs!EndsBounded` | `EndedBound` | `WriteInv`: the writes of `ended_at` plus the requests about to write it are at most requests + 1, and before the first write there is none; `LiveInv`: what a request is about to write has a row |
| `LimitsProofs!LockoutTypes`, `CountersExpire` | `LockoutTypeOK`, `CounterExpires` | `WindowInv`: a counter about to get a time to live has none and is not zero |
| `LimitsProofs!FailuresBounded` | `LockoutBound` | `FailsInv`: failures plus logins that passed the check and have not counted are at most limit - 1 + requests + outages |
| `LimitsProofs!ThrottleTypes` | `ThrottleTypeOK` | inductive as it stands |
| `LimitsProofs!BurstsBounded` | `BurstBound` | `BurstInv`: frames before the last `MaxEvents` of earlier windows passed more than a window before this one began |
| `ConnectionsProofs!ConnectionsTypes`, `RegistriesExact` | `ConnectionsTypeOK`, `RegistryExact` | `ListsInv`: a list holds sockets of its own user and channel, each once, whose endpoint runs, and every client that is there is in its list |
| `ConnectionsProofs!BroadcastsServe` | `StayersServed` | `LoopInv`: a socket that was sent to and is still listed is behind both iterators, so that an index that shifts can skip somebody and never repeat; `StayInv`: while nobody entered or left, the dict has the size the iterator knows, and every client that stayed was sent to or is still to come, if its list did not shift under the index |
| `ReadingProofs!HistoryTypes`, `WalksComplete` | `HistoryTypeOK`, `WalkComplete` | `WalkInv`: what was returned is not older than the cursor, and what was there all the time and is not older was returned; `PageInv`: between the two reads, what the page lacks is older than all of a full page |
| `ReadingProofs!ChatsCoherent` | `ListCoherent` | `LineInv`: what was counted had been delivered by then, so the newest message read afterwards is no older, unless it went with its sender |

The counting bounds (`PinBound`, `RotationBound`, `EndedBound`, `LockoutBound`,
`DuplicateBound`, `PushRate`) need induction on a sum and not on the property: the
requests that have read and not yet written are what the bound is about, so the
invariant counts them with what is written, and a step moves one from the one summand
to the other.

Assumptions are the named `ASSUME`s of each module: owners are users, the "none"
values are outside their sets, requests in flight are finitely many where they are
counted, uuids are ordered without ties, limits and windows are not zero.

Three kinds of lemma carry most of these proofs. What removing elements does to a
list (`WithoutElements`: the rest keeps its distinctness, and no element moves to a
higher index) is the reason why an index that stays where it is never serves anyone
twice; that nothing moves to the other side of an index before which nothing was removed
(`PrefixStays`) is the reason why it skips nobody then. Cardinalities of requests in flight grow and shrink by one
(`FS_AddElement`, `FS_RemoveElement`, `FS_Subset`). That a page holds the newest rows
rests on the least element of a set of naturals (`Smallest`), which the library gives
by well-foundedness and not by its induction theorems, whose operator parameters the
provers cannot instantiate. For the same reason `Connections` defines what is left of
a list (`Without`) by the places of the elements that stay, and not by a recursion or
by `SelectSeq`.

Every safety property of the runs that expect no violation is stated by a theorem,
and so are the refinements `LifeSpec` and `ChatSpec`. Only model-checked are the liveness properties
`HandlersFinish`, `AbandonedSwept`, `SubscriberReads` and `CallsClosed`: temporal
reasoning under fairness, and `ENABLED`, are out of the prover's reach.

## What is left

1. An abstract specification of a registry (join, leave, who is there) that
   `Connections` implements, and one of a lockout that `Lockout` implements.
2. The safety half of the liveness properties as theorems: that a handler, a sweep or
   a broadcast that has not ended always has a step to take.

## Not modelled

Validation of payloads and the HTTP rate limiter (they only refuse, and a refusal
is the choice not to act), the cryptography (the server never sees plaintext),
reports and stars (private or insert-only rows that no decision reads), listing of
calls, devices, blocks and contacts (one read each), WebRTC credentials,
legal pages, health checks, configuration, input schemas and migrations.
