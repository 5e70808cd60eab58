------------------------------ MODULE Signaling ------------------------------
(***************************************************************************)
(* Call signaling over /ws/user (app/websocket/user_router.py).  A frame   *)
(* for another user is forwarded if the two share a conversation and       *)
(* neither blocks the other, a verdict that the worker caches; the first   *)
(* offer of a call also sends a notification, guarded by a Redis key that  *)
(* expires.  Nothing checks that a frame carries a call id, and an offer   *)
(* without one notifies unguarded.  A frame in flight is a task: a socket  *)
(* handles one at a time, and a user may have several sockets.             *)
(***************************************************************************)
EXTENDS Requests

CONSTANTS
  Pair,     \* <<sender, recipient>> of the frames
  Refusal,  \* the <<blocker, blocked>> pairs the users may create
  CallId,   \* call ids
  TTL,      \* _SHARE_CACHE_TTL_SECONDS, in ticks of the clock
  Ring,     \* time to live of the key call_push:{id}, in ticks
  MaxTime   \* bound on the clock

ASSUME SignalingAssumption ==
  /\ Pair \subseteq User \X User /\ \A p \in Pair : p[1] # p[2]
  /\ Refusal \subseteq User \X User
  /\ TTL \in Nat /\ Ring \in Nat \ {0} /\ MaxTime \in Nat

VARIABLES
  clock,    \* time.monotonic(), and the clock of Redis
  shares,   \* pairs with a conversation in common
  refuses,  \* blocked_users: <<blocker, blocked>>
  cache,    \* cache[p]: the entry of _share_cache
  guard,    \* guard[c]: when call_push:{c} expires; 0: no such key
  signal,   \* signal[t]: the frame that task t forwards
  \* History variables; no action reads them.
  basis,    \* basis[p]: the last put of a verdict by a frame that saw it hold
  pushes    \* pushes[c]: notifications sent for call c

signalingVars == <<clock, shares, refuses, cache, guard, signal, basis, pushes>>

------------------------------------------------------------------------------
Entry == [cached : BOOLEAN, verdict : BOOLEAN, expires : Nat]
NoEntry == [cached |-> FALSE, verdict |-> FALSE, expires |-> 0]

SignalKind == {"offer", "restart", "other"}
\* data.get("call_id"): one id, or none (no such field, or an empty one).  It is read of
\* offers only.
Calls == {{}} \cup {{c} : c \in CallId}
CallOf(kind) == IF kind = "other" THEN {{}} ELSE Calls

Fact == {"shared", "apart", "free", "blocked"}

\* at and seen are history: when the frame arrived, and what held of its pair at some
\* moment since.
Signal == [pc : {"idle", "share", "blocks", "put", "refused", "offer", "push", "publish"},
           pair : SUBSET Pair, kind : SignalKind, call : Calls,
           verdict : BOOLEAN, at : Nat, seen : SUBSET Fact]
NoSignal == [pc |-> "idle", pair |-> {}, kind |-> "other", call |-> {},
             verdict |-> FALSE, at |-> 0, seen |-> {}]

\* The types; no entry is for longer than TTL, or of a refusal.
SignalingTypeOK ==
  /\ clock \in 0 .. MaxTime
  /\ shares \subseteq Pair /\ refuses \subseteq Refusal
  /\ cache \in [Pair -> Entry]
  /\ \A p \in Pair : /\ cache[p].expires <= clock + TTL
                     /\ cache[p].cached => cache[p].verdict
  /\ guard \in [CallId -> Nat]
  /\ signal \in [Task -> Signal]
  /\ \A t \in Task : signal[t].pc # "idle" => \E p \in Pair : signal[t].pair = {p}
  /\ basis \in [Pair -> Nat] /\ pushes \in [CallId -> Nat]

SignalingInit ==
  /\ clock = 0
  /\ shares = {} /\ refuses = {}
  /\ cache = [p \in Pair |-> NoEntry]
  /\ guard = [c \in CallId |-> 0]
  /\ signal = [t \in Task |-> NoSignal]
  /\ basis = [p \in Pair |-> 0]
  /\ pushes = [c \in CallId |-> 0]

------------------------------------------------------------------------------
(* Pieces of the handler. *)

Both(p) == {p, <<p[2], p[1]>>}

\* blocks_exist_between: in either direction.
Refused(p) == Both(p) \cap refuses # {}

\* _share_cache_get: an entry that has not expired.  (Mutant: any entry.)
HitForEver(p) == cache[p].cached
Hit(p) == cache[p].cached /\ clock <= cache[p].expires

\* Only positive verdicts are cached.  (Mutant: every verdict.)
CachesAll(verdict) == TRUE
Caches(verdict) == verdict

\* SET NX of the key of a call.  (Mutant: SET.)
SetAlways(c) == TRUE
SetNX(c) == guard[c] <= clock

Facts(p, ss, rs) == {IF p \in ss THEN "shared" ELSE "apart",
                     IF Both(p) \cap rs = {} THEN "free" ELSE "blocked"}

SignalAt(t, pc) == signal' = [signal EXCEPT ![t].pc = pc]
SignalEnds(t) == signal' = [signal EXCEPT ![t] = NoSignal]

\* What follows a verdict.
Then(kind, verdict) ==
  IF ~verdict THEN "refused" ELSE IF kind = "other" THEN "publish" ELSE "offer"

Concludes(t, verdict) ==
  signal' = [signal EXCEPT ![t].verdict = verdict,
               ![t].pc = IF Caches(verdict) THEN "put" ELSE Then(signal[t].kind, verdict)]

------------------------------------------------------------------------------
(* The handler. *)

\* A frame that the throttle lets pass; the cache answers, or drops what expired.
Receive(t, p, kind, call) ==
  LET pc == IF Hit(p) THEN Then(kind, cache[p].verdict) ELSE "share"
  IN  /\ signal[t].pc = "idle"
      /\ signal' = [signal EXCEPT ![t] =
                      [pc |-> pc, pair |-> {p}, kind |-> kind, call |-> call,
                       verdict |-> FALSE, at |-> clock, seen |-> Facts(p, shares, refuses)]]
      /\ cache' = IF Hit(p) THEN cache ELSE [cache EXCEPT ![p] = NoEntry]
      /\ UNCHANGED <<clock, shares, refuses, guard, basis, pushes>>

\* The first SELECT of _share_a_conversation.
ReadShare(t) ==
  /\ signal[t].pc = "share"
  /\ \E p \in signal[t].pair :
       IF p \in shares THEN SignalAt(t, "blocks") ELSE Concludes(t, FALSE)
  /\ UNCHANGED <<clock, shares, refuses, cache, guard, basis, pushes>>

\* blocks_exist_between.
ReadBlocks(t) ==
  /\ signal[t].pc = "blocks"
  /\ \E p \in signal[t].pair : Concludes(t, ~Refused(p))
  /\ UNCHANGED <<clock, shares, refuses, cache, guard, basis, pushes>>

\* The session is closed, then the verdict is put.
PutVerdict(t) ==
  /\ signal[t].pc = "put"
  /\ \E p \in signal[t].pair :
       /\ cache' = [cache EXCEPT ![p] =
                      [cached |-> TRUE, verdict |-> signal[t].verdict, expires |-> clock + TTL]]
       /\ basis' = IF {"shared", "free"} \subseteq signal[t].seen
                   THEN [basis EXCEPT ![p] = clock] ELSE basis
  /\ SignalAt(t, Then(signal[t].kind, signal[t].verdict))
  /\ UNCHANGED <<clock, shares, refuses, guard, pushes>>

\* "Recipient unreachable".
Refuse(t) ==
  /\ signal[t].pc = "refused"
  /\ SignalEnds(t)
  /\ UNCHANGED <<clock, shares, refuses, cache, guard, basis, pushes>>

\* The caller's name is read, and the first offer of a call with an id takes its key.
TakeGuard(t) ==
  /\ signal[t].pc = "offer" /\ signal[t].kind = "offer"
  /\ \E c \in signal[t].call : SetNX(c) /\ guard' = [guard EXCEPT ![c] = clock + Ring]
  /\ SignalAt(t, "push")
  /\ UNCHANGED <<clock, shares, refuses, cache, basis, pushes>>

\* An offer without a call id: there is no key to take, and it pushes whatever came before.
PushUnguarded(t) ==
  /\ signal[t].pc = "offer" /\ signal[t].kind = "offer" /\ signal[t].call = {}
  /\ SignalAt(t, "push")
  /\ UNCHANGED <<clock, shares, refuses, cache, guard, basis, pushes>>

\* Another offer of the call, an ICE restart, or an error of the database or of Redis.
NoPushOf(t) ==
  /\ signal[t].pc = "offer"
  /\ SignalAt(t, "publish")
  /\ UNCHANGED <<clock, shares, refuses, cache, guard, basis, pushes>>

\* send_push_to_users; an error is logged, and the key stays taken.
PushCall(t) ==
  /\ signal[t].pc = "push"
  /\ \/ pushes' = [c \in CallId |->
                     IF c \in signal[t].call THEN pushes[c] + 1 ELSE pushes[c]]
     \/ UNCHANGED pushes
  /\ SignalAt(t, "publish")
  /\ UNCHANGED <<clock, shares, refuses, cache, guard, basis>>

\* publish_to_user; if Redis does not answer, the socket is closed.
PublishSignal(t) ==
  /\ signal[t].pc = "publish"
  /\ SignalEnds(t)
  /\ UNCHANGED <<clock, shares, refuses, cache, guard, basis, pushes>>

------------------------------------------------------------------------------
(* Around it. *)

Witness(ss, rs) ==
  signal' = [t \in Task |-> [signal[t] EXCEPT
               !.seen = @ \cup UNION {Facts(p, ss, rs) : p \in signal[t].pair}]]

\* The pair starts a conversation, or one of them leaves it.
Meets(p) ==
  LET ss == IF p \in shares THEN shares \ Both(p) ELSE shares \cup (Both(p) \cap Pair)
  IN  /\ shares' = ss
      /\ Witness(ss, refuses)
      /\ UNCHANGED <<clock, refuses, cache, guard, basis, pushes>>

\* block_user and unblock_user.
Blocks(b) ==
  LET rs == IF b \in refuses THEN refuses \ {b} ELSE refuses \cup {b}
  IN  /\ refuses' = rs
      /\ Witness(shares, rs)
      /\ UNCHANGED <<clock, shares, cache, guard, basis, pushes>>

Tick ==
  /\ clock < MaxTime /\ clock' = clock + 1
  /\ UNCHANGED <<shares, refuses, cache, guard, signal, basis, pushes>>

SignalingNext ==
  \/ \E t \in Task :
       \/ \E p \in Pair, kind \in SignalKind : \E call \in CallOf(kind) : Receive(t, p, kind, call)
       \/ ReadShare(t) \/ ReadBlocks(t) \/ PutVerdict(t) \/ Refuse(t)
       \/ TakeGuard(t) \/ PushUnguarded(t) \/ NoPushOf(t) \/ PushCall(t) \/ PublishSignal(t)
  \/ \E p \in Pair : Meets(p)
  \/ \E b \in Refusal : Blocks(b)
  \/ Tick

SignalingSpec == SignalingInit /\ [][SignalingNext]_signalingVars

------------------------------------------------------------------------------
(* Safety. *)

\* _share_a_conversation: a forwarded frame saw its pair share a conversation and saw
\* it unblocked since it arrived, or came at most TTL after a verdict was put by
\* one that did.  A block is in force after TTL and the lookups in flight.
ForwardJustified ==
  \A t \in Task : signal[t].pc \in {"offer", "push", "publish"} =>
    \/ {"shared", "free"} \subseteq signal[t].seen
    \/ \A p \in signal[t].pair : signal[t].at <= basis[p] + TTL

\* _share_a_conversation: a refused frame saw its pair apart or blocked since it
\* arrived, so an unblock or a first conversation takes effect at once.
RefusalsFresh ==
  \A t \in Task :
    signal[t].pc = "refused" => signal[t].seen \cap {"apart", "blocked"} # {}

\* The guard of the notification, "only PUSH once per call": resent offers that carry the
\* id of a call, from any socket, notify again only after its key has expired.  Offers
\* without a call id belong to no call here: PushUnguarded notifies for each of them.
PushRate == \A c \in CallId : pushes[c] <= 1 + clock \div Ring
==============================================================================
