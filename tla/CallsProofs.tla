---------------------------- MODULE CallsProofs ------------------------------
(***************************************************************************)
(* Theorems about the frames of calls (Signaling) and the history of calls *)
(* (CallLog), for any users, pairs, calls, requests in flight, times to    *)
(* live and limits.                                                        *)
(***************************************************************************)
EXTENDS Signaling, CallLog, FiniteSetTheorems, TLAPS

------------------------------------------------------------------------------
(* Signaling. *)

------------------------------------------------------------------------------
(* The invariant. *)

Forwarding == {"offer", "push", "publish"}

\* What the program counter of a frame says of what it has seen.
FrameOK(t) ==
  \A p \in signal[t].pair :
    /\ Facts(p, shares, refuses) \subseteq signal[t].seen
    /\ signal[t].pc = "blocks" => "shared" \in signal[t].seen
    /\ signal[t].pc = "put" => /\ {"shared", "free"} \subseteq signal[t].seen
                               /\ signal[t].verdict
    /\ signal[t].pc \in Forwarding => \/ {"shared", "free"} \subseteq signal[t].seen
                                      \/ signal[t].at <= basis[p] + TTL
    /\ signal[t].pc = "refused" => signal[t].seen \cap {"apart", "blocked"} # {}

\* Entries expire no later than TTL after the last put that saw the verdict hold.
CacheInv ==
  \A p \in Pair : /\ basis[p] <= clock
                  /\ cache[p].cached => cache[p].expires <= basis[p] + TTL

SignalInv == CacheInv /\ \A t \in Task : FrameOK(t)

LEMMA InitSignaling == SignalingInit => SignalingTypeOK /\ SignalInv
  BY SignalingAssumption
     DEF SignalingInit, SignalingTypeOK, SignalInv, CacheInv, FrameOK, Entry, NoEntry,
         Signal, NoSignal, SignalKind, Calls, Fact

------------------------------------------------------------------------------
(* One step of one frame. *)

\* A step that changes one frame, and at most raises the basis of pairs.
LEMMA OneFrame ==
  ASSUME SignalingTypeOK, SignalInv, NEW t \in Task,
         \A s \in Task \ {t} : signal'[s] = signal[s],
         UNCHANGED <<shares, refuses>>, \A p \in Pair : basis'[p] >= basis[p],
         basis' \in [Pair -> Nat], FrameOK(t)', CacheInv'
  PROVE  SignalInv'
<1> SUFFICES ASSUME NEW s \in Task \ {t} PROVE FrameOK(s)'
  BY DEF SignalInv
<1>1. FrameOK(s) /\ signal'[s] = signal[s] /\ signal[s] \in Signal
  BY DEF SignalInv, SignalingTypeOK
<1>2. ASSUME NEW p \in signal[s].pair, signal[s].at <= basis[p] + TTL
      PROVE  signal[s].at <= basis'[p] + TTL
  <2>1. p \in Pair /\ signal[s].at \in Nat /\ basis[p] \in Nat /\ basis'[p] \in Nat
    BY <1>1 DEF Signal, SignalingTypeOK
  <2> QED
    BY <1>2, <2>1, SignalingAssumption
<1>3. shares' = shares /\ refuses' = refuses
  OBVIOUS
<1> QED
  BY <1>1, <1>2, <1>3 DEF FrameOK

\* The program counters that a conclusion leads to.
LEMMA ThenType ==
  ASSUME NEW kind \in SignalKind, NEW v \in BOOLEAN
  PROVE  /\ v => Then(kind, v) \in Forwarding
         /\ ~v => Then(kind, v) = "refused"
  BY DEF Then, Forwarding

\* A frame keeps its one pair; the others keep theirs.
LEMMA CarriesOne ==
  ASSUME SignalingTypeOK, NEW t \in Task,
         \A s \in Task \ {t} : signal'[s] = signal[s],
         NEW p \in Pair, signal'[t].pair = {p}
  PROVE  \A s \in Task : signal'[s].pc # "idle" => \E q \in Pair : signal'[s].pair = {q}
  BY DEF SignalingTypeOK

LEMMA ReceiveStep ==
  ASSUME SignalingTypeOK, SignalInv, NEW t \in Task, NEW p \in Pair,
         NEW kind \in SignalKind, NEW carried \in Calls, Receive(t, p, kind, carried)
  PROVE  SignalingTypeOK' /\ SignalInv'
<1>1. PICK pc \in {"share"} \cup Forwarding :
        /\ pc = (IF Hit(p) THEN Then(kind, cache[p].verdict) ELSE "share")
        /\ pc # "share" => Hit(p)
  BY ThenType DEF Hit, SignalingTypeOK
<1>2. signal' = [signal EXCEPT ![t] =
                   [pc |-> pc, pair |-> {p}, kind |-> kind, call |-> carried,
                    verdict |-> FALSE, at |-> clock, seen |-> Facts(p, shares, refuses)]]
  BY <1>1 DEF Receive
<1>3. Facts(p, shares, refuses) \in SUBSET Fact /\ clock \in Nat /\ signal \in [Task -> Signal]
  BY SignalingAssumption DEF Facts, Fact, SignalingTypeOK
<1>4. signal'[t] = [pc |-> pc, pair |-> {p}, kind |-> kind, call |-> carried,
                    verdict |-> FALSE, at |-> clock, seen |-> Facts(p, shares, refuses)]
  BY <1>2, <1>3
<1>5. signal' \in [Task -> Signal]
  <2>1. signal'[t] \in Signal
    BY <1>3, <1>4 DEF Signal, Forwarding
  <2> QED
    BY <1>2, <1>3, <1>4, <2>1
<1>6. \A s \in Task \ {t} : signal'[s] = signal[s]
  BY <1>2, <1>3
<1>7. UNCHANGED <<clock, shares, refuses, guard, basis, pushes>>
  BY DEF Receive
<1>8. cache' \in [Pair -> Entry] /\ \A q \in Pair : cache'[q] = cache[q] \/ cache'[q] = NoEntry
  <2>1. cache \in [Pair -> Entry]
    BY DEF SignalingTypeOK
  <2>2. NoEntry \in Entry
    BY DEF NoEntry, Entry
  <2>3. CASE Hit(p)
    BY <2>1, <2>3 DEF Receive
  <2>4. CASE ~Hit(p)
    <3>1. cache' = [cache EXCEPT ![p] = NoEntry]
      BY <2>4 DEF Receive
    <3> QED
      BY <2>1, <2>2, <3>1
  <2> QED
    BY <2>3, <2>4
<1>9. SignalingTypeOK'
  <2>1. \A q \in Pair : cache'[q].expires <= clock + TTL /\ (cache'[q].cached => cache'[q].verdict)
    BY <1>3, <1>8, SignalingAssumption DEF SignalingTypeOK, NoEntry
  <2>2. \A s \in Task : signal'[s].pc # "idle" =>
          \E q \in Pair : signal'[s].pair = {q}
    BY <1>4, <1>6 DEF SignalingTypeOK
  <2> QED
    BY <1>5, <1>7, <1>8, <2>1, <2>2 DEF SignalingTypeOK
<1>10. CacheInv'
  BY <1>7, <1>8 DEF SignalInv, CacheInv, NoEntry
<1>11. FrameOK(t)'
  <2>1. pc \in Forwarding => clock <= basis[p] + TTL
    <3>1. ASSUME pc \in Forwarding PROVE clock <= cache[p].expires /\ cache[p].cached
      BY <1>1, <3>1 DEF Hit, Forwarding
    <3>2. cache[p].cached => cache[p].expires <= basis[p] + TTL
      BY DEF SignalInv, CacheInv
    <3>3. cache[p].expires \in Nat /\ basis[p] \in Nat
      BY DEF SignalingTypeOK, Entry
    <3> QED
      BY <1>3, <3>1, <3>2, <3>3, SignalingAssumption
  <2> QED
    BY <1>4, <1>7, <2>1 DEF FrameOK, Forwarding
<1> QED
  BY <1>6, <1>7, <1>9, <1>10, <1>11, OneFrame DEF SignalingTypeOK

\* The lookups and the refusal: pc moves, and verdict with it; nothing else changes.
LEMMA LookupStep ==
  ASSUME SignalingTypeOK, SignalInv, NEW t \in Task,
         ReadShare(t) \/ ReadBlocks(t)
  PROVE  SignalingTypeOK' /\ SignalInv'
<1>1. PICK p \in Pair : signal[t].pair = {p}
  BY DEF ReadShare, ReadBlocks, SignalingTypeOK
<1>2. UNCHANGED <<clock, shares, refuses, cache, guard, basis, pushes>>
  BY DEF ReadShare, ReadBlocks
<1>3. signal \in [Task -> Signal] /\ signal[t].kind \in SignalKind /\ FrameOK(t)
  BY DEF SignalingTypeOK, Signal, SignalInv
<1>4. PICK pc \in {"blocks", "put", "refused"}, v \in BOOLEAN :
        /\ signal' = [signal EXCEPT ![t].pc = pc, ![t].verdict = v]
        /\ pc = "blocks" => p \in shares
        /\ pc = "put" => /\ {"shared", "free"} \subseteq signal[t].seen
                         /\ v
        /\ pc = "refused" => signal[t].seen \cap {"apart", "blocked"} # {}
  <2>1. CASE ReadShare(t) /\ p \in shares
    <3>1. signal' = [signal EXCEPT ![t].pc = "blocks"]
      BY <1>1, <2>1 DEF ReadShare, SignalAt
    <3>2. signal[t].verdict \in BOOLEAN
      BY <1>3 DEF Signal
    <3>3. signal' = [signal EXCEPT ![t].pc = "blocks", ![t].verdict = signal[t].verdict]
      BY <1>3, <3>1, <3>2 DEF Signal
    <3> QED
      BY <2>1, <3>2, <3>3
  <2>2. CASE ReadShare(t) /\ p \notin shares
    <3>1. Concludes(t, FALSE)
      BY <1>1, <2>2 DEF ReadShare
    <3>2. signal' = [signal EXCEPT ![t].verdict = FALSE, ![t].pc = "refused"]
      BY <1>3, <3>1 DEF Concludes, Caches, Then
    <3>3. signal' = [signal EXCEPT ![t].pc = "refused", ![t].verdict = FALSE]
      BY <1>3, <3>2 DEF Signal
    <3>4. "apart" \in signal[t].seen
      BY <1>1, <1>3, <2>2 DEF FrameOK, Facts
    <3> QED
      BY <3>3, <3>4
  <2>3. CASE ReadBlocks(t) /\ Refused(p)
    <3>1. Concludes(t, FALSE)
      BY <1>1, <2>3 DEF ReadBlocks
    <3>2. signal' = [signal EXCEPT ![t].verdict = FALSE, ![t].pc = "refused"]
      BY <1>3, <3>1 DEF Concludes, Caches, Then
    <3>3. signal' = [signal EXCEPT ![t].pc = "refused", ![t].verdict = FALSE]
      BY <1>3, <3>2 DEF Signal
    <3>4. "blocked" \in signal[t].seen
      BY <1>1, <1>3, <2>3 DEF FrameOK, Facts, Refused
    <3> QED
      BY <3>3, <3>4
  <2>4. CASE ReadBlocks(t) /\ ~Refused(p)
    <3>1. Concludes(t, TRUE)
      BY <1>1, <2>4 DEF ReadBlocks
    <3>2. signal' = [signal EXCEPT ![t].verdict = TRUE, ![t].pc = "put"]
      BY <1>3, <3>1 DEF Concludes, Caches
    <3>3. signal' = [signal EXCEPT ![t].pc = "put", ![t].verdict = TRUE]
      BY <1>3, <3>2 DEF Signal
    <3>4. "free" \in signal[t].seen /\ "shared" \in signal[t].seen
      BY <1>1, <1>3, <2>4 DEF FrameOK, Facts, Refused, ReadBlocks
    <3> QED
      BY <3>3, <3>4
  <2> QED
    BY <2>1, <2>2, <2>3, <2>4
<1>5. /\ signal' \in [Task -> Signal] /\ \A s \in Task \ {t} : signal'[s] = signal[s]
      /\ signal'[t] = [signal[t] EXCEPT !.pc = pc, !.verdict = v]
  <2>1. /\ signal'[t] = [signal[t] EXCEPT !.pc = pc, !.verdict = v]
        /\ \A s \in Task \ {t} : signal'[s] = signal[s]
        /\ signal' = [s \in Task |-> signal'[s]]
    BY <1>3, <1>4
  <2>2. [signal[t] EXCEPT !.pc = pc, !.verdict = v] \in Signal
    <3>1. signal[t] \in Signal
      BY <1>3
    <3>2. pc \in {"share", "blocks", "put", "refused"} /\ v \in BOOLEAN
      OBVIOUS
    <3> QED
      BY <3>1, <3>2 DEF Signal
  <2>3. \A s \in Task : signal'[s] \in Signal
    BY <1>3, <2>1, <2>2
  <2> QED
    BY <2>1, <2>3
<1>6. /\ signal'[t].pc = pc /\ signal'[t].verdict = v /\ signal'[t].pair = {p}
      /\ signal'[t].seen = signal[t].seen
  BY <1>1, <1>3, <1>5 DEF Signal
<1>7. SignalingTypeOK'
  <2>1. \A s \in Task : signal'[s].pc # "idle" =>
          \E q \in Pair : signal'[s].pair = {q}
    <3>1. \A s \in Task \ {t} : signal'[s] = signal[s]
      BY <1>5
    <3>2. signal'[t].pair = {p}
      BY <1>6
    <3> QED
      BY <3>1, <3>2, CarriesOne
  <2> QED
    BY <1>2, <1>5, <2>1 DEF SignalingTypeOK
<1>8. CacheInv'
  BY <1>2 DEF SignalInv, CacheInv
<1>9. FrameOK(t)'
  <2>1. Facts(p, shares, refuses) \subseteq signal[t].seen
    BY <1>1, <1>3 DEF FrameOK
  <2>2. pc = "blocks" => "shared" \in signal[t].seen
    BY <1>4, <2>1 DEF Facts
  <2> QED
    BY <1>2, <1>4, <1>6, <2>1, <2>2 DEF FrameOK, Forwarding
<1> QED
  BY <1>2, <1>5, <1>7, <1>8, <1>9, OneFrame DEF SignalingTypeOK

LEMMA PutStep ==
  ASSUME SignalingTypeOK, SignalInv, NEW t \in Task, PutVerdict(t)
  PROVE  SignalingTypeOK' /\ SignalInv'
<1>1. PICK p \in Pair : signal[t].pair = {p}
  BY DEF PutVerdict, SignalingTypeOK
<1>2. UNCHANGED <<clock, shares, refuses, guard, pushes>>
  BY DEF PutVerdict
<1>3. /\ signal \in [Task -> Signal] /\ signal[t].kind \in SignalKind
      /\ {"shared", "free"} \subseteq signal[t].seen /\ signal[t].verdict = TRUE
      /\ Facts(p, shares, refuses) \subseteq signal[t].seen
  BY <1>1 DEF SignalingTypeOK, Signal, SignalInv, FrameOK, PutVerdict
<1>4. PICK pc \in Forwarding : signal' = [signal EXCEPT ![t].pc = pc]
  BY <1>3, ThenType DEF PutVerdict, SignalAt
<1>5. /\ signal' \in [Task -> Signal] /\ \A s \in Task \ {t} : signal'[s] = signal[s]
      /\ signal'[t] = [signal[t] EXCEPT !.pc = pc]
  BY <1>3, <1>4 DEF Signal, Forwarding
<1>6. /\ signal'[t].pc = pc /\ signal'[t].pair = {p}
      /\ signal'[t].seen = signal[t].seen
  BY <1>1, <1>3, <1>5 DEF Signal
<1>7. /\ cache' = [cache EXCEPT ![p] = [cached |-> TRUE, verdict |-> TRUE, expires |-> clock + TTL]]
      /\ basis' = [basis EXCEPT ![p] = clock]
  BY <1>1, <1>3 DEF PutVerdict
<1>8. clock \in Nat /\ cache \in [Pair -> Entry] /\ basis \in [Pair -> Nat] /\ TTL \in Nat
  BY SignalingAssumption DEF SignalingTypeOK
<1>9. /\ cache' \in [Pair -> Entry] /\ basis' \in [Pair -> Nat]
      /\ \A q \in Pair \ {p} : cache'[q] = cache[q] /\ basis'[q] = basis[q]
      /\ cache'[p].cached /\ cache'[p].verdict /\ cache'[p].expires = clock + TTL
      /\ basis'[p] = clock
  BY <1>7, <1>8 DEF Entry
<1>10. SignalingTypeOK'
  <2>1. \A q \in Pair : cache'[q].expires <= clock + TTL /\ (cache'[q].cached => cache'[q].verdict)
    BY <1>8, <1>9 DEF SignalingTypeOK
  <2>2. \A s \in Task : signal'[s].pc # "idle" =>
          \E q \in Pair : signal'[s].pair = {q}
    <3>1. \A s \in Task \ {t} : signal'[s] = signal[s]
      BY <1>5
    <3>2. signal'[t].pair = {p}
      BY <1>6
    <3> QED
      BY <3>1, <3>2, CarriesOne
  <2> QED
    BY <1>2, <1>5, <1>9, <2>1, <2>2 DEF SignalingTypeOK
<1>11. CacheInv' /\ \A q \in Pair : basis'[q] >= basis[q]
  BY <1>2, <1>8, <1>9 DEF SignalInv, CacheInv
<1>12. FrameOK(t)'
  BY <1>2, <1>3, <1>6 DEF FrameOK, Forwarding
<1> QED
  BY <1>2, <1>5, <1>9, <1>10, <1>11, <1>12, OneFrame

\* The steps of a forwarded or refused frame: what it carries does not change.
LEMMA ForwardStep ==
  ASSUME SignalingTypeOK, SignalInv, NEW t \in Task,
         \/ Refuse(t) \/ TakeGuard(t) \/ PushUnguarded(t) \/ NoPushOf(t)
         \/ PushCall(t) \/ PublishSignal(t)
  PROVE  SignalingTypeOK' /\ SignalInv'
<1>1. PICK p \in Pair : signal[t].pair = {p}
  BY DEF Refuse, TakeGuard, PushUnguarded, NoPushOf, PushCall, PublishSignal, SignalingTypeOK
<1>2. UNCHANGED <<clock, shares, refuses, cache, basis>>
  BY DEF Refuse, TakeGuard, PushUnguarded, NoPushOf, PushCall, PublishSignal
<1>3. signal \in [Task -> Signal] /\ FrameOK(t)
  BY DEF SignalingTypeOK, SignalInv
<1>4. guard' \in [CallId -> Nat]
  <2>1. guard \in [CallId -> Nat] /\ clock + Ring \in Nat
    BY SignalingAssumption DEF SignalingTypeOK
  <2>2. guard' = guard \/ \E c \in signal[t].call : guard' = [guard EXCEPT ![c] = clock + Ring]
    BY DEF Refuse, TakeGuard, PushUnguarded, NoPushOf, PushCall, PublishSignal
  <2> QED
    BY <2>1, <2>2
<1>5. pushes' \in [CallId -> Nat]
  <2>1. pushes \in [CallId -> Nat]
    BY DEF SignalingTypeOK
  <2>2. \/ pushes' = pushes
        \/ pushes' = [c \in CallId |-> IF c \in signal[t].call THEN pushes[c] + 1 ELSE pushes[c]]
    BY DEF Refuse, TakeGuard, PushUnguarded, NoPushOf, PushCall, PublishSignal
  <2> QED
    BY <2>1, <2>2
<1>6. CASE SignalEnds(t)
  <2>1. /\ signal' \in [Task -> Signal] /\ \A s \in Task \ {t} : signal'[s] = signal[s]
        /\ signal'[t].pc = "idle" /\ signal'[t].pair = {}
    BY <1>3, <1>6 DEF SignalEnds, NoSignal, Signal, SignalKind, Calls
  <2>2. SignalingTypeOK'
    BY <1>2, <1>4, <1>5, <2>1 DEF SignalingTypeOK
  <2>3. CacheInv' /\ FrameOK(t)'
    BY <1>2, <2>1 DEF SignalInv, CacheInv, FrameOK
  <2> QED
    BY <1>2, <2>1, <2>2, <2>3, OneFrame DEF SignalingTypeOK
<1>7. ASSUME NEW pc \in {"push", "publish"}, signal[t].pc \in Forwarding, SignalAt(t, pc)
      PROVE  SignalingTypeOK' /\ SignalInv'
  <2>1. /\ signal' \in [Task -> Signal] /\ \A s \in Task \ {t} : signal'[s] = signal[s]
        /\ signal'[t] = [signal[t] EXCEPT !.pc = pc]
    BY <1>3, <1>7 DEF SignalAt, Signal
  <2>2. /\ signal'[t].pc = pc /\ signal'[t].pair = {p}
        /\ signal'[t].seen = signal[t].seen /\ signal'[t].at = signal[t].at
    BY <1>1, <1>3, <2>1 DEF Signal
  <2>3. SignalingTypeOK'
    <3>1. \A s \in Task : signal'[s].pc # "idle" =>
            \E q \in Pair : signal'[s].pair = {q}
      BY <2>1, <2>2, CarriesOne
    <3> QED
      BY <1>2, <1>4, <1>5, <2>1, <3>1 DEF SignalingTypeOK
  <2>4. CacheInv'
    BY <1>2 DEF SignalInv, CacheInv
  <2>5. FrameOK(t)'
    BY <1>1, <1>2, <1>3, <1>7, <2>2 DEF FrameOK, Forwarding
  <2> QED
    BY <1>2, <2>1, <2>3, <2>4, <2>5, OneFrame DEF SignalingTypeOK
<1> QED
  BY <1>6, <1>7 DEF Refuse, TakeGuard, PushUnguarded, NoPushOf, PushCall, PublishSignal, Forwarding

------------------------------------------------------------------------------
(* Steps around the frames. *)

\* What changes the conversations or the blocks is seen by every frame in flight.
LEMMA WitnessStep ==
  ASSUME SignalingTypeOK, SignalInv,
         NEW ss \in SUBSET Pair, NEW rs \in SUBSET Refusal, Witness(ss, rs),
         shares' = ss, refuses' = rs, UNCHANGED <<clock, cache, guard, basis, pushes>>
  PROVE  SignalingTypeOK' /\ SignalInv'
<1>1. \A p : Facts(p, ss, rs) \in SUBSET Fact
  BY DEF Facts, Fact
<1>2. ASSUME NEW t \in Task
      PROVE  /\ signal'[t] \in Signal
             /\ signal'[t].pc = signal[t].pc /\ signal'[t].pair = signal[t].pair
             /\ signal'[t].call = signal[t].call /\ signal'[t].at = signal[t].at
             /\ signal'[t].verdict = signal[t].verdict
             /\ signal[t].seen \subseteq signal'[t].seen
             /\ \A p \in signal[t].pair : Facts(p, ss, rs) \subseteq signal'[t].seen
  <2> DEFINE more == UNION {Facts(p, ss, rs) : p \in signal[t].pair}
  <2>1. signal[t] \in Signal
    BY DEF SignalingTypeOK
  <2>2. signal'[t] = [signal[t] EXCEPT !.seen = @ \cup more]
    BY DEF Witness
  <2>3. more \in SUBSET Fact
    BY <1>1
  <2>4. \A p \in signal[t].pair : Facts(p, ss, rs) \subseteq more
    OBVIOUS
  <2> HIDE DEF more
  <2> QED
    BY <2>1, <2>2, <2>3, <2>4 DEF Signal
<1>3. signal' \in [Task -> Signal]
  <2>1. signal' = [t \in Task |-> signal'[t]]
    BY DEF Witness
  <2> QED
    BY <1>2, <2>1
<1>4. SignalingTypeOK'
  BY <1>2, <1>3 DEF SignalingTypeOK
<1>5. CacheInv'
  BY DEF SignalInv, CacheInv
<1>6. ASSUME NEW t \in Task PROVE FrameOK(t)'
  <2>1. FrameOK(t)
    BY DEF SignalInv
  <2> QED
    BY <1>2, <2>1 DEF FrameOK
<1> QED
  BY <1>4, <1>5, <1>6 DEF SignalInv

LEMMA NextSignaling ==
  SignalingTypeOK /\ SignalInv /\ [SignalingNext]_signalingVars
    => SignalingTypeOK' /\ SignalInv'
<1> SUFFICES ASSUME SignalingTypeOK, SignalInv, [SignalingNext]_signalingVars
             PROVE  SignalingTypeOK' /\ SignalInv'
  OBVIOUS
<1>1. ASSUME NEW t \in Task, NEW p \in Pair, NEW kind \in SignalKind, NEW carried \in Calls,
             Receive(t, p, kind, carried)
      PROVE  SignalingTypeOK' /\ SignalInv'
  BY <1>1, ReceiveStep
<1>2. ASSUME NEW t \in Task, ReadShare(t) \/ ReadBlocks(t)
      PROVE  SignalingTypeOK' /\ SignalInv'
  BY <1>2, LookupStep
<1>3. ASSUME NEW t \in Task, PutVerdict(t)
      PROVE  SignalingTypeOK' /\ SignalInv'
  BY <1>3, PutStep
<1>4. ASSUME NEW t \in Task,
             \/ Refuse(t) \/ TakeGuard(t) \/ PushUnguarded(t) \/ NoPushOf(t)
             \/ PushCall(t) \/ PublishSignal(t)
      PROVE  SignalingTypeOK' /\ SignalInv'
  BY <1>4, ForwardStep
<1>5. ASSUME NEW p \in Pair, Meets(p)
      PROVE  SignalingTypeOK' /\ SignalInv'
  <2>1. PICK ss \in SUBSET Pair :
          /\ ss = (IF p \in shares THEN shares \ Both(p) ELSE shares \cup (Both(p) \cap Pair))
    BY DEF SignalingTypeOK
  <2>2. refuses \in SUBSET Refusal
    BY DEF SignalingTypeOK
  <2>3. shares' = ss /\ Witness(ss, refuses) /\ UNCHANGED <<clock, refuses, cache, guard, basis, pushes>>
    BY <1>5, <2>1 DEF Meets
  <2> QED
    BY <2>2, <2>3, WitnessStep
<1>6. ASSUME NEW b \in Refusal, Blocks(b)
      PROVE  SignalingTypeOK' /\ SignalInv'
  <2>1. PICK rs \in SUBSET Refusal :
          /\ rs = (IF b \in refuses THEN refuses \ {b} ELSE refuses \cup {b})
    BY DEF SignalingTypeOK
  <2>2. shares \in SUBSET Pair
    BY DEF SignalingTypeOK
  <2>3. refuses' = rs /\ Witness(shares, rs) /\ UNCHANGED <<clock, shares, cache, guard, basis, pushes>>
    BY <1>6, <2>1 DEF Blocks
  <2> QED
    BY <2>2, <2>3, WitnessStep
<1>7. CASE Tick
  <2>1. /\ clock' = clock + 1 /\ clock \in Nat /\ clock' \in 0 .. MaxTime
        /\ UNCHANGED <<shares, refuses, cache, guard, signal, basis, pushes>>
    BY <1>7, SignalingAssumption DEF Tick, SignalingTypeOK
  <2>2. \A p \in Pair : /\ cache[p].expires \in Nat /\ basis[p] \in Nat
                        /\ cache[p].expires <= clock + TTL
    BY DEF SignalingTypeOK, Entry
  <2>3. SignalingTypeOK'
    BY <2>1, <2>2, SignalingAssumption DEF SignalingTypeOK
  <2>4. SignalInv'
    BY <2>1, <2>2 DEF SignalInv, CacheInv, FrameOK
  <2> QED
    BY <2>3, <2>4
<1>8. CASE UNCHANGED signalingVars
  BY <1>8 DEF signalingVars, SignalingTypeOK, SignalInv, CacheInv, FrameOK
<1>9. \A kind \in SignalKind : CallOf(kind) \subseteq Calls
  BY DEF CallOf, Calls
<1> QED
  BY <1>1, <1>2, <1>3, <1>4, <1>5, <1>6, <1>7, <1>8, <1>9 DEF SignalingNext

\* The types of call signaling; no entry is for longer than TTL, or of a refusal.
THEOREM SignalingTypes == SignalingSpec => []SignalingTypeOK
  BY InitSignaling, NextSignaling, PTL DEF SignalingSpec

\* A forwarded frame saw its pair together and unblocked since it arrived, or came at
\* most TTL after a verdict put by one that did (_share_a_conversation).
THEOREM ForwardsJustified == SignalingSpec => []ForwardJustified
<1>1. SignalingTypeOK /\ SignalInv => ForwardJustified
  BY DEF SignalingTypeOK, SignalInv, FrameOK, ForwardJustified, Forwarding
<1> QED
  BY <1>1, InitSignaling, NextSignaling, PTL DEF SignalingSpec

\* A refused frame saw its pair apart or blocked since it arrived.
THEOREM RefusalsAreFresh == SignalingSpec => []RefusalsFresh
<1>1. SignalingTypeOK /\ SignalInv => RefusalsFresh
  <2> SUFFICES ASSUME SignalingTypeOK, SignalInv, NEW t \in Task, signal[t].pc = "refused"
               PROVE  signal[t].seen \cap {"apart", "blocked"} # {}
    BY DEF RefusalsFresh
  <2>1. PICK p \in Pair : signal[t].pair = {p}
    BY DEF SignalingTypeOK
  <2> QED
    BY <2>1 DEF SignalInv, FrameOK
<1> QED
  BY <1>1, InitSignaling, NextSignaling, PTL DEF SignalingSpec

\* The frames that carry the id c and are about to notify.
Pushing(c) == {t \in Task : signal[t].pc = "push" /\ signal[t].call = {c}}
Pushed(c) == pushes[c] + Cardinality(Pushing(c))

\* Every notification of a call with an id, sent or about to be, has taken the key of that
\* id for a time Ring of its own.
RateInv == \A c \in CallId : guard[c] <= clock + Ring /\ Ring * Pushed(c) <= guard[c]

LEMMA RingMonotonic ==
  ASSUME NEW m \in Nat, NEW n \in Nat, m <= n
  PROVE  Ring * m <= Ring * n
<1>1. PICK d \in Nat : n = m + d
  <2>1. n - m \in Nat /\ n = m + (n - m)
    OBVIOUS
  <2> QED
    BY <2>1
<1>2. Ring * n = Ring * m + Ring * d /\ Ring * d \in Nat /\ Ring * m \in Nat
  BY <1>1, SignalingAssumption
<1> QED
  BY <1>2

LEMMA RingQuotient ==
  ASSUME NEW m \in Nat, NEW n \in Nat, Ring * m <= n + Ring
  PROVE  m <= 1 + n \div Ring
<1> DEFINE q == n \div Ring
<1>1. q \in Nat /\ Ring \in Nat /\ n < Ring * q + Ring
  BY SignalingAssumption
<1> SUFFICES ASSUME ~(m <= 1 + q) PROVE FALSE
  BY <1>1
<1> HIDE DEF q
<1>2. Ring * (q + 2) <= Ring * m
  BY <1>1, RingMonotonic
<1>3. Ring * (q + 2) = Ring * q + Ring + Ring
  BY <1>1
<1>4. Ring * m \in Nat /\ Ring * q \in Nat
  BY <1>1
<1> QED
  BY <1>1, <1>2, <1>3, <1>4

LEMMA PushingFinite ==
  ASSUME NEW c
  PROVE  IsFiniteSet(Pushing(c)) /\ Cardinality(Pushing(c)) \in Nat
<1>1. Pushing(c) \in SUBSET Task
  BY DEF Pushing
<1> QED
  BY <1>1, RequestsAssumption, FS_Subset, FS_CardinalityType

\* A step that takes no key: no more is pushed or about to be than before.
LEMMA RateKept ==
  ASSUME SignalingTypeOK, SignalingTypeOK', RateInv, clock' >= clock, UNCHANGED guard,
         \A c \in CallId : Pushed(c)' <= Pushed(c)
  PROVE  RateInv'
<1> SUFFICES ASSUME NEW c \in CallId
             PROVE  guard'[c] <= clock' + Ring /\ Ring * Pushed(c)' <= guard'[c]
  BY DEF RateInv
<1>1. /\ guard[c] \in Nat /\ clock \in Nat /\ clock' \in Nat /\ pushes[c] \in Nat
      /\ pushes'[c] \in Nat /\ Ring \in Nat
  BY SignalingAssumption DEF SignalingTypeOK
<1>2. Pushed(c) \in Nat
  BY <1>1, PushingFinite DEF Pushed
<1>3. Pushed(c)' \in Nat
  <2>1. Pushing(c)' \in SUBSET Task
    BY DEF Pushing
  <2>2. Cardinality(Pushing(c)') \in Nat
    BY <2>1, RequestsAssumption, FS_Subset, FS_CardinalityType
  <2> QED
    BY <1>1, <2>2 DEF Pushed
<1>4. Pushed(c)' <= Pushed(c) /\ guard[c] <= clock + Ring /\ Ring * Pushed(c) <= guard[c]
  BY DEF RateInv
<1> DEFINE before == Pushed(c)
           after == Pushed(c)'
<1>5. Ring * after <= Ring * before /\ Ring * after \in Nat /\ Ring * before \in Nat
  <2> HIDE DEF before, after
  <2>1. before \in Nat /\ after \in Nat /\ after <= before
    BY <1>2, <1>3, <1>4 DEF before, after
  <2> QED
    BY <1>1, <2>1, RingMonotonic
<1> QED
  BY <1>1, <1>4, <1>5

\* Nothing about to be pushed appears for a call, and no notification is sent.
LEMMA NotPushing ==
  ASSUME SignalingTypeOK, UNCHANGED pushes,
         \A t \in Task : signal'[t].pc = "push" /\ signal'[t].call # {} =>
                           signal[t].pc = "push" /\ signal[t].call = signal'[t].call,
         NEW c \in CallId
  PROVE  Pushed(c)' <= Pushed(c)
<1>1. Pushing(c)' \in SUBSET Pushing(c)
  BY DEF Pushing
<1>2. Cardinality(Pushing(c)') <= Cardinality(Pushing(c)) /\ Cardinality(Pushing(c)') \in Nat
  BY <1>1, PushingFinite, FS_Subset, FS_CardinalityType
<1>3. pushes[c] \in Nat /\ pushes'[c] = pushes[c] /\ Cardinality(Pushing(c)) \in Nat
  BY PushingFinite DEF SignalingTypeOK
<1> QED
  BY <1>2, <1>3 DEF Pushed

LEMMA TakeGuardRate ==
  ASSUME SignalingTypeOK, SignalingTypeOK', RateInv, NEW t \in Task, TakeGuard(t)
  PROVE  RateInv'
<1>1. PICK c \in CallId : signal[t].call = {c}
  BY DEF TakeGuard, SignalingTypeOK, Signal, Calls
<1>2. /\ signal \in [Task -> Signal] /\ guard \in [CallId -> Nat] /\ pushes \in [CallId -> Nat]
      /\ clock \in Nat /\ Ring \in Nat
  BY SignalingAssumption DEF SignalingTypeOK
<1>3. /\ guard' = [guard EXCEPT ![c] = clock + Ring] /\ guard[c] <= clock
      /\ pushes' = pushes /\ clock' = clock
      /\ signal[t].pc = "offer" /\ signal' = [signal EXCEPT ![t].pc = "push"]
  BY <1>1 DEF TakeGuard, SetNX, SignalAt
<1>4. /\ signal'[t].pc = "push" /\ signal'[t].call = {c}
      /\ \A s \in Task \ {t} : signal'[s] = signal[s]
  BY <1>1, <1>2, <1>3 DEF Signal
<1>5. ASSUME NEW d \in CallId \ {c}
      PROVE  guard'[d] <= clock' + Ring /\ Ring * Pushed(d)' <= guard'[d]
  <2>1. Pushing(d)' = Pushing(d)
    BY <1>3, <1>4 DEF Pushing
  <2>2. Pushed(d)' = Pushed(d) /\ guard'[d] = guard[d]
    BY <1>2, <1>3, <2>1 DEF Pushed
  <2> QED
    BY <1>3, <2>2 DEF RateInv
<1>6. guard'[c] <= clock' + Ring /\ Ring * Pushed(c)' <= guard'[c]
  <2>1. Pushing(c)' = Pushing(c) \cup {t} /\ t \notin Pushing(c)
    BY <1>1, <1>3, <1>4 DEF Pushing
  <2>2. Cardinality(Pushing(c)') = Cardinality(Pushing(c)) + 1
    BY <2>1, PushingFinite, FS_AddElement
  <2> DEFINE before == Pushed(c)
             after == Pushed(c)'
  <2>3. before \in Nat /\ after = before + 1
    BY <1>2, <1>3, <2>2, PushingFinite DEF Pushed
  <2>4. Ring * before <= guard[c]
    BY DEF RateInv
  <2> HIDE DEF before, after
  <2>5. Ring * after = Ring * before + Ring /\ Ring * before \in Nat
    BY <1>2, <2>3
  <2>6. guard'[c] = clock + Ring /\ guard[c] \in Nat
    BY <1>2, <1>3
  <2> QED
    BY <1>2, <1>3, <2>4, <2>5, <2>6 DEF after
<1> QED
  BY <1>5, <1>6 DEF RateInv

LEMMA PushCallRate ==
  ASSUME SignalingTypeOK, SignalingTypeOK', RateInv, NEW t \in Task, PushCall(t)
  PROVE  RateInv'
<1>1. signal[t].call \in Calls
  BY DEF SignalingTypeOK, Signal
<1>2. /\ signal \in [Task -> Signal] /\ pushes \in [CallId -> Nat] /\ clock \in Nat
  BY SignalingAssumption DEF SignalingTypeOK
<1>3. /\ signal[t].pc = "push" /\ signal' = [signal EXCEPT ![t].pc = "publish"]
      /\ UNCHANGED <<clock, guard>>
  BY DEF PushCall, SignalAt
<1>4. signal'[t].pc = "publish" /\ \A s \in Task \ {t} : signal'[s] = signal[s]
  BY <1>2, <1>3 DEF Signal
<1>5. ASSUME NEW d \in CallId PROVE Pushed(d)' <= Pushed(d)
  <2>1. \/ pushes'[d] = pushes[d]
        \/ pushes'[d] = IF d \in signal[t].call THEN pushes[d] + 1 ELSE pushes[d]
    BY DEF PushCall
  <2>2. CASE signal[t].call = {d}
    <3>1. Pushing(d)' = Pushing(d) \ {t} /\ t \in Pushing(d)
      BY <1>3, <1>4, <2>2 DEF Pushing
    <3>2. Cardinality(Pushing(d)') = Cardinality(Pushing(d)) - 1
      BY <3>1, PushingFinite, FS_RemoveElement
    <3>3. pushes[d] \in Nat /\ pushes'[d] <= pushes[d] + 1 /\ pushes'[d] \in Nat
      BY <1>2, <2>1
    <3> QED
      BY <3>2, <3>3, PushingFinite DEF Pushed
  <2>3. CASE signal[t].call # {d}
    <3>1. Pushing(d)' = Pushing(d)
      BY <1>4, <2>3 DEF Pushing
    <3>2. d \notin signal[t].call
      BY <1>1, <2>3 DEF Calls
    <3>3. pushes'[d] = pushes[d] /\ pushes[d] \in Nat
      BY <1>2, <2>1, <3>2
    <3> QED
      BY <3>1, <3>3, PushingFinite DEF Pushed
  <2> QED
    BY <2>2, <2>3
<1>6. clock' >= clock
  BY <1>2, <1>3
<1> QED
  BY <1>3, <1>5, <1>6, RateKept

LEMMA RateStep ==
  SignalingTypeOK /\ SignalingTypeOK' /\ RateInv /\ [SignalingNext]_signalingVars => RateInv'
<1> SUFFICES ASSUME SignalingTypeOK, SignalingTypeOK', RateInv, [SignalingNext]_signalingVars
             PROVE  RateInv'
  OBVIOUS
<1>1. signal \in [Task -> Signal] /\ clock \in Nat
  BY SignalingAssumption DEF SignalingTypeOK
<1>2. ASSUME UNCHANGED <<guard, pushes>>, clock' >= clock,
             \A t \in Task : signal'[t].pc = "push" /\ signal'[t].call # {} =>
                               signal[t].pc = "push" /\ signal[t].call = signal'[t].call
      PROVE  RateInv'
  <2>1. \A c \in CallId : Pushed(c)' <= Pushed(c)
    BY <1>2, NotPushing
  <2> QED
    BY <1>2, <2>1, RateKept
<1>3. ASSUME NEW t \in Task, NEW p \in Pair, NEW kind \in SignalKind, NEW carried \in Calls,
             Receive(t, p, kind, carried)
      PROVE  RateInv'
  <2>1. signal'[t].pc # "push" /\ \A s \in Task \ {t} : signal'[s] = signal[s]
    BY <1>1, <1>3 DEF Receive, Then
  <2>2. UNCHANGED <<guard, pushes>> /\ clock' >= clock
    BY <1>1, <1>3 DEF Receive
  <2> QED
    BY <1>2, <2>1, <2>2
<1>4. ASSUME NEW t \in Task, NEW pc \in {"share", "blocks", "put", "refused", "offer", "publish"},
             NEW v \in BOOLEAN, UNCHANGED <<clock, guard, pushes>>,
             \/ signal' = [signal EXCEPT ![t].pc = pc]
             \/ signal' = [signal EXCEPT ![t].verdict = v, ![t].pc = pc]
             \/ SignalEnds(t)
      PROVE  RateInv'
  <2>1. signal'[t].pc # "push" /\ \A s \in Task \ {t} : signal'[s] = signal[s]
    BY <1>1, <1>4 DEF SignalEnds, NoSignal, Signal
  <2> QED
    BY <1>1, <1>2, <1>4, <2>1
<1>5. ASSUME NEW t \in Task, ReadShare(t) \/ ReadBlocks(t) \/ PutVerdict(t) \/ Refuse(t)
                               \/ NoPushOf(t) \/ PublishSignal(t)
      PROVE  RateInv'
  <2>1. UNCHANGED <<clock, guard, pushes>>
    BY <1>5 DEF ReadShare, ReadBlocks, PutVerdict, Refuse, NoPushOf, PublishSignal
  <2>2. \A v : Then(signal[t].kind, v) \in {"refused", "offer", "publish"}
    BY DEF Then
  <2>3. CASE ReadShare(t) \/ ReadBlocks(t)
    <3>1. SignalAt(t, "blocks") \/ \E v \in BOOLEAN : Concludes(t, v)
      BY <2>3 DEF ReadShare, ReadBlocks
    <3>2. CASE SignalAt(t, "blocks")
      BY <1>4, <2>1, <3>2 DEF SignalAt
    <3>3. ASSUME NEW v \in BOOLEAN, Concludes(t, v) PROVE RateInv'
      <4>1. PICK pc \in {"put", "refused", "offer", "publish"} :
              signal' = [signal EXCEPT ![t].verdict = v, ![t].pc = pc]
        BY <2>2, <3>3 DEF Concludes
      <4> QED
        BY <1>4, <2>1, <4>1
    <3> QED
      BY <3>1, <3>2, <3>3
  <2>4. CASE PutVerdict(t)
    <3>1. PICK pc \in {"refused", "offer", "publish"} : signal' = [signal EXCEPT ![t].pc = pc]
      BY <2>2, <2>4 DEF PutVerdict, SignalAt
    <3> QED
      BY <1>4, <2>1, <3>1
  <2>5. CASE Refuse(t) \/ PublishSignal(t)
    BY <1>4, <2>1, <2>5 DEF Refuse, PublishSignal
  <2>6. CASE NoPushOf(t)
    BY <1>4, <2>1, <2>6 DEF NoPushOf, SignalAt
  <2> QED
    BY <1>5, <2>3, <2>4, <2>5, <2>6
<1>6. ASSUME NEW ss, NEW rs, Witness(ss, rs), UNCHANGED <<clock, guard, pushes>>
      PROVE  RateInv'
  <2>1. \A t \in Task : signal'[t].pc = signal[t].pc /\ signal'[t].call = signal[t].call
    BY <1>1, <1>6 DEF Witness, Signal
  <2> QED
    BY <1>1, <1>2, <1>6, <2>1
<1>7. ASSUME NEW p \in Pair, Meets(p)
      PROVE  RateInv'
  BY <1>6, <1>7 DEF Meets
<1>8. ASSUME NEW b \in Refusal, Blocks(b)
      PROVE  RateInv'
  BY <1>6, <1>8 DEF Blocks
<1>9. ASSUME NEW t \in Task, PushUnguarded(t)
      PROVE  RateInv'
  <2>1. /\ signal'[t].call = {} /\ \A s \in Task \ {t} : signal'[s] = signal[s]
        /\ UNCHANGED <<clock, guard, pushes>>
    BY <1>1, <1>9 DEF PushUnguarded, SignalAt, Signal
  <2> QED
    BY <1>1, <1>2, <2>1
<1>10. CASE Tick
  BY <1>1, <1>2, <1>10 DEF Tick
<1>11. CASE UNCHANGED signalingVars
  BY <1>1, <1>2, <1>11 DEF signalingVars
<1>12. \A kind \in SignalKind : CallOf(kind) \subseteq Calls
  BY DEF CallOf, Calls
<1> QED
  BY <1>3, <1>5, <1>7, <1>8, <1>9, <1>10, <1>11, <1>12, TakeGuardRate, PushCallRate
     DEF SignalingNext

\* The guard of the notification (user_websocket_endpoint): until the clock has passed n
\* lives of the key, the offers that carry the id of a call notify at most n + 1 times,
\* however often and from however many sockets they are resent, and whatever offers without
\* a call id, which take no key and are not paced, notify meanwhile.
THEOREM PushesPaced == SignalingSpec => []PushRate
<1>1. SignalingInit => RateInv
  <2> SUFFICES ASSUME SignalingInit, NEW c \in CallId
               PROVE  guard[c] <= clock + Ring /\ Ring * Pushed(c) <= guard[c]
    BY DEF RateInv
  <2>1. Pushing(c) = {} /\ pushes[c] = 0 /\ guard[c] = 0 /\ clock = 0
    BY DEF SignalingInit, NoSignal, Pushing
  <2>2. Pushed(c) = 0
    BY <2>1, FS_EmptySet DEF Pushed
  <2> QED
    BY <2>1, <2>2, SignalingAssumption
<1>2. SignalingTypeOK /\ RateInv => PushRate
  <2> SUFFICES ASSUME SignalingTypeOK, RateInv, NEW c \in CallId
               PROVE  pushes[c] <= 1 + clock \div Ring
    BY DEF PushRate
  <2>1. /\ pushes[c] \in Nat /\ clock \in Nat /\ Ring \in Nat /\ guard[c] \in Nat
        /\ Cardinality(Pushing(c)) \in Nat
    BY SignalingAssumption, PushingFinite DEF SignalingTypeOK
  <2> DEFINE n == Pushed(c)
  <2>2. n \in Nat /\ pushes[c] <= n /\ guard[c] <= clock + Ring /\ Ring * n <= guard[c]
    BY <2>1 DEF Pushed, RateInv
  <2> HIDE DEF n
  <2>3. Ring * n <= clock + Ring
    BY <2>1, <2>2
  <2>4. n <= 1 + clock \div Ring
    BY <2>1, <2>2, <2>3, RingQuotient
  <2>5. clock \div Ring \in Nat
    BY <2>1, SignalingAssumption
  <2> QED
    BY <2>1, <2>2, <2>4, <2>5
<1> QED
  BY <1>1, <1>2, InitSignaling, NextSignaling, RateStep, PTL DEF SignalingSpec

------------------------------------------------------------------------------
(* Call log. *)

------------------------------------------------------------------------------
(* The invariant. *)

\* A create that was blocked all the time still is, and gets past no check.
BlockInv(t) ==
  /\ patch[t].blocked => BlockedBetween(patch[t].from, patch[t].to)
  /\ patch[t].pc = "insert" => ~patch[t].blocked

\* An update has read a row, and rows of calls are never deleted.
LiveInv(t) == patch[t].pc = "write" => call[patch[t].call].live

\* The requests that are about to write ended_at of call c.
Ending(c) == {t \in Task : patch[t].pc = "write" /\ patch[t].call = c /\ patch[t].ended # Never}

\* They have all read it when it was NULL: none starts after the first write.
WriteInv(c) ==
  /\ ~call[c].live => call[c].ended = Never
  /\ call[c].ended = Never => writes[c] = 0
  /\ writes[c] + Cardinality(Ending(c)) <= Cardinality(Task) + 1

CallLogInv ==
  /\ CallLogTypeOK
  /\ \A t \in Task : BlockInv(t) /\ LiveInv(t)
  /\ \A c \in Call : WriteInv(c)
  /\ phantom = {}

LEMMA CallFacts ==
  /\ IsFiniteSet(Task) /\ Cardinality(Task) \in Nat /\ NoUser \notin User
  /\ Party \subseteq User \X User /\ Sends \subseteq Reason
  /\ Never \in Maybe /\ Swept \notin Maybe
  BY CallLogAssumption, RequestsAssumption, FS_CardinalityType DEF Reason, Maybe

LEMMA NoPatchType ==
  /\ NoPatch \in Patch /\ NoPatch.pc = "idle" /\ ~NoPatch.blocked
  BY DEF NoPatch, Patch, Maybe, Reason

LEMMA EndingFinite ==
  ASSUME NEW c
  PROVE  /\ IsFiniteSet(Ending(c)) /\ Cardinality(Ending(c)) \in Nat
         /\ Cardinality(Ending(c)) <= Cardinality(Task)
<1>1. Ending(c) \subseteq Task
  BY DEF Ending
<1> QED
  BY <1>1, CallFacts, FS_Subset, FS_CardinalityType

LEMMA InitCallLog == CallLogInit => CallLogInv
<1> SUFFICES ASSUME CallLogInit PROVE CallLogInv
  OBVIOUS
<1>1. /\ call = [c \in Call |-> NoCall] /\ patch = [t \in Task |-> NoPatch]
      /\ writes = [c \in Call |-> 0] /\ blocks = {} /\ stale = {} /\ phantom = {}
  BY DEF CallLogInit
<1>2. NoCall \in CallRow /\ NoCall.ended = Never
  BY DEF NoCall, CallRow, Maybe, Reason
<1>3. CallLogTypeOK
  BY <1>1, <1>2, NoPatchType, CallFacts DEF CallLogTypeOK
<1>4. ASSUME NEW t \in Task PROVE BlockInv(t) /\ LiveInv(t)
  BY <1>1, NoPatchType DEF BlockInv, LiveInv
<1>5. ASSUME NEW c \in Call PROVE WriteInv(c)
  <2>1. Ending(c) = {}
    BY <1>1, NoPatchType DEF Ending
  <2> QED
    BY <1>1, <1>2, <2>1, CallFacts, FS_EmptySet DEF WriteInv
<1> QED
  BY <1>1, <1>3, <1>4, <1>5 DEF CallLogInv

------------------------------------------------------------------------------
(* Steps that change one request and no call. *)

LEMMA PatchStep ==
  ASSUME CallLogInv, NEW t \in Task, NEW r \in Patch, patch' = [patch EXCEPT ![t] = r],
         UNCHANGED <<call, blocks, stale, phantom, writes>>,
         r.pc = "write" => r.call \in Call /\ call[r.call].live,
         r.pc = "write" /\ r.ended # Never => call[r.call].ended = Never,
         r.blocked => BlockedBetween(r.from, r.to), r.pc = "insert" => ~r.blocked
  PROVE  CallLogInv'
<1>1. /\ CallLogTypeOK /\ patch \in [Task -> Patch]
  BY DEF CallLogInv, CallLogTypeOK
<1>2. /\ patch' \in [Task -> Patch] /\ patch'[t] = r
      /\ \A s \in Task \ {t} : patch'[s] = patch[s]
  BY <1>1
<1>3. CallLogTypeOK'
  BY <1>1, <1>2 DEF CallLogTypeOK
<1>4. ASSUME NEW s \in Task PROVE BlockInv(s)' /\ LiveInv(s)'
  BY <1>2 DEF CallLogInv, BlockInv, LiveInv, BlockedBetween
<1>5. ASSUME NEW c \in Call PROVE WriteInv(c)'
  <2>1. WriteInv(c) /\ writes[c] \in Nat
    BY <1>1 DEF CallLogInv, CallLogTypeOK
  <2>2. /\ IsFiniteSet(Ending(c)) /\ Cardinality(Ending(c)) \in Nat
        /\ Cardinality(Ending(c)) <= Cardinality(Task) /\ Cardinality(Task) \in Nat
    BY EndingFinite, CallFacts
  <2>3. CASE r.pc = "write" /\ r.call = c /\ r.ended # Never
    <3>1. Ending(c)' \subseteq Task /\ writes[c] = 0
      BY <2>1, <2>3 DEF Ending, WriteInv
    <3>2. Cardinality(Ending(c)') <= Cardinality(Task) /\ Cardinality(Ending(c)') \in Nat
      BY <3>1, CallFacts, FS_Subset, FS_CardinalityType
    <3> QED
      BY <2>1, <2>2, <3>1, <3>2 DEF WriteInv
  <2>4. CASE ~(r.pc = "write" /\ r.call = c /\ r.ended # Never)
    <3>1. Ending(c)' \subseteq Ending(c)
      BY <1>2, <2>4 DEF Ending
    <3>2. Cardinality(Ending(c)') <= Cardinality(Ending(c)) /\ Cardinality(Ending(c)') \in Nat
      BY <2>2, <3>1, FS_Subset, FS_CardinalityType
    <3> QED
      BY <2>1, <2>2, <3>2 DEF WriteInv
  <2> QED
    BY <2>3, <2>4
<1> QED
  BY <1>3, <1>4, <1>5 DEF CallLogInv

LEMMA PatchSteps ==
  ASSUME CallLogInv, NEW t \in Task,
         \/ \E p \in Party : CreateCall(t, p)
         \/ CheckBlocks(t) \/ PatchFails(t)
         \/ \E c \in Call, u \in User, a \in Maybe, e \in Maybe, r \in Sends \cup {"none"} :
              PatchRead(t, c, u, a, e, r)
  PROVE  CallLogInv'
<1>1. patch \in [Task -> Patch] /\ patch[t] \in Patch /\ call \in [Call -> CallRow]
  BY DEF CallLogInv, CallLogTypeOK
<1>2. CASE patch' = [patch EXCEPT ![t] = NoPatch] /\ UNCHANGED <<call, blocks, stale, phantom, writes>>
  BY <1>2, NoPatchType, PatchStep
<1>3. ASSUME NEW p \in Party, CreateCall(t, p) PROVE CallLogInv'
  <2>1. PICK b \in BOOLEAN : b = ({<<p[1], p[2]>>, <<p[2], p[1]>>} \cap blocks # {})
    OBVIOUS
  <2>2. PICK r : r = [NoPatch EXCEPT !.pc = "blocks", !.from = p[1], !.to = p[2], !.blocked = b]
    OBVIOUS
  <2>3. p[1] \in User /\ p[2] \in User
    BY CallFacts
  <2>4. /\ r \in Patch /\ r.pc = "blocks" /\ r.from = p[1] /\ r.to = p[2] /\ r.blocked = b
    BY <2>2, <2>3, NoPatchType DEF NoPatch, Patch
  <2>5. patch' = [patch EXCEPT ![t] = r] /\ UNCHANGED <<call, blocks, stale, phantom, writes>>
    BY <1>3, <2>1, <2>2 DEF CreateCall, PatchStarts
  <2>6. b => BlockedBetween(p[1], p[2])
    BY <2>1 DEF BlockedBetween
  <2> QED
    BY <2>4, <2>5, <2>6, PatchStep
<1>4. CASE CheckBlocks(t)
  <2>1. CASE PatchEnds(t)
    BY <1>2, <1>4, <2>1 DEF CheckBlocks, PatchEnds
  <2>2. CASE ~BlockedBetween(patch[t].from, patch[t].to) /\ patch' = [patch EXCEPT ![t].pc = "insert"]
    <3>1. PICK r : r = [patch[t] EXCEPT !.pc = "insert"]
      OBVIOUS
    <3>2. /\ r \in Patch /\ r.pc = "insert" /\ r.from = patch[t].from /\ r.to = patch[t].to
          /\ r.blocked = patch[t].blocked
      BY <1>1, <3>1 DEF Patch
    <3>3. patch' = [patch EXCEPT ![t] = r] /\ UNCHANGED <<call, blocks, stale, phantom, writes>>
      BY <1>1, <1>4, <2>2, <3>1 DEF CheckBlocks
    <3>4. ~r.blocked
      BY <2>2, <3>2 DEF CallLogInv, BlockInv
    <3> QED
      BY <3>2, <3>3, <3>4, PatchStep
  <2> QED
    BY <1>4, <2>1, <2>2 DEF CheckBlocks
<1>5. CASE PatchFails(t)
  BY <1>2, <1>5 DEF PatchFails, PatchEnds
<1>6. ASSUME NEW c \in Call, NEW u \in User, NEW a \in Maybe, NEW e \in Maybe,
             NEW w \in Sends \cup {"none"}, PatchRead(t, c, u, a, e, w)
      PROVE  CallLogInv'
  <2>1. PICK acc \in Maybe, end \in Maybe, why \in Reason :
          /\ acc = (IF u = call[c].callee THEN SetOnce(call[c].accepted, a) ELSE Never)
          /\ end = SetOnce(call[c].ended, e)
          /\ why = (IF call[c].reason = "none" THEN w ELSE "none")
    BY CallFacts DEF SetOnce, Reason
  <2>2. PICK r : r = [NoPatch EXCEPT !.pc = "write", !.from = u, !.call = c,
                        !.accepted = acc, !.ended = end, !.reason = why]
    OBVIOUS
  <2>3. /\ r \in Patch /\ r.pc = "write" /\ r.call = c /\ r.ended = end /\ ~r.blocked
    BY <2>2, NoPatchType DEF NoPatch, Patch
  <2>4. patch' = [patch EXCEPT ![t] = r] /\ UNCHANGED <<call, blocks, stale, phantom, writes>>
    BY <1>6, <2>1, <2>2 DEF PatchRead, PatchStarts
  <2>5. (end # Never => call[c].ended = Never) /\ call[c].live
    BY <1>6, <2>1 DEF SetOnce, PatchRead
  <2> QED
    BY <2>3, <2>4, <2>5, PatchStep
<1> QED
  BY <1>3, <1>4, <1>5, <1>6

------------------------------------------------------------------------------
(* Steps that change calls. *)

LEMMA InsertStep ==
  ASSUME CallLogInv, NEW t \in Task, InsertCall(t)
  PROVE  CallLogInv'
<1>1. /\ CallLogTypeOK /\ patch \in [Task -> Patch] /\ patch[t] \in Patch
      /\ call \in [Call -> CallRow] /\ patch[t].pc = "insert"
  BY DEF CallLogInv, CallLogTypeOK, InsertCall
<1>2. PICK c \in Call :
        /\ ~call[c].live
        /\ call' = [call EXCEPT ![c] = [NoCall EXCEPT !.live = TRUE,
                                          !.caller = patch[t].from, !.callee = patch[t].to]]
        /\ phantom' = IF patch[t].blocked THEN phantom \cup {c} ELSE phantom
  BY DEF InsertCall
<1>3. /\ patch' = [patch EXCEPT ![t] = NoPatch] /\ UNCHANGED <<blocks, stale, writes>>
  BY DEF InsertCall, PatchEnds
<1>4. PICK row :
        row = [NoCall EXCEPT !.live = TRUE, !.caller = patch[t].from, !.callee = patch[t].to]
  OBVIOUS
<1>5. row \in CallRow /\ row.live /\ row.ended = Never
  <2>1. patch[t].from \in User \cup {NoUser} /\ patch[t].to \in User \cup {NoUser}
    BY <1>1 DEF Patch
  <2>2. NoCall \in CallRow /\ NoCall.ended = Never
    BY DEF NoCall, CallRow, Maybe, Reason
  <2> QED
    BY <1>4, <2>1, <2>2 DEF CallRow, NoCall
<1>6. /\ call' \in [Call -> CallRow] /\ call'[c] = row
      /\ \A d \in Call \ {c} : call'[d] = call[d]
  BY <1>1, <1>2, <1>4, <1>5
<1>7. /\ patch' \in [Task -> Patch] /\ patch'[t] = NoPatch
      /\ \A s \in Task \ {t} : patch'[s] = patch[s]
  BY <1>1, <1>3, NoPatchType
<1>8. phantom' = {}
  BY <1>1, <1>2 DEF CallLogInv, BlockInv
<1>9. CallLogTypeOK'
  <2>1. Never # Swept
    BY CallLogAssumption
  <2>2. \A d \in Call : call'[d].ended = Swept => call'[d].reason # "none"
    BY <1>1, <1>5, <1>6, <2>1 DEF CallLogTypeOK
  <2>3. stale' \subseteq {d \in Call : call'[d].live}
    BY <1>1, <1>3, <1>5, <1>6 DEF CallLogTypeOK
  <2>4. \A s \in Task : patch'[s].pc = "write" => patch'[s].call \in Call
    BY <1>1, <1>7, NoPatchType DEF CallLogTypeOK
  <2> QED
    BY <1>1, <1>3, <1>6, <1>7, <1>8, <2>2, <2>3, <2>4 DEF CallLogTypeOK
<1>10. ASSUME NEW s \in Task PROVE BlockInv(s)' /\ LiveInv(s)'
  <2>1. patch[s].pc = "write" => patch[s].call \in Call
    BY <1>1 DEF CallLogTypeOK
  <2> QED
    BY <1>3, <1>6, <1>7, <1>5, <2>1, NoPatchType DEF CallLogInv, BlockInv, LiveInv, BlockedBetween
<1>11. ASSUME NEW d \in Call PROVE WriteInv(d)'
  <2>1. WriteInv(d) /\ Ending(d)' = Ending(d)
    BY <1>1, <1>7, NoPatchType DEF CallLogInv, Ending
  <2>2. call'[d].ended = call[d].ended \/ d = c
    BY <1>6
  <2>3. d = c => call[d].ended = Never /\ call'[d].ended = Never
    BY <1>2, <1>5, <1>6, <2>1 DEF WriteInv
  <2>4. ~call'[d].live => ~call[d].live
    BY <1>5, <1>6
  <2> QED
    BY <1>3, <2>1, <2>2, <2>3, <2>4 DEF WriteInv
<1> QED
  BY <1>8, <1>9, <1>10, <1>11 DEF CallLogInv

LEMMA WriteStep ==
  ASSUME CallLogInv, NEW t \in Task, PatchWrite(t)
  PROVE  CallLogInv'
<1>1. /\ CallLogTypeOK /\ patch \in [Task -> Patch] /\ patch[t] \in Patch
      /\ call \in [Call -> CallRow] /\ patch[t].pc = "write" /\ writes \in [Call -> Nat]
  BY DEF CallLogInv, CallLogTypeOK, PatchWrite
<1>2. PICK c \in Call, e \in Maybe : c = patch[t].call /\ e = patch[t].ended
  BY <1>1 DEF CallLogTypeOK, Patch
<1>3. /\ patch' = [patch EXCEPT ![t] = NoPatch] /\ UNCHANGED <<blocks, stale, phantom>>
      /\ writes' = IF e = Never THEN writes ELSE [writes EXCEPT ![c] = @ + 1]
  BY <1>2 DEF PatchWrite, PatchEnds
<1>4. PICK acc \in Maybe, end \in Maybe \cup {Swept}, why \in Reason :
        /\ acc = (IF patch[t].accepted = Never THEN call[c].accepted ELSE patch[t].accepted)
        /\ end = (IF e = Never THEN call[c].ended ELSE e)
        /\ why = (IF patch[t].reason = "none" THEN call[c].reason ELSE patch[t].reason)
  <2>1. call[c] \in CallRow
    BY <1>1
  <2> QED
    BY <1>1, <2>1 DEF CallRow, Patch
<1>5. PICK row : row = [call[c] EXCEPT !.accepted = acc, !.ended = end, !.reason = why]
  OBVIOUS
<1>6. row \in CallRow /\ row.live = call[c].live /\ row.ended = end /\ row.reason = why
  BY <1>1, <1>5 DEF CallRow
<1>7. call' = [call EXCEPT ![c] = row]
  <2>1. call[c] \in CallRow
    BY <1>1
  <2>2. call' = [call EXCEPT ![c] = [call[c] EXCEPT
           !.accepted = IF patch[t].accepted = Never THEN call[c].accepted ELSE patch[t].accepted,
           !.ended = IF patch[t].ended = Never THEN call[c].ended ELSE patch[t].ended,
           !.reason = IF patch[t].reason = "none" THEN call[c].reason ELSE patch[t].reason]]
    BY <1>2 DEF PatchWrite
  <2> QED
    BY <1>2, <1>4, <1>5, <2>1, <2>2 DEF CallRow
<1>8. /\ call' \in [Call -> CallRow] /\ call'[c] = row
      /\ \A d \in Call \ {c} : call'[d] = call[d]
  BY <1>1, <1>6, <1>7
<1>9. /\ patch' \in [Task -> Patch] /\ patch'[t] = NoPatch
      /\ \A s \in Task \ {t} : patch'[s] = patch[s]
  BY <1>1, <1>3, NoPatchType
<1>10. /\ writes' \in [Call -> Nat] /\ \A d \in Call \ {c} : writes'[d] = writes[d]
       /\ writes'[c] = IF e = Never THEN writes[c] ELSE writes[c] + 1
  BY <1>1, <1>3
<1>11. CallLogTypeOK'
  <2>1. end = Swept => call[c].ended = Swept
    BY <1>4, CallFacts
  <2>2. \A d \in Call : call[d].ended = Swept => call[d].reason # "none"
    BY <1>1 DEF CallLogTypeOK
  <2>3. \A d \in Call : call'[d].ended = Swept => call'[d].reason # "none"
    BY <1>4, <1>6, <1>8, <2>1, <2>2
  <2>4. stale' \subseteq {d \in Call : call'[d].live}
    BY <1>1, <1>3, <1>6, <1>8 DEF CallLogTypeOK
  <2>5. \A s \in Task : patch'[s].pc = "write" => patch'[s].call \in Call
    BY <1>1, <1>9, NoPatchType DEF CallLogTypeOK
  <2> QED
    BY <1>1, <1>3, <1>8, <1>9, <1>10, <2>3, <2>4, <2>5 DEF CallLogTypeOK
<1>12. ASSUME NEW s \in Task PROVE BlockInv(s)' /\ LiveInv(s)'
  <2>1. patch[s].pc = "write" => patch[s].call \in Call
    BY <1>1 DEF CallLogTypeOK
  <2> QED
    BY <1>3, <1>6, <1>8, <1>9, <2>1, NoPatchType DEF CallLogInv, BlockInv, LiveInv, BlockedBetween
<1>13. ASSUME NEW d \in Call PROVE WriteInv(d)'
  <2>1. WriteInv(d) /\ writes[d] \in Nat /\ writes'[d] \in Nat
    BY <1>1, <1>10 DEF CallLogInv
  <2>2. /\ IsFiniteSet(Ending(d)) /\ Cardinality(Ending(d)) \in Nat /\ Cardinality(Task) \in Nat
        /\ Cardinality(Ending(d)) <= Cardinality(Task)
    BY EndingFinite, CallFacts
  <2>3. (~call'[d].live => ~call[d].live) /\ call[c].live
    BY <1>1, <1>2, <1>6, <1>8 DEF CallLogInv, LiveInv
  <2>4. CASE d = c /\ e # Never
    <3>1. Ending(d)' = Ending(d) \ {t} /\ t \in Ending(d)
      BY <1>1, <1>2, <1>9, <2>4, NoPatchType DEF Ending
    <3>2. Cardinality(Ending(d)') = Cardinality(Ending(d)) - 1
      BY <2>2, <3>1, FS_RemoveElement
    <3> QED
      BY <1>4, <1>6, <1>8, <1>10, <2>1, <2>2, <2>3, <2>4, <3>2 DEF WriteInv
  <2>5. CASE ~(d = c /\ e # Never)
    <3>1. Ending(d)' = Ending(d)
      BY <1>1, <1>2, <1>9, <2>5, NoPatchType DEF Ending
    <3>2. call'[d].ended = call[d].ended /\ writes'[d] = writes[d]
      BY <1>4, <1>6, <1>8, <1>10, <2>5
    <3> QED
      BY <2>1, <2>3, <3>1, <3>2 DEF WriteInv
  <2> QED
    BY <2>4, <2>5
<1> QED
  BY <1>3, <1>11, <1>12, <1>13 DEF CallLogInv

LEMMA SweepStep ==
  ASSUME CallLogInv, SweepCalls
  PROVE  CallLogInv'
<1>1. /\ CallLogTypeOK /\ call \in [Call -> CallRow] /\ writes \in [Call -> Nat]
      /\ UNCHANGED <<blocks, stale, patch, phantom>>
  BY DEF CallLogInv, CallLogTypeOK, SweepCalls
<1>2. ASSUME NEW c \in Call, c \notin Stale
      PROVE  call'[c] = call[c] /\ writes'[c] = writes[c]
  <2>1. call'[c] = call[c]
    BY <1>2 DEF SweepCalls
  <2>2. writes'[c] = writes[c] + 0
    BY <1>2 DEF SweepCalls
  <2>3. writes[c] \in Nat
    BY <1>1
  <2> QED
    BY <2>1, <2>2, <2>3
<1>3. ASSUME NEW c \in Call, c \in Stale
      PROVE  /\ call'[c] \in CallRow /\ call'[c].live = call[c].live
             /\ call'[c].ended = Swept /\ call'[c].reason # "none"
             /\ writes'[c] = writes[c] + 1
  <2>1. PICK why \in Reason : why = SweptReason(c) /\ why # "none"
    BY DEF SweptReason, Reason
  <2>2. /\ call'[c] = [call[c] EXCEPT !.ended = Swept, !.reason = why]
        /\ writes'[c] = writes[c] + 1
    BY <1>3, <2>1 DEF SweepCalls
  <2>3. call[c] \in CallRow
    BY <1>1
  <2> QED
    BY <2>1, <2>2, <2>3 DEF CallRow
<1>4. call' \in [Call -> CallRow] /\ writes' \in [Call -> Nat]
  <2>1. \A c \in Call : call'[c] \in CallRow /\ writes'[c] \in Nat
    BY <1>1, <1>2, <1>3
  <2> QED
    BY <2>1 DEF SweepCalls
<1>5. \A c \in Call : call'[c].live = call[c].live
  BY <1>2, <1>3
<1>6. CallLogTypeOK'
  <2>1. \A c \in Call : call'[c].ended = Swept => call'[c].reason # "none"
    BY <1>1, <1>2, <1>3 DEF CallLogTypeOK
  <2>2. stale' \subseteq {c \in Call : call'[c].live}
    BY <1>1, <1>5 DEF CallLogTypeOK
  <2> QED
    BY <1>1, <1>4, <2>1, <2>2 DEF CallLogTypeOK
<1>7. ASSUME NEW t \in Task PROVE BlockInv(t)' /\ LiveInv(t)'
  <2>1. patch[t].pc = "write" => patch[t].call \in Call
    BY <1>1 DEF CallLogTypeOK
  <2> QED
    BY <1>1, <1>5, <2>1 DEF CallLogInv, BlockInv, LiveInv, BlockedBetween
<1>8. ASSUME NEW c \in Call PROVE WriteInv(c)'
  <2>1. WriteInv(c) /\ Ending(c)' = Ending(c)
    BY <1>1 DEF CallLogInv, Ending
  <2>2. CASE c \in Stale
    <3>1. call[c].ended = Never /\ call[c].live
      BY <1>1, <2>2 DEF Stale, CallLogTypeOK
    <3>2. /\ writes[c] = 0 /\ Cardinality(Ending(c)) \in Nat
          /\ Cardinality(Ending(c)) <= Cardinality(Task) /\ Cardinality(Task) \in Nat
      BY <2>1, <3>1, EndingFinite, CallFacts DEF WriteInv
    <3>3. writes'[c] + Cardinality(Ending(c)') <= Cardinality(Task) + 1
      BY <1>3, <2>1, <2>2, <3>2
    <3> QED
      BY <1>3, <2>2, <3>1, <3>3, CallLogAssumption DEF WriteInv
  <2>3. CASE c \notin Stale
    BY <1>2, <2>1, <2>3 DEF WriteInv
  <2> QED
    BY <2>2, <2>3
<1> QED
  BY <1>1, <1>6, <1>7, <1>8 DEF CallLogInv

\* Blocks and unblocks: no row, no request but for the memory of a lost block.
LEMMA BlockStep ==
  ASSUME CallLogInv, NEW p \in Party, BlockCaller(p) \/ UnblockCaller(p)
  PROVE  CallLogInv'
<1>1. /\ CallLogTypeOK /\ patch \in [Task -> Patch] /\ p \in User \X User
      /\ UNCHANGED <<call, stale, phantom, writes>>
  BY CallFacts DEF CallLogInv, CallLogTypeOK, BlockCaller, UnblockCaller
<1>2. /\ patch' \in [Task -> Patch]
      /\ \A t \in Task :
           /\ patch'[t].pc = patch[t].pc /\ patch'[t].call = patch[t].call
           /\ patch'[t].ended = patch[t].ended
           /\ patch'[t].from = patch[t].from /\ patch'[t].to = patch[t].to
           /\ patch'[t].blocked => patch[t].blocked
           /\ patch'[t].blocked => {<<patch[t].from, patch[t].to>>,
                                    <<patch[t].to, patch[t].from>>} \cap blocks' # {}
  <2>1. CASE BlockCaller(p)
    <3>1. patch' = patch /\ blocks \subseteq blocks'
      BY <2>1 DEF BlockCaller
    <3> QED
      BY <1>1, <3>1 DEF CallLogInv, BlockInv, BlockedBetween
  <2>2. CASE UnblockCaller(p)
    <3>1. ASSUME NEW t \in Task
          PROVE  /\ patch'[t] \in Patch
                 /\ patch'[t].pc = patch[t].pc /\ patch'[t].call = patch[t].call
                 /\ patch'[t].ended = patch[t].ended
                 /\ patch'[t].from = patch[t].from /\ patch'[t].to = patch[t].to
                 /\ patch'[t].blocked = (patch[t].blocked /\
                      {<<patch[t].from, patch[t].to>>, <<patch[t].to, patch[t].from>>}
                         \cap (blocks \ {p}) # {})
      <4>1. PICK b \in BOOLEAN : b = (patch[t].blocked /\
              {<<patch[t].from, patch[t].to>>, <<patch[t].to, patch[t].from>>}
                 \cap (blocks \ {p}) # {})
        OBVIOUS
      <4>2. patch'[t] = [patch[t] EXCEPT !.blocked = b]
        BY <2>2, <4>1 DEF UnblockCaller
      <4>3. patch[t] \in Patch
        BY <1>1
      <4>4. /\ patch'[t] \in Patch
            /\ patch'[t].pc = patch[t].pc /\ patch'[t].call = patch[t].call
            /\ patch'[t].ended = patch[t].ended
            /\ patch'[t].from = patch[t].from /\ patch'[t].to = patch[t].to
            /\ patch'[t].blocked = b
        BY <4>2, <4>3 DEF Patch
      <4> QED
        BY <4>1, <4>4
    <3>2. DOMAIN patch' = Task /\ patch' = [t \in Task |-> patch'[t]] /\ blocks' = blocks \ {p}
      BY <2>2 DEF UnblockCaller
    <3> QED
      BY <3>1, <3>2
  <2> QED
    BY <2>1, <2>2
<1>3. blocks' \subseteq User \X User
  BY <1>1 DEF CallLogTypeOK, BlockCaller, UnblockCaller
<1>4. CallLogTypeOK'
  BY <1>1, <1>2, <1>3 DEF CallLogTypeOK
<1>5. ASSUME NEW t \in Task PROVE BlockInv(t)' /\ LiveInv(t)'
  <2>1. BlockInv(t) /\ LiveInv(t)
    BY DEF CallLogInv
  <2> QED
    BY <1>1, <1>2, <2>1 DEF BlockInv, LiveInv, BlockedBetween
<1>6. ASSUME NEW c \in Call PROVE WriteInv(c)'
  <2>1. Ending(c)' = Ending(c)
    BY <1>2 DEF Ending
  <2> QED
    BY <1>1, <2>1 DEF CallLogInv, WriteInv
<1> QED
  BY <1>1, <1>4, <1>5, <1>6 DEF CallLogInv

LEMMA QuietStep ==
  ASSUME CallLogInv, \/ \E c \in Call : Grows(c)
                     \/ \E u \in User : DeleteParty(u)
                     \/ UNCHANGED callLogVars
  PROVE  CallLogInv'
<1>1. /\ CallLogTypeOK /\ call \in [Call -> CallRow]
      /\ UNCHANGED <<blocks, patch, phantom, writes>>
  BY DEF CallLogInv, CallLogTypeOK, Grows, DeleteParty, callLogVars
<1>2. /\ call' \in [Call -> CallRow]
      /\ \A c \in Call : /\ call'[c].live = call[c].live
                         /\ call'[c].ended = call[c].ended /\ call'[c].reason = call[c].reason
  <2>1. CASE call' = call
    BY <1>1, <2>1
  <2>2. ASSUME NEW u \in User, DeleteParty(u)
        PROVE  /\ call' \in [Call -> CallRow]
               /\ \A c \in Call : /\ call'[c].live = call[c].live
                                  /\ call'[c].ended = call[c].ended
                                  /\ call'[c].reason = call[c].reason
    <3>1. ASSUME NEW c \in Call
          PROVE  /\ call'[c] \in CallRow /\ call'[c].live = call[c].live
                 /\ call'[c].ended = call[c].ended /\ call'[c].reason = call[c].reason
      <4>1. PICK from, to : /\ from = (IF call[c].caller = u THEN NoUser ELSE call[c].caller)
                            /\ to = (IF call[c].callee = u THEN NoUser ELSE call[c].callee)
        OBVIOUS
      <4>2. call'[c] = [call[c] EXCEPT !.caller = from, !.callee = to]
        BY <2>2, <4>1 DEF DeleteParty
      <4>3. call[c] \in CallRow
        BY <1>1
      <4>4. from \in User \cup {NoUser} /\ to \in User \cup {NoUser}
        BY <4>1, <4>3 DEF CallRow
      <4> QED
        BY <4>2, <4>3, <4>4 DEF CallRow
    <3>2. call' = [c \in Call |-> call'[c]]
      BY <2>2 DEF DeleteParty
    <3> QED
      BY <3>1, <3>2
  <2> QED
    BY <2>1, <2>2 DEF Grows, callLogVars
<1>3. stale' \subseteq {c \in Call : call'[c].live}
  BY <1>1, <1>2 DEF CallLogTypeOK, Grows, DeleteParty, callLogVars
<1>4. CallLogTypeOK'
  BY <1>1, <1>2, <1>3 DEF CallLogTypeOK
<1>5. ASSUME NEW t \in Task PROVE BlockInv(t)' /\ LiveInv(t)'
  <2>1. BlockInv(t) /\ LiveInv(t) /\ (patch[t].pc = "write" => patch[t].call \in Call)
    BY <1>1 DEF CallLogInv, CallLogTypeOK
  <2> QED
    BY <1>1, <1>2, <2>1 DEF BlockInv, LiveInv, BlockedBetween
<1>6. ASSUME NEW c \in Call PROVE WriteInv(c)'
  <2>1. Ending(c)' = Ending(c)
    BY <1>1 DEF Ending
  <2> QED
    BY <1>1, <1>2, <2>1 DEF CallLogInv, WriteInv
<1> QED
  BY <1>1, <1>4, <1>5, <1>6 DEF CallLogInv

------------------------------------------------------------------------------
(* The theorems. *)

\* Every step of the specification preserves the invariant.
LEMMA NextCallLog == CallLogInv /\ [CallLogNext]_callLogVars => CallLogInv'
<1> SUFFICES ASSUME CallLogInv, CallLogNext \/ UNCHANGED callLogVars PROVE CallLogInv'
  OBVIOUS
<1>1. ASSUME NEW t \in Task,
             \/ \E p \in Party : CreateCall(t, p)
             \/ CheckBlocks(t) \/ InsertCall(t)
             \/ \E c \in Call, u \in User, a \in Maybe, e \in Maybe, r \in Sends \cup {"none"} :
                  PatchRead(t, c, u, a, e, r)
             \/ PatchWrite(t) \/ PatchFails(t)
      PROVE  CallLogInv'
  BY <1>1, PatchSteps, InsertStep, WriteStep
<1>2. ASSUME NEW p \in Party, BlockCaller(p) \/ UnblockCaller(p) PROVE CallLogInv'
  BY <1>2, BlockStep
<1>3. CASE SweepCalls
  BY <1>3, SweepStep
<1>4. CASE \/ \E c \in Call : Grows(c)
           \/ \E u \in User : DeleteParty(u)
           \/ UNCHANGED callLogVars
  BY <1>4, QuietStep
<1> QED
  BY <1>1, <1>2, <1>3, <1>4 DEF CallLogNext

LEMMA CallLogInvariant == CallLogSpec => []CallLogInv
  BY InitCallLog, NextCallLog, PTL DEF CallLogSpec

\* calls.py: the rows and the requests in flight have their types, and a call
\* that the sweep closed carries a reason, whatever a PATCH writes over it.
THEOREM CallLogTypes == CallLogSpec => []CallLogTypeOK
<1>1. CallLogInv => CallLogTypeOK
  BY DEF CallLogInv
<1> QED
  BY <1>1, CallLogInvariant, PTL

\* create_call: the block check comes before the insert, so a block that was there
\* before the request and stays until its end lets no row through.
THEOREM NoPhantomCalls == CallLogSpec => []NoPhantomCall
<1>1. CallLogInv => NoPhantomCall
  BY DEF CallLogInv, NoPhantomCall
<1> QED
  BY <1>1, CallLogInvariant, PTL

\* update_call and sweep_once: with T requests in flight ended_at is written at most
\* T + 1 times, once by the sweep and once by each request that read NULL.
THEOREM EndsBounded == CallLogSpec => []EndedBound
<1>1. CallLogInv => EndedBound
  <2> SUFFICES ASSUME CallLogInv, NEW c \in Call
               PROVE  writes[c] <= Cardinality(Task) + 1
    BY DEF EndedBound
  <2>1. writes[c] \in Nat /\ writes[c] + Cardinality(Ending(c)) <= Cardinality(Task) + 1
    BY DEF CallLogInv, CallLogTypeOK, WriteInv
  <2> QED
    BY <2>1, EndingFinite, CallFacts
<1> QED
  BY <1>1, CallLogInvariant, PTL
==============================================================================
