---------------------------- MODULE LimitsProofs -----------------------------
(***************************************************************************)
(* Theorems about the counters of failed logins (Lockout) and the frames   *)
(* that a socket may send (Throttle), for any limits, windows and requests *)
(* in flight.                                                              *)
(***************************************************************************)
EXTENDS Lockout, Throttle, FiniteSetTheorems, TLAPS

------------------------------------------------------------------------------
(* Lockout. *)

------------------------------------------------------------------------------
(* The invariant. *)

\* A counter that is about to get a time to live has none yet, and counters with
\* one are not zero.
WindowInv ==
  /\ \A t \in Task : attempt[t].pc = "expire"
                       => attempt[t].number \notin window /\ fails[attempt[t].number] > 0
  /\ \A n \in window : fails[n] > 0

\* The logins for n that passed the check and have not counted their failure.
InFlight(n) == {t \in Task : attempt[t].pc \in {"verify", "fail"} /\ attempt[t].number = n}

FailsInv ==
  \A n \in Number :
    fails[n] + Cardinality(InFlight(n)) <= Limit - 1 + Cardinality(Task) + outages

LEMMA InFlightFinite ==
  \A n : /\ IsFiniteSet(InFlight(n)) /\ Cardinality(InFlight(n)) \in Nat
         /\ Cardinality(InFlight(n)) <= Cardinality(Task) /\ Cardinality(Task) \in Nat
  BY RequestsAssumption, FS_Subset, FS_CardinalityType DEF InFlight

------------------------------------------------------------------------------
(* Types. *)

LEMMA InitLockout == LockoutInit => LockoutTypeOK /\ WindowInv /\ CounterExpires
  BY DEF LockoutInit, LockoutTypeOK, WindowInv, CounterExpires, Attempt, NoAttempt

LEMMA NextLockout ==
  LockoutTypeOK /\ WindowInv /\ CounterExpires /\ [LockoutNext]_lockoutVars
    => LockoutTypeOK' /\ WindowInv' /\ CounterExpires'
<1> SUFFICES ASSUME LockoutTypeOK, WindowInv, CounterExpires, [LockoutNext]_lockoutVars
             PROVE  LockoutTypeOK' /\ WindowInv' /\ CounterExpires'
  OBVIOUS
<1> USE LockoutAssumption DEF LockoutTypeOK, WindowInv, CounterExpires, Attempt
<1>1. ASSUME NEW t \in Task, NEW n \in Number, LoginCheck(t, n)
      PROVE  LockoutTypeOK' /\ WindowInv' /\ CounterExpires'
  <2>1. outages' \in Nat
    BY <1>1 DEF LoginCheck
  <2>2. \A s \in Task : attempt'[s].pc = "expire"
                          <=> s # t /\ attempt[s].pc = "expire"
    BY <1>1 DEF LoginCheck
  <2>3. \A s \in Task : s # t => attempt'[s] = attempt[s]
    BY <1>1 DEF LoginCheck
  <2>4. attempt[t].pc # "expire"
    BY <1>1 DEF LoginCheck
  <2>5. attempt' \in [Task -> Attempt] /\ attempt'[t].number \in Number
    BY <1>1 DEF LoginCheck
  <2> QED
    BY <1>1, <2>1, <2>2, <2>3, <2>4, <2>5 DEF LoginCheck
<1>2. ASSUME NEW t \in Task, LoginVerify(t)
      PROVE  LockoutTypeOK' /\ WindowInv' /\ CounterExpires'
  BY <1>2 DEF LoginVerify, AttemptAt, AttemptEnds, NoAttempt
<1>3. ASSUME NEW t \in Task, LoginFail(t)
      PROVE  LockoutTypeOK' /\ WindowInv' /\ CounterExpires'
  <2> DEFINE n == attempt[t].number
  <2>1. n \in Number /\ attempt[t].pc = "fail"
    BY <1>3 DEF LoginFail
  <2>2. CASE AttemptEnds(t) /\ UNCHANGED fails
    BY <1>3, <2>1, <2>2 DEF LoginFail, AttemptEnds, NoAttempt
  <2>3. CASE fails' = [fails EXCEPT ![n] = @ + 1] /\ FirstFailure(n) /\ AttemptAt(t, "expire")
    <3>1. \A s \in Task : attempt[s].pc = "expire" => attempt[s].number # n
      BY <2>3 DEF FirstFailure
    <3>2. n \notin window
      BY <2>3 DEF FirstFailure
    <3>3. \A s \in Task : s # t => attempt'[s] = attempt[s]
      BY <2>3 DEF AttemptAt
    <3>4. attempt'[t].pc = "expire" /\ attempt'[t].number = n
      BY <2>3 DEF AttemptAt
    <3>5. attempt' \in [Task -> Attempt]
      BY <2>3 DEF AttemptAt
    <3>6. fails' \in [Number -> Nat] /\ \A k \in Number : fails'[k] >= fails[k]
      BY <2>3, <2>1
    <3>7. fails'[n] > 0 /\ \A k \in Number \ {n} : fails'[k] = fails[k]
      BY <2>3, <2>1
    <3>8. UNCHANGED <<window, lost, outages>>
      BY <1>3 DEF LoginFail
    <3>9. LockoutTypeOK'
      BY <2>1, <3>1, <3>3, <3>4, <3>5, <3>6, <3>8
    <3>10. WindowInv'
      BY <2>1, <3>2, <3>3, <3>4, <3>6, <3>7, <3>8
    <3>11. CounterExpires'
      BY <2>1, <3>3, <3>4, <3>7, <3>8
    <3> QED
      BY <3>9, <3>10, <3>11
  <2>4. CASE fails' = [fails EXCEPT ![n] = @ + 1] /\ ~FirstFailure(n) /\ AttemptEnds(t)
    <3>1. fails[n] > 0
      BY <2>4, <2>1 DEF FirstFailure
    <3>2. \A s \in Task : s # t => attempt'[s] = attempt[s]
      BY <2>4 DEF AttemptEnds
    <3>3. attempt'[t].pc = "idle"
      BY <2>4 DEF AttemptEnds, NoAttempt
    <3>4. attempt' \in [Task -> Attempt]
      BY <2>4 DEF AttemptEnds, NoAttempt
    <3>5. fails' \in [Number -> Nat] /\ \A k \in Number : fails'[k] > 0 <=> fails[k] > 0
      BY <2>4, <2>1, <3>1
    <3>6. UNCHANGED <<window, lost, outages>>
      BY <1>3 DEF LoginFail
    <3> QED
      BY <2>1, <3>2, <3>3, <3>4, <3>5, <3>6
  <2> QED
    BY <1>3, <2>2, <2>3, <2>4 DEF LoginFail
<1>4. ASSUME NEW t \in Task, LoginExpire(t)
      PROVE  LockoutTypeOK' /\ WindowInv' /\ CounterExpires'
  <2> DEFINE n == attempt[t].number
  <2>1. n \in Number /\ attempt[t].pc = "expire" /\ fails[n] > 0
    BY <1>4 DEF LoginExpire
  <2>2. \A s \in Task : s # t => attempt'[s] = attempt[s]
    BY <1>4 DEF LoginExpire, AttemptEnds
  <2>3. attempt'[t].pc = "idle"
    BY <1>4 DEF LoginExpire, AttemptEnds, NoAttempt
  <2>4. attempt' \in [Task -> Attempt]
    BY <1>4 DEF LoginExpire, AttemptEnds, NoAttempt
  <2>5. UNCHANGED <<fails, outages>>
    BY <1>4 DEF LoginExpire
  <2>6. window \subseteq window' /\ window' \subseteq window \cup {n}
    BY <1>4 DEF LoginExpire
  <2>7. lost \subseteq lost' /\ lost' \subseteq lost \cup {n}
    BY <1>4 DEF LoginExpire
  <2>8. n \in window' \cup lost'
    BY <1>4 DEF LoginExpire
  <2>9. LockoutTypeOK'
    BY <2>1, <2>2, <2>3, <2>4, <2>5, <2>6, <2>7
  <2>10. WindowInv'
    BY <2>1, <2>2, <2>3, <2>5, <2>6
  <2>11. CounterExpires'
    BY <2>1, <2>2, <2>5, <2>6, <2>7, <2>8
  <2> QED
    BY <2>9, <2>10, <2>11
<1>5. ASSUME NEW n \in Number, WindowEnds(n)
      PROVE  LockoutTypeOK' /\ WindowInv' /\ CounterExpires'
  BY <1>5 DEF WindowEnds
<1>6. CASE UNCHANGED lockoutVars
  BY <1>6 DEF lockoutVars
<1> QED
  BY <1>1, <1>2, <1>3, <1>4, <1>5, <1>6 DEF LockoutNext

\* The types of the lockout; at most one request sets the time to live of a counter.
THEOREM LockoutTypes == LockoutSpec => []LockoutTypeOK
  BY InitLockout, NextLockout, PTL DEF LockoutSpec

\* A counter without a time to live is about to get one, unless Redis or the worker
\* failed between the two commands (_record_login_failure).
THEOREM CountersExpire == LockoutSpec => []CounterExpires
  BY InitLockout, NextLockout, PTL DEF LockoutSpec

------------------------------------------------------------------------------
(* The bound. *)

LEMMA InitFails == LockoutInit => FailsInv
<1> SUFFICES ASSUME LockoutInit, NEW n \in Number
             PROVE  fails[n] + Cardinality(InFlight(n))
                      <= Limit - 1 + Cardinality(Task) + outages
  BY DEF FailsInv
<1>1. fails[n] = 0 /\ outages = 0
  BY DEF LockoutInit
<1> QED
  BY <1>1, InFlightFinite, LockoutAssumption

\* A step that starts no login counts at most what it takes out of flight.
LEMMA FailsQuiet ==
  ASSUME LockoutTypeOK, FailsInv, LockoutTypeOK', outages' = outages,
         \A n \in Number : \/ InFlight(n)' \subseteq InFlight(n) /\ fails'[n] <= fails[n]
                           \/ \E t \in InFlight(n) : /\ InFlight(n)' = InFlight(n) \ {t}
                                                     /\ fails'[n] = fails[n] + 1
  PROVE  FailsInv'
<1> SUFFICES ASSUME NEW n \in Number
             PROVE  fails'[n] + Cardinality(InFlight(n)')
                      <= Limit - 1 + Cardinality(Task) + outages
  BY DEF FailsInv
<1>1. fails[n] \in Nat /\ fails'[n] \in Nat /\ outages \in Nat /\ Limit \in Nat
  BY LockoutAssumption DEF LockoutTypeOK
<1>2. fails[n] + Cardinality(InFlight(n)) <= Limit - 1 + Cardinality(Task) + outages
  BY DEF FailsInv
<1>3. IsFiniteSet(InFlight(n)) /\ Cardinality(InFlight(n)) \in Nat /\ Cardinality(Task) \in Nat
  BY InFlightFinite
<1>4. CASE InFlight(n)' \subseteq InFlight(n) /\ fails'[n] <= fails[n]
  <2>1. Cardinality(InFlight(n)') <= Cardinality(InFlight(n))
    BY <1>3, <1>4, FS_Subset
  <2>2. Cardinality(InFlight(n)') \in Nat
    BY <1>3, <1>4, FS_Subset, FS_CardinalityType
  <2> QED
    BY <1>1, <1>2, <1>3, <1>4, <2>1, <2>2
<1>5. ASSUME NEW t \in InFlight(n), InFlight(n)' = InFlight(n) \ {t}, fails'[n] = fails[n] + 1
      PROVE  fails'[n] + Cardinality(InFlight(n)')
               <= Limit - 1 + Cardinality(Task) + outages
  <2>1. Cardinality(InFlight(n)') = Cardinality(InFlight(n)) - 1
    BY <1>3, <1>5, FS_RemoveElement
  <2> QED
    BY <1>1, <1>2, <1>3, <1>5, <2>1
<1> QED
  BY <1>4, <1>5

LEMMA CheckFails ==
  ASSUME LockoutTypeOK, LockoutTypeOK', FailsInv,
         NEW t \in Task, NEW k \in Number, LoginCheck(t, k)
  PROVE  FailsInv'
<1> SUFFICES ASSUME NEW n \in Number
             PROVE  fails[n] + Cardinality(InFlight(n)')
                      <= Limit - 1 + Cardinality(Task) + outages'
  BY DEF FailsInv, LoginCheck
<1>1. fails[n] \in Nat /\ outages \in Nat /\ outages' \in Nat /\ Limit \in Nat
  BY LockoutAssumption DEF LockoutTypeOK
<1>2. fails[n] + Cardinality(InFlight(n)) <= Limit - 1 + Cardinality(Task) + outages
  BY DEF FailsInv
<1>3. IsFiniteSet(InFlight(n)) /\ Cardinality(InFlight(n)) \in Nat /\ Cardinality(Task) \in Nat
  BY InFlightFinite
<1>4. IsFiniteSet(Task) /\ InFlight(n)' \subseteq Task
  BY RequestsAssumption DEF InFlight
<1>5. Cardinality(InFlight(n)') <= Cardinality(Task) /\ Cardinality(InFlight(n)') \in Nat
  BY <1>4, FS_Subset, FS_CardinalityType
<1>6. InFlight(n)' \subseteq InFlight(n) \cup (IF n = k THEN {t} ELSE {})
  BY DEF InFlight, LoginCheck, LockoutTypeOK
<1>7. CASE n # k
  <2>1. InFlight(n)' \subseteq InFlight(n)
    BY <1>6, <1>7
  <2>2. Cardinality(InFlight(n)') <= Cardinality(InFlight(n))
    BY <1>3, <2>1, FS_Subset
  <2>3. outages' >= outages
    BY <1>1 DEF LoginCheck
  <2> QED
    BY <1>1, <1>2, <1>3, <1>5, <2>2, <2>3
<1>8. CASE n = k /\ ~LockedOut(k) /\ UNCHANGED outages
  <2>1. fails[n] <= Limit - 1
    BY <1>1, <1>8 DEF LockedOut
  <2> QED
    BY <1>1, <1>3, <1>5, <1>8, <2>1
<1>9. CASE n = k /\ outages' = outages + 1
  <2>1. InFlight(n)' \subseteq InFlight(n) \cup {t}
    BY <1>6, <1>9
  <2>2. IsFiniteSet(InFlight(n) \cup {t}) /\ Cardinality(InFlight(n) \cup {t}) \in Nat
    BY <1>3, FS_AddElement, FS_CardinalityType
  <2>3. Cardinality(InFlight(n) \cup {t})
          = IF t \in InFlight(n) THEN Cardinality(InFlight(n)) ELSE Cardinality(InFlight(n)) + 1
    BY <1>3, FS_AddElement
  <2>4. Cardinality(InFlight(n)') <= Cardinality(InFlight(n) \cup {t})
    BY <2>1, <2>2, FS_Subset
  <2>5. Cardinality(InFlight(n)') <= Cardinality(InFlight(n)) + 1
    BY <1>3, <1>5, <2>2, <2>3, <2>4
  <2> QED
    BY <1>1, <1>2, <1>3, <1>5, <1>9, <2>5
<1> QED
  BY <1>7, <1>8, <1>9 DEF LoginCheck

LEMMA NextFails ==
  LockoutTypeOK /\ LockoutTypeOK' /\ FailsInv /\ [LockoutNext]_lockoutVars => FailsInv'
<1> SUFFICES ASSUME LockoutTypeOK, LockoutTypeOK', FailsInv, [LockoutNext]_lockoutVars
             PROVE  FailsInv'
  OBVIOUS
<1>1. ASSUME NEW t \in Task, NEW n \in Number, LoginCheck(t, n)
      PROVE  FailsInv'
  BY <1>1, CheckFails
<1>2. ASSUME NEW t \in Task, LoginVerify(t)
      PROVE  FailsInv'
  <2> USE DEF LockoutTypeOK, Attempt
  <2>a. \A s \in Task : s # t => attempt'[s] = attempt[s]
    BY <1>2 DEF LoginVerify, AttemptAt, AttemptEnds
  <2>b. /\ attempt[t].pc = "verify"
        /\ attempt'[t].pc = "idle" \/ attempt'[t].number = attempt[t].number
    BY <1>2 DEF LoginVerify, AttemptAt, AttemptEnds, NoAttempt
  <2>1. \A n \in Number : InFlight(n)' \subseteq InFlight(n)
    BY <2>a, <2>b DEF InFlight
  <2>2. UNCHANGED <<fails, outages>>
    BY <1>2 DEF LoginVerify
  <2> QED
    BY <2>1, <2>2, FailsQuiet DEF LockoutTypeOK
<1>3. ASSUME NEW t \in Task, LoginFail(t)
      PROVE  FailsInv'
  <2>0. PICK k \in Number : k = attempt[t].number
    BY <1>3 DEF LoginFail, LockoutTypeOK
  <2>1. attempt[t].pc = "fail" /\ UNCHANGED outages
    BY <1>3 DEF LoginFail
  <2>a. AttemptAt(t, "expire") \/ AttemptEnds(t)
    BY <1>3 DEF LoginFail
  <2>2. \A s \in Task : s # t => attempt'[s] = attempt[s]
    BY <2>a DEF AttemptAt, AttemptEnds, LockoutTypeOK
  <2>3. attempt'[t].pc \in {"idle", "expire"}
    BY <2>a DEF AttemptAt, AttemptEnds, NoAttempt, LockoutTypeOK, Attempt
  <2>4. \A n \in Number : InFlight(n)' \subseteq InFlight(n)
    BY <2>2, <2>3 DEF InFlight
  <2>5. t \in InFlight(k) /\ InFlight(k)' = InFlight(k) \ {t}
    BY <2>0, <2>1, <2>2, <2>3 DEF InFlight
  <2>6. \A n \in Number : n # k => fails'[n] = fails[n]
    BY <1>3, <2>0 DEF LoginFail, LockoutTypeOK
  <2>7. fails'[k] = fails[k] \/ fails'[k] = fails[k] + 1
    BY <1>3, <2>0 DEF LoginFail, LockoutTypeOK
  <2>8. ASSUME NEW n \in Number
        PROVE  \/ InFlight(n)' \subseteq InFlight(n) /\ fails'[n] <= fails[n]
               \/ \E s \in InFlight(n) : /\ InFlight(n)' = InFlight(n) \ {s}
                                         /\ fails'[n] = fails[n] + 1
    <3>1. fails[n] \in Nat
      BY DEF LockoutTypeOK
    <3>2. CASE fails'[n] = fails[n]
      BY <2>4, <3>1, <3>2
    <3>3. CASE n = k /\ fails'[n] = fails[n] + 1
      BY <2>5, <3>3
    <3> QED
      BY <2>6, <2>7, <3>2, <3>3
  <2> QED
    BY <2>1, <2>8, FailsQuiet
<1>4. ASSUME NEW t \in Task, LoginExpire(t)
      PROVE  FailsInv'
  <2>1. \A n \in Number : InFlight(n)' \subseteq InFlight(n)
    BY <1>4 DEF LoginExpire, AttemptEnds, NoAttempt, InFlight, LockoutTypeOK
  <2>2. UNCHANGED <<fails, outages>>
    BY <1>4 DEF LoginExpire
  <2> QED
    BY <2>1, <2>2, FailsQuiet DEF LockoutTypeOK
<1>5. ASSUME NEW n \in Number, WindowEnds(n)
      PROVE  FailsInv'
  <2>1. \A k \in Number : InFlight(k)' = InFlight(k)
    BY <1>5 DEF WindowEnds, InFlight
  <2>2. UNCHANGED outages /\ \A k \in Number : fails'[k] <= fails[k]
    BY <1>5 DEF WindowEnds, LockoutTypeOK
  <2> QED
    BY <2>1, <2>2, FailsQuiet
<1>6. CASE UNCHANGED lockoutVars
  BY <1>6 DEF lockoutVars, FailsInv, InFlight
<1> QED
  BY <1>1, <1>2, <1>3, <1>4, <1>5, <1>6 DEF LockoutNext

\* Failed logins exceed the limit by at most one for each other login in flight, and by
\* the checks that Redis did not answer (_check_number_lockout).
THEOREM FailuresBounded == LockoutSpec => []LockoutBound
<1>1. LockoutTypeOK /\ FailsInv => LockoutBound
  <2> SUFFICES ASSUME LockoutTypeOK, FailsInv, NEW n \in Number
               PROVE  fails[n] <= Limit + Cardinality(Task) - 1 + outages
    BY DEF LockoutBound
  <2>1. fails[n] \in Nat /\ outages \in Nat /\ Limit \in Nat
    BY LockoutAssumption DEF LockoutTypeOK
  <2>2. fails[n] + Cardinality(InFlight(n)) <= Limit - 1 + Cardinality(Task) + outages
    BY DEF FailsInv
  <2> QED
    BY <2>1, <2>2, InFlightFinite
<1> QED
  BY <1>1, InitLockout, NextLockout, InitFails, NextFails, PTL DEF LockoutSpec

------------------------------------------------------------------------------
(* Throttle. *)

------------------------------------------------------------------------------
(* The invariant: which frames passed in which window. *)

\* The frames that passed in the present window are the last ones.
InWindow == IF count <= MaxEvents THEN count ELSE MaxEvents
Before == Len(passed) - InWindow

\* Frames of earlier windows passed before this one began, and those that are not among
\* the last MaxEvents of them passed before the window before it began.
BurstInv ==
  \A i \in DOMAIN passed :
    /\ passed[i] < windowStart + Window
    /\ i <= Before => passed[i] < windowStart
    /\ i <= Before - MaxEvents => passed[i] < windowStart - Window

LEMMA BeforeType ==
  ASSUME ThrottleTypeOK
  PROVE  /\ Before \in Int
         /\ count <= MaxEvents => Before = Len(passed) - count
         /\ ~(count <= MaxEvents) => Before = Len(passed) - MaxEvents
<1>1. Len(passed) \in Nat /\ count \in Nat /\ MaxEvents \in Nat
  BY ThrottleAssumption DEF ThrottleTypeOK
<1>2. CASE count <= MaxEvents
  BY <1>1, <1>2 DEF Before, InWindow
<1>3. CASE ~(count <= MaxEvents)
  BY <1>1, <1>3 DEF Before, InWindow
<1> QED
  BY <1>2, <1>3

LEMMA InitThrottle == ThrottleInit => ThrottleTypeOK /\ BurstInv /\ BurstBound
  BY ThrottleAssumption
     DEF ThrottleInit, ThrottleTypeOK, BurstInv, BurstBound, InWindow, Before

LEMMA AllowType == ThrottleTypeOK /\ Allow => ThrottleTypeOK'
<1> SUFFICES ASSUME ThrottleTypeOK, Allow PROVE ThrottleTypeOK'
  OBVIOUS
<1> USE ThrottleAssumption DEF ThrottleTypeOK
<1>1. now \in Nat /\ now' = now /\ now \in 0 .. now
  BY DEF Allow
<1>2. windowStart' \in 0 .. now
  BY <1>1 DEF Allow, NewStart
<1>3. count' \in 0 .. MaxEvents + 1
  BY DEF Allow
<1>4. passed' \in Seq(0 .. now)
  <2>1. passed' = passed \/ passed' = Append(passed, now)
    BY DEF Allow
  <2> QED
    BY <1>1, <2>1
<1> QED
  BY <1>1, <1>2, <1>3, <1>4

LEMMA TimeType == ThrottleTypeOK /\ TimePasses => ThrottleTypeOK'
<1> SUFFICES ASSUME ThrottleTypeOK, TimePasses PROVE ThrottleTypeOK'
  OBVIOUS
<1>1. now' \in Nat /\ windowStart' \in 0 .. now' /\ count' \in 0 .. MaxEvents + 1
  BY ThrottleAssumption DEF ThrottleTypeOK, TimePasses
<1>2. \A i \in 1 .. Len(passed) : passed[i] \in 0 .. now'
  BY DEF ThrottleTypeOK, TimePasses
<1>3. passed' \in Seq(0 .. now')
  BY <1>2 DEF ThrottleTypeOK, TimePasses
<1> QED
  BY <1>1, <1>3 DEF ThrottleTypeOK

\* The frame that starts a window, or the next one of it.
LEMMA AllowBurst ==
  ThrottleTypeOK /\ BurstInv /\ BurstBound /\ Allow => BurstInv' /\ BurstBound'
<1> SUFFICES ASSUME ThrottleTypeOK, BurstInv, BurstBound, Allow
             PROVE  BurstInv' /\ BurstBound'
  OBVIOUS
<1> DEFINE over == now - windowStart >= Window
<1> USE ThrottleAssumption
<1>0. PICK len \in Nat : /\ len = Len(passed) /\ DOMAIN passed = 1 .. len
                        /\ \A i \in 1 .. len : passed[i] \in 0 .. now
  BY DEF ThrottleTypeOK
<1>1. /\ now \in Nat /\ windowStart \in 0 .. now /\ count \in 0 .. MaxEvents + 1
      /\ Before \in Int
      /\ count <= MaxEvents => Before = len - count
      /\ ~(count <= MaxEvents) => Before = len - MaxEvents
  BY <1>0, BeforeType DEF ThrottleTypeOK
\* The frames counted in the window of this one, its start, and the frames before it.
<1>2. PICK used \in 0 .. MaxEvents + 1 : used = IF over THEN 0 ELSE count
  BY <1>1
<1>3. PICK start \in Nat : start = IF over THEN now ELSE windowStart
  BY <1>1
<1>4. PICK rest \in Int : rest = IF over THEN len ELSE Before
  BY <1>1
<1>5. windowStart' = start /\ start <= now /\ now < start + Window
  BY <1>1, <1>3 DEF Allow, NewStart
<1>6. rest <= len /\ (used <= MaxEvents => rest = len - used)
  BY <1>1, <1>2, <1>4
<1>7. /\ count' = IF used + 1 <= MaxEvents THEN used + 1 ELSE MaxEvents + 1
      /\ passed' = IF used + 1 <= MaxEvents THEN Append(passed, now) ELSE passed
  BY <1>2 DEF Allow
<1>8. \A i \in 1 .. len : /\ passed[i] < start + Window
                          /\ i <= rest => passed[i] < start
                          /\ i <= rest - MaxEvents => passed[i] < start - Window
  BY <1>0, <1>1, <1>3, <1>4 DEF BurstInv
<1>9. CASE used + 1 <= MaxEvents
  <2>1. passed' = Append(passed, now) /\ count' = used + 1
    BY <1>7, <1>9
  <2>2. /\ Len(passed') = len + 1 /\ DOMAIN passed' = 1 .. len + 1
        /\ \A i \in 1 .. len : passed'[i] = passed[i]
        /\ passed'[len + 1] = now
    BY <1>0, <2>1 DEF ThrottleTypeOK
  <2>3. Before' = rest
    BY <1>1, <1>6, <1>9, <2>1, <2>2 DEF Before, InWindow
  <2>4. ASSUME NEW i \in DOMAIN passed'
        PROVE  /\ passed'[i] < start + Window
               /\ i <= rest => passed'[i] < start
               /\ i <= rest - MaxEvents => passed'[i] < start - Window
    <3>1. CASE i \in 1 .. len
      BY <1>8, <2>2, <3>1
    <3>2. CASE i = len + 1
      BY <1>1, <1>5, <1>6, <2>2, <3>2
    <3> QED
      BY <1>1, <2>2, <3>1, <3>2
  <2>5. BurstInv'
    BY <1>5, <2>3, <2>4 DEF BurstInv, Allow
  <2>6. ASSUME NEW i \in DOMAIN passed', i + 2 * MaxEvents \in DOMAIN passed'
        PROVE  passed'[i + 2 * MaxEvents] - passed'[i] >= Window
    <3>1. i \in 1 .. len /\ i <= len + 1 - 2 * MaxEvents
      BY <1>1, <2>2, <2>6
    <3>2. CASE i + 2 * MaxEvents \in 1 .. len
      BY <1>0, <2>2, <3>1, <3>2 DEF BurstBound
    <3>3. CASE i + 2 * MaxEvents = len + 1
      <4>1. i <= rest - MaxEvents
        BY <1>1, <1>6, <1>9, <3>1
      <4>2. passed[i] < start - Window
        BY <1>8, <3>1, <4>1
      <4> QED
        BY <1>0, <1>1, <1>5, <2>2, <3>1, <3>3, <4>2
    <3> QED
      BY <1>1, <2>2, <2>6, <3>2, <3>3
  <2> QED
    BY <2>5, <2>6 DEF BurstBound
<1>10. CASE ~(used + 1 <= MaxEvents)
  <2>1. passed' = passed /\ count' = MaxEvents + 1
    BY <1>7, <1>10
  <2>2. used >= MaxEvents /\ used = count /\ rest = Before /\ start = windowStart
    BY <1>1, <1>2, <1>3, <1>4, <1>10
  <2>3. Before' = Before
    BY <1>1, <2>1, <2>2 DEF Before, InWindow
  <2> QED
    BY <1>5, <1>8, <2>1, <2>2, <2>3 DEF BurstInv, BurstBound
<1> QED
  BY <1>9, <1>10

LEMMA NextThrottle ==
  ThrottleTypeOK /\ BurstInv /\ BurstBound /\ [ThrottleNext]_throttleVars
    => ThrottleTypeOK' /\ BurstInv' /\ BurstBound'
<1> SUFFICES ASSUME ThrottleTypeOK, BurstInv, BurstBound, [ThrottleNext]_throttleVars
             PROVE  ThrottleTypeOK' /\ BurstInv' /\ BurstBound'
  OBVIOUS
<1>1. CASE Allow
  BY <1>1, AllowType, AllowBurst
<1>2. CASE TimePasses
  BY <1>2, TimeType DEF TimePasses, BurstInv, BurstBound, Before, InWindow
<1>3. CASE UNCHANGED throttleVars
  BY <1>3 DEF throttleVars, ThrottleTypeOK, BurstInv, BurstBound, Before, InWindow
<1> QED
  BY <1>1, <1>2, <1>3 DEF ThrottleNext

\* The types of the throttle.
THEOREM ThrottleTypes == ThrottleSpec => []ThrottleTypeOK
  BY InitThrottle, NextThrottle, PTL DEF ThrottleSpec

\* No interval as long as the window lets more than twice the budget pass
\* (ConnectionThrottle.allow).
THEOREM BurstsBounded == ThrottleSpec => []BurstBound
  BY InitThrottle, NextThrottle, PTL DEF ThrottleSpec
==============================================================================
