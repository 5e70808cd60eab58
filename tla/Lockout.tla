------------------------------- MODULE Lockout -------------------------------
(***************************************************************************)
(* The lockout of POST /login (app/api/v1/endpoints/auth.py): failed       *)
(* attempts are counted per private number in Redis, outside any           *)
(* transaction, and too many refuse the next attempt.  What a login that   *)
(* succeeds does is in Sessions; here it only ends.                        *)
(***************************************************************************)
EXTENDS Requests

CONSTANTS
  Number,      \* private numbers
  Limit,       \* LOGIN_FAILURES_PER_NUMBER
  MaxOutages,  \* bound on the checks that Redis does not answer
  NoNumber

ASSUME LockoutAssumption ==
  NoNumber \notin Number /\ Limit \in Nat \ {0} /\ MaxOutages \in Nat

VARIABLES
  fails,    \* fails[n]: the counter login_fail:n; 0: no such key
  window,   \* numbers whose counter has a time to live
  attempt,  \* attempt[t]: the login that task t serves
  \* History variables; no action reads lost, and outages only bounds itself.
  lost,     \* numbers whose EXPIRE was never done
  outages   \* checks that failed open

lockoutVars == <<fails, window, attempt, lost, outages>>

------------------------------------------------------------------------------
Attempt == [pc : {"idle", "verify", "fail", "expire"}, number : Number \cup {NoNumber}]
NoAttempt == [pc |-> "idle", number |-> NoNumber]

\* The types; one request at most sets the time to live of a counter.
LockoutTypeOK ==
  /\ fails \in [Number -> Nat] /\ window \subseteq Number
  /\ attempt \in [Task -> Attempt]
  /\ \A t \in Task : attempt[t].pc # "idle" => attempt[t].number \in Number
  /\ \A s, t \in Task :
       attempt[s].pc = "expire" /\ attempt[t].pc = "expire"
         /\ attempt[s].number = attempt[t].number => s = t
  /\ lost \subseteq Number /\ outages \in Nat

LockoutInit ==
  /\ fails = [n \in Number |-> 0] /\ window = {}
  /\ attempt = [t \in Task |-> NoAttempt]
  /\ lost = {} /\ outages = 0

\* The counter forbids a login.  (Mutant: one failure too late.)
LockedLate(n) == fails[n] > Limit
LockedOut(n) == fails[n] >= Limit

\* Only the first failure of a window sets its time to live.  (Mutants: every one;
\* the second.)
EveryFailure(n) == n \in Number
SecondFailure(n) == fails[n] = 1
FirstFailure(n) == fails[n] = 0

AttemptAt(t, pc) == attempt' = [attempt EXCEPT ![t].pc = pc]
AttemptEnds(t) == attempt' = [attempt EXCEPT ![t] = NoAttempt]

\* _check_number_lockout: the counter is read before anything else.  Redis may
\* not answer: the check fails open.
LoginCheck(t, n) ==
  /\ attempt[t].pc = "idle"
  /\ \/ ~LockedOut(n) /\ UNCHANGED outages
     \/ outages < MaxOutages /\ outages' = outages + 1
  /\ attempt' = [attempt EXCEPT ![t] = [pc |-> "verify", number |-> n]]
  /\ UNCHANGED <<fails, window, lost>>

\* The user row is read and both hashes are verified, on a worker thread:
\* nothing matches, or the login goes on to its session or delete-intent token.
\* An error of the database or the worker ends it without a trace too.
LoginVerify(t) ==
  /\ attempt[t].pc = "verify"
  /\ AttemptAt(t, "fail") \/ AttemptEnds(t)
  /\ UNCHANGED <<fails, window, lost, outages>>

\* _record_login_failure: INCR, and for the first failure EXPIRE in a second
\* command.  If Redis does not answer, nothing is counted.
LoginFail(t) ==
  LET n == attempt[t].number
  IN  /\ attempt[t].pc = "fail"
      /\ \/ /\ fails' = [fails EXCEPT ![n] = @ + 1]
            /\ IF FirstFailure(n) THEN AttemptAt(t, "expire") ELSE AttemptEnds(t)
         \/ AttemptEnds(t) /\ UNCHANGED fails
      /\ UNCHANGED <<window, lost, outages>>

\* The time to live is set; or Redis fails, or the worker stops, before it is.
LoginExpire(t) ==
  LET n == attempt[t].number
  IN  /\ attempt[t].pc = "expire"
      /\ \/ window' = window \cup {n} /\ UNCHANGED lost
         \/ lost' = lost \cup {n} /\ UNCHANGED window
      /\ AttemptEnds(t)
      /\ UNCHANGED <<fails, outages>>

\* Redis drops the counter when its time to live is over.
WindowEnds(n) ==
  /\ n \in window
  /\ fails' = [fails EXCEPT ![n] = 0]
  /\ window' = window \ {n}
  /\ UNCHANGED <<attempt, lost, outages>>

LockoutNext ==
  \/ \E t \in Task : \/ \E n \in Number : LoginCheck(t, n)
                     \/ LoginVerify(t) \/ LoginFail(t) \/ LoginExpire(t)
  \/ \E n \in Number : WindowEnds(n)

LockoutSpec == LockoutInit /\ [][LockoutNext]_lockoutVars

------------------------------------------------------------------------------
(* Safety. *)

\* _check_number_lockout: the logins that pass the check before others have
\* recorded their failure exceed the limit by at most one for every other
\* request in flight, and by the checks that Redis did not answer.
LockoutBound ==
  \A n \in Number : fails[n] <= Limit + Cardinality(Task) - 1 + outages

\* _record_login_failure: a counter without a time to live is about to get one,
\* unless Redis or the worker failed between the two commands.
CounterExpires ==
  \A n \in Number :
    fails[n] > 0 /\ n \notin window
      => n \in lost \/ \E t \in Task : attempt[t].pc = "expire" /\ attempt[t].number = n
==============================================================================
