------------------------------ MODULE Requests -------------------------------
(***************************************************************************)
(* What the components that serve requests share: accounts, and a fixed    *)
(* number of requests, frames or tasks in flight at the same time.         *)
(***************************************************************************)
EXTENDS Integers, FiniteSets

CONSTANTS
  User,    \* ids of accounts (uuid4, never drawn twice)
  Task,    \* requests in flight at the same time
  NoUser

ASSUME RequestsAssumption == IsFiniteSet(Task) /\ Task # {} /\ NoUser \notin User
==============================================================================
