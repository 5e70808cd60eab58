----------------------------- MODULE MCActivity ------------------------------
(* Six components that share no variable, checked in one run: turn names     *)
(* the one that moves, and the others stay as they began, where nothing that *)
(* is fair is enabled and every property holds.  So the states are those of  *)
(* each of them, and not of their product.                                   *)
EXTENDS Connections, CallLog, Lockout, Throttle, History, ChatList, TLC

CONSTANTS a, b, s1, s2, s3, x1, x2, Part

VARIABLE turn

\* a has two sockets in the conversation and two of /ws/user.
ActivityOwner == (s1 :> a) @@ (s2 :> a) @@ (s3 :> b) @@ (x1 :> a) @@ (x2 :> a)
EitherCalls == {<<a, b>>, <<b, a>>}

vars == <<connectionsVars, callLogVars, lockoutVars, throttleVars, historyVars, chatListVars, turn>>

Init ==
  /\ turn \in Part
  /\ ConnectionsInit /\ CallLogInit /\ LockoutInit /\ ThrottleInit /\ HistoryInit
  /\ ChatListInit

Next ==
  /\ UNCHANGED turn
  /\ IF turn = "connections" THEN ConnectionsNext ELSE UNCHANGED connectionsVars
  /\ IF turn = "calls" THEN CallLogNext ELSE UNCHANGED callLogVars
  /\ IF turn = "lockout" THEN LockoutNext ELSE UNCHANGED lockoutVars
  /\ IF turn = "throttle" THEN ThrottleNext ELSE UNCHANGED throttleVars
  /\ IF turn = "history" THEN HistoryNext ELSE UNCHANGED historyVars
  /\ IF turn = "chats" THEN ChatListNext ELSE UNCHANGED chatListVars

Spec == Init /\ [][Next]_vars /\ ConnectionsFairness /\ CallLogFairness
==============================================================================
