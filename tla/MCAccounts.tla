----------------------------- MODULE MCAccounts ------------------------------
(* Three components that share no variable, checked in one run: turn names   *)
(* the one that moves, and the others stay as they began, where every        *)
(* property holds.  Symmetric values are those of which each component       *)
(* treats all alike; no property is a liveness property.                     *)
EXTENDS Sessions, Devices, Signaling, TLC

CONSTANTS a, b, Part

VARIABLE turn

CallsB == {<<a, b>>}
BlocksA == {<<b, a>>}

Alike == Permutations(Task) \cup Permutations(LoginPassword)

vars == <<sessionsVars, devicesVars, signalingVars, turn>>

Init == turn \in Part /\ SessionsInit /\ DevicesInit /\ SignalingInit

Next ==
  /\ UNCHANGED turn
  /\ IF turn = "sessions" THEN SessionsNext ELSE UNCHANGED sessionsVars
  /\ IF turn = "devices" THEN DevicesNext ELSE UNCHANGED devicesVars
  /\ IF turn = "signaling" THEN SignalingNext ELSE UNCHANGED signalingVars

Spec == Init /\ [][Next]_vars
==============================================================================
