----------------------------- MODULE MCMessaging -----------------------------
(* Instances of Messaging for TLC: a direct chat of a and b, and a group of  *)
(* a, b and c.  Only a is ever blocked: the roles of blocker and blocked are *)
(* played by different users, so one direction shows every interleaving.     *)
EXTENDS Messaging, TLC

CONSTANTS a, b, c, sa, sb, sc, m1, m2

DirectUser   == {a, b}
DirectSocket == {sa, sb}
DirectOwner  == (sa :> a) @@ (sb :> b)
DirectBlocks == {<<b, a>>}

GroupUser   == {a, b, c}
GroupSocket == {sa, sb, sc}
GroupOwner  == (sa :> a) @@ (sb :> b) @@ (sc :> c)
GroupBlocks == {<<b, a>>, <<c, a>>}

NoHistory  == <<>>
OneFromA   == m1 :> a
TwoFromA   == (m1 :> a) @@ (m2 :> a)

NoBlocks == {}
NoLeavers == {}
OnlyA == {a}
OnlyB == {b}
AorB  == {a, b}

\* Two sockets of b, whose devices answer at the same time; a only writes.
TwinSocket == {sb, sc}
TwinOwner  == (sb :> b) @@ (sc :> b)
OneSocket  == {sb}
OneOwner   == sb :> b
==============================================================================
