--------------------------- MODULE MCConversations ---------------------------
(* Instances of Conversations for TLC.  a may pair with b, and has had        *)
(* conversations with c and d: three to pin, with a limit of one and two      *)
(* requests in flight, so that the bound of two pins can be missed.           *)
EXTENDS Conversations, TLC

CONSTANTS a, b, c, d, c1, c2, c3, t1, t2

PairUser  == {a, b}
PairOrder == (a :> 1) @@ (b :> 2)
PairConv  == {c1, c2}
NoConversation == <<>>

PinUser  == {a, b, c, d}
PinOrder == (a :> 1) @@ (b :> 2) @@ (c :> 3) @@ (d :> 4)
PinConv  == {c1, c2, c3}
OfA      == (c1 :> <<a, b>>) @@ (c2 :> <<a, c>>) @@ (c3 :> <<a, d>>)

OnlyA   == {a}
Nobody  == {}
==============================================================================
