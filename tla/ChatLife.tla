------------------------------- MODULE ChatLife -------------------------------
(***************************************************************************)
(* What the server promises about direct conversations, however the        *)
(* requests for them race, fail and repeat.  A conversation appears with   *)
(* both its members and belongs to their pair for good; there is one for a *)
(* pair; a member stays until it leaves or its account goes, and nobody    *)
(* comes back; and a request for a pair's conversation is only answered    *)
(* with the one there is.  Module Conversations implements this            *)
(* specification.                                                          *)
(***************************************************************************)
CONSTANTS User, Conv

VARIABLES
  chat,     \* chat[c]: the pair of c, who is a member and who is gone
  answers   \* <<u, o, c>>: u asked for the conversation with o and got c

NoChat == [pair |-> {}, members |-> {}, gone |-> {}]
Fresh(u, o) == [pair |-> {u, o}, members |-> {u, o}, gone |-> {}]

\* r, after the departure of u.
Departed(r, u) == [pair    |-> r.pair,
                   members |-> r.members \ {u},
                   gone    |-> r.gone \cup (r.members \cap {u})]

\* There may be conversations from before.
ChatInit ==
  /\ \A c \in Conv : chat[c] = NoChat
                       \/ \E u, o \in User : u # o /\ chat[c] = Fresh(u, o)
  /\ \A c, d \in Conv : chat[c].pair = chat[d].pair => c = d \/ chat[c] = NoChat
  /\ answers = {}

\* The first of the two to ask finds no conversation.
Found(c, u, o) ==
  /\ u # o /\ chat[c] = NoChat
  /\ \A d \in Conv : chat[d].pair # {u, o}
  /\ chat' = [chat EXCEPT ![c] = Fresh(u, o)]
  /\ answers' = answers \cup {<<u, o, c>>}

Answer(c, u, o) ==
  /\ chat[c].pair = {u, o}
  /\ answers' = answers \cup {<<u, o, c>>}
  /\ UNCHANGED chat

Leave(c, u) ==
  /\ u \in chat[c].members
  /\ chat' = [chat EXCEPT ![c] = Departed(chat[c], u)]
  /\ UNCHANGED answers

\* The account of u is deleted.
Erase(u) ==
  /\ chat' = [c \in Conv |-> Departed(chat[c], u)]
  /\ UNCHANGED answers

ChatNext ==
  \/ \E c \in Conv, u, o \in User : Found(c, u, o) \/ Answer(c, u, o)
  \/ \E c \in Conv, u \in User : Leave(c, u)
  \/ \E u \in User : Erase(u)

ChatLifeSpec == ChatInit /\ [][ChatNext]_<<chat, answers>>
==============================================================================
