------------------------------- MODULE History -------------------------------
(***************************************************************************)
(* The history of a conversation: a member pages through it with           *)
(* GET /conversations/{id}/messages, newest first, following next_cursor,  *)
(* while messages are sent, hidden from this member ("delete for me"), or  *)
(* deleted with the account of their sender                                *)
(* (app/api/v1/endpoints/conversations.py and messages.py).  created_at is *)
(* drawn before the row is committed; the times are 1, 2, ... in the order *)
(* they are drawn, and name the messages.                                  *)
(***************************************************************************)
EXTENDS Integers, FiniteSets

CONSTANTS
  MaxMessages,  \* bound on the messages sent
  PageLimit     \* limit

ASSUME HistoryAssumption == MaxMessages \in Nat /\ PageLimit \in Nat \ {0}

VARIABLES
  post,     \* post[m]: the send of m, or its row
  hidden,   \* the messages in the hide set of the member
  member,   \* the participant row of the member
  walk,     \* the request for a page, and what its walk has returned so far
  \* History variables; no action reads them.
  ahead,    \* messages stored and not hidden when the walk began, and since
  twice     \* messages that the walk returned more than once

historyVars == <<post, hidden, member, walk, ahead, twice>>

------------------------------------------------------------------------------
Posted == 1 .. MaxMessages
NoCursor == MaxMessages + 1     \* every message is older

Walk == [pc : {"idle", "ask", "rows", "done"}, cursor : 1 .. NoCursor,
         rows : SUBSET Posted, got : SUBSET Posted]
NoWalk == [pc |-> "idle", cursor |-> NoCursor, rows |-> {}, got |-> {}]

StoredPosts == {m \in Posted : post[m] = "stored"}

\* The types, and the size of a page.
HistoryTypeOK ==
  /\ post \in [Posted -> {"none", "drawn", "stored", "gone"}]
  /\ hidden \subseteq Posted /\ member \in BOOLEAN
  /\ walk \in Walk /\ Cardinality(walk.rows) <= PageLimit
  /\ ahead \subseteq Posted /\ twice \subseteq Posted

HistoryInit ==
  /\ post = [m \in Posted |-> "none"]
  /\ hidden = {} /\ member = TRUE
  /\ walk = NoWalk
  /\ ahead = {} /\ twice = {}

------------------------------------------------------------------------------
(* The sends, and what takes messages away. *)

\* _handle_message builds a row with the present time,
Draw(m) ==
  /\ post[m] = "none" /\ \A k \in Posted : k < m => post[k] # "none"
  /\ post' = [post EXCEPT ![m] = "drawn"]
  /\ UNCHANGED <<hidden, member, walk, ahead, twice>>

\* and commits it, or fails: a row may appear behind a newer one.
Store(m) ==
  /\ post[m] = "drawn"
  /\ \/ post' = [post EXCEPT ![m] = "stored"]
     \/ post' = [post EXCEPT ![m] = "gone"]
  /\ UNCHANGED <<hidden, member, walk, ahead, twice>>

\* delete_message with scope "me", by the member on another device.
Hide(m) ==
  /\ member /\ post[m] = "stored" /\ m \notin hidden
  /\ hidden' = hidden \cup {m}
  /\ ahead' = ahead \ {m}
  /\ UNCHANGED <<post, member, walk, twice>>

\* delete_user_by_id: the messages of the account go, and their hide rows.
Purge(m) ==
  /\ post[m] = "stored"
  /\ post' = [post EXCEPT ![m] = "gone"]
  /\ hidden' = hidden \ {m}
  /\ ahead' = ahead \ {m}
  /\ UNCHANGED <<member, walk, twice>>

\* leave_conversation, or its undoing by a new pairing.
LeaveOrRejoin ==
  /\ member' = ~member
  /\ UNCHANGED <<post, hidden, walk, ahead, twice>>

------------------------------------------------------------------------------
(* list_messages. *)

\* The newest rows before the cursor.  (Mutant: one too many.)
OneMore(cursor) ==
  {m \in StoredPosts : m < cursor
     /\ Cardinality({k \in StoredPosts : m < k /\ k < cursor}) <= PageLimit}
PageRows(cursor) ==
  {m \in StoredPosts : m < cursor
     /\ Cardinality({k \in StoredPosts : m < k /\ k < cursor}) < PageLimit}

\* The rows that tell whether there is more, and where it begins.  (Mutant:
\* without the hidden ones.)
ShownTail == walk.rows \ hidden
RawTail == walk.rows

\* The member, who may be an old one, opens the conversation.
Open ==
  /\ walk.pc \in {"idle", "done"}
  /\ walk' = [NoWalk EXCEPT !.pc = "ask"]
  /\ ahead' = StoredPosts \ hidden
  /\ twice' = {}
  /\ UNCHANGED <<post, hidden, member>>

\* The participant row is checked, then the rows are read.
ReadRows ==
  /\ walk.pc = "ask"
  /\ \/ /\ member
        /\ walk' = [walk EXCEPT !.pc = "rows", !.rows = PageRows(walk.cursor)]
        /\ UNCHANGED <<ahead, twice>>
     \/ /\ ~member
        /\ walk' = NoWalk /\ ahead' = {} /\ twice' = {}
  /\ UNCHANGED <<post, hidden, member>>

\* The hide set is read for these rows; the next cursor is the oldest of them if
\* the page is full.
AnswerPage ==
  LET shown == walk.rows \ hidden
      full == Cardinality(RawTail) = PageLimit
  IN  /\ walk.pc = "rows"
      /\ twice' = twice \cup (shown \cap walk.got)
      /\ \/ /\ full
            /\ \E oldest \in RawTail :
                 /\ \A m \in RawTail : oldest <= m
                 /\ walk' = [pc |-> "ask", cursor |-> oldest, rows |-> {},
                             got |-> walk.got \cup shown]
         \/ /\ ~full
            /\ walk' = [walk EXCEPT !.pc = "done", !.rows = {}, !.got = @ \cup shown]
      /\ UNCHANGED <<post, hidden, member, ahead>>

HistoryNext ==
  \/ \E m \in Posted : Draw(m) \/ Store(m) \/ Hide(m) \/ Purge(m)
  \/ LeaveOrRejoin
  \/ Open \/ ReadRows \/ AnswerPage

HistorySpec == HistoryInit /\ [][HistoryNext]_historyVars

------------------------------------------------------------------------------
\* list_messages: a walk that follows next_cursor to its end returns every message
\* that was there when it began and is neither hidden nor deleted meanwhile, and
\* none twice, whatever is sent, hidden or deleted on the way.
WalkComplete ==
  /\ twice = {}
  /\ walk.pc = "done" => ahead \subseteq walk.got
==============================================================================
