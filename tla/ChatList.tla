------------------------------ MODULE ChatList ------------------------------
(***************************************************************************)
(* What the chat list shows of a conversation: the count of unread         *)
(* messages and the last message                                           *)
(* (app/api/v1/endpoints/conversations.py).  list_conversations, and the   *)
(* answers to a create and to a change of preferences, read them in        *)
(* statements of their own, while messages are sent, read, or deleted with *)
(* the account of their sender.  created_at is drawn before a row is committed; the times *)
(* 1, 2, ... in the order they are drawn name the messages.                *)
(***************************************************************************)
EXTENDS Integers

CONSTANTS
  MaxMails,  \* bound on the messages sent
  Own        \* those that the reader sends

ASSUME ChatListAssumption == MaxMails \in Nat /\ Own \subseteq 1 .. MaxMails

VARIABLES
  mail,      \* mail[m]: the send of m, or its row: read_at NULL ("unread") or not
  line       \* the request of the reader, and what it has read

chatListVars == <<mail, line>>

------------------------------------------------------------------------------
Mail == 1 .. MaxMails
Rows == {m \in Mail : mail[m] \in {"unread", "read"}}

\* pc: the statement to run next ("count", "last"), "answered" or "idle".  list: for
\* list_conversations, and not for the answer about one conversation.
\* counted: the messages that the count stands for.  last: 0 shows no message.
NoLine == [pc |-> "idle", list |-> FALSE, counted |-> {}, last |-> 0]

ChatListInit ==
  /\ mail = [m \in Mail |-> "none"]
  /\ line = NoLine

------------------------------------------------------------------------------
(* The messages. *)

\* _handle_message builds a row with the present time,
Compose(m) ==
  /\ mail[m] = "none" /\ \A k \in Mail : k < m => mail[k] # "none"
  /\ mail' = [mail EXCEPT ![m] = "composed"]
  /\ UNCHANGED line

\* and commits it, or fails: a row may appear behind a newer one.
Deliver(m) ==
  /\ mail[m] = "composed"
  /\ mail' = [mail EXCEPT ![m] = "unread"] \/ mail' = [mail EXCEPT ![m] = "gone"]
  /\ UNCHANGED line

\* _handle_receipt sets read_at, in a batch.
MarkRead(M) ==
  /\ M # {} /\ \A m \in M : mail[m] = "unread"
  /\ mail' = [m \in Mail |-> IF m \in M THEN "read" ELSE mail[m]]
  /\ UNCHANGED line

\* delete_user_by_id of the other one: all their messages go, and those in flight fail.
DeleteSender ==
  /\ \E m \in Mail \ Own : mail[m] # "gone"
  /\ mail' = [m \in Mail |-> IF m \in Own THEN mail[m] ELSE "gone"]
  /\ UNCHANGED line

------------------------------------------------------------------------------
(* The two readers. *)

\* list_conversations counts first, _hydrate_conversation last.  (Mutant: always last.)
LastFirst(list) == "last"
FirstRead(list) == IF list THEN "count" ELSE "last"

AfterRead(pc) ==
  IF pc # FirstRead(line.list) THEN "answered"
  ELSE CHOOSE next \in {"count", "last"} : next # pc

\* The conversation is found: the reader is in it now, and may leave at any time.
OpenChats(list) ==
  /\ line.pc = "idle"
  /\ line' = [NoLine EXCEPT !.pc = FirstRead(list), !.list = list]
  /\ UNCHANGED mail

\* The rows of others without read_at; the hide set of the reader plays no part.
CountUnread ==
  /\ line.pc = "count"
  /\ line' = [line EXCEPT !.pc = AfterRead("count"),
                          !.counted = {m \in Mail \ Own : mail[m] = "unread"}]
  /\ UNCHANGED mail

\* The newest row, hidden or not.
ReadLast ==
  /\ line.pc = "last"
  /\ \E m \in Rows \cup {0} :
       /\ \A k \in Rows : k <= m
       /\ line' = [line EXCEPT !.pc = AfterRead("last"), !.last = m]
  /\ UNCHANGED mail

AnswerChats ==
  /\ line.pc = "answered"
  /\ line' = NoLine
  /\ UNCHANGED mail

ChatListNext ==
  \/ \E m \in Mail : Compose(m) \/ Deliver(m)
  \/ \E M \in SUBSET Mail : MarkRead(M)
  \/ DeleteSender
  \/ \E list \in BOOLEAN : OpenChats(list)
  \/ CountUnread \/ ReadLast \/ AnswerChats

ChatListSpec == ChatListInit /\ [][ChatListNext]_chatListVars

------------------------------------------------------------------------------
\* list_conversations: the chat list counts no unread message that is newer than the
\* last message it shows (an empty chat with a badge, a badge for what the preview does
\* not know), unless the message was deleted with its sender in between.
ListCoherent ==
  line.pc = "answered" /\ line.list =>
    \A m \in line.counted : m > line.last => mail[m] = "gone"
==============================================================================
