------------------------------- MODULE CallLog -------------------------------
(***************************************************************************)
(* The call history: create and update of a call                           *)
(* (app/api/v1/endpoints/calls.py, app/db/models/call.py) and the pass of  *)
(* the hourly sweep that closes stale calls                                *)
(* (app/services/maintenance.py).  A PATCH reads the row, decides, and     *)
(* writes later; nothing locks the row in between.                         *)
(***************************************************************************)
EXTENDS Requests

CONSTANTS
  Call,      \* call ids
  Party,     \* <<caller, callee>> pairs that share a conversation
  Time,      \* times that clients send
  Sends,     \* end reasons that clients send
  Never,     \* NULL
  Swept,     \* the time the sweep writes
  MaxWrites  \* bound on the PATCH requests counted by writes

ASSUME CallLogAssumption ==
  /\ Party \subseteq User \X User /\ \A p \in Party : p[1] # p[2]
  /\ Sends \subseteq {"missed", "completed", "other"}
  /\ Never \notin Time /\ Swept \notin Time /\ Never # Swept
  /\ MaxWrites \in Nat

VARIABLES
  call,      \* call[c]: the row of call c
  blocks,    \* blocked_users: <<blocker, blocked>>
  stale,     \* calls that started more than STALE_CALL_MAX_AGE ago
  patch,     \* patch[t]: the request that task t serves
  \* History variables; no action reads phantom, and writes only bounds itself.
  phantom,   \* calls created by a request during all of which a block was in force
  writes     \* writes[c]: times ended_at was written

callLogVars == <<call, blocks, stale, patch, phantom, writes>>

------------------------------------------------------------------------------
Reason == {"none", "missed", "completed", "other"}
Maybe == Time \cup {Never}

CallRow == [live : BOOLEAN, caller : User \cup {NoUser}, callee : User \cup {NoUser},
            accepted : Maybe, ended : Maybe \cup {Swept}, reason : Reason]
NoCall == [live |-> FALSE, caller |-> NoUser, callee |-> NoUser,
           accepted |-> Never, ended |-> Never, reason |-> "none"]

\* What a PATCH will write: Never and "none" for the columns it leaves alone.
Patch == [pc : {"idle", "blocks", "insert", "write"}, from : User \cup {NoUser},
          to : User \cup {NoUser}, call : Call \cup {Never},
          accepted : Maybe, ended : Maybe, reason : Reason, blocked : BOOLEAN]
NoPatch == [pc |-> "idle", from |-> NoUser, to |-> NoUser, call |-> Never,
            accepted |-> Never, ended |-> Never, reason |-> "none", blocked |-> FALSE]

\* The types; a call that the sweep closed has a reason.
CallLogTypeOK ==
  /\ call \in [Call -> CallRow]
  /\ blocks \subseteq User \X User
  /\ \A c \in Call : call[c].ended = Swept => call[c].reason # "none"
  /\ stale \subseteq {c \in Call : call[c].live}
  /\ patch \in [Task -> Patch]
  /\ \A t \in Task : patch[t].pc = "write" => patch[t].call \in Call
  /\ phantom \subseteq Call /\ writes \in [Call -> Nat]

CallLogInit ==
  /\ call = [c \in Call |-> NoCall]
  /\ blocks = {} /\ stale = {}
  /\ patch = [t \in Task |-> NoPatch]
  /\ phantom = {} /\ writes = [c \in Call |-> 0]

------------------------------------------------------------------------------
(* Pieces of the handlers. *)

PatchStarts(t, r) == patch[t].pc = "idle" /\ patch' = [patch EXCEPT ![t] = r]
PatchEnds(t) == patch' = [patch EXCEPT ![t] = NoPatch]

\* blocks_exist_between: in either direction.  (Mutant: the caller's only.)
OwnBlock(u, v) == <<u, v>> \in blocks
BlockedBetween(u, v) == {<<u, v>>, <<v, u>>} \cap blocks # {}

\* A column is written only if the row that was read has none.  (Mutant: always.)
Overwritten(old, new) == new
SetOnce(old, new) == IF old = Never THEN new ELSE Never

\* The calls that the sweep closes: not ended and old.  (Mutant: accepted ones
\* stay open.)
NeverAnswered == {c \in stale : call[c].ended = Never /\ call[c].accepted = Never}
Stale == {c \in stale : call[c].ended = Never}

\* The reason the sweep writes.  (Mutant: none.)
NoReason(c) == call[c].reason
SweptReason(c) == IF call[c].accepted = Never THEN "missed" ELSE "completed"

------------------------------------------------------------------------------
(* create_call. *)

\* Both are participants of the conversation.
CreateCall(t, p) ==
  /\ PatchStarts(t, [NoPatch EXCEPT !.pc = "blocks", !.from = p[1], !.to = p[2],
                       !.blocked = {<<p[1], p[2]>>, <<p[2], p[1]>>} \cap blocks # {}])
  /\ UNCHANGED <<call, blocks, stale, phantom, writes>>

CheckBlocks(t) ==
  /\ patch[t].pc = "blocks"
  /\ \/ /\ BlockedBetween(patch[t].from, patch[t].to)
        /\ PatchEnds(t)
     \/ /\ ~BlockedBetween(patch[t].from, patch[t].to)
        /\ patch' = [patch EXCEPT ![t].pc = "insert"]
  /\ UNCHANGED <<call, blocks, stale, phantom, writes>>

InsertCall(t) ==
  /\ patch[t].pc = "insert"
  /\ \E c \in Call :
       /\ ~call[c].live
       /\ call' = [call EXCEPT ![c] = [NoCall EXCEPT !.live = TRUE,
                                        !.caller = patch[t].from, !.callee = patch[t].to]]
       /\ phantom' = IF patch[t].blocked THEN phantom \cup {c} ELSE phantom
  /\ PatchEnds(t)
  /\ UNCHANGED <<blocks, stale, writes>>

------------------------------------------------------------------------------
(* update_call. *)

\* A party sends any subset of the columns; those the row has already are
\* skipped, and only the callee accepts.
PatchRead(t, c, u, accepted, ended, reason) ==
  LET row == call[c]
  IN  /\ row.live /\ u \in {row.caller, row.callee} \ {NoUser}
      /\ ended # Never => writes[c] < MaxWrites
      /\ PatchStarts(t, [NoPatch EXCEPT
           !.pc = "write", !.from = u, !.call = c,
           !.accepted = IF u = row.callee THEN SetOnce(row.accepted, accepted) ELSE Never,
           !.ended = SetOnce(row.ended, ended),
           !.reason = IF row.reason = "none" THEN reason ELSE "none"])
      /\ UNCHANGED <<call, blocks, stale, phantom, writes>>

\* The UPDATE sets the columns that changed, whatever they are by now.
PatchWrite(t) ==
  LET r == patch[t]
      row == call[r.call]
      Written(old, new) == IF new = Never THEN old ELSE new
  IN  /\ r.pc = "write"
      /\ call' = [call EXCEPT ![r.call] =
           [row EXCEPT !.accepted = Written(row.accepted, r.accepted),
                       !.ended = Written(row.ended, r.ended),
                       !.reason = IF r.reason = "none" THEN row.reason ELSE r.reason]]
      /\ writes' = IF r.ended = Never THEN writes ELSE [writes EXCEPT ![r.call] = @ + 1]
      /\ PatchEnds(t)
      /\ UNCHANGED <<blocks, stale, phantom>>

------------------------------------------------------------------------------
\* sweep_once: a stale call that nobody answered was missed, the others are
\* completed.  The two UPDATEs lock the rows they match until the one commit.
SweepCalls ==
  /\ Stale # {}
  /\ call' = [c \in Call |->
                IF c \notin Stale THEN call[c]
                ELSE [call[c] EXCEPT !.ended = Swept,
                        !.reason = SweptReason(c)]]
  /\ writes' = [c \in Call |-> writes[c] + IF c \in Stale THEN 1 ELSE 0]
  /\ UNCHANGED <<blocks, stale, patch, phantom>>

\* Two hours pass.
Grows(c) ==
  /\ call[c].live /\ c \notin stale
  /\ stale' = stale \cup {c}
  /\ UNCHANGED <<call, blocks, patch, phantom, writes>>

BlockCaller(p) ==
  /\ p \notin blocks
  /\ blocks' = blocks \cup {p}
  /\ UNCHANGED <<call, stale, patch, phantom, writes>>

\* (History: a create that sees its last block go is no longer blocked.)
UnblockCaller(p) ==
  /\ p \in blocks
  /\ blocks' = blocks \ {p}
  /\ patch' = [t \in Task |->
       [patch[t] EXCEPT !.blocked =
          @ /\ {<<patch[t].from, patch[t].to>>, <<patch[t].to, patch[t].from>>}
                 \cap (blocks \ {p}) # {}]]
  /\ UNCHANGED <<call, stale, phantom, writes>>

\* The foreign keys of a deleted account become NULL.
DeleteParty(u) ==
  /\ \E c \in Call : u \in {call[c].caller, call[c].callee}
  /\ call' = [c \in Call |->
       [call[c] EXCEPT !.caller = IF @ = u THEN NoUser ELSE @,
                       !.callee = IF @ = u THEN NoUser ELSE @]]
  /\ UNCHANGED <<blocks, stale, patch, phantom, writes>>

PatchFails(t) ==
  /\ patch[t].pc # "idle"
  /\ PatchEnds(t)
  /\ UNCHANGED <<call, blocks, stale, phantom, writes>>

CallLogNext ==
  \/ \E t \in Task :
       \/ \E p \in Party : CreateCall(t, p)
       \/ CheckBlocks(t) \/ InsertCall(t)
       \/ \E c \in Call, u \in User, a \in Maybe, e \in Maybe, r \in Sends \cup {"none"} :
            PatchRead(t, c, u, a, e, r)
       \/ PatchWrite(t) \/ PatchFails(t)
  \/ \E p \in Party : BlockCaller(p) \/ UnblockCaller(p)
  \/ SweepCalls
  \/ \E c \in Call : Grows(c)
  \/ \E u \in User : DeleteParty(u)

\* Time passes, and the maintenance loop sweeps again after a pass that failed.
CallLogFairness ==
  /\ WF_callLogVars(SweepCalls)
  /\ \A c \in Call : WF_callLogVars(Grows(c))

CallLogSpec == CallLogInit /\ [][CallLogNext]_callLogVars /\ CallLogFairness

------------------------------------------------------------------------------
(* Safety and liveness. *)

\* create_call: a block either way means no call, so no row appears for one that
\* was blocked from the first check to the insert.
NoPhantomCall == phantom = {}

\* update_call and the sweep: ended_at is written again only by the requests that
\* had read the row before the first write.
EndedBound == \A c \in Call : writes[c] <= Cardinality(Task) + 1

\* maintenance.py: no call is shown as in progress for ever.
CallsClosed == \A c \in Call : call[c].live ~> call[c].ended # Never
==============================================================================
