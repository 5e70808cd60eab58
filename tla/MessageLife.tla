----------------------------- MODULE MessageLife -----------------------------
(***************************************************************************)
(* What the chat server promises about one stored message, whatever the    *)
(* sockets, requests and background tasks around it do.  A message is      *)
(* written once, its ticks only move forward (sent, delivered, read), a    *)
(* message wiped for everyone never gets its payload back, and a row that  *)
(* an account deletion removed never comes back.  Module Messaging         *)
(* implements this specification.                                          *)
(***************************************************************************)
CONSTANT Message

VARIABLE life   \* life[m]: the stored row of m, as its readers can see it

Status == {"none", "live", "wiped", "purged"}
Unsent == [status |-> "none", delivered |-> FALSE, read |-> FALSE]

LifeType ==
  life \in [Message -> [status : Status, delivered : BOOLEAN, read : BOOLEAN]]

Stored(m) == life[m].status \in {"live", "wiped"}

\* The conversation may have a history that nobody has received yet.
LifeInit == life \in [Message -> {Unsent, [Unsent EXCEPT !.status = "live"]}]

Send(m) ==
  /\ life[m].status = "none"
  /\ life' = [life EXCEPT ![m].status = "live"]

\* One receipt frame moves a batch of ticks forward in one transaction.
Ack(D, R) ==
  /\ \A m \in D \cup R : Stored(m)
  /\ \A m \in R : life[m].delivered \/ m \in D
  /\ life' = [m \in Message |->
                [status    |-> life[m].status,
                 delivered |-> life[m].delivered \/ m \in D,
                 read      |-> life[m].read \/ m \in R]]

Wipe(m) ==
  /\ Stored(m)
  /\ life' = [life EXCEPT ![m].status = "wiped"]

\* Deleting an account removes every message it sent.
Purge(M) ==
  /\ \A m \in M : Stored(m)
  /\ life' = [m \in Message |->
                IF m \in M THEN [life[m] EXCEPT !.status = "purged"]
                           ELSE life[m]]

LifeNext ==
  \/ \E m \in Message : Send(m) \/ Wipe(m)
  \/ \E D, R \in SUBSET Message : Ack(D, R)
  \/ \E M \in SUBSET Message : Purge(M)

LifeSpec == LifeInit /\ [][LifeNext]_life
==============================================================================
