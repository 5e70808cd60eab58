-------------------------------- MODULE Media --------------------------------
(***************************************************************************)
(* The life of the encrypted attachments: the media_blobs rows, the files  *)
(* of LocalFileStorage and whatever refers to them, messages and avatars.  *)
(* Rows and files are changed by uploads, sends, delete-for-everyone,      *)
(* account deletion and the hourly sweep, each in a job of its own: a      *)
(* transaction that commits as its last step, and file operations that no  *)
(* transaction rolls back.                                                 *)
(***************************************************************************)
EXTENDS Naturals, FiniteSets

CONSTANTS
  User, Blob, Message,
  Task,      \* requests and message frames in flight
  Sweeper,   \* maintenance loops, one per process
  MayRefuse, \* whether the storage may fail to remove a file
  NoUser, NoBlob, NoMessage

ASSUME NoneAssumption ==
  NoUser \notin User /\ NoBlob \notin Blob /\ NoMessage \notin Message
ASSUME JobAssumption == Task \cap Sweeper = {}
ASSUME MayRefuseAssumption == MayRefuse \in BOOLEAN

VARIABLES
  users,    \* accounts that exist
  avatar,   \* users.profile_picture_key: text, not a foreign key
  blob,     \* media_blobs
  message,  \* messages_metadata: sender and media_blob_id
  files,    \* blobs with a file in MEDIA_LOCAL_PATH
  job,      \* the request of each task, the pass of each sweeper
  \* History variables; no action reads them.
  torn,     \* blobs whose deletion failed after it had removed the file
  escaped   \* blobs whose file was written too late to be removed, or was stuck

dbVars  == <<users, avatar, blob, message>>
history == <<torn, escaped>>
vars    == <<dbVars, files, job, history>>

Job == Task \cup Sweeper

------------------------------------------------------------------------------
\* age: 0, 1 past ABANDONED_BLOB_MAX_AGE, 2 past UNREFERENCED_BLOB_MAX_AGE.
BlobRow == [status : {"none", "reserved", "uploaded"},
            owner : User \cup {NoUser}, age : 0..2]
NoRow == [status |-> "none", owner |-> NoUser, age |-> 0]

MessageRow == [status : {"none", "live", "wiped", "purged"},
               sender : User \cup {NoUser}, media : Blob \cup {NoBlob}]
Unsent == [status |-> "none", sender |-> NoUser, media |-> NoBlob]

\* doomed: rows to delete when the job commits.  todo: files still to remove,
\* or, before the sweep has read the avatars, the candidates left.  used: the
\* uses there were when the sweep chose its candidates, and ever since.
JobState == [pc : {"idle", "stream", "written", "insert", "wipe", "wiping",
                   "deleting", "abandoned", "referenced", "avatars", "orphans"},
             user : User \cup {NoUser}, blob : Blob \cup {NoBlob},
             message : Message \cup {NoMessage},
             doomed : SUBSET Blob, todo : SUBSET Blob,
             used : SUBSET (Blob \X {"message", "avatar"})]
Idle == [pc |-> "idle", user |-> NoUser, blob |-> NoBlob, message |-> NoMessage,
         doomed |-> {}, todo |-> {}, used |-> {}]

Row(b) == blob[b].status # "none"
Live(m) == message[m].status = "live"
Referenced == {message[m].media : m \in Message} \ {NoBlob}
Avatars == {avatar[u] : u \in users} \ {NoBlob}

\* The types, and the foreign keys.
TypeOK ==
  /\ users \subseteq User
  /\ avatar \in [User -> Blob \cup {NoBlob}]
  /\ blob \in [Blob -> BlobRow]
  /\ message \in [Message -> MessageRow]
  /\ files \subseteq Blob
  /\ job \in [Job -> JobState]
  /\ torn \subseteq Blob /\ escaped \subseteq Blob
  /\ \A b \in Blob : blob[b].owner \in users \cup {NoUser}
  /\ \A m \in Message : Live(m) => message[m].sender \in users
  /\ \A b \in Referenced : Row(b)

Init ==
  /\ users = User
  /\ avatar = [u \in User |-> NoBlob]
  /\ blob = [b \in Blob |-> NoRow]
  /\ message = [m \in Message |-> Unsent]
  /\ files = {}
  /\ job = [p \in Job |-> Idle]
  /\ torn = {} /\ escaped = {}

------------------------------------------------------------------------------
Begin(p, r) == job[p].pc = "idle" /\ job' = [job EXCEPT ![p] = r]

\* The uses of the blobs by messages and by the avatars of users.
Uses(msgs, keys, accounts) ==
  {<<msgs[m].media, "message">> : m \in {n \in Message : msgs[n].media # NoBlob}}
    \cup {<<keys[u], "avatar">> : u \in {v \in accounts : keys[v] # NoBlob}}

\* The jobs, when only the uses of U are left.
StillUsed(U) == [p \in Job |-> [job[p] EXCEPT !.used = @ \cap U]]
End(p, U) == job' = [StillUsed(U) EXCEPT ![p] = Idle]

\* The rows that are left when those of D are deleted, and the messages: their
\* references are set to NULL.
Without(D) == [b \in Blob |-> IF b \in D THEN NoRow ELSE blob[b]]
Detached(D) == [m \in Message |->
  IF message[m].media \in D THEN [message[m] EXCEPT !.media = NoBlob]
                            ELSE message[m]]

\* Files a deleting job has been through.
Removed(p) == IF job[p].pc \in {"wiping", "deleting", "abandoned", "orphans"}
              THEN job[p].doomed \ job[p].todo ELSE job[p].doomed

------------------------------------------------------------------------------
(* request_upload_url, upload_blob, update_me. *)

Reserve(u, b) ==
  /\ u \in users /\ blob[b].status = "none"
  /\ b \notin files \cup escaped \cup torn     \* uuid4: never drawn twice
  /\ \A p \in Job : b # job[p].blob /\ b \notin job[p].doomed
  /\ blob' = [blob EXCEPT ![b] = [status |-> "reserved", owner |-> u, age |-> 0]]
  /\ UNCHANGED <<users, avatar, message, files, job, history>>

UploadRead(t, u, b) ==
  /\ u \in users
  /\ blob[b].status = "reserved" /\ blob[b].owner = u
  /\ Begin(t, [Idle EXCEPT !.pc = "stream", !.user = u, !.blob = b])
  /\ UNCHANGED <<dbVars, files, history>>

\* The body has arrived; write_bytes renames it into place.
UploadWrite(t) ==
  LET b == job[t].blob
      late == ~Row(b) \/ \E p \in Job : b \in Removed(p)
  IN  /\ job[t].pc = "stream"
      /\ files' = files \cup {b}
      /\ job' = [job EXCEPT ![t].pc = "written"]
      /\ torn' = torn \ {b}
      /\ escaped' = IF late THEN escaped \cup {b} ELSE escaped
      /\ UNCHANGED dbVars

\* The UPDATE of a row that is gone raises: then the job can only fail.
UploadCommit(t) ==
  LET b == job[t].blob
  IN  /\ job[t].pc = "written" /\ Row(b)
      /\ blob' = [blob EXCEPT ![b].status = "uploaded"]
      /\ job' = [job EXCEPT ![t] = Idle]
      /\ UNCHANGED <<users, avatar, message, files, history>>

\* profile_picture_key takes any string: b is NoBlob when it names no blob.
SetAvatar(u, b) ==
  /\ u \in users
  /\ avatar' = [avatar EXCEPT ![u] = b]
  /\ job' = StillUsed(Uses(message, avatar', users))
  /\ UNCHANGED <<users, blob, message, files, history>>

------------------------------------------------------------------------------
(* _handle_message with a media_blob_id. *)

\* The blob is the sender's and has its bytes.  (Mutant: any reservation.)
OwnBlob(u, b) == Row(b) /\ blob[b].owner = u
Attachable(u, b) == blob[b].status = "uploaded" /\ blob[b].owner = u

SendRead(t, u, m, b) ==
  /\ u \in users
  /\ Attachable(u, b)
  /\ message[m].status = "none" /\ \A p \in Job : job[p].message # m
  /\ Begin(t, [Idle EXCEPT !.pc = "insert", !.user = u, !.blob = b, !.message = m])
  /\ UNCHANGED <<dbVars, files, history>>

\* The foreign keys of the row; without them the job can only fail.  (Mutant:
\* media_blob_id is none.)
SenderExists(t) == job[t].user \in users
Accepted(t) == Row(job[t].blob) /\ job[t].user \in users
SendCommit(t) ==
  /\ job[t].pc = "insert" /\ Accepted(t)
  /\ message' = [message EXCEPT ![job[t].message] =
                   [status |-> "live", sender |-> job[t].user, media |-> job[t].blob]]
  /\ job' = [job EXCEPT ![t] = Idle]
  /\ UNCHANGED <<users, avatar, blob, files, history>>

------------------------------------------------------------------------------
(* Deleting: rows when the job commits, files one at a time before that. *)

\* delete_message, scope "everyone".
WipeRead(t, u, m) ==
  /\ u \in users /\ Live(m) /\ message[m].sender = u
  /\ Begin(t, [Idle EXCEPT !.pc = "wipe", !.user = u, !.message = m,
                           !.blob = message[m].media])
  /\ UNCHANGED <<dbVars, files, history>>

\* The blob of the message.  (Mutant: its row is deleted, its file is not.)
WipeRow(t) ==
  /\ job[t].pc = "wipe"
  /\ job' = [job EXCEPT ![t].pc = "wiping",
                        ![t].doomed = {b \in Blob : b = job[t].blob /\ Row(b)}]
  /\ UNCHANGED <<dbVars, files, history>>
WipeBlob(t) ==
  LET doomed == {b \in Blob : b = job[t].blob /\ Row(b)}
  IN  /\ job[t].pc = "wipe"
      /\ job' = [job EXCEPT ![t].pc = "wiping", ![t].doomed = doomed,
                            ![t].todo = doomed]
      /\ UNCHANGED <<dbVars, files, history>>

WipeCommit(t) ==
  LET m == job[t].message
      rest == Detached(job[t].doomed)
      after == [rest EXCEPT ![m].status = "wiped", ![m].media = NoBlob]
  IN  /\ job[t].pc = "wiping" /\ job[t].todo = {}
      /\ message[m].status # "purged"     \* else the UPDATE finds no row
      /\ blob' = Without(job[t].doomed)
      /\ message' = after
      /\ End(t, Uses(after, avatar, users))
      /\ UNCHANGED <<users, avatar, files, history>>

\* delete_user_by_id.
AccountRead(t, u) ==
  LET owned == {b \in Blob : Row(b) /\ blob[b].owner = u}
  IN  /\ u \in users
      /\ Begin(t, [Idle EXCEPT !.pc = "deleting", !.user = u, !.doomed = owned,
                               !.todo = owned])
      /\ UNCHANGED <<dbVars, files, history>>

AccountCommit(t) ==
  LET u == job[t].user
      rest == Detached(job[t].doomed)
      left == Without(job[t].doomed)
      after == [m \in Message |->
                  IF message[m].sender = u
                  THEN [rest[m] EXCEPT !.status = "purged", !.sender = NoUser,
                                       !.media = NoBlob]
                  ELSE rest[m]]
  IN  /\ job[t].pc = "deleting" /\ job[t].todo = {}
      /\ users' = users \ {u}
      /\ avatar' = [avatar EXCEPT ![u] = NoBlob]
      /\ blob' = [b \in Blob |-> IF left[b].owner = u
                                 THEN [left[b] EXCEPT !.owner = NoUser]
                                 ELSE left[b]]
      /\ message' = after
      /\ End(t, Uses(after, avatar', users'))
      /\ UNCHANGED <<files, history>>

\* storage.delete_bytes.
Unlink(p, b) ==
  /\ job[p].pc \in {"wiping", "deleting", "abandoned", "orphans"}
  /\ b \in job[p].todo
  /\ files' = files \ {b}
  /\ job' = [job EXCEPT ![p].todo = @ \ {b}]
  /\ UNCHANGED <<dbVars, history>>

\* An account deletion logs a file it cannot remove, and goes on.
UnlinkFails(t, b) ==
  /\ MayRefuse
  /\ job[t].pc = "deleting"
  /\ b \in job[t].todo
  /\ job' = [job EXCEPT ![t].todo = @ \ {b}]
  /\ escaped' = escaped \cup {b}
  /\ UNCHANGED <<dbVars, files, torn>>

------------------------------------------------------------------------------
(* sweep_once. *)

\* Reservations past their age.  (Mutant: past the age of unreferenced blobs.)
LongAbandoned == {b \in Blob : blob[b].status = "reserved" /\ blob[b].age = 2}
Abandoned == {b \in Blob : blob[b].status = "reserved" /\ blob[b].age >= 1}
SweepAbandoned(p) ==
  /\ Begin(p, [Idle EXCEPT !.pc = "abandoned", !.doomed = Abandoned,
                           !.todo = Abandoned])
  /\ UNCHANGED <<dbVars, files, history>>

\* The candidates; those in use from here on have to be kept.
Candidates == {b \in Blob : blob[b].status = "uploaded" /\ blob[b].age = 2}
SweepCandidates(p) ==
  /\ job[p].pc = "abandoned" /\ job[p].todo = {}
  /\ job' = [job EXCEPT ![p].pc = "referenced", ![p].todo = Candidates,
               ![p].used = {x \in Uses(message, avatar, users) :
                              x[1] \in Candidates \ job[p].doomed}]
  /\ UNCHANGED <<dbVars, files, history>>

SweepReferenced(p) ==
  /\ job[p].pc = "referenced"
  /\ job' = [job EXCEPT ![p].pc = "avatars", ![p].todo = @ \ Referenced]
  /\ UNCHANGED <<dbVars, files, history>>

\* The candidates that are no avatar.  (Mutant: avatars are not looked at.)
Unreferenced(p) == job[p].todo
Orphans(p) == job[p].todo \ Avatars
SweepAvatars(p) ==
  /\ job[p].pc = "avatars"
  /\ job' = [job EXCEPT ![p].pc = "orphans", ![p].todo = Orphans(p),
                        ![p].doomed = @ \cup Orphans(p)]
  /\ UNCHANGED <<dbVars, files, history>>

SweepCommit(p) ==
  LET after == Detached(job[p].doomed)
  IN  /\ job[p].pc = "orphans" /\ job[p].todo = {}
      /\ blob' = Without(job[p].doomed)
      /\ message' = after
      /\ End(p, Uses(after, avatar, users))
      /\ UNCHANGED <<users, avatar, files, history>>

------------------------------------------------------------------------------
\* A job fails anywhere: the transaction rolls back, the files do not.
Fail(p) ==
  /\ job[p].pc # "idle"
  /\ torn' = torn \cup {b \in job[p].doomed : Row(b) /\ b \notin files}
  /\ job' = [job EXCEPT ![p] = Idle]
  /\ UNCHANGED <<dbVars, files, escaped>>

\* Time passes for a row.
Age(b) ==
  /\ Row(b) /\ blob[b].age < 2
  /\ blob' = [blob EXCEPT ![b].age = @ + 1]
  /\ UNCHANGED <<users, avatar, message, files, job, history>>

TaskNext(t) ==
  \/ \E u \in User, b \in Blob :
       UploadRead(t, u, b) \/ \E m \in Message : SendRead(t, u, m, b)
  \/ UploadWrite(t) \/ UploadCommit(t) \/ SendCommit(t)
  \/ \E u \in User, m \in Message : WipeRead(t, u, m)
  \/ WipeBlob(t) \/ WipeCommit(t)
  \/ \E u \in User : AccountRead(t, u)
  \/ AccountCommit(t)
  \/ \E b \in Blob : Unlink(t, b) \/ UnlinkFails(t, b)
  \/ Fail(t)

SweepNext(p) ==
  \/ SweepAbandoned(p) \/ SweepCandidates(p) \/ SweepReferenced(p)
  \/ SweepAvatars(p) \/ SweepCommit(p)
  \/ \E b \in Blob : Unlink(p, b)
  \/ Fail(p)

Next ==
  \/ \E t \in Task : TaskNext(t)
  \/ \E p \in Sweeper : SweepNext(p)
  \/ \E u \in User, b \in Blob : Reserve(u, b)
  \/ \E u \in User, b \in Blob \cup {NoBlob} : SetAvatar(u, b)
  \/ \E b \in Blob : Age(b)

Spec == Init /\ [][Next]_vars

\* run_maintenance_loop sweeps for ever, an hour apart.  A pass that fails is
\* tried again; no step of it fails every time.
Fairness ==
  \A p \in Sweeper :
    /\ SF_vars(SweepAbandoned(p)) /\ SF_vars(SweepCandidates(p))
    /\ SF_vars(SweepReferenced(p)) /\ SF_vars(SweepAvatars(p))
    /\ SF_vars(SweepCommit(p))
    /\ \A b \in Blob : SF_vars(Unlink(p, b))

FairSpec == Spec /\ Fairness

------------------------------------------------------------------------------
(* Safety. *)

\* A message's attachment can be fetched: its blob is uploaded and the file is
\* there, unless a deletion is under way or failed half-way.
AttachmentReadable ==
  \A b \in Referenced :
    /\ blob[b].status = "uploaded"
    /\ b \in files \cup torn \/ \E p \in Job : b \in job[p].doomed

\* A file without a row, which nothing will ever remove, is left behind only by
\* an upload that wrote it after its deletion, or by a storage that refused.
StrayFilesExplained ==
  \A b \in files : Row(b) \/ b \in escaped

\* A blob that messages referred to all along, from the choice of the candidates
\* on, or that was somebody's avatar all along, is not removed by the sweep,
\* unless it had already been taken for an abandoned reservation (sweep_once).
UsedMediaKept ==
  \A p \in Sweeper : job[p].pc = "orphans" =>
    \A use \in job[p].used : use[1] \notin job[p].doomed

(* Liveness. *)

\* "Both the DB row and any stray ciphertext file are removed": a reservation
\* past its age does not stay for ever.
AbandonedSwept ==
  \A b \in Blob : (blob[b].status = "reserved" /\ blob[b].age >= 1)
                    ~> (blob[b].status # "reserved")
==============================================================================
