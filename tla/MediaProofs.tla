------------------------------ MODULE MediaProofs ------------------------------
(***************************************************************************)
(* Theorems about the attachments, for any users, blobs, messages, jobs in *)
(* flight and sweepers, and whether or not the storage refuses to remove.  *)
(***************************************************************************)
EXTENDS Media, TLAPS

------------------------------------------------------------------------------
(* The invariant. *)

Removing == {"wiping", "deleting", "abandoned", "orphans"}
Sweeping == {"referenced", "avatars", "orphans"}

\* What each step of a job has in hand.
JobInv(p) ==
  /\ job[p].pc = "idle" => job[p] = Idle
  /\ job[p].pc \in {"stream", "written", "insert"} => job[p].blob \in Blob
  /\ job[p].pc \in {"insert", "wipe", "wiping"} => job[p].message \in Message
  /\ job[p].pc = "deleting" => job[p].user \in User
  /\ job[p].pc \in {"idle", "stream", "written", "insert", "wipe"} => job[p].doomed = {}
  /\ job[p].pc \in Removing => job[p].todo \subseteq job[p].doomed

\* A message about to be committed is nobody else's, and its blob, if there
\* still is one, has its bytes.
SendInv(p) ==
  job[p].pc = "insert" =>
    /\ blob[job[p].blob].status # "reserved"
    /\ message[job[p].message] = Unsent
    /\ \A q \in Job \ {p} : job[q].message # job[p].message

\* What a sweep knows to be in use still is, and is not doomed.
SweepInv(p) ==
  job[p].pc \in Sweeping =>
    /\ job[p].used \subseteq Uses(message, avatar, users)
    /\ \A x \in job[p].used : x[1] \notin job[p].doomed
    /\ job[p].pc = "avatars" =>
         \A x \in job[p].used : x[2] = "message" => x[1] \notin job[p].todo

\* The file is there, or a deletion that will take the row has removed it.
Covered(b) == b \in files \cup torn \/ \E p \in Job : b \in job[p].doomed

FileInv ==
  /\ \A b \in Blob : blob[b].status = "uploaded" => Covered(b)
  /\ \A p \in Job : job[p].pc = "written" /\ Row(job[p].blob) => Covered(job[p].blob)
  /\ \A b \in files : Row(b) \/ b \in escaped
  /\ \A p \in Job : files \cap Removed(p) \subseteq escaped

UseInv ==
  \A m \in Message :
    /\ message[m].media # NoBlob => blob[message[m].media].status = "uploaded"
    /\ message[m].status = "none" => message[m] = Unsent

JobsInv == \A p \in Job : JobInv(p) /\ SendInv(p) /\ SweepInv(p)

MediaInv == TypeOK /\ JobsInv /\ FileInv /\ UseInv

LEMMA IdleType == Idle \in JobState
  BY DEF Idle, JobState

LEMMA InitMedia == Init => MediaInv
<1> SUFFICES ASSUME Init PROVE MediaInv
  OBVIOUS
<1>1. /\ \A b \in Blob : blob[b] = NoRow
      /\ \A m \in Message : message[m] = Unsent
      /\ \A p \in Job : job[p] = Idle
      /\ files = {} /\ torn = {} /\ escaped = {} /\ users = User
  BY DEF Init
<1>2. TypeOK
  <2>1. NoRow \in BlobRow /\ Unsent \in MessageRow
    BY DEF NoRow, BlobRow, Unsent, MessageRow
  <2>2. Referenced = {}
    BY <1>1 DEF Referenced, Unsent
  <2>3. \A b \in Blob : blob[b].owner = NoUser
    BY <1>1 DEF NoRow
  <2>4. \A m \in Message : ~Live(m)
    BY <1>1 DEF Unsent, Live
  <2> QED
    BY <1>1, <2>1, <2>2, <2>3, <2>4, IdleType DEF Init, TypeOK
<1>3. JobsInv
  BY <1>1 DEF JobsInv, JobInv, SendInv, SweepInv, Idle, Removing, Sweeping
<1>4. FileInv
  BY <1>1 DEF FileInv, NoRow, Idle
<1>5. UseInv
  BY <1>1 DEF UseInv, Unsent
<1> QED
  BY <1>2, <1>3, <1>4, <1>5 DEF MediaInv

------------------------------------------------------------------------------
(* Steps that change one job and nothing else. *)

\* Steps of one job that leave the database alone do not disturb the others.
LEMMA JobsKept ==
  ASSUME JobsInv, NEW p \in Job, UNCHANGED dbVars,
         \A q \in Job \ {p} : job'[q] = job[q],
         JobInv(p)', SendInv(p)', SweepInv(p)',
         \A q \in Job \ {p} : job[q].pc = "insert" => job[q].message # job'[p].message
  PROVE  JobsInv'
<1> SUFFICES ASSUME NEW q \in Job \ {p} PROVE JobInv(q)' /\ SendInv(q)' /\ SweepInv(q)'
  BY DEF JobsInv
<1>1. JobInv(q) /\ SendInv(q) /\ SweepInv(q) /\ job'[q] = job[q]
  BY DEF JobsInv
<1>2. UNCHANGED <<users, avatar, blob, message>>
  BY DEF dbVars
<1>3. JobInv(q)'
  BY <1>1 DEF JobInv
<1>4. SendInv(q)'
  <2> SUFFICES ASSUME job[q].pc = "insert", NEW s \in Job \ {q}
               PROVE  job'[s].message # job[q].message
    BY <1>1, <1>2 DEF SendInv
  <2> QED
    BY <1>1 DEF SendInv
<1>5. SweepInv(q)'
  BY <1>1, <1>2 DEF SweepInv
<1> QED
  BY <1>3, <1>4, <1>5

LEMMA JobStep ==
  ASSUME MediaInv, NEW p \in Job, UNCHANGED <<dbVars, files, history>>,
         job' \in [Job -> JobState], \A q \in Job \ {p} : job'[q] = job[q],
         JobInv(p)', SendInv(p)', SweepInv(p)', job'[p].pc # "written",
         job[p].doomed \subseteq job'[p].doomed, Removed(p)' \subseteq Removed(p),
         \A q \in Job \ {p} : job[q].pc = "insert" => job[q].message # job'[p].message
  PROVE  MediaInv'
<1>1. UNCHANGED <<users, avatar, blob, message, files, torn, escaped>>
  BY DEF dbVars, history
<1>2. TypeOK'
  BY <1>1 DEF MediaInv, TypeOK, Live, Referenced, Row
<1>3. JobsInv'
  BY JobsKept DEF MediaInv
<1>4. FileInv'
  <2>1. \A b : Covered(b) => \/ b \in files' \cup torn'
                              \/ \E s \in Job : b \in job'[s].doomed
    BY <1>1 DEF Covered
  <2>2. \A b \in Blob : blob[b].status = "uploaded" =>
          \/ b \in files' \cup torn'
          \/ \E s \in Job : b \in job'[s].doomed
    <3>1. \A b \in Blob : blob[b].status = "uploaded" => Covered(b)
      BY DEF MediaInv, FileInv
    <3> QED
      BY <2>1, <3>1
  <2>3. ASSUME NEW q \in Job, job'[q].pc = "written", Row(job'[q].blob)
        PROVE  \/ job'[q].blob \in files' \cup torn'
               \/ \E s \in Job : job'[q].blob \in job'[s].doomed
    <3>1. job'[q] = job[q]
      BY <2>3
    <3>2. Covered(job[q].blob)
      BY <2>3, <3>1 DEF MediaInv, FileInv
    <3> QED
      BY <2>1, <3>1, <3>2
  <2>4. ASSUME NEW q \in Job PROVE files \cap Removed(q)' \subseteq escaped
    <3>1. files \cap Removed(q) \subseteq escaped
      BY DEF MediaInv, FileInv
    <3>2. Removed(q)' \subseteq Removed(q)
      BY DEF Removed
    <3> QED
      BY <3>1, <3>2
  <2>5. \A b \in files : Row(b) \/ b \in escaped
    BY DEF MediaInv, FileInv
  <2> QED
    BY <1>1, <2>2, <2>3, <2>4, <2>5 DEF FileInv, Row, Covered
<1>5. UseInv'
  BY <1>1 DEF MediaInv, UseInv
<1> QED
  BY <1>2, <1>3, <1>4, <1>5 DEF MediaInv

\* A job begins: it has no file or row behind it yet.
LEMMA BeginStep ==
  ASSUME MediaInv, NEW p \in Job, NEW r \in JobState, Begin(p, r),
         UNCHANGED <<dbVars, files, history>>,
         r.pc \in {"stream", "insert", "wipe", "deleting", "abandoned"},
         r.pc = "insert" => /\ r.blob \in Blob /\ blob[r.blob].status # "reserved"
                            /\ r.message \in Message /\ message[r.message] = Unsent
                            /\ \A q \in Job : job[q].message # r.message,
         r.pc = "stream" => r.blob \in Blob,
         r.pc = "wipe" => r.message \in Message,
         r.pc = "deleting" => r.user \in User,
         r.pc \in {"stream", "insert", "wipe"} => r.doomed = {},
         r.pc \in Removing => r.todo = r.doomed,
         \A q \in Job : job[q].pc = "insert" => job[q].message # r.message
  PROVE  MediaInv'
<1>1. /\ job' \in [Job -> JobState] /\ job'[p] = r /\ job[p].pc = "idle"
      /\ \A q \in Job \ {p} : job'[q] = job[q]
  BY DEF MediaInv, TypeOK, Begin
<1>2. job[p].doomed = {}
  BY <1>1 DEF MediaInv, JobsInv, JobInv
<1>3. JobInv(p)'
  BY <1>1 DEF JobInv, Removing
<1>4. SendInv(p)' /\ SweepInv(p)'
  BY <1>1 DEF SendInv, SweepInv, Sweeping, dbVars
<1>5. Removed(p)' = {}
  BY <1>1 DEF Removed, Removing
<1> QED
  BY <1>1, <1>2, <1>3, <1>4, <1>5, JobStep

------------------------------------------------------------------------------
(* Uploads. *)

LEMMA UploadWriteStep ==
  ASSUME MediaInv, NEW t \in Job, UploadWrite(t)
  PROVE  MediaInv'
<1>1. PICK b \in Blob : b = job[t].blob
  BY DEF MediaInv, JobsInv, JobInv, UploadWrite
<1>2. /\ job[t].pc = "stream" /\ job[t].doomed = {} /\ job[t] \in JobState
      /\ job \in [Job -> JobState]
  BY DEF MediaInv, TypeOK, JobsInv, JobInv, UploadWrite
<1>3. /\ files' = files \cup {b} /\ torn' = torn \ {b}
      /\ escaped' = escaped \/ escaped' = escaped \cup {b}
      /\ (~Row(b) \/ \E p \in Job : b \in Removed(p)) => escaped' = escaped \cup {b}
      /\ job' = [job EXCEPT ![t].pc = "written"]
      /\ UNCHANGED <<users, avatar, blob, message, dbVars>>
  BY <1>1 DEF UploadWrite, dbVars
<1>4. /\ job' \in [Job -> JobState] /\ job'[t] = [job[t] EXCEPT !.pc = "written"]
      /\ \A q \in Job \ {t} : job'[q] = job[q]
  BY <1>2, <1>3 DEF JobState
<1>5. /\ job'[t].pc = "written" /\ job'[t].blob = b /\ job'[t].doomed = {}
      /\ job'[t].message = job[t].message
  BY <1>1, <1>2, <1>4 DEF JobState
<1>6. TypeOK'
  BY <1>3, <1>4 DEF MediaInv, TypeOK, Live, Referenced, Row
<1>7. JobsInv'
  <2>1. JobInv(t)' /\ SendInv(t)' /\ SweepInv(t)'
    BY <1>5 DEF JobInv, SendInv, SweepInv, Removing, Sweeping
  <2>2. \A q \in Job \ {t} : job[q].pc = "insert" => job[q].message # job'[t].message
    BY <1>5 DEF MediaInv, JobsInv, SendInv
  <2> QED
    BY <1>3, <1>4, <2>1, <2>2, JobsKept DEF MediaInv
<1>8. FileInv'
  <2>1. \A c : Covered(c) => \/ c \in files' \cup torn'
                              \/ \E s \in Job : c \in job'[s].doomed
    BY <1>2, <1>3, <1>4 DEF Covered
  <2>2. \A c \in Blob : blob[c].status = "uploaded" => Covered(c)
    BY DEF MediaInv, FileInv
  <2>3. ASSUME NEW q \in Job, job'[q].pc = "written", Row(job[q].blob)
        PROVE  \/ job'[q].blob \in files' \cup torn'
               \/ \E s \in Job : job'[q].blob \in job'[s].doomed
    <3>1. CASE q = t
      BY <1>3, <1>5, <3>1
    <3>2. CASE q # t
      <4>1. Covered(job[q].blob)
        BY <1>4, <2>3, <3>2 DEF MediaInv, FileInv
      <4> QED
        BY <1>4, <2>1, <3>2, <4>1
    <3> QED
      BY <3>1, <3>2
  <2>4. \A c \in files' : Row(c) \/ c \in escaped'
    BY <1>3 DEF MediaInv, FileInv
  <2>5. ASSUME NEW q \in Job PROVE files' \cap Removed(q)' \subseteq escaped'
    <3>1. files \cap Removed(q) \subseteq escaped
      BY DEF MediaInv, FileInv
    <3>2. Removed(q)' = Removed(q)
      BY <1>2, <1>4, <1>5 DEF Removed
    <3> QED
      BY <1>3, <3>1, <3>2
  <2>6. \A q \in Job : job'[q].blob = job[q].blob
    BY <1>1, <1>4, <1>5
  <2> QED
    BY <1>3, <2>1, <2>2, <2>3, <2>4, <2>5, <2>6 DEF FileInv, Row, Covered
<1>9. UseInv'
  BY <1>3 DEF MediaInv, UseInv
<1> QED
  BY <1>6, <1>7, <1>8, <1>9 DEF MediaInv

LEMMA UploadCommitStep ==
  ASSUME MediaInv, NEW t \in Job, UploadCommit(t)
  PROVE  MediaInv'
<1>1. PICK b \in Blob : b = job[t].blob
  BY DEF MediaInv, JobsInv, JobInv, UploadCommit
<1>2. /\ job[t].pc = "written" /\ job[t].doomed = {}
      /\ job \in [Job -> JobState] /\ blob \in [Blob -> BlobRow]
  BY DEF MediaInv, TypeOK, JobsInv, JobInv, UploadCommit
<1>3. /\ blob[b].status # "none" /\ Covered(b)
      /\ blob' = [blob EXCEPT ![b].status = "uploaded"]
      /\ job' = [job EXCEPT ![t] = Idle]
      /\ UNCHANGED <<users, avatar, message, files, torn, escaped>>
  BY <1>1, <1>2 DEF MediaInv, FileInv, UploadCommit, history, Row
<1>4. /\ job' \in [Job -> JobState] /\ job'[t] = Idle
      /\ \A q \in Job \ {t} : job'[q] = job[q]
  BY <1>2, <1>3, IdleType
<1>5. /\ blob' \in [Blob -> BlobRow]
      /\ \A c \in Blob \ {b} : blob'[c] = blob[c]
      /\ blob'[b].status = "uploaded" /\ blob'[b].owner = blob[b].owner
  BY <1>2, <1>3 DEF BlobRow
<1>6. TypeOK'
  BY <1>3, <1>4, <1>5 DEF MediaInv, TypeOK, Live, Referenced, Row
<1>7. JobsInv'
  <2>1. JobInv(t)' /\ SendInv(t)' /\ SweepInv(t)'
    BY <1>4 DEF JobInv, SendInv, SweepInv, Removing, Sweeping, Idle
  <2>2. ASSUME NEW q \in Job \ {t} PROVE JobInv(q)' /\ SendInv(q)' /\ SweepInv(q)'
    <3>1. JobInv(q) /\ SendInv(q) /\ SweepInv(q) /\ job'[q] = job[q]
      BY <1>4 DEF MediaInv, JobsInv
    <3>2. JobInv(q)' /\ SweepInv(q)'
      BY <1>3, <3>1 DEF JobInv, SweepInv
    <3>3. SendInv(q)'
      <4> SUFFICES ASSUME job[q].pc = "insert"
                   PROVE  /\ blob'[job[q].blob].status # "reserved"
                          /\ message[job[q].message] = Unsent
                          /\ \A s \in Job \ {q} : job'[s].message # job[q].message
        BY <1>3, <3>1 DEF SendInv
      <4>1. job[q].blob \in Blob /\ job[q].message \in Message
        BY <3>1 DEF JobInv
      <4>2. Idle.message \notin Message
        BY NoneAssumption DEF Idle
      <4> QED
        BY <1>4, <1>5, <3>1, <4>1, <4>2 DEF SendInv
    <3> QED
      BY <3>2, <3>3
  <2> QED
    BY <2>1, <2>2 DEF JobsInv
<1>8. FileInv'
  <2>1. \A c : Covered(c) => \/ c \in files' \cup torn'
                              \/ \E s \in Job : c \in job'[s].doomed
    BY <1>2, <1>3, <1>4 DEF Covered
  <2>2. \A c \in Blob : blob'[c].status = "uploaded" => Covered(c)
    BY <1>3, <1>5 DEF MediaInv, FileInv
  <2>3. ASSUME NEW q \in Job, job'[q].pc = "written", blob'[job'[q].blob].status # "none"
        PROVE  Covered(job'[q].blob)
    <3>1. q # t /\ job'[q] = job[q]
      BY <1>4, <2>3 DEF Idle
    <3>2. job[q].blob \in Blob
      BY <2>3, <3>1 DEF MediaInv, JobsInv, JobInv
    <3> QED
      BY <1>3, <1>5, <2>3, <3>1, <3>2 DEF MediaInv, FileInv, Row
  <2>4. \A c \in files' : blob'[c].status # "none" \/ c \in escaped'
    BY <1>3, <1>5 DEF MediaInv, TypeOK, FileInv, Row
  <2>5. ASSUME NEW q \in Job PROVE files' \cap Removed(q)' \subseteq escaped'
    <3>1. files \cap Removed(q) \subseteq escaped
      BY DEF MediaInv, FileInv
    <3>2. Removed(q)' \subseteq Removed(q)
      BY <1>4 DEF Removed, Idle
    <3> QED
      BY <1>3, <3>1, <3>2
  <2> QED
    BY <1>3, <2>1, <2>2, <2>3, <2>4, <2>5 DEF FileInv, Row, Covered
<1>9. UseInv'
  <2> SUFFICES ASSUME NEW m \in Message, message[m].media # NoBlob
               PROVE  blob'[message[m].media].status = "uploaded"
    BY <1>3 DEF MediaInv, UseInv
  <2>1. message[m].media \in Blob
    BY DEF MediaInv, TypeOK, MessageRow
  <2> QED
    BY <1>5, <2>1 DEF MediaInv, UseInv
<1> QED
  BY <1>6, <1>7, <1>8, <1>9 DEF MediaInv

\* Steps that change one row, of a blob that no message is about to refer to, and no job.
LEMMA RowStep ==
  ASSUME MediaInv, NEW b \in Blob, NEW r \in BlobRow, blob' = [blob EXCEPT ![b] = r],
         UNCHANGED <<users, avatar, message, files, job, history>>,
         r.owner \in users \cup {NoUser}, r.status # "none",
         \/ r.status = blob[b].status
         \/ /\ blob[b].status = "none" /\ r.status = "reserved"
            /\ \A p \in Job : b # job[p].blob
  PROVE  MediaInv'
<1>1. /\ blob \in [Blob -> BlobRow]
      /\ UNCHANGED <<users, avatar, message, files, job, torn, escaped>>
  BY DEF MediaInv, TypeOK, history
<1>2. /\ blob' \in [Blob -> BlobRow] /\ blob'[b] = r
      /\ \A c \in Blob \ {b} : blob'[c] = blob[c]
  BY <1>1
<1>3. ASSUME NEW c \in Blob
      PROVE  /\ blob[c].status # "none" => blob'[c].status = blob[c].status
             /\ blob'[c].status = "uploaded" => blob[c].status = "uploaded"
  BY <1>2
<1>4. TypeOK'
  <2>1. \A c \in Blob : blob'[c].owner \in users \cup {NoUser}
    BY <1>2 DEF MediaInv, TypeOK
  <2>2. \A c \in Referenced : c \in Blob /\ blob[c].status # "none"
    BY DEF MediaInv, TypeOK, Referenced, MessageRow, Row
  <2>3. \A c \in Referenced : blob'[c].status # "none"
    BY <1>3, <2>2
  <2> QED
    BY <1>1, <1>2, <2>1, <2>3 DEF MediaInv, TypeOK, Live, Referenced, Row
<1>5. JobsInv'
  <2> SUFFICES ASSUME NEW q \in Job PROVE JobInv(q)' /\ SendInv(q)' /\ SweepInv(q)'
    BY DEF JobsInv
  <2>1. JobInv(q) /\ SendInv(q) /\ SweepInv(q)
    BY DEF MediaInv, JobsInv
  <2>2. JobInv(q)' /\ SweepInv(q)'
    BY <1>1, <2>1 DEF JobInv, SweepInv
  <2>3. job[q].pc = "insert" => blob'[job[q].blob].status # "reserved"
    BY <1>2, <2>1 DEF SendInv, JobInv
  <2>4. SendInv(q)'
    BY <1>1, <2>1, <2>3 DEF SendInv
  <2> QED
    BY <2>2, <2>4
<1>6. FileInv'
  <2>1. \A c : Covered(c) => \/ c \in files' \cup torn'
                              \/ \E s \in Job : c \in job'[s].doomed
    BY <1>1 DEF Covered
  <2>2. \A c \in Blob : blob'[c].status = "uploaded" => Covered(c)
    BY <1>3 DEF MediaInv, FileInv
  <2>3. ASSUME NEW q \in Job, job[q].pc = "written", blob'[job[q].blob].status # "none"
        PROVE  Covered(job[q].blob)
    <3>1. job[q].blob \in Blob
      BY <2>3 DEF MediaInv, JobsInv, JobInv
    <3>2. blob[job[q].blob].status # "none"
      BY <1>2, <2>3, <3>1
    <3> QED
      BY <2>3, <3>2 DEF MediaInv, FileInv, Row
  <2>4. \A c \in files : blob'[c].status # "none" \/ c \in escaped
    BY <1>2 DEF MediaInv, TypeOK, FileInv, Row
  <2>5. ASSUME NEW q \in Job PROVE files \cap Removed(q)' \subseteq escaped
    <3>1. files \cap Removed(q) \subseteq escaped
      BY DEF MediaInv, FileInv
    <3> QED
      BY <1>1, <3>1 DEF Removed
  <2> QED
    BY <1>1, <2>1, <2>2, <2>3, <2>4, <2>5 DEF FileInv, Row, Covered
<1>7. UseInv'
  <2> SUFFICES ASSUME NEW m \in Message, message[m].media # NoBlob
               PROVE  blob'[message[m].media].status = "uploaded"
    BY <1>1 DEF MediaInv, UseInv
  <2>1. message[m].media \in Blob /\ blob[message[m].media].status = "uploaded"
    BY DEF MediaInv, TypeOK, MessageRow, UseInv
  <2> QED
    BY <1>3, <2>1
<1> QED
  BY <1>4, <1>5, <1>6, <1>7 DEF MediaInv

LEMMA ReserveStep ==
  ASSUME MediaInv, NEW u \in User, NEW b \in Blob, Reserve(u, b)
  PROVE  MediaInv'
<1>1. [status |-> "reserved", owner |-> u, age |-> 0] \in BlobRow
  BY DEF BlobRow
<1> QED
  BY <1>1, RowStep DEF Reserve

LEMMA AgeStep ==
  ASSUME MediaInv, NEW b \in Blob, Age(b)
  PROVE  MediaInv'
<1>1. blob \in [Blob -> BlobRow] /\ blob[b].owner \in users \cup {NoUser}
  BY DEF MediaInv, TypeOK
<1>2. PICK r : r = [blob[b] EXCEPT !.age = @ + 1]
  OBVIOUS
<1>3. /\ r \in BlobRow /\ r.owner = blob[b].owner /\ r.status = blob[b].status
  BY <1>1, <1>2 DEF BlobRow, Age
<1>4. blob' = [blob EXCEPT ![b] = r]
  BY <1>1, <1>2 DEF Age
<1> QED
  BY <1>1, <1>3, <1>4, RowStep DEF Age, Row

------------------------------------------------------------------------------
(* Deleting files. *)

LEMMA UnlinkStep ==
  ASSUME MediaInv, NEW p \in Job, NEW b \in Blob, Unlink(p, b) \/ UnlinkFails(p, b)
  PROVE  MediaInv'
<1>1. /\ job[p].pc \in Removing /\ job[p].todo \subseteq job[p].doomed /\ b \in job[p].doomed
      /\ job \in [Job -> JobState] /\ job[p] \in JobState
  BY DEF MediaInv, TypeOK, JobsInv, JobInv, Unlink, UnlinkFails, Removing
<1>2. /\ \/ files' = files \ {b} /\ escaped' = escaped
         \/ files' = files /\ escaped' = escaped \cup {b}
      /\ job' = [job EXCEPT ![p].todo = @ \ {b}]
      /\ UNCHANGED <<users, avatar, blob, message, dbVars, torn>>
  BY DEF Unlink, UnlinkFails, history, dbVars
<1>3. /\ job' \in [Job -> JobState] /\ job'[p] = [job[p] EXCEPT !.todo = @ \ {b}]
      /\ \A q \in Job \ {p} : job'[q] = job[q]
  BY <1>1, <1>2 DEF JobState
<1>4. /\ job'[p].pc = job[p].pc /\ job'[p].blob = job[p].blob /\ job'[p].user = job[p].user
      /\ job'[p].message = job[p].message /\ job'[p].doomed = job[p].doomed
      /\ job'[p].used = job[p].used /\ job'[p].todo = job[p].todo \ {b}
  BY <1>1, <1>3 DEF JobState
<1>5. TypeOK'
  BY <1>2, <1>3 DEF MediaInv, TypeOK, Live, Referenced, Row
<1>6. JobsInv'
  <2>1. JobInv(p) /\ SweepInv(p)
    BY DEF MediaInv, JobsInv
  <2>2. JobInv(p)' /\ SendInv(p)' /\ SweepInv(p)'
    BY <1>1, <1>2, <1>4, <2>1 DEF JobInv, SendInv, SweepInv, Removing
  <2>3. \A q \in Job \ {p} : job[q].pc = "insert" => job[q].message # job'[p].message
    BY <1>4 DEF MediaInv, JobsInv, SendInv
  <2> QED
    BY <1>2, <1>3, <2>2, <2>3, JobsKept DEF MediaInv
<1>7. FileInv'
  <2>1. \A c : Covered(c) => \/ c \in files' \cup torn'
                              \/ \E s \in Job : c \in job'[s].doomed
    BY <1>1, <1>2, <1>3, <1>4 DEF Covered
  <2>2. \A c \in Blob : blob[c].status = "uploaded" => Covered(c)
    BY DEF MediaInv, FileInv
  <2>3. \A q \in Job : job'[q].pc = job[q].pc /\ job'[q].blob = job[q].blob
    BY <1>3, <1>4
  <2>4. \A q \in Job : job[q].pc = "written" /\ Row(job[q].blob) => Covered(job[q].blob)
    BY DEF MediaInv, FileInv
  <2>5. \A c \in files' : Row(c) \/ c \in escaped'
    BY <1>2 DEF MediaInv, FileInv
  <2>6. ASSUME NEW q \in Job PROVE files' \cap Removed(q)' \subseteq escaped'
    <3>1. files \cap Removed(q) \subseteq escaped
      BY DEF MediaInv, FileInv
    <3>2. Removed(q)' \subseteq Removed(q) \cup {b}
      BY <1>3, <1>4 DEF Removed
    <3> QED
      BY <1>2, <3>1, <3>2
  <2> QED
    BY <1>2, <2>1, <2>2, <2>3, <2>4, <2>5, <2>6 DEF FileInv, Row, Covered
<1>8. UseInv'
  BY <1>2 DEF MediaInv, UseInv
<1> QED
  BY <1>5, <1>6, <1>7, <1>8 DEF MediaInv

LEMMA FailStep ==
  ASSUME MediaInv, NEW p \in Job, Fail(p)
  PROVE  MediaInv'
<1>1. job \in [Job -> JobState] /\ torn \subseteq Blob /\ job[p].doomed \subseteq Blob
  BY DEF MediaInv, TypeOK, JobState
<1>2. /\ torn' = torn \cup {b \in job[p].doomed : Row(b) /\ b \notin files}
      /\ job' = [job EXCEPT ![p] = Idle]
      /\ UNCHANGED <<users, avatar, blob, message, dbVars, files, escaped>>
  BY DEF Fail, dbVars
<1>3. /\ job' \in [Job -> JobState] /\ job'[p] = Idle /\ torn' \subseteq Blob
      /\ \A q \in Job \ {p} : job'[q] = job[q]
  BY <1>1, <1>2, IdleType
<1>4. TypeOK'
  BY <1>2, <1>3 DEF MediaInv, TypeOK, Live, Referenced, Row
<1>5. JobsInv'
  <2>1. JobInv(p)' /\ SendInv(p)' /\ SweepInv(p)'
    BY <1>3 DEF JobInv, SendInv, SweepInv, Removing, Sweeping, Idle
  <2>2. \A q \in Job \ {p} : job[q].pc = "insert" => job[q].message # job'[p].message
    BY <1>3, NoneAssumption DEF MediaInv, JobsInv, JobInv, Idle
  <2> QED
    BY <1>2, <1>3, <2>1, <2>2, JobsKept DEF MediaInv
<1>6. FileInv'
  <2>1. \A c : Covered(c) /\ Row(c) => \/ c \in files' \cup torn'
                                       \/ \E s \in Job : c \in job'[s].doomed
    BY <1>2, <1>3 DEF Covered
  <2>2. \A c \in Blob : blob[c].status = "uploaded" => Covered(c) /\ Row(c)
    BY DEF MediaInv, FileInv, Row
  <2>3. ASSUME NEW q \in Job, job'[q].pc = "written", Row(job'[q].blob)
        PROVE  Covered(job'[q].blob)
    <3>1. q # p /\ job'[q] = job[q]
      BY <1>3, <2>3 DEF Idle
    <3> QED
      BY <2>3, <3>1 DEF MediaInv, FileInv
  <2>4. \A c \in files : Row(c) \/ c \in escaped
    BY DEF MediaInv, FileInv
  <2>5. ASSUME NEW q \in Job PROVE files' \cap Removed(q)' \subseteq escaped'
    <3>1. files \cap Removed(q) \subseteq escaped
      BY DEF MediaInv, FileInv
    <3>2. Removed(q)' \subseteq Removed(q)
      BY <1>3 DEF Removed, Idle
    <3> QED
      BY <1>2, <3>1, <3>2
  <2> QED
    BY <1>2, <2>1, <2>2, <2>3, <2>4, <2>5 DEF FileInv, Row, Covered
<1>7. UseInv'
  BY <1>2 DEF MediaInv, UseInv
<1> QED
  BY <1>4, <1>5, <1>6, <1>7 DEF MediaInv

------------------------------------------------------------------------------
(* Commits. *)

LEMMA SendCommitStep ==
  ASSUME MediaInv, NEW t \in Job, SendCommit(t)
  PROVE  MediaInv'
<1>1. PICK b \in Blob, m \in Message : b = job[t].blob /\ m = job[t].message
  BY DEF MediaInv, JobsInv, JobInv, SendCommit
<1>2. /\ job[t].pc = "insert" /\ job[t].doomed = {} /\ job[t].user \in users
      /\ job \in [Job -> JobState] /\ message \in [Message -> MessageRow]
      /\ users \subseteq User
  BY DEF MediaInv, TypeOK, JobsInv, JobInv, SendCommit, Accepted
<1>3. /\ blob[b].status = "uploaded" /\ message[m] = Unsent
      /\ \A q \in Job \ {t} : job[q].message # m
  <2>1. blob[b].status # "none" /\ blob[b].status \in {"none", "reserved", "uploaded"}
    BY <1>1 DEF MediaInv, TypeOK, BlobRow, SendCommit, Accepted, Row
  <2> QED
    BY <1>1, <1>2, <2>1 DEF MediaInv, JobsInv, SendInv
<1>4. /\ message' = [message EXCEPT ![m] = [status |-> "live", sender |-> job[t].user, media |-> b]]
      /\ job' = [job EXCEPT ![t] = Idle]
      /\ UNCHANGED <<users, avatar, blob, files, torn, escaped>>
  BY <1>1 DEF SendCommit, history
<1>5. /\ job' \in [Job -> JobState] /\ job'[t] = Idle
      /\ \A q \in Job \ {t} : job'[q] = job[q]
  BY <1>2, <1>4, IdleType
<1>6. /\ message' \in [Message -> MessageRow]
      /\ \A n \in Message \ {m} : message'[n] = message[n]
      /\ message'[m].status = "live" /\ message'[m].sender = job[t].user
      /\ message'[m].media = b
  BY <1>2, <1>4 DEF MessageRow
<1>7. TypeOK'
  <2>1. \A n \in Message : message'[n].status = "live" => message'[n].sender \in users
    BY <1>2, <1>6 DEF MediaInv, TypeOK, Live
  <2>2. \A n \in Message : message'[n].media # NoBlob => Row(message'[n].media)
    BY <1>3, <1>6 DEF MediaInv, TypeOK, Referenced, Row
  <2> QED
    BY <1>4, <1>5, <1>6, <2>1, <2>2 DEF MediaInv, TypeOK, Live, Referenced, Row
<1>8. JobsInv'
  <2>1. JobInv(t)' /\ SendInv(t)' /\ SweepInv(t)'
    BY <1>5 DEF JobInv, SendInv, SweepInv, Removing, Sweeping, Idle
  <2>2. Uses(message, avatar, users) \subseteq Uses(message', avatar, users)
    BY <1>3, <1>6 DEF Uses, Unsent
  <2>3. ASSUME NEW q \in Job \ {t} PROVE JobInv(q)' /\ SendInv(q)' /\ SweepInv(q)'
    <3>1. JobInv(q) /\ SendInv(q) /\ SweepInv(q) /\ job'[q] = job[q]
      BY <1>5 DEF MediaInv, JobsInv
    <3>2. JobInv(q)'
      BY <3>1 DEF JobInv
    <3>3. SweepInv(q)'
      BY <1>4, <2>2, <3>1 DEF SweepInv
    <3>4. SendInv(q)'
      <4> SUFFICES ASSUME job[q].pc = "insert"
                   PROVE  /\ blob[job[q].blob].status # "reserved"
                          /\ message'[job[q].message] = Unsent
                          /\ \A s \in Job \ {q} : job'[s].message # job[q].message
        BY <1>4, <3>1 DEF SendInv
      <4>1. job[q].message \in Message \ {m}
        BY <1>3, <3>1 DEF JobInv
      <4>2. Idle.message \notin Message
        BY NoneAssumption DEF Idle
      <4> QED
        BY <1>5, <1>6, <3>1, <4>1, <4>2 DEF SendInv
    <3> QED
      BY <3>2, <3>3, <3>4
  <2> QED
    BY <2>1, <2>3 DEF JobsInv
<1>9. FileInv'
  <2>1. \A c : Covered(c) => \/ c \in files' \cup torn'
                              \/ \E s \in Job : c \in job'[s].doomed
    BY <1>2, <1>4, <1>5 DEF Covered
  <2>2. \A c \in Blob : blob[c].status = "uploaded" => Covered(c)
    BY DEF MediaInv, FileInv
  <2>3. ASSUME NEW q \in Job, job'[q].pc = "written", Row(job'[q].blob)
        PROVE  Covered(job'[q].blob)
    <3>1. q # t /\ job'[q] = job[q]
      BY <1>5, <2>3 DEF Idle
    <3> QED
      BY <2>3, <3>1 DEF MediaInv, FileInv
  <2>4. \A c \in files : Row(c) \/ c \in escaped
    BY DEF MediaInv, FileInv
  <2>5. ASSUME NEW q \in Job PROVE files' \cap Removed(q)' \subseteq escaped'
    <3>1. files \cap Removed(q) \subseteq escaped
      BY DEF MediaInv, FileInv
    <3>2. Removed(q)' \subseteq Removed(q)
      BY <1>5 DEF Removed, Idle
    <3> QED
      BY <1>4, <3>1, <3>2
  <2> QED
    BY <1>4, <2>1, <2>2, <2>3, <2>4, <2>5 DEF FileInv, Row, Covered
<1>10. UseInv'
  BY <1>3, <1>4, <1>6 DEF MediaInv, UseInv
<1> QED
  BY <1>7, <1>8, <1>9, <1>10 DEF MediaInv

\* The jobs when only the uses of U are left and one of them has ended.
LEMMA EndJobs ==
  ASSUME job \in [Job -> JobState], NEW p \in Job, NEW U, End(p, U)
  PROVE  /\ job' \in [Job -> JobState] /\ job'[p] = Idle
         /\ \A q \in Job \ {p} :
              /\ job'[q].pc = job[q].pc /\ job'[q].blob = job[q].blob
              /\ job'[q].user = job[q].user /\ job'[q].message = job[q].message
              /\ job'[q].doomed = job[q].doomed /\ job'[q].todo = job[q].todo
              /\ job'[q].used = job[q].used \cap U
              /\ job[q] = Idle => job'[q] = Idle
<1>1. job' = [StillUsed(U) EXCEPT ![p] = Idle]
  BY DEF End
<1>2. \A q \in Job : StillUsed(U)[q] = [job[q] EXCEPT !.used = @ \cap U]
  BY DEF StillUsed
<1>3. ASSUME NEW q \in Job PROVE StillUsed(U)[q] \in JobState
  <2>1. StillUsed(U)[q] = [job[q] EXCEPT !.used = @ \cap U] /\ job[q] \in JobState
    BY <1>2
  <2>2. job[q].used \cap U \in SUBSET (Blob \X {"message", "avatar"})
    BY <2>1 DEF JobState
  <2> QED
    BY <2>1, <2>2 DEF JobState
<1>4. job' \in [Job -> JobState] /\ job'[p] = Idle
      /\ \A q \in Job \ {p} : job'[q] = [job[q] EXCEPT !.used = @ \cap U]
  BY <1>1, <1>2, <1>3, IdleType DEF StillUsed
<1> QED
  BY <1>4 DEF JobState, Idle

\* A commit that deletes the doomed rows of its job, whose files are all gone.
LEMMA CommitStep ==
  ASSUME MediaInv, NEW p \in Job, job[p].pc \in Removing, job[p].todo = {}, TypeOK',
         UNCHANGED <<files, history>>, End(p, Uses(message', avatar', users')),
         \A b \in Blob : blob'[b].status =
                           IF b \in job[p].doomed THEN "none" ELSE blob[b].status,
         \A m \in Message : message'[m].media # NoBlob =>
           message'[m].media = message[m].media /\ message[m].media \notin job[p].doomed,
         \A m \in Message : message'[m].status = "none" => message'[m] = Unsent,
         \A q \in Job \ {p} : job[q].pc = "insert" => message'[job[q].message] = Unsent
  PROVE  MediaInv'
<1>1. /\ job'[p] = Idle
      /\ \A q \in Job \ {p} :
           /\ job'[q].pc = job[q].pc /\ job'[q].blob = job[q].blob
           /\ job'[q].user = job[q].user /\ job'[q].message = job[q].message
           /\ job'[q].doomed = job[q].doomed /\ job'[q].todo = job[q].todo
           /\ job'[q].used = job[q].used \cap Uses(message', avatar', users')
           /\ job[q] = Idle => job'[q] = Idle
  BY EndJobs DEF MediaInv, TypeOK
<1>2. UNCHANGED <<files, torn, escaped>> /\ files \subseteq Blob
  BY DEF history, MediaInv, TypeOK
<1>3. JobsInv'
  <2>1. JobInv(p)' /\ SendInv(p)' /\ SweepInv(p)'
    BY <1>1 DEF JobInv, SendInv, SweepInv, Removing, Sweeping, Idle
  <2>2. ASSUME NEW q \in Job \ {p} PROVE JobInv(q)' /\ SendInv(q)' /\ SweepInv(q)'
    <3>1. JobInv(q) /\ SendInv(q) /\ SweepInv(q)
      BY DEF MediaInv, JobsInv
    <3>2. JobInv(q)'
      BY <1>1, <3>1 DEF JobInv
    <3>3. SweepInv(q)'
      BY <1>1, <3>1 DEF SweepInv
    <3>4. SendInv(q)'
      <4> SUFFICES ASSUME job[q].pc = "insert"
                   PROVE  /\ blob'[job[q].blob].status # "reserved"
                          /\ message'[job[q].message] = Unsent
                          /\ \A s \in Job \ {q} : job'[s].message # job[q].message
        BY <1>1 DEF SendInv
      <4>1. job[q].message \in Message /\ job[q].blob \in Blob
        BY <3>1 DEF JobInv
      <4>2. Idle.message \notin Message
        BY NoneAssumption DEF Idle
      <4>3. \A s \in Job \ {q} : job'[s].message # job[q].message
        BY <1>1, <3>1, <4>1, <4>2 DEF SendInv
      <4>4. blob'[job[q].blob].status # "reserved"
        BY <3>1, <4>1 DEF SendInv
      <4> QED
        BY <4>3, <4>4
    <3> QED
      BY <3>2, <3>3, <3>4
  <2> QED
    BY <2>1, <2>2 DEF JobsInv
<1>4. FileInv'
  <2>1. \A c : Covered(c) /\ c \notin job[p].doomed =>
          \/ c \in files' \cup torn'
          \/ \E s \in Job : c \in job'[s].doomed
    BY <1>1, <1>2 DEF Covered
  <2>2. \A c \in Blob : blob'[c].status # "none" =>
          c \notin job[p].doomed /\ blob'[c].status = blob[c].status
    OBVIOUS
  <2>3. \A c \in Blob : blob'[c].status = "uploaded" => Covered(c) /\ c \notin job[p].doomed
    BY <2>2 DEF MediaInv, FileInv
  <2>4. ASSUME NEW q \in Job, job'[q].pc = "written", blob'[job'[q].blob].status # "none"
        PROVE  Covered(job'[q].blob) /\ job'[q].blob \notin job[p].doomed
    <3>1. q # p /\ job'[q].pc = job[q].pc /\ job'[q].blob = job[q].blob
      BY <1>1, <2>4 DEF Idle
    <3>2. job[q].blob \in Blob
      BY <2>4, <3>1 DEF MediaInv, JobsInv, JobInv
    <3> QED
      BY <2>2, <2>4, <3>1, <3>2 DEF MediaInv, FileInv, Row
  <2>5. \A c \in files : blob'[c].status # "none" \/ c \in escaped
    <3>1. files \cap job[p].doomed \subseteq escaped
      BY DEF MediaInv, FileInv, Removed
    <3>2. \A c \in files : blob[c].status # "none" \/ c \in escaped
      BY DEF MediaInv, FileInv, Row
    <3> QED
      BY <1>2, <3>1, <3>2
  <2>6. ASSUME NEW q \in Job PROVE files' \cap Removed(q)' \subseteq escaped'
    <3>1. files \cap Removed(q) \subseteq escaped
      BY DEF MediaInv, FileInv
    <3>2. Removed(q)' \subseteq Removed(q)
      BY <1>1 DEF Removed, Idle
    <3> QED
      BY <1>2, <3>1, <3>2
  <2> QED
    BY <1>2, <2>1, <2>3, <2>4, <2>5, <2>6 DEF FileInv, Row, Covered
<1>5. UseInv'
  <2> SUFFICES ASSUME NEW m \in Message, message'[m].media # NoBlob
               PROVE  blob'[message'[m].media].status = "uploaded"
    BY DEF UseInv
  <2>1. /\ message'[m].media = message[m].media /\ message[m].media \notin job[p].doomed
        /\ message[m].media \in Blob
    BY DEF MediaInv, TypeOK, MessageRow
  <2> QED
    BY <2>1 DEF MediaInv, UseInv
<1> QED
  BY <1>3, <1>4, <1>5 DEF MediaInv

\* What is left of the rows and of the messages when the rows of D are deleted.
LEMMA WithoutType ==
  ASSUME TypeOK, NEW D \in SUBSET Blob
  PROVE  /\ Without(D) \in [Blob -> BlobRow]
         /\ \A b \in Blob : /\ Without(D)[b].owner \in users \cup {NoUser}
                            /\ Without(D)[b].status = IF b \in D THEN "none" ELSE blob[b].status
<1>1. NoRow \in BlobRow /\ NoRow.owner = NoUser /\ NoRow.status = "none"
  BY DEF NoRow, BlobRow
<1> QED
  BY <1>1 DEF TypeOK, Without

LEMMA DetachedType ==
  ASSUME TypeOK, NEW D \in SUBSET Blob
  PROVE  /\ Detached(D) \in [Message -> MessageRow]
         /\ \A m \in Message :
              /\ Detached(D)[m].status = message[m].status
              /\ Detached(D)[m].sender = message[m].sender
              /\ Detached(D)[m].media # NoBlob =>
                   Detached(D)[m].media = message[m].media /\ message[m].media \notin D
              /\ message[m] = Unsent => Detached(D)[m] = Unsent
<1> SUFFICES ASSUME NEW m \in Message
             PROVE  /\ Detached(D)[m] \in MessageRow
                    /\ Detached(D)[m].status = message[m].status
                    /\ Detached(D)[m].sender = message[m].sender
                    /\ Detached(D)[m].media # NoBlob =>
                         Detached(D)[m].media = message[m].media /\ message[m].media \notin D
                    /\ message[m] = Unsent => Detached(D)[m] = Unsent
  BY DEF Detached
<1>1. message[m] \in MessageRow
  BY DEF TypeOK
<1>2. CASE message[m].media \in D
  <2>1. Detached(D)[m] = [message[m] EXCEPT !.media = NoBlob]
    BY <1>2 DEF Detached
  <2>2. message[m] # Unsent
    BY <1>2, NoneAssumption DEF Unsent
  <2> QED
    BY <1>1, <2>1, <2>2 DEF MessageRow
<1>3. CASE message[m].media \notin D
  BY <1>1, <1>3 DEF Detached
<1> QED
  BY <1>2, <1>3

\* The foreign keys after a commit.
LEMMA CommitTypes ==
  ASSUME TypeOK, NEW D \in SUBSET Blob, blob' \in [Blob -> BlobRow],
         users' \subseteq User, avatar' \in [User -> Blob \cup {NoBlob}],
         message' \in [Message -> MessageRow], job' \in [Job -> JobState],
         UNCHANGED <<files, torn, escaped>>,
         \A b \in Blob : /\ blob'[b].owner \in users' \cup {NoUser}
                         /\ blob'[b].status = IF b \in D THEN "none" ELSE blob[b].status,
         \A m \in Message : message'[m].status = "live" => message'[m].sender \in users',
         \A m \in Message : message'[m].media # NoBlob =>
           message'[m].media = message[m].media /\ message[m].media \notin D
  PROVE  TypeOK'
<1>1. \A m \in Message : message'[m].media # NoBlob => blob'[message'[m].media].status # "none"
  BY DEF TypeOK, Referenced, MessageRow, Row
<1> QED
  BY <1>1 DEF TypeOK, Live, Referenced, Row

LEMMA WipeCommitStep ==
  ASSUME MediaInv, NEW t \in Job, WipeCommit(t)
  PROVE  MediaInv'
<1>1. PICK D \in SUBSET Blob, m \in Message : D = job[t].doomed /\ m = job[t].message
  BY DEF MediaInv, TypeOK, JobState, JobsInv, JobInv, WipeCommit
<1>2. /\ job[t].pc \in Removing /\ job[t].todo = {}
      /\ blob' = Without(D) /\ End(t, Uses(message', avatar', users'))
      /\ message' = [Detached(D) EXCEPT ![m].status = "wiped", ![m].media = NoBlob]
      /\ UNCHANGED <<users, avatar, files, history, torn, escaped>>
  BY <1>1 DEF WipeCommit, Removing, history
<1>3. TypeOK /\ job' \in [Job -> JobState]
  BY <1>2, EndJobs DEF MediaInv, TypeOK
<1>4. /\ message' \in [Message -> MessageRow]
      /\ \A n \in Message \ {m} : message'[n] = Detached(D)[n]
      /\ message'[m].status = "wiped" /\ message'[m].media = NoBlob
  BY <1>2, <1>3, DetachedType DEF MessageRow
<1>5. \A n \in Message : message'[n].media # NoBlob =>
        message'[n].media = message[n].media /\ message[n].media \notin D
  BY <1>3, <1>4, DetachedType
<1>6. TypeOK'
  <2>1. \A n \in Message : message'[n].status = "live" => message'[n].sender \in users'
    BY <1>2, <1>3, <1>4, DetachedType DEF TypeOK, Live
  <2>2. blob' \in [Blob -> BlobRow]
        /\ \A b \in Blob : /\ blob'[b].owner \in users' \cup {NoUser}
                           /\ blob'[b].status = IF b \in D THEN "none" ELSE blob[b].status
    BY <1>2, <1>3, WithoutType
  <2> QED
    BY <1>2, <1>3, <1>4, <1>5, <2>1, <2>2, CommitTypes DEF TypeOK
<1>7. \A b \in Blob : blob'[b].status = IF b \in D THEN "none" ELSE blob[b].status
  BY <1>2, <1>3, WithoutType
<1>8. ASSUME NEW q \in Job \ {t}, job[q].pc = "insert"
      PROVE  message'[job[q].message] = Unsent
  <2>1. /\ job[q].message \in Message /\ message[job[q].message] = Unsent
        /\ job[q].message # m
    BY <1>1, <1>8 DEF MediaInv, JobsInv, JobInv, SendInv
  <2> QED
    BY <1>3, <1>4, <2>1, DetachedType
<1>9. \A n \in Message : message'[n].status = "none" => message'[n] = Unsent
  BY <1>3, <1>4, DetachedType DEF MediaInv, UseInv
<1> QED
  BY <1>1, <1>2, <1>5, <1>6, <1>7, <1>8, <1>9, CommitStep

LEMMA SweepCommitStep ==
  ASSUME MediaInv, NEW p \in Job, SweepCommit(p)
  PROVE  MediaInv'
<1>1. PICK D \in SUBSET Blob : D = job[p].doomed
  BY DEF MediaInv, TypeOK, JobState
<1>2. /\ job[p].pc \in Removing /\ job[p].todo = {}
      /\ blob' = Without(D) /\ End(p, Uses(message', avatar', users'))
      /\ message' = Detached(D)
      /\ UNCHANGED <<users, avatar, files, history, torn, escaped>>
  BY <1>1 DEF SweepCommit, Removing, history
<1>3. TypeOK /\ job' \in [Job -> JobState]
  BY <1>2, EndJobs DEF MediaInv, TypeOK
<1>4. \A n \in Message : message'[n].media # NoBlob =>
        message'[n].media = message[n].media /\ message[n].media \notin D
  BY <1>2, <1>3, DetachedType
<1>5. TypeOK'
  <2>1. /\ message' \in [Message -> MessageRow]
        /\ \A n \in Message : message'[n].status = "live" => message'[n].sender \in users'
    BY <1>2, <1>3, DetachedType DEF TypeOK, Live
  <2>2. blob' \in [Blob -> BlobRow]
        /\ \A b \in Blob : /\ blob'[b].owner \in users' \cup {NoUser}
                           /\ blob'[b].status = IF b \in D THEN "none" ELSE blob[b].status
    BY <1>2, <1>3, WithoutType
  <2> QED
    BY <1>2, <1>3, <1>4, <2>1, <2>2, CommitTypes DEF TypeOK
<1>6. \A b \in Blob : blob'[b].status = IF b \in D THEN "none" ELSE blob[b].status
  BY <1>2, <1>3, WithoutType
<1>7. ASSUME NEW q \in Job \ {p}, job[q].pc = "insert"
      PROVE  message'[job[q].message] = Unsent
  <2>1. job[q].message \in Message /\ message[job[q].message] = Unsent
    BY <1>7 DEF MediaInv, JobsInv, JobInv, SendInv
  <2> QED
    BY <1>2, <1>3, <2>1, DetachedType
<1>8. \A n \in Message : message'[n].status = "none" => message'[n] = Unsent
  BY <1>2, <1>3, DetachedType DEF MediaInv, UseInv
<1> QED
  BY <1>1, <1>2, <1>4, <1>5, <1>6, <1>7, <1>8, CommitStep

LEMMA AccountCommitStep ==
  ASSUME MediaInv, NEW t \in Job, AccountCommit(t)
  PROVE  MediaInv'
<1>1. PICK D \in SUBSET Blob, u \in User : D = job[t].doomed /\ u = job[t].user
  BY DEF MediaInv, TypeOK, JobState, JobsInv, JobInv, AccountCommit
<1>2. /\ job[t].pc \in Removing /\ job[t].todo = {}
      /\ users' = users \ {u} /\ avatar' = [avatar EXCEPT ![u] = NoBlob]
      /\ blob' = [b \in Blob |-> IF Without(D)[b].owner = u
                                 THEN [Without(D)[b] EXCEPT !.owner = NoUser]
                                 ELSE Without(D)[b]]
      /\ message' = [m \in Message |->
                       IF message[m].sender = u
                       THEN [Detached(D)[m] EXCEPT !.status = "purged", !.sender = NoUser,
                                                   !.media = NoBlob]
                       ELSE Detached(D)[m]]
      /\ End(t, Uses(message', avatar', users'))
      /\ UNCHANGED <<files, history, torn, escaped>>
  BY <1>1 DEF AccountCommit, Removing, history
<1>3. TypeOK /\ job' \in [Job -> JobState]
  BY <1>2, EndJobs DEF MediaInv, TypeOK
<1>4. users' \subseteq User /\ avatar' \in [User -> Blob \cup {NoBlob}]
  BY <1>2, <1>3 DEF TypeOK
<1>5. ASSUME NEW b \in Blob
      PROVE  /\ blob'[b] \in BlobRow /\ blob'[b].owner \in users' \cup {NoUser}
             /\ blob'[b].status = IF b \in D THEN "none" ELSE blob[b].status
  <2>1. /\ Without(D)[b] \in BlobRow /\ Without(D)[b].owner \in users \cup {NoUser}
        /\ Without(D)[b].status = IF b \in D THEN "none" ELSE blob[b].status
    BY <1>3, WithoutType
  <2>2. CASE Without(D)[b].owner = u
    <3>1. blob'[b] = [Without(D)[b] EXCEPT !.owner = NoUser]
      BY <1>2, <2>2
    <3> QED
      BY <2>1, <3>1 DEF BlobRow
  <2>3. CASE Without(D)[b].owner # u
    BY <1>2, <2>1, <2>3
  <2> QED
    BY <2>2, <2>3
<1>6. ASSUME NEW m \in Message
      PROVE  /\ message'[m] \in MessageRow
             /\ message'[m].status = "live" => message'[m].sender \in users'
             /\ message'[m].media # NoBlob =>
                  message'[m].media = message[m].media /\ message[m].media \notin D
             /\ message[m] = Unsent => message'[m] = Unsent
             /\ message'[m].status = "none" => message[m].status = "none"
  <2>1. /\ Detached(D)[m] \in MessageRow
        /\ Detached(D)[m].status = message[m].status
        /\ Detached(D)[m].sender = message[m].sender
        /\ Detached(D)[m].media # NoBlob =>
             Detached(D)[m].media = message[m].media /\ message[m].media \notin D
        /\ message[m] = Unsent => Detached(D)[m] = Unsent
    BY <1>3, DetachedType
  <2>2. CASE message[m].sender = u
    <3>1. message'[m] = [Detached(D)[m] EXCEPT !.status = "purged", !.sender = NoUser,
                                               !.media = NoBlob]
      BY <1>2, <2>2
    <3>2. message[m] # Unsent
      BY <2>2, NoneAssumption DEF Unsent
    <3> QED
      BY <2>1, <3>1, <3>2 DEF MessageRow
  <2>3. CASE message[m].sender # u
    BY <1>2, <1>3, <2>1, <2>3 DEF TypeOK, Live
  <2> QED
    BY <2>2, <2>3
<1>7. blob' \in [Blob -> BlobRow]
  BY <1>2, <1>5
<1>8. message' \in [Message -> MessageRow]
  BY <1>2, <1>6
<1>9. TypeOK'
  BY <1>2, <1>3, <1>4, <1>5, <1>6, <1>7, <1>8, CommitTypes
<1>10. ASSUME NEW q \in Job \ {t}, job[q].pc = "insert"
      PROVE  message'[job[q].message] = Unsent
  BY <1>6, <1>10 DEF MediaInv, JobsInv, JobInv, SendInv
<1>11. \A b \in Blob : blob'[b].status = IF b \in D THEN "none" ELSE blob[b].status
  BY <1>5
<1>12. \A m \in Message : message'[m].media # NoBlob =>
         message'[m].media = message[m].media /\ message[m].media \notin D
  BY <1>6
<1>13. \A m \in Message : message'[m].status = "none" => message'[m] = Unsent
  BY <1>6 DEF MediaInv, UseInv
<1> QED
  BY <1>1, <1>2, <1>9, <1>10, <1>11, <1>12, <1>13, CommitStep

LEMMA SetAvatarStep ==
  ASSUME MediaInv, NEW u \in User, NEW b \in Blob \cup {NoBlob}, SetAvatar(u, b)
  PROVE  MediaInv'
<1>1. /\ job' = StillUsed(Uses(message', avatar', users'))
      /\ avatar' = [avatar EXCEPT ![u] = b]
      /\ UNCHANGED <<users, blob, message, files, torn, escaped>>
  BY DEF SetAvatar, history
<1>2. ASSUME NEW q \in Job
      PROVE  /\ job'[q] \in JobState
             /\ job'[q].pc = job[q].pc /\ job'[q].blob = job[q].blob
             /\ job'[q].user = job[q].user /\ job'[q].message = job[q].message
             /\ job'[q].doomed = job[q].doomed /\ job'[q].todo = job[q].todo
             /\ job'[q].used = job[q].used \cap Uses(message', avatar', users')
             /\ job[q] = Idle => job'[q] = Idle
  <2>1. PICK U : U = Uses(message', avatar', users')
    OBVIOUS
  <2>2. job'[q] = [job[q] EXCEPT !.used = @ \cap U] /\ job[q] \in JobState
    BY <1>1, <2>1 DEF StillUsed, MediaInv, TypeOK
  <2>3. job[q].used \cap U \in SUBSET (Blob \X {"message", "avatar"})
    BY <2>2 DEF JobState
  <2> QED
    BY <2>1, <2>2, <2>3 DEF JobState, Idle
<1>3. TypeOK'
  <2>1. job' \in [Job -> JobState]
    BY <1>1, <1>2 DEF StillUsed
  <2>2. avatar' \in [User -> Blob \cup {NoBlob}]
    BY <1>1 DEF MediaInv, TypeOK
  <2> QED
    BY <1>1, <2>1, <2>2 DEF MediaInv, TypeOK, Live, Referenced, Row
<1>4. JobsInv'
  <2> SUFFICES ASSUME NEW q \in Job PROVE JobInv(q)' /\ SendInv(q)' /\ SweepInv(q)'
    BY DEF JobsInv
  <2>1. JobInv(q) /\ SendInv(q) /\ SweepInv(q)
    BY DEF MediaInv, JobsInv
  <2>2. JobInv(q)'
    BY <1>2, <2>1 DEF JobInv
  <2>3. SendInv(q)'
    BY <1>1, <1>2, <2>1 DEF SendInv
  <2>4. SweepInv(q)'
    BY <1>2, <2>1 DEF SweepInv
  <2> QED
    BY <2>2, <2>3, <2>4
<1>5. FileInv'
  <2>1. \A q \in Job : Removed(q)' = Removed(q)
    BY <1>2 DEF Removed
  <2>2. \A c : Covered(c) => \/ c \in files' \cup torn'
                              \/ \E s \in Job : c \in job'[s].doomed
    BY <1>1, <1>2 DEF Covered
  <2>3. \A c \in Blob : blob[c].status = "uploaded" => Covered(c)
    BY DEF MediaInv, FileInv
  <2>4. \A q \in Job : job'[q].pc = "written" /\ Row(job'[q].blob) => Covered(job'[q].blob)
    BY <1>2 DEF MediaInv, FileInv
  <2>5. /\ \A c \in files : Row(c) \/ c \in escaped
        /\ \A q \in Job : files \cap Removed(q) \subseteq escaped
    BY DEF MediaInv, FileInv
  <2> QED
    BY <1>1, <2>1, <2>2, <2>3, <2>4, <2>5 DEF FileInv, Covered, Row
<1>6. UseInv'
  BY <1>1 DEF MediaInv, UseInv
<1> QED
  BY <1>3, <1>4, <1>5, <1>6 DEF MediaInv

------------------------------------------------------------------------------
(* The first steps of the jobs, and the choices of the sweep. *)

LEMMA FirstSteps ==
  ASSUME MediaInv, NEW p \in Job,
         \/ \E u \in User, b \in Blob : UploadRead(p, u, b)
         \/ \E u \in User, m \in Message, b \in Blob : SendRead(p, u, m, b)
         \/ \E u \in User, m \in Message : WipeRead(p, u, m)
         \/ \E u \in User : AccountRead(p, u)
         \/ SweepAbandoned(p)
  PROVE  MediaInv'
<1>1. \A q \in Job : job[q].pc = "insert" =>
        job[q].message \in Message /\ message[job[q].message] = Unsent
  BY DEF MediaInv, JobsInv, JobInv, SendInv
<1>2. \A q \in Job : job[q].pc = "insert" => job[q].message # NoMessage
  BY <1>1, NoneAssumption
<1>3. ASSUME NEW u \in User, NEW b \in Blob, UploadRead(p, u, b)
      PROVE  MediaInv'
  <2>1. PICK r : r = [Idle EXCEPT !.pc = "stream", !.user = u, !.blob = b]
    OBVIOUS
  <2>2. /\ r \in JobState /\ r.pc = "stream" /\ r.blob = b
        /\ r.doomed = {} /\ r.message = NoMessage
    BY <2>1 DEF Idle, JobState
  <2> QED
    BY <1>2, <1>3, <2>1, <2>2, BeginStep DEF UploadRead, Removing
<1>4. ASSUME NEW u \in User, NEW m \in Message, NEW b \in Blob, SendRead(p, u, m, b)
      PROVE  MediaInv'
  <2>1. PICK r : r = [Idle EXCEPT !.pc = "insert", !.user = u, !.blob = b, !.message = m]
    OBVIOUS
  <2>2. /\ r \in JobState /\ r.pc = "insert" /\ r.blob = b
        /\ r.doomed = {} /\ r.message = m
    BY <2>1 DEF Idle, JobState
  <2>3. message[m] = Unsent
    BY <1>4 DEF MediaInv, UseInv, SendRead
  <2>4. blob[b].status # "reserved" /\ \A q \in Job : job[q].message # m
    BY <1>4 DEF SendRead, Attachable
  <2>5. Begin(p, r) /\ UNCHANGED <<dbVars, files, history>>
    BY <1>4, <2>1 DEF SendRead
  <2> QED
    BY <2>2, <2>3, <2>4, <2>5, BeginStep DEF Removing
<1>5. ASSUME NEW u \in User, NEW m \in Message, WipeRead(p, u, m)
      PROVE  MediaInv'
  <2>1. PICK r : r = [Idle EXCEPT !.pc = "wipe", !.user = u, !.message = m,
                                  !.blob = message[m].media]
    OBVIOUS
  <2>2. message[m].media \in Blob \cup {NoBlob} /\ message[m] # Unsent
    <3>1. message[m] \in MessageRow /\ message[m].status = "live"
      BY <1>5 DEF MediaInv, TypeOK, WipeRead, Live
    <3>2. Unsent.status = "none"
      BY DEF Unsent
    <3> QED
      BY <3>1, <3>2 DEF MessageRow
  <2>3. /\ r \in JobState /\ r.pc = "wipe" /\ r.doomed = {} /\ r.message = m
    BY <2>1, <2>2 DEF Idle, JobState
  <2>4. Begin(p, r) /\ UNCHANGED <<dbVars, files, history>>
    BY <1>5, <2>1 DEF WipeRead
  <2> QED
    BY <1>1, <2>2, <2>3, <2>4, BeginStep DEF Removing
<1>6. ASSUME NEW u \in User, AccountRead(p, u)
      PROVE  MediaInv'
  <2>1. PICK owned \in SUBSET Blob : owned = {b \in Blob : Row(b) /\ blob[b].owner = u}
    OBVIOUS
  <2>2. PICK r : r = [Idle EXCEPT !.pc = "deleting", !.user = u, !.doomed = owned,
                                  !.todo = owned]
    OBVIOUS
  <2>3. /\ r \in JobState /\ r.pc = "deleting" /\ r.doomed = owned /\ r.todo = owned
        /\ r.message = NoMessage /\ r.user = u
    BY <2>2 DEF Idle, JobState
  <2>4. Begin(p, r) /\ UNCHANGED <<dbVars, files, history>>
    BY <1>6, <2>1, <2>2 DEF AccountRead
  <2> QED
    BY <1>2, <2>3, <2>4, BeginStep DEF Removing
<1>7. CASE SweepAbandoned(p)
  <2>1. PICK old \in SUBSET Blob : old = Abandoned
    BY DEF Abandoned
  <2>2. PICK r : r = [Idle EXCEPT !.pc = "abandoned", !.doomed = old, !.todo = old]
    OBVIOUS
  <2>3. /\ r \in JobState /\ r.pc = "abandoned" /\ r.doomed = old /\ r.todo = old
        /\ r.message = NoMessage
    BY <2>2 DEF Idle, JobState
  <2>4. Begin(p, r) /\ UNCHANGED <<dbVars, files, history>>
    BY <1>7, <2>1, <2>2 DEF SweepAbandoned
  <2> QED
    BY <1>2, <2>3, <2>4, BeginStep DEF Removing
<1> QED
  BY <1>3, <1>4, <1>5, <1>6, <1>7

LEMMA WipeBlobStep ==
  ASSUME MediaInv, NEW t \in Job, WipeBlob(t)
  PROVE  MediaInv'
<1>1. PICK D \in SUBSET Blob : D = {b \in Blob : b = job[t].blob /\ Row(b)}
  OBVIOUS
<1>2. /\ job \in [Job -> JobState] /\ job[t] \in JobState /\ job[t].pc = "wipe"
      /\ job[t].doomed = {} /\ job[t].message \in Message
      /\ job' = [job EXCEPT ![t].pc = "wiping", ![t].doomed = D, ![t].todo = D]
  BY <1>1 DEF MediaInv, TypeOK, JobsInv, JobInv, WipeBlob
<1>3. PICK r : r = [job[t] EXCEPT !.pc = "wiping", !.doomed = D, !.todo = D]
  OBVIOUS
<1>4. /\ r \in JobState /\ r.pc = "wiping" /\ r.doomed = D /\ r.todo = D
      /\ r.message = job[t].message
  BY <1>2, <1>3 DEF JobState
<1>5. /\ job' \in [Job -> JobState] /\ job'[t] = r
      /\ \A q \in Job \ {t} : job'[q] = job[q]
  BY <1>2, <1>3, <1>4
<1>6. JobInv(t)' /\ SendInv(t)' /\ SweepInv(t)' /\ Removed(t)' = {}
  BY <1>2, <1>4, <1>5 DEF JobInv, SendInv, SweepInv, Removed, Removing, Sweeping
<1>7. \A q \in Job \ {t} : job[q].pc = "insert" => job[q].message # job'[t].message
  BY <1>4, <1>5 DEF MediaInv, JobsInv, SendInv
<1>8. UNCHANGED <<dbVars, files, history>>
  BY DEF WipeBlob
<1> QED
  BY <1>2, <1>4, <1>5, <1>6, <1>7, <1>8, JobStep

LEMMA SweepChoice ==
  ASSUME MediaInv, NEW p \in Job,
         SweepCandidates(p) \/ SweepReferenced(p) \/ SweepAvatars(p)
  PROVE  MediaInv'
<1>1. /\ job \in [Job -> JobState] /\ job[p] \in JobState /\ JobInv(p) /\ SweepInv(p)
      /\ UNCHANGED <<dbVars, files, history>>
  BY DEF MediaInv, TypeOK, JobsInv, SweepCandidates, SweepReferenced, SweepAvatars
<1>2. UNCHANGED <<users, avatar, blob, message>>
  BY <1>1 DEF dbVars
<1>3. ASSUME NEW r \in JobState, job' = [job EXCEPT ![p] = r], r.message = job[p].message,
             r.pc \in {"referenced", "avatars", "orphans"},
             r.pc = "orphans" => r.todo \subseteq r.doomed,
             r.used \subseteq Uses(message, avatar, users),
             \A x \in r.used : x[1] \notin r.doomed,
             r.pc = "avatars" => \A x \in r.used : x[2] = "message" => x[1] \notin r.todo,
             job[p].doomed \subseteq r.doomed,
             IF r.pc = "orphans" THEN r.doomed \ r.todo \subseteq Removed(p)
                                 ELSE r.doomed \subseteq Removed(p)
      PROVE  MediaInv'
  <2>1. /\ job' \in [Job -> JobState] /\ job'[p] = r
        /\ \A q \in Job \ {p} : job'[q] = job[q]
    BY <1>1, <1>3
  <2>2. JobInv(p)' /\ SendInv(p)'
    BY <1>3, <2>1 DEF JobInv, SendInv, Removing
  <2>3. SweepInv(p)'
    BY <1>2, <1>3, <2>1 DEF SweepInv, Sweeping
  <2>4. Removed(p)' \subseteq Removed(p)
    BY <1>3, <2>1 DEF Removed
  <2>5. \A q \in Job \ {p} : job[q].pc = "insert" => job[q].message # job'[p].message
    BY <1>3, <2>1 DEF MediaInv, JobsInv, SendInv
  <2> QED
    BY <1>1, <1>3, <2>1, <2>2, <2>3, <2>4, <2>5, JobStep
<1>4. CASE SweepCandidates(p)
  <2>1. PICK C \in SUBSET Blob, U \in SUBSET (Blob \X {"message", "avatar"}) :
          /\ C = Candidates
          /\ U = {x \in Uses(message, avatar, users) : x[1] \in Candidates \ job[p].doomed}
    <3>1. Candidates \in SUBSET Blob
      BY DEF Candidates
    <3>2. Uses(message, avatar, users) \subseteq (Blob \cup {NoBlob}) \X {"message", "avatar"}
      BY DEF Uses, MediaInv, TypeOK, MessageRow
    <3> QED
      BY <3>1, <3>2, NoneAssumption
  <2>2. PICK r : r = [job[p] EXCEPT !.pc = "referenced", !.todo = C, !.used = U]
    OBVIOUS
  <2>3. /\ r \in JobState /\ r.pc = "referenced" /\ r.used = U
        /\ r.doomed = job[p].doomed /\ r.message = job[p].message
    BY <1>1, <2>2 DEF JobState
  <2>4. job' = [job EXCEPT ![p] = r]
    BY <1>1, <1>4, <2>1, <2>2 DEF SweepCandidates, JobState
  <2>5. Removed(p) = job[p].doomed
    BY <1>4 DEF SweepCandidates, Removed
  <2> QED
    BY <1>3, <2>1, <2>3, <2>4, <2>5
<1>5. CASE SweepReferenced(p)
  <2>1. PICK T \in SUBSET Blob : T = job[p].todo \ Referenced
    BY <1>1 DEF JobState
  <2>2. PICK r : r = [job[p] EXCEPT !.pc = "avatars", !.todo = T]
    OBVIOUS
  <2>3. /\ r \in JobState /\ r.pc = "avatars" /\ r.used = job[p].used /\ r.todo = T
        /\ r.doomed = job[p].doomed /\ r.message = job[p].message
    BY <1>1, <2>2 DEF JobState
  <2>4. job' = [job EXCEPT ![p] = r]
    BY <1>1, <1>5, <2>1, <2>2 DEF SweepReferenced, JobState
  <2>5. Removed(p) = job[p].doomed
    BY <1>5 DEF SweepReferenced, Removed
  <2>6. /\ job[p].used \subseteq Uses(message, avatar, users)
        /\ \A x \in job[p].used : x[1] \notin job[p].doomed
    BY <1>1, <1>5 DEF SweepReferenced, SweepInv, Sweeping
  <2>7. \A x \in job[p].used : x[2] = "message" => x[1] \notin T
    BY <2>1, <2>6 DEF Uses, Referenced
  <2> QED
    BY <1>3, <2>3, <2>4, <2>5, <2>6, <2>7
<1>6. CASE SweepAvatars(p)
  <2>1. PICK T \in SUBSET Blob : T = Orphans(p) /\ T = job[p].todo \ Avatars
    BY <1>1 DEF JobState, Orphans
  <2>2. PICK r : r = [job[p] EXCEPT !.pc = "orphans", !.todo = T,
                                    !.doomed = job[p].doomed \cup T]
    OBVIOUS
  <2>3. /\ r \in JobState /\ r.pc = "orphans" /\ r.used = job[p].used /\ r.todo = T
        /\ r.doomed = job[p].doomed \cup T /\ r.message = job[p].message
    BY <1>1, <2>2 DEF JobState
  <2>4. job' = [job EXCEPT ![p] = r]
    BY <1>1, <1>6, <2>1, <2>2 DEF SweepAvatars, JobState
  <2>5. Removed(p) = job[p].doomed
    BY <1>6 DEF SweepAvatars, Removed
  <2>6. /\ job[p].used \subseteq Uses(message, avatar, users)
        /\ \A x \in job[p].used : x[1] \notin job[p].doomed
        /\ \A x \in job[p].used : x[2] = "message" => x[1] \notin job[p].todo
    BY <1>1, <1>6 DEF SweepAvatars, SweepInv, Sweeping
  <2>7. \A x \in job[p].used : x[2] = "message" \/ x[1] \in Avatars
    BY <2>6 DEF Uses, Avatars
  <2>8. \A x \in job[p].used : x[1] \notin T
    BY <2>1, <2>6, <2>7
  <2> QED
    BY <1>3, <2>3, <2>4, <2>5, <2>6, <2>8
<1> QED
  BY <1>4, <1>5, <1>6

------------------------------------------------------------------------------
LEMMA NextMedia == MediaInv /\ [Next]_vars => MediaInv'
<1> SUFFICES ASSUME MediaInv, [Next]_vars PROVE MediaInv'
  OBVIOUS
<1> Task \subseteq Job /\ Sweeper \subseteq Job
  BY DEF Job
<1>1. ASSUME NEW t \in Task, TaskNext(t) PROVE MediaInv'
  <2>1. t \in Job
    OBVIOUS
  <2> QED
    BY <1>1, <2>1, FirstSteps, UploadWriteStep, UploadCommitStep, SendCommitStep,
       WipeBlobStep, WipeCommitStep, AccountCommitStep, UnlinkStep, FailStep DEF TaskNext
<1>2. ASSUME NEW p \in Sweeper, SweepNext(p) PROVE MediaInv'
  <2>1. p \in Job
    OBVIOUS
  <2> QED
    BY <1>2, <2>1, FirstSteps, SweepChoice, SweepCommitStep, UnlinkStep, FailStep
       DEF SweepNext
<1>3. ASSUME NEW u \in User, NEW b \in Blob, Reserve(u, b) PROVE MediaInv'
  BY <1>3, ReserveStep
<1>4. ASSUME NEW u \in User, NEW b \in Blob \cup {NoBlob}, SetAvatar(u, b) PROVE MediaInv'
  BY <1>4, SetAvatarStep
<1>5. ASSUME NEW b \in Blob, Age(b) PROVE MediaInv'
  BY <1>5, AgeStep
<1>6. CASE UNCHANGED vars
  <2>1. UNCHANGED <<users, avatar, blob, message, files, job, torn, escaped>>
    BY <1>6 DEF vars, dbVars, history
  <2>2. TypeOK'
    BY <2>1 DEF MediaInv, TypeOK, Live, Referenced, Row
  <2>3. JobsInv'
    BY <2>1 DEF MediaInv, JobsInv, JobInv, SendInv, SweepInv
  <2>4. FileInv'
    BY <2>1 DEF MediaInv, FileInv, Covered, Row, Removed
  <2>5. UseInv'
    BY <2>1 DEF MediaInv, UseInv
  <2> QED
    BY <2>2, <2>3, <2>4, <2>5 DEF MediaInv
<1> QED
  BY <1>1, <1>2, <1>3, <1>4, <1>5, <1>6 DEF Next

\* The types of rows, files and jobs, and the foreign keys of media_blobs and messages.
THEOREM MediaTypes == Spec => []TypeOK
<1>1. MediaInv => TypeOK
  BY DEF MediaInv
<1> QED
  BY <1>1, InitMedia, NextMedia, PTL DEF Spec

\* A message's attachment can be fetched: its blob is uploaded and its file is there,
\* unless a deletion is under way or failed half-way (_handle_message, sweep_once,
\* delete_message, delete_user_by_id).
THEOREM AttachmentsReadable == Spec => []AttachmentReadable
<1>1. MediaInv => AttachmentReadable
  <2> SUFFICES ASSUME MediaInv, NEW b \in Referenced
               PROVE  /\ blob[b].status = "uploaded"
                      /\ b \in files \cup torn \/ \E p \in Job : b \in job[p].doomed
    BY DEF AttachmentReadable
  <2>1. PICK m \in Message : b = message[m].media /\ b # NoBlob
    BY DEF Referenced
  <2>2. b \in Blob /\ blob[b].status = "uploaded"
    BY <2>1 DEF MediaInv, TypeOK, MessageRow, UseInv
  <2> QED
    BY <2>2 DEF MediaInv, FileInv, Covered
<1> QED
  BY <1>1, InitMedia, NextMedia, PTL DEF Spec

\* A file without a row comes from an upload that outlasted the deletion of its row, or
\* from a storage that refused to remove it (upload_blob, delete_user_by_id).
THEOREM StrayFilesAreExplained == Spec => []StrayFilesExplained
<1>1. MediaInv => StrayFilesExplained
  BY DEF MediaInv, FileInv, StrayFilesExplained
<1> QED
  BY <1>1, InitMedia, NextMedia, PTL DEF Spec

\* A blob that was in use all along is not among those the sweep removes (sweep_once).
THEOREM UsedMediaIsKept == Spec => []UsedMediaKept
<1>1. MediaInv => UsedMediaKept
  BY DEF MediaInv, JobsInv, SweepInv, Sweeping, UsedMediaKept, Job
<1> QED
  BY <1>1, InitMedia, NextMedia, PTL DEF Spec
==============================================================================
