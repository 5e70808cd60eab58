------------------------------- MODULE Devices -------------------------------
(***************************************************************************)
(* Registered devices and their push tokens                                *)
(* (app/services/device_service.py, app/api/v1/endpoints/devices.py) and   *)
(* the notifications sent to them (app/services/push_service.py).  A push  *)
(* token stands for a phone; no key of the table makes it unique.  Each    *)
(* request is a task with one transaction, a push one more.                *)
(***************************************************************************)
EXTENDS Requests

CONSTANTS
  MaxDevices,  \* bound on the device rows created
  PushToken,   \* push tokens that Expo gives to phones
  NoPush       \* a row without token, or no token in the request

ASSUME DevicesAssumption == NoPush \notin PushToken /\ MaxDevices \in Nat

VARIABLES
  alive,    \* accounts that exist
  unused,   \* ids not drawn yet
  holder,   \* holder[d]: user of row d; NoUser: no such row
  token,    \* token[d]: its push token
  job,      \* job[t]: the request or push that task t runs
  \* History variable; no action reads it.
  met       \* <<k, u, v>>: registrations of k by u and v were in flight together

devicesVars == <<alive, unused, holder, token, job, met>>
rows == <<unused, holder, token>>

------------------------------------------------------------------------------
\* Ids of rows are uuids, never drawn twice; their names tell in which order.
Device == 1 .. MaxDevices
NoDevice == 0

Job == [pc : {"idle", "evict", "select", "insert", "update", "send", "stale"},
        user : User \cup {NoUser}, token : PushToken \cup {NoPush},
        found : Device \cup {NoDevice}, evicts : SUBSET Device, targets : SUBSET Device]

NoJob == [pc |-> "idle", user |-> NoUser, token |-> NoPush, found |-> NoDevice,
          evicts |-> {}, targets |-> {}]

Rows == {d \in Device : holder[d] # NoUser}
Holding(u, k) == {d \in Rows : holder[d] = u /\ token[d] = k}

\* The types, and the foreign key of a device.
DevicesTypeOK ==
  /\ alive \subseteq User /\ unused \subseteq Device
  /\ holder \in [Device -> alive \cup {NoUser}]
  /\ \A d \in unused : holder[d] = NoUser
  /\ token \in [Device -> PushToken \cup {NoPush}]
  /\ job \in [Task -> Job]
  /\ met \subseteq PushToken \X User \X User

DevicesInit ==
  /\ alive = User /\ unused = Device
  /\ holder = [d \in Device |-> NoUser]
  /\ token = [d \in Device |-> NoPush]
  /\ job = [t \in Task |-> NoJob]
  /\ met = {}

------------------------------------------------------------------------------
(* Pieces of the handlers. *)

JobStarts(t, r) == job[t].pc = "idle" /\ job' = [job EXCEPT ![t] = r]
JobEnds(t) == job' = [job EXCEPT ![t] = NoJob]

\* Rows that an open transaction has deleted and not yet committed: whoever
\* writes them waits.
Locked(t) == UNION {job[s].evicts : s \in Task \ {t}}

\* The rows a registration deletes: the token is another user's there.
\* (Mutant: its own rows.)
OwnRows(u, k) == Holding(u, k)
Evicted(u, k) == {d \in Rows : token[d] = k /\ holder[d] # u}

\* The row to update, if there is one.  (Mutant: none is looked for.)
NothingFound(u, k) == {}
Found(u, k) == IF k = NoPush THEN {} ELSE Holding(u, k)

\* The foreign key of a device.  (Mutant: none.)
AnyUser(u) == u \in User
AccountExists(u) == u \in alive

Registering == {"evict", "select", "insert", "update"}

\* The registrations of k in flight beside one of u by task t.
Beside(t, u, k) ==
  {s \in Task \ {t} : job[s].pc \in Registering /\ job[s].token = k}
Meet(t, u, k) ==
  met' = met \cup {<<k, u, job[s].user>> : s \in Beside(t, u, k)}
             \cup {<<k, job[s].user, u>> : s \in Beside(t, u, k)}

------------------------------------------------------------------------------
(* register_device. *)

RegisterDevice(t, u, k) ==
  /\ u \in alive
  /\ JobStarts(t, [NoJob EXCEPT !.pc = IF k = NoPush THEN "insert" ELSE "evict",
                                !.user = u, !.token = k])
  /\ IF k = NoPush THEN UNCHANGED met ELSE Meet(t, u, k)
  /\ UNCHANGED <<alive, rows>>

\* The DELETE takes the locks of the rows and waits for those others hold.
Evict(t) ==
  LET evicts == Evicted(job[t].user, job[t].token)
  IN  /\ job[t].pc = "evict"
      /\ evicts \cap Locked(t) = {}
      /\ job' = [job EXCEPT ![t].pc = "select", ![t].evicts = evicts]
      /\ UNCHANGED <<alive, rows, met>>

\* scalar_one_or_none: none, one, or an error that ends the request.
Select(t) ==
  LET found == Found(job[t].user, job[t].token)
  IN  /\ job[t].pc = "select"
      /\ \/ /\ found = {}
            /\ job' = [job EXCEPT ![t].pc = "insert"]
         \/ \E d \in Device :
              /\ found = {d}
              /\ job' = [job EXCEPT ![t].pc = "update", ![t].found = d]
         \/ /\ \E d, e \in found : d # e
            /\ JobEnds(t)
      /\ UNCHANGED <<alive, rows, met>>

\* The rows that the transaction deleted go when it commits.
InsertDevice(t) ==
  LET r == job[t]
  IN  /\ r.pc = "insert"
      /\ \/ /\ AccountExists(r.user)
            /\ \E d \in unused :
                 /\ \A e \in unused : d <= e
                 /\ unused' = unused \ {d}
                 /\ holder' = [e \in Device |-> IF e = d THEN r.user
                                                ELSE IF e \in r.evicts THEN NoUser
                                                ELSE holder[e]]
                 /\ token' = [token EXCEPT ![d] = r.token]
         \/ /\ ~AccountExists(r.user)
            /\ UNCHANGED rows
      /\ JobEnds(t)
      /\ UNCHANGED <<alive, met>>

\* Name and platform of the row that was found; its token is not written again.
\* If the row is gone by now the UPDATE fails, and nothing stays.
UpdateDevice(t) ==
  LET r == job[t]
  IN  /\ r.pc = "update"
      /\ r.found \notin Locked(t)
      /\ holder' = IF holder[r.found] = NoUser THEN holder
                   ELSE [e \in Device |-> IF e \in r.evicts THEN NoUser ELSE holder[e]]
      /\ JobEnds(t)
      /\ UNCHANGED <<alive, unused, token, met>>

\* clear_push_token: one UPDATE of the rows of the caller.
ClearPushToken(u, k) ==
  /\ Holding(u, k) # {}
  /\ \A s \in Task : Holding(u, k) \cap job[s].evicts = {}
  /\ token' = [d \in Device |-> IF d \in Holding(u, k) THEN NoPush ELSE token[d]]
  /\ UNCHANGED <<alive, unused, holder, job, met>>

------------------------------------------------------------------------------
(* send_push_to_users and _send_expo_batch. *)

\* One row for each token of the user: of several rows the last one read.
Push(t, u) ==
  \E targets \in SUBSET {d \in Rows : holder[d] = u /\ token[d] # NoPush} :
    /\ targets # {}
    /\ \A d, e \in targets : token[d] = token[e] => d = e
    /\ {token[d] : d \in targets} = {token[d] : d \in {e \in Rows : holder[e] = u}}
                                      \ {NoPush}
    /\ JobStarts(t, [NoJob EXCEPT !.pc = "send", !.user = u, !.targets = targets])
    /\ UNCHANGED <<alive, rows, met>>

\* Expo answers: some phones are gone.  Or it fails, or all phones are there.
ExpoAnswers(t) ==
  /\ job[t].pc = "send"
  /\ \/ \E gone \in SUBSET job[t].targets \ {{}} :
          job' = [job EXCEPT ![t].pc = "stale", ![t].targets = gone]
     \/ JobEnds(t)
  /\ UNCHANGED <<alive, rows, met>>

\* Their rows are deleted by id, whatever token they have by now.
RemoveStale(t) ==
  /\ job[t].pc = "stale"
  /\ job[t].targets \cap Locked(t) = {}
  /\ holder' = [d \in Device |-> IF d \in job[t].targets THEN NoUser ELSE holder[d]]
  /\ JobEnds(t)
  /\ UNCHANGED <<alive, unused, token, met>>

------------------------------------------------------------------------------
\* delete_user_by_id: the devices go with the account.
DeleteOwner(u) ==
  /\ u \in alive
  /\ alive' = alive \ {u}
  /\ holder' = [d \in Device |-> IF holder[d] = u THEN NoUser ELSE holder[d]]
  /\ UNCHANGED <<unused, token, job, met>>

\* A database error, or the worker stops: nothing of the transaction stays.
JobFails(t) ==
  /\ job[t].pc # "idle"
  /\ JobEnds(t)
  /\ UNCHANGED <<alive, rows, met>>

DevicesNext ==
  \/ \E t \in Task :
       \/ \E u \in User, k \in PushToken \cup {NoPush} : RegisterDevice(t, u, k)
       \/ Evict(t) \/ Select(t) \/ InsertDevice(t) \/ UpdateDevice(t)
       \/ \E u \in User : Push(t, u)
       \/ ExpoAnswers(t) \/ RemoveStale(t)
       \/ JobFails(t)
  \/ \E u \in User : DeleteOwner(u) \/ \E k \in PushToken : ClearPushToken(u, k)

DevicesSpec == DevicesInit /\ [][DevicesNext]_devicesVars

------------------------------------------------------------------------------
(* Safety. *)

\* register_device: a phone that was signed in to another account belongs to the
\* last one to register; two accounts hold one token only if their
\* registrations were in flight together.
TokenReclaimed ==
  \A d, e \in Rows :
    token[d] = token[e] /\ token[d] # NoPush /\ holder[d] # holder[e]
      => <<token[d], holder[d], holder[e]>> \in met

\* register_device: the same phone is registered again by updating its row; only
\* registrations that race for it make more than one.
DuplicateBound ==
  \A u \in User, k \in PushToken : Cardinality(Holding(u, k)) <= Cardinality(Task)
==============================================================================
