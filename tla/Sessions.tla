------------------------------ MODULE Sessions -------------------------------
(***************************************************************************)
(* Accounts and refresh tokens (app/api/v1/endpoints/auth.py,              *)
(* app/services/auth_service.py, the password change and the deletion of   *)
(* app/api/v1/endpoints/users.py, the session pass of                      *)
(* app/services/maintenance.py).  A request is a task with one             *)
(* transaction, split where it awaits something another request can see;   *)
(* bcrypt runs on a worker thread, so what was read is old when it is      *)
(* used.  Requests that are refused change nothing here: failed logins     *)
(* are counted in Lockout.                                                 *)
(***************************************************************************)
EXTENDS Requests

CONSTANTS
  Number,          \* private numbers
  Password,        \* login passwords and the delete password of everybody
  DeletePassword,
  Newcomer,        \* the accounts that may register
  MaxTokens,       \* bound on the refresh tokens issued
  NoNumber

ASSUME SessionsAssumption ==
  /\ NoNumber \notin Number /\ DeletePassword \in Password
  /\ Newcomer \subseteq User /\ MaxTokens \in Nat

VARIABLES
  unborn,    \* newcomers whose uuid is not drawn yet
  number,    \* number[u]: private_number of account u; NoNumber: no such row
  password,  \* password[u]: what login_password_hash verifies
  owner,     \* owner[k]: user of the session row of token k; NoUser: no such row
  offers,    \* numbers for which a registration token was issued
  intents,   \* accounts for which a delete-intent token was issued
  login,     \* login[t]: the request that task t serves
  \* History variables; no action reads them.
  parent,    \* parent[k]: the token exchanged for k; k itself: a login
  under,     \* under[k]: the password the holder of k last proved to know
  raced      \* tokens issued by a request that overlapped a password change

accountVars == <<unborn, number, password>>
tokenVars   == <<offers, intents>>
issueVars   == <<parent, under, raced>>
sessionsVars == <<accountVars, owner, tokenVars, issueVars, login>>

------------------------------------------------------------------------------
\* Tokens are random and never drawn twice; their names tell in which order.
Token == 1 .. MaxTokens
NoToken == 0

LoginPassword == Password \ {DeletePassword}
Account == {u \in User : number[u] # NoNumber}
Live(u) == {k \in Token : owner[k] = u}
Issued == {k \in Token : parent[k] # NoToken}
Successors(k) == {s \in Issued : parent[s] = k /\ s # k}

LoginRequest ==
  [pc : {"idle", "number", "open", "refresh", "change", "select"},
   user : User \cup {NoUser}, number : Number \cup {NoNumber},
   password : Password, token : Token \cup {NoToken}, seen : SUBSET Token,
   raced : BOOLEAN]

NoLogin == [pc |-> "idle", user |-> NoUser, number |-> NoNumber,
            password |-> DeletePassword, token |-> NoToken, seen |-> {},
            raced |-> FALSE]

\* The types; numbers are unique, and sessions refer to accounts.
SessionsTypeOK ==
  /\ unborn \subseteq Newcomer
  /\ number \in [User -> Number \cup {NoNumber}]
  /\ \A u \in unborn : number[u] = NoNumber
  /\ \A u, v \in Account : number[u] = number[v] => u = v
  /\ password \in [User -> LoginPassword \cup {DeletePassword}]
  /\ owner \in [Token -> User \cup {NoUser}]
  /\ \A k \in Token : owner[k] # NoUser => owner[k] \in Account /\ k \in Issued
  /\ offers \subseteq Number /\ intents \subseteq Newcomer \ unborn
  /\ login \in [Task -> LoginRequest]
  /\ parent \in [Token -> Token \cup {NoToken}]
  /\ under \in [Token -> Password]
  /\ raced \subseteq Token

SessionsInit ==
  /\ unborn = Newcomer
  /\ number = [u \in User |-> NoNumber]
  /\ password = [u \in User |-> DeletePassword]
  /\ owner = [k \in Token |-> NoUser]
  /\ offers = {} /\ intents = {}
  /\ login = [t \in Task |-> NoLogin]
  /\ parent = [k \in Token |-> NoToken]
  /\ under = [k \in Token |-> DeletePassword]
  /\ raced = {}

------------------------------------------------------------------------------
(* Pieces of the handlers. *)

Starts(t, r) == login[t].pc = "idle" /\ login' = [login EXCEPT ![t] = r]
Moves(t, pc) == login' = [login EXCEPT ![t].pc = pc]
Ends(t) == login' = [login EXCEPT ![t] = NoLogin]

Taken(n) == \E u \in Account : number[u] = n

\* A change of the password in flight for u: its user row is read, its commit
\* is to come.
Changing(u) == \E c \in Task : login[c].pc \in {"change", "select"} /\ login[c].user = u

\* The foreign key of a session.  (Mutant: none.)
NoForeignKey(u) == u \in User
UserExists(u) == u \in Account

\* create_session: a row for a new token k, for the exchanged token p.
Open(t, u, k, p, pw) ==
  /\ k \notin Issued /\ 1 .. k - 1 \subseteq Issued
  /\ parent' = [parent EXCEPT ![k] = p]
  /\ under' = [under EXCEPT ![k] = pw]
  /\ raced' = IF login[t].raced \/ Changing(u) \/ p \in raced
              THEN raced \cup {k} ELSE raced

\* The row that a rotation removes.  (Mutant: none.)
NotRotated(t) == {}
Rotated(t) == {login[t].token}

\* The sessions that a password change removes.  (Mutant: without a token of
\* the caller, none.)
KeptWithoutToken(t) ==
  IF login[t].token = NoToken THEN {} ELSE login[t].seen \ {login[t].token}
Doomed(t) == login[t].seen \ {login[t].token}

------------------------------------------------------------------------------
(* register_begin and register. *)

\* A number free at this moment, and a signed token that binds it.
RegisterBegin(n) ==
  /\ ~Taken(n)
  /\ offers' = offers \cup {n}
  /\ UNCHANGED <<accountVars, owner, intents, issueVars, login>>

\* The token is verified; the two passwords differ; then they are hashed.
Register(t, n, pw) ==
  /\ n \in offers /\ pw \in LoginPassword
  /\ Starts(t, [NoLogin EXCEPT !.pc = "number", !.number = n, !.password = pw])
  /\ UNCHANGED <<accountVars, owner, tokenVars, issueVars>>

\* The unique number decides: 409, or the account and its first session.
RegisterCommit(t) ==
  LET r == login[t]
  IN  /\ r.pc = "number"
      /\ \/ /\ Taken(r.number)
            /\ UNCHANGED <<accountVars, owner, issueVars>>
         \/ /\ ~Taken(r.number)
            /\ \E u \in unborn, k \in Token :
                 /\ unborn' = unborn \ {u}
                 /\ number' = [number EXCEPT ![u] = r.number]
                 /\ password' = [password EXCEPT ![u] = r.password]
                 /\ Open(t, u, k, k, r.password)
                 /\ owner' = [owner EXCEPT ![k] = u]
      /\ Ends(t)
      /\ UNCHANGED <<tokenVars>>

------------------------------------------------------------------------------
(* login. *)

\* authenticate_or_delete_intent: the user row is read and both hashes are
\* verified.  The delete password opens no session.
LoginRead(t, n, pw) ==
  /\ login[t].pc = "idle"
  /\ \E u \in Account :
       /\ number[u] = n
       /\ \/ /\ pw = password[u]
             /\ Starts(t, [NoLogin EXCEPT !.pc = "open", !.user = u, !.password = pw])
             /\ UNCHANGED intents
          \/ /\ pw = DeletePassword
             /\ intents' = intents \cup {u}
             /\ UNCHANGED login
  /\ UNCHANGED <<accountVars, owner, offers, issueVars>>

\* The session is inserted and committed, unless the account went.
LoginCommit(t) ==
  LET r == login[t]
  IN  /\ r.pc = "open"
      /\ \/ /\ UserExists(r.user)
            /\ \E k \in Token : /\ Open(t, r.user, k, k, r.password)
                                /\ owner' = [owner EXCEPT ![k] = r.user]
         \/ /\ ~UserExists(r.user)
            /\ UNCHANGED <<owner, issueVars>>
      /\ Ends(t)
      /\ UNCHANGED <<accountVars, tokenVars>>

------------------------------------------------------------------------------
(* refresh and logout. *)

RefreshRead(t, k) ==
  /\ owner[k] # NoUser
  /\ Starts(t, [NoLogin EXCEPT !.pc = "refresh", !.user = owner[k], !.token = k])
  /\ UNCHANGED <<accountVars, owner, tokenVars, issueVars>>

\* The old row is deleted, a missing one without an error, and a new one
\* inserted, unless the account went.
RefreshCommit(t) ==
  LET r == login[t]
  IN  /\ r.pc = "refresh"
      /\ \/ /\ UserExists(r.user)
            /\ \E k \in Token :
                 /\ Open(t, r.user, k, r.token, under[r.token])
                 /\ owner' = [s \in Token |-> CASE s = k -> r.user
                                                [] s # k /\ s \in Rotated(t) -> NoUser
                                                [] OTHER -> owner[s]]
         \/ /\ ~UserExists(r.user)
            /\ UNCHANGED <<owner, issueVars>>
      /\ Ends(t)
      /\ UNCHANGED <<accountVars, tokenVars>>

\* invalidate_session: the row is looked up and deleted.
Logout(k) ==
  /\ owner[k] # NoUser
  /\ owner' = [owner EXCEPT ![k] = NoUser]
  /\ UNCHANGED <<accountVars, tokenVars, issueVars, login>>

------------------------------------------------------------------------------
(* change_password.  login[t].password is the new password. *)

\* get_current_user loads the row; the current password matches it, and the new
\* one is not the delete password.
ChangeRead(t, u, new, keep) ==
  /\ u \in Account /\ new # DeletePassword
  /\ keep \in Live(u) \cup {NoToken}
  /\ Starts(t, [NoLogin EXCEPT !.pc = "change", !.user = u, !.password = new,
                               !.token = keep])
  /\ UNCHANGED <<accountVars, owner, tokenVars, issueVars>>

\* The new hash is computed, then the sessions of the user are read.
ChangeSelect(t) ==
  /\ login[t].pc = "change"
  /\ login' = [login EXCEPT ![t].pc = "select", ![t].seen = Live(login[t].user)]
  /\ UNCHANGED <<accountVars, owner, tokenVars, issueVars>>

\* The row is updated, an error if the account went, and the sessions that were
\* read are deleted.  (History: the caller knows the new password; whatever is
\* in flight for this account has raced with the change.)
ChangeCommit(t) ==
  LET r == login[t]
      beside == {s \in Task \ {t} : login[s].user = r.user}
  IN  /\ r.pc = "select"
      /\ IF r.user \in Account
         THEN /\ password' = [password EXCEPT ![r.user] = r.password]
              /\ owner' = [k \in Token |-> IF k \in Doomed(t) THEN NoUser ELSE owner[k]]
              /\ under' = [k \in Token |-> IF k = r.token THEN r.password ELSE under[k]]
              /\ login' = [s \in Task |->
                             IF s = t THEN NoLogin
                             ELSE [login[s] EXCEPT !.raced = @ \/ s \in beside]]
         ELSE Ends(t) /\ UNCHANGED <<password, owner, under>>
      /\ UNCHANGED <<unborn, number, tokenVars, parent, raced>>

------------------------------------------------------------------------------
(* Deletion, expiry, faults. *)

\* delete_user_by_id, for /users/me or with a delete-intent token: the account
\* and, by cascade, its sessions.
DeleteAccount(u) ==
  /\ u \in Account
  /\ number' = [number EXCEPT ![u] = NoNumber]
  /\ owner' = [k \in Token |-> IF owner[k] = u THEN NoUser ELSE owner[k]]
  /\ UNCHANGED <<unborn, password, tokenVars, issueVars, login>>

ConfirmDelete(u) == u \in intents /\ DeleteAccount(u)

\* An access token outlives its session: any account may still be deleted.
DeleteMe(u) == DeleteAccount(u)

\* sweep_once: DELETE of a session past expires_at.  No request has accepted it
\* since, so its end and its deletion are one step.
SweepSession(k) ==
  /\ owner[k] # NoUser
  /\ owner' = [owner EXCEPT ![k] = NoUser]
  /\ UNCHANGED <<accountVars, tokenVars, issueVars, login>>

\* A database error, or the worker stops: nothing of the transaction stays.
RequestFails(t) ==
  /\ login[t].pc # "idle"
  /\ Ends(t)
  /\ UNCHANGED <<accountVars, owner, tokenVars, issueVars>>

SessionsStep(t) ==
  \/ \E n \in Number, pw \in Password : Register(t, n, pw) \/ LoginRead(t, n, pw)
  \/ RegisterCommit(t) \/ LoginCommit(t)
  \/ \E k \in Token : RefreshRead(t, k)
  \/ RefreshCommit(t)
  \/ \E u \in User, new \in Password, keep \in Token \cup {NoToken} :
       ChangeRead(t, u, new, keep)
  \/ ChangeSelect(t) \/ ChangeCommit(t)
  \/ RequestFails(t)

SessionsNext ==
  \/ \E t \in Task : SessionsStep(t)
  \/ \E n \in Number : RegisterBegin(n)
  \/ \E k \in Token : Logout(k) \/ SweepSession(k)
  \/ \E u \in User : ConfirmDelete(u) \/ DeleteMe(u)

SessionsSpec == SessionsInit /\ [][SessionsNext]_sessionsVars

------------------------------------------------------------------------------
(* Safety. *)

\* refresh_session: a token that was exchanged has no row any more, and even
\* when requests race for it, it is exchanged at most once by each of them.
RotationBound ==
  \A k \in Token :
    /\ owner[k] # NoUser => Successors(k) = {}
    /\ Cardinality(Successors(k)) <= Cardinality(Task)

\* change_login_password: a session opened by somebody who proved another
\* password than the present one was issued by a request that overlapped a
\* change, or descends from one that was.
PasswordChangeLogsOut ==
  \A k \in Token :
    owner[k] # NoUser /\ under[k] # password[owner[k]] => k \in raced
==============================================================================
