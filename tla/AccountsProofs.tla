--------------------------- MODULE AccountsProofs ----------------------------
(***************************************************************************)
(* Theorems about accounts and refresh tokens (Sessions) and about the     *)
(* rows of push tokens (Devices), for any accounts, numbers, passwords,    *)
(* tokens, devices and requests in flight.                                 *)
(***************************************************************************)
EXTENDS Sessions, Devices, FiniteSetTheorems, TLAPS

------------------------------------------------------------------------------
(* Sessions. *)

------------------------------------------------------------------------------
(* The invariant. *)

\* What a request holds.  A token belongs to one user for ever, so two requests
\* that hold the same one serve the same user.
RequestInv(t) ==
  /\ login[t].pc \in {"open", "refresh", "change", "select"} => login[t].user \in User
  /\ login[t].pc = "number" => login[t].number \in Number
  /\ login[t].pc = "refresh" => login[t].token \in Token
  /\ login[t].user \notin unborn
  /\ login[t].token # NoToken =>
       /\ login[t].token \in Issued
       /\ owner[login[t].token] \in {NoUser, login[t].user}
       /\ \A s \in Task : login[s].token = login[t].token => login[s].user = login[t].user

\* What it knows of the passwords.
PasswordInv(t) ==
  /\ login[t].pc = "open" => login[t].raced \/ login[t].password = password[login[t].user]
  /\ login[t].pc = "refresh" =>
       \/ login[t].raced \/ login[t].token \in raced
       \/ under[login[t].token] = password[login[t].user]
  /\ login[t].pc = "select" => Live(login[t].user) \subseteq login[t].seen \cup raced

Refreshing(k) == {t \in Task : login[t].pc = "refresh" /\ login[t].token = k}

\* An exchanged token is gone, and those that may still exchange it read it before.
RotationInv(k) ==
  /\ owner[k] # NoUser => Successors(k) = {}
  /\ Cardinality(Successors(k)) + Cardinality(Refreshing(k)) <= Cardinality(Task)

TokensInv ==
  /\ \A k \in Issued : parent[k] \in Issued
  /\ \A k \in Token : RotationInv(k)

SessionInv ==
  /\ SessionsTypeOK
  /\ Account \subseteq Newcomer
  /\ \A t \in Task : RequestInv(t) /\ PasswordInv(t)
  /\ TokensInv
  /\ PasswordChangeLogsOut

LEMMA TokenFacts ==
  /\ IsFiniteSet(Token) /\ NoToken \notin Token /\ IsFiniteSet(Task) /\ NoUser \notin User
  /\ NoNumber \notin Number /\ DeletePassword \in Password /\ Newcomer \subseteq User
  BY SessionsAssumption, RequestsAssumption, FS_Interval DEF Token, NoToken

LEMMA InitSessions == SessionsInit => SessionInv
<1> SUFFICES ASSUME SessionsInit PROVE SessionInv
  OBVIOUS
<1>1. /\ \A t \in Task : login[t] = NoLogin
      /\ \A k \in Token : owner[k] = NoUser /\ parent[k] = NoToken
      /\ \A u \in User : number[u] = NoNumber
      /\ unborn = Newcomer
  BY DEF SessionsInit
<1>2. NoLogin \in LoginRequest
  BY TokenFacts DEF NoLogin, LoginRequest
<1>3. Account = {} /\ Issued = {}
  BY <1>1 DEF Account, Issued
<1>4. SessionsTypeOK
  BY <1>1, <1>2, <1>3, TokenFacts DEF SessionsInit, SessionsTypeOK, LoginPassword
<1>5. ASSUME NEW t \in Task PROVE RequestInv(t) /\ PasswordInv(t)
  BY <1>1, TokenFacts DEF RequestInv, PasswordInv, NoLogin
<1>6. ASSUME NEW k \in Token PROVE RotationInv(k)
  <2>1. Successors(k) = {} /\ Refreshing(k) = {}
    BY <1>1, <1>3 DEF Successors, Refreshing, NoLogin
  <2>2. Cardinality({}) = 0 /\ Cardinality(Task) \in Nat
    BY TokenFacts, FS_EmptySet, FS_CardinalityType
  <2> QED
    BY <2>1, <2>2 DEF RotationInv
<1>7. PasswordChangeLogsOut
  BY <1>1 DEF PasswordChangeLogsOut
<1> QED
  BY <1>3, <1>4, <1>5, <1>6, <1>7 DEF SessionInv, TokensInv

------------------------------------------------------------------------------
(* Counting the exchanges. *)

LEMMA SuccessorsFinite ==
  ASSUME NEW k \in Token
  PROVE  /\ IsFiniteSet(Successors(k)) /\ IsFiniteSet(Refreshing(k))
         /\ Cardinality(Successors(k)) \in Nat /\ Cardinality(Refreshing(k)) \in Nat
         /\ Cardinality(Refreshing(k)) <= Cardinality(Task) /\ Cardinality(Task) \in Nat
<1>1. Successors(k) \subseteq Token /\ Refreshing(k) \subseteq Task
  BY DEF Successors, Issued, Refreshing
<1> QED
  BY <1>1, TokenFacts, FS_Subset, FS_CardinalityType

\* A step that issues no token.
LEMMA RotationKept ==
  ASSUME NEW k \in Token, RotationInv(k), UNCHANGED parent,
         owner'[k] \in {owner[k], NoUser},
         \/ Refreshing(k)' \subseteq Refreshing(k)
         \/ owner[k] # NoUser /\ Refreshing(k)' \subseteq Task
  PROVE  RotationInv(k)'
<1>1. Successors(k)' = Successors(k)
  BY DEF Successors, Issued
<1>2. /\ Cardinality(Successors(k)) \in Nat /\ Cardinality(Refreshing(k)) \in Nat
      /\ IsFiniteSet(Refreshing(k)) /\ Cardinality(Task) \in Nat /\ IsFiniteSet(Task)
  BY SuccessorsFinite, TokenFacts
<1>3. CASE Refreshing(k)' \subseteq Refreshing(k)
  <2>1. /\ Cardinality(Refreshing(k)') <= Cardinality(Refreshing(k))
        /\ Cardinality(Refreshing(k)') \in Nat
    BY <1>2, <1>3, FS_Subset, FS_CardinalityType
  <2> QED
    BY <1>1, <1>2, <2>1 DEF RotationInv
<1>4. CASE owner[k] # NoUser /\ Refreshing(k)' \subseteq Task
  <2>1. Cardinality(Refreshing(k)') <= Cardinality(Task) /\ Cardinality(Refreshing(k)') \in Nat
    BY <1>2, <1>4, FS_Subset, FS_CardinalityType
  <2>2. Successors(k) = {} /\ Cardinality({}) = 0
    BY <1>4, FS_EmptySet DEF RotationInv
  <2> QED
    BY <1>1, <1>2, <2>1, <2>2 DEF RotationInv
<1> QED
  BY <1>3, <1>4

------------------------------------------------------------------------------
(* Steps that change one request, and neither accounts nor tokens. *)

LEMMA RequestStep ==
  ASSUME SessionInv, NEW t \in Task, NEW r \in LoginRequest,
         login' = [login EXCEPT ![t] = r], UNCHANGED <<accountVars, owner, issueVars>>,
         offers' \subseteq Number, intents' \subseteq Newcomer \ unborn,
         r.pc \in {"open", "refresh", "change", "select"} => r.user \in User,
         r.pc = "number" => r.number \in Number,
         r.user \notin unborn,
         \/ r.token = NoToken
         \/ r.token = login[t].token /\ r.user = login[t].user
         \/ r.token \in Token /\ owner[r.token] = r.user /\ r.user # NoUser,
         r.pc = "refresh" => r.token \in Token /\ owner[r.token] = r.user /\ r.user # NoUser,
         r.pc = "open" => r.password = password[r.user],
         r.pc = "select" => r.seen = Live(r.user)
  PROVE  SessionInv'
<1>1. /\ SessionsTypeOK /\ login \in [Task -> LoginRequest]
      /\ UNCHANGED <<unborn, number, password, owner, parent, under, raced>>
      /\ \A s \in Task : RequestInv(s) /\ PasswordInv(s)
  BY DEF SessionInv, SessionsTypeOK, accountVars, issueVars
<1>2. /\ login' \in [Task -> LoginRequest] /\ login'[t] = r
      /\ \A s \in Task \ {t} : login'[s] = login[s]
  BY <1>1
<1>3. Account' = Account /\ Issued' = Issued /\ \A u : Live(u)' = Live(u)
  BY <1>1 DEF Account, Issued, Live
<1>4. SessionsTypeOK'
  BY <1>1, <1>2, <1>3 DEF SessionsTypeOK
<1>5. ASSUME NEW s \in Task PROVE RequestInv(s)' /\ PasswordInv(s)'
  <2>1. \A k \in Token : owner[k] # NoUser => k \in Issued
    BY <1>1 DEF SessionsTypeOK
  <2>2. ASSUME NEW q \in Task, NEW v \in Task, q # t, login'[q].token # NoToken,
               login'[v].token = login'[q].token
        PROVE  login'[v].user = login'[q].user
    BY <1>1, <1>2, <2>2 DEF RequestInv
  <2>3. CASE s # t
    <3>1. login'[s] = login[s] /\ RequestInv(s) /\ PasswordInv(s)
      BY <1>1, <1>2, <2>3
    <3>2. RequestInv(s)'
      BY <1>1, <1>3, <2>2, <2>3, <3>1 DEF RequestInv
    <3>3. PasswordInv(s)'
      BY <1>1, <1>3, <3>1 DEF PasswordInv, Live
    <3> QED
      BY <3>2, <3>3
  <2>4. CASE s = t
    <3>1. r.token # NoToken => r.token \in Issued /\ owner[r.token] \in {NoUser, r.user}
      BY <1>1, <2>1 DEF RequestInv
    <3>2. \A v \in Task : r.token # NoToken /\ login'[v].token = r.token => login'[v].user = r.user
      BY <1>1, <1>2 DEF RequestInv
    <3>3. RequestInv(t)'
      BY <1>1, <1>2, <1>3, <3>1, <3>2 DEF RequestInv
    <3>4. r.pc = "refresh" => r.token \in raced \/ under[r.token] = password[r.user]
      BY DEF SessionInv, PasswordChangeLogsOut
    <3>5. PasswordInv(t)'
      BY <1>1, <1>2, <3>4 DEF PasswordInv, Live
    <3> QED
      BY <2>4, <3>3, <3>5
  <2> QED
    BY <2>3, <2>4
<1>6. ASSUME NEW k \in Token PROVE RotationInv(k)'
  <2>1. RotationInv(k)
    BY DEF SessionInv, TokensInv
  <2>2. \/ Refreshing(k)' \subseteq Refreshing(k)
        \/ owner[k] # NoUser /\ Refreshing(k)' \subseteq Task
    BY <1>2 DEF Refreshing
  <2> QED
    BY <1>1, <2>1, <2>2, RotationKept
<1>7. TokensInv' /\ PasswordChangeLogsOut' /\ Account' \subseteq Newcomer
  BY <1>1, <1>3, <1>6 DEF SessionInv, TokensInv, PasswordChangeLogsOut
<1> QED
  BY <1>4, <1>5, <1>7 DEF SessionInv

LEMMA RequestSteps ==
  ASSUME SessionInv, NEW t \in Task,
         \/ \E n \in Number, pw \in Password : Register(t, n, pw) \/ LoginRead(t, n, pw)
         \/ \E k \in Token : RefreshRead(t, k)
         \/ \E u \in User, new \in Password, keep \in Token \cup {NoToken} :
              ChangeRead(t, u, new, keep)
         \/ ChangeSelect(t) \/ RequestFails(t)
  PROVE  SessionInv'
<1>1. /\ login \in [Task -> LoginRequest] /\ login[t] \in LoginRequest /\ RequestInv(t)
      /\ offers \subseteq Number /\ intents \subseteq Newcomer \ unborn
      /\ owner \in [Token -> User \cup {NoUser}] /\ NoUser \notin unborn
      /\ \A u \in Account : u \notin unborn /\ u \in User /\ u \in Newcomer
      /\ NoLogin \in LoginRequest
  <2>1. NoLogin \in LoginRequest
    BY TokenFacts DEF NoLogin, LoginRequest
  <2> QED
    BY <2>1, TokenFacts DEF SessionInv, SessionsTypeOK, Account
<1>2. ASSUME NEW n \in Number, NEW pw \in Password, Register(t, n, pw)
      PROVE  SessionInv'
  <2>1. PICK r : r = [NoLogin EXCEPT !.pc = "number", !.number = n, !.password = pw]
    OBVIOUS
  <2>2. /\ r \in LoginRequest /\ r.pc = "number" /\ r.number = n /\ r.user = NoUser
        /\ r.token = NoToken
    BY <1>1, <2>1 DEF NoLogin, LoginRequest
  <2>3. login' = [login EXCEPT ![t] = r] /\ UNCHANGED <<accountVars, owner, offers, intents, issueVars>>
    BY <1>2, <2>1 DEF Register, Starts, tokenVars
  <2> QED
    BY <1>1, <2>2, <2>3, RequestStep
<1>3. ASSUME NEW n \in Number, NEW pw \in Password, LoginRead(t, n, pw)
      PROVE  SessionInv'
  <2>1. PICK u \in Account :
          \/ /\ pw = password[u] /\ UNCHANGED intents
             /\ Starts(t, [NoLogin EXCEPT !.pc = "open", !.user = u, !.password = pw])
          \/ intents' = intents \cup {u} /\ UNCHANGED login
    BY <1>3 DEF LoginRead
  <2>2. login[t].pc = "idle" /\ UNCHANGED <<accountVars, owner, offers, issueVars>>
    BY <1>3 DEF LoginRead
  <2>3. CASE /\ pw = password[u] /\ UNCHANGED intents
             /\ Starts(t, [NoLogin EXCEPT !.pc = "open", !.user = u, !.password = pw])
    <3>1. PICK r : r = [NoLogin EXCEPT !.pc = "open", !.user = u, !.password = pw]
      OBVIOUS
    <3>2. /\ r \in LoginRequest /\ r.pc = "open" /\ r.user = u /\ r.password = pw
          /\ r.token = NoToken
      BY <1>1, <3>1 DEF NoLogin, LoginRequest
    <3>3. login' = [login EXCEPT ![t] = r]
      BY <2>3, <3>1 DEF Starts
    <3> QED
      BY <1>1, <2>2, <2>3, <3>2, <3>3, RequestStep
  <2>4. CASE intents' = intents \cup {u} /\ UNCHANGED login
    <3>1. login' = [login EXCEPT ![t] = login[t]] /\ intents' \subseteq Newcomer \ unborn
      BY <1>1, <2>4
    <3> QED
      BY <1>1, <2>2, <3>1, RequestStep DEF RequestInv
  <2> QED
    BY <2>1, <2>3, <2>4
<1>4. ASSUME NEW k \in Token, RefreshRead(t, k)
      PROVE  SessionInv'
  <2>1. PICK r : r = [NoLogin EXCEPT !.pc = "refresh", !.user = owner[k], !.token = k]
    OBVIOUS
  <2>2. owner[k] \in User /\ owner[k] \notin unborn /\ owner[k] # NoUser
    BY <1>1, <1>4, TokenFacts DEF RefreshRead, SessionInv, SessionsTypeOK
  <2>3. /\ r \in LoginRequest /\ r.pc = "refresh" /\ r.user = owner[k] /\ r.token = k
    BY <1>1, <2>1, <2>2 DEF NoLogin, LoginRequest
  <2>4. login' = [login EXCEPT ![t] = r] /\ UNCHANGED <<accountVars, owner, offers, intents, issueVars>>
    BY <1>4, <2>1 DEF RefreshRead, Starts, tokenVars
  <2> QED
    BY <1>1, <2>2, <2>3, <2>4, RequestStep
<1>5. ASSUME NEW u \in User, NEW new \in Password, NEW keep \in Token \cup {NoToken},
             ChangeRead(t, u, new, keep)
      PROVE  SessionInv'
  <2>1. PICK r : r = [NoLogin EXCEPT !.pc = "change", !.user = u, !.password = new,
                                     !.token = keep]
    OBVIOUS
  <2>2. u \notin unborn /\ (keep # NoToken => keep \in Token /\ owner[keep] = u)
    BY <1>1, <1>5 DEF ChangeRead, Live
  <2>3. /\ r \in LoginRequest /\ r.pc = "change" /\ r.user = u /\ r.token = keep
    BY <1>1, <2>1 DEF NoLogin, LoginRequest
  <2>4. login' = [login EXCEPT ![t] = r] /\ UNCHANGED <<accountVars, owner, offers, intents, issueVars>>
    BY <1>5, <2>1 DEF ChangeRead, Starts, tokenVars
  <2> QED
    BY <1>1, <2>2, <2>3, <2>4, RequestStep, TokenFacts
<1>6. CASE ChangeSelect(t)
  <2>1. PICK seen \in SUBSET Token : seen = Live(login[t].user)
    BY DEF Live
  <2>2. PICK r : r = [login[t] EXCEPT !.pc = "select", !.seen = seen]
    OBVIOUS
  <2>3. /\ r \in LoginRequest /\ r.pc = "select" /\ r.user = login[t].user
        /\ r.token = login[t].token /\ r.seen = seen
    BY <1>1, <2>2 DEF LoginRequest
  <2>4. /\ login' = [login EXCEPT ![t] = r] /\ login[t].pc = "change"
        /\ UNCHANGED <<accountVars, owner, offers, intents, issueVars>>
    BY <1>1, <1>6, <2>1, <2>2 DEF ChangeSelect, tokenVars
  <2>5. login[t].user \in User /\ login[t].user \notin unborn
    BY <1>1, <2>4 DEF RequestInv
  <2> QED
    BY <1>1, <2>1, <2>3, <2>4, <2>5, RequestStep
<1>7. CASE RequestFails(t)
  <2>1. /\ login' = [login EXCEPT ![t] = NoLogin]
        /\ UNCHANGED <<accountVars, owner, offers, intents, issueVars>>
    BY <1>7 DEF RequestFails, Ends, tokenVars
  <2>2. NoLogin.pc = "idle" /\ NoLogin.user = NoUser /\ NoLogin.token = NoToken
    BY DEF NoLogin
  <2> QED
    BY <1>1, <2>1, <2>2, RequestStep
<1> QED
  BY <1>2, <1>3, <1>4, <1>5, <1>6, <1>7

------------------------------------------------------------------------------
\* Steps that only take sessions and accounts away.
LEMMA FewerSessions ==
  ASSUME SessionInv, UNCHANGED <<unborn, password, login, issueVars, intents>>,
         offers' \subseteq Number,
         owner' \in [Token -> User \cup {NoUser}], number' \in [User -> Number \cup {NoNumber}],
         \A u \in User : number'[u] \in {number[u], NoNumber},
         \A k \in Token : owner'[k] \in {owner[k], NoUser},
         \A k \in Token : owner'[k] # NoUser => number'[owner[k]] = number[owner[k]]
  PROVE  SessionInv'
<1>1. /\ SessionsTypeOK /\ UNCHANGED <<parent, under, raced>>
      /\ Account' \subseteq Account /\ Issued' = Issued
      /\ \A u \in User : Live(u)' \subseteq Live(u)
  BY TokenFacts DEF SessionInv, Account, Issued, Live, issueVars
<1>2. SessionsTypeOK'
  <2>1. \A u \in unborn' : number'[u] = NoNumber
    BY <1>1, TokenFacts DEF SessionsTypeOK
  <2>2. \A u, v \in Account' : number'[u] = number'[v] => u = v
    BY <1>1 DEF SessionsTypeOK, Account
  <2>3. ASSUME NEW k \in Token, owner'[k] # NoUser
        PROVE  owner'[k] \in Account' /\ k \in Issued'
    <3>1. owner'[k] = owner[k] /\ owner[k] \in Account /\ k \in Issued
      BY <1>1, <2>3 DEF SessionsTypeOK
    <3> QED
      BY <1>1, <2>3, <3>1 DEF Account
  <2> QED
    BY <1>1, <2>1, <2>2, <2>3 DEF SessionsTypeOK
<1>3. ASSUME NEW t \in Task PROVE RequestInv(t)' /\ PasswordInv(t)'
  <2>1. RequestInv(t) /\ PasswordInv(t)
    BY DEF SessionInv
  <2>2. RequestInv(t)'
    <3>1. login[t].token # NoToken => owner'[login[t].token] \in {NoUser, login[t].user}
      BY <2>1 DEF RequestInv, Issued
    <3> QED
      BY <1>1, <2>1, <3>1 DEF RequestInv
  <2>3. PasswordInv(t)'
    BY <1>1, <2>1 DEF PasswordInv, RequestInv
  <2> QED
    BY <2>2, <2>3
<1>4. ASSUME NEW k \in Token PROVE RotationInv(k)'
  <2>1. RotationInv(k) /\ Refreshing(k)' = Refreshing(k)
    BY DEF SessionInv, TokensInv, Refreshing
  <2> QED
    BY <1>1, <2>1, RotationKept
<1>5. PasswordChangeLogsOut'
  BY <1>1 DEF SessionInv, PasswordChangeLogsOut
<1> QED
  BY <1>1, <1>2, <1>3, <1>4, <1>5 DEF SessionInv, TokensInv

LEMMA FewerSteps ==
  ASSUME SessionInv,
         \/ \E n \in Number : RegisterBegin(n)
         \/ \E k \in Token : Logout(k) \/ SweepSession(k)
         \/ \E u \in User : ConfirmDelete(u) \/ DeleteMe(u)
  PROVE  SessionInv'
<1>1. /\ owner \in [Token -> User \cup {NoUser}] /\ number \in [User -> Number \cup {NoNumber}]
      /\ offers \subseteq Number
  BY DEF SessionInv, SessionsTypeOK
<1>2. ASSUME NEW n \in Number, RegisterBegin(n)
      PROVE  SessionInv'
  BY <1>1, <1>2, FewerSessions DEF RegisterBegin, accountVars
<1>3. ASSUME NEW k \in Token, Logout(k) \/ SweepSession(k)
      PROVE  SessionInv'
  <2>1. /\ owner' = [owner EXCEPT ![k] = NoUser]
        /\ UNCHANGED <<unborn, number, password, login, issueVars, intents, offers>>
    BY <1>3 DEF Logout, SweepSession, accountVars, tokenVars
  <2> QED
    BY <1>1, <2>1, FewerSessions
<1>4. ASSUME NEW u \in User, ConfirmDelete(u) \/ DeleteMe(u)
      PROVE  SessionInv'
  <2>1. /\ number' = [number EXCEPT ![u] = NoNumber]
        /\ owner' = [k \in Token |-> IF owner[k] = u THEN NoUser ELSE owner[k]]
        /\ UNCHANGED <<unborn, password, login, issueVars, intents, offers>>
    BY <1>4 DEF ConfirmDelete, DeleteMe, DeleteAccount, tokenVars
  <2>2. \A k \in Token : owner'[k] # NoUser => number'[owner[k]] = number[owner[k]]
    BY <1>1, <2>1 DEF SessionInv, SessionsTypeOK
  <2> QED
    BY <1>1, <2>1, <2>2, FewerSessions
<1> QED
  BY <1>2, <1>3, <1>4

------------------------------------------------------------------------------
(* Steps that issue a token. *)

\* Token k is issued for p: p gains a successor unless p is k, and nobody else does.
Opened(t, u, k, p, pw) ==
  /\ k \notin Issued /\ Issued' = Issued \cup {k}
  /\ parent' \in [Token -> Token \cup {NoToken}] /\ under' \in [Token -> Password]
  /\ raced' \subseteq Token /\ raced \subseteq raced'
  /\ under'[k] = pw /\ \A j \in Token \ {k} : under'[j] = under[j]
  /\ login[t].raced \/ Changing(u) \/ p \in raced => k \in raced'
  /\ \A j \in Issued' : parent'[j] \in Issued'
  /\ Successors(k) = {} /\ Successors(k)' = {}
  /\ \A j \in Token \ {k} : Successors(j)' = IF j = p THEN Successors(j) \cup {k}
                                                    ELSE Successors(j)

LEMMA OpenFacts ==
  ASSUME SessionInv, NEW t \in Task, NEW u, NEW k \in Token, NEW p \in Token,
         NEW pw \in Password, p = k \/ p \in Issued, Open(t, u, k, p, pw)
  PROVE  Opened(t, u, k, p, pw)
<1>1. /\ parent \in [Token -> Token \cup {NoToken}] /\ under \in [Token -> Password]
      /\ raced \subseteq Token /\ \A j \in Issued : parent[j] \in Issued
  BY DEF SessionInv, SessionsTypeOK, TokensInv
<1>2. /\ k \notin Issued /\ parent' = [parent EXCEPT ![k] = p]
      /\ under' = [under EXCEPT ![k] = pw]
      /\ raced' = raced \/ raced' = raced \cup {k}
      /\ login[t].raced \/ Changing(u) \/ p \in raced => k \in raced'
  BY DEF Open
<1>3. parent'[k] = p /\ \A j \in Token \ {k} : parent'[j] = parent[j]
  BY <1>1, <1>2
<1>4. Issued' = Issued \cup {k}
  BY <1>3, TokenFacts DEF Issued
<1>5. Successors(k) = {} /\ Successors(k)' = {}
  BY <1>1, <1>2, <1>3, <1>4 DEF Successors
<1>6. ASSUME NEW j \in Token \ {k}
      PROVE  Successors(j)' = IF j = p THEN Successors(j) \cup {k} ELSE Successors(j)
  <2>1. Issued \subseteq Token
    BY DEF Issued
  <2>2. CASE j = p
    BY <1>2, <1>3, <1>4, <2>1, <2>2 DEF Successors
  <2>3. CASE j # p
    BY <1>2, <1>3, <1>4, <2>1, <2>3 DEF Successors
  <2> QED
    BY <2>2, <2>3
<1> QED
  BY <1>1, <1>2, <1>3, <1>4, <1>5, <1>6 DEF Opened

\* A registration, a login or a refresh commits: u has a new session k, and a
\* refresh has taken the session of p away.
LEMMA OpenStep ==
  ASSUME SessionInv, NEW t \in Task, NEW u \in User, NEW k \in Token, NEW p \in Token,
         NEW pw \in Password, Open(t, u, k, p, pw),
         login' = [login EXCEPT ![t] = NoLogin], UNCHANGED <<offers, intents>>,
         unborn' \subseteq unborn, u \notin unborn', u \in Newcomer,
         number' \in [User -> Number \cup {NoNumber}], number'[u] # NoNumber,
         \A v \in User \ {u} : number'[v] = number[v],
         \A v \in Account' \ {u} : number'[v] # number'[u],
         password' \in [User -> Password],
         \A v \in User \ unborn : password'[v] = password[v],
         owner' \in [Token -> User \cup {NoUser}], owner'[k] = u,
         \A j \in Token \ {k} : owner'[j] \in {owner[j], NoUser},
         IF p = k THEN login[t].raced \/ password'[u] = pw
                  ELSE /\ login[t].pc = "refresh" /\ login[t].token = p
                       /\ owner'[p] = NoUser
                       /\ login[t].raced \/ p \in raced \/ password'[u] = pw
  PROVE  SessionInv'
<1>1. /\ SessionsTypeOK /\ login \in [Task -> LoginRequest]
      /\ \A s \in Task : RequestInv(s) /\ PasswordInv(s)
      /\ Account \subseteq Newcomer /\ \A v \in Account : v \notin unborn
  <2>1. SessionsTypeOK /\ Account \subseteq Newcomer /\ \A s \in Task : RequestInv(s) /\ PasswordInv(s)
    BY DEF SessionInv
  <2>2. \A v \in Account : v \notin unborn
    BY <2>1 DEF SessionsTypeOK, Account
  <2>3. login \in [Task -> LoginRequest]
    BY <2>1 DEF SessionsTypeOK
  <2> QED
    BY <2>1, <2>2, <2>3
<1>2. p = k \/ p \in Issued
  <2> SUFFICES ASSUME p # k PROVE p \in Issued
    OBVIOUS
  <2>1. login[t].token = p /\ p # NoToken
    BY TokenFacts
  <2> QED
    BY <1>1, <2>1 DEF RequestInv
<1>3. /\ k \notin Issued /\ Issued' = Issued \cup {k}
      /\ parent' \in [Token -> Token \cup {NoToken}] /\ under' \in [Token -> Password]
      /\ raced' \subseteq Token /\ raced \subseteq raced'
      /\ under'[k] = pw /\ \A j \in Token \ {k} : under'[j] = under[j]
      /\ login[t].raced \/ Changing(u) \/ p \in raced => k \in raced'
      /\ \A j \in Issued' : parent'[j] \in Issued'
      /\ Successors(k)' = {}
      /\ \A j \in Token \ {k} : Successors(j)' = IF j = p THEN Successors(j) \cup {k}
                                                        ELSE Successors(j)
  <2>1. Opened(t, u, k, p, pw)
    BY <1>2, OpenFacts
  <2> QED
    BY <2>1 DEF Opened
<1>4. NoLogin \in LoginRequest /\ NoLogin.pc = "idle" /\ NoLogin.user = NoUser
      /\ NoLogin.token = NoToken
  BY TokenFacts DEF NoLogin, LoginRequest
<1>5. /\ login' \in [Task -> LoginRequest] /\ login'[t] = NoLogin
      /\ \A s \in Task \ {t} : login'[s] = login[s]
  BY <1>1, <1>4
<1>6. Account' = Account \cup {u}
  BY DEF Account
<1>7. SessionsTypeOK'
  <2>1. \A v \in unborn' : number'[v] = NoNumber
    BY <1>1, TokenFacts DEF SessionsTypeOK
  <2>2. \A v, w \in Account' : number'[v] = number'[w] => v = w
    <3>1. \A v, w \in Account : number[v] = number[w] => v = w
      BY <1>1 DEF SessionsTypeOK
    <3>2. \A v \in Account' \ {u} : v \in Account /\ number'[v] = number[v]
      BY <1>6 DEF Account
    <3> QED
      BY <3>1, <3>2
  <2>3. ASSUME NEW j \in Token, owner'[j] # NoUser
        PROVE  owner'[j] \in Account' /\ j \in Issued'
    BY <1>1, <1>3, <1>6, <2>3 DEF SessionsTypeOK
  <2>4. \A v \in intents' : v \in Newcomer \ unborn'
    BY <1>1 DEF SessionsTypeOK
  <2>5. unborn' \subseteq Newcomer /\ offers' \subseteq Number
    BY <1>1 DEF SessionsTypeOK
  <2>6. password' \in [User -> LoginPassword \cup {DeletePassword}]
    BY TokenFacts DEF LoginPassword
  <2> QED
    BY <1>3, <1>5, <2>1, <2>2, <2>3, <2>4, <2>5, <2>6 DEF SessionsTypeOK
<1>8. ASSUME NEW s \in Task PROVE RequestInv(s)' /\ PasswordInv(s)'
  <2>1. CASE s = t
    <3>1. NoUser \notin unborn'
      BY <1>1, TokenFacts DEF SessionsTypeOK
    <3> QED
      BY <1>4, <1>5, <2>1, <3>1 DEF RequestInv, PasswordInv
  <2>2. CASE s # t
    <3>1. login'[s] = login[s] /\ RequestInv(s) /\ PasswordInv(s)
      BY <1>1, <1>5, <2>2
    <3>2. login[s].token # NoToken =>
            /\ login[s].token \in Token \ {k}
            /\ owner'[login[s].token] \in {NoUser, login[s].user}
      <4> SUFFICES ASSUME login[s].token # NoToken
                   PROVE  /\ login[s].token \in Token \ {k}
                          /\ owner'[login[s].token] \in {NoUser, login[s].user}
        OBVIOUS
      <4>1. login[s].token \in Issued /\ owner[login[s].token] \in {NoUser, login[s].user}
        BY <3>1 DEF RequestInv
      <4>2. login[s].token \in Token \ {k}
        BY <1>3, <4>1 DEF Issued
      <4> QED
        BY <4>1, <4>2
    <3>3. \A v \in Task : login[s].token # NoToken /\ login'[v].token = login[s].token
                            => login'[v].user = login[s].user
      BY <1>4, <1>5, <3>1 DEF RequestInv
    <3>4. RequestInv(s)'
      BY <1>3, <3>1, <3>2, <3>3 DEF RequestInv
    <3>5. login[s].pc \in {"open", "refresh", "select"} =>
            login[s].user \in User /\ password'[login[s].user] = password[login[s].user]
      BY <3>1 DEF RequestInv
    <3>6. login[s].pc = "refresh" => under'[login[s].token] = under[login[s].token]
      <4> SUFFICES ASSUME login[s].pc = "refresh"
                   PROVE  under'[login[s].token] = under[login[s].token]
        OBVIOUS
      <4>1. login[s].token # NoToken
        BY <3>1, TokenFacts DEF RequestInv
      <4> QED
        BY <1>3, <3>2, <4>1
    <3>7. ASSUME login[s].pc = "select"
          PROVE  Live(login[s].user)' \subseteq login[s].seen \cup raced'
      <4>1. Live(login[s].user) \subseteq login[s].seen \cup raced
        BY <3>1, <3>7 DEF PasswordInv
      <4>2. CASE login[s].user = u
        <5>1. Changing(u)
          BY <3>7, <4>2 DEF Changing
        <5> QED
          BY <1>3, <3>1, <4>1, <4>2, <5>1, TokenFacts DEF Live
      <4>3. CASE login[s].user # u
        BY <1>3, <3>1, <3>5, <3>7, <4>1, <4>3, TokenFacts DEF Live
      <4> QED
        BY <4>2, <4>3
    <3>8. PasswordInv(s)'
      BY <1>3, <3>1, <3>5, <3>6, <3>7 DEF PasswordInv
    <3> QED
      BY <3>4, <3>8
  <2> QED
    BY <2>1, <2>2
<1>9. ASSUME NEW j \in Token PROVE RotationInv(j)'
  <2>1. RotationInv(j)
    BY DEF SessionInv, TokensInv
  <2>2. /\ Cardinality(Successors(j)) \in Nat /\ Cardinality(Refreshing(j)) \in Nat
        /\ IsFiniteSet(Successors(j)) /\ IsFiniteSet(Refreshing(j)) /\ Cardinality(Task) \in Nat
    BY SuccessorsFinite
  <2>3. Refreshing(j)' = Refreshing(j) \ {t}
    BY <1>4, <1>5 DEF Refreshing
  <2>4. /\ IsFiniteSet(Refreshing(j)') /\ Cardinality(Refreshing(j)') \in Nat
        /\ Cardinality(Refreshing(j)') <= Cardinality(Refreshing(j))
    BY <2>2, <2>3, FS_Subset, FS_CardinalityType
  <2>5. CASE j = k
    <3>1. Cardinality({}) = 0 /\ Successors(k)' = {}
      BY <1>3, FS_EmptySet
    <3>2. Cardinality(Successors(k)') = 0
      BY <3>1
    <3> QED
      BY <2>1, <2>2, <2>4, <2>5, <3>1, <3>2 DEF RotationInv
  <2>6. CASE j # k /\ j # p
    <3>1. Successors(j)' = Successors(j) /\ owner'[j] \in {owner[j], NoUser}
      BY <1>3, <2>6
    <3> QED
      BY <2>1, <2>2, <2>4, <3>1 DEF RotationInv
  <2>7. CASE j # k /\ j = p
    <3>1. Successors(j)' = Successors(j) \cup {k} /\ owner'[j] = NoUser
      BY <1>3, <2>7
    <3>2. k \notin Successors(j)
      BY <1>3 DEF Successors
    <3>3. Cardinality(Successors(j)') = Cardinality(Successors(j)) + 1
      <4>1. Cardinality(Successors(j) \cup {k}) = Cardinality(Successors(j)) + 1
        BY <2>2, <3>2, FS_AddElement
      <4> QED
        BY <3>1, <4>1
    <3>4. t \in Refreshing(j)
      BY <2>7 DEF Refreshing
    <3>5. Cardinality(Refreshing(j)') = Cardinality(Refreshing(j)) - 1
      BY <2>2, <2>3, <3>4, FS_RemoveElement
    <3> QED
      BY <2>1, <2>2, <2>4, <3>1, <3>3, <3>5 DEF RotationInv
  <2> QED
    BY <2>5, <2>6, <2>7
<1>10. PasswordChangeLogsOut'
  <2> SUFFICES ASSUME NEW j \in Token, owner'[j] # NoUser, under'[j] # password'[owner'[j]]
               PROVE  j \in raced'
    BY DEF PasswordChangeLogsOut
  <2>1. CASE j = k
    BY <1>3, <2>1
  <2>2. CASE j # k
    <3>1. owner'[j] = owner[j] /\ under'[j] = under[j] /\ owner[j] # NoUser
      BY <1>3, <2>2
    <3>2. owner[j] \in User \ unborn
      BY <1>1, <3>1 DEF SessionsTypeOK, Account
    <3> QED
      BY <1>3, <3>1, <3>2 DEF SessionInv, PasswordChangeLogsOut
  <2> QED
    BY <2>1, <2>2
<1>11. TokensInv' /\ Account' \subseteq Newcomer
  BY <1>1, <1>3, <1>6, <1>9 DEF TokensInv
<1> QED
  BY <1>7, <1>8, <1>10, <1>11 DEF SessionInv

LEMMA IssueSteps ==
  ASSUME SessionInv, NEW t \in Task,
         RegisterCommit(t) \/ LoginCommit(t) \/ RefreshCommit(t)
  PROVE  SessionInv'
<1>1. /\ SessionsTypeOK /\ RequestInv(t) /\ PasswordInv(t) /\ login[t] \in LoginRequest
      /\ unborn \subseteq Newcomer /\ Account \subseteq Newcomer
      /\ number \in [User -> Number \cup {NoNumber}] /\ password \in [User -> Password]
      /\ owner \in [Token -> User \cup {NoUser}] /\ under \in [Token -> Password]
  <2>1. SessionsTypeOK /\ RequestInv(t) /\ PasswordInv(t) /\ Account \subseteq Newcomer
    BY DEF SessionInv
  <2>2. LoginPassword \cup {DeletePassword} = Password
    BY TokenFacts DEF LoginPassword
  <2> QED
    BY <2>1, <2>2 DEF SessionsTypeOK
<1>2. /\ login' = [login EXCEPT ![t] = NoLogin] /\ UNCHANGED <<offers, intents>>
  BY DEF RegisterCommit, LoginCommit, RefreshCommit, Ends, tokenVars
<1>3. \A v \in Account : v \notin unborn /\ v \in User
  BY <1>1 DEF SessionsTypeOK, Account
\* Nothing is issued: the request ends as if it had failed.
<1>4. ASSUME UNCHANGED <<accountVars, owner, issueVars>> PROVE SessionInv'
  <2>1. NoLogin \in LoginRequest /\ NoLogin.pc = "idle" /\ NoLogin.user = NoUser
        /\ NoLogin.token = NoToken /\ NoUser \notin unborn
    BY <1>1, TokenFacts DEF NoLogin, LoginRequest
  <2>2. offers' \subseteq Number /\ intents' \subseteq Newcomer \ unborn
    BY <1>1, <1>2 DEF SessionsTypeOK
  <2> QED
    BY <1>2, <1>4, <2>1, <2>2, RequestStep
<1>5. ASSUME RegisterCommit(t), ~Taken(login[t].number), NEW u \in unborn, NEW k \in Token,
             unborn' = unborn \ {u}, number' = [number EXCEPT ![u] = login[t].number],
             password' = [password EXCEPT ![u] = login[t].password],
             Open(t, u, k, k, login[t].password), owner' = [owner EXCEPT ![k] = u]
      PROVE  SessionInv'
  <2>1. PICK n \in Number, pw \in Password : n = login[t].number /\ pw = login[t].password
    BY <1>1, <1>5 DEF RegisterCommit, RequestInv, LoginRequest
  <2>2. u \in User /\ u \in Newcomer /\ u \notin Account /\ n # NoNumber
    BY <1>1, <1>3, TokenFacts
  <2>3. /\ number' \in [User -> Number \cup {NoNumber}] /\ number'[u] = n
        /\ \A v \in User \ {u} : number'[v] = number[v]
    BY <1>1, <1>5, <2>1, <2>2
  <2>4. \A v \in Account' \ {u} : number'[v] # number'[u]
    BY <1>5, <2>1, <2>3 DEF Taken, Account
  <2>5. /\ password' \in [User -> Password] /\ password'[u] = pw
        /\ \A v \in User \ unborn : password'[v] = password[v]
    BY <1>1, <1>5, <2>1, <2>2
  <2>6. /\ owner' \in [Token -> User \cup {NoUser}] /\ owner'[k] = u
        /\ \A j \in Token \ {k} : owner'[j] = owner[j]
    BY <1>1, <1>5, <2>2
  <2>7. unborn' \subseteq unborn /\ u \notin unborn' /\ number'[u] # NoNumber
    BY <1>5, <2>2, <2>3
  <2>8. Open(t, u, k, k, pw)
    BY <1>5, <2>1
  <2> QED
    BY <1>2, <2>2, <2>3, <2>4, <2>5, <2>6, <2>7, <2>8, OpenStep
\* A session for an account that exists.
<1>6. ASSUME NEW u \in Account, NEW k \in Token, NEW p \in Token, NEW pw \in Password,
             Open(t, u, k, p, pw), UNCHANGED accountVars,
             owner' \in [Token -> User \cup {NoUser}], owner'[k] = u,
             \A j \in Token \ {k} : owner'[j] \in {owner[j], NoUser},
             IF p = k THEN login[t].raced \/ password[u] = pw
                      ELSE /\ login[t].pc = "refresh" /\ login[t].token = p
                           /\ owner'[p] = NoUser
                           /\ login[t].raced \/ p \in raced \/ password[u] = pw
      PROVE  SessionInv'
  <2>1. u \in User /\ u \in Newcomer /\ u \notin unborn /\ number[u] # NoNumber
    BY <1>1, <1>3 DEF Account
  <2>2. UNCHANGED <<unborn, number, password>>
    BY <1>6 DEF accountVars
  <2>3. \A v \in Account' \ {u} : number'[v] # number'[u]
    BY <1>1, <1>6, <2>2 DEF Account, SessionsTypeOK
  <2> QED
    BY <1>1, <1>2, <1>6, <2>1, <2>2, <2>3, OpenStep
<1>7. CASE RegisterCommit(t)
  <2>1. \/ UNCHANGED <<accountVars, owner, issueVars>>
        \/ /\ ~Taken(login[t].number)
           /\ \E u \in unborn, k \in Token :
                 /\ unborn' = unborn \ {u}
                 /\ number' = [number EXCEPT ![u] = login[t].number]
                 /\ password' = [password EXCEPT ![u] = login[t].password]
                 /\ Open(t, u, k, k, login[t].password)
                 /\ owner' = [owner EXCEPT ![k] = u]
    BY <1>7 DEF RegisterCommit
  <2> QED
    BY <1>4, <1>5, <1>7, <2>1
<1>8. CASE LoginCommit(t)
  <2>1. UNCHANGED accountVars /\ login[t].pc = "open"
    BY <1>8 DEF LoginCommit
  <2>2. ASSUME NEW k \in Token, UserExists(login[t].user), 
               Open(t, login[t].user, k, k, login[t].password),
               owner' = [owner EXCEPT ![k] = login[t].user]
        PROVE  SessionInv'
    <3>1. PICK u \in Account, pw \in Password : u = login[t].user /\ pw = login[t].password
      BY <1>1, <2>2 DEF UserExists, LoginRequest
    <3>2. login[t].raced \/ password[u] = pw
      BY <1>1, <2>1, <3>1 DEF PasswordInv
    <3>3. /\ owner' \in [Token -> User \cup {NoUser}] /\ owner'[k] = u
          /\ \A j \in Token \ {k} : owner'[j] = owner[j]
      BY <1>1, <1>3, <2>2, <3>1
    <3>4. Open(t, u, k, k, pw)
      BY <2>2, <3>1
    <3> QED
      BY <1>6, <2>1, <3>2, <3>3, <3>4
  <2>3. ASSUME UNCHANGED <<owner, issueVars>> PROVE SessionInv'
    BY <1>4, <2>1, <2>3
  <2> QED
    BY <1>8, <2>2, <2>3 DEF LoginCommit
<1>9. CASE RefreshCommit(t)
  <2>1. UNCHANGED accountVars /\ login[t].pc = "refresh"
    BY <1>9 DEF RefreshCommit
  <2>2. ASSUME NEW k \in Token, UserExists(login[t].user),
               Open(t, login[t].user, k, login[t].token, under[login[t].token]),
               owner' = [s \in Token |-> CASE s = k -> login[t].user
                                           [] s # k /\ s \in Rotated(t) -> NoUser
                                           [] OTHER -> owner[s]]
        PROVE  SessionInv'
    <3>1. PICK u \in Account, p \in Token : u = login[t].user /\ p = login[t].token
      BY <1>1, <2>1, <2>2 DEF UserExists, RequestInv
    <3>2. PICK pw \in Password : pw = under[p]
      BY <1>1
    <3>3. login[t].raced \/ p \in raced \/ password[u] = pw
      BY <1>1, <2>1, <3>1, <3>2 DEF PasswordInv
    <3>4. p \in Issued /\ k \notin Issued
      BY <1>1, <2>2, <3>1, TokenFacts DEF RequestInv, Open
    <3>5. owner' = [s \in Token |-> IF s = k THEN u ELSE IF s = p THEN NoUser ELSE owner[s]]
      BY <2>2, <3>1 DEF Rotated
    <3>6. /\ owner' \in [Token -> User \cup {NoUser}] /\ owner'[k] = u /\ owner'[p] = NoUser
          /\ \A j \in Token \ {k} : owner'[j] \in {owner[j], NoUser}
      BY <1>1, <1>3, <3>1, <3>4, <3>5
    <3>7. Open(t, u, k, p, pw)
      BY <2>2, <3>1, <3>2
    <3> QED
      BY <1>6, <2>1, <3>1, <3>3, <3>4, <3>6, <3>7
  <2>3. ASSUME UNCHANGED <<owner, issueVars>> PROVE SessionInv'
    BY <1>4, <2>1, <2>3
  <2> QED
    BY <1>9, <2>2, <2>3 DEF RefreshCommit
<1> QED
  BY <1>7, <1>8, <1>9

------------------------------------------------------------------------------
\* A password change commits: the sessions that it read are gone, those that were
\* opened since are raced, and so is whatever is in flight for the account.
LEMMA ChangeStep ==
  ASSUME SessionInv, NEW t \in Task, ChangeCommit(t)
  PROVE  SessionInv'
<1>1. /\ SessionsTypeOK /\ login \in [Task -> LoginRequest] /\ login[t].pc = "select"
      /\ \A s \in Task : RequestInv(s) /\ PasswordInv(s)
      /\ owner \in [Token -> User \cup {NoUser}] /\ password \in [User -> Password]
      /\ under \in [Token -> Password] /\ login[t] \in LoginRequest
      /\ Account \subseteq Newcomer
  <2>1. LoginPassword \cup {DeletePassword} = Password
    BY TokenFacts DEF LoginPassword
  <2> QED
    BY <2>1 DEF SessionInv, SessionsTypeOK, ChangeCommit
<1>2. UNCHANGED <<unborn, number, offers, intents, parent, raced>>
  BY DEF ChangeCommit, tokenVars
<1>3. NoLogin \in LoginRequest /\ NoLogin.pc = "idle" /\ NoLogin.user = NoUser
      /\ NoLogin.token = NoToken /\ NoUser \notin unborn
  BY <1>1, TokenFacts DEF NoLogin, LoginRequest, SessionsTypeOK
<1>4. CASE login[t].user \notin Account
  <2>1. login' = [login EXCEPT ![t] = NoLogin] /\ UNCHANGED <<password, owner, under>>
    BY <1>4 DEF ChangeCommit, Ends
  <2>2. UNCHANGED <<accountVars, issueVars>>
    BY <1>2, <2>1 DEF accountVars, issueVars
  <2>3. offers' \subseteq Number /\ intents' \subseteq Newcomer \ unborn
    BY <1>1, <1>2 DEF SessionsTypeOK
  <2> QED
    BY <1>3, <2>1, <2>2, <2>3, RequestStep
<1>5. CASE login[t].user \in Account
  <2>1. PICK u \in Account, new \in Password, kept \in Token \cup {NoToken} :
          u = login[t].user /\ new = login[t].password /\ kept = login[t].token
    BY <1>1, <1>5 DEF LoginRequest
  <2>2. /\ password' = [password EXCEPT ![u] = new]
        /\ owner' = [k \in Token |-> IF k \in Doomed(t) THEN NoUser ELSE owner[k]]
        /\ under' = [k \in Token |-> IF k = kept THEN new ELSE under[k]]
        /\ login' = [s \in Task |-> IF s = t THEN NoLogin
                       ELSE [login[s] EXCEPT !.raced =
                               @ \/ s \in {v \in Task \ {t} : login[v].user = u}]]
    BY <1>5, <2>1 DEF ChangeCommit
  <2>3. u \in User /\ u \notin unborn
    BY <1>1, <2>1 DEF Account, RequestInv
  <2>4. /\ password' \in [User -> Password] /\ password'[u] = new
        /\ \A v \in User \ {u} : password'[v] = password[v]
    BY <1>1, <2>2, <2>3
  <2>5. ASSUME NEW k \in Token
        PROVE  /\ owner'[k] \in {owner[k], NoUser}
               /\ owner'[k] = u => k \in raced \/ k = kept
    <3>1. Live(u) \subseteq login[t].seen \cup raced
      BY <1>1, <2>1 DEF PasswordInv
    <3>2. owner'[k] = u => k \in Live(u) /\ k \notin login[t].seen \ {kept}
      BY <2>1, <2>2, <2>3, TokenFacts DEF Doomed, Live
    <3> QED
      BY <2>2, <3>1, <3>2
  <2>6. owner' \in [Token -> User \cup {NoUser}] /\ under' \in [Token -> Password]
    BY <1>1, <2>2
  <2>7. ASSUME NEW s \in Task \ {t}
        PROVE  /\ login'[s] \in LoginRequest
               /\ login'[s].pc = login[s].pc /\ login'[s].user = login[s].user
               /\ login'[s].token = login[s].token /\ login'[s].number = login[s].number
               /\ login'[s].password = login[s].password /\ login'[s].seen = login[s].seen
               /\ login[s].raced \/ login[s].user = u => login'[s].raced
    <3>1. PICK r \in BOOLEAN : r = (login[s].raced \/ s \in {v \in Task \ {t} : login[v].user = u})
      OBVIOUS
    <3>2. login'[s] = [login[s] EXCEPT !.raced = r] /\ login[s] \in LoginRequest
      BY <1>1, <2>2, <3>1
    <3> QED
      BY <3>1, <3>2 DEF LoginRequest
  <2>8. login' \in [Task -> LoginRequest] /\ login'[t] = NoLogin
    <3>1. login'[t] = NoLogin
      BY <2>2
    <3>2. \A s \in Task : login'[s] \in LoginRequest
      BY <1>3, <2>7, <3>1
    <3>3. login' = [s \in Task |-> login'[s]]
      BY <2>2
    <3> QED
      BY <3>1, <3>2, <3>3
  <2>9. Account' = Account /\ Issued' = Issued /\ (\A v \in User : Live(v)' \subseteq Live(v))
    BY <1>2, <2>5, TokenFacts DEF Account, Issued, Live
  <2>10. SessionsTypeOK'
    <3>1. password' \in [User -> LoginPassword \cup {DeletePassword}]
      BY <2>4, TokenFacts DEF LoginPassword
    <3>2. \A k \in Token : owner'[k] # NoUser => owner'[k] \in Account' /\ k \in Issued'
      BY <1>1, <2>5, <2>9 DEF SessionsTypeOK
    <3> QED
      BY <1>1, <1>2, <2>6, <2>8, <2>9, <3>1, <3>2 DEF SessionsTypeOK
  \* The token that the change kept is u's.
  <2>11. \A s \in Task : login[s].token = kept /\ kept # NoToken => login[s].user = u
    BY <1>1, <2>1 DEF RequestInv
  <2>12. ASSUME NEW s \in Task PROVE RequestInv(s)' /\ PasswordInv(s)'
    <3>1. CASE s = t
      BY <1>2, <1>3, <2>8, <3>1 DEF RequestInv, PasswordInv
    <3>2. CASE s # t
      <4>1. RequestInv(s) /\ PasswordInv(s)
        BY <1>1
      <4>2. login[s].token # NoToken =>
              /\ login[s].token \in Issued /\ login[s].token \in Token
              /\ owner'[login[s].token] \in {NoUser, login[s].user}
        <5> SUFFICES ASSUME login[s].token # NoToken
                     PROVE  /\ login[s].token \in Issued /\ login[s].token \in Token
                            /\ owner'[login[s].token] \in {NoUser, login[s].user}
          OBVIOUS
        <5>1. login[s].token \in Issued /\ owner[login[s].token] \in {NoUser, login[s].user}
          BY <4>1 DEF RequestInv
        <5> QED
          BY <2>5, <5>1 DEF Issued
      <4>3. \A v \in Task : login[s].token # NoToken /\ login'[v].token = login[s].token
                              => login'[v].user = login[s].user
        BY <1>3, <2>7, <2>8, <4>1 DEF RequestInv
      <4>4. RequestInv(s)'
        BY <1>2, <2>7, <2>9, <3>2, <4>1, <4>2, <4>3 DEF RequestInv
      <4>5. login[s].pc = "select" =>
              \A k \in Token : owner'[k] = login[s].user => k \in login[s].seen \cup raced
        <5> SUFFICES ASSUME login[s].pc = "select", NEW k \in Token, owner'[k] = login[s].user
                     PROVE  k \in login[s].seen \cup raced
          OBVIOUS
        <5>1. login[s].user # NoUser
          BY <4>1, TokenFacts DEF RequestInv
        <5>2. owner[k] = login[s].user
          BY <2>5, <5>1
        <5> QED
          BY <4>1, <5>2 DEF PasswordInv, Live
      <4>6. CASE login[s].user = u
        <5>1. login'[s].raced
          BY <2>7, <3>2, <4>6
        <5>2. PasswordInv(s)'
          BY <1>2, <2>7, <3>2, <4>5, <5>1 DEF PasswordInv, Live
        <5> QED
          BY <4>4, <5>2
      <4>7. CASE login[s].user # u
        <5>1. login[s].pc \in {"open", "refresh", "select"} =>
                login[s].user \in User /\ password'[login[s].user] = password[login[s].user]
          BY <2>4, <4>1, <4>7 DEF RequestInv
        <5>2. login[s].pc = "refresh" => under'[login[s].token] = under[login[s].token]
          <6> SUFFICES ASSUME login[s].pc = "refresh"
                       PROVE  under'[login[s].token] = under[login[s].token]
            OBVIOUS
          <6>1. login[s].token \in Token /\ login[s].token # kept
            BY <2>11, <4>1, <4>7, TokenFacts DEF RequestInv
          <6> QED
            BY <2>2, <6>1
        <5>3. login[s].pc = "open" => login[s].raced \/ login[s].password = password[login[s].user]
          BY <4>1 DEF PasswordInv
        <5>4. login[s].pc = "refresh" => \/ login[s].raced \/ login[s].token \in raced
                                         \/ under[login[s].token] = password[login[s].user]
          BY <4>1 DEF PasswordInv
        <5>5. login[s].raced => login'[s].raced
          BY <2>7, <3>2
        <5>6. PasswordInv(s)'
          BY <1>2, <2>7, <3>2, <4>5, <5>1, <5>2, <5>3, <5>4, <5>5 DEF PasswordInv, Live
        <5> QED
          BY <4>4, <5>6
      <4> QED
        BY <4>6, <4>7
    <3> QED
      BY <3>1, <3>2
  <2>13. ASSUME NEW k \in Token PROVE RotationInv(k)'
    <3>1. RotationInv(k)
      BY DEF SessionInv, TokensInv
    <3>2. Refreshing(k)' \subseteq Refreshing(k)
      BY <1>3, <2>7, <2>8 DEF Refreshing
    <3> QED
      BY <1>2, <2>5, <3>1, <3>2, RotationKept
  <2>14. PasswordChangeLogsOut'
    <3> SUFFICES ASSUME NEW k \in Token, owner'[k] # NoUser, under'[k] # password'[owner'[k]]
                 PROVE  k \in raced
      BY <1>2 DEF PasswordChangeLogsOut
    <3>1. owner'[k] = owner[k] /\ owner[k] \in Account /\ owner[k] \in User
      BY <1>1, <2>5 DEF SessionsTypeOK, Account
    <3>2. CASE owner[k] = u
      <4>1. k \in raced \/ k = kept
        BY <2>5, <3>1, <3>2
      <4>2. k # kept
        BY <2>2, <2>4, <3>1, <3>2
      <4> QED
        BY <4>1, <4>2
    <3>3. CASE owner[k] # u
      <4>1. k # kept
        BY <1>1, <2>1, <3>1, <3>3, TokenFacts DEF RequestInv
      <4>2. under'[k] = under[k] /\ password'[owner[k]] = password[owner[k]]
        BY <2>2, <2>4, <3>1, <3>3, <4>1
      <4> QED
        BY <3>1, <4>2 DEF SessionInv, PasswordChangeLogsOut
    <3> QED
      BY <3>2, <3>3
  <2>15. TokensInv'
    BY <1>2, <2>9, <2>13 DEF SessionInv, TokensInv
  <2> QED
    BY <1>1, <2>9, <2>10, <2>12, <2>14, <2>15 DEF SessionInv
<1> QED
  BY <1>4, <1>5

------------------------------------------------------------------------------
LEMMA NextSessions == SessionInv /\ [SessionsNext]_sessionsVars => SessionInv'
<1> SUFFICES ASSUME SessionInv, [SessionsNext]_sessionsVars PROVE SessionInv'
  OBVIOUS
<1>1. ASSUME NEW t \in Task, SessionsStep(t) PROVE SessionInv'
  BY <1>1, RequestSteps, IssueSteps, ChangeStep DEF SessionsStep
<1>2. ASSUME \/ \E n \in Number : RegisterBegin(n)
             \/ \E k \in Token : Logout(k) \/ SweepSession(k)
             \/ \E u \in User : ConfirmDelete(u) \/ DeleteMe(u)
      PROVE  SessionInv'
  BY <1>2, FewerSteps
<1>3. CASE UNCHANGED sessionsVars
  <2>1. /\ UNCHANGED <<unborn, number, password, owner, offers, intents>>
        /\ UNCHANGED <<parent, under, raced, login>>
    BY <1>3 DEF sessionsVars, accountVars, tokenVars, issueVars
  <2>2. UNCHANGED issueVars
    BY <2>1 DEF issueVars
  <2> QED
    BY <2>1, <2>2, FewerSessions DEF SessionInv, SessionsTypeOK
<1> QED
  BY <1>1, <1>2, <1>3 DEF SessionsNext

\* The types of accounts and sessions; private numbers are unique, and a session refers
\* to an account.
THEOREM SessionsTypes == SessionsSpec => []SessionsTypeOK
<1>1. SessionInv => SessionsTypeOK
  BY DEF SessionInv
<1> QED
  BY <1>1, InitSessions, NextSessions, PTL DEF SessionsSpec

\* An exchanged refresh token has no row, and racing requests exchange it at most once
\* each (refresh_session).
THEOREM RotationsBounded == SessionsSpec => []RotationBound
<1>1. SessionInv => RotationBound
  <2> SUFFICES ASSUME SessionInv, NEW k \in Token
               PROVE  /\ owner[k] # NoUser => Successors(k) = {}
                      /\ Cardinality(Successors(k)) <= Cardinality(Task)
    BY DEF RotationBound
  <2>1. RotationInv(k)
    BY DEF SessionInv, TokensInv
  <2> QED
    BY <2>1, SuccessorsFinite DEF RotationInv
<1> QED
  BY <1>1, InitSessions, NextSessions, PTL DEF SessionsSpec

\* A session opened with an old password was issued by a request that overlapped a
\* password change, or descends from one that was (change_login_password).
THEOREM PasswordChangesLogOut == SessionsSpec => []PasswordChangeLogsOut
<1>1. SessionInv => PasswordChangeLogsOut
  BY DEF SessionInv
<1> QED
  BY <1>1, InitSessions, NextSessions, PTL DEF SessionsSpec

------------------------------------------------------------------------------
(* Devices. *)

------------------------------------------------------------------------------
(* The invariant of the devices. *)

\* Two registrations of a phone that are in flight together have met.
RacesMet ==
  \A s, t \in Task :
    /\ s # t /\ job[s].pc \in Registering /\ job[t].pc \in Registering
    /\ job[s].token = job[t].token /\ job[t].token # NoPush
    => <<job[t].token, job[s].user, job[t].user>> \in met

\* After its eviction, a registration leaves rows of other users only if they came from
\* registrations that it met.
EvictsMet(t) ==
  job[t].pc \in Registering \ {"evict"} /\ job[t].token # NoPush =>
    \A d \in Rows \ job[t].evicts :
      token[d] = job[t].token /\ holder[d] # job[t].user =>
        /\ <<token[d], job[t].user, holder[d]>> \in met
        /\ <<token[d], holder[d], job[t].user>> \in met

\* The registrations of k for u that have found no row.
Inserting(u, k) ==
  {t \in Task : job[t].pc = "insert" /\ job[t].user = u /\ job[t].token = k}

\* They found none all at the same time.
CopiesBounded(u, k) ==
  Cardinality(Holding(u, k)) + Cardinality(Inserting(u, k)) <= Cardinality(Task)

DevicesInv ==
  /\ DevicesTypeOK
  /\ \A t \in Task : job[t].pc \in Registering => job[t].user \in User
  /\ RacesMet
  /\ \A t \in Task : EvictsMet(t)
  /\ TokenReclaimed
  /\ \A u \in User, k \in PushToken : CopiesBounded(u, k)

LEMMA DevicesFinite ==
  ASSUME NEW u, NEW k
  PROVE  /\ IsFiniteSet(Holding(u, k)) /\ Cardinality(Holding(u, k)) \in Nat
         /\ IsFiniteSet(Inserting(u, k)) /\ Cardinality(Inserting(u, k)) \in Nat
         /\ Cardinality(Inserting(u, k)) <= Cardinality(Task)
         /\ IsFiniteSet(Task) /\ Cardinality(Task) \in Nat
<1>1. IsFiniteSet(Device)
  BY FS_Interval, DevicesAssumption DEF Device
<1>2. Holding(u, k) \in SUBSET Device /\ Inserting(u, k) \in SUBSET Task
  BY DEF Holding, Rows, Inserting
<1> QED
  BY <1>1, <1>2, RequestsAssumption, FS_Subset, FS_CardinalityType

LEMMA NoJobType == NoJob \in Job /\ NoJob.pc = "idle"
  BY DEF NoJob, Job

LEMMA InitDevices == DevicesInit => DevicesInv
<1> SUFFICES ASSUME DevicesInit PROVE DevicesInv
  OBVIOUS
<1>1. Rows = {} /\ \A t \in Task : job[t].pc = "idle"
  BY NoJobType DEF DevicesInit, Rows
<1>2. DevicesTypeOK
  BY NoJobType DEF DevicesInit, DevicesTypeOK
<1>3. ASSUME NEW u \in User, NEW k \in PushToken PROVE CopiesBounded(u, k)
  <2>1. Holding(u, k) = {}
    BY <1>1 DEF Holding
  <2> QED
    BY <2>1, DevicesFinite, FS_EmptySet DEF CopiesBounded
<1> QED
  BY <1>1, <1>2, <1>3 DEF DevicesInv, RacesMet, EvictsMet, TokenReclaimed, Registering

------------------------------------------------------------------------------
(* Steps that bring no row and no registration. *)

\* Rows go or lose their token, and tasks end their registration.
Fewer ==
  /\ \A d \in Device : \/ holder'[d] = NoUser
                       \/ holder'[d] = holder[d] /\ token'[d] \in {token[d], NoPush}
  /\ \A t \in Task : job'[t] = job[t] \/ job'[t].pc \notin Registering
  /\ met' = met

LEMMA FewerStep ==
  ASSUME DevicesInv, DevicesTypeOK', Fewer
  PROVE  DevicesInv'
<1>1. /\ Rows' \subseteq Rows
      /\ \A d \in Rows' : holder'[d] = holder[d] /\ token'[d] \in {token[d], NoPush}
  BY DEF Fewer, Rows
<1>2. \A t \in Task : job'[t].pc \in Registering => job'[t].user \in User
  BY DEF Fewer, DevicesInv
<1>3. RacesMet'
  BY DEF Fewer, DevicesInv, RacesMet
<1>4. ASSUME NEW t \in Task PROVE EvictsMet(t)'
  <2>1. EvictsMet(t)
    BY DEF DevicesInv
  <2>2. CASE job'[t].pc \notin Registering
    BY <2>2 DEF EvictsMet
  <2>3. CASE job'[t] = job[t]
    BY <1>1, <2>1, <2>3 DEF EvictsMet, Fewer
  <2> QED
    BY <2>2, <2>3 DEF Fewer
<1>5. TokenReclaimed'
  BY <1>1 DEF Fewer, DevicesInv, TokenReclaimed
<1>6. ASSUME NEW u \in User, NEW k \in PushToken PROVE CopiesBounded(u, k)'
  <2>1. Holding(u, k)' \in SUBSET Holding(u, k)
    BY <1>1, DevicesAssumption DEF Holding
  <2>2. Inserting(u, k)' \in SUBSET Inserting(u, k)
    BY DEF Inserting, Fewer, Registering
  <2>3. /\ Cardinality(Holding(u, k)') <= Cardinality(Holding(u, k))
        /\ Cardinality(Inserting(u, k)') <= Cardinality(Inserting(u, k))
        /\ Cardinality(Holding(u, k)') \in Nat /\ Cardinality(Inserting(u, k)') \in Nat
    BY <2>1, <2>2, DevicesFinite, FS_Subset, FS_CardinalityType
  <2>4. CopiesBounded(u, k)
    BY DEF DevicesInv
  <2> QED
    BY <2>3, <2>4, DevicesFinite DEF CopiesBounded
<1> QED
  BY <1>2, <1>3, <1>4, <1>5, <1>6 DEF DevicesInv

LEMMA TaskFewer ==
  ASSUME DevicesInv, NEW t \in Task,
         \/ InsertDevice(t) /\ ~AccountExists(job[t].user)
         \/ UpdateDevice(t) \/ (\E u \in User : Push(t, u)) \/ ExpoAnswers(t)
         \/ RemoveStale(t) \/ JobFails(t)
  PROVE  DevicesInv'
<1>1. /\ alive \subseteq User /\ unused \subseteq Device
      /\ holder \in [Device -> alive \cup {NoUser}]
      /\ \A d \in unused : holder[d] = NoUser
      /\ token \in [Device -> PushToken \cup {NoPush}]
      /\ job \in [Task -> Job] /\ job[t] \in Job
      /\ met \subseteq PushToken \X User \X User
  BY DEF DevicesInv, DevicesTypeOK
<1>2. /\ UNCHANGED <<alive, unused, token, met>>
      /\ \E r \in Job : r.pc \notin Registering /\ job' = [job EXCEPT ![t] = r]
  <2>1. CASE ExpoAnswers(t)
    <3>1. CASE JobEnds(t)
      BY <2>1, <3>1, NoJobType DEF ExpoAnswers, rows, JobEnds, Registering
    <3>2. ASSUME NEW gone \in SUBSET job[t].targets,
                 job' = [job EXCEPT ![t].pc = "stale", ![t].targets = gone]
          PROVE  \E r \in Job : r.pc \notin Registering /\ job' = [job EXCEPT ![t] = r]
      <4> DEFINE r == [job[t] EXCEPT !.pc = "stale", !.targets = gone]
      <4>1. gone \in SUBSET Device
        BY <1>1 DEF Job
      <4>2. r \in Job /\ r.pc \notin Registering
        BY <1>1, <4>1 DEF Job, Registering
      <4>3. job' = [job EXCEPT ![t] = r]
        BY <1>1, <3>2
      <4> QED
        BY <4>2, <4>3
    <3> QED
      BY <2>1, <3>1, <3>2 DEF ExpoAnswers, rows
  <2>2. ASSUME NEW u \in User, Push(t, u)
        PROVE  /\ UNCHANGED <<alive, unused, token, met>>
               /\ \E r \in Job : r.pc \notin Registering /\ job' = [job EXCEPT ![t] = r]
    <3>1. PICK targets \in SUBSET Device :
            job' = [job EXCEPT ![t] = [NoJob EXCEPT !.pc = "send", !.user = u, !.targets = targets]]
      BY <2>2 DEF Push, JobStarts, Rows
    <3>2. /\ [NoJob EXCEPT !.pc = "send", !.user = u, !.targets = targets] \in Job
          /\ [NoJob EXCEPT !.pc = "send", !.user = u, !.targets = targets].pc \notin Registering
      BY DEF NoJob, Job, Registering
    <3> QED
      BY <2>2, <3>1, <3>2 DEF Push, rows
  <2>3. CASE InsertDevice(t) /\ ~AccountExists(job[t].user)
    BY <2>3, NoJobType DEF InsertDevice, rows, JobEnds, Registering
  <2>4. CASE UpdateDevice(t) \/ RemoveStale(t) \/ JobFails(t)
    BY <2>4, NoJobType DEF UpdateDevice, RemoveStale, JobFails, rows, JobEnds, Registering
  <2> QED
    BY <2>1, <2>2, <2>3, <2>4
<1>3. \E D \in SUBSET Device :
        holder' = [d \in Device |-> IF d \in D THEN NoUser ELSE holder[d]]
  <2>1. holder = [d \in Device |-> IF d \in {} THEN NoUser ELSE holder[d]] /\ {} \in SUBSET Device
    BY <1>1
  <2>2. CASE holder' = holder
    BY <2>1, <2>2
  <2>3. CASE UpdateDevice(t) /\ holder' # holder
    <3>1. job[t].evicts \in SUBSET Device
      BY <1>1 DEF Job
    <3> QED
      BY <2>3, <3>1 DEF UpdateDevice
  <2>4. CASE RemoveStale(t)
    <3>1. job[t].targets \in SUBSET Device
      BY <1>1 DEF Job
    <3> QED
      BY <2>4, <3>1 DEF RemoveStale
  <2> QED
    BY <2>2, <2>3, <2>4 DEF InsertDevice, Push, ExpoAnswers, JobFails, rows
<1>4. job' \in [Task -> Job] /\ \A s \in Task : job'[s] = job[s] \/ job'[s].pc \notin Registering
  BY <1>1, <1>2
<1>5. \A d \in Device : holder'[d] \in alive' \cup {NoUser}
  BY <1>1, <1>2, <1>3
<1>6. DevicesTypeOK'
  BY <1>1, <1>2, <1>3, <1>4, <1>5 DEF DevicesTypeOK
<1>7. Fewer
  BY <1>2, <1>3, <1>4 DEF Fewer
<1> QED
  BY <1>6, <1>7, FewerStep

LEMMA OwnerFewer ==
  ASSUME DevicesInv, NEW u \in User,
         DeleteOwner(u) \/ \E k \in PushToken : ClearPushToken(u, k)
  PROVE  DevicesInv'
<1>1. /\ alive \subseteq User /\ unused \subseteq Device
      /\ holder \in [Device -> alive \cup {NoUser}]
      /\ \A d \in unused : holder[d] = NoUser
      /\ token \in [Device -> PushToken \cup {NoPush}]
      /\ job \in [Task -> Job] /\ met \subseteq PushToken \X User \X User
  BY DEF DevicesInv, DevicesTypeOK
<1>2. CASE DeleteOwner(u)
  <2>1. /\ alive' = alive \ {u} /\ UNCHANGED <<unused, token, job, met>>
        /\ holder' = [d \in Device |-> IF holder[d] = u THEN NoUser ELSE holder[d]]
    BY <1>2 DEF DeleteOwner
  <2>2. DevicesTypeOK'
    BY <1>1, <2>1 DEF DevicesTypeOK
  <2>3. Fewer
    BY <2>1 DEF Fewer
  <2> QED
    BY <2>2, <2>3, FewerStep
<1>3. ASSUME NEW k \in PushToken, ClearPushToken(u, k) PROVE DevicesInv'
  <2>1. /\ UNCHANGED <<alive, unused, holder, job, met>>
        /\ token' = [d \in Device |-> IF d \in Holding(u, k) THEN NoPush ELSE token[d]]
    BY <1>3 DEF ClearPushToken
  <2>2. DevicesTypeOK'
    BY <1>1, <2>1 DEF DevicesTypeOK
  <2>3. Fewer
    BY <2>1 DEF Fewer
  <2> QED
    BY <2>2, <2>3, FewerStep
<1> QED
  BY <1>2, <1>3

------------------------------------------------------------------------------
(* The registrations. *)

LEMMA RegisterStep ==
  ASSUME DevicesInv, NEW t \in Task, NEW u \in User, NEW k \in PushToken \cup {NoPush},
         RegisterDevice(t, u, k)
  PROVE  DevicesInv'
<1> DEFINE r == [NoJob EXCEPT !.pc = IF k = NoPush THEN "insert" ELSE "evict",
                              !.user = u, !.token = k]
<1>1. /\ DevicesTypeOK /\ job[t].pc = "idle" /\ UNCHANGED <<alive, unused, holder, token>>
      /\ job' = [job EXCEPT ![t] = r] /\ job \in [Task -> Job]
  BY DEF RegisterDevice, JobStarts, rows, DevicesInv, DevicesTypeOK
<1>2. /\ r \in Job /\ r.user = u /\ r.token = k /\ r.pc \in {"insert", "evict"}
      /\ r.pc = "insert" => k = NoPush
  BY DEF NoJob, Job
<1> HIDE DEF r
<1>3. job'[t] = r /\ \A s \in Task \ {t} : job'[s] = job[s]
  BY <1>1
<1>4. \A s \in Task : job[s].pc \in Registering => job[s].user \in User
  BY DEF DevicesInv
<1>5. /\ met \subseteq met' /\ met' \subseteq PushToken \X User \X User
      /\ k # NoPush => \A s \in Beside(t, u, k) :
                         <<k, u, job[s].user>> \in met' /\ <<k, job[s].user, u>> \in met'
  <2>1. met \subseteq PushToken \X User \X User
    BY <1>1 DEF DevicesTypeOK
  <2>2. CASE k = NoPush
    BY <2>1, <2>2 DEF RegisterDevice
  <2>3. CASE k # NoPush
    <3>1. Meet(t, u, k)
      BY <2>3 DEF RegisterDevice
    <3>2. \A s \in Beside(t, u, k) : job[s].user \in User
      BY <1>4 DEF Beside
    <3>3. k \in PushToken
      BY <2>3
    <3> QED
      BY <2>1, <3>1, <3>2, <3>3 DEF Meet
  <2> QED
    BY <2>2, <2>3
<1>6. DevicesTypeOK'
  <2>1. job' \in [Task -> Job]
    BY <1>1, <1>2
  <2> QED
    BY <1>1, <1>5, <2>1 DEF DevicesTypeOK
<1>7. RacesMet'
  <2> SUFFICES ASSUME NEW s \in Task, NEW q \in Task, s # q,
                      job'[s].pc \in Registering, job'[q].pc \in Registering,
                      job'[s].token = job'[q].token, job'[q].token # NoPush
               PROVE  <<job'[q].token, job'[s].user, job'[q].user>> \in met'
    BY DEF RacesMet
  <2>1. CASE s # t /\ q # t
    BY <1>3, <1>5, <2>1 DEF DevicesInv, RacesMet
  <2>2. CASE s = t
    <3>1. q \in Beside(t, u, k) /\ k # NoPush
      BY <1>2, <1>3, <2>2 DEF Beside
    <3> QED
      BY <1>2, <1>3, <1>5, <2>2, <3>1
  <2>3. CASE q = t
    <3>1. s \in Beside(t, u, k) /\ k # NoPush
      BY <1>2, <1>3, <2>3 DEF Beside
    <3> QED
      BY <1>2, <1>3, <1>5, <2>3, <3>1
  <2> QED
    BY <2>1, <2>2, <2>3
<1>8. ASSUME NEW s \in Task PROVE EvictsMet(s)'
  <2>1. CASE s = t
    BY <1>2, <1>3, <2>1 DEF EvictsMet
  <2>2. CASE s # t
    <3>1. EvictsMet(s) /\ job'[s] = job[s]
      BY <1>3, <2>2 DEF DevicesInv
    <3> QED
      BY <1>1, <1>5, <3>1 DEF EvictsMet, Rows
  <2> QED
    BY <2>1, <2>2
<1>9. TokenReclaimed'
  BY <1>1, <1>5 DEF DevicesInv, TokenReclaimed, Rows
<1>10. ASSUME NEW v \in User, NEW j \in PushToken PROVE CopiesBounded(v, j)'
  <2>1. Holding(v, j)' = Holding(v, j)
    BY <1>1 DEF Holding, Rows
  <2>2. Inserting(v, j)' = Inserting(v, j)
    BY <1>1, <1>2, <1>3, DevicesAssumption DEF Inserting
  <2> QED
    BY <2>1, <2>2 DEF DevicesInv, CopiesBounded
<1> QED
  BY <1>2, <1>3, <1>4, <1>6, <1>7, <1>8, <1>9, <1>10 DEF DevicesInv

\* The DELETE of the rows of other users, and the SELECT.
LEMMA EvictStep ==
  ASSUME DevicesInv, NEW t \in Task, Evict(t)
  PROVE  DevicesInv'
<1> DEFINE evicts == Evicted(job[t].user, job[t].token)
<1>1. /\ DevicesTypeOK /\ job[t].pc = "evict" /\ UNCHANGED <<alive, unused, holder, token, met>>
      /\ job' = [job EXCEPT ![t].pc = "select", ![t].evicts = evicts] /\ job \in [Task -> Job]
  BY DEF Evict, rows, DevicesInv, DevicesTypeOK
<1>2. evicts \in SUBSET Device
  BY DEF Evicted, Rows
<1>3. \A d \in Rows \ evicts : ~(token[d] = job[t].token /\ holder[d] # job[t].user)
  BY DEF Evicted
<1> HIDE DEF evicts
<1>4. /\ job'[t] = [job[t] EXCEPT !.pc = "select", !.evicts = evicts]
      /\ \A s \in Task \ {t} : job'[s] = job[s]
      /\ job' = [s \in Task |-> job'[s]]
  BY <1>1
<1>5. /\ job'[t] \in Job /\ job'[t].pc = "select" /\ job'[t].evicts = evicts
      /\ job'[t].user = job[t].user /\ job'[t].token = job[t].token
  BY <1>1, <1>2, <1>4 DEF Job
<1>6. DevicesTypeOK'
  <2>1. job' \in [Task -> Job]
    BY <1>1, <1>5
  <2> QED
    BY <1>1, <2>1 DEF DevicesTypeOK
<1>7. \A s \in Task : job'[s].pc \in Registering => job'[s].user \in User
  BY <1>1, <1>4, <1>5 DEF DevicesInv, Registering
<1>8. RacesMet'
  <2>1. \A s \in Task : /\ job'[s].pc \in Registering <=> job[s].pc \in Registering
                        /\ job'[s].token = job[s].token /\ job'[s].user = job[s].user
    BY <1>1, <1>4, <1>5 DEF Registering
  <2> QED
    BY <1>1, <2>1 DEF DevicesInv, RacesMet
<1>9. ASSUME NEW s \in Task PROVE EvictsMet(s)'
  <2>1. CASE s = t
    BY <1>1, <1>3, <1>5, <2>1 DEF EvictsMet, Rows
  <2>2. CASE s # t
    <3>1. EvictsMet(s) /\ job'[s] = job[s]
      BY <1>4, <2>2 DEF DevicesInv
    <3> QED
      BY <1>1, <3>1 DEF EvictsMet, Rows
  <2> QED
    BY <2>1, <2>2
<1>10. TokenReclaimed'
  BY <1>1 DEF DevicesInv, TokenReclaimed, Rows
<1>11. ASSUME NEW v \in User, NEW j \in PushToken PROVE CopiesBounded(v, j)'
  <2>1. Holding(v, j)' = Holding(v, j)
    BY <1>1 DEF Holding, Rows
  <2>2. Inserting(v, j)' = Inserting(v, j)
    BY <1>1, <1>4, <1>5 DEF Inserting
  <2> QED
    BY <2>1, <2>2 DEF DevicesInv, CopiesBounded
<1> QED
  BY <1>6, <1>7, <1>8, <1>9, <1>10, <1>11 DEF DevicesInv

LEMMA SelectStep ==
  ASSUME DevicesInv, NEW t \in Task, Select(t)
  PROVE  DevicesInv'
<1>1. /\ DevicesTypeOK /\ job[t].pc = "select" /\ UNCHANGED <<alive, unused, holder, token, met>>
      /\ job \in [Task -> Job] /\ job[t] \in Job
  BY DEF Select, rows, DevicesInv, DevicesTypeOK
<1>2. CASE JobEnds(t)
  <2>1. job' = [job EXCEPT ![t] = NoJob]
    BY <1>2 DEF JobEnds
  <2>2. DevicesTypeOK'
    <3>1. job' \in [Task -> Job]
      BY <1>1, <2>1, NoJobType
    <3> QED
      BY <1>1, <3>1 DEF DevicesTypeOK
  <2>3. Fewer
    BY <1>1, <2>1, NoJobType DEF Fewer, Registering
  <2> QED
    BY <2>2, <2>3, FewerStep
<1>3. ASSUME NEW pc \in {"insert", "update"}, NEW found \in Device \cup {NoDevice},
             job' = [job EXCEPT ![t].pc = pc, ![t].found = found],
             pc = "insert" => Found(job[t].user, job[t].token) = {}
      PROVE  DevicesInv'
  <2>1. /\ job'[t] = [job[t] EXCEPT !.pc = pc, !.found = found]
        /\ \A s \in Task \ {t} : job'[s] = job[s]
        /\ job' = [s \in Task |-> job'[s]]
    BY <1>1, <1>3
  <2>2. /\ job'[t] \in Job /\ job'[t].pc = pc /\ job'[t].evicts = job[t].evicts
        /\ job'[t].user = job[t].user /\ job'[t].token = job[t].token
    BY <1>1, <2>1 DEF Job
  <2>3. DevicesTypeOK'
    <3>1. job' \in [Task -> Job]
      BY <1>1, <1>3, <2>2
    <3> QED
      BY <1>1, <3>1 DEF DevicesTypeOK
  <2>4. \A s \in Task : job'[s].pc \in Registering => job'[s].user \in User
    BY <1>1, <2>1, <2>2 DEF DevicesInv, Registering
  <2>5. RacesMet'
    <3>1. \A s \in Task : /\ job'[s].pc \in Registering <=> job[s].pc \in Registering
                          /\ job'[s].token = job[s].token /\ job'[s].user = job[s].user
      BY <1>1, <2>1, <2>2 DEF Registering
    <3> QED
      BY <1>1, <3>1 DEF DevicesInv, RacesMet
  <2>6. ASSUME NEW s \in Task PROVE EvictsMet(s)'
    <3>1. EvictsMet(s)
      BY DEF DevicesInv
    <3>2. CASE s = t
      BY <1>1, <2>2, <3>1, <3>2 DEF EvictsMet, Rows, Registering
    <3>3. CASE s # t
      BY <1>1, <2>1, <3>1, <3>3 DEF EvictsMet, Rows
    <3> QED
      BY <3>2, <3>3
  <2>7. TokenReclaimed'
    BY <1>1 DEF DevicesInv, TokenReclaimed, Rows
  <2>8. ASSUME NEW v \in User, NEW j \in PushToken PROVE CopiesBounded(v, j)'
    <3>1. Holding(v, j)' = Holding(v, j)
      BY <1>1 DEF Holding, Rows
    <3>2. CASE pc = "insert" /\ v = job[t].user /\ j = job[t].token
      <4>1. Holding(v, j) = {}
        BY <1>3, <3>2, DevicesAssumption DEF Found
      <4>2. Inserting(v, j)' \in SUBSET Task
        BY DEF Inserting
      <4>3. /\ Cardinality(Inserting(v, j)') <= Cardinality(Task)
            /\ Cardinality(Inserting(v, j)') \in Nat
        BY <4>2, RequestsAssumption, FS_Subset, FS_CardinalityType
      <4> QED
        BY <3>1, <4>1, <4>3, DevicesFinite, FS_EmptySet DEF CopiesBounded
    <3>3. CASE ~(pc = "insert" /\ v = job[t].user /\ j = job[t].token)
      <4>1. Inserting(v, j)' = Inserting(v, j)
        BY <1>1, <2>1, <2>2, <3>3 DEF Inserting
      <4> QED
        BY <3>1, <4>1 DEF DevicesInv, CopiesBounded
    <3> QED
      BY <3>2, <3>3
  <2> QED
    BY <2>3, <2>4, <2>5, <2>6, <2>7, <2>8 DEF DevicesInv
<1>4. CASE /\ Found(job[t].user, job[t].token) = {}
           /\ job' = [job EXCEPT ![t].pc = "insert"]
  <2>1. job[t].found \in Device \cup {NoDevice}
    BY <1>1 DEF Job
  <2>2. job' = [job EXCEPT ![t].pc = "insert", ![t].found = job[t].found]
    BY <1>1, <1>4 DEF Job
  <2> QED
    BY <1>3, <1>4, <2>1, <2>2
<1>5. ASSUME NEW d \in Device, job' = [job EXCEPT ![t].pc = "update", ![t].found = d]
      PROVE  DevicesInv'
  BY <1>3, <1>5
<1> QED
  BY <1>2, <1>4, <1>5 DEF Select

\* The INSERT commits together with the deletion of the evicted rows.
LEMMA InsertStep ==
  ASSUME DevicesInv, NEW t \in Task, InsertDevice(t), AccountExists(job[t].user)
  PROVE  DevicesInv'
<1> DEFINE u == job[t].user
           k == job[t].token
<1>1. /\ DevicesTypeOK /\ job[t].pc = "insert" /\ UNCHANGED <<alive, met>>
      /\ job \in [Task -> Job] /\ job[t] \in Job /\ u \in alive /\ u \in User
      /\ k \in PushToken \cup {NoPush} /\ alive \subseteq User
      /\ holder \in [Device -> alive \cup {NoUser}] /\ token \in [Device -> PushToken \cup {NoPush}]
      /\ unused \subseteq Device /\ \A d \in unused : holder[d] = NoUser
  BY DEF InsertDevice, DevicesInv, DevicesTypeOK, AccountExists, Job
<1>2. PICK d \in unused :
        /\ unused' = unused \ {d}
        /\ holder' = [e \in Device |-> IF e = d THEN u
                                       ELSE IF e \in job[t].evicts THEN NoUser ELSE holder[e]]
        /\ token' = [token EXCEPT ![d] = k]
  BY DEF InsertDevice
<1>3. job' = [job EXCEPT ![t] = NoJob]
  BY DEF InsertDevice, JobEnds
<1>4. /\ job'[t].pc = "idle" /\ \A s \in Task \ {t} : job'[s] = job[s]
      /\ job' \in [Task -> Job]
  BY <1>1, <1>3, NoJobType
<1>5. /\ d \in Device /\ holder[d] = NoUser /\ holder'[d] = u /\ token'[d] = k
      /\ \A e \in Device \ {d} : /\ token'[e] = token[e]
                                 /\ holder'[e] = IF e \in job[t].evicts THEN NoUser ELSE holder[e]
  BY <1>1, <1>2
<1>6. /\ Rows' \subseteq Rows \cup {d} /\ d \notin Rows
      /\ \A e \in Rows' \ {d} : /\ e \in Rows /\ e \notin job[t].evicts
                                /\ holder'[e] = holder[e] /\ token'[e] = token[e]
  BY <1>5 DEF Rows
<1>7. DevicesTypeOK'
  <2>1. holder' \in [Device -> alive \cup {NoUser}]
    BY <1>1, <1>2
  <2>2. token' \in [Device -> PushToken \cup {NoPush}]
    BY <1>1, <1>2
  <2>3. \A e \in unused' : holder'[e] = NoUser
    BY <1>1, <1>2, <1>5
  <2> QED
    BY <1>1, <1>2, <1>4, <2>1, <2>2, <2>3 DEF DevicesTypeOK
<1>8. \A s \in Task : job'[s].pc \in Registering => job'[s].user \in User
  BY <1>4 DEF DevicesInv, Registering
<1>9. RacesMet'
  BY <1>1, <1>4 DEF DevicesInv, RacesMet, Registering
<1>10. EvictsMet(t)
  BY DEF DevicesInv
<1>11. ASSUME NEW s \in Task PROVE EvictsMet(s)'
  <2>1. CASE s = t
    BY <1>4, <2>1 DEF EvictsMet, Registering
  <2>2. CASE s # t
    <3> SUFFICES ASSUME job'[s].pc \in Registering \ {"evict"}, job'[s].token # NoPush,
                        NEW e \in Rows' \ job'[s].evicts,
                        token'[e] = job'[s].token, holder'[e] # job'[s].user
                 PROVE  /\ <<token'[e], job'[s].user, holder'[e]>> \in met'
                        /\ <<token'[e], holder'[e], job'[s].user>> \in met'
      BY DEF EvictsMet
    <3>1. job'[s] = job[s] /\ EvictsMet(s)
      BY <1>4, <2>2 DEF DevicesInv
    <3>2. CASE e = d
      <4>1. job[t].pc \in Registering /\ job[s].pc \in Registering /\ job[s].token = k /\ k # NoPush
        BY <1>1, <1>5, <3>1, <3>2 DEF Registering
      <4>2. <<k, job[s].user, u>> \in met /\ <<k, u, job[s].user>> \in met
        BY <2>2, <4>1 DEF DevicesInv, RacesMet
      <4> QED
        BY <1>1, <1>5, <3>1, <3>2, <4>2
    <3>3. CASE e # d
      BY <1>1, <1>6, <3>1, <3>3 DEF EvictsMet
    <3> QED
      BY <3>2, <3>3
  <2> QED
    BY <2>1, <2>2
<1>12. TokenReclaimed'
  <2> SUFFICES ASSUME NEW a \in Rows', NEW b \in Rows', token'[a] = token'[b],
                      token'[a] # NoPush, holder'[a] # holder'[b]
               PROVE  <<token'[a], holder'[a], holder'[b]>> \in met'
    BY DEF TokenReclaimed
  <2>1. ASSUME NEW e \in Rows' \ {d}, token'[e] = k, k # NoPush, holder'[e] # u
        PROVE  <<k, u, holder'[e]>> \in met /\ <<k, holder'[e], u>> \in met
    BY <1>1, <1>6, <1>10, <2>1 DEF EvictsMet, Registering
  <2>2. CASE a = d
    BY <1>1, <1>5, <2>1, <2>2
  <2>3. CASE b = d
    BY <1>1, <1>5, <2>1, <2>3
  <2>4. CASE a # d /\ b # d
    BY <1>1, <1>6, <2>4 DEF DevicesInv, TokenReclaimed
  <2> QED
    BY <2>2, <2>3, <2>4
<1>13. ASSUME NEW v \in User, NEW j \in PushToken PROVE CopiesBounded(v, j)'
  <2>1. CopiesBounded(v, j)
    BY DEF DevicesInv
  <2>2. CASE v = u /\ j = k
    <3>1. Holding(v, j)' \in SUBSET (Holding(v, j) \cup {d}) /\ d \notin Holding(v, j)
      BY <1>6 DEF Holding
    <3>2. Inserting(v, j)' = Inserting(v, j) \ {t} /\ t \in Inserting(v, j)
      BY <1>1, <1>4, <2>2 DEF Inserting
    <3>3. /\ Cardinality(Inserting(v, j)') = Cardinality(Inserting(v, j)) - 1
          /\ IsFiniteSet(Holding(v, j) \cup {d})
          /\ Cardinality(Holding(v, j) \cup {d}) = Cardinality(Holding(v, j)) + 1
      <4>1. IsFiniteSet(Holding(v, j)) /\ IsFiniteSet(Inserting(v, j))
        BY DevicesFinite
      <4>2. Cardinality(Inserting(v, j) \ {t}) = Cardinality(Inserting(v, j)) - 1
        BY <3>2, <4>1, FS_RemoveElement
      <4> QED
        BY <3>1, <3>2, <4>1, <4>2, FS_AddElement
    <3>4. /\ Cardinality(Holding(v, j)') <= Cardinality(Holding(v, j) \cup {d})
          /\ Cardinality(Holding(v, j)') \in Nat
      BY <3>1, <3>3, FS_Subset, FS_CardinalityType
    <3> QED
      BY <2>1, <3>3, <3>4, DevicesFinite DEF CopiesBounded
  <2>3. CASE ~(v = u /\ j = k)
    <3>1. Holding(v, j)' \in SUBSET Holding(v, j)
      BY <1>5, <1>6, <2>3 DEF Holding
    <3>2. Inserting(v, j)' = Inserting(v, j)
      BY <1>1, <1>4, <2>3 DEF Inserting
    <3>3. /\ Cardinality(Holding(v, j)') <= Cardinality(Holding(v, j))
          /\ Cardinality(Holding(v, j)') \in Nat
      BY <3>1, DevicesFinite, FS_Subset, FS_CardinalityType
    <3> QED
      BY <2>1, <3>2, <3>3, DevicesFinite DEF CopiesBounded
  <2> QED
    BY <2>2, <2>3
<1> QED
  BY <1>7, <1>8, <1>9, <1>11, <1>12, <1>13 DEF DevicesInv

LEMMA DevicesStep == DevicesInv /\ [DevicesNext]_devicesVars => DevicesInv'
<1> SUFFICES ASSUME DevicesInv, [DevicesNext]_devicesVars
             PROVE  DevicesInv'
  OBVIOUS
<1>1. ASSUME NEW t \in Task, NEW u \in User, NEW k \in PushToken \cup {NoPush},
             RegisterDevice(t, u, k)
      PROVE  DevicesInv'
  BY <1>1, RegisterStep
<1>2. ASSUME NEW t \in Task, InsertDevice(t)
      PROVE  DevicesInv'
  BY <1>2, InsertStep, TaskFewer
<1>3. ASSUME NEW t \in Task,
             UpdateDevice(t) \/ (\E u \in User : Push(t, u)) \/ ExpoAnswers(t)
               \/ RemoveStale(t) \/ JobFails(t)
      PROVE  DevicesInv'
  BY <1>3, TaskFewer
<1>4. ASSUME NEW u \in User, DeleteOwner(u) \/ \E k \in PushToken : ClearPushToken(u, k)
      PROVE  DevicesInv'
  BY <1>4, OwnerFewer
<1>5. CASE UNCHANGED devicesVars
  <2>1. DevicesTypeOK' /\ Fewer
    BY <1>5 DEF devicesVars, DevicesInv, DevicesTypeOK, Fewer
  <2> QED
    BY <2>1, FewerStep
<1> QED
  BY <1>1, <1>2, <1>3, <1>4, <1>5, EvictStep, SelectStep DEF DevicesNext

\* The types of the devices, and their foreign key: no row outlives its account.
THEOREM DevicesTypes == DevicesSpec => []DevicesTypeOK
<1>1. DevicesInv => DevicesTypeOK
  BY DEF DevicesInv
<1> QED
  BY <1>1, InitDevices, DevicesStep, PTL DEF DevicesSpec

\* register_device: a phone belongs to the last account that registered it; two accounts
\* share its token only if their registrations were in flight together.
THEOREM TokensReclaimed == DevicesSpec => []TokenReclaimed
<1>1. DevicesInv => TokenReclaimed
  BY DEF DevicesInv
<1> QED
  BY <1>1, InitDevices, DevicesStep, PTL DEF DevicesSpec

\* register_device: a phone registered again updates its row; the rows of a phone for one
\* account are never more than the requests that can be in flight.
THEOREM DuplicatesBounded == DevicesSpec => []DuplicateBound
<1>1. DevicesInv => DuplicateBound
  <2> SUFFICES ASSUME DevicesInv, NEW u \in User, NEW k \in PushToken
               PROVE  Cardinality(Holding(u, k)) <= Cardinality(Task)
    BY DEF DuplicateBound
  <2>1. CopiesBounded(u, k)
    BY DEF DevicesInv
  <2> QED
    BY <2>1, DevicesFinite DEF CopiesBounded
<1> QED
  BY <1>1, InitDevices, DevicesStep, PTL DEF DevicesSpec
==============================================================================
