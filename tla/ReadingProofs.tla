--------------------------- MODULE ReadingProofs -----------------------------
(***************************************************************************)
(* Theorems about what the clients read: the pages of a conversation       *)
(* (History) for any page size and number of rows, and the list of chats   *)
(* (ChatList) for any chats and devices.                                   *)
(***************************************************************************)
EXTENDS History, ChatList, FiniteSetTheorems, WellFoundedInduction, TLAPS

------------------------------------------------------------------------------
(* History. *)

------------------------------------------------------------------------------
(* Pages. *)

LEMMA Smallest ==
  ASSUME NEW S \in SUBSET Nat, S # {}
  PROVE  \E m \in S : \A k \in S : m <= k
<1>1. PICK m \in S : \A k \in S : ~(<<k, m>> \in OpToRel(<, Nat))
  BY WFMin, NatLessThanWellFounded
<1>2. \A k \in S : ~(k < m)
  BY <1>1 DEF OpToRel
<1>3. ASSUME NEW k \in S PROVE m <= k
  BY <1>2
<1> QED
  BY <1>3

LEMMA Newest ==
  ASSUME NEW S \in SUBSET Posted, S # {}
  PROVE  \E m \in S : \A k \in S : k <= m
<1> DEFINE T == {NoCursor - k : k \in S}
<1>1. NoCursor \in Int /\ \A k \in S : k \in Nat /\ NoCursor - k \in Nat
  BY HistoryAssumption DEF Posted, NoCursor
<1>2. T \in SUBSET Nat /\ T # {}
  BY <1>1
<1>3. PICK n \in T : \A k \in T : n <= k
  BY <1>2, Smallest
<1>4. PICK m \in S : n = NoCursor - m
  BY <1>3
<1>5. ASSUME NEW k \in S PROVE k <= m
  <2>1. NoCursor - m <= NoCursor - k
    BY <1>3, <1>4
  <2> QED
    BY <1>1, <2>1
<1> QED
  BY <1>5

\* The stored rows between a row and the cursor.
Newer(m, cursor) == {k \in StoredPosts : m < k /\ k < cursor}

LEMMA PostedFinite ==
  /\ Posted \subseteq Nat
  /\ \A S \in SUBSET Posted : IsFiniteSet(S) /\ Cardinality(S) \in Nat
<1>1. IsFiniteSet(Posted)
  BY FS_Interval, HistoryAssumption DEF Posted
<1>2. ASSUME NEW S \in SUBSET Posted PROVE IsFiniteSet(S) /\ Cardinality(S) \in Nat
  BY <1>1, FS_Subset, FS_CardinalityType
<1> QED
  BY <1>2, HistoryAssumption DEF Posted

\* LIMIT: a page has at most PageLimit rows.
LEMMA PageAtMost ==
  ASSUME NEW cursor \in 1 .. NoCursor
  PROVE  Cardinality(PageRows(cursor)) <= PageLimit
<1> DEFINE page == PageRows(cursor)
<1>1. page \in SUBSET Posted /\ PageLimit \in Nat
  BY HistoryAssumption DEF PageRows, StoredPosts
<1>2. CASE page = {}
  BY <1>1, <1>2, FS_EmptySet
<1>3. CASE page # {}
  <2>1. PICK oldest \in page : \A k \in page : oldest <= k
    BY <1>1, <1>3, PostedFinite, Smallest
  <2>2. /\ page \ {oldest} \in SUBSET Newer(oldest, cursor)
        /\ Newer(oldest, cursor) \in SUBSET Posted
        /\ Cardinality(Newer(oldest, cursor)) < PageLimit
    <3>1. Cardinality(Newer(oldest, cursor)) < PageLimit
      BY <2>1 DEF PageRows, Newer
    <3>2. ASSUME NEW k \in page \ {oldest} PROVE k \in Newer(oldest, cursor)
      <4>1. k \in StoredPosts /\ k < cursor /\ oldest <= k /\ k # oldest
        BY <2>1 DEF PageRows
      <4>2. k \in Nat /\ oldest \in Nat
        BY <1>1, <2>1, PostedFinite
      <4> QED
        BY <4>1, <4>2 DEF Newer
    <3> QED
      BY <3>1, <3>2 DEF Newer, StoredPosts
  <2>3. Cardinality(page \ {oldest}) <= Cardinality(Newer(oldest, cursor))
    BY <2>2, PostedFinite, FS_Subset
  <2>4. Cardinality(page \ {oldest}) = Cardinality(page) - 1
    BY <1>1, <2>1, PostedFinite, FS_RemoveElement
  <2>5. Cardinality(page) \in Nat /\ Cardinality(Newer(oldest, cursor)) \in Nat
    BY <1>1, <2>2, PostedFinite
  <2> HIDE DEF page
  <2> QED
    BY <1>1, <2>2, <2>3, <2>4, <2>5 DEF page
<1> QED
  BY <1>2, <1>3

\* ORDER BY created_at DESC: what a page leaves out is older than all of it, and then it is full.
LEMMA PageIsNewest ==
  ASSUME NEW cursor \in 1 .. NoCursor, NEW m \in StoredPosts, m < cursor,
         m \notin PageRows(cursor)
  PROVE  /\ \A k \in PageRows(cursor) : m < k
         /\ Cardinality(PageRows(cursor)) = PageLimit
<1> DEFINE page == PageRows(cursor)
           rest == {k \in StoredPosts : k < cursor /\ k \notin page}
<1>1. page \in SUBSET Posted /\ rest \in SUBSET Posted /\ PageLimit \in Nat
  BY HistoryAssumption DEF PageRows, StoredPosts
<1>2. \A k : Newer(k, cursor) \in SUBSET Posted
  BY DEF Newer, StoredPosts
<1>3. ASSUME NEW k \in rest
      PROVE  Cardinality(Newer(k, cursor)) >= PageLimit
  <2>1. ~(Cardinality(Newer(k, cursor)) < PageLimit)
    BY <1>3 DEF PageRows, Newer
  <2> QED
    BY <1>1, <1>2, <2>1, PostedFinite
<1>4. ASSUME NEW k \in page PROVE m < k
  <2>1. m \in Nat /\ k \in Nat /\ m # k
    BY <1>1, PostedFinite DEF StoredPosts
  <2>2. SUFFICES ASSUME k < m PROVE FALSE
    BY <2>1
  <2>3. Newer(m, cursor) \in SUBSET Newer(k, cursor)
    <3>1. ASSUME NEW j \in Newer(m, cursor) PROVE k < j
      <4>1. j \in Nat /\ m < j
        BY <3>1, PostedFinite DEF Newer, StoredPosts
      <4> QED
        BY <2>1, <2>2, <4>1
    <3> QED
      BY <3>1 DEF Newer
  <2>4. Cardinality(Newer(m, cursor)) <= Cardinality(Newer(k, cursor))
    BY <1>2, <2>3, PostedFinite, FS_Subset
  <2>5. Cardinality(Newer(m, cursor)) >= PageLimit
    BY <1>3
  <2>6. Cardinality(Newer(k, cursor)) < PageLimit
    BY DEF PageRows, Newer
  <2> QED
    BY <1>1, <1>2, <2>4, <2>5, <2>6, PostedFinite
<1>5. Cardinality(page) >= PageLimit
  <2>1. PICK newest \in rest : \A k \in rest : k <= newest
    BY <1>1, Newest
  <2>2. Newer(newest, cursor) \in SUBSET page
    <3>1. ASSUME NEW k \in Newer(newest, cursor), k \notin page PROVE FALSE
      <4>1. k \in rest /\ newest < k
        BY <3>1 DEF Newer
      <4>2. k \in Nat /\ newest \in Nat
        BY <1>1, <2>1, <4>1, PostedFinite
      <4> QED
        BY <2>1, <4>1, <4>2
    <3> QED
      BY <3>1
  <2>3. Cardinality(Newer(newest, cursor)) <= Cardinality(page)
    BY <1>1, <2>2, PostedFinite, FS_Subset
  <2> QED
    BY <1>1, <1>2, <1>3, <2>1, <2>3, PostedFinite
<1>6. Cardinality(page) <= PageLimit /\ Cardinality(page) \in Nat
  BY <1>1, PageAtMost, PostedFinite
<1> QED
  BY <1>1, <1>4, <1>5, <1>6

------------------------------------------------------------------------------
(* The walk. *)

\* What is left out of the page and still to come is older than the page, and then the
\* page is full: the walk goes on from its oldest row.
PageInv ==
  \A m \in ahead : m < walk.cursor /\ m \notin walk.rows =>
    /\ \A k \in walk.rows : m < k
    /\ Cardinality(walk.rows) = PageLimit

\* What was returned is not older than the cursor, and nothing newer is missing.
WalkInv ==
  /\ ahead \subseteq StoredPosts \ hidden
  /\ walk.pc \in {"ask", "rows"} =>
       /\ \A m \in walk.got : m >= walk.cursor
       /\ \A m \in ahead : m >= walk.cursor => m \in walk.got
  /\ walk.pc = "rows" => PageInv /\ \A m \in walk.rows : m < walk.cursor
  /\ walk.pc # "rows" => walk.rows = {}

HistoryInv == HistoryTypeOK /\ WalkInv /\ WalkComplete

LEMMA InitHistory == HistoryInit => HistoryInv
<1> SUFFICES ASSUME HistoryInit PROVE HistoryInv
  OBVIOUS
<1>1. NoCursor \in 1 .. NoCursor /\ NoWalk \in Walk
  BY HistoryAssumption DEF NoCursor, NoWalk, Walk
<1>2. Cardinality(NoWalk.rows) = 0 /\ 0 <= PageLimit
  BY FS_EmptySet, HistoryAssumption DEF NoWalk
<1> QED
  BY <1>1, <1>2 DEF HistoryInit, HistoryInv, HistoryTypeOK, WalkInv, WalkComplete, NoWalk

\* What is sent, hidden or deleted: a message that is ahead was stored, and is not hidden.
LEMMA PostStep ==
  ASSUME HistoryInv, UNCHANGED <<walk, twice>>,
         post' \in [Posted -> {"none", "drawn", "stored", "gone"}],
         hidden' \subseteq Posted, member' \in BOOLEAN,
         ahead' \subseteq ahead, \A m \in ahead' : post'[m] = "stored" /\ m \notin hidden'
  PROVE  HistoryInv'
<1>1. HistoryTypeOK'
  BY DEF HistoryInv, HistoryTypeOK
<1>2. ahead' \subseteq StoredPosts' \ hidden'
  BY DEF HistoryInv, HistoryTypeOK, StoredPosts
<1>3. PageInv => PageInv'
  BY DEF PageInv
<1>4. WalkInv'
  BY <1>2, <1>3 DEF HistoryInv, WalkInv
<1>5. WalkComplete'
  BY DEF HistoryInv, WalkComplete
<1> QED
  BY <1>1, <1>4, <1>5 DEF HistoryInv

LEMMA SendStep ==
  ASSUME HistoryInv, NEW m \in Posted, Draw(m) \/ Store(m) \/ Hide(m) \/ Purge(m)
  PROVE  HistoryInv'
<1>1. /\ post \in [Posted -> {"none", "drawn", "stored", "gone"}]
      /\ hidden \subseteq Posted /\ member \in BOOLEAN /\ ahead \subseteq Posted
      /\ \A k \in ahead : post[k] = "stored" /\ k \notin hidden
  BY DEF HistoryInv, HistoryTypeOK, WalkInv, StoredPosts
<1>2. CASE Draw(m)
  BY <1>1, <1>2, PostStep DEF Draw
<1>3. CASE Store(m)
  BY <1>1, <1>3, PostStep DEF Store
<1>4. CASE Hide(m)
  BY <1>1, <1>4, PostStep DEF Hide
<1>5. CASE Purge(m)
  BY <1>1, <1>5, PostStep DEF Purge
<1> QED
  BY <1>2, <1>3, <1>4, <1>5

LEMMA OpenStep ==
  ASSUME HistoryInv, Open
  PROVE  HistoryInv'
<1>1. walk' = [NoWalk EXCEPT !.pc = "ask"] /\ NoCursor \in 1 .. NoCursor
  BY HistoryAssumption DEF Open, NoCursor
<1>2. /\ walk' \in Walk /\ walk'.pc = "ask" /\ walk'.rows = {} /\ walk'.got = {}
      /\ walk'.cursor = NoCursor
  BY <1>1 DEF NoWalk, Walk
<1>3. Cardinality(walk'.rows) <= PageLimit
  BY <1>2, FS_EmptySet, HistoryAssumption
<1>4. \A m \in Posted : ~(m >= NoCursor)
  BY HistoryAssumption DEF Posted, NoCursor
<1>5. /\ UNCHANGED <<post, hidden, member>> /\ ahead' = StoredPosts \ hidden
      /\ twice' = {} /\ StoredPosts' = StoredPosts /\ StoredPosts \subseteq Posted
  BY DEF Open, StoredPosts
<1> QED
  BY <1>2, <1>3, <1>4, <1>5 DEF HistoryInv, HistoryTypeOK, WalkInv, WalkComplete

LEMMA ReadRowsStep ==
  ASSUME HistoryInv, ReadRows
  PROVE  HistoryInv'
<1>1. walk.pc = "ask" /\ UNCHANGED <<post, hidden, member>> /\ walk \in Walk
  BY DEF ReadRows, HistoryInv, HistoryTypeOK
<1>2. CASE walk' = NoWalk /\ ahead' = {} /\ twice' = {}
  <2>1. NoCursor \in 1 .. NoCursor /\ NoWalk \in Walk
    BY HistoryAssumption DEF NoCursor, NoWalk, Walk
  <2>2. Cardinality(NoWalk.rows) <= PageLimit
    BY FS_EmptySet, HistoryAssumption DEF NoWalk
  <2> QED
    BY <1>1, <1>2, <2>1, <2>2 DEF HistoryInv, HistoryTypeOK, WalkInv, WalkComplete, NoWalk
<1>3. CASE /\ walk' = [walk EXCEPT !.pc = "rows", !.rows = PageRows(walk.cursor)]
           /\ UNCHANGED <<ahead, twice>>
  <2> DEFINE page == PageRows(walk.cursor)
  <2>1. /\ walk.cursor \in 1 .. NoCursor /\ page \in SUBSET Posted
        /\ \A m \in page : m < walk.cursor
    BY <1>1 DEF Walk, PageRows, StoredPosts
  <2>2. /\ walk' \in Walk /\ walk'.pc = "rows" /\ walk'.rows = page
        /\ walk'.cursor = walk.cursor /\ walk'.got = walk.got
    BY <1>1, <1>3, <2>1 DEF Walk
  <2>3. Cardinality(walk'.rows) <= PageLimit
    BY <2>1, <2>2, PageAtMost
  <2>4. HistoryTypeOK'
    BY <1>1, <1>3, <2>2, <2>3 DEF HistoryInv, HistoryTypeOK
  <2>5. ahead \subseteq StoredPosts \ hidden /\ StoredPosts' = StoredPosts
    BY <1>1 DEF HistoryInv, WalkInv, StoredPosts
  <2>6. PageInv'
    <3>1. ASSUME NEW m \in ahead, m < walk.cursor, m \notin page
          PROVE  (\A k \in page : m < k) /\ Cardinality(page) = PageLimit
      BY <2>1, <2>5, <3>1, PageIsNewest
    <3> QED
      BY <1>3, <2>2, <3>1 DEF PageInv
  <2>7. WalkInv'
    BY <1>1, <1>3, <2>1, <2>2, <2>5, <2>6 DEF HistoryInv, WalkInv
  <2>8. WalkComplete'
    BY <1>3, <2>2 DEF HistoryInv, WalkComplete
  <2> QED
    BY <2>4, <2>7, <2>8 DEF HistoryInv
<1> QED
  BY <1>2, <1>3 DEF ReadRows

LEMMA AnswerStep ==
  ASSUME HistoryInv, AnswerPage
  PROVE  HistoryInv'
<1> DEFINE shown == walk.rows \ hidden
           full == Cardinality(walk.rows) = PageLimit
<1>1. /\ walk.pc = "rows" /\ walk \in Walk /\ UNCHANGED <<post, hidden, member, ahead>>
      /\ walk.rows \subseteq Posted /\ walk.got \subseteq Posted /\ Posted \subseteq Nat
      /\ ahead \subseteq StoredPosts \ hidden /\ StoredPosts' = StoredPosts
      /\ StoredPosts \subseteq Posted /\ walk.cursor \in Nat
  BY PostedFinite DEF AnswerPage, HistoryInv, HistoryTypeOK, WalkInv, Walk, StoredPosts
<1>2. /\ \A m \in walk.got : m >= walk.cursor
      /\ \A m \in ahead : m >= walk.cursor => m \in walk.got
      /\ \A m \in walk.rows : m < walk.cursor
      /\ PageInv
  BY <1>1 DEF HistoryInv, WalkInv
<1>3. twice' = {}
  <2>1. shown \cap walk.got = {}
    <3>1. ASSUME NEW m \in shown, m \in walk.got PROVE FALSE
      <4>1. m \in Nat /\ m < walk.cursor /\ m >= walk.cursor
        BY <1>1, <1>2, <3>1
      <4> QED
        BY <1>1, <4>1
    <3> QED
      BY <3>1
  <2>2. twice = {} /\ twice' = twice \cup (shown \cap walk.got)
    BY DEF HistoryInv, WalkComplete, AnswerPage
  <2> QED
    BY <2>1, <2>2
<1>4. CASE full
  <2>1. PICK oldest \in walk.rows :
          /\ \A m \in walk.rows : oldest <= m
          /\ walk' = [pc |-> "ask", cursor |-> oldest, rows |-> {}, got |-> walk.got \cup shown]
    BY <1>4 DEF AnswerPage, RawTail
  <2>2. oldest \in 1 .. NoCursor /\ oldest \in Nat
    BY <1>1, HistoryAssumption DEF Posted, NoCursor
  <2>3. walk' \in Walk /\ Cardinality(walk'.rows) <= PageLimit
    BY <1>1, <2>1, <2>2, FS_EmptySet, HistoryAssumption DEF Walk
  <2>4. ASSUME NEW m \in walk.got \cup shown PROVE m >= oldest
    <3>1. CASE m \in walk.got
      <4>1. m \in Nat /\ m >= walk.cursor /\ oldest < walk.cursor
        BY <1>1, <1>2, <3>1
      <4> QED
        BY <1>1, <2>2, <4>1
    <3>2. CASE m \in shown
      <4>1. m \in Nat /\ oldest <= m
        BY <1>1, <2>1, <3>2
      <4> QED
        BY <2>2, <4>1
    <3> QED
      BY <2>4, <3>1, <3>2
  <2>5. ASSUME NEW m \in ahead, m >= oldest PROVE m \in walk.got \cup shown
    <3>1. m \in Nat /\ m \notin hidden
      BY <1>1
    <3>2. CASE m >= walk.cursor
      BY <1>2, <3>2
    <3>3. CASE m < walk.cursor
      <4>1. m \in walk.rows
        <5>1. m \notin walk.rows => m < oldest
          BY <1>2, <3>3 DEF PageInv
        <5> QED
          BY <2>2, <2>5, <3>1, <5>1
      <4> QED
        BY <3>1, <4>1
    <3> QED
      BY <1>1, <3>1, <3>2, <3>3
  <2> QED
    BY <1>1, <1>3, <2>1, <2>3, <2>4, <2>5
       DEF HistoryInv, HistoryTypeOK, WalkInv, WalkComplete
<1>5. CASE ~full
  <2>1. walk' = [walk EXCEPT !.pc = "done", !.rows = {}, !.got = walk.got \cup shown]
    BY <1>5 DEF AnswerPage, RawTail
  <2>2. /\ walk' \in Walk /\ walk'.pc = "done" /\ walk'.rows = {}
        /\ walk'.got = walk.got \cup shown
    BY <1>1, <2>1 DEF Walk
  <2>3. Cardinality(walk'.rows) <= PageLimit
    BY <2>2, FS_EmptySet, HistoryAssumption
  <2>4. ASSUME NEW m \in ahead PROVE m \in walk.got \cup shown
    <3>1. m \in Nat /\ m \notin hidden
      BY <1>1
    <3>2. m >= walk.cursor \/ m \in walk.rows
      BY <1>1, <1>2, <1>5, <3>1 DEF PageInv
    <3> QED
      BY <1>2, <3>1, <3>2
  <2> QED
    BY <1>1, <1>3, <2>2, <2>3, <2>4 DEF HistoryInv, HistoryTypeOK, WalkInv, WalkComplete
<1> QED
  BY <1>4, <1>5

LEMMA HistoryStep == HistoryInv /\ [HistoryNext]_historyVars => HistoryInv'
<1> SUFFICES ASSUME HistoryInv, [HistoryNext]_historyVars
             PROVE  HistoryInv'
  OBVIOUS
<1>1. ASSUME NEW m \in Posted, Draw(m) \/ Store(m) \/ Hide(m) \/ Purge(m)
      PROVE  HistoryInv'
  BY <1>1, SendStep
<1>2. CASE LeaveOrRejoin
  <2>1. \A m \in ahead : post[m] = "stored" /\ m \notin hidden
    BY DEF HistoryInv, WalkInv, StoredPosts
  <2> QED
    BY <1>2, <2>1, PostStep DEF LeaveOrRejoin, HistoryInv, HistoryTypeOK
<1>3. CASE UNCHANGED historyVars
  <2>1. \A m \in ahead : post[m] = "stored" /\ m \notin hidden
    BY DEF HistoryInv, WalkInv, StoredPosts
  <2> QED
    BY <1>3, <2>1, PostStep DEF historyVars, HistoryInv, HistoryTypeOK
<1> QED
  BY <1>1, <1>2, <1>3, OpenStep, ReadRowsStep, AnswerStep DEF HistoryNext

\* list_messages: the types of the history, and no page has more than PageLimit rows.
THEOREM HistoryTypes == HistorySpec => []HistoryTypeOK
<1>1. HistoryInv => HistoryTypeOK
  BY DEF HistoryInv
<1> QED
  BY <1>1, InitHistory, HistoryStep, PTL DEF HistorySpec

\* list_messages: whatever is sent, hidden or deleted meanwhile, a walk to the end of the
\* cursors misses no message that was there all the time, and returns none twice.
THEOREM WalksComplete == HistorySpec => []WalkComplete
<1>1. HistoryInv => WalkComplete
  BY DEF HistoryInv
<1> QED
  BY <1>1, InitHistory, HistoryStep, PTL DEF HistorySpec

------------------------------------------------------------------------------
(* Chat list. *)

------------------------------------------------------------------------------
(* The chat list. *)

Delivered == {"unread", "read", "gone"}

LineTypeOK ==
  /\ mail \in [Mail -> {"none", "composed"} \cup Delivered]
  /\ line \in [pc : {"idle", "count", "last", "answered"}, list : BOOLEAN,
               counted : SUBSET Mail, last : Mail \cup {0}]

\* list_conversations counts first: what it counted is a row, or was one, and when
\* the last row has been read, none of it is newer and still there.
LineInv ==
  /\ LineTypeOK
  /\ line.list =>
       /\ line.pc = "last" => \A m \in line.counted : mail[m] \in Delivered
       /\ line.pc = "answered" => \A m \in line.counted : m > line.last => mail[m] = "gone"

LEMMA InitLine == ChatListInit => LineInv
  BY DEF ChatListInit, LineInv, LineTypeOK, NoLine, Delivered

\* Rows come and are read, and a message that is gone stays so.
LEMMA MailStep ==
  ASSUME LineInv, UNCHANGED line,
         mail' \in [Mail -> {"none", "composed"} \cup Delivered],
         \A m \in Mail : /\ mail[m] \in Delivered => mail'[m] \in Delivered
                         /\ mail[m] = "gone" => mail'[m] = "gone"
  PROVE  LineInv'
<1>1. line.counted \in SUBSET Mail
  BY DEF LineInv, LineTypeOK
<1> QED
  BY <1>1 DEF LineInv, LineTypeOK

\* The order of the two reads.
LEMMA ReadOrder ==
  ASSUME line.list \in BOOLEAN
  PROVE  /\ AfterRead("count") = IF line.list THEN "last" ELSE "answered"
         /\ AfterRead("last") = IF line.list THEN "answered" ELSE "count"
<1>1. /\ (CHOOSE next \in {"count", "last"} : next # "count") = "last"
      /\ (CHOOSE next \in {"count", "last"} : next # "last") = "count"
  OBVIOUS
<1> QED
  BY <1>1 DEF AfterRead, FirstRead

LEMMA LineStep == LineInv /\ [ChatListNext]_chatListVars => LineInv'
<1> SUFFICES ASSUME LineInv, [ChatListNext]_chatListVars
             PROVE  LineInv'
  OBVIOUS
<1>1. /\ mail \in [Mail -> {"none", "composed"} \cup Delivered]
      /\ line \in [pc : {"idle", "count", "last", "answered"}, list : BOOLEAN,
                   counted : SUBSET Mail, last : Mail \cup {0}]
  BY DEF LineInv, LineTypeOK
<1>2. ASSUME NEW m \in Mail, Compose(m) \/ Deliver(m)
      PROVE  LineInv'
  BY <1>1, <1>2, MailStep DEF Compose, Deliver, Delivered
<1>3. ASSUME NEW M \in SUBSET Mail, MarkRead(M)
      PROVE  LineInv'
  BY <1>1, <1>3, MailStep DEF MarkRead, Delivered
<1>4. CASE DeleteSender
  BY <1>1, <1>4, MailStep DEF DeleteSender, Delivered
<1>5. ASSUME NEW list \in BOOLEAN, OpenChats(list)
      PROVE  LineInv'
  BY <1>1, <1>5 DEF OpenChats, LineInv, LineTypeOK, NoLine, FirstRead
<1>6. CASE CountUnread
  <2> DEFINE counted == {m \in Mail \ Own : mail[m] = "unread"}
             pc == IF line.list THEN "last" ELSE "answered"
  <2>1. /\ line' = [line EXCEPT !.pc = pc, !.counted = counted]
        /\ counted \in SUBSET Mail /\ pc \in {"last", "answered"}
        /\ \A m \in counted : mail[m] = "unread"
    BY <1>1, <1>6, ReadOrder DEF CountUnread
  <2>2. mail' = mail
    BY <1>6 DEF CountUnread
  <2>3. /\ line'.list = line.list /\ line'.counted = counted /\ line'.pc = pc
        /\ LineTypeOK'
    BY <1>1, <2>1, <2>2 DEF LineTypeOK
  <2> QED
    BY <2>1, <2>2, <2>3 DEF LineInv, Delivered
<1>7. CASE ReadLast
  <2>1. PICK m \in Rows \cup {0} :
          /\ \A k \in Rows : k <= m
          /\ line' = [line EXCEPT !.pc = AfterRead("last"), !.last = m]
    BY <1>7 DEF ReadLast
  <2>2. mail' = mail /\ line.pc = "last"
    BY <1>7 DEF ReadLast
  <2>3. PICK pc \in {"answered", "count"} :
          pc = AfterRead("last") /\ pc = IF line.list THEN "answered" ELSE "count"
    BY <1>1, ReadOrder
  <2>4. m \in Mail \cup {0}
    BY DEF Rows
  <2>5. LineTypeOK'
    BY <1>1, <2>1, <2>2, <2>3, <2>4 DEF LineTypeOK
  <2>6. line'.list = line.list /\ line'.counted = line.counted /\ line'.last = m /\ line'.pc = pc
    BY <1>1, <2>1, <2>3
  <2>7. ASSUME line.list, NEW c \in line.counted, c > m
        PROVE  mail[c] = "gone"
    <3>1. c \in Mail /\ c \in Int /\ m \in Int /\ c \notin Rows
      BY <1>1, <2>1, <2>4, <2>7 DEF Mail
    <3>2. mail[c] \in Delivered
      BY <2>2, <2>7 DEF LineInv
    <3> QED
      BY <3>1, <3>2 DEF Rows, Delivered
  <2> QED
    BY <2>2, <2>3, <2>5, <2>6, <2>7 DEF LineInv
<1>8. CASE AnswerChats
  BY <1>1, <1>8 DEF AnswerChats, LineInv, LineTypeOK, NoLine
<1>9. CASE UNCHANGED chatListVars
  BY <1>9 DEF chatListVars, LineInv, LineTypeOK
<1> QED
  BY <1>2, <1>3, <1>4, <1>5, <1>6, <1>7, <1>8, <1>9 DEF ChatListNext

\* list_conversations: no message that is newer than the last message shown is counted
\* as unread, unless it was deleted with its sender in between.
THEOREM ChatsCoherent == ChatListSpec => []ListCoherent
<1>1. LineInv => ListCoherent
  BY DEF LineInv, ListCoherent
<1> QED
  BY <1>1, InitLine, LineStep, PTL DEF ChatListSpec
==============================================================================
