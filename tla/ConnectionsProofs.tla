------------------------- MODULE ConnectionsProofs ---------------------------
(***************************************************************************)
(* Theorems about the registries of sockets of a worker and its broadcasts *)
(* (Connections), for any sockets, users, channels and clients that come   *)
(* and go while a broadcast is under way.                                  *)
(***************************************************************************)
EXTENDS Connections, FiniteSetTheorems, TLAPS

------------------------------------------------------------------------------
(* What removing elements from a list keeps. *)

Injective(seq) == \A i, j \in DOMAIN seq : seq[i] = seq[j] => i = j
Elements(seq) == {seq[i] : i \in DOMAIN seq}

\* The elements that are kept, up to an index.
KeptTo(seq, D, n) == {j \in Kept(seq, D) : j <= n}

LEMMA KeptFinite ==
  ASSUME NEW S, NEW seq \in Seq(S), NEW D
  PROVE  /\ IsFiniteSet(Kept(seq, D)) /\ Cardinality(Kept(seq, D)) \in Nat
         /\ Kept(seq, D) \subseteq 1 .. Len(seq)
<1>1. Kept(seq, D) \in SUBSET (1 .. Len(seq)) /\ Len(seq) \in Nat
  BY DEF Kept
<1>2. IsFiniteSet(1 .. Len(seq))
  BY <1>1, FS_Interval
<1> QED
  BY <1>1, <1>2, FS_Subset, FS_CardinalityType

LEMMA KeptToFinite ==
  ASSUME NEW S, NEW seq \in Seq(S), NEW D, NEW n \in Nat
  PROVE  /\ IsFiniteSet(KeptTo(seq, D, n)) /\ Cardinality(KeptTo(seq, D, n)) \in Nat
         /\ Cardinality(KeptTo(seq, D, n)) <= n
         /\ Cardinality(KeptTo(seq, D, n)) <= Cardinality(Kept(seq, D))
<1>1. KeptTo(seq, D, n) \in SUBSET Kept(seq, D) /\ KeptTo(seq, D, n) \in SUBSET (1 .. n)
  BY KeptFinite DEF KeptTo
<1>2. IsFiniteSet(1 .. n) /\ Cardinality(1 .. n) = n
  BY FS_Interval
<1> QED
  BY <1>1, <1>2, KeptFinite, FS_Subset, FS_CardinalityType

\* The places of the elements that are kept grow with their indices, without a gap.
LEMMA PlaceOrder ==
  ASSUME NEW S, NEW seq \in Seq(S), NEW D
  PROVE  /\ \A i \in Kept(seq, D) : /\ Place(seq, D, i) \in 1 .. Cardinality(Kept(seq, D))
                                    /\ Place(seq, D, i) <= i
         /\ \A i, j \in Kept(seq, D) : Place(seq, D, i) = Place(seq, D, j) => i = j
         /\ \A n \in 1 .. Cardinality(Kept(seq, D)) :
              \E i \in Kept(seq, D) : Place(seq, D, i) = n
<1> DEFINE kept == Kept(seq, D)
           UpTo(n) == KeptTo(seq, D, n)
<1>1. kept \subseteq Nat /\ \A i \in kept : i >= 1
  BY KeptFinite
<1>2. \A n \in Nat : /\ IsFiniteSet(UpTo(n)) /\ Cardinality(UpTo(n)) \in Nat
                     /\ Cardinality(UpTo(n)) <= n
                     /\ Cardinality(UpTo(n)) <= Cardinality(kept)
                     /\ UpTo(n) = {j \in kept : j <= n}
                     /\ n \in kept => Place(seq, D, n) = Cardinality(UpTo(n))
  BY KeptToFinite DEF KeptTo, Place
<1>3. IsFiniteSet(kept) /\ Cardinality(kept) \in Nat
  BY KeptFinite
<1>4. ASSUME NEW i \in kept
      PROVE  Place(seq, D, i) \in 1 .. Cardinality(kept) /\ Place(seq, D, i) <= i
  <2>1. i \in UpTo(i) /\ i \in Nat
    BY <1>1, <1>2
  <2>2. Cardinality(UpTo(i)) # 0
    BY <1>1, <1>2, <2>1, FS_EmptySet
  <2> QED
    BY <1>2, <1>3, <2>1, <2>2
<1>5. ASSUME NEW i \in kept, NEW j \in kept, i < j
      PROVE  Place(seq, D, i) < Place(seq, D, j)
  <2>1. UpTo(i) \cup {j} \in SUBSET UpTo(j) /\ j \notin UpTo(i) /\ i \in Nat /\ j \in Nat
    BY <1>1, <1>2, <1>5
  <2>2. /\ IsFiniteSet(UpTo(i) \cup {j})
        /\ Cardinality(UpTo(i) \cup {j}) = Cardinality(UpTo(i)) + 1
    BY <1>2, <2>1, FS_AddElement
  <2>3. Cardinality(UpTo(i) \cup {j}) <= Cardinality(UpTo(j))
    BY <1>2, <2>1, FS_Subset
  <2> QED
    BY <1>2, <2>1, <2>2, <2>3
<1>6. ASSUME NEW i \in kept, NEW j \in kept, Place(seq, D, i) = Place(seq, D, j)
      PROVE  i = j
  <2>1. i \in Nat /\ j \in Nat /\ Place(seq, D, i) \in Nat
    BY <1>1, <1>4
  <2>2. ~(i < j) /\ ~(j < i)
    BY <1>5, <1>6, <2>1
  <2> QED
    BY <2>1, <2>2
<1>7. ASSUME NEW n \in 1 .. Cardinality(kept)
      PROVE  \E i \in kept : Place(seq, D, i) = n
  <2> DEFINE places == 1 .. Cardinality(kept)
             f == [i \in kept |-> Place(seq, D, i)]
  <2>1. f \in Injection(kept, places)
    BY <1>4, <1>6 DEF Injection, IsInjective
  <2>2. IsFiniteSet(places) /\ Cardinality(places) = Cardinality(kept)
    BY <1>3, FS_Interval
  <2>3. f \in Surjection(kept, places)
    <3> HIDE DEF f, places
    <3> QED
      BY <1>3, <2>1, <2>2, FS_Injection
  <2>4. \E i \in kept : f[i] = n
    BY <2>3 DEF Surjection
  <2> QED
    BY <2>4
<1> QED
  BY <1>4, <1>6, <1>7

LEMMA WithoutElements ==
  ASSUME NEW S, NEW seq \in Seq(S), NEW D
  PROVE  /\ Without(seq, D) \in Seq(S)
         /\ \A n \in DOMAIN Without(seq, D) :
              \E i \in DOMAIN seq : n <= i /\ seq[i] = Without(seq, D)[n] /\ seq[i] \notin D
         /\ \A i \in DOMAIN seq : seq[i] \notin D =>
              \E n \in DOMAIN Without(seq, D) : Without(seq, D)[n] = seq[i]
         /\ Elements(Without(seq, D)) = Elements(seq) \ D
         /\ Injective(seq) => Injective(Without(seq, D))
         /\ Elements(seq) \cap D = {} => Without(seq, D) = seq
<1> DEFINE kept == Kept(seq, D)
           N == Cardinality(kept)
           From(n) == CHOOSE i \in kept : Place(seq, D, i) = n
           left == Without(seq, D)
<1>1. /\ N \in Nat /\ kept \subseteq 1 .. Len(seq) /\ Len(seq) \in Nat
      /\ \A i \in kept : seq[i] \in S /\ seq[i] \notin D
  <2>1. N \in Nat /\ kept \subseteq 1 .. Len(seq)
    BY KeptFinite
  <2> QED
    BY <2>1 DEF Kept
<1>2. ASSUME NEW n \in 1 .. N
      PROVE  From(n) \in kept /\ Place(seq, D, From(n)) = n /\ n <= From(n)
  <2>1. \E i \in kept : Place(seq, D, i) = n
    BY PlaceOrder
  <2>2. From(n) \in kept /\ Place(seq, D, From(n)) = n
    BY <2>1
  <2> QED
    BY <2>2, PlaceOrder
<1>3. ASSUME NEW i \in kept
      PROVE  Place(seq, D, i) \in 1 .. N /\ From(Place(seq, D, i)) = i
  <2>1. Place(seq, D, i) \in 1 .. N
    BY PlaceOrder
  <2> QED
    BY <1>2, <2>1, PlaceOrder
<1>4. left = [n \in 1 .. N |-> seq[From(n)]] /\ DOMAIN left = 1 .. N
  BY DEF Without
<1> HIDE DEF From
<1>5. left \in Seq(S)
  <2>1. \A n \in 1 .. N : seq[From(n)] \in S
    BY <1>1, <1>2
  <2> QED
    BY <1>1, <1>4, <2>1
<1>6. \A n \in DOMAIN left :
        From(n) \in DOMAIN seq /\ n <= From(n) /\ seq[From(n)] = left[n] /\ seq[From(n)] \notin D
  BY <1>1, <1>2, <1>4
<1>7. ASSUME NEW i \in DOMAIN seq, seq[i] \notin D
      PROVE  \E n \in DOMAIN left : left[n] = seq[i]
  <2>1. i \in kept
    BY <1>7 DEF Kept
  <2> QED
    BY <1>3, <1>4, <2>1
<1>8. ASSUME Injective(seq) PROVE Injective(left)
  <2> SUFFICES ASSUME NEW m \in 1 .. N, NEW n \in 1 .. N, left[m] = left[n] PROVE m = n
    BY <1>4 DEF Injective
  <2>1. From(m) = From(n)
    BY <1>4, <1>6, <1>8 DEF Injective
  <2> QED
    BY <1>2, <2>1
<1>9. ASSUME Elements(seq) \cap D = {} PROVE left = seq
  <2>1. kept = 1 .. Len(seq)
    BY <1>9 DEF Kept, Elements
  <2>2. N = Len(seq)
    <3>1. Len(seq) \in Nat /\ N = Cardinality(1 .. Len(seq))
      BY <1>1, <2>1
    <3>2. \A n \in Nat : Cardinality(1 .. n) = n
      BY FS_Interval
    <3> QED
      BY <3>1, <3>2
  <2>3. ASSUME NEW n \in 1 .. Len(seq) PROVE From(n) = n
    <3>1. {j \in kept : j <= n} = 1 .. n
      BY <2>1
    <3>2. Place(seq, D, n) = n
      <4>1. n \in Nat /\ n >= 1
        OBVIOUS
      <4>2. Cardinality(1 .. n) = n
        BY <4>1, FS_Interval
      <4> QED
        BY <3>1, <4>2 DEF Place
    <3>3. n \in kept
      BY <2>1
    <3> QED
      BY <1>3, <3>2, <3>3
  <2>4. \A n \in 1 .. Len(seq) : left[n] = seq[n]
    BY <1>4, <2>2, <2>3
  <2> QED
    BY <1>4, <1>5, <2>2, <2>4
<1>10. Elements(left) = Elements(seq) \ D
  BY <1>6, <1>7 DEF Elements
<1> HIDE DEF left
<1> QED
  BY <1>5, <1>6, <1>7, <1>8, <1>9, <1>10 DEF left

\* While the elements up to an index are kept, those behind it stay behind it.
LEMMA PrefixStays ==
  ASSUME NEW S, NEW seq \in Seq(S), NEW D, NEW n \in Nat,
         \A i \in DOMAIN seq : i <= n => seq[i] \notin D,
         NEW k \in DOMAIN seq, k > n, seq[k] \notin D
  PROVE  \E m \in DOMAIN Without(seq, D) : Without(seq, D)[m] = seq[k] /\ m > n
<1> DEFINE kept == Kept(seq, D)
           N == Cardinality(kept)
           From(m) == CHOOSE i \in kept : Place(seq, D, i) = m
           p == Place(seq, D, k)
<1>1. k \in kept /\ k \in Nat /\ Len(seq) \in Nat /\ k <= Len(seq) /\ DOMAIN seq = 1 .. Len(seq)
  BY DEF Kept
<1>2. p \in 1 .. N /\ N \in Nat
  BY <1>1, PlaceOrder, KeptFinite
<1>3. From(p) = k
  <2>1. From(p) \in kept /\ Place(seq, D, From(p)) = p
    BY <1>1
  <2> HIDE DEF From
  <2> QED
    BY <1>1, <2>1, PlaceOrder
<1>4. Without(seq, D) = [m \in 1 .. N |-> seq[From(m)]]
  BY DEF Without
<1>5. p > n
  <2>1. (1 .. n) \cup {k} \in SUBSET KeptTo(seq, D, k)
    <3>1. \A i \in 1 .. n : i \in DOMAIN seq /\ i <= n /\ i <= k
      BY <1>1
    <3>2. \A i \in 1 .. n : i \in kept /\ i <= k
      BY <3>1 DEF Kept
    <3> QED
      BY <1>1, <3>2 DEF KeptTo
  <2>2. IsFiniteSet(1 .. n) /\ Cardinality(1 .. n) = n
    BY FS_Interval
  <2>3. k \notin 1 .. n
    BY <1>1
  <2>4. Cardinality((1 .. n) \cup {k}) = n + 1
    BY <2>2, <2>3, FS_AddElement
  <2>5. IsFiniteSet(KeptTo(seq, D, k)) /\ Cardinality(KeptTo(seq, D, k)) \in Nat
    BY <1>1, KeptToFinite
  <2>6. n + 1 <= Cardinality(KeptTo(seq, D, k))
    BY <2>1, <2>4, <2>5, FS_Subset
  <2>7. p = Cardinality(KeptTo(seq, D, k))
    BY DEF Place, KeptTo
  <2> QED
    BY <2>5, <2>6, <2>7
<1> HIDE DEF From, p, kept
<1>6. p \in DOMAIN Without(seq, D) /\ Without(seq, D)[p] = seq[k]
  BY <1>2, <1>3, <1>4
<1> QED
  BY <1>5, <1>6

------------------------------------------------------------------------------
(* The invariant of the connection manager. *)

\* A list holds sockets of its own user and channel, once, whose endpoint runs; a client
\* that is there is in its list.
ListsInv ==
  /\ \A c \in Channel, u \in User :
       /\ Injective(sockets[c][u])
       /\ \A s \in Listed(c, u) : /\ ChannelOf(s) = c /\ Owner[s] = u
                                  /\ handler[s] \in {"open", "broken"}
  /\ \A s \in Socket : handler[s] = "open" => s \in Listed(ChannelOf(s), Owner[s])
  /\ keys \in Seq(User)

\* The clients that a broadcast has served, and the one it is sending to.
Reached == cast.served \cup cast.to

\* What the loops have done: who failed is gone, and a socket that was reached and is still
\* in its list is behind both iterators.
LoopInv ==
  /\ \A s \in Reached : handler[s] # "new"
  /\ \A s \in cast.dead : handler[s] \in {"broken", "ended"}
  /\ ~cast.again
  /\ cast.to \cap cast.served = {}
  /\ cast.pc = "next" => cast.to = {}
  /\ cast.channel = "user" => cast.ahead = <<>>
  /\ Injective(cast.ahead) /\ cast.user \notin Elements(cast.ahead)
  /\ Elements(cast.ahead) \subseteq Elements(keys)
  /\ cast.user # NoUser => sockets[cast.channel][cast.user] # <<>>
  /\ \A s \in Reached :
       s \in Listed(cast.channel, Owner[s]) => Owner[s] \notin Elements(cast.ahead)
  /\ cast.user # NoUser =>
       \A i \in DOMAIN sockets[cast.channel][cast.user] :
         sockets[cast.channel][cast.user][i] \in Reached => i <= cast.at

\* The iterators have yet to come to the socket s.
ToCome(s) ==
  \/ Owner[s] \in Elements(cast.ahead)
  \/ /\ Owner[s] = cast.user
     /\ \E i \in DOMAIN sockets[cast.channel][cast.user] :
          sockets[cast.channel][cast.user][i] = s /\ i > cast.at

\* While nobody entered or left, the dict has its size, and every client that stayed was
\* reached or is still to come.
StayInv ==
  /\ \A s \in cast.stay : /\ handler[s] = "open" /\ ChannelOf(s) = cast.channel
                          /\ Owner[s] \notin cast.skip
  /\ ~cast.disturbed =>
       /\ cast.channel = "conversation" => keys # <<>> /\ cast.size = Len(keys)
       /\ \A s \in cast.stay : Owner[s] \in cast.intact => s \in Reached \/ ToCome(s)

CastInv == StayersServed /\ (Broadcasting => LoopInv /\ StayInv)

ConnectionsInv == ConnectionsTypeOK /\ ListsInv /\ CastInv

LEMMA ConnectionsFacts ==
  /\ Owner \in [Socket -> User] /\ NoUser \notin User
  /\ Channel = {"conversation", "user"}
  /\ \A s : ChannelOf(s) \in Channel
  BY ConnectionsAssumption, RequestsAssumption DEF Channel, ChannelOf

LEMMA NoCastType == NoCast \in Cast /\ NoCast.pc = "idle"
<1>1. <<>> \in Seq(User)
  OBVIOUS
<1> QED
  BY <1>1 DEF NoCast, Cast, Channel

LEMMA NoElements ==
  ASSUME NEW S, NEW seq \in Seq(S)
  PROVE  seq = <<>> <=> Elements(seq) = {}
<1>1. seq # <<>> => 1 \in DOMAIN seq
  OBVIOUS
<1> QED
  BY <1>1 DEF Elements

LEMMA InitConnections == ConnectionsInit => ConnectionsInv
<1> SUFFICES ASSUME ConnectionsInit PROVE ConnectionsInv
  OBVIOUS
<1>1. /\ handler = [s \in Socket |-> "new"] /\ keys = <<>> /\ cast = NoCast
      /\ sockets = [c \in Channel |-> [u \in User |-> <<>>]] /\ subscriber = "off"
  BY DEF ConnectionsInit
<1>2. \A c \in Channel, u \in User : sockets[c][u] = <<>> /\ Listed(c, u) = {}
  BY <1>1 DEF Listed
<1>3. <<>> \in Seq(Socket) /\ <<>> \in Seq(User)
  OBVIOUS
<1>4. ConnectionsTypeOK
  <2>1. sockets \in [Channel -> [User -> Seq(Socket)]]
    BY <1>1, <1>3
  <2>2. {keys[i] : i \in DOMAIN keys} = {} /\ {u \in User : Listed("conversation", u) # {}} = {}
    BY <1>1, <1>2, ConnectionsFacts
  <2>3. \A i, j \in DOMAIN keys : keys[i] = keys[j] => i = j
    BY <1>1
  <2> QED
    BY <1>1, <2>1, <2>2, <2>3, NoCastType DEF ConnectionsTypeOK
<1>5. ListsInv
  BY <1>1, <1>2, <1>3, ConnectionsFacts DEF ListsInv, Injective
<1>6. CastInv
  BY <1>1, NoCastType DEF CastInv, Broadcasting, StayersServed
<1> QED
  BY <1>4, <1>5, <1>6 DEF ConnectionsInv

------------------------------------------------------------------------------
(* The registries. *)

\* Steps of the subscriber alone.
LEMMA RegistryKept ==
  ASSUME ConnectionsTypeOK, ListsInv, UNCHANGED <<handler, sockets, keys>>,
         cast' \in Cast, subscriber' \in {"up", "down", "off"}
  PROVE  ConnectionsTypeOK' /\ ListsInv'
<1>1. \A c, u : Listed(c, u)' = Listed(c, u)
  BY DEF Listed
<1>2. ConnectionsTypeOK'
  BY <1>1 DEF ConnectionsTypeOK
<1>3. ListsInv'
  BY <1>1 DEF ListsInv
<1> QED
  BY <1>2, <1>3

LEMMA LeftLists ==
  ASSUME ConnectionsTypeOK, ListsInv, NEW D
  PROVE  /\ Left(D) \in [Channel -> [User -> Seq(Socket)]]
         /\ \A c \in Channel, u \in User :
              /\ Left(D)[c][u] = Without(sockets[c][u], D)
              /\ Elements(Left(D)[c][u]) = Listed(c, u) \ D
              /\ Injective(Left(D)[c][u])
              /\ Listed(c, u) \cap D = {} => Left(D)[c][u] = sockets[c][u]
<1>1. ASSUME NEW c \in Channel, NEW u \in User
      PROVE  /\ Left(D)[c][u] = Without(sockets[c][u], D)
             /\ Left(D)[c][u] \in Seq(Socket)
             /\ Elements(Left(D)[c][u]) = Listed(c, u) \ D
             /\ Injective(Left(D)[c][u])
             /\ Listed(c, u) \cap D = {} => Left(D)[c][u] = sockets[c][u]
  <2>1. sockets[c][u] \in Seq(Socket) /\ Injective(sockets[c][u])
    BY DEF ConnectionsTypeOK, ListsInv
  <2>2. Left(D)[c][u] = Without(sockets[c][u], D)
    BY DEF Left
  <2>3. Listed(c, u) = Elements(sockets[c][u])
    BY DEF Listed, Elements
  <2> QED
    BY <2>1, <2>2, <2>3, WithoutElements
<1> QED
  BY <1>1 DEF Left

\* The keys of the lists that are not empty.
LEMMA LeftKeys ==
  ASSUME ConnectionsTypeOK, ListsInv, NEW D
  PROVE  LET ks == KeysLeft(Left(D))
         IN  /\ ks \in Seq(User) /\ Injective(ks)
             /\ Elements(ks) = Elements(keys) \ Emptied(Left(D))
             /\ Elements(ks) = {u \in User : Left(D)["conversation"][u] # <<>>}
             /\ Emptied(Left(D)) \cap Elements(keys) = {} => ks = keys
<1> DEFINE left == Left(D)
           ks == KeysLeft(left)
<1>1. keys \in Seq(User) /\ Injective(keys)
  BY DEF ListsInv, ConnectionsTypeOK, Injective
<1>2. /\ ks \in Seq(User) /\ Injective(ks)
      /\ Elements(ks) = Elements(keys) \ Emptied(left)
      /\ Emptied(left) \cap Elements(keys) = {} => ks = keys
  BY <1>1, WithoutElements DEF KeysLeft
<1>3. Elements(keys) = {u \in User : Listed("conversation", u) # {}}
  BY DEF ConnectionsTypeOK, Elements
<1>4. ASSUME NEW u \in User, left["conversation"][u] # <<>>
      PROVE  u \in Elements(keys)
  <2>1. Elements(left["conversation"][u]) # {} /\ left["conversation"][u] \in Seq(Socket)
    BY <1>4, LeftLists, NoElements, ConnectionsFacts
  <2>2. Listed("conversation", u) # {}
    <3>1. Elements(Left(D)["conversation"][u]) = Listed("conversation", u) \ D
      BY LeftLists, ConnectionsFacts
    <3> QED
      BY <2>1, <3>1
  <2> QED
    BY <1>3, <2>2
<1> HIDE DEF left, ks
<1>5. Elements(ks) = {u \in User : left["conversation"][u] # <<>>}
  BY <1>2, <1>3, <1>4 DEF Emptied
<1> QED
  BY <1>2, <1>5 DEF left, ks

\* disconnect: sockets leave the lists, and a list that is empty leaves the dict.
LEMMA RegistryLeft ==
  ASSUME ConnectionsTypeOK, ListsInv, NEW D \in SUBSET Socket,
         sockets' = Left(D), keys' = KeysLeft(Left(D)),
         handler' \in [Socket -> {"new", "open", "broken", "ended"}],
         \A s \in Socket \ D : handler'[s] = handler[s],
         \A s \in D : handler'[s] # "open",
         cast' \in Cast, subscriber' \in {"up", "down", "off"}
  PROVE  ConnectionsTypeOK' /\ ListsInv'
<1>1. \A c \in Channel, u \in User :
        /\ Listed(c, u)' = Listed(c, u) \ D /\ Injective(sockets'[c][u])
        /\ sockets'[c][u] \in Seq(Socket)
        /\ sockets'[c][u] # <<>> <=> Listed(c, u)' # {}
  <2> SUFFICES ASSUME NEW c \in Channel, NEW u \in User
               PROVE  /\ Listed(c, u)' = Listed(c, u) \ D /\ Injective(sockets'[c][u])
                      /\ sockets'[c][u] \in Seq(Socket)
                      /\ sockets'[c][u] # <<>> <=> Listed(c, u)' # {}
    OBVIOUS
  <2>1. Listed(c, u)' = Elements(sockets'[c][u])
    BY DEF Listed, Elements
  <2>2. sockets'[c][u] \in Seq(Socket)
    BY LeftLists
  <2> QED
    BY <2>1, <2>2, LeftLists, NoElements
<1>2. sockets' \in [Channel -> [User -> Seq(Socket)]]
  BY LeftLists
<1>3. /\ keys' \in Seq(User) /\ Injective(keys')
      /\ Elements(keys') = {u \in User : sockets'["conversation"][u] # <<>>}
  BY LeftKeys
<1>4. \A u \in User : sockets'["conversation"][u] # <<>> <=> Listed("conversation", u)' # {}
  BY <1>1, ConnectionsFacts
<1>5. ConnectionsTypeOK'
  BY <1>2, <1>3, <1>4 DEF ConnectionsTypeOK, Injective, Elements
<1>6. ASSUME NEW c \in Channel, NEW u \in User, NEW s \in Listed(c, u)'
      PROVE  ChannelOf(s) = c /\ Owner[s] = u /\ handler'[s] \in {"open", "broken"}
  <2>1. s \in Listed(c, u) /\ s \notin D
    BY <1>1
  <2>2. s \in Socket
    BY <2>1 DEF Listed, ConnectionsTypeOK
  <2> QED
    BY <2>1, <2>2 DEF ListsInv
<1>7. ASSUME NEW s \in Socket, handler'[s] = "open"
      PROVE  s \in Listed(ChannelOf(s), Owner[s])'
  <2>1. s \notin D /\ s \in Listed(ChannelOf(s), Owner[s])
    BY <1>7 DEF ListsInv
  <2> QED
    BY <1>1, <2>1, ConnectionsFacts
<1> QED
  BY <1>1, <1>3, <1>5, <1>6, <1>7 DEF ListsInv

LEMMA AppendNew ==
  ASSUME NEW S, NEW seq \in Seq(S), NEW e \in S, e \notin Elements(seq)
  PROVE  /\ Append(seq, e) \in Seq(S)
         /\ Elements(Append(seq, e)) = Elements(seq) \cup {e}
         /\ Injective(seq) => Injective(Append(seq, e))
         /\ \A i \in DOMAIN Append(seq, e) :
              \/ i \in DOMAIN seq /\ Append(seq, e)[i] = seq[i]
              \/ Append(seq, e)[i] = e
         /\ \A i \in DOMAIN seq : i \in DOMAIN Append(seq, e) /\ Append(seq, e)[i] = seq[i]
<1>1. /\ DOMAIN Append(seq, e) = 1 .. Len(seq) + 1 /\ Append(seq, e)[Len(seq) + 1] = e
      /\ \A i \in 1 .. Len(seq) : Append(seq, e)[i] = seq[i]
      /\ DOMAIN seq = 1 .. Len(seq) /\ Len(seq) \in Nat /\ Append(seq, e) \in Seq(S)
  OBVIOUS
<1>2. \A i \in 1 .. Len(seq) + 1 : i \in 1 .. Len(seq) \/ i = Len(seq) + 1
  BY <1>1
<1>3. Elements(Append(seq, e)) = Elements(seq) \cup {e}
  BY <1>1, <1>2 DEF Elements
<1>4. Injective(seq) => Injective(Append(seq, e))
  BY <1>1, <1>2 DEF Injective, Elements
<1> QED
  BY <1>1, <1>2, <1>3, <1>4

\* connect and connect_user: a new socket goes to the end of its list.
LEMMA ConnectLists ==
  ASSUME ConnectionsTypeOK, ListsInv, NEW s \in Socket, Connect(s)
  PROVE  /\ \A c \in Channel, u \in User :
              IF c = ChannelOf(s) /\ u = Owner[s]
              THEN sockets'[c][u] = Append(sockets[c][u], s)
              ELSE sockets'[c][u] = sockets[c][u]
         /\ sockets' \in [Channel -> [User -> Seq(Socket)]]
         /\ \A c \in Channel, u \in User :
              /\ s \notin Listed(c, u)
              /\ Listed(c, u)' = IF c = ChannelOf(s) /\ u = Owner[s]
                                 THEN Listed(c, u) \cup {s} ELSE Listed(c, u)
<1>1. /\ sockets \in [Channel -> [User -> Seq(Socket)]]
      /\ ChannelOf(s) \in Channel /\ Owner[s] \in User
  BY ConnectionsFacts DEF ConnectionsTypeOK
<1>2. sockets' = [sockets EXCEPT ![ChannelOf(s)][Owner[s]] = Append(@, s)]
  BY DEF Connect
<1>3. Append(sockets[ChannelOf(s)][Owner[s]], s) \in Seq(Socket)
  BY <1>1
<1>4. \A c \in Channel, u \in User :
        IF c = ChannelOf(s) /\ u = Owner[s]
        THEN sockets'[c][u] = Append(sockets[c][u], s)
        ELSE sockets'[c][u] = sockets[c][u]
  BY <1>1, <1>2
<1>5. sockets' \in [Channel -> [User -> Seq(Socket)]]
  BY <1>1, <1>2, <1>3
<1>6. \A c \in Channel, u \in User : s \notin Listed(c, u)
  BY DEF ListsInv, Connect
<1>7. ASSUME NEW c \in Channel, NEW u \in User
      PROVE  Listed(c, u)' = IF c = ChannelOf(s) /\ u = Owner[s]
                             THEN Listed(c, u) \cup {s} ELSE Listed(c, u)
  <2>1. CASE c = ChannelOf(s) /\ u = Owner[s]
    <3>1. sockets'[c][u] = Append(sockets[c][u], s) /\ sockets[c][u] \in Seq(Socket)
      BY <1>1, <1>4, <2>1
    <3>2. s \notin Elements(sockets[c][u])
      BY <1>6 DEF Listed, Elements
    <3>3. Elements(sockets'[c][u]) = Elements(sockets[c][u]) \cup {s}
      BY <3>1, <3>2, AppendNew
    <3>4. Listed(c, u)' = Elements(sockets'[c][u]) /\ Listed(c, u) = Elements(sockets[c][u])
      BY DEF Listed, Elements
    <3> QED
      BY <2>1, <3>3, <3>4
  <2>2. CASE ~(c = ChannelOf(s) /\ u = Owner[s])
    BY <1>4, <2>2 DEF Listed
  <2> QED
    BY <2>1, <2>2
<1> QED
  BY <1>4, <1>5, <1>6, <1>7

LEMMA RegistryConnects ==
  ASSUME ConnectionsTypeOK, ListsInv, NEW s \in Socket, Connect(s), cast' \in Cast
  PROVE  /\ ConnectionsTypeOK' /\ ListsInv'
         /\ keys' = keys \/ /\ Owner[s] \notin Elements(keys) /\ keys' = Append(keys, Owner[s])
                            /\ ChannelOf(s) = "conversation"
                            /\ sockets["conversation"][Owner[s]] = <<>>
         /\ Elements(keys) \subseteq Elements(keys')
<1> DEFINE u == Owner[s]
           enters == ChannelOf(s) = "conversation" /\ sockets["conversation"][u] = <<>>
<1>1. /\ handler[s] = "new" /\ handler' = [handler EXCEPT ![s] = "open"]
      /\ keys' = (IF enters THEN Append(keys, u) ELSE keys) /\ subscriber' = subscriber
      /\ u \in User /\ keys \in Seq(User) /\ Injective(keys)
      /\ handler \in [Socket -> {"new", "open", "broken", "ended"}]
  BY ConnectionsFacts DEF Connect, ConnectionsTypeOK, ListsInv, Injective
<1>2. Elements(keys) = {v \in User : Listed("conversation", v) # {}}
  BY DEF ConnectionsTypeOK, Elements
<1>3. enters => u \notin Elements(keys)
  BY <1>2 DEF Listed
<1>4. keys' \in Seq(User) /\ Injective(keys')
  <2>1. CASE enters
    BY <1>1, <1>3, <2>1, AppendNew
  <2>2. CASE ~enters
    BY <1>1, <2>2
  <2> QED
    BY <2>1, <2>2
<1>5. Elements(keys') = IF enters THEN Elements(keys) \cup {u} ELSE Elements(keys)
  <2>1. CASE enters
    BY <1>1, <1>3, <2>1, AppendNew
  <2>2. CASE ~enters
    BY <1>1, <2>2
  <2> QED
    BY <2>1, <2>2
<1>6. Elements(keys') = {v \in User : Listed("conversation", v)' # {}}
  <2>1. \A v \in User : Listed("conversation", v)' =
          IF "conversation" = ChannelOf(s) /\ v = u
          THEN Listed("conversation", v) \cup {s} ELSE Listed("conversation", v)
    BY ConnectLists, ConnectionsFacts
  <2>2. CASE ChannelOf(s) # "conversation"
    BY <1>2, <1>5, <2>1, <2>2
  <2>3. CASE enters
    BY <1>1, <1>2, <1>5, <2>1, <2>3
  <2>4. CASE ChannelOf(s) = "conversation" /\ sockets["conversation"][u] # <<>>
    <3>1. sockets["conversation"][u] \in Seq(Socket)
      BY <1>1, ConnectionsFacts DEF ConnectionsTypeOK
    <3>2. Listed("conversation", u) # {}
      BY <2>4, <3>1, NoElements DEF Listed, Elements
    <3> QED
      BY <1>2, <1>5, <2>1, <2>4, <3>2
  <2> QED
    BY <2>2, <2>3, <2>4
<1>7. ConnectionsTypeOK'
  <2>1. sockets' \in [Channel -> [User -> Seq(Socket)]]
    BY ConnectLists
  <2>2. handler' \in [Socket -> {"new", "open", "broken", "ended"}]
    BY <1>1
  <2>3. subscriber' \in {"up", "down", "off"}
    BY <1>1 DEF ConnectionsTypeOK
  <2> QED
    BY <1>4, <1>6, <2>1, <2>2, <2>3 DEF ConnectionsTypeOK, Injective, Elements
<1>8. ASSUME NEW c \in Channel, NEW v \in User
      PROVE  /\ Injective(sockets'[c][v])
             /\ \A x \in Listed(c, v)' : /\ ChannelOf(x) = c /\ Owner[x] = v
                                         /\ handler'[x] \in {"open", "broken"}
  <2>1. /\ Injective(sockets[c][v]) /\ sockets[c][v] \in Seq(Socket)
        /\ \A x \in Listed(c, v) : /\ ChannelOf(x) = c /\ Owner[x] = v /\ x \in Socket
                                   /\ handler[x] \in {"open", "broken"}
    BY DEF ListsInv, ConnectionsTypeOK, Listed
  <2>2. s \notin Listed(c, v) /\ s \notin Elements(sockets[c][v])
    BY ConnectLists DEF Listed, Elements
  <2>3. \A x \in Listed(c, v) : handler'[x] = handler[x]
    BY <1>1, <2>1, <2>2
  <2>4. CASE c = ChannelOf(s) /\ v = u
    <3>1. sockets'[c][v] = Append(sockets[c][v], s) /\ Listed(c, v)' = Listed(c, v) \cup {s}
      BY <2>4, ConnectLists
    <3>2. Injective(sockets'[c][v])
      BY <2>1, <2>2, <3>1, AppendNew
    <3>3. handler'[s] = "open"
      BY <1>1
    <3> QED
      BY <2>1, <2>3, <2>4, <3>1, <3>2, <3>3
  <2>5. CASE ~(c = ChannelOf(s) /\ v = u)
    <3>1. sockets'[c][v] = sockets[c][v] /\ Listed(c, v)' = Listed(c, v)
      BY <2>5, ConnectLists
    <3> QED
      BY <2>1, <2>3, <3>1
  <2> QED
    BY <2>4, <2>5
<1>9. ASSUME NEW x \in Socket, handler'[x] = "open"
      PROVE  x \in Listed(ChannelOf(x), Owner[x])'
  <2>1. Owner[x] \in User /\ ChannelOf(x) \in Channel
    BY ConnectionsFacts
  <2>2. CASE x = s
    BY <2>1, <2>2, ConnectLists
  <2>3. CASE x # s
    <3>1. x \in Listed(ChannelOf(x), Owner[x])
      BY <1>1, <1>9, <2>3 DEF ListsInv
    <3> QED
      BY <2>1, <3>1, ConnectLists
  <2> QED
    BY <2>2, <2>3
<1>10. ListsInv'
  BY <1>4, <1>8, <1>9 DEF ListsInv
<1>11. keys' = keys \/ /\ u \notin Elements(keys) /\ keys' = Append(keys, u)
                       /\ ChannelOf(s) = "conversation"
                       /\ sockets["conversation"][u] = <<>>
  BY <1>1, <1>3
<1> QED
  BY <1>5, <1>7, <1>10, <1>11

------------------------------------------------------------------------------
(* The broadcasts. *)

\* A type for what a step makes of the broadcast.
LEMMA CastFields ==
  ASSUME cast \in Cast
  PROVE  /\ cast.pc \in {"idle", "sending", "next", "over"} /\ cast.channel \in Channel
         /\ cast.skip \in SUBSET User /\ cast.size \in Nat \cup {-1}
         /\ cast.ahead \in Seq(User) /\ cast.user \in User \cup {NoUser} /\ cast.at \in Nat
         /\ cast.to \in SUBSET Socket /\ cast.dead \in SUBSET Socket
         /\ cast.served \in SUBSET Socket /\ cast.again \in BOOLEAN
         /\ cast.stay \in SUBSET Socket /\ cast.intact \in SUBSET User
         /\ cast.disturbed \in BOOLEAN
  BY DEF Cast

\* The first user of a list of distinct users, and the others.
LEMMA HeadTail ==
  ASSUME NEW S, NEW seq \in Seq(S), seq # <<>>
  PROVE  /\ Head(seq) \in S /\ Tail(seq) \in Seq(S)
         /\ Elements(seq) = {Head(seq)} \cup Elements(Tail(seq))
         /\ Injective(seq) => Injective(Tail(seq)) /\ Head(seq) \notin Elements(Tail(seq))
<1>1. /\ Len(seq) \in Nat /\ Len(seq) >= 1 /\ DOMAIN seq = 1 .. Len(seq)
      /\ Head(seq) = seq[1] /\ Tail(seq) \in Seq(S)
      /\ DOMAIN Tail(seq) = 1 .. Len(seq) - 1
      /\ \A i \in 1 .. Len(seq) - 1 : Tail(seq)[i] = seq[i + 1]
      /\ seq[1] \in S
  OBVIOUS
<1>2. \A i \in 1 .. Len(seq) :
        i # 1 => i - 1 \in 1 .. Len(seq) - 1 /\ seq[i] = Tail(seq)[i - 1]
  <2> SUFFICES ASSUME NEW i \in 1 .. Len(seq), i # 1
               PROVE  i - 1 \in 1 .. Len(seq) - 1 /\ seq[i] = Tail(seq)[i - 1]
    OBVIOUS
  <2>1. i - 1 \in 1 .. Len(seq) - 1 /\ (i - 1) + 1 = i
    BY <1>1
  <2>2. Tail(seq)[i - 1] = seq[(i - 1) + 1]
    BY <1>1, <2>1
  <2> QED
    BY <2>1, <2>2
<1>3. \A i \in 1 .. Len(seq) - 1 : i + 1 \in 1 .. Len(seq) /\ i + 1 # 1
  BY <1>1
<1>4. Elements(seq) = {Head(seq)} \cup Elements(Tail(seq))
  <2>1. ASSUME NEW i \in 1 .. Len(seq), i # 1 PROVE seq[i] \in Elements(Tail(seq))
    <3>1. i - 1 \in DOMAIN Tail(seq) /\ seq[i] = Tail(seq)[i - 1]
      BY <1>1, <1>2, <2>1
    <3> QED
      BY <3>1 DEF Elements
  <2>2. \A e \in Elements(Tail(seq)) : e \in Elements(seq)
    BY <1>1, <1>3 DEF Elements
  <2>3. seq[1] \in Elements(seq)
    BY <1>1 DEF Elements
  <2> QED
    BY <1>1, <2>1, <2>2, <2>3 DEF Elements
<1>5. ASSUME Injective(seq)
      PROVE  Injective(Tail(seq)) /\ Head(seq) \notin Elements(Tail(seq))
  <2>1. \A i \in 1 .. Len(seq) - 1 : Tail(seq)[i] # seq[1]
    BY <1>1, <1>3, <1>5 DEF Injective
  <2>2. \A i, j \in 1 .. Len(seq) - 1 : Tail(seq)[i] = Tail(seq)[j] => i = j
    <3> SUFFICES ASSUME NEW i \in 1 .. Len(seq) - 1, NEW j \in 1 .. Len(seq) - 1,
                        Tail(seq)[i] = Tail(seq)[j]
                 PROVE  i = j
      OBVIOUS
    <3>1. seq[i + 1] = seq[j + 1] /\ i + 1 \in DOMAIN seq /\ j + 1 \in DOMAIN seq
      BY <1>1, <1>3
    <3>2. i + 1 = j + 1
      BY <1>5, <3>1 DEF Injective
    <3> QED
      BY <1>1, <3>2
  <2> QED
    BY <1>1, <2>1, <2>2 DEF Injective, Elements
<1> QED
  BY <1>1, <1>4, <1>5

\* The fields of the broadcast after lists became left and the keys ks, and s was closed.
DisturbsTo(left, ks, s) ==
  /\ cast'.pc = cast.pc /\ cast'.channel = cast.channel /\ cast'.skip = cast.skip
  /\ cast'.at = cast.at /\ cast'.to = cast.to /\ cast'.dead = cast.dead
  /\ cast'.served = cast.served /\ cast'.again = cast.again
  /\ cast'.stay = cast.stay \ {s}
  /\ cast'.ahead = Without(cast.ahead, Emptied(left))
  /\ cast'.size = IF ks = <<>> THEN -1 ELSE cast.size
  /\ cast'.user = (IF cast.user = NoUser THEN cast.user
                   ELSE IF left[cast.channel][cast.user] = <<>> THEN NoUser
                   ELSE cast.user)
  /\ cast'.intact = {u \in cast.intact : ~Shifted(left, u)}
  /\ cast'.disturbed =
       (cast.disturbed \/ (cast.channel = "conversation" /\ ks # keys))

LEMMA DisturbsFields ==
  ASSUME ConnectionsTypeOK, NEW left \in [Channel -> [User -> Seq(Socket)]],
         NEW ks \in Seq(User), NEW s \in Socket,
         cast' = [Disturbs(left, ks) EXCEPT !.stay = @ \ {s}]
  PROVE  cast' \in Cast /\ DisturbsTo(left, ks, s)
<1> DEFINE ahead == Without(cast.ahead, Emptied(left))
           size == IF ks = <<>> THEN -1 ELSE cast.size
           user == IF cast.user = NoUser THEN cast.user
                   ELSE IF left[cast.channel][cast.user] = <<>> THEN NoUser ELSE cast.user
           intact == {u \in cast.intact : ~Shifted(left, u)}
           disturbed == cast.disturbed \/ (cast.channel = "conversation" /\ ks # keys)
           stay == cast.stay \ {s}
<1>1. cast \in Cast
  BY DEF ConnectionsTypeOK
<1>2. cast' = [cast EXCEPT !.ahead = ahead, !.size = size, !.user = user, !.intact = intact,
                           !.disturbed = disturbed, !.stay = stay]
  BY <1>1 DEF Disturbs, Cast
<1>3. /\ ahead \in Seq(User) /\ size \in Nat \cup {-1} /\ user \in User \cup {NoUser}
      /\ intact \in SUBSET User /\ disturbed \in BOOLEAN /\ stay \in SUBSET Socket
  <2>1. ahead \in Seq(User)
    BY <1>1, CastFields, WithoutElements
  <2>2. size \in Nat \cup {-1} /\ user \in User \cup {NoUser}
    BY <1>1, CastFields
  <2>3. intact \in SUBSET User /\ stay \in SUBSET Socket
    BY <1>1, CastFields
  <2>4. disturbed \in BOOLEAN
    BY <1>1, CastFields
  <2> QED
    BY <2>1, <2>2, <2>3, <2>4
<1> HIDE DEF ahead, size, user, intact, disturbed, stay
<1>4. cast' \in Cast
  BY <1>1, <1>2, <1>3 DEF Cast
<1>5. /\ cast'.pc = cast.pc /\ cast'.channel = cast.channel /\ cast'.skip = cast.skip
      /\ cast'.at = cast.at /\ cast'.to = cast.to /\ cast'.dead = cast.dead
      /\ cast'.served = cast.served /\ cast'.again = cast.again
      /\ cast'.ahead = ahead /\ cast'.size = size /\ cast'.user = user
      /\ cast'.intact = intact /\ cast'.disturbed = disturbed /\ cast'.stay = stay
  BY <1>1, <1>2 DEF Cast
<1> QED
  BY <1>4, <1>5 DEF ahead, size, user, intact, disturbed, stay, DisturbsTo

\* The endpoint of a socket ends under the loops.
LEMMA EndsStep ==
  ASSUME ConnectionsInv, NEW s \in Socket, HandlerEnds(s)
  PROVE  ConnectionsInv'
<1> DEFINE left == Left({s})
           ks == KeysLeft(left)
<1>1. /\ ConnectionsTypeOK /\ ListsInv /\ CastInv /\ cast \in Cast
      /\ handler[s] \in {"open", "broken"} /\ handler' = [handler EXCEPT ![s] = "ended"]
      /\ sockets' = left /\ keys' = ks /\ subscriber' = subscriber
      /\ handler \in [Socket -> {"new", "open", "broken", "ended"}]
  BY DEF ConnectionsInv, ConnectionsTypeOK, HandlerEnds, Released
<1>2. left \in [Channel -> [User -> Seq(Socket)]] /\ ks \in Seq(User)
  BY <1>1, LeftLists, LeftKeys
<1>3. IF Broadcasting THEN cast' = [Disturbs(left, ks) EXCEPT !.stay = @ \ {s}]
      ELSE cast' = cast
  BY DEF HandlerEnds, Released
<1>4. cast' \in Cast
  <2>1. CASE Broadcasting
    <3> HIDE DEF left, ks
    <3> QED
      BY <1>1, <1>2, <1>3, <2>1, DisturbsFields
  <2>2. CASE ~Broadcasting
    BY <1>1, <1>3, <2>2
  <2> QED
    BY <2>1, <2>2
<1>5. ConnectionsTypeOK' /\ ListsInv'
  <2>1. subscriber' \in {"up", "down", "off"}
    BY <1>1 DEF ConnectionsTypeOK
  <2>2. /\ handler' \in [Socket -> {"new", "open", "broken", "ended"}]
        /\ \A t \in Socket \ {s} : handler'[t] = handler[t]
        /\ \A t \in {s} : handler'[t] # "open"
    BY <1>1
  <2> QED
    BY <1>1, <1>4, <2>1, <2>2, RegistryLeft
<1>6. CASE ~Broadcasting
  <2>1. cast' = cast
    BY <1>3, <1>6
  <2> QED
    BY <1>1, <1>5, <1>6, <2>1 DEF ConnectionsInv, CastInv, Broadcasting, StayersServed
<1>7. CASE Broadcasting
  <2>0. PICK c : c = cast.channel
    OBVIOUS
  <2>1. /\ c = cast.channel
        /\ cast'.pc = cast.pc /\ cast'.channel = c /\ cast'.skip = cast.skip
        /\ cast'.at = cast.at /\ cast'.to = cast.to /\ cast'.dead = cast.dead
        /\ cast'.served = cast.served /\ cast'.again = cast.again
        /\ cast'.stay = cast.stay \ {s}
        /\ cast'.ahead = Without(cast.ahead, Emptied(left))
        /\ cast'.size = IF ks = <<>> THEN -1 ELSE cast.size
        /\ cast'.user = (IF cast.user = NoUser THEN cast.user
                         ELSE IF left[c][cast.user] = <<>> THEN NoUser ELSE cast.user)
        /\ cast'.intact = {u \in cast.intact : ~Shifted(left, u)}
        /\ cast'.disturbed = (cast.disturbed \/ (c = "conversation" /\ ks # keys))
    <3> HIDE DEF left, ks
    <3> QED
      <4>1. cast' = [Disturbs(left, ks) EXCEPT !.stay = @ \ {s}]
        BY <1>3, <1>7
      <4> QED
        <5>1. DisturbsTo(left, ks, s)
          BY <1>1, <1>2, <4>1, DisturbsFields
        <5> QED
          BY <2>0, <5>1 DEF DisturbsTo
  <2>2. /\ c \in Channel /\ c = cast.channel /\ cast.user \in User \cup {NoUser} /\ cast.ahead \in Seq(User)
        /\ cast.at \in Nat /\ LoopInv /\ StayInv /\ NoUser \notin User
        /\ cast.stay \in SUBSET Socket /\ cast.to \in SUBSET Socket
        /\ cast.served \in SUBSET Socket /\ cast.dead \in SUBSET Socket
        /\ cast.intact \in SUBSET User /\ cast.disturbed \in BOOLEAN
    BY <1>1, <1>7, <2>0, CastFields, ConnectionsFacts DEF CastInv
  <2>3. Reached' = Reached /\ Reached \in SUBSET Socket
    BY <2>1, <2>2 DEF Reached
  <2>4. \A u \in User :
          /\ Listed(c, u)' = Listed(c, u) \ {s}
          /\ sockets'[c][u] = Without(sockets[c][u], {s})
          /\ sockets[c][u] \in Seq(Socket) /\ sockets'[c][u] \in Seq(Socket)
    <3> SUFFICES ASSUME NEW u \in User
                 PROVE  /\ Listed(c, u)' = Listed(c, u) \ {s}
                        /\ sockets'[c][u] = Without(sockets[c][u], {s})
                        /\ sockets[c][u] \in Seq(Socket) /\ sockets'[c][u] \in Seq(Socket)
      OBVIOUS
    <3>1. Listed(c, u)' = Elements(sockets'[c][u])
      BY DEF Listed, Elements
    <3>2. sockets[c][u] \in Seq(Socket) /\ sockets'[c][u] \in Seq(Socket)
      <4> HIDE DEF left
      <4> QED
        BY <1>1, <1>2, <2>2 DEF ConnectionsTypeOK
    <3> QED
      <4>1. /\ left[c][u] = Without(sockets[c][u], {s})
            /\ Elements(left[c][u]) = Listed(c, u) \ {s}
        <5>1. PICK D : D = {s}
          OBVIOUS
        <5>2. /\ Left(D)[c][u] = Without(sockets[c][u], D)
              /\ Elements(Left(D)[c][u]) = Listed(c, u) \ D
          <6>1. ConnectionsTypeOK /\ ListsInv /\ c \in Channel /\ u \in User
            BY <1>1, <2>2
          <6> QED
            BY <6>1, LeftLists
        <5> QED
          BY <5>1, <5>2
      <4> HIDE DEF left, ks
      <4> QED
        BY <1>1, <3>1, <3>2, <4>1
  <2>5. /\ cast'.ahead \in Seq(User)
        /\ Elements(cast'.ahead) = Elements(cast.ahead) \ Emptied(left)
        /\ Injective(cast.ahead) => Injective(cast'.ahead)
    BY <2>1, <2>2, WithoutElements
  <2>6. Elements(keys') = Elements(keys) \ Emptied(left)
    BY <1>1, LeftKeys
  <2>7. cast.channel = "user" => cast'.ahead = <<>>
    <3> SUFFICES ASSUME cast.channel = "user" PROVE cast'.ahead = <<>>
      OBVIOUS
    <3>1. Elements(cast.ahead) = {}
      BY <2>2 DEF LoopInv, Elements
    <3> QED
      BY <2>5, <3>1, NoElements
  <2>8. ASSUME cast'.user # NoUser
        PROVE  /\ cast'.user = cast.user /\ cast.user \in User
               /\ sockets'[c][cast.user] # <<>>
    BY <1>1, <2>1, <2>2, <2>8
  <2>9. ASSUME cast'.user # NoUser,
               NEW i \in DOMAIN sockets'[c][cast.user], sockets'[c][cast.user][i] \in Reached
        PROVE  i <= cast.at
    <3>1. cast.user \in User
      BY <2>8, <2>9
    <3>2. /\ sockets[c][cast.user] \in Seq(Socket)
          /\ sockets'[c][cast.user] = Without(sockets[c][cast.user], {s})
      BY <2>4, <3>1
    <3>3. PICK j \in DOMAIN sockets[c][cast.user] :
            i <= j /\ sockets[c][cast.user][j] = sockets'[c][cast.user][i]
      BY <2>9, <3>2, WithoutElements
    <3>4. j <= cast.at /\ j \in Nat /\ i \in Nat
      <4>1. j <= cast.at
        BY <2>2, <2>9, <3>1, <3>3 DEF LoopInv
      <4>2. j \in Nat /\ i \in Nat
        BY <2>4, <3>1
      <4> QED
        BY <4>1, <4>2
    <3> QED
      BY <2>2, <3>3, <3>4
  <2>10. \A t \in Socket : handler'[t] # "new" <=> handler[t] # "new"
    BY <1>1
  <2>11. \A t \in Reached : t \in Listed(c, Owner[t])' => Owner[t] \notin Elements(cast'.ahead)
    BY <2>2, <2>3, <2>4, <2>5, ConnectionsFacts DEF LoopInv
  <2>12. LoopInv'
    <3>1. \A t \in Reached' : handler'[t] # "new"
      BY <2>2, <2>3, <2>10 DEF LoopInv
    <3>2. \A t \in cast'.dead : handler'[t] \in {"broken", "ended"}
      BY <1>1, <2>1, <2>2 DEF LoopInv
    <3>3. /\ ~cast'.again /\ cast'.to \cap cast'.served = {}
          /\ cast'.pc = "next" => cast'.to = {}
      BY <2>1, <2>2 DEF LoopInv
    <3>4. /\ Injective(cast'.ahead) /\ cast'.user \notin Elements(cast'.ahead)
          /\ Elements(cast'.ahead) \subseteq Elements(keys')
      <4>1. Elements(cast.ahead) \subseteq User
        BY <2>2 DEF Elements
      <4> QED
        BY <2>1, <2>2, <2>5, <2>6, <4>1 DEF LoopInv
    <3>5. cast'.channel = "user" => cast'.ahead = <<>>
      BY <2>1, <2>7
    <3>6. cast'.user # NoUser => sockets'[cast'.channel][cast'.user] # <<>>
      BY <2>1, <2>8
    <3>7. cast'.user # NoUser =>
            \A i \in DOMAIN sockets'[cast'.channel][cast'.user] :
              sockets'[cast'.channel][cast'.user][i] \in Reached' => i <= cast'.at
      BY <2>1, <2>3, <2>8, <2>9
    <3>8. \A t \in Reached' :
            t \in Listed(cast.channel, Owner[t])' => Owner[t] \notin Elements(cast'.ahead)
      BY <2>1, <2>3, <2>11
    <3> QED
      BY <3>1, <3>2, <3>3, <3>4, <3>5, <3>6, <3>7, <3>8 DEF LoopInv
  <2>13. ASSUME ~cast'.disturbed, NEW t \in cast'.stay, Owner[t] \in cast'.intact
         PROVE  t \in Reached' \/ ToCome(t)'
    <3>1. /\ ~cast.disturbed /\ t \in cast.stay /\ t # s /\ t \in Socket
          /\ Owner[t] \in cast.intact /\ ~Shifted(left, Owner[t])
          /\ Owner[t] \in User /\ handler[t] = "open" /\ ChannelOf(t) = c
      BY <1>1, <2>1, <2>2, <2>13, ConnectionsFacts DEF StayInv
    <3>2. t \in Listed(c, Owner[t]) /\ sockets'[c][Owner[t]] # <<>>
      <4>1. t \in Listed(c, Owner[t])
        BY <1>1, <3>1 DEF ListsInv
      <4>2. t \in Listed(c, Owner[t])'
        BY <2>4, <3>1, <4>1
      <4> QED
        BY <4>1, <4>2 DEF Listed
    <3>3. t \in Reached \/ ToCome(t)
      BY <2>2, <3>1 DEF StayInv
    <3>4. CASE Owner[t] \in Elements(cast.ahead)
      <4>1. c = "conversation"
        BY <2>2, <3>4, ConnectionsFacts DEF LoopInv, Elements
      <4>2. Owner[t] \notin Emptied(left)
        BY <1>1, <3>1, <3>2, <4>1 DEF Emptied
      <4> QED
        BY <2>5, <3>4, <4>2 DEF ToCome
    <3>5. CASE /\ Owner[t] = cast.user
               /\ \E i \in DOMAIN sockets[c][cast.user] :
                    sockets[c][cast.user][i] = t /\ i > cast.at
      <4>1. cast'.user = cast.user
        BY <1>1, <2>1, <3>1, <3>2, <3>5
      <4>2. /\ sockets[c][cast.user] \in Seq(Socket)
            /\ sockets'[c][cast.user] = Without(sockets[c][cast.user], {s})
        BY <2>4, <3>1, <3>5
      <4>3. ASSUME NEW i \in DOMAIN sockets[c][cast.user], i <= cast.at
            PROVE  sockets[c][cast.user][i] \notin {s}
        <5>1. PICK j \in DOMAIN sockets'[c][cast.user] :
                sockets'[c][cast.user][j] = sockets[c][cast.user][i]
          <6> HIDE DEF left
          <6> QED
            BY <1>1, <2>0, <3>1, <3>5, <4>3 DEF Shifted
        <5> QED
          BY <4>2, <5>1, WithoutElements
      <4>4. PICK k \in DOMAIN sockets[c][cast.user] :
              sockets[c][cast.user][k] = t /\ k > cast.at
        BY <3>5
      <4>5. \E m \in DOMAIN sockets'[c][cast.user] :
              sockets'[c][cast.user][m] = t /\ m > cast.at
        <5>1. sockets[c][cast.user][k] \notin {s}
          BY <3>1, <4>4
        <5>2. cast.at \in Nat
          BY <2>2
        <5> QED
          BY <4>2, <4>3, <4>4, <5>1, <5>2, PrefixStays
      <4> QED
        BY <2>1, <3>1, <3>5, <4>1, <4>5 DEF ToCome
    <3> QED
      BY <2>1, <2>3, <3>3, <3>4, <3>5 DEF ToCome
  <2>14. StayInv'
    <3>1. \A t \in cast'.stay : /\ handler'[t] = "open" /\ ChannelOf(t) = cast'.channel
                                /\ Owner[t] \notin cast'.skip
      BY <1>1, <2>1, <2>2 DEF StayInv
    <3>2. ASSUME ~cast'.disturbed, cast'.channel = "conversation"
          PROVE  keys' # <<>> /\ cast'.size = Len(keys')
      <4>1. ~cast.disturbed /\ c = "conversation" /\ ks = keys
        BY <2>1, <3>2
      <4>2. keys # <<>> /\ cast.size = Len(keys)
        BY <2>2, <4>1 DEF StayInv
      <4> QED
        BY <1>1, <2>1, <4>1, <4>2
    <3> HIDE DEF left, ks
    <3> QED
      BY <2>13, <3>1, <3>2 DEF StayInv
  <2>15. StayersServed'
    BY <1>7, <2>1 DEF StayersServed, Broadcasting
  <2> QED
    BY <1>5, <2>12, <2>14, <2>15 DEF ConnectionsInv, CastInv
<1> QED
  BY <1>6, <1>7

\* A socket that nobody has sent to joins under the loops.
LEMMA ConnectStep ==
  ASSUME ConnectionsInv, NEW s \in Socket, Connect(s)
  PROVE  ConnectionsInv'
<1> DEFINE u == Owner[s]
           enters == ChannelOf(s) = "conversation" /\ sockets["conversation"][u] = <<>>
           disturbs == enters /\ Broadcasting /\ cast.channel = "conversation"
           ahead == IF cast.size = -1 THEN cast.ahead ELSE Append(cast.ahead, u)
<1>1. /\ ConnectionsTypeOK /\ ListsInv /\ CastInv /\ cast \in Cast
      /\ handler[s] = "new" /\ handler' = [handler EXCEPT ![s] = "open"]
      /\ handler \in [Socket -> {"new", "open", "broken", "ended"}]
      /\ keys' = (IF enters THEN Append(keys, u) ELSE keys)
      /\ cast' = (IF disturbs THEN [cast EXCEPT !.disturbed = TRUE, !.ahead = ahead]
                  ELSE cast)
      /\ u \in User
  <2>1. /\ ConnectionsTypeOK /\ ListsInv /\ CastInv /\ cast \in Cast
        /\ handler \in [Socket -> {"new", "open", "broken", "ended"}]
        /\ u \in User
    BY ConnectionsFacts DEF ConnectionsInv, ConnectionsTypeOK
  <2>2. /\ handler[s] = "new" /\ handler' = [handler EXCEPT ![s] = "open"]
        /\ keys' = (IF enters THEN Append(keys, u) ELSE keys)
    BY DEF Connect
  <2>3. cast' = (IF disturbs THEN [cast EXCEPT !.disturbed = TRUE, !.ahead = ahead]
                 ELSE cast)
    BY <2>1 DEF Connect, Cast
  <2> QED
    BY <2>1, <2>2, <2>3
<1>2. ahead \in Seq(User)
  BY <1>1, CastFields
<1>3. /\ cast' \in Cast
      /\ cast'.pc = cast.pc /\ cast'.channel = cast.channel /\ cast'.skip = cast.skip
      /\ cast'.size = cast.size /\ cast'.user = cast.user
      /\ cast'.at = cast.at /\ cast'.to = cast.to /\ cast'.dead = cast.dead
      /\ cast'.served = cast.served /\ cast'.again = cast.again
      /\ cast'.stay = cast.stay /\ cast'.intact = cast.intact
      /\ IF disturbs THEN cast'.disturbed /\ cast'.ahead = ahead
         ELSE cast'.disturbed = cast.disturbed /\ cast'.ahead = cast.ahead
  <2> HIDE DEF ahead
  <2>1. CASE disturbs
    <3> HIDE DEF disturbs
    <3> QED
      BY <1>1, <1>2, <2>1 DEF Cast
  <2>2. CASE ~disturbs
    BY <1>1, <2>2
  <2> QED
    BY <2>1, <2>2
<1>4. /\ ConnectionsTypeOK' /\ ListsInv'
      /\ Elements(keys) \subseteq Elements(keys')
  BY <1>1, <1>3, RegistryConnects
<1>5. CASE ~Broadcasting
  <2>1. cast' = cast
    BY <1>1, <1>5
  <2> QED
    BY <1>1, <1>4, <1>5, <2>1 DEF ConnectionsInv, CastInv, Broadcasting, StayersServed
<1>6. CASE Broadcasting
  <2>0. PICK c : c = cast.channel
    OBVIOUS
  <2>1. /\ c \in Channel /\ c = cast.channel /\ cast.user \in User \cup {NoUser}
        /\ cast.ahead \in Seq(User)
        /\ cast.at \in Nat /\ LoopInv /\ StayInv /\ NoUser \notin User
        /\ cast.stay \in SUBSET Socket /\ cast.to \in SUBSET Socket
        /\ cast.served \in SUBSET Socket /\ cast.dead \in SUBSET Socket
        /\ cast.disturbed \in BOOLEAN
    BY <1>1, <1>6, <2>0, CastFields, ConnectionsFacts DEF CastInv
  <2>2. Reached' = Reached /\ Reached \in SUBSET Socket /\ s \notin Reached
    BY <1>1, <1>3, <2>1 DEF Reached, LoopInv
  <2>3. ASSUME NEW v \in User
        PROVE  /\ s \notin Listed(c, v)
               /\ Listed(c, v)' \subseteq Listed(c, v) \cup {s}
               /\ sockets[c][v] # <<>> => sockets'[c][v] # <<>>
               /\ \A i \in DOMAIN sockets[c][v] :
                    i \in DOMAIN sockets'[c][v] /\ sockets'[c][v][i] = sockets[c][v][i]
               /\ \A i \in DOMAIN sockets'[c][v] :
                    \/ i \in DOMAIN sockets[c][v] /\ sockets'[c][v][i] = sockets[c][v][i]
                    \/ sockets'[c][v][i] = s
    <3>1. /\ s \notin Listed(c, v) /\ sockets[c][v] \in Seq(Socket)
          /\ IF c = ChannelOf(s) /\ v = Owner[s]
             THEN sockets'[c][v] = Append(sockets[c][v], s)
             ELSE sockets'[c][v] = sockets[c][v]
      <4>1. sockets[c][v] \in Seq(Socket)
        BY <1>1, <2>1 DEF ConnectionsTypeOK
      <4>2. ConnectionsTypeOK /\ ListsInv /\ c \in Channel
        BY <1>1, <2>1
      <4> QED
        BY <4>1, <4>2, ConnectLists
    <3>2. s \notin Elements(sockets[c][v])
      BY <3>1 DEF Listed, Elements
    <3>3. Listed(c, v)' = Elements(sockets'[c][v]) /\ Listed(c, v) = Elements(sockets[c][v])
      BY DEF Listed, Elements
    <3>4. CASE c = ChannelOf(s) /\ v = Owner[s]
      <4>1. sockets'[c][v] = Append(sockets[c][v], s)
        BY <3>1, <3>4
      <4>2. Append(sockets[c][v], s) # <<>>
        BY <3>1
      <4> QED
        BY <3>1, <3>2, <3>3, <4>1, <4>2, AppendNew
    <3>5. CASE ~(c = ChannelOf(s) /\ v = Owner[s])
      <4>1. sockets'[c][v] = sockets[c][v]
        BY <3>1, <3>5
      <4> QED
        BY <3>1, <3>3, <4>1
    <3> QED
      BY <3>4, <3>5
  <2>4. /\ \/ cast'.ahead = cast.ahead
           \/ /\ enters /\ c = "conversation" /\ cast'.ahead = Append(cast.ahead, u)
              /\ u \notin Elements(keys) /\ u \in Elements(keys')
        /\ ~cast'.disturbed => /\ ~cast.disturbed /\ cast'.ahead = cast.ahead
                               /\ c = "conversation" => keys' = keys
        /\ enters => u \notin Elements(keys)
    <3>1. enters => u \notin Elements(keys) /\ u \in Elements(keys')
      <4>1. Elements(keys) = {v \in User : Listed("conversation", v) # {}}
        BY <1>1 DEF ConnectionsTypeOK, Elements
      <4>2. enters => u \notin Elements(keys)
        BY <4>1 DEF Listed
      <4>3. enters => Elements(keys') = Elements(keys) \cup {u}
        BY <1>1, <4>2, AppendNew DEF ListsInv
      <4> QED
        BY <4>2, <4>3
    <3> HIDE DEF enters
    <3> QED
      BY <1>1, <1>3, <1>6, <2>1, <3>1
  <2>5. LoopInv'
    <3>1. \A t \in Reached' : handler'[t] # "new"
      BY <1>1, <2>1, <2>2 DEF LoopInv
    <3>2. \A t \in cast'.dead : handler'[t] \in {"broken", "ended"}
      BY <1>1, <1>3, <2>1 DEF LoopInv
    <3>3. /\ ~cast'.again /\ cast'.to \cap cast'.served = {}
          /\ cast'.pc = "next" => cast'.to = {}
      BY <1>3, <2>1 DEF LoopInv
    <3>4. /\ Injective(cast'.ahead) /\ cast'.user \notin Elements(cast'.ahead)
          /\ Elements(cast'.ahead) \subseteq Elements(keys')
      <4>1. CASE cast'.ahead = cast.ahead
        BY <1>3, <1>4, <2>1, <4>1 DEF LoopInv
      <4>2. CASE /\ enters /\ c = "conversation" /\ cast'.ahead = Append(cast.ahead, u)
                 /\ u \notin Elements(keys) /\ u \in Elements(keys')
        <5>1. u \notin Elements(cast.ahead)
          BY <2>1, <4>2 DEF LoopInv
        <5>2. /\ Elements(cast'.ahead) = Elements(cast.ahead) \cup {u}
              /\ Injective(cast'.ahead)
          BY <1>1, <2>1, <4>2, <5>1, AppendNew DEF LoopInv
        <5>3. cast.user # u
          BY <1>1, <2>1, <4>2 DEF LoopInv
        <5> QED
          BY <1>3, <1>4, <2>1, <4>2, <5>2, <5>3 DEF LoopInv
      <4> QED
        BY <2>4, <4>1, <4>2
    <3>5. cast'.channel = "user" => cast'.ahead = <<>>
      BY <1>3, <2>1, <2>4 DEF LoopInv
    <3>6. cast'.user # NoUser => sockets'[cast'.channel][cast'.user] # <<>>
      BY <1>3, <2>1, <2>3 DEF LoopInv
    <3>7. cast'.user # NoUser =>
            \A i \in DOMAIN sockets'[cast'.channel][cast'.user] :
              sockets'[cast'.channel][cast'.user][i] \in Reached' => i <= cast'.at
      BY <1>3, <2>1, <2>2, <2>3 DEF LoopInv
    <3>8. ASSUME NEW t \in Reached, t \in Listed(c, Owner[t])'
          PROVE  Owner[t] \notin Elements(cast'.ahead)
      <4>1. t \in Listed(c, Owner[t]) /\ Owner[t] \in User
        <5>1. Owner[t] \in User /\ t # s
          BY <2>2, ConnectionsFacts
        <5> QED
          BY <2>3, <3>8, <5>1
      <4>2. Owner[t] \notin Elements(cast.ahead)
        BY <2>1, <4>1 DEF LoopInv
      <4>3. CASE cast'.ahead = cast.ahead
        BY <4>2, <4>3
      <4>4. CASE enters /\ c = "conversation" /\ cast'.ahead = Append(cast.ahead, u)
        <5>1. Owner[t] # u
          BY <4>1, <4>4 DEF Listed
        <5>2. u \notin Elements(cast.ahead)
          BY <2>1, <2>4, <4>4 DEF LoopInv
        <5> QED
          BY <1>1, <2>1, <4>2, <4>4, <5>1, <5>2, AppendNew
      <4> QED
        BY <2>4, <4>3, <4>4
    <3>9. \A t \in Reached' :
            t \in Listed(cast.channel, Owner[t])' => Owner[t] \notin Elements(cast'.ahead)
      BY <1>3, <2>1, <2>2, <3>8
    <3> QED
      BY <3>1, <3>2, <3>3, <3>4, <3>5, <3>6, <3>7, <3>9 DEF LoopInv
  <2>6. ASSUME ~cast'.disturbed, NEW t \in cast'.stay, Owner[t] \in cast'.intact
        PROVE  t \in Reached' \/ ToCome(t)'
    <3>1. t \in Reached \/ ToCome(t)
      BY <1>3, <2>1, <2>4, <2>6 DEF StayInv
    <3>2. CASE Owner[t] \in Elements(cast.ahead)
      BY <2>4, <2>6, <3>2 DEF ToCome
    <3>3. CASE /\ Owner[t] = cast.user
               /\ \E i \in DOMAIN sockets[c][cast.user] :
                    sockets[c][cast.user][i] = t /\ i > cast.at
      <4>1. t \in Socket /\ Owner[t] \in User
        BY <1>3, <2>1, <2>6, ConnectionsFacts
      <4> QED
        BY <1>3, <2>1, <2>3, <3>3, <4>1 DEF ToCome
    <3> QED
      BY <2>1, <2>2, <3>1, <3>2, <3>3 DEF ToCome
  <2>7. StayInv'
    <3>1. \A t \in cast'.stay : /\ handler'[t] = "open" /\ ChannelOf(t) = cast'.channel
                                /\ Owner[t] \notin cast'.skip
      BY <1>1, <1>3, <2>1 DEF StayInv
    <3>2. ASSUME ~cast'.disturbed, cast'.channel = "conversation"
          PROVE  keys' # <<>> /\ cast'.size = Len(keys')
      BY <1>3, <2>1, <2>4, <3>2 DEF StayInv
    <3> QED
      BY <2>6, <3>1, <3>2 DEF StayInv
  <2>8. StayersServed'
    BY <1>3, <1>6 DEF StayersServed, Broadcasting
  <2> QED
    BY <1>4, <2>5, <2>7, <2>8 DEF ConnectionsInv, CastInv
<1> QED
  BY <1>5, <1>6

\* A client goes away: its socket is registered still, and no longer one that stays.
LEMMA GoesStep ==
  ASSUME ConnectionsInv, NEW s \in Socket, ClientGoes(s)
  PROVE  ConnectionsInv'
<1>1. /\ ConnectionsTypeOK /\ ListsInv /\ CastInv /\ cast \in Cast
      /\ handler[s] = "open" /\ handler' = [handler EXCEPT ![s] = "broken"]
      /\ handler \in [Socket -> {"new", "open", "broken", "ended"}]
      /\ sockets' = sockets /\ keys' = keys /\ subscriber' = subscriber
      /\ cast' = [cast EXCEPT !.stay = @ \ {s}]
  BY DEF ConnectionsInv, ConnectionsTypeOK, ClientGoes
<1>2. /\ cast' \in Cast
      /\ cast'.pc = cast.pc /\ cast'.channel = cast.channel /\ cast'.skip = cast.skip
      /\ cast'.size = cast.size /\ cast'.ahead = cast.ahead /\ cast'.user = cast.user
      /\ cast'.at = cast.at /\ cast'.to = cast.to /\ cast'.dead = cast.dead
      /\ cast'.served = cast.served /\ cast'.again = cast.again
      /\ cast'.stay = cast.stay \ {s} /\ cast'.intact = cast.intact
      /\ cast'.disturbed = cast.disturbed
  BY <1>1 DEF Cast
<1>3. /\ \A c, u : Listed(c, u)' = Listed(c, u)
      /\ handler' \in [Socket -> {"new", "open", "broken", "ended"}]
      /\ \A t \in Socket : /\ handler[t] \in {"open", "broken"} => handler'[t] \in {"open", "broken"}
                           /\ handler'[t] = "open" => handler[t] = "open"
                           /\ handler[t] # "new" => handler'[t] # "new"
                           /\ handler[t] = "ended" => handler'[t] = "ended"
                           /\ handler[t] = "open" /\ t # s => handler'[t] = "open"
                           /\ handler[t] = "broken" => handler'[t] = "broken"
  BY <1>1 DEF Listed
<1>4. ConnectionsTypeOK'
  BY <1>1, <1>2, <1>3 DEF ConnectionsTypeOK
<1>5. ListsInv'
  <2>1. ASSUME NEW c \in Channel, NEW u \in User, NEW t \in Listed(c, u)
        PROVE  ChannelOf(t) = c /\ Owner[t] = u /\ handler'[t] \in {"open", "broken"}
    <3>1. t \in Socket
      BY <1>1, <2>1 DEF ConnectionsTypeOK, Listed
    <3> QED
      BY <1>1, <1>3, <2>1, <3>1 DEF ListsInv
  <2> QED
    BY <1>1, <1>3, <2>1 DEF ListsInv
<1>6. CASE ~Broadcasting
  BY <1>1, <1>2, <1>4, <1>5, <1>6 DEF ConnectionsInv, CastInv, Broadcasting, StayersServed
<1>7. CASE Broadcasting
  <2>1. /\ LoopInv /\ StayInv /\ cast.dead \in SUBSET Socket /\ cast.stay \in SUBSET Socket
        /\ Reached \in SUBSET Socket /\ Reached' = Reached
    BY <1>1, <1>2, <1>7, CastFields DEF CastInv, Reached
  <2>2. /\ \A t \in Reached' : handler'[t] # "new"
        /\ \A t \in cast'.dead : handler'[t] \in {"broken", "ended"}
    BY <1>2, <1>3, <2>1 DEF LoopInv
  <2>3. LoopInv'
    BY <1>1, <1>2, <1>3, <2>1, <2>2 DEF LoopInv
  <2>4. \A t \in cast'.stay : /\ handler'[t] = "open" /\ ChannelOf(t) = cast'.channel
                              /\ Owner[t] \notin cast'.skip
    BY <1>2, <1>3, <2>1 DEF StayInv
  <2>5. \A t : ToCome(t)' <=> ToCome(t)
    BY <1>1, <1>2 DEF ToCome
  <2>6. StayInv'
    BY <1>1, <1>2, <2>1, <2>4, <2>5 DEF StayInv
  <2>7. StayersServed'
    BY <1>2, <1>7 DEF StayersServed, Broadcasting
  <2> QED
    BY <1>4, <1>5, <2>3, <2>6, <2>7 DEF ConnectionsInv, CastInv
<1> QED
  BY <1>6, <1>7

\* A step that leaves the sockets alone and makes of the broadcast one of its type.
LEMMA CastAlone ==
  ASSUME ConnectionsInv, UNCHANGED <<handler, sockets, keys>>, cast' \in Cast,
         subscriber' \in {"up", "down", "off"}, CastInv'
  PROVE  ConnectionsInv'
BY RegistryKept DEF ConnectionsInv

\* A step that starts no broadcast and takes none further: it may drop the one there was.
LEMMA IdleStep ==
  ASSUME ConnectionsInv, UNCHANGED <<handler, sockets, keys>>,
         subscriber' \in {"up", "down", "off"}, cast' = NoCast \/ cast' = cast
  PROVE  ConnectionsInv'
<1>1. CASE cast' = NoCast
  <2>1. cast' \in Cast /\ CastInv'
    BY <1>1, NoCastType DEF CastInv, StayersServed, Broadcasting
  <2> QED
    BY <2>1, CastAlone
<1>2. CASE cast' = cast
  <2>1. cast' \in Cast
    BY <1>2 DEF ConnectionsInv, ConnectionsTypeOK
  <2>2. /\ \A c, u : Listed(c, u)' = Listed(c, u)
        /\ \A t : ToCome(t)' <=> ToCome(t)
        /\ Reached' = Reached
    BY <1>2 DEF Listed, ToCome, Reached
  <2>3. (LoopInv => LoopInv') /\ (StayInv => StayInv')
    BY <1>2, <2>2 DEF LoopInv, StayInv
  <2>4. CastInv'
    BY <1>2, <2>3 DEF ConnectionsInv, CastInv, StayersServed, Broadcasting
  <2> QED
    BY <2>1, <2>4, CastAlone
<1> QED
  BY <1>1, <1>2

\* A send ends: who was sent to is served, or will be unregistered.
LEMMA SendStep ==
  ASSUME ConnectionsInv, SendEnds
  PROVE  ConnectionsInv'
<1> DEFINE fine == {s \in cast.to : handler[s] = "open"}
<1>1. /\ ConnectionsTypeOK /\ ListsInv /\ cast \in Cast /\ cast.pc = "sending"
      /\ LoopInv /\ StayInv /\ handler' = handler /\ subscriber' = subscriber
      /\ handler \in [Socket -> {"new", "open", "broken", "ended"}]
  BY DEF ConnectionsInv, ConnectionsTypeOK, CastInv, Broadcasting, SendEnds
<1>2. sockets' = sockets /\ keys' = keys
  <2>1. sockets' = Left({}) /\ keys' = KeysLeft(Left({}))
    BY DEF SendEnds, DroppedInLoop
  <2>2. \A c \in Channel, u \in User : Left({})[c][u] = sockets[c][u]
    BY <1>1, LeftLists
  <2>3. /\ Left({}) \in [Channel -> [User -> Seq(Socket)]]
        /\ sockets \in [Channel -> [User -> Seq(Socket)]]
    BY <1>1, LeftLists DEF ConnectionsTypeOK
  <2>4. Left({}) = sockets
    BY <2>2, <2>3
  <2>5. Emptied(Left({})) \cap Elements(keys) = {}
    <3>1. Elements(keys) = {u \in User : Listed("conversation", u) # {}}
      BY <1>1 DEF ConnectionsTypeOK, Elements
    <3>2. \A u \in User : sockets["conversation"][u] = <<>> => Listed("conversation", u) = {}
      BY DEF Listed
    <3>3. Emptied(sockets) = {u \in User : sockets["conversation"][u] = <<>>}
      BY DEF Emptied
    <3> QED
      BY <2>4, <3>1, <3>2, <3>3
  <2>6. KeysLeft(Left({})) = keys
    BY <1>1, <2>5, LeftKeys
  <2> QED
    BY <2>1, <2>4, <2>6
<1>3. /\ cast.to \in SUBSET Socket /\ cast.dead \in SUBSET Socket
      /\ cast.served \in SUBSET Socket /\ cast.again \in BOOLEAN
  BY <1>1, CastFields
<1>4. cast' = [cast EXCEPT !.pc = "next", !.dead = cast.dead \cup (cast.to \ fine),
                           !.served = cast.served \cup fine,
                           !.again = cast.again \/ fine \cap cast.served # {}, !.to = {}]
  BY <1>1 DEF SendEnds, Cast
<1> HIDE DEF fine
<1>5. /\ cast'.pc = "next" /\ cast'.channel = cast.channel /\ cast'.skip = cast.skip
      /\ cast'.size = cast.size /\ cast'.ahead = cast.ahead /\ cast'.user = cast.user
      /\ cast'.at = cast.at /\ cast'.to = {}
      /\ cast'.dead = cast.dead \cup (cast.to \ fine)
      /\ cast'.served = cast.served \cup fine
      /\ cast'.again = (cast.again \/ fine \cap cast.served # {})
      /\ cast'.stay = cast.stay /\ cast'.intact = cast.intact
      /\ cast'.disturbed = cast.disturbed
  BY <1>1, <1>4 DEF Cast
<1>6. fine \subseteq cast.to
  BY DEF fine
<1>7. cast' \in Cast
  <2>1. /\ cast.dead \cup (cast.to \ fine) \in SUBSET Socket
        /\ cast.served \cup fine \in SUBSET Socket
        /\ (cast.again \/ fine \cap cast.served # {}) \in BOOLEAN
    BY <1>3, <1>6
  <2> QED
    BY <1>1, <1>4, <2>1 DEF Cast
<1>8. /\ \A c, u : Listed(c, u)' = Listed(c, u)
      /\ \A t : ToCome(t)' <=> ToCome(t)
      /\ Reached' \subseteq Reached /\ Reached' = cast.served \cup fine
  BY <1>2, <1>5, <1>6 DEF Listed, ToCome, Reached
<1>9. \A t \in cast'.dead : handler'[t] \in {"broken", "ended"}
  <2>1. \A t \in cast.to : handler[t] # "new" /\ t \in Socket
    BY <1>1, <1>3 DEF LoopInv, Reached
  <2> QED
    BY <1>1, <1>5, <2>1 DEF LoopInv, fine
<1>10. LoopInv'
  <2>1. ~cast'.again
    BY <1>1, <1>5, <1>6 DEF LoopInv
  <2> QED
    BY <1>1, <1>2, <1>5, <1>8, <1>9, <2>1 DEF LoopInv
<1>11. StayInv'
  <2>1. \A t \in cast.stay : t \in Reached => t \in Reached'
    BY <1>1, <1>8 DEF StayInv, Reached, fine
  <2> QED
    BY <1>1, <1>2, <1>5, <1>8, <2>1 DEF StayInv
<1>12. CastInv'
  BY <1>5, <1>10, <1>11 DEF CastInv, StayersServed
<1>13. subscriber' \in {"up", "down", "off"}
  BY <1>1 DEF ConnectionsTypeOK
<1> QED
  BY <1>1, <1>2, <1>7, <1>12, <1>13, CastAlone

\* What is left of a broadcast when it is over.
LEMMA OverFields ==
  ASSUME cast \in Cast, cast' = CastOver
  PROVE  /\ cast' \in Cast /\ cast'.pc = "over" /\ cast'.served = cast.served
         /\ cast'.again = cast.again /\ cast'.stay = cast.stay
         /\ cast'.intact = cast.intact /\ cast'.disturbed = cast.disturbed
<1>1. NoCast \in Cast
  BY NoCastType
<1>2. /\ cast.served \in SUBSET Socket /\ cast.again \in BOOLEAN
      /\ cast.stay \in SUBSET Socket /\ cast.intact \in SUBSET User
      /\ cast.disturbed \in BOOLEAN
  BY CastFields
<1> QED
  BY <1>1, <1>2 DEF CastOver, Cast

\* The dict changed its size: then somebody entered or left.
LEMMA InterruptedStep ==
  ASSUME ConnectionsInv, Interrupted
  PROVE  ConnectionsInv'
<1>1. /\ cast \in Cast /\ LoopInv /\ StayInv /\ cast.disturbed \in BOOLEAN
      /\ cast' = CastOver /\ cast.channel = "conversation" /\ cast.size # Len(keys)
      /\ UNCHANGED <<handler, sockets, keys>> /\ subscriber' \in {"up", "down", "off"}
  BY CastFields DEF ConnectionsInv, ConnectionsTypeOK, CastInv, Broadcasting, Interrupted
<1>2. cast' \in Cast /\ cast'.pc = "over" /\ cast'.again = cast.again
      /\ cast'.disturbed = cast.disturbed
  BY <1>1, OverFields
<1>3. cast.disturbed /\ ~cast.again
  BY <1>1 DEF LoopInv, StayInv
<1>4. CastInv'
  BY <1>2, <1>3 DEF CastInv, StayersServed, Broadcasting
<1> QED
  BY <1>1, <1>2, <1>4, CastAlone

\* The loops are at their end: nobody is to come, and who failed is unregistered.
LEMMA LoopsEndStep ==
  ASSUME ConnectionsInv, LoopsEnd
  PROVE  ConnectionsInv'
<1>1. /\ ConnectionsTypeOK /\ ListsInv /\ cast \in Cast /\ LoopInv /\ StayInv
      /\ cast.pc = "next" /\ cast' = CastOver /\ ListEnds
      /\ sockets' = Left(cast.dead) /\ keys' = KeysLeft(Left(cast.dead))
      /\ handler' = handler /\ subscriber' \in {"up", "down", "off"}
      /\ handler \in [Socket -> {"new", "open", "broken", "ended"}]
      /\ cast.channel = "conversation" => Without(cast.ahead, cast.skip) = <<>>
  BY DEF ConnectionsInv, ConnectionsTypeOK, CastInv, Broadcasting, LoopsEnd
<1>2. /\ cast.stay \in SUBSET Socket /\ cast.dead \in SUBSET Socket /\ cast.at \in Nat
      /\ cast.ahead \in Seq(User) /\ cast.user \in User \cup {NoUser}
      /\ cast.channel \in Channel /\ cast.disturbed \in BOOLEAN
      /\ cast.served \in SUBSET Socket
  BY <1>1, CastFields
<1>3. /\ cast' \in Cast /\ cast'.pc = "over" /\ cast'.served = cast.served
      /\ cast'.again = cast.again /\ cast'.stay = cast.stay
      /\ cast'.intact = cast.intact /\ cast'.disturbed = cast.disturbed
  BY <1>1, OverFields
<1>4. ConnectionsTypeOK' /\ ListsInv'
  <2>1. \A t \in cast.dead : handler'[t] # "open"
    BY <1>1 DEF LoopInv
  <2>2. /\ \A t \in Socket \ cast.dead : handler'[t] = handler[t]
        /\ handler' \in [Socket -> {"new", "open", "broken", "ended"}]
    BY <1>1
  <2>3. PICK D \in SUBSET Socket : D = cast.dead
    BY <1>2
  <2> QED
    BY <1>1, <1>3, <2>1, <2>2, <2>3, RegistryLeft
<1>5. ASSUME ~cast.disturbed, NEW t \in cast.stay, Owner[t] \in cast.intact
      PROVE  t \in cast.served
  <2>1. t \in Reached \/ ToCome(t)
    BY <1>1, <1>5 DEF StayInv
  <2>2. t \in Socket /\ Owner[t] \in User /\ Owner[t] # NoUser /\ Owner[t] \notin cast.skip
    BY <1>1, <1>2, ConnectionsFacts DEF StayInv
  <2>3. Owner[t] \notin Elements(cast.ahead)
    <3> SUFFICES ASSUME Owner[t] \in Elements(cast.ahead) PROVE FALSE
      OBVIOUS
    <3>1. cast.channel = "conversation"
      BY <1>1, <1>2, ConnectionsFacts DEF LoopInv, Elements
    <3>2. Elements(Without(cast.ahead, cast.skip)) = Elements(cast.ahead) \ cast.skip
      BY <1>2, WithoutElements
    <3>3. Elements(Without(cast.ahead, cast.skip)) = {}
      BY <1>1, <3>1 DEF Elements
    <3> QED
      BY <2>2, <3>2, <3>3
  <2>4. ASSUME Owner[t] = cast.user, NEW i \in DOMAIN sockets[cast.channel][cast.user]
        PROVE  ~(i > cast.at)
    <3>1. cast.at >= Len(sockets[cast.channel][cast.user])
      BY <1>1, <2>2, <2>4 DEF ListEnds
    <3>2. sockets[cast.channel][cast.user] \in Seq(Socket)
      BY <1>1, <1>2, <2>2, <2>4 DEF ConnectionsTypeOK
    <3> QED
      BY <1>2, <3>1, <3>2
  <2>5. t \in Reached
    BY <2>1, <2>3, <2>4 DEF ToCome
  <2> QED
    BY <1>1, <2>5 DEF LoopInv, Reached
<1>6. CastInv'
  BY <1>1, <1>3, <1>5 DEF CastInv, StayersServed, Broadcasting, LoopInv
<1> QED
  BY <1>4, <1>6 DEF ConnectionsInv

\* The next socket of the list was not sent to: all that were are behind.
LEMMA NextSocketStep ==
  ASSUME ConnectionsInv, NextSocket
  PROVE  ConnectionsInv'
<1>1. /\ ConnectionsTypeOK /\ ListsInv /\ cast \in Cast /\ LoopInv /\ StayInv
      /\ cast.pc = "next" /\ ~ListEnds
      /\ UNCHANGED <<handler, sockets, keys>> /\ subscriber' \in {"up", "down", "off"}
      /\ cast' = [cast EXCEPT !.pc = "sending", !.user = cast.user, !.at = cast.at + 1,
                    !.to = {sockets[cast.channel][cast.user][cast.at + 1]}]
  BY DEF ConnectionsInv, ConnectionsTypeOK, CastInv, Broadcasting, NextSocket, SendTo
<1>2. /\ cast.stay \in SUBSET Socket /\ cast.at \in Nat
      /\ cast.user \in User \cup {NoUser} /\ cast.channel \in Channel
      /\ cast.served \in SUBSET Socket /\ NoUser \notin User
  BY <1>1, CastFields, ConnectionsFacts
<1>3. PICK list : list = sockets[cast.channel][cast.user]
  OBVIOUS
<1>4. PICK x : x = list[cast.at + 1]
  OBVIOUS
<1>5. /\ cast.user \in User /\ list \in Seq(Socket) /\ Injective(list)
      /\ cast.at + 1 \in DOMAIN list /\ x \in Socket
      /\ x \in Listed(cast.channel, cast.user)
      /\ Owner[x] = cast.user /\ handler[x] # "new"
  <2>1. cast.user \in User /\ ~(cast.at >= Len(list))
    BY <1>1, <1>2, <1>3 DEF ListEnds
  <2>2. list \in Seq(Socket) /\ Injective(list)
    BY <1>1, <1>2, <1>3, <2>1 DEF ConnectionsTypeOK, ListsInv
  <2>3. cast.at + 1 \in DOMAIN list /\ x \in Socket
    BY <1>2, <1>4, <2>1, <2>2
  <2>4. x \in Listed(cast.channel, cast.user)
    BY <1>3, <1>4, <2>3 DEF Listed
  <2> QED
    BY <1>1, <1>2, <2>1, <2>2, <2>3, <2>4 DEF ListsInv
<1>6. /\ cast'.pc = "sending" /\ cast'.channel = cast.channel /\ cast'.skip = cast.skip
      /\ cast'.size = cast.size /\ cast'.ahead = cast.ahead /\ cast'.user = cast.user
      /\ cast'.at = cast.at + 1 /\ cast'.to = {x} /\ cast'.dead = cast.dead
      /\ cast'.served = cast.served /\ cast'.again = cast.again
      /\ cast'.stay = cast.stay /\ cast'.intact = cast.intact
      /\ cast'.disturbed = cast.disturbed
      /\ cast' \in Cast
  <2>1. cast' = [cast EXCEPT !.pc = "sending", !.user = cast.user, !.at = cast.at + 1,
                             !.to = {x}]
    BY <1>1, <1>3, <1>4
  <2>2. cast.at + 1 \in Nat /\ {x} \in SUBSET Socket
    BY <1>2, <1>5
  <2>3. PICK at : at = cast.at + 1
    OBVIOUS
  <2> QED
    BY <1>1, <2>1, <2>2, <2>3 DEF Cast
<1>7. /\ \A c, u : Listed(c, u)' = Listed(c, u)
      /\ Reached' = Reached \cup {x} /\ Reached = cast.served
  BY <1>1, <1>6 DEF Listed, Reached, LoopInv
<1>8. x \notin Reached
  <2> SUFFICES ASSUME x \in Reached PROVE FALSE
    OBVIOUS
  <2>1. cast.at + 1 <= cast.at
    BY <1>1, <1>2, <1>3, <1>4, <1>5 DEF LoopInv
  <2> QED
    BY <1>2, <2>1
<1>9. LoopInv'
  <2>1. /\ \A t \in Reached' : handler'[t] # "new"
        /\ \A t \in cast'.dead : handler'[t] \in {"broken", "ended"}
    BY <1>1, <1>5, <1>6, <1>7 DEF LoopInv
  <2>2. /\ ~cast'.again /\ cast'.to \cap cast'.served = {} /\ cast'.pc # "next"
    BY <1>1, <1>6, <1>7, <1>8 DEF LoopInv
  <2>3. \A t \in Reached' :
          t \in Listed(cast.channel, Owner[t])' => Owner[t] \notin Elements(cast'.ahead)
    BY <1>1, <1>5, <1>6, <1>7 DEF LoopInv
  <2>4. ASSUME NEW i \in DOMAIN list, list[i] \in Reached'
        PROVE  i <= cast'.at
    <3>1. i \in Nat
      BY <1>5
    <3>2. CASE list[i] \in Reached
      <4>1. i <= cast.at
        BY <1>1, <1>2, <1>3, <1>5, <3>2 DEF LoopInv
      <4> QED
        BY <1>2, <1>6, <3>1, <4>1
    <3>3. CASE list[i] = x
      BY <1>2, <1>4, <1>5, <1>6, <3>3 DEF Injective
    <3> QED
      BY <1>7, <2>4, <3>2, <3>3
  <2>5. cast'.user # NoUser =>
          \A i \in DOMAIN sockets'[cast'.channel][cast'.user] :
            sockets'[cast'.channel][cast'.user][i] \in Reached' => i <= cast'.at
    BY <1>1, <1>3, <1>6, <2>4
  <2> QED
    BY <1>1, <1>6, <2>1, <2>2, <2>3, <2>5 DEF LoopInv
<1>10. ASSUME ~cast.disturbed, NEW t \in cast.stay, Owner[t] \in cast.intact
       PROVE  t \in Reached' \/ ToCome(t)'
  <2>1. t \in Reached \/ ToCome(t)
    BY <1>1, <1>10 DEF StayInv
  <2>2. CASE Owner[t] \in Elements(cast.ahead)
    BY <1>6, <2>2 DEF ToCome
  <2>3. ASSUME Owner[t] = cast.user, NEW i \in DOMAIN list, list[i] = t, i > cast.at
        PROVE  t = x \/ ToCome(t)'
    <3>1. i = cast.at + 1 \/ i > cast.at + 1
      BY <1>2, <1>5, <2>3
    <3>2. i = cast.at + 1 => t = x
      BY <1>4, <2>3
    <3>3. i > cast.at + 1 => ToCome(t)'
      BY <1>1, <1>3, <1>6, <2>3 DEF ToCome
    <3> QED
      BY <3>1, <3>2, <3>3
  <2> QED
    BY <1>3, <1>7, <2>1, <2>2, <2>3 DEF ToCome
<1>11. StayInv'
  BY <1>1, <1>6, <1>10 DEF StayInv
<1>12. CastInv'
  BY <1>6, <1>9, <1>11 DEF CastInv, StayersServed
<1> QED
  BY <1>1, <1>6, <1>12, CastAlone

\* The first socket of a list.
LEMMA FirstSocket ==
  ASSUME ConnectionsTypeOK, ListsInv, NEW c \in Channel, NEW u \in User,
         sockets[c][u] # <<>>
  PROVE  LET list == sockets[c][u]
         IN  /\ list[1] \in Socket /\ list[1] \in Listed(c, u)
             /\ Owner[list[1]] = u /\ handler[list[1]] # "new"
             /\ \A i \in DOMAIN list : i \in Nat /\ (i = 1 \/ i > 1)
             /\ \A i \in DOMAIN list : list[i] = list[1] => i = 1
<1> DEFINE list == sockets[c][u]
<1>1. list \in Seq(Socket) /\ Injective(list) /\ 1 \in DOMAIN list
  BY DEF ConnectionsTypeOK, ListsInv
<1>2. list[1] \in Socket /\ list[1] \in Listed(c, u)
  BY <1>1 DEF Listed
<1>3. Owner[list[1]] = u /\ handler[list[1]] # "new"
  BY <1>2 DEF ListsInv
<1>4. \A i \in DOMAIN list : i \in Nat /\ (i = 1 \/ i > 1)
  BY <1>1
<1>5. \A i \in DOMAIN list : list[i] = list[1] => i = 1
  BY <1>1 DEF Injective
<1> QED
  BY <1>2, <1>3, <1>4, <1>5

\* The next key: none of its sockets was sent to before.
LEMMA NextKeyStep ==
  ASSUME ConnectionsInv, NextKey
  PROVE  ConnectionsInv'
<1> DEFINE us == Without(cast.ahead, cast.skip)
<1>1. /\ ConnectionsTypeOK /\ ListsInv /\ cast \in Cast /\ LoopInv /\ StayInv
      /\ cast.pc = "next" /\ ListEnds /\ cast.channel = "conversation" /\ us # <<>>
      /\ UNCHANGED <<handler, sockets, keys>> /\ subscriber' \in {"up", "down", "off"}
  BY DEF ConnectionsInv, ConnectionsTypeOK, CastInv, Broadcasting, NextKey
<1>2. /\ cast.stay \in SUBSET Socket /\ cast.at \in Nat /\ cast.ahead \in Seq(User)
      /\ cast.user \in User \cup {NoUser} /\ "conversation" \in Channel
      /\ cast.served \in SUBSET Socket /\ NoUser \notin User
  BY <1>1, CastFields, ConnectionsFacts
<1>3. /\ us \in Seq(User) /\ Injective(us)
      /\ Elements(us) = Elements(cast.ahead) \ cast.skip
  BY <1>1, <1>2, WithoutElements DEF LoopInv
<1> HIDE DEF us
<1>4. PICK h : h = Head(us)
  OBVIOUS
<1>5. PICK rest : rest = Tail(us)
  OBVIOUS
<1>6. /\ h \in User /\ rest \in Seq(User) /\ Injective(rest) /\ h \notin Elements(rest)
      /\ Elements(cast.ahead) \ cast.skip = {h} \cup Elements(rest)
  BY <1>1, <1>3, <1>4, <1>5, HeadTail
<1>7. PICK list : list = sockets["conversation"][h]
  OBVIOUS
<1>8. PICK x : x = list[1]
  OBVIOUS
<1>9. sockets["conversation"][h] # <<>>
  <2>1. h \in Elements(keys)
    BY <1>1, <1>6 DEF LoopInv
  <2>2. Listed("conversation", h) # {}
    BY <1>1, <2>1 DEF ConnectionsTypeOK, Elements
  <2> QED
    BY <2>2 DEF Listed
<1>10. /\ x \in Socket /\ x \in Listed("conversation", h)
       /\ Owner[x] = h /\ handler[x] # "new"
       /\ \A i \in DOMAIN list : i \in Nat /\ (i = 1 \/ i > 1)
       /\ \A i \in DOMAIN list : list[i] = x => i = 1
  BY <1>1, <1>2, <1>6, <1>7, <1>8, <1>9, FirstSocket
<1>11. cast' = [cast EXCEPT !.ahead = rest, !.pc = "sending", !.user = h, !.at = 1, !.to = {x}]
  BY <1>1, <1>4, <1>5, <1>7, <1>8 DEF NextKey, SendTo, Cast, us
<1>12. /\ cast'.pc = "sending" /\ cast'.channel = cast.channel /\ cast'.skip = cast.skip
       /\ cast'.size = cast.size /\ cast'.ahead = rest /\ cast'.user = h
       /\ cast'.at = 1 /\ cast'.to = {x} /\ cast'.dead = cast.dead
       /\ cast'.served = cast.served /\ cast'.again = cast.again
       /\ cast'.stay = cast.stay /\ cast'.intact = cast.intact
       /\ cast'.disturbed = cast.disturbed
       /\ cast' \in Cast
  BY <1>1, <1>6, <1>10, <1>11 DEF Cast
<1>13. /\ \A c, u : Listed(c, u)' = Listed(c, u)
       /\ Reached' = Reached \cup {x} /\ Reached = cast.served
  BY <1>1, <1>12 DEF Listed, Reached, LoopInv
<1>14. \A t \in Reached : ~(t \in Listed("conversation", Owner[t]) /\ Owner[t] = h)
  BY <1>1, <1>6 DEF LoopInv
<1>15. x \notin Reached
  BY <1>10, <1>14
<1>16. LoopInv'
  <2>1. /\ \A t \in Reached' : handler'[t] # "new"
        /\ \A t \in cast'.dead : handler'[t] \in {"broken", "ended"}
    BY <1>1, <1>10, <1>12, <1>13 DEF LoopInv
  <2>2. /\ ~cast'.again /\ cast'.to \cap cast'.served = {} /\ cast'.pc # "next"
    BY <1>1, <1>12, <1>13, <1>15 DEF LoopInv
  <2>3. \A t \in Reached' :
          t \in Listed(cast.channel, Owner[t])' => Owner[t] \notin Elements(cast'.ahead)
    BY <1>1, <1>6, <1>10, <1>12, <1>13 DEF LoopInv
  <2>4. ASSUME NEW i \in DOMAIN list, list[i] \in Reached'
        PROVE  i <= cast'.at
    <3>1. list[i] \in Listed("conversation", h) /\ Owner[list[i]] = h
      <4>1. list[i] \in Listed("conversation", h)
        BY <1>7, <2>4 DEF Listed
      <4> QED
        BY <1>1, <1>2, <1>6, <4>1 DEF ListsInv
    <3>2. list[i] = x
      BY <1>13, <1>14, <2>4, <3>1
    <3> QED
      BY <1>10, <1>12, <3>2
  <2>5. cast'.user # NoUser =>
          \A i \in DOMAIN sockets'[cast'.channel][cast'.user] :
            sockets'[cast'.channel][cast'.user][i] \in Reached' => i <= cast'.at
    BY <1>1, <1>7, <1>12, <2>4
  <2>6. /\ Injective(cast'.ahead) /\ cast'.user \notin Elements(cast'.ahead)
        /\ Elements(cast'.ahead) \subseteq Elements(keys')
        /\ cast'.channel # "user"
        /\ sockets'[cast'.channel][cast'.user] # <<>>
    BY <1>1, <1>6, <1>9, <1>12 DEF LoopInv
  <2> QED
    BY <2>1, <2>2, <2>3, <2>5, <2>6 DEF LoopInv
<1>17. ASSUME ~cast.disturbed, NEW t \in cast.stay, Owner[t] \in cast.intact
       PROVE  t \in Reached' \/ ToCome(t)'
  <2>1. t \in Reached \/ ToCome(t)
    BY <1>1, <1>17 DEF StayInv
  <2>2. /\ t \in Socket /\ Owner[t] \in User /\ Owner[t] # NoUser /\ Owner[t] \notin cast.skip
        /\ t \in Listed("conversation", Owner[t])
    BY <1>1, <1>2, ConnectionsFacts DEF StayInv, ListsInv
  <2>3. ASSUME Owner[t] = cast.user, NEW i \in DOMAIN sockets[cast.channel][cast.user],
               i > cast.at
        PROVE  FALSE
    <3>1. cast.at >= Len(sockets[cast.channel][cast.user])
      BY <1>1, <2>2, <2>3 DEF ListEnds
    <3>2. sockets[cast.channel][cast.user] \in Seq(Socket)
      BY <1>1, <1>2, <2>2, <2>3 DEF ConnectionsTypeOK
    <3> QED
      BY <1>2, <2>3, <3>1, <3>2
  <2>4. CASE Owner[t] \in Elements(rest)
    BY <1>12, <2>4 DEF ToCome
  <2>5. CASE Owner[t] = h
    <3>1. PICK i \in DOMAIN list : list[i] = t
      BY <1>7, <2>2, <2>5 DEF Listed
    <3>2. i = 1 => t \in Reached'
      BY <1>8, <1>13, <3>1
    <3>3. i > 1 => ToCome(t)'
      BY <1>1, <1>7, <1>12, <2>5, <3>1 DEF ToCome
    <3> QED
      BY <1>10, <3>1, <3>2, <3>3
  <2>6. t \in Reached \/ Owner[t] \in Elements(cast.ahead)
    BY <2>1, <2>3 DEF ToCome
  <2> QED
    BY <1>6, <1>13, <2>2, <2>4, <2>5, <2>6
<1>18. StayInv'
  BY <1>1, <1>12, <1>17 DEF StayInv
<1>19. CastInv'
  BY <1>12, <1>16, <1>18 DEF CastInv, StayersServed
<1> QED
  BY <1>1, <1>12, <1>19, CastAlone

\* A broadcast to the conversation begins: every client but those of skip is to come.
LEMMA RouteConversationStep ==
  ASSUME ConnectionsInv, NEW skip \in SUBSET Blocker, RouteConversation(skip)
  PROVE  ConnectionsInv'
<1> DEFINE us == Without(keys, skip)
           staying == {s \in Registered \ UserSocket :
                         handler[s] = "open" /\ Owner[s] \notin skip}
<1>1. /\ ConnectionsTypeOK /\ ListsInv /\ us # <<>> /\ keys \in Seq(User)
      /\ UNCHANGED <<handler, sockets, keys>> /\ subscriber' \in {"up", "down", "off"}
      /\ Injective(keys) /\ skip \in SUBSET User /\ "conversation" \in Channel
      /\ Elements(keys) = {u \in User : Listed("conversation", u) # {}}
  BY ConnectionsFacts, ConnectionsAssumption
     DEF ConnectionsInv, ConnectionsTypeOK, ListsInv, RouteConversation, Injective, Elements
<1>2. /\ us \in Seq(User) /\ Injective(us) /\ Elements(us) = Elements(keys) \ skip
  BY <1>1, WithoutElements
<1> HIDE DEF us
<1>3. PICK h : h = Head(us)
  OBVIOUS
<1>4. PICK rest : rest = Tail(us)
  OBVIOUS
<1>5. /\ h \in User /\ rest \in Seq(User) /\ Injective(rest) /\ h \notin Elements(rest)
      /\ Elements(keys) \ skip = {h} \cup Elements(rest)
  BY <1>1, <1>2, <1>3, <1>4, HeadTail
<1>6. PICK list : list = sockets["conversation"][h]
  OBVIOUS
<1>7. PICK x : x = list[1]
  OBVIOUS
<1>8. sockets["conversation"][h] # <<>> /\ keys # <<>>
  <2>1. h \in Elements(keys)
    BY <1>5
  <2>2. Listed("conversation", h) # {}
    BY <1>1, <2>1
  <2> QED
    BY <2>1, <2>2 DEF Listed, Elements
<1>9. /\ x \in Socket /\ x \in Listed("conversation", h)
      /\ Owner[x] = h /\ handler[x] # "new"
      /\ \A i \in DOMAIN list : i \in Nat /\ (i = 1 \/ i > 1)
      /\ \A i \in DOMAIN list : list[i] = x => i = 1
  BY <1>1, <1>5, <1>6, <1>7, <1>8, FirstSocket
<1>10. PICK stay : stay = staying
  OBVIOUS
<1>11. PICK size \in Nat : size = Len(keys)
  BY <1>1
<1>12. cast' = [NoCast EXCEPT !.channel = "conversation", !.skip = skip, !.size = size,
                  !.ahead = rest, !.intact = User \ skip, !.stay = stay,
                  !.pc = "sending", !.user = h, !.at = 1, !.to = {x}]
  BY <1>3, <1>4, <1>6, <1>7, <1>10, <1>11 DEF RouteConversation, SendTo, NoCast, us
<1>13. /\ stay \in SUBSET Socket
       /\ \A t \in stay : /\ handler[t] = "open" /\ ChannelOf(t) = "conversation"
                          /\ Owner[t] \notin skip /\ Owner[t] \in User
                          /\ t \in Listed("conversation", Owner[t])
  BY <1>10, ConnectionsFacts DEF Registered, ChannelOf
<1>14. /\ cast'.pc = "sending" /\ cast'.channel = "conversation" /\ cast'.skip = skip
       /\ cast'.size = size /\ cast'.ahead = rest /\ cast'.user = h
       /\ cast'.at = 1 /\ cast'.to = {x} /\ cast'.dead = {}
       /\ cast'.served = {} /\ ~cast'.again
       /\ cast'.stay = stay /\ cast'.disturbed = FALSE
       /\ cast' \in Cast
  BY <1>1, <1>5, <1>9, <1>11, <1>12, <1>13, NoCastType DEF NoCast, Cast
<1>15. /\ \A c, u : Listed(c, u)' = Listed(c, u)
       /\ Reached' = {x}
  BY <1>1, <1>14 DEF Listed, Reached
<1>16. LoopInv'
  <2>1. /\ \A t \in Reached' : handler'[t] # "new"
        /\ \A t \in cast'.dead : handler'[t] \in {"broken", "ended"}
        /\ ~cast'.again /\ cast'.to \cap cast'.served = {} /\ cast'.pc # "next"
    BY <1>1, <1>9, <1>14, <1>15
  <2>2. \A t \in Reached' : Owner[t] \notin Elements(cast'.ahead)
    BY <1>5, <1>9, <1>14, <1>15
  <2>3. \A i \in DOMAIN sockets'[cast'.channel][cast'.user] :
          sockets'[cast'.channel][cast'.user][i] \in Reached' => i <= cast'.at
    BY <1>1, <1>6, <1>9, <1>14, <1>15
  <2>4. /\ Injective(cast'.ahead) /\ cast'.user \notin Elements(cast'.ahead)
        /\ Elements(cast'.ahead) \subseteq Elements(keys')
        /\ cast'.channel # "user"
        /\ sockets'[cast'.channel][cast'.user] # <<>>
    BY <1>1, <1>5, <1>8, <1>14
  <2> QED
    BY <2>1, <2>2, <2>3, <2>4 DEF LoopInv
<1>17. ASSUME NEW t \in stay
       PROVE  t \in Reached' \/ ToCome(t)'
  <2>1. Owner[t] \in Elements(keys) \ skip /\ t \in Listed("conversation", Owner[t])
    BY <1>1, <1>13
  <2>2. CASE Owner[t] \in Elements(rest)
    BY <1>14, <2>2 DEF ToCome
  <2>3. CASE Owner[t] = h
    <3>1. PICK i \in DOMAIN list : list[i] = t
      BY <1>6, <2>1, <2>3 DEF Listed
    <3>2. i = 1 => t \in Reached'
      BY <1>7, <1>15, <3>1
    <3>3. i > 1 => ToCome(t)'
      BY <1>1, <1>6, <1>14, <2>3, <3>1 DEF ToCome
    <3> QED
      BY <1>9, <3>1, <3>2, <3>3
  <2> QED
    BY <1>5, <2>1, <2>2, <2>3
<1>18. StayInv'
  BY <1>1, <1>8, <1>11, <1>13, <1>14, <1>17 DEF StayInv
<1>19. CastInv'
  BY <1>14, <1>16, <1>18 DEF CastInv, StayersServed
<1> QED
  BY <1>1, <1>14, <1>19, CastAlone

\* A broadcast to a user begins: one list.
LEMMA RouteUserStep ==
  ASSUME ConnectionsInv, NEW u \in User, RouteUser(u)
  PROVE  ConnectionsInv'
<1> DEFINE staying == {s \in Listed("user", u) : handler[s] = "open"}
<1>1. /\ ConnectionsTypeOK /\ ListsInv /\ sockets["user"][u] # <<>>
      /\ UNCHANGED <<handler, sockets, keys>> /\ subscriber' \in {"up", "down", "off"}
      /\ "user" \in Channel
  BY ConnectionsFacts DEF ConnectionsInv, ConnectionsTypeOK, RouteUser
<1>2. PICK list : list = sockets["user"][u]
  OBVIOUS
<1>3. PICK x : x = list[1]
  OBVIOUS
<1>4. /\ x \in Socket /\ x \in Listed("user", u)
      /\ Owner[x] = u /\ handler[x] # "new"
      /\ \A i \in DOMAIN list : i \in Nat /\ (i = 1 \/ i > 1)
      /\ \A i \in DOMAIN list : list[i] = x => i = 1
  BY <1>1, <1>2, <1>3, FirstSocket
<1>5. PICK stay : stay = staying
  OBVIOUS
<1>6. cast' = [NoCast EXCEPT !.intact = {u}, !.stay = stay,
                 !.pc = "sending", !.user = u, !.at = 1, !.to = {x}]
  BY <1>2, <1>3, <1>5 DEF RouteUser, SendTo, NoCast
<1>7. /\ stay \in SUBSET Socket
      /\ \A t \in stay : /\ handler[t] = "open" /\ ChannelOf(t) = "user" /\ Owner[t] = u
                         /\ t \in Listed("user", u)
  <2>1. \A t \in Listed("user", u) : t \in Socket /\ ChannelOf(t) = "user" /\ Owner[t] = u
    BY <1>1 DEF ConnectionsTypeOK, ListsInv, Listed
  <2> QED
    BY <1>5, <2>1
<1>8. /\ cast'.pc = "sending" /\ cast'.channel = "user" /\ cast'.skip = {}
      /\ cast'.ahead = <<>> /\ cast'.user = u
      /\ cast'.at = 1 /\ cast'.to = {x} /\ cast'.dead = {}
      /\ cast'.served = {} /\ ~cast'.again
      /\ cast'.stay = stay /\ cast'.disturbed = FALSE
      /\ cast' \in Cast
  BY <1>1, <1>4, <1>6, <1>7, NoCastType DEF NoCast, Cast
<1>9. /\ \A c, v : Listed(c, v)' = Listed(c, v)
      /\ Reached' = {x} /\ Elements(cast'.ahead) = {} /\ Injective(cast'.ahead)
  BY <1>1, <1>8 DEF Listed, Reached, Elements, Injective
<1>10. LoopInv'
  <2>1. /\ \A t \in Reached' : handler'[t] # "new"
        /\ \A t \in cast'.dead : handler'[t] \in {"broken", "ended"}
        /\ ~cast'.again /\ cast'.to \cap cast'.served = {} /\ cast'.pc # "next"
    BY <1>1, <1>4, <1>8, <1>9
  <2>2. \A i \in DOMAIN sockets'[cast'.channel][cast'.user] :
          sockets'[cast'.channel][cast'.user][i] \in Reached' => i <= cast'.at
    BY <1>1, <1>2, <1>4, <1>8, <1>9
  <2> QED
    BY <1>1, <1>8, <1>9, <2>1, <2>2 DEF LoopInv
<1>11. ASSUME NEW t \in stay
       PROVE  t \in Reached' \/ ToCome(t)'
  <2>1. PICK i \in DOMAIN list : list[i] = t
    BY <1>2, <1>7 DEF Listed
  <2>2. i = 1 => t \in Reached'
    BY <1>3, <1>9, <2>1
  <2>3. i > 1 => ToCome(t)'
    BY <1>1, <1>2, <1>7, <1>8, <2>1 DEF ToCome
  <2> QED
    BY <1>4, <2>1, <2>2, <2>3
<1>12. StayInv'
  BY <1>1, <1>7, <1>8, <1>11 DEF StayInv
<1>13. CastInv'
  BY <1>8, <1>10, <1>12 DEF CastInv, StayersServed
<1> QED
  BY <1>1, <1>8, <1>13, CastAlone

LEMMA ConnectionsStep ==
  ConnectionsInv /\ [ConnectionsNext]_connectionsVars => ConnectionsInv'
<1> SUFFICES ASSUME ConnectionsInv, [ConnectionsNext]_connectionsVars
             PROVE  ConnectionsInv'
  OBVIOUS
<1>1. ASSUME NEW s \in Socket, Connect(s) \/ ClientGoes(s) \/ HandlerEnds(s)
      PROVE  ConnectionsInv'
  BY <1>1, ConnectStep, GoesStep, EndsStep
<1>2. ASSUME NEW skip \in SUBSET Blocker, RouteConversation(skip)
      PROVE  ConnectionsInv'
  BY <1>2, RouteConversationStep
<1>3. ASSUME NEW u \in User, RouteUser(u)
      PROVE  ConnectionsInv'
  BY <1>3, RouteUserStep
<1>4. CASE SendEnds \/ NextSocket \/ NextKey \/ Interrupted \/ LoopsEnd
  BY <1>4, SendStep, NextSocketStep, NextKeyStep, InterruptedStep, LoopsEndStep
<1>5. CASE Polls \/ StartUp \/ SubscriberFails \/ Subscribes \/ ShutDown
  <2>1. /\ UNCHANGED <<handler, sockets, keys>> /\ subscriber' \in {"up", "down", "off"}
        /\ cast' = NoCast \/ cast' = cast
    BY <1>5 DEF Polls, StartUp, SubscriberFails, AfterError, Subscribes, ShutDown,
                ConnectionsInv, ConnectionsTypeOK
  <2> QED
    BY <2>1, IdleStep
<1>6. CASE UNCHANGED connectionsVars
  BY <1>6, IdleStep DEF connectionsVars, ConnectionsInv, ConnectionsTypeOK
<1> QED
  BY <1>1, <1>2, <1>3, <1>4, <1>5, <1>6 DEF ConnectionsNext

LEMMA ConnectionsHold == ConnectionsSpec => []ConnectionsInv
  BY InitConnections, ConnectionsStep, PTL DEF ConnectionsSpec

\* The dict of a worker's registry has a key for every user with a socket in it, and no
\* other, whatever connect, disconnect and the cleanup of a broadcast do in between.
THEOREM ConnectionsTypes == ConnectionsSpec => []ConnectionsTypeOK
<1>1. ConnectionsInv => ConnectionsTypeOK
  BY DEF ConnectionsInv
<1> QED
  BY <1>1, ConnectionsHold, PTL

\* connect, disconnect and the cleanup of the broadcasts: a client that is there is
\* registered, what is registered has an endpoint that will unregister it, and
\* is_user_connected never tells of a user without a socket.
THEOREM RegistriesExact == ConnectionsSpec => []RegistryExact
<1>1. ASSUME ConnectionsInv PROVE RegistryExact
  <2>1. ConnectionsTypeOK /\ ListsInv
    BY <1>1 DEF ConnectionsInv
  <2>2. ASSUME NEW s \in Socket, handler[s] = "open"
        PROVE  s \in Registered
    BY <2>1, <2>2 DEF ListsInv, Registered
  <2>3. ASSUME NEW s \in Registered
        PROVE  handler[s] \in {"open", "broken"}
    BY <2>1, <2>3, ConnectionsFacts DEF ListsInv, Registered
  <2>4. ASSUME NEW u \in User, NEW c \in Channel, Listed(c, u) # {}
        PROVE  \E s \in Socket : Owner[s] = u /\ handler[s] \in {"open", "broken"}
    <3>1. PICK s : s \in Listed(c, u)
      BY <2>4
    <3>2. s \in Socket /\ Owner[s] = u /\ handler[s] \in {"open", "broken"}
      BY <2>1, <3>1 DEF ConnectionsTypeOK, ListsInv, Listed
    <3> QED
      BY <3>2
  <2> QED
    BY <2>2, <2>3, <2>4 DEF RegistryExact, Connected
<1> QED
  BY <1>1, ConnectionsHold, PTL

\* broadcast_to_conversation and broadcast_to_user await every send while they iterate over
\* the live registry: they serve nobody twice, and, if no user entered or left meanwhile,
\* every client that stayed, save those of a list that lost a socket.
THEOREM BroadcastsServe == ConnectionsSpec => []StayersServed
<1>1. ConnectionsInv => StayersServed
  BY DEF ConnectionsInv, CastInv
<1> QED
  BY <1>1, ConnectionsHold, PTL
==============================================================================
