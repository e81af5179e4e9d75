--------------------------- MODULE FeedItemsProofs --------------------------
(***************************************************************************)
(* Facts that the proofs about feeds and their items share: numbers,        *)
(* sequences and permutations, and what a call of Parse may return.         *)
(* Induction over numbers is stated for a set of them, so that it needs no  *)
(* operator for a parameter.                                                *)
(***************************************************************************)
EXTENDS FeedItems, FiniteSetTheorems, WellFoundedInduction, TLAPS

----------------------------------------------------------------------------
(* Numbers *)

\* A set of numbers has a least one.
LEMMA SmallestNumber ==
    ASSUME NEW T, T \subseteq Nat, T # {}
    PROVE  \E n \in T : \A m \in T : n <= m
<1>1. PICK n \in T : \A m \in T : <<m, n>> \notin OpToRel(<, Nat)
  BY NatLessThanWellFounded, WFMin
<1>2. \A m \in T : ~(m < n)
  BY <1>1 DEF OpToRel
<1> QED
  BY <1>2

\* Induction: a set that has 0, and n + 1 whenever it has n, has every number.
LEMMA NumbersByInduction ==
    ASSUME NEW T, 0 \in T, \A n \in Nat : n \in T => n + 1 \in T
    PROVE  Nat \subseteq T
<1> DEFINE U == Nat \ T
<1>1. SUFFICES ASSUME U # {} PROVE FALSE
  OBVIOUS
<1>2. PICK n \in U : \A m \in U : n <= m
  BY <1>1, SmallestNumber
<1>3. n # 0 /\ n - 1 \in Nat /\ n - 1 \notin U
  BY <1>2
<1> QED
  BY <1>3

----------------------------------------------------------------------------
(* What is in a sequence *)

\* A sequence that is not empty is its head and its tail.
LEMMA HeadAndTail ==
    ASSUME NEW S, NEW s \in Seq(S), s # <<>>
    PROVE  /\ Head(s) \in S /\ Head(s) \in ToSet(s)
           /\ Tail(s) \in Seq(S)
           /\ ToSet(s) = {Head(s)} \union ToSet(Tail(s))
<1>1. /\ Len(s) \in Nat \ {0} /\ DOMAIN s = 1 .. Len(s)
      /\ Head(s) = s[1] /\ s[1] \in S
      /\ Tail(s) \in Seq(S) /\ Len(Tail(s)) = Len(s) - 1
      /\ DOMAIN Tail(s) = 1 .. Len(s) - 1
      /\ \A i \in 1 .. Len(s) - 1 : Tail(s)[i] = s[i + 1]
  OBVIOUS
<1>2. ToSet(s) \subseteq {Head(s)} \union ToSet(Tail(s))
  <2> SUFFICES ASSUME NEW i \in 1 .. Len(s), i # 1 PROVE s[i] \in ToSet(Tail(s))
    BY <1>1 DEF ToSet
  <2>1. i - 1 \in DOMAIN Tail(s) /\ Tail(s)[i - 1] = s[i]
    BY <1>1
  <2> QED
    BY <2>1 DEF ToSet
<1>3. ToSet(Tail(s)) \subseteq ToSet(s)
  BY <1>1 DEF ToSet
<1>4. Head(s) \in ToSet(s)
  BY <1>1 DEF ToSet
<1> QED
  BY <1>1, <1>2, <1>3, <1>4

\* What an element at the end adds.
LEMMA AppendElement ==
    ASSUME NEW S, NEW s \in Seq(S), NEW e \in S
    PROVE  /\ Append(s, e) \in Seq(S) /\ Append(s, e) # <<>>
           /\ ToSet(Append(s, e)) = ToSet(s) \union {e}
<1>1. /\ Append(s, e) \in Seq(S) /\ Len(Append(s, e)) = Len(s) + 1
      /\ Len(s) \in Nat /\ DOMAIN s = 1 .. Len(s) /\ DOMAIN Append(s, e) = 1 .. Len(s) + 1
      /\ \A i \in 1 .. Len(s) : Append(s, e)[i] = s[i]
      /\ Append(s, e)[Len(s) + 1] = e
  OBVIOUS
<1>2. ToSet(Append(s, e)) \subseteq ToSet(s) \union {e}
  BY <1>1 DEF ToSet
<1>3. ToSet(s) \subseteq ToSet(Append(s, e)) /\ e \in ToSet(Append(s, e))
  BY <1>1 DEF ToSet
<1> QED
  BY <1>1, <1>2, <1>3

\* The elements of a sequence are those of the set that it is over.
LEMMA ElementsAreIn ==
    ASSUME NEW S, NEW s \in Seq(S)
    PROVE  ToSet(s) \subseteq S /\ DOMAIN s = 1 .. Len(s) /\ Len(s) \in Nat
BY DEF ToSet

\* And it is a sequence over its own elements.
LEMMA OwnElements ==
    ASSUME NEW S, NEW s \in Seq(S)
    PROVE  s \in Seq(ToSet(s))
<1>1. DOMAIN s = 1 .. Len(s) /\ Len(s) \in Nat /\ s = [i \in 1 .. Len(s) |-> s[i]]
  OBVIOUS
<1>2. \A i \in 1 .. Len(s) : s[i] \in ToSet(s)
  BY <1>1 DEF ToSet
<1>3. s \in [1 .. Len(s) -> ToSet(s)]
  BY <1>1, <1>2
<1> QED
  BY <1>1, <1>3

\* What comes of two sequences, one after the other.
LEMMA Concatenation ==
    ASSUME NEW S, NEW s \in Seq(S), NEW t \in Seq(S)
    PROVE  /\ s \o t \in Seq(S) /\ Len(s \o t) = Len(s) + Len(t)
           /\ \A i \in 1 .. Len(s) : (s \o t)[i] = s[i]
           /\ \A i \in 1 .. Len(t) : (s \o t)[Len(s) + i] = t[i]
           /\ \A i \in Len(s) + 1 .. Len(s) + Len(t) : (s \o t)[i] = t[i - Len(s)]
  OBVIOUS

----------------------------------------------------------------------------
(* Sequences that repeat nothing *)

\* What is taken out at the front is not in the rest.
LEMMA DistinctTail ==
    ASSUME NEW S, NEW s \in Seq(S), s # <<>>, IsInjective(s)
    PROVE  IsInjective(Tail(s)) /\ Head(s) \notin ToSet(Tail(s))
<1>1. /\ Len(s) \in Nat \ {0} /\ DOMAIN s = 1 .. Len(s) /\ Head(s) = s[1]
      /\ DOMAIN Tail(s) = 1 .. Len(s) - 1
      /\ \A i \in 1 .. Len(s) - 1 : Tail(s)[i] = s[i + 1]
  OBVIOUS
<1>2. \A i, j \in 1 .. Len(s) : s[i] = s[j] => i = j
  BY <1>1 DEF IsInjective
<1>3. IsInjective(Tail(s))
  BY <1>1, <1>2 DEF IsInjective
<1>4. \A i \in DOMAIN Tail(s) : Tail(s)[i] # Head(s)
  BY <1>1, <1>2
<1> QED
  BY <1>3, <1>4 DEF ToSet

\* What is new may be added at the end.
LEMMA DistinctAppend ==
    ASSUME NEW S, NEW s \in Seq(S), NEW e \in S, IsInjective(s), e \notin ToSet(s)
    PROVE  IsInjective(Append(s, e))
<1>1. /\ Len(s) \in Nat /\ DOMAIN s = 1 .. Len(s) /\ DOMAIN Append(s, e) = 1 .. Len(s) + 1
      /\ \A i \in 1 .. Len(s) : Append(s, e)[i] = s[i]
      /\ Append(s, e)[Len(s) + 1] = e
  OBVIOUS
<1>2. \A i, j \in 1 .. Len(s) : s[i] = s[j] => i = j
  BY <1>1 DEF IsInjective
<1>3. \A i \in 1 .. Len(s) : s[i] # e
  BY <1>1 DEF ToSet
<1>4. \A i, j \in 1 .. Len(s) + 1 : Append(s, e)[i] = Append(s, e)[j] => i = j
  BY <1>1, <1>2, <1>3
<1> QED
  BY <1>1, <1>4 DEF IsInjective

----------------------------------------------------------------------------
(* Permutations *)

\* An arrangement of some numbers up to n is a sequence that has each once.
LEMMA Arrangement ==
    ASSUME NEW n \in Nat, NEW order \in SetToAllKPermutations(1 .. n)
    PROVE  /\ order \in Seq(1 .. n)
           /\ \A i, j \in DOMAIN order : i # j => order[i] # order[j]
<1>1. PICK s \in SUBSET (1 .. n) : order \in SetToSeqs(s)
  BY DEF SetToAllKPermutations
<1>2. IsFiniteSet(s)
  <2>1. IsFiniteSet(1 .. n)
    BY FS_Interval
  <2> QED
    BY <2>1, FS_Subset
<1>3. Cardinality(s) \in Nat
  BY <1>2, FS_CardinalityType
<1>4. /\ order \in [1 .. Cardinality(s) -> s]
      /\ \A i, j \in 1 .. Cardinality(s) : i # j => order[i] # order[j]
  BY <1>1 DEF SetToSeqs
<1>5. order \in [1 .. Cardinality(s) -> 1 .. n]
  BY <1>4
<1> QED
  BY <1>3, <1>4, <1>5

\* The arrangements of a finite set are the sequences that have each element once.
LEMMA ArrangementsOf ==
    ASSUME NEW S, IsFiniteSet(S), NEW s \in SetToSeqs(S)
    PROVE  s \in Seq(S) /\ IsInjective(s) /\ ToSet(s) = S
<1> DEFINE n == Cardinality(S)
<1>1. n \in Nat
  BY FS_CardinalityType
<1>2. s \in [1 .. n -> S] /\ \A i, j \in 1 .. n : i # j => s[i] # s[j]
  BY DEF SetToSeqs
<1>3. Cardinality(1 .. n) = n
  <2> HIDE DEF n
  <2>1. Cardinality(1 .. n) = IF 1 > n THEN 0 ELSE n - 1 + 1
    BY <1>1, FS_Interval
  <2> QED
    BY <1>1, <2>1
<1> HIDE DEF n
<1>4. IsInjective(s)
  BY <1>2 DEF IsInjective
<1>5. s \in Injection(1 .. n, S)
  BY <1>2, <1>4 DEF Injection
<1>6. s \in Surjection(1 .. n, S)
  <2>1. Cardinality(1 .. n) = Cardinality(S)
    BY <1>3 DEF n
  <2> QED
    BY <1>5, <2>1, FS_Injection
<1>7. ToSet(s) = S
  BY <1>2, <1>6 DEF Surjection, ToSet
<1> QED
  BY <1>1, <1>2, <1>4, <1>7

LEMMA DistinctIsArrangement ==
    ASSUME NEW S, NEW s \in Seq(S), IsInjective(s)
    PROVE  s \in SetToSeqs(ToSet(s)) /\ IsFiniteSet(ToSet(s))
<1>1. Len(s) \in Nat /\ DOMAIN s = 1 .. Len(s) /\ s = [i \in 1 .. Len(s) |-> s[i]]
  OBVIOUS
<1>2. s \in [1 .. Len(s) -> ToSet(s)]
  BY <1>1 DEF ToSet
<1>3. IsFiniteSet(1 .. Len(s)) /\ Cardinality(1 .. Len(s)) = Len(s)
  <2>1. Cardinality(1 .. Len(s)) = IF 1 > Len(s) THEN 0 ELSE Len(s) - 1 + 1
    BY <1>1, FS_Interval
  <2>2. Len(s) \in Int /\ 1 \in Int
    BY <1>1
  <2>3. IsFiniteSet(1 .. Len(s))
    BY <2>2, FS_Interval
  <2> QED
    BY <1>1, <2>1, <2>3
<1>4. s \in Injection(1 .. Len(s), ToSet(s)) /\ s \in Surjection(1 .. Len(s), ToSet(s))
  BY <1>1, <1>2 DEF Injection, Surjection, ToSet
<1>5. ExistsBijection(1 .. Len(s), ToSet(s))
  BY <1>4 DEF ExistsBijection, Bijection
<1>6. IsFiniteSet(ToSet(s)) /\ Cardinality(ToSet(s)) = Len(s)
  BY <1>3, <1>5, FS_Bijection
<1>7. \A i, j \in 1 .. Len(s) : i # j => s[i] # s[j]
  BY <1>1 DEF IsInjective
<1> QED
  BY <1>2, <1>6, <1>7 DEF SetToSeqs

----------------------------------------------------------------------------
(* What Parse may return *)

\* A feed is a sequence of links and dates, and its items are its own.
LEMMA FeedTypes ==
    ASSUME NEW u \in Urls
    PROVE  /\ DOMAIN FeedOf[u] \subseteq Nat
           /\ DOMAIN ItemsOf(u) = DOMAIN FeedOf[u]
           /\ \A k \in DOMAIN FeedOf[u] :
                 /\ ItemsOf(u)[k] \in ToSet(ItemsOf(u))
                 /\ ItemsOf(u)[k].url = u
                 /\ ItemsOf(u)[k].link = FeedOf[u][k].link
                 /\ ItemsOf(u)[k].link \in LinksOf(u)
           /\ \A i \in ToSet(ItemsOf(u)) : i.url = u /\ i.link \in LinksOf(u)
           /\ \A link \in LinksOf(u) : \E i \in ToSet(ItemsOf(u)) : i.link = link
<1>1. FeedOf[u] \in Seq([link : LinksOf(u), date : Nat])
  BY FeedsAssumption
<1>2. DOMAIN FeedOf[u] \subseteq Nat
  BY <1>1
<1>3. /\ DOMAIN ItemsOf(u) = DOMAIN FeedOf[u]
      /\ \A k \in DOMAIN FeedOf[u] :
            ItemsOf(u)[k] = [url |-> u, link |-> FeedOf[u][k].link, date |-> FeedOf[u][k].date]
  BY DEF ItemsOf
<1>4. LinksOf(u) = {FeedOf[u][k].link : k \in DOMAIN FeedOf[u]}
  BY DEF LinksOf, ToSet
<1>5. ToSet(ItemsOf(u)) = {ItemsOf(u)[k] : k \in DOMAIN FeedOf[u]}
  BY <1>3 DEF ToSet
<1>6. \A k \in DOMAIN FeedOf[u] :
         /\ ItemsOf(u)[k] \in ToSet(ItemsOf(u))
         /\ ItemsOf(u)[k].url = u
         /\ ItemsOf(u)[k].link = FeedOf[u][k].link
         /\ ItemsOf(u)[k].link \in LinksOf(u)
  <2> TAKE k \in DOMAIN FeedOf[u]
  <2>1. ItemsOf(u)[k] = [url |-> u, link |-> FeedOf[u][k].link, date |-> FeedOf[u][k].date]
    BY <1>3
  <2>2. ItemsOf(u)[k] \in ToSet(ItemsOf(u))
    BY <1>5
  <2>3. ItemsOf(u)[k].url = u /\ ItemsOf(u)[k].link = FeedOf[u][k].link
    BY <2>1
  <2>4. FeedOf[u][k].link \in LinksOf(u)
    BY <1>4
  <2> QED
    BY <2>2, <2>3, <2>4
<1>7. \A link \in LinksOf(u) : \E i \in ToSet(ItemsOf(u)) : i.link = link
  <2> SUFFICES ASSUME NEW k \in DOMAIN FeedOf[u]
               PROVE  \E i \in ToSet(ItemsOf(u)) : i.link = FeedOf[u][k].link
    BY <1>4
  <2> QED
    BY <1>6
<1>8. \A i \in ToSet(ItemsOf(u)) : i.url = u /\ i.link \in LinksOf(u)
  BY <1>5, <1>6
<1> QED
  BY <1>2, <1>3, <1>6, <1>7, <1>8

\* A place is a feed's position and an item's.
LEMMA PlaceTypes ==
    ASSUME NEW urls \in Seq(Urls), NEW p \in Places(urls)
    PROVE  /\ p = <<p[1], p[2]>> /\ p[1] \in DOMAIN urls /\ p[2] \in DOMAIN FeedOf[urls[p[1]]]
           /\ p[1] \in Nat /\ p[2] \in Nat
           /\ urls[p[1]] \in Urls /\ urls[p[1]] \in ToSet(urls)
           /\ ItemAt(urls, p) \in ToSet(ItemsOf(urls[p[1]]))
           /\ ItemAt(urls, p).url = urls[p[1]]
<1>1. PICK n \in DOMAIN urls : p \in {n} \X DOMAIN FeedOf[urls[n]]
  BY DEF Places
<1>2. p = <<p[1], p[2]>> /\ p[1] = n /\ p[2] \in DOMAIN FeedOf[urls[n]]
  BY <1>1
<1>3. n \in Nat /\ urls[n] \in Urls /\ urls[n] \in ToSet(urls)
  BY DEF ToSet
<1> QED
  BY <1>2, <1>3, FeedTypes DEF ItemAt

\* Each link is first somewhere.
LEMMA LinkHasFirst ==
    ASSUME NEW urls \in Seq(Urls), NEW p \in Places(urls)
    PROVE  \E q \in FirstOfLink(urls) : ItemAt(urls, q).link = ItemAt(urls, p).link
<1> DEFINE link == ItemAt(urls, p).link
           P == {q \in Places(urls) : ItemAt(urls, q).link = link}
           N == {q[1] : q \in P}
<1>1. p \in P /\ N # {} /\ N \subseteq Nat
  BY PlaceTypes
<1>2. PICK n \in N : \A m \in N : n <= m
  <2> HIDE DEF N
  <2> QED
    BY <1>1, SmallestNumber
<1> DEFINE K == {q[2] : q \in {r \in P : r[1] = n}}
<1>3. K # {} /\ K \subseteq Nat
  BY <1>2, PlaceTypes
<1>4. PICK k \in K : \A m \in K : k <= m
  <2> HIDE DEF K
  <2> QED
    BY <1>3, SmallestNumber
<1>5. PICK q \in P : q[1] = n /\ q[2] = k
  BY <1>4
<1>6. ASSUME NEW r \in Places(urls), Precedes(r, q) PROVE ItemAt(urls, r).link # link
  <2>1. SUFFICES ASSUME r \in P PROVE FALSE
    OBVIOUS
  <2>2. r[1] \in N /\ r[1] \in Nat /\ r[2] \in Nat /\ n \in Nat /\ k \in Nat
    BY <1>1, <1>2, <1>3, <1>4, <2>1, PlaceTypes
  <2>3. n <= r[1]
    BY <1>2, <2>2
  <2>4. r[1] = n /\ r[2] < k
    BY <1>5, <1>6, <2>2, <2>3 DEF Precedes
  <2>5. r[2] \in K
    BY <2>1, <2>4
  <2>6. k <= r[2]
    <3> HIDE DEF K
    <3> QED
      BY <1>4, <2>5
  <2> QED
    BY <2>2, <2>4, <2>6
<1>7. q \in FirstOfLink(urls)
  BY <1>5, <1>6 DEF FirstOfLink
<1> QED
  BY <1>5, <1>7

\* Whatever Parse returns are items of the URLs; a URL that did not fail has all of
\* its items there, save those whose link another item has.
LEMMA OutcomeFacts ==
    ASSUME NEW urls \in Seq(Urls), NEW o \in ParseOutcomes(urls)
    PROVE  /\ o.errors \subseteq ToSet(urls)
           /\ \A i \in o.items : i.url \in ToSet(urls) /\ i \in ToSet(ItemsOf(i.url))
           /\ \A u \in ToSet(urls) \ o.errors : \A i \in ToSet(ItemsOf(u)) :
                 \/ i \in o.items
                 \/ i.link # NoLink /\ \E h \in o.items : h.link = i.link
<1>1. PICK order \in SetToAllKPermutations(DOMAIN urls) : o = Outcome(urls, order)
  BY DEF ParseOutcomes
<1>2. DOMAIN urls = 1 .. Len(urls) /\ Len(urls) \in Nat
  BY ElementsAreIn
<1>3. order \in Seq(DOMAIN urls)
  BY <1>1, <1>2, Arrangement
<1> DEFINE came == [n \in DOMAIN order |-> urls[order[n]]]
<1>4. came \in Seq(Urls) /\ DOMAIN came = DOMAIN order /\ ToSet(came) \subseteq ToSet(urls)
  <2>1. DOMAIN order = 1 .. Len(order) /\ Len(order) \in Nat
    BY <1>3, ElementsAreIn
  <2>2. \A n \in DOMAIN order : order[n] \in DOMAIN urls /\ urls[order[n]] \in Urls
    BY <1>2, <1>3
  <2> QED
    BY <2>1, <2>2 DEF ToSet
<1>5. /\ o.items = {ItemAt(came, p) : p \in FirstOfLink(came)}
      /\ o.errors = {urls[i] : i \in DOMAIN urls \ ToSet(order)}
  BY <1>1 DEF Outcome
<1>6. \A u \in ToSet(urls) \ o.errors : \E n \in DOMAIN came : came[n] = u
  <2> SUFFICES ASSUME NEW i \in DOMAIN urls, urls[i] \notin o.errors
               PROVE  \E n \in DOMAIN came : came[n] = urls[i]
    BY DEF ToSet
  <2>1. i \in ToSet(order)
    BY <1>5
  <2> QED
    BY <2>1 DEF ToSet
<1>7. FirstOfLink(came) \subseteq Places(came)
  BY DEF FirstOfLink
<1> HIDE DEF came
<1>8. o.errors \subseteq ToSet(urls)
  BY <1>5 DEF ToSet
<1>9. ASSUME NEW i \in o.items PROVE i.url \in ToSet(urls) /\ i \in ToSet(ItemsOf(i.url))
  <2>1. PICK p \in Places(came) : i = ItemAt(came, p)
    BY <1>5, <1>7
  <2> QED
    BY <1>4, <2>1, PlaceTypes
<1>10. ASSUME NEW u \in ToSet(urls) \ o.errors, NEW i \in ToSet(ItemsOf(u))
       PROVE  i \in o.items \/ (i.link # NoLink /\ \E h \in o.items : h.link = i.link)
  <2>1. PICK n \in DOMAIN came : came[n] = u
    BY <1>6
  <2>2. PICK k \in DOMAIN FeedOf[u] : i = ItemsOf(u)[k]
    <3>1. u \in Urls
      BY ElementsAreIn
    <3> QED
      BY <3>1, FeedTypes DEF ToSet
  <2>3. <<n, k>> \in Places(came) /\ ItemAt(came, <<n, k>>) = i
    BY <2>1, <2>2 DEF Places, ItemAt
  <2>4. CASE i.link = NoLink
    BY <1>5, <2>3, <2>4 DEF FirstOfLink
  <2>5. CASE i.link # NoLink
    <3>1. PICK q \in FirstOfLink(came) : ItemAt(came, q).link = i.link
      BY <1>4, <2>3, LinkHasFirst
    <3> QED
      BY <1>5, <2>5, <3>1
  <2> QED
    BY <2>4, <2>5
<1> QED
  BY <1>8, <1>9, <1>10
=============================================================================
