-------------------------- MODULE DashboardProofs --------------------------
(***************************************************************************)
(* Theorems about Dashboard, for any feeds, items, requests and losses of    *)
(* the connection: why the row of a request that was broadcast can go on     *)
(* saying pending, why what the user was told of can be missing, and that    *)
(* the page lists its items as it would after a reload. What FeedList's Sort *)
(* does with dates that can be compared is proved on the way.                *)
(***************************************************************************)
EXTENDS Dashboard, FiniteSetTheorems, WellFoundedInduction, TLAPS

----------------------------------------------------------------------------
(* The inductive invariant behind StuckRowHasReason, MissingHasReason and       *)
(* LiveMatchesReload.                                                           *)

\* A row that is shown has its request, and so has a broadcast.
RowsAreCreated ==
    \A r \in Requests : rows[r] # "none" \/ Told(r) => Created(r)

\* Until the answer to a submission comes, its request has no row; a broadcast of it is
\* on its way, was missed, or was early.
AnswerComesFirst ==
    /\ post.step = "sent" => post.urls # {}
    /\ post.step = "served" =>
          /\ Created(post.id)
          /\ rows[post.id] = "none"
          /\ Told(post.id) => OnWire(post.id) \/ post.id \in missed \union early

RowsAreExplained ==
    /\ RowsAreCreated
    /\ AnswerComesFirst
    /\ StuckRowHasReason

\* Rails shows what it told of.
TellsAreVisible == \A t \in told : {t[1]} \X t[2].feeds \subseteq visible

\* A broadcast brings all the links of its feeds.
MessagesBringItems ==
    \A k \in DOMAIN wire : \A f \in wire[k].feeds :
        /\ wire[k].status = "done"
        /\ LinksOf(ItemsOf[f]) \subseteq LinksOf(wire[k].items)

Brings(k, r, f) == wire[k].id = r /\ f \in wire[k].feeds

\* Nothing that replaces the items of the page will take f away from it.
StaysOnPage(r, f) ==
    /\ LinksOf(ItemsOf[f]) \subseteq LinksOf(feedItems)
    /\ \A l \in Loads : load[l].step = "served" => <<r, f>> \in load[l].read

\* What the user was told of stays on the page, comes with a message, or has a reason
\* not to come.
TellsArrive ==
    \A t \in told : \A f \in t[2].feeds :
        \/ t[1] \in missed
        \/ <<t[1], f>> \in raced
        \/ \E k \in DOMAIN wire : Brings(k, t[1], f)
        \/ StaysOnPage(t[1], f)

ItemsAreExplained ==
    /\ TellsAreVisible
    /\ MessagesBringItems
    /\ TellsArrive

\* The feeds with items to see.
Shown == {p[2] : p \in visible}

\* Each of the items is one of these feeds', as a load or a broadcast has it, and a link
\* that is there twice is the link of two of their items.
ComeFrom(items, feeds) ==
    /\ \A k \in DOMAIN items : \E c \in Cells(feeds) : items[k] \in {ItemAt(c), Sent(ItemAt(c))}
    /\ \A j, k \in DOMAIN items : j # k /\ items[j].link = items[k].link =>
           \E c, d \in Cells(feeds) :
               c # d /\ ItemAt(c).link = items[k].link /\ ItemAt(d).link = items[k].link

\* Whatever is on the page or on its way there is what a reload would find, too.
ItemsAreShown ==
    /\ \A l \in Loads : load[l].read \subseteq visible
    /\ ComeFrom(feedItems, Shown)
    /\ \A k \in DOMAIN wire : ComeFrom(wire[k].items, Shown)

InductiveInv ==
    /\ TypeOK
    /\ RowsAreExplained
    /\ ItemsAreExplained
    /\ ItemsAreShown

----------------------------------------------------------------------------
(* Items *)

\* Feeds hold items, finitely many together.
LEMMA CellFacts ==
    ASSUME NEW feeds, feeds \subseteq Feeds
    PROVE  /\ IsFiniteSet(Cells(feeds))
           /\ \A c \in Cells(feeds) :
                 /\ c[1] \in feeds
                 /\ ItemAt(c).link \in LinksOf(ItemsOf[c[1]])
                 /\ ItemAt(c) \in [link : LinksOf(ItemsOf[c[1]]), date : Nat]
           /\ \A f \in feeds : \A link \in LinksOf(ItemsOf[f]) :
                 \E c \in Cells(feeds) : ItemAt(c).link = link
<1> DEFINE Places == [f \in feeds |-> {f} \X DOMAIN ItemsOf[f]]
<1>1. \A f \in feeds : ItemsOf[f] \in Seq([link : LinksOf(ItemsOf[f]), date : Nat])
  BY ItemsAssumption
<1>2. IsFiniteSet(Cells(feeds))
  <2>1. IsFiniteSet(feeds)
    BY ItemsAssumption, FS_Subset
  <2> DEFINE R == {Places[f] : f \in feeds}
  <2>2. Places \in Surjection(feeds, R)
    BY DEF Surjection
  <2>3. IsFiniteSet(R)
    <3> HIDE DEF Places, R
    <3> QED
      BY <2>1, <2>2, FS_Surjection
  <2>4. ASSUME NEW f \in feeds PROVE IsFiniteSet({f} \X DOMAIN ItemsOf[f])
    <3>1. DOMAIN ItemsOf[f] = 1 .. Len(ItemsOf[f]) /\ Len(ItemsOf[f]) \in Int /\ 1 \in Int
      BY <1>1
    <3>2. IsFiniteSet(DOMAIN ItemsOf[f])
      BY <3>1, FS_Interval
    <3>3. IsFiniteSet({f})
      BY FS_Singleton
    <3> QED
      BY <3>2, <3>3, FS_Product
  <2>5. \A P \in R : IsFiniteSet(P)
    BY <2>4
  <2>6. Cells(feeds) = UNION R
    BY DEF Cells
  <2> QED
    <3> HIDE DEF R
    <3> QED
      BY <2>3, <2>5, <2>6, FS_UNION
<1>3. ASSUME NEW c \in Cells(feeds)
      PROVE  /\ c[1] \in feeds
             /\ ItemAt(c).link \in LinksOf(ItemsOf[c[1]])
             /\ ItemAt(c) \in [link : LinksOf(ItemsOf[c[1]]), date : Nat]
  <2>1. PICK f \in feeds : c \in {f} \X DOMAIN ItemsOf[f]
    BY DEF Cells
  <2>2. c[1] = f /\ c[2] \in DOMAIN ItemsOf[f]
    BY <2>1
  <2>3. ItemAt(c) \in [link : LinksOf(ItemsOf[f]), date : Nat]
    <3> DEFINE items == ItemsOf[f]
               S == [link : LinksOf(items), date : Nat]
    <3>1. items \in Seq(S)
      BY <1>1
    <3>2. c[2] \in DOMAIN items /\ ItemAt(c) = items[c[2]]
      BY <2>2 DEF ItemAt
    <3> HIDE DEF S, items
    <3>3. ItemAt(c) \in S
      BY <3>1, <3>2
    <3> QED
      BY <3>3 DEF S, items
  <2> QED
    BY <2>2, <2>3
<1>4. ASSUME NEW f \in feeds, NEW link \in LinksOf(ItemsOf[f])
      PROVE  \E c \in Cells(feeds) : ItemAt(c).link = link
  <2>1. PICK k \in DOMAIN ItemsOf[f] : ItemsOf[f][k].link = link
    BY DEF LinksOf, ToSet
  <2>2. <<f, k>> \in Cells(feeds) /\ ItemAt(<<f, k>>).link = link
    BY <2>1 DEF Cells, ItemAt
  <2> QED
    BY <2>2
<1> QED
  BY <1>2, <1>3, <1>4

\* An order of a finite set is a sequence of its elements.
LEMMA OrderFacts ==
    ASSUME NEW S, IsFiniteSet(S), NEW s \in Orders(S)
    PROVE  /\ s \in Seq(S) /\ DOMAIN s = 1 .. Len(s) /\ Len(s) \in Nat
           /\ \A e \in S : \E n \in DOMAIN s : s[n] = e
           /\ \A n \in DOMAIN s : s[n] \in S
<1>1. Cardinality(S) \in Nat
  BY FS_CardinalityType
<1> DEFINE N == Cardinality(S)
<1>2. s \in [1 .. N -> S] /\ \A e \in S : \E n \in 1 .. N : s[n] = e
  BY DEF Orders, Bijection, Surjection, Injection
<1> HIDE DEF N
<1> QED
  BY <1>1, <1>2 DEF N

\* A load shows every link of what it read.
LEMMA AnswersShowAll ==
    ASSUME NEW v, v \subseteq Requests \X Feeds, NEW items \in ItemAnswers(v)
    PROVE  /\ items \in Seq(PageItems)
           /\ \A p \in v : LinksOf(ItemsOf[p[2]]) \subseteq LinksOf(items)
<1> DEFINE feeds == {p[2] : p \in v}
           cells == Cells(feeds)
<1>1. feeds \subseteq Feeds
  OBVIOUS
<1>2. PICK s \in Orders(cells) : items = [n \in DOMAIN s |-> ItemAt(s[n])]
  BY DEF ItemAnswers, AnyOrder
<1> HIDE DEF feeds
<1>3. /\ IsFiniteSet(cells)
      /\ \A c \in cells :
            c[1] \in feeds /\ ItemAt(c) \in [link : LinksOf(ItemsOf[c[1]]), date : Nat]
      /\ \A f \in feeds : \A link \in LinksOf(ItemsOf[f]) : \E c \in cells : ItemAt(c).link = link
  BY <1>1, CellFacts
<1> HIDE DEF cells
<1>4. /\ DOMAIN s = 1 .. Len(s) /\ Len(s) \in Nat
      /\ \A c \in cells : \E n \in DOMAIN s : s[n] = c
      /\ \A n \in DOMAIN s : s[n] \in cells
  BY <1>3, OrderFacts
<1>5. \A c \in cells : ItemAt(c) \in PageItems
  BY <1>1, <1>3 DEF PageItems, Dates
<1>6. items \in Seq(PageItems)
  BY <1>2, <1>4, <1>5
<1>7. ASSUME NEW f \in feeds, NEW link \in LinksOf(ItemsOf[f]) PROVE link \in LinksOf(items)
  <2>1. PICK c \in cells : ItemAt(c).link = link
    BY <1>3, <1>7
  <2>2. PICK n \in DOMAIN s : s[n] = c
    BY <1>4
  <2>3. n \in DOMAIN items /\ items[n].link = link
    BY <1>2, <2>1, <2>2
  <2> QED
    BY <2>3 DEF LinksOf, ToSet
<1>8. \A p \in v : p[2] \in feeds
  BY DEF feeds
<1> QED
  BY <1>6, <1>7, <1>8

\* So does a result of its feeds.
LEMMA ResultsBringAll ==
    ASSUME NEW feeds, feeds \subseteq Feeds, NEW items \in SentItems(feeds)
    PROVE  /\ items \in Seq(PageItems)
           /\ \A f \in feeds : LinksOf(ItemsOf[f]) \subseteq LinksOf(items)
<1>1. PICK K \in Listed(feeds) :
          \E s \in Orders(K) : items = [n \in DOMAIN s |-> Sent(ItemAt(s[n]))]
  BY DEF SentItems
<1>2. PICK s \in Orders(K) : items = [n \in DOMAIN s |-> Sent(ItemAt(s[n]))]
  BY <1>1
<1>3. /\ IsFiniteSet(Cells(feeds))
      /\ \A c \in Cells(feeds) :
            c[1] \in feeds /\ ItemAt(c) \in [link : LinksOf(ItemsOf[c[1]]), date : Nat]
      /\ \A f \in feeds : \A link \in LinksOf(ItemsOf[f]) :
            \E c \in Cells(feeds) : ItemAt(c).link = link
  BY CellFacts
<1>4. /\ K \subseteq Cells(feeds)
      /\ \A c \in Cells(feeds) : \E d \in K : ItemAt(d).link = ItemAt(c).link
  BY DEF Listed
<1>5. IsFiniteSet(K)
  BY <1>3, <1>4, FS_Subset
<1>6. /\ DOMAIN s = 1 .. Len(s) /\ Len(s) \in Nat
      /\ \A c \in K : \E n \in DOMAIN s : s[n] = c
      /\ \A n \in DOMAIN s : s[n] \in K
  BY <1>5, OrderFacts
<1>7. ASSUME NEW c \in K
      PROVE  Sent(ItemAt(c)) \in PageItems /\ Sent(ItemAt(c)).link = ItemAt(c).link
  <2>1. c[1] \in Feeds /\ ItemAt(c) \in [link : LinksOf(ItemsOf[c[1]]), date : Nat]
    BY <1>3, <1>4
  <2> QED
    BY <2>1 DEF Sent, PageItems, Dates, ZeroDate
<1>8. items \in Seq(PageItems)
  BY <1>2, <1>6, <1>7
<1>9. ASSUME NEW f \in feeds, NEW link \in LinksOf(ItemsOf[f]) PROVE link \in LinksOf(items)
  <2>1. PICK c \in K : ItemAt(c).link = link
    BY <1>3, <1>4, <1>9
  <2>2. PICK n \in DOMAIN s : s[n] = c
    BY <1>6
  <2>3. n \in DOMAIN items /\ items[n].link = link
    BY <1>2, <1>7, <2>1, <2>2
  <2> QED
    BY <2>3 DEF LinksOf, ToSet
<1> QED
  BY <1>8, <1>9

\* The handler puts the items whose links the page lacks in front, each once: s says
\* which they are.
Merges(s, items, merged) ==
    /\ Len(s) \in Nat /\ DOMAIN s = 1 .. Len(s)
    /\ \A n \in DOMAIN s : s[n] \in DOMAIN items /\ items[s[n]].link \notin LinksOf(feedItems)
    /\ \A k \in DOMAIN items :
          items[k].link \in LinksOf(feedItems) \/ \E n \in DOMAIN s : s[n] = k
    /\ \A j, k \in DOMAIN s : s[j] = s[k] => j = k
    /\ DOMAIN merged = 1 .. Len(s) + Len(feedItems)
    /\ \A n \in DOMAIN s : merged[n] = items[s[n]]
    /\ \A n \in 1 .. Len(feedItems) : merged[Len(s) + n] = feedItems[n]

LEMMA MergeParts ==
    ASSUME feedItems \in Seq(PageItems), NEW items \in Seq(PageItems), NEW merged \in Merge(items)
    PROVE  merged \in Seq(PageItems) /\ \E s : Merges(s, items, merged)
<1> DEFINE new == {k \in DOMAIN items : items[k].link \notin LinksOf(feedItems)}
<1>1. PICK s \in Orders(new) : merged = [n \in DOMAIN s |-> items[s[n]]] \o feedItems
  BY DEF Merge, NewItems
<1>2. IsFiniteSet(new)
  <2>1. DOMAIN items = 1 .. Len(items) /\ Len(items) \in Int /\ 1 \in Int
    OBVIOUS
  <2>2. IsFiniteSet(1 .. Len(items))
    BY <2>1, FS_Interval
  <2>3. new \subseteq 1 .. Len(items)
    BY <2>1
  <2> HIDE DEF new
  <2> QED
    BY <2>2, <2>3, FS_Subset
<1>3. \A k \in new : k \in DOMAIN items /\ items[k].link \notin LinksOf(feedItems)
  OBVIOUS
<1>4. \A k \in DOMAIN items : k \notin new => items[k].link \in LinksOf(feedItems)
  OBVIOUS
<1> HIDE DEF new
<1>5. /\ DOMAIN s = 1 .. Len(s) /\ Len(s) \in Nat
      /\ \A k \in new : \E n \in DOMAIN s : s[n] = k
      /\ \A n \in DOMAIN s : s[n] \in new
  BY <1>2, OrderFacts
<1>6. \A j, k \in DOMAIN s : s[j] = s[k] => j = k
  BY DEF Orders, Bijection, Injection, IsInjective
<1> DEFINE kept == [n \in DOMAIN s |-> items[s[n]]]
<1>7. kept \in Seq(PageItems) /\ Len(kept) = Len(s)
  BY <1>3, <1>5
<1>8. \A n \in DOMAIN s : kept[n] = items[s[n]]
  OBVIOUS
<1> HIDE DEF kept
<1>9. /\ merged \in Seq(PageItems)
      /\ DOMAIN merged = 1 .. Len(kept) + Len(feedItems)
      /\ \A n \in 1 .. Len(kept) : merged[n] = kept[n]
      /\ \A n \in 1 .. Len(feedItems) : merged[Len(kept) + n] = feedItems[n]
  BY <1>1, <1>7 DEF kept
<1>10. /\ DOMAIN merged = 1 .. Len(s) + Len(feedItems)
       /\ \A n \in DOMAIN s : merged[n] = items[s[n]]
       /\ \A n \in 1 .. Len(feedItems) : merged[Len(s) + n] = feedItems[n]
  BY <1>5, <1>7, <1>8, <1>9
<1>11. \A n \in DOMAIN s : s[n] \in DOMAIN items /\ items[s[n]].link \notin LinksOf(feedItems)
  BY <1>3, <1>5
<1>12. \A k \in DOMAIN items :
           items[k].link \in LinksOf(feedItems) \/ \E n \in DOMAIN s : s[n] = k
  BY <1>4, <1>5
<1> QED
  BY <1>5, <1>6, <1>9, <1>10, <1>11, <1>12 DEF Merges

\* What of the merged items is new, and what was there.
LEMMA MergedItem ==
    ASSUME feedItems \in Seq(PageItems), NEW s, NEW items, NEW merged, Merges(s, items, merged),
           NEW n \in DOMAIN merged
    PROVE  \/ n \in DOMAIN s
           \/ n - Len(s) \in DOMAIN feedItems /\ merged[n] = feedItems[n - Len(s)]
<1>1. /\ Len(feedItems) \in Nat /\ DOMAIN feedItems = 1 .. Len(feedItems)
      /\ Len(s) \in Nat /\ DOMAIN s = 1 .. Len(s) /\ DOMAIN merged = 1 .. Len(s) + Len(feedItems)
      /\ \A k \in 1 .. Len(feedItems) : merged[Len(s) + k] = feedItems[k]
  BY DEF Merges
<1>2. CASE ~(n <= Len(s))
  <2>1. n - Len(s) \in 1 .. Len(feedItems) /\ Len(s) + (n - Len(s)) = n
    <3>1. n \in 1 .. Len(s) + Len(feedItems)
      BY <1>1
    <3> QED
      BY <1>1, <1>2, <3>1
  <2>2. merged[Len(s) + (n - Len(s))] = feedItems[n - Len(s)]
    BY <1>1, <2>1
  <2> QED
    BY <1>1, <2>1, <2>2
<1>3. CASE n <= Len(s)
  BY <1>1, <1>3
<1> QED
  BY <1>2, <1>3

\* So it adds what the page lacks and takes nothing away.
LEMMA MergeAdds ==
    ASSUME feedItems \in Seq(PageItems), NEW items \in Seq(PageItems), NEW merged \in Merge(items)
    PROVE  /\ merged \in Seq(PageItems)
           /\ LinksOf(merged) = LinksOf(items) \union LinksOf(feedItems)
<1>1. merged \in Seq(PageItems)
  BY MergeParts
<1>2. PICK s : Merges(s, items, merged)
  BY MergeParts
<1>3. /\ Len(s) \in Nat /\ DOMAIN s = 1 .. Len(s)
      /\ \A n \in DOMAIN s : s[n] \in DOMAIN items
      /\ \A k \in DOMAIN items :
            items[k].link \in LinksOf(feedItems) \/ \E n \in DOMAIN s : s[n] = k
      /\ DOMAIN merged = 1 .. Len(s) + Len(feedItems)
      /\ \A n \in DOMAIN s : merged[n] = items[s[n]]
      /\ \A n \in 1 .. Len(feedItems) : merged[Len(s) + n] = feedItems[n]
  BY <1>2 DEF Merges
<1>4. Len(feedItems) \in Nat /\ DOMAIN feedItems = 1 .. Len(feedItems)
  OBVIOUS
<1>5. LinksOf(feedItems) \subseteq LinksOf(merged)
  <2> SUFFICES ASSUME NEW n \in 1 .. Len(feedItems) PROVE feedItems[n].link \in LinksOf(merged)
    BY <1>4 DEF LinksOf, ToSet
  <2>1. Len(s) + n \in DOMAIN merged /\ merged[Len(s) + n] = feedItems[n]
    BY <1>3, <1>4
  <2> QED
    BY <2>1 DEF LinksOf, ToSet
<1>6. LinksOf(items) \subseteq LinksOf(merged)
  <2> SUFFICES ASSUME NEW k \in DOMAIN items PROVE items[k].link \in LinksOf(merged)
    BY DEF LinksOf, ToSet
  <2>1. CASE \E n \in DOMAIN s : s[n] = k
    <3>1. PICK n \in DOMAIN s : s[n] = k
      BY <2>1
    <3>2. n \in DOMAIN merged /\ merged[n] = items[k]
      BY <1>3, <1>4, <3>1
    <3> QED
      BY <3>2 DEF LinksOf, ToSet
  <2>2. CASE items[k].link \in LinksOf(feedItems)
    BY <1>5, <2>2
  <2> QED
    BY <1>3, <2>1, <2>2
<1>7. LinksOf(merged) \subseteq LinksOf(items) \union LinksOf(feedItems)
  <2> SUFFICES ASSUME NEW n \in DOMAIN merged
               PROVE  merged[n].link \in LinksOf(items) \union LinksOf(feedItems)
    BY DEF LinksOf, ToSet
  <2>1. CASE n \in DOMAIN s
    <3>1. s[n] \in DOMAIN items /\ merged[n] = items[s[n]]
      BY <1>3, <2>1
    <3> QED
      BY <3>1 DEF LinksOf, ToSet
  <2>2. CASE n - Len(s) \in DOMAIN feedItems /\ merged[n] = feedItems[n - Len(s)]
    BY <2>2 DEF LinksOf, ToSet
  <2> QED
    BY <1>2, <2>1, <2>2, MergedItem
<1> QED
  BY <1>1, <1>5, <1>6, <1>7
----------------------------------------------------------------------------
(* Numbers *)

\* A set of numbers has a least one.
LEMMA SmallestNumber ==
    ASSUME NEW T, T \subseteq Nat, T # {}
    PROVE  \E n \in T : \A m \in T : n <= m
<1>1. PICK n \in T : \A m \in T : <<m, n>> \notin OpToRel(<, Nat)
  BY NatLessThanWellFounded, WFMin
<1>2. \A m \in T : ~(m < n)
  BY <1>1 DEF OpToRel
<1> QED
  BY <1>2

\* Induction: a set that has 0, and n + 1 whenever it has n, has every number.
LEMMA NumbersByInduction ==
    ASSUME NEW T, 0 \in T, \A n \in Nat : n \in T => n + 1 \in T
    PROVE  Nat \subseteq T
<1> DEFINE U == Nat \ T
<1>1. SUFFICES ASSUME U # {} PROVE FALSE
  OBVIOUS
<1>2. PICK n \in U : \A m \in U : n <= m
  BY <1>1, SmallestNumber
<1>3. n # 0 /\ n - 1 \in Nat /\ n - 1 \notin U
  BY <1>2
<1> QED
  BY <1>3

----------------------------------------------------------------------------
(* Sorting items by dates *)

\* Items as the page has them.
Items(L) == [link : L, date : Int]

\* The dates can be compared.
Comparable(s) == \A k \in DOMAIN s : ~IsInvalid(s[k].date)

\* Later dates are above earlier ones.
Falls(s) == \A j, k \in DOMAIN s : j < k => s[k].date <= s[j].date

\* The a-th of s belongs above the b-th: it is later, or of the same date and first.
Above(s, a, b) == s[b].date < s[a].date \/ (s[b].date = s[a].date /\ a < b)

\* t has the first n of s, once each, where they belong.
Arranges(q, s, n) ==
    /\ q \in [1 .. n -> 1 .. n]
    /\ \A m \in 1 .. n : \E k \in 1 .. n : q[k] = m
    /\ \A j, k \in 1 .. n : j < k => Above(s, q[j], q[k])

Arranged(t, s, n) == \E q : Arranges(q, s, n) /\ t = [k \in 1 .. n |-> s[q[k]]]

LEMMA CompareDates ==
    ASSUME NEW L, NEW a \in Items(L), NEW b \in Items(L),
           ~IsInvalid(a.date), ~IsInvalid(b.date)
    PROVE  Compare(a, b) < 0 <=> b.date < a.date
<1>1. a.date \in Int /\ b.date \in Int
  BY DEF Items
<1> QED
  BY <1>1 DEF Compare, Time

\* Numbers of which none is more than the one before fall throughout.
LEMMA FallsThroughout ==
    ASSUME NEW n \in Nat, NEW d, \A k \in 1 .. n : d[k] \in Int,
           \A k \in 2 .. n : d[k] <= d[k - 1]
    PROVE  \A j, k \in 1 .. n : j < k => d[k] <= d[j]
<1> DEFINE T == {m \in Nat : \A j \in 1 .. n : j + 1 + m \in 1 .. n => d[j + 1 + m] <= d[j]}
<1>1. 0 \in T
  <2> SUFFICES ASSUME NEW j \in 1 .. n, j + 1 + 0 \in 1 .. n PROVE d[j + 1 + 0] <= d[j]
    OBVIOUS
  <2>1. j + 1 \in 2 .. n /\ j + 1 + 0 = j + 1 /\ j + 1 - 1 = j
    OBVIOUS
  <2> QED
    BY <2>1
<1>2. ASSUME NEW m \in Nat, m \in T PROVE m + 1 \in T
  <2> SUFFICES ASSUME NEW j \in 1 .. n, j + 1 + (m + 1) \in 1 .. n
               PROVE  d[j + 1 + (m + 1)] <= d[j]
    OBVIOUS
  <2> DEFINE k == j + 1 + m
  <2>1. k \in 1 .. n /\ k + 1 \in 2 .. n /\ k + 1 - 1 = k /\ j + 1 + (m + 1) = k + 1
    OBVIOUS
  <2>2. d[k] <= d[j]
    BY <1>2, <2>1
  <2> HIDE DEF k
  <2>3. d[k + 1] <= d[k]
    BY <2>1
  <2>4. d[k + 1] \in Int /\ d[k] \in Int /\ d[j] \in Int
    <3>1. k + 1 \in 1 .. n
      BY <2>1
    <3> QED
      BY <2>1, <3>1
  <2> QED
    BY <2>1, <2>2, <2>3, <2>4
<1>3. Nat \subseteq T
  <2> HIDE DEF T
  <2> QED
    BY <1>1, <1>2, NumbersByInduction
<1> QED
  <2> SUFFICES ASSUME NEW j \in 1 .. n, NEW k \in 1 .. n, j < k PROVE d[k] <= d[j]
    OBVIOUS
  <2> DEFINE m == k - j - 1
  <2>1. m \in Nat /\ j + 1 + m = k
    OBVIOUS
  <2>2. m \in T
    BY <1>3, <2>1
  <2> HIDE DEF m
  <2> QED
    BY <2>1, <2>2

\* There is a first run.
LEMMA RunLengthFacts ==
    ASSUME NEW L, NEW s \in Seq(Items(L))
    PROVE  /\ RunLength(s) \in 0 .. Len(s)
           /\ \A k \in 2 .. RunLength(s) : Compare(s[k], s[k - 1]) < 0 <=> Descends(s)
<1> DEFINE Turns(n) == (Compare(s[n + 1], s[n]) < 0) # Descends(s)
           IsRun(n) == /\ \A k \in 2 .. n : (Compare(s[k], s[k - 1]) < 0) = Descends(s)
                       /\ n < Len(s) => n > 0 /\ Turns(n)
           T == {n \in Nat : 0 < n /\ n < Len(s) /\ Turns(n)}
<1>1. Len(s) \in Nat
  OBVIOUS
<1>2. \E n \in 0 .. Len(s) : IsRun(n)
  <2>1. CASE T = {}
    <3>1. ASSUME NEW k \in 2 .. Len(s)
          PROVE  (Compare(s[k], s[k - 1]) < 0) = Descends(s)
      <4>1. k - 1 \in Nat /\ 0 < k - 1 /\ k - 1 < Len(s) /\ k - 1 + 1 = k
        BY <1>1
      <4>2. ~Turns(k - 1)
        BY <2>1, <4>1
      <4> QED
        BY <4>1, <4>2
    <3>2. IsRun(Len(s))
      BY <1>1, <3>1
    <3> QED
      BY <1>1, <3>2
  <2>2. CASE T # {}
    <3>1. PICK n \in T : \A m \in T : n <= m
      <4> HIDE DEF T
      <4>1. T \subseteq Nat
        BY DEF T
      <4> QED
        BY <2>2, <4>1, SmallestNumber
    <3>2. ASSUME NEW k \in 2 .. n
          PROVE  (Compare(s[k], s[k - 1]) < 0) = Descends(s)
      <4>1. k - 1 \in Nat /\ 0 < k - 1 /\ k - 1 < Len(s) /\ k - 1 + 1 = k /\ ~(n <= k - 1)
        BY <1>1
      <4>2. ~Turns(k - 1)
        BY <3>1, <4>1
      <4> QED
        BY <4>1, <4>2
    <3>3. IsRun(n) /\ n \in 0 .. Len(s)
      BY <1>1, <3>2
    <3> QED
      BY <3>3
  <2> QED
    BY <2>1, <2>2
<1>3. RunLength(s) = CHOOSE n \in 0 .. Len(s) : IsRun(n)
  BY DEF RunLength
<1>4. RunLength(s) \in 0 .. Len(s) /\ IsRun(RunLength(s))
  <2> HIDE DEF IsRun
  <2> QED
    BY <1>2, <1>3
<1>5. Descends(s) \in BOOLEAN
  BY DEF Descends
<1> QED
  BY <1>4, <1>5

\* The first run, from its newest.
LEMMA RunFacts ==
    ASSUME NEW L, NEW s \in Seq(Items(L)), Comparable(s)
    PROVE  Arranged(Run(s), s, RunLength(s))
<1> DEFINE r == RunLength(s)
           run == SubSeq(s, 1, r)
           d == [k \in 1 .. r |-> s[k].date]
<1>1. /\ Len(s) \in Nat /\ DOMAIN s = 1 .. Len(s)
      /\ \A k \in 1 .. Len(s) : s[k] \in Items(L)
  OBVIOUS
<1>2. /\ r \in 0 .. Len(s) /\ r \in Nat
      /\ \A k \in 2 .. r : Compare(s[k], s[k - 1]) < 0 <=> Descends(s)
  BY RunLengthFacts
<1> HIDE DEF r
<1>3. Len(run) = r /\ run = [k \in 1 .. r |-> s[k]]
  BY <1>1, <1>2
<1> HIDE DEF run
<1>4. \A k \in 1 .. r : d[k] = s[k].date /\ d[k] \in Int
  BY <1>1, <1>2 DEF Items
<1> HIDE DEF d
<1>5. ASSUME NEW k \in 2 .. r
      PROVE  /\ Descends(s) => d[k - 1] < d[k]
             /\ ~Descends(s) => d[k] <= d[k - 1]
  <2>1. k \in 1 .. r /\ k - 1 \in 1 .. r /\ k \in 1 .. Len(s) /\ k - 1 \in 1 .. Len(s)
    BY <1>1, <1>2
  <2>2. /\ s[k] \in Items(L) /\ ~IsInvalid(s[k].date)
        /\ s[k - 1] \in Items(L) /\ ~IsInvalid(s[k - 1].date)
    BY <1>1, <2>1 DEF Comparable
  <2>3. Compare(s[k], s[k - 1]) < 0 <=> s[k - 1].date < s[k].date
    BY <2>2, CompareDates
  <2> QED
    BY <1>2, <1>4, <2>1, <2>3 DEF Descends
<1>6. CASE ~Descends(s)
  <2> DEFINE q == [k \in 1 .. r |-> k]
  <2>1. \A j, k \in 1 .. r : j < k => d[k] <= d[j]
    BY <1>2, <1>4, <1>5, <1>6, FallsThroughout
  <2>2. Arranges(q, s, r)
    BY <1>4, <2>1 DEF Arranges, Above
  <2>3. Run(s) = [k \in 1 .. r |-> s[q[k]]]
    BY <1>3, <1>6 DEF Run, run, r
  <2> QED
    BY <2>2, <2>3 DEF Arranged, r
<1>7. CASE Descends(s)
  <2> DEFINE q == [k \in 1 .. r |-> r - k + 1]
             e == [k \in 1 .. r |-> k - d[k]]
  <2>1. ASSUME NEW j \in 1 .. r, NEW k \in 1 .. r, j < k PROVE d[j] < d[k]
    <3>1. \A i \in 1 .. r : e[i] \in Int /\ e[i] = i - d[i]
      BY <1>4
    <3>2. ASSUME NEW i \in 2 .. r PROVE e[i] <= e[i - 1]
      <4>1. i \in 1 .. r /\ i - 1 \in 1 .. r /\ d[i - 1] < d[i]
        BY <1>2, <1>5, <1>7
      <4>2. d[i] \in Int /\ d[i - 1] \in Int /\ e[i] = i - d[i] /\ e[i - 1] = i - 1 - d[i - 1]
        BY <1>4, <3>1, <4>1
      <4> QED
        BY <4>1, <4>2
    <3> HIDE DEF e
    <3>3. e[k] <= e[j]
      BY <1>2, <2>1, <3>1, <3>2, FallsThroughout
    <3>4. e[k] = k - d[k] /\ e[j] = j - d[j] /\ d[j] \in Int /\ d[k] \in Int
      BY <1>4, <3>1
    <3> QED
      BY <2>1, <3>3, <3>4
  <2> HIDE DEF e
  <2>2. q \in [1 .. r -> 1 .. r]
    BY <1>2
  <2>3. ASSUME NEW m \in 1 .. r PROVE \E k \in 1 .. r : q[k] = m
    <3>1. r - m + 1 \in 1 .. r /\ r - (r - m + 1) + 1 = m
      BY <1>2
    <3> QED
      BY <3>1
  <2>4. ASSUME NEW j \in 1 .. r, NEW k \in 1 .. r, j < k PROVE Above(s, q[j], q[k])
    <3>1. q[j] \in 1 .. r /\ q[k] \in 1 .. r /\ q[k] < q[j]
      BY <1>2, <2>4
    <3> HIDE DEF q
    <3>2. d[q[k]] < d[q[j]]
      BY <2>1, <3>1
    <3> QED
      BY <1>4, <3>1, <3>2 DEF Above
  <2>5. Run(s) = Reverse(run)
    BY <1>7 DEF Run, run, r
  <2>6. Run(s) = [k \in 1 .. r |-> s[q[k]]]
    <3>1. \A k \in 1 .. r : r - k + 1 \in 1 .. r
      BY <1>2
    <3>2. Reverse(run) = [k \in 1 .. r |-> run[r - k + 1]]
      BY <1>3 DEF Reverse
    <3> QED
      BY <1>3, <2>5, <3>1, <3>2
  <2> QED
    BY <2>2, <2>3, <2>4, <2>6 DEF Arranges, Arranged, r
<1> QED
  BY <1>6, <1>7

\* Binary search halves what is left, with dates that are not earlier on the left of it
\* and the earlier ones on the right.
Searched(x, s, part, n) ==
    /\ part \in [left : 1 .. Len(s) + 1, right : 1 .. Len(s) + 1]
    /\ part.left <= part.right
    /\ part.right - part.left <= Len(s) - n
    /\ \A k \in 1 .. part.left - 1 : x.date <= s[k].date
    /\ \A k \in part.right .. Len(s) : s[k].date < x.date

LEMMA HalveFacts ==
    ASSUME NEW L, NEW s \in Seq(Items(L)), Comparable(s), Falls(s),
           NEW x \in Items(L), ~IsInvalid(x.date),
           NEW n \in Nat, n < Len(s), NEW part, Searched(x, s, part, n)
    PROVE  Searched(x, s, Halve(part, x, s), n + 1)
<1> DEFINE mid == (part.left + part.right) \div 2
           next == Halve(part, x, s)
<1>1. /\ Len(s) \in Nat /\ DOMAIN s = 1 .. Len(s)
      /\ \A k \in 1 .. Len(s) : s[k] \in Items(L)
  OBVIOUS
<1>2. /\ part \in [left : 1 .. Len(s) + 1, right : 1 .. Len(s) + 1]
      /\ part.left \in 1 .. Len(s) + 1 /\ part.right \in 1 .. Len(s) + 1
      /\ part.left <= part.right /\ part.right - part.left <= Len(s) - n
      /\ \A k \in 1 .. part.left - 1 : x.date <= s[k].date
      /\ \A k \in part.right .. Len(s) : s[k].date < x.date
  BY DEF Searched
<1>3. CASE part.left >= part.right
  <2>1. next = part /\ part.right - part.left <= Len(s) - (n + 1)
    BY <1>1, <1>2, <1>3 DEF Halve
  <2> QED
    BY <1>2, <2>1 DEF Searched
<1>4. CASE ~(part.left >= part.right)
  <2>1. mid \in 1 .. Len(s) /\ part.left <= mid /\ mid < part.right
    BY <1>1, <1>2, <1>4
  <2>2. next = IF Compare(x, s[mid]) < 0 THEN [part EXCEPT !.right = mid]
                                         ELSE [part EXCEPT !.left = mid + 1]
    BY <1>4 DEF Halve
  <2> HIDE DEF mid, next
  <2>3. s[mid] \in Items(L) /\ ~IsInvalid(s[mid].date)
    BY <1>1, <2>1 DEF Comparable
  <2>4. Compare(x, s[mid]) < 0 <=> s[mid].date < x.date
    BY <2>3, CompareDates
  <2>5. x.date \in Int /\ \A k \in 1 .. Len(s) : s[k].date \in Int
    BY <1>1 DEF Items
  <2>6. \A j, k \in 1 .. Len(s) : j < k => s[k].date <= s[j].date
    BY <1>1 DEF Falls
  <2>7. CASE s[mid].date < x.date
    <3>1. next = [part EXCEPT !.right = mid]
      BY <2>2, <2>4, <2>7
    <3>2. next.left = part.left /\ next.right = mid
      BY <1>2, <3>1
    <3>3. next \in [left : 1 .. Len(s) + 1, right : 1 .. Len(s) + 1]
      BY <1>1, <1>2, <2>1, <3>1
    <3>4. \A k \in mid .. Len(s) : s[k].date < x.date
      <4> TAKE k \in mid .. Len(s)
      <4>1. k \in 1 .. Len(s) /\ (k = mid \/ mid < k)
        BY <1>1, <2>1
      <4>2. k = mid \/ s[k].date <= s[mid].date
        BY <2>1, <2>6, <4>1
      <4> QED
        BY <2>1, <2>5, <2>7, <4>1, <4>2
    <3>5. next.left <= next.right /\ next.right - next.left <= Len(s) - (n + 1)
      BY <1>1, <1>2, <2>1, <3>2
    <3> QED
      BY <1>2, <3>2, <3>3, <3>4, <3>5 DEF Searched, next
  <2>8. CASE ~(s[mid].date < x.date)
    <3>1. next = [part EXCEPT !.left = mid + 1]
      BY <2>2, <2>4, <2>8
    <3>2. next.left = mid + 1 /\ next.right = part.right
      BY <1>2, <3>1
    <3>3. next \in [left : 1 .. Len(s) + 1, right : 1 .. Len(s) + 1]
      BY <1>1, <1>2, <2>1, <3>1
    <3>4. \A k \in 1 .. mid : x.date <= s[k].date
      <4> TAKE k \in 1 .. mid
      <4>1. k \in 1 .. Len(s) /\ (k = mid \/ k < mid)
        BY <1>1, <2>1
      <4>2. k = mid \/ s[mid].date <= s[k].date
        BY <2>1, <2>6, <4>1
      <4>3. x.date <= s[mid].date
        BY <2>1, <2>3, <2>5, <2>8
      <4> QED
        BY <2>1, <2>5, <4>1, <4>2, <4>3
    <3>5. next.left <= next.right /\ next.right - next.left <= Len(s) - (n + 1)
      BY <1>1, <1>2, <2>1, <3>2
    <3>6. \A k \in 1 .. next.left - 1 : x.date <= s[k].date
      <4>1. next.left - 1 = mid
        BY <2>1, <3>2
      <4> QED
        BY <3>4, <4>1
    <3> QED
      BY <1>2, <3>2, <3>3, <3>5, <3>6 DEF Searched, next
  <2> QED
    BY <2>7, <2>8
<1> QED
  BY <1>3, <1>4

\* The loop of the search can be run.
LEMMA SearchRuns ==
    ASSUME NEW L, NEW s \in Seq(Items(L)), NEW x
    PROVE  \E f : f = [n \in 0 .. Len(s) |->
                          IF n = 0 THEN [left |-> 1, right |-> Len(s) + 1]
                                   ELSE Halve(f[n - 1], x, s)]
<1> DEFINE All == [left |-> 1, right |-> Len(s) + 1]
           Runs(f, m) == f = [n \in 0 .. m |-> IF n = 0 THEN All ELSE Halve(f[n - 1], x, s)]
           T == {m \in Nat : \E f : Runs(f, m)}
<1>1. 0 \in T
  <2> DEFINE f == [n \in 0 .. 0 |-> All]
  <2>1. \A n \in 0 .. 0 : n = 0
    OBVIOUS
  <2>2. Runs(f, 0)
    BY <2>1
  <2> QED
    BY <2>2
<1>2. ASSUME NEW m \in Nat, m \in T PROVE m + 1 \in T
  <2> HIDE DEF All
  <2>1. PICK f : Runs(f, m)
    BY <1>2
  <2> DEFINE g == [n \in 0 .. m + 1 |-> IF n <= m THEN f[n] ELSE Halve(f[m], x, s)]
  <2>2. /\ f[0] = All
        /\ \A n \in 1 .. m : f[n] = Halve(f[n - 1], x, s)
    BY <2>1
  <2>3. /\ g = [n \in 0 .. m + 1 |-> g[n]]
        /\ \A n \in 0 .. m : g[n] = f[n]
        /\ g[m + 1] = Halve(f[m], x, s)
    OBVIOUS
  <2> HIDE DEF g
  <2>4. ASSUME NEW n \in 0 .. m + 1
        PROVE  g[n] = IF n = 0 THEN All ELSE Halve(g[n - 1], x, s)
    <3>1. CASE n = m + 1
      <4>1. n # 0 /\ n - 1 = m /\ m \in 0 .. m
        BY <3>1
      <4> QED
        BY <2>3, <3>1, <4>1
    <3>2. CASE n \in 1 .. m
      <4>1. n # 0 /\ n - 1 \in 0 .. m /\ n \in 0 .. m
        BY <3>2
      <4> QED
        BY <2>2, <2>3, <3>2, <4>1
    <3>3. CASE n = 0
      <4>1. 0 \in 0 .. m
        OBVIOUS
      <4>2. g[0] = f[0]
        BY <2>3, <4>1
      <4> QED
        BY <2>2, <3>3, <4>2
    <3> QED
      BY <3>1, <3>2, <3>3
  <2>5. Runs(g, m + 1)
    BY <2>3, <2>4
  <2> QED
    BY <2>5
<1>3. Nat \subseteq T
  <2> HIDE DEF T
  <2> QED
    BY <1>1, <1>2, NumbersByInduction
<1>4. Len(s) \in T
  BY <1>3
<1> QED
  BY <1>4

\* The place of x is after the dates that are not earlier and before the earlier ones.
LEMMA PlaceFacts ==
    ASSUME NEW L, NEW s \in Seq(Items(L)), Comparable(s), Falls(s),
           NEW x \in Items(L), ~IsInvalid(x.date)
    PROVE  /\ PlaceFor(x, s) \in 1 .. Len(s) + 1
           /\ \A k \in 1 .. PlaceFor(x, s) - 1 : x.date <= s[k].date
           /\ \A k \in PlaceFor(x, s) .. Len(s) : s[k].date < x.date
<1> DEFINE All == [left |-> 1, right |-> Len(s) + 1]
           part == CHOOSE part : part = [n \in 0 .. Len(s) |->
                       IF n = 0 THEN All ELSE Halve(part[n - 1], x, s)]
           T == {n \in Nat : n <= Len(s) => Searched(x, s, part[n], n)}
<1>1. part = [n \in 0 .. Len(s) |-> IF n = 0 THEN All ELSE Halve(part[n - 1], x, s)]
  BY SearchRuns, Zenon
<1>2. PlaceFor(x, s) = part[Len(s)].left
  BY DEF PlaceFor
<1> HIDE DEF part
<1>3. Len(s) \in Nat
  OBVIOUS
<1>4. part[0] = All
  BY <1>1, <1>3
<1>5. ASSUME NEW n \in Nat, n + 1 <= Len(s) PROVE part[n + 1] = Halve(part[n], x, s)
  <2>1. n + 1 \in 0 .. Len(s) /\ n + 1 # 0 /\ n + 1 - 1 = n
    BY <1>3, <1>5
  <2>2. \A k \in 0 .. Len(s) : part[k] = IF k = 0 THEN All ELSE Halve(part[k - 1], x, s)
    BY <1>1, Zenon
  <2> QED
    BY <2>1, <2>2
<1>6. 0 \in T
  <2>1. Searched(x, s, All, 0)
    BY <1>3 DEF Searched
  <2> QED
    BY <1>4, <2>1
<1>7. ASSUME NEW n \in Nat, n \in T PROVE n + 1 \in T
  <2> SUFFICES ASSUME n + 1 <= Len(s) PROVE Searched(x, s, part[n + 1], n + 1)
    OBVIOUS
  <2>1. n < Len(s) /\ Searched(x, s, part[n], n)
    BY <1>3, <1>7
  <2> QED
    BY <1>5, <2>1, HalveFacts
<1>8. Len(s) \in T
  <2> HIDE DEF T
  <2> QED
    BY <1>3, <1>6, <1>7, NumbersByInduction
<1>9. Searched(x, s, part[Len(s)], Len(s))
  BY <1>3, <1>8
<1> DEFINE end == part[Len(s)]
<1>10. /\ end.left \in 1 .. Len(s) + 1 /\ end.right = end.left
       /\ \A k \in 1 .. end.left - 1 : x.date <= s[k].date
       /\ \A k \in end.right .. Len(s) : s[k].date < x.date
  <2> HIDE DEF end
  <2>1. Searched(x, s, end, Len(s))
    BY <1>9 DEF end
  <2> QED
    BY <1>3, <2>1 DEF Searched
<1> QED
  BY <1>2, <1>10

\* s with x at its p-th place, and what follows moved down by one.
With(x, p, s) ==
    [k \in 1 .. Len(s) + 1 |-> IF k < p THEN s[k] ELSE IF k = p THEN x ELSE s[k - 1]]

LEMMA InsertAtFacts ==
    ASSUME NEW S, NEW s \in Seq(S), NEW p \in 1 .. Len(s) + 1, NEW x \in S
    PROVE  InsertAt(s, p, x) = With(x, p, s)
<1> DEFINE t == InsertAt(s, p, x)
           before == SubSeq(s, 1, p - 1)
           after == SubSeq(s, p, Len(s))
<1>1. Len(s) \in Nat /\ p \in Nat
  OBVIOUS
<1>2. /\ before \in Seq(S) /\ Len(before) = p - 1
      /\ \A k \in 1 .. p - 1 : before[k] = s[k]
  BY <1>1
<1>3. /\ after \in Seq(S) /\ Len(after) = Len(s) + 1 - p
      /\ \A k \in 1 .. Len(s) + 1 - p : after[k] = s[p + k - 1]
  BY <1>1
<1>4. t = before \o <<x>> \o after
  BY DEF InsertAt
<1> HIDE DEF before, after, t
<1> DEFINE middle == before \o <<x>>
<1>5. /\ middle \in Seq(S) /\ Len(middle) = p
      /\ \A k \in 1 .. p - 1 : middle[k] = before[k]
      /\ middle[p] = x
  <2>1. Len(<<x>>) = 1 /\ <<x>>[1] = x /\ <<x>> \in Seq(S)
    OBVIOUS
  <2> QED
    BY <1>1, <1>2, <2>1
<1>6. t = middle \o after
  BY <1>4
<1> HIDE DEF middle
<1>7. t \in Seq(S) /\ Len(t) = Len(s) + 1
  <2>1. middle \in Seq(S) /\ after \in Seq(S)
    BY <1>3, <1>5
  <2>2. t \in Seq(S) /\ Len(t) = Len(middle) + Len(after)
    BY <1>6, <2>1
  <2> QED
    BY <1>1, <1>3, <1>5, <2>2
<1>8. /\ \A k \in 1 .. p : t[k] = middle[k]
      /\ \A k \in 1 .. Len(s) + 1 - p : t[p + k] = after[k]
  BY <1>1, <1>3, <1>5, <1>6
<1>9. ASSUME NEW k \in 1 .. Len(s) + 1
      PROVE  t[k] = IF k < p THEN s[k] ELSE IF k = p THEN x ELSE s[k - 1]
  <2>1. CASE k < p
    BY <1>1, <1>2, <1>5, <1>8, <2>1
  <2>2. CASE k = p
    BY <1>1, <1>5, <1>8, <2>2
  <2>3. CASE p < k
    <3>1. k - p \in 1 .. Len(s) + 1 - p /\ p + (k - p) - 1 = k - 1 /\ p + (k - p) = k
      BY <1>1, <2>3
    <3>2. t[p + (k - p)] = after[k - p] /\ after[k - p] = s[p + (k - p) - 1]
      BY <1>3, <1>8, <3>1
    <3>3. t[k] = s[k - 1] /\ ~(k < p) /\ k # p
      BY <1>1, <2>3, <3>1, <3>2
    <3> QED
      BY <3>3
  <2> QED
    BY <1>1, <2>1, <2>2, <2>3
<1>10. t = [k \in 1 .. Len(s) + 1 |-> t[k]]
  BY <1>1, <1>7
<1> QED
  BY <1>9, <1>10 DEF With, t

\* What is arranged is in order.
LEMMA ArrangedFacts ==
    ASSUME NEW L, NEW s \in Seq(Items(L)), Comparable(s), NEW n \in 0 .. Len(s),
           NEW t, Arranged(t, s, n)
    PROVE  t \in Seq(Items(L)) /\ Len(t) = n /\ Comparable(t) /\ Falls(t)
<1>1. PICK q : Arranges(q, s, n) /\ t = [k \in 1 .. n |-> s[q[k]]]
  BY DEF Arranged
<1>2. /\ Len(s) \in Nat /\ n \in Nat /\ DOMAIN s = 1 .. Len(s)
      /\ \A k \in 1 .. Len(s) : s[k] \in Items(L)
  OBVIOUS
<1>3. /\ \A k \in 1 .. n : q[k] \in 1 .. Len(s)
      /\ \A j, k \in 1 .. n : j < k => Above(s, q[j], q[k])
  BY <1>1, <1>2 DEF Arranges
<1>4. \A k \in 1 .. n : t[k] = s[q[k]] /\ t[k] \in Items(L)
  BY <1>1, <1>2, <1>3
<1>5. t \in Seq(Items(L)) /\ Len(t) = n /\ DOMAIN t = 1 .. n
  BY <1>1, <1>2, <1>4
<1>6. Comparable(t)
  BY <1>2, <1>3, <1>4, <1>5 DEF Comparable
<1>7. Falls(t)
  <2>1. \A k \in 1 .. n : t[k].date \in Int
    BY <1>4 DEF Items
  <2> QED
    BY <1>3, <1>4, <1>5, <2>1 DEF Falls, Above
<1> QED
  BY <1>5, <1>6, <1>7

\* Insertion puts the next one where it belongs.
LEMMA InsertFacts ==
    ASSUME NEW L, NEW s \in Seq(Items(L)), Comparable(s), NEW n \in Nat, n < Len(s),
           NEW t, Arranged(t, s, n)
    PROVE  Arranged(Insert(s[n + 1], t), s, n + 1)
<1> DEFINE x == s[n + 1]
           p == PlaceFor(x, t)
<1>1. /\ Len(s) \in Nat /\ DOMAIN s = 1 .. Len(s) /\ n + 1 \in 1 .. Len(s) /\ n \in 0 .. Len(s)
      /\ \A k \in 1 .. Len(s) : s[k] \in Items(L)
  OBVIOUS
<1>2. t \in Seq(Items(L)) /\ Len(t) = n /\ Comparable(t) /\ Falls(t)
  BY <1>1, ArrangedFacts
<1>3. x \in Items(L) /\ ~IsInvalid(x.date)
  BY <1>1 DEF Comparable
<1> HIDE DEF x
<1>4. /\ p \in 1 .. n + 1
      /\ \A k \in 1 .. p - 1 : x.date <= t[k].date
      /\ \A k \in p .. n : t[k].date < x.date
  BY <1>2, <1>3, PlaceFacts
<1>5. Insert(x, t) = InsertAt(t, p, x)
  BY DEF Insert
<1> HIDE DEF p
<1>6. Insert(x, t) = With(x, p, t)
  <2>1. p \in 1 .. Len(t) + 1
    BY <1>2, <1>4
  <2> QED
    BY <1>2, <1>3, <1>5, <2>1, InsertAtFacts
<1>7. PICK q : Arranges(q, s, n) /\ t = [k \in 1 .. n |-> s[q[k]]]
  BY DEF Arranged
<1>8. /\ \A k \in 1 .. n : q[k] \in 1 .. n /\ t[k] = s[q[k]]
      /\ \A m \in 1 .. n : \E k \in 1 .. n : q[k] = m
      /\ \A j, k \in 1 .. n : j < k => Above(s, q[j], q[k])
  BY <1>7 DEF Arranges
<1> DEFINE r == [k \in 1 .. n + 1 |->
                    IF k < p THEN q[k] ELSE IF k = p THEN n + 1 ELSE q[k - 1]]
<1>9. /\ r = [k \in 1 .. n + 1 |-> r[k]]
      /\ \A k \in 1 .. n + 1 : k < p => r[k] = q[k] /\ k \in 1 .. n
      /\ r[p] = n + 1
      /\ \A k \in 1 .. n + 1 : p < k => r[k] = q[k - 1] /\ k - 1 \in 1 .. n
  BY <1>4
<1> HIDE DEF r
<1>10. \A k \in 1 .. n + 1 : k < p \/ k = p \/ p < k
  BY <1>4
<1>11. r \in [1 .. n + 1 -> 1 .. n + 1]
  <2>1. ASSUME NEW k \in 1 .. n + 1 PROVE r[k] \in 1 .. n + 1
    <3>1. 1 .. n \subseteq 1 .. n + 1 /\ n + 1 \in 1 .. n + 1
      OBVIOUS
    <3>2. CASE k < p
      BY <1>8, <1>9, <3>1, <3>2
    <3>3. CASE k = p
      BY <1>9, <3>1, <3>3
    <3>4. CASE p < k
      BY <1>8, <1>9, <3>1, <3>4
    <3> QED
      BY <1>10, <3>2, <3>3, <3>4
  <2> QED
    BY <1>9, <2>1
<1>12. ASSUME NEW m \in 1 .. n + 1 PROVE \E k \in 1 .. n + 1 : r[k] = m
  <2>1. CASE m = n + 1
    BY <1>4, <1>9, <2>1
  <2>2. CASE m \in 1 .. n
    <3>1. PICK k \in 1 .. n : q[k] = m
      BY <1>8, <2>2
    <3>2. CASE k < p
      <4>1. k \in 1 .. n + 1
        OBVIOUS
      <4> QED
        BY <1>9, <3>1, <3>2, <4>1
    <3>3. CASE ~(k < p)
      <4>1. k + 1 \in 1 .. n + 1 /\ p < k + 1 /\ k + 1 - 1 = k
        BY <1>4, <3>3
      <4> QED
        BY <1>9, <3>1, <4>1
    <3> QED
      BY <3>2, <3>3
  <2> QED
    BY <2>1, <2>2
<1>13. ASSUME NEW j \in 1 .. n + 1, NEW k \in 1 .. n + 1, j < k PROVE Above(s, r[j], r[k])
  <2>1. CASE k < p
    <3>1. j < p
      BY <1>4, <1>13, <2>1
    <3> QED
      BY <1>8, <1>9, <1>13, <2>1, <3>1
  <2>2. CASE k = p
    <3>1. j < p /\ j \in 1 .. p - 1 /\ j \in 1 .. n
      BY <1>4, <1>13, <2>2
    <3>2. x.date <= s[q[j]].date /\ q[j] \in 1 .. n
      BY <1>4, <1>8, <3>1
    <3>3. r[j] = q[j] /\ r[k] = n + 1
      BY <1>9, <2>2, <3>1
    <3>4. x.date \in Int /\ s[q[j]].date \in Int
      <4>1. s[q[j]] \in Items(L)
        BY <1>1, <3>2
      <4> QED
        BY <1>3, <4>1 DEF Items
    <3>5. q[j] < n + 1
      BY <3>2
    <3> QED
      BY <3>2, <3>3, <3>4, <3>5 DEF Above, x
  <2>3. CASE p < k
    <3>1. r[k] = q[k - 1] /\ k - 1 \in 1 .. n
      BY <1>9, <2>3
    <3>2. CASE j < p
      <4>1. r[j] = q[j] /\ j \in 1 .. n /\ j < k - 1
        BY <1>4, <1>9, <2>3, <3>2
      <4> QED
        BY <1>8, <3>1, <4>1
    <3>3. CASE j = p
      <4>1. k - 1 \in p .. n
        BY <1>4, <2>3, <3>1
      <4>2. s[q[k - 1]].date < x.date
        BY <1>4, <1>8, <3>1, <4>1
      <4> QED
        BY <1>9, <3>1, <3>3, <4>2 DEF Above, x
    <3>4. CASE p < j
      <4>1. r[j] = q[j - 1] /\ j - 1 \in 1 .. n /\ j - 1 < k - 1
        BY <1>9, <1>13, <3>4
      <4> QED
        BY <1>8, <3>1, <4>1
    <3> QED
      BY <1>10, <3>2, <3>3, <3>4
  <2> QED
    BY <1>10, <2>1, <2>2, <2>3
<1>14. Arranges(r, s, n + 1)
  BY <1>11, <1>12, <1>13 DEF Arranges
<1>15. Insert(x, t) = [k \in 1 .. n + 1 |-> s[r[k]]]
  <2>1. ASSUME NEW k \in 1 .. n + 1
        PROVE  s[r[k]] = IF k < p THEN t[k] ELSE IF k = p THEN x ELSE t[k - 1]
    <3>1. CASE k < p
      BY <1>8, <1>9, <3>1
    <3>2. CASE k = p
      BY <1>9, <3>2 DEF x
    <3>3. CASE p < k
      <4>1. ~(k < p) /\ k # p
        BY <1>4, <3>3
      <4> QED
        BY <1>8, <1>9, <3>3, <4>1
    <3> QED
      BY <1>10, <3>1, <3>2, <3>3
  <2> QED
    BY <1>2, <1>6, <2>1 DEF With
<1> QED
  BY <1>14, <1>15 DEF Arranged, x

\* What is inserted so far: the run, then one more with every turn.
LEMMA SortRuns ==
    ASSUME NEW L, NEW s \in Seq(Items(L))
    PROVE  \E f : f = [n \in 0 .. Len(s) |->
                          IF n <= RunLength(s) THEN Run(s) ELSE Insert(s[n], f[n - 1])]
<1> DEFINE Runs(f, m) ==
               f = [n \in 0 .. m |-> IF n <= RunLength(s) THEN Run(s) ELSE Insert(s[n], f[n - 1])]
           T == {m \in Nat : \E f : Runs(f, m)}
<1>r. RunLength(s) \in Nat
  BY RunLengthFacts
<1>1. 0 \in T
  <2> DEFINE f == [n \in 0 .. 0 |-> Run(s)]
  <2>1. \A n \in 0 .. 0 : n <= RunLength(s)
    BY <1>r
  <2>2. Runs(f, 0)
    BY <2>1
  <2> QED
    BY <2>2
<1>2. ASSUME NEW m \in Nat, m \in T PROVE m + 1 \in T
  <2>1. PICK f : Runs(f, m)
    BY <1>2
  <2> DEFINE last == IF m + 1 <= RunLength(s) THEN Run(s) ELSE Insert(s[m + 1], f[m])
             g == [n \in 0 .. m + 1 |-> IF n <= m THEN f[n] ELSE last]
  <2>2. \A n \in 0 .. m : f[n] = IF n <= RunLength(s) THEN Run(s) ELSE Insert(s[n], f[n - 1])
    BY <2>1
  <2> HIDE DEF last
  <2>3. /\ g = [n \in 0 .. m + 1 |-> g[n]]
        /\ \A n \in 0 .. m : g[n] = f[n]
        /\ g[m + 1] = last
    OBVIOUS
  <2> HIDE DEF g
  <2>4. ASSUME NEW n \in 0 .. m + 1
        PROVE  g[n] = IF n <= RunLength(s) THEN Run(s) ELSE Insert(s[n], g[n - 1])
    <3>1. CASE n = m + 1
      <4>1. n - 1 = m /\ m \in 0 .. m
        BY <3>1
      <4> QED
        BY <2>3, <3>1, <4>1 DEF last
    <3>2. CASE n # m + 1
      <4>1. n \in 0 .. m
        BY <3>2
      <4>2. CASE n <= RunLength(s)
        BY <2>2, <2>3, <4>1, <4>2
      <4>3. CASE ~(n <= RunLength(s))
        <5>1. n - 1 \in 0 .. m
          BY <1>r, <4>1, <4>3
        <5> QED
          BY <2>2, <2>3, <4>1, <4>3, <5>1
      <4> QED
        BY <4>2, <4>3
    <3> QED
      BY <3>1, <3>2
  <2>5. Runs(g, m + 1)
    BY <2>3, <2>4
  <2> QED
    BY <2>5
<1>3. Nat \subseteq T
  <2> HIDE DEF T
  <2> QED
    BY <1>1, <1>2, NumbersByInduction
<1>4. Len(s) \in T
  BY <1>3
<1> QED
  BY <1>4

\* Items whose dates can be compared are sorted by them, each once, and those of one date
\* keep the order they came in: the sort that the language promises (FeedList.jsx).
THEOREM SortIsStable ==
    ASSUME NEW L, NEW s \in Seq(Items(L)), Comparable(s)
    PROVE  Arranged(Sort(s), s, Len(s))
<1> DEFINE r == RunLength(s)
           sorted == CHOOSE sorted : sorted = [n \in 0 .. Len(s) |->
                         IF n <= r THEN Run(s) ELSE Insert(s[n], sorted[n - 1])]
           T == {n \in Nat : n <= Len(s) - r => Arranged(sorted[r + n], s, r + n)}
<1>1. sorted = [n \in 0 .. Len(s) |-> IF n <= r THEN Run(s) ELSE Insert(s[n], sorted[n - 1])]
  BY SortRuns, Zenon
<1>2. Sort(s) = sorted[Len(s)]
  BY DEF Sort
<1> HIDE DEF sorted
<1>3. Len(s) \in Nat /\ r \in 0 .. Len(s)
  BY RunLengthFacts
<1>4. \A k \in 0 .. Len(s) : sorted[k] = IF k <= r THEN Run(s) ELSE Insert(s[k], sorted[k - 1])
  BY <1>1, Zenon
<1>5. 0 \in T
  <2>1. Arranged(Run(s), s, r)
    BY RunFacts
  <2>2. sorted[r + 0] = Run(s) /\ r + 0 = r
    BY <1>3, <1>4
  <2> QED
    BY <2>1, <2>2
<1>6. ASSUME NEW n \in Nat, n \in T PROVE n + 1 \in T
  <2> SUFFICES ASSUME n + 1 <= Len(s) - r
               PROVE  Arranged(sorted[r + (n + 1)], s, r + (n + 1))
    OBVIOUS
  <2> DEFINE m == r + n
  <2>1. /\ m \in Nat /\ m < Len(s) /\ m + 1 \in 0 .. Len(s) /\ ~(m + 1 <= r)
        /\ r + (n + 1) = m + 1 /\ m + 1 - 1 = m
    BY <1>3
  <2>2. Arranged(sorted[m], s, m)
    <3>1. n <= Len(s) - r
      BY <1>3
    <3> QED
      BY <1>6, <3>1
  <2> HIDE DEF m
  <2>3. sorted[m + 1] = Insert(s[m + 1], sorted[m])
    BY <1>4, <2>1
  <2>4. Arranged(Insert(s[m + 1], sorted[m]), s, m + 1)
    BY <2>1, <2>2, InsertFacts
  <2> QED
    BY <2>1, <2>3, <2>4
<1>7. Len(s) - r \in T
  <2> HIDE DEF T
  <2>1. Nat \subseteq T
    BY <1>5, <1>6, NumbersByInduction
  <2> QED
    BY <1>3, <2>1
<1> QED
  <2>1. r + (Len(s) - r) = Len(s) /\ Len(s) - r <= Len(s) - r
    BY <1>3
  <2>2. Len(s) - r <= Len(s) - r => Arranged(sorted[r + (Len(s) - r)], s, r + (Len(s) - r))
    BY <1>7
  <2> QED
    BY <1>2, <2>1, <2>2

\* No two of s have one date.
Dated(s) == Comparable(s) /\ \A j, k \in DOMAIN s : j # k => s[j].date # s[k].date

\* The latest date is at the top, the others follow.
NewestAtTop(s) == \A j, k \in DOMAIN s : j < k => s[j].date > s[k].date

\* Sorting rearranges items of distinct dates, the newest at the top.
LEMMA SortFacts ==
    ASSUME NEW L, NEW s \in Seq(Items(L)), Dated(s)
    PROVE  /\ Sort(s) \in Seq(Items(L))
           /\ NewestAtTop(Sort(s))
           /\ ToSet(Sort(s)) = ToSet(s)
<1> DEFINE t == Sort(s)
           n == Len(s)
<1>1. /\ n \in Nat /\ n \in 0 .. n /\ DOMAIN s = 1 .. n
      /\ \A k \in 1 .. n : s[k] \in Items(L)
  OBVIOUS
<1>2. Comparable(s)
  BY DEF Dated
<1>3. Arranged(t, s, n)
  BY <1>2, SortIsStable
<1> HIDE DEF t, n
<1>4. t \in Seq(Items(L)) /\ Len(t) = n /\ DOMAIN t = 1 .. n
  <2>1. t \in Seq(Items(L)) /\ Len(t) = n
    BY <1>1, <1>2, <1>3, ArrangedFacts DEF n
  <2> QED
    BY <2>1
<1>5. PICK q : Arranges(q, s, n) /\ t = [k \in 1 .. n |-> s[q[k]]]
  BY <1>3 DEF Arranged
<1>6. /\ \A k \in 1 .. n : q[k] \in 1 .. n /\ t[k] = s[q[k]]
      /\ \A m \in 1 .. n : \E k \in 1 .. n : q[k] = m
      /\ \A j, k \in 1 .. n : j < k => Above(s, q[j], q[k])
  BY <1>5 DEF Arranges
<1>7. NewestAtTop(t)
  <2> SUFFICES ASSUME NEW j \in 1 .. n, NEW k \in 1 .. n, j < k PROVE t[j].date > t[k].date
    BY <1>4 DEF NewestAtTop
  <2>1. Above(s, q[j], q[k]) /\ q[j] \in 1 .. n /\ q[k] \in 1 .. n
    BY <1>6
  <2>2. q[j] < q[k] => s[q[j]].date # s[q[k]].date
    BY <1>1, <2>1 DEF Dated
  <2> QED
    BY <1>6, <2>1, <2>2 DEF Above
<1>8. ToSet(t) = {t[k] : k \in 1 .. n} /\ ToSet(s) = {s[k] : k \in 1 .. n}
  BY <1>1, <1>4 DEF ToSet
<1>9. {t[k] : k \in 1 .. n} = {s[k] : k \in 1 .. n}
  <2>1. \A k \in 1 .. n : \E m \in 1 .. n : t[k] = s[m]
    BY <1>6
  <2>2. ASSUME NEW m \in 1 .. n PROVE \E k \in 1 .. n : t[k] = s[m]
    <3>1. PICK k \in 1 .. n : q[k] = m
      BY <1>6
    <3>2. t[k] = s[q[k]]
      BY <1>6
    <3> QED
      BY <3>1, <3>2
  <2>3. {t[k] : k \in 1 .. n} \subseteq {s[k] : k \in 1 .. n}
    BY <2>1
  <2>4. {s[k] : k \in 1 .. n} \subseteq {t[k] : k \in 1 .. n}
    BY <2>2
  <2> QED
    BY <2>3, <2>4
<1> QED
  BY <1>4, <1>7, <1>8, <1>9 DEF t

\* Two sequences of the same items, newest at the top: one starts as the other does.
LEMMA SameStart ==
    ASSUME NEW L, NEW s \in Seq(Items(L)), NEW t \in Seq(Items(L)),
           NewestAtTop(s), NewestAtTop(t), ToSet(s) = ToSet(t)
    PROVE  Len(s) <= Len(t) /\ \A n \in 1 .. Len(s) : s[n] = t[n]
<1> DEFINE Same(n) == n <= Len(t) /\ s[n] = t[n]
           T == {n \in Nat : n \in 1 .. Len(s) /\ ~Same(n)}
<1>1. /\ Len(s) \in Nat /\ DOMAIN s = 1 .. Len(s) /\ Len(t) \in Nat /\ DOMAIN t = 1 .. Len(t)
      /\ \A k \in 1 .. Len(s) : s[k] \in Items(L)
      /\ \A k \in 1 .. Len(t) : t[k] \in Items(L)
  OBVIOUS
<1>2. \A k \in 1 .. Len(s) : s[k].date \in Int
  BY <1>1 DEF Items
<1>3. \A k \in 1 .. Len(t) : t[k].date \in Int
  BY <1>1 DEF Items
<1>4. T = {}
  <2> SUFFICES ASSUME T # {} PROVE FALSE
    OBVIOUS
  <2>1. PICK n \in T : \A m \in T : n <= m
    <3>1. T \subseteq Nat /\ T # {}
      OBVIOUS
    <3> HIDE DEF T
    <3> QED
      BY <3>1, SmallestNumber
  <2>2. n \in 1 .. Len(s) /\ ~Same(n)
    OBVIOUS
  <2>3. ASSUME NEW k \in 1 .. n - 1 PROVE k \in 1 .. Len(s) /\ k \in 1 .. Len(t) /\ s[k] = t[k]
    <3>1. k \in Nat /\ k \in 1 .. Len(s) /\ ~(n <= k)
      BY <1>1, <2>2
    <3>2. Same(k)
      BY <2>1, <3>1
    <3> QED
      BY <1>1, <3>1, <3>2
  <2>4. PICK m \in 1 .. Len(t) : s[n] = t[m]
    <3>1. s[n] \in ToSet(t)
      BY <1>1, <2>2 DEF ToSet
    <3> QED
      BY <1>1, <3>1 DEF ToSet
  <2>5. ~(m < n)
    <3> SUFFICES ASSUME m < n PROVE FALSE
      OBVIOUS
    <3>1. m \in 1 .. n - 1
      BY <1>1, <2>2
    <3>2. s[m] = s[n] /\ m \in 1 .. Len(s)
      BY <2>3, <2>4, <3>1
    <3>3. s[m].date > s[n].date
      BY <1>1, <2>2, <3>2 DEF NewestAtTop
    <3> QED
      BY <1>2, <2>2, <3>2, <3>3
  <2>6. n \in 1 .. Len(t) /\ n # m /\ n < m
    <3>1. n <= m /\ n \in 1 .. Len(t)
      BY <1>1, <2>2, <2>5
    <3>2. n # m
      BY <2>2, <2>4
    <3> QED
      BY <3>1, <3>2
  <2>7. t[n].date > s[n].date
    BY <1>1, <2>4, <2>6 DEF NewestAtTop
  <2>8. PICK i \in 1 .. Len(s) : t[n] = s[i]
    <3>1. t[n] \in ToSet(s)
      BY <1>1, <2>6 DEF ToSet
    <3> QED
      BY <1>1, <3>1 DEF ToSet
  <2>9. CASE i < n
    <3>1. i \in 1 .. n - 1
      BY <1>1, <2>2, <2>9
    <3>2. t[i] = t[n] /\ i \in 1 .. Len(t)
      BY <2>3, <2>8, <3>1
    <3>3. t[i].date > t[n].date
      BY <1>1, <2>6, <2>9, <3>2 DEF NewestAtTop
    <3> QED
      BY <1>3, <2>6, <3>2, <3>3
  <2>10. CASE i = n
    BY <1>2, <2>2, <2>7, <2>8, <2>10
  <2>11. CASE n < i
    <3>1. s[n].date > s[i].date
      BY <1>1, <2>2, <2>11 DEF NewestAtTop
    <3> QED
      BY <1>2, <2>2, <2>7, <2>8, <3>1
  <2> QED
    BY <1>1, <2>2, <2>9, <2>10, <2>11
<1>5. \A n \in 1 .. Len(s) : Same(n)
  BY <1>4
<1>6. Len(s) <= Len(t)
  <2>1. CASE Len(s) = 0
    BY <1>1, <2>1
  <2>2. CASE Len(s) # 0
    <3>1. Len(s) \in 1 .. Len(s)
      BY <1>1, <2>2
    <3> QED
      BY <1>5, <3>1
  <2> QED
    BY <2>1, <2>2
<1> QED
  BY <1>5, <1>6

\* Items of distinct dates are shown in one order, whatever order they came in.
LEMMA OneOrder ==
    ASSUME NEW L, NEW s \in Seq(Items(L)), NEW t \in Seq(Items(L)),
           Dated(s), Dated(t), ToSet(s) = ToSet(t)
    PROVE  sortedItems(s) = sortedItems(t)
<1>1. /\ Sort(s) \in Seq(Items(L)) /\ NewestAtTop(Sort(s)) /\ ToSet(Sort(s)) = ToSet(s)
      /\ Sort(t) \in Seq(Items(L)) /\ NewestAtTop(Sort(t)) /\ ToSet(Sort(t)) = ToSet(t)
  BY SortFacts
<1> DEFINE a == Sort(s)
           b == Sort(t)
<1> HIDE DEF a, b
<1>2. /\ a \in Seq(Items(L)) /\ NewestAtTop(a)
      /\ b \in Seq(Items(L)) /\ NewestAtTop(b) /\ ToSet(a) = ToSet(b)
  BY <1>1 DEF a, b
<1>3. Len(a) <= Len(b) /\ \A n \in 1 .. Len(a) : a[n] = b[n]
  BY <1>2, SameStart
<1>4. Len(b) <= Len(a)
  BY <1>2, SameStart
<1>5. a = b
  <2>1. Len(a) \in Nat /\ Len(b) \in Nat
    BY <1>2
  <2>2. Len(a) = Len(b)
    BY <1>3, <1>4, <2>1
  <2> QED
    BY <1>2, <1>3, <2>2
<1> QED
  BY <1>5 DEF sortedItems, a, b

----------------------------------------------------------------------------
(* Where items come from *)

\* More feeds have more items.
LEMMA ComeFromMore ==
    ASSUME NEW items, NEW feeds, NEW more, feeds \subseteq more, ComeFrom(items, feeds)
    PROVE  ComeFrom(items, more)
<1>1. Cells(feeds) \subseteq Cells(more)
  BY DEF Cells
<1> QED
  BY <1>1 DEF ComeFrom

\* So do some of the places in some order, with the items as they are or as sent.
LEMMA ArrangementComesFrom ==
    ASSUME NEW feeds, NEW K, K \subseteq Cells(feeds), NEW s \in Orders(K), NEW items,
           DOMAIN items = DOMAIN s,
           \A n \in DOMAIN s : items[n] \in {ItemAt(s[n]), Sent(ItemAt(s[n]))}
    PROVE  ComeFrom(items, feeds)
<1>1. /\ \A n \in DOMAIN s : s[n] \in K
      /\ \A j, k \in DOMAIN s : s[j] = s[k] => j = k
  BY DEF Orders, Bijection, Injection, IsInjective
<1>2. \A n \in DOMAIN s : items[n].link = ItemAt(s[n]).link
  BY DEF Sent
<1>3. ASSUME NEW j \in DOMAIN items, NEW k \in DOMAIN items, j # k, items[j].link = items[k].link
      PROVE  \E c, d \in Cells(feeds) :
                 c # d /\ ItemAt(c).link = items[k].link /\ ItemAt(d).link = items[k].link
  <2>1. s[j] \in Cells(feeds) /\ s[k] \in Cells(feeds) /\ s[j] # s[k]
    BY <1>1, <1>3
  <2>2. ItemAt(s[j]).link = items[k].link /\ ItemAt(s[k]).link = items[k].link
    BY <1>2, <1>3
  <2> QED
    BY <2>1, <2>2
<1>4. \A k \in DOMAIN items : \E c \in Cells(feeds) : items[k] \in {ItemAt(c), Sent(ItemAt(c))}
  BY <1>1
<1> QED
  BY <1>3, <1>4 DEF ComeFrom

\* What is merged comes from where its parts come from: a link that is there twice was
\* twice in one of them.
LEMMA MergeComesFrom ==
    ASSUME feedItems \in Seq(PageItems), NEW items \in Seq(PageItems),
           NEW merged \in Merge(items), NEW feeds,
           ComeFrom(feedItems, feeds), ComeFrom(items, feeds)
    PROVE  ComeFrom(merged, feeds)
<1>1. PICK s : Merges(s, items, merged)
  BY MergeParts
<1>2. /\ Len(s) \in Nat /\ DOMAIN s = 1 .. Len(s)
      /\ \A n \in DOMAIN s : s[n] \in DOMAIN items /\ items[s[n]].link \notin LinksOf(feedItems)
      /\ \A j, k \in DOMAIN s : s[j] = s[k] => j = k
      /\ \A n \in DOMAIN s : merged[n] = items[s[n]]
  BY <1>1 DEF Merges
<1>3. ASSUME NEW n \in DOMAIN merged
      PROVE  \/ n \in DOMAIN s /\ s[n] \in DOMAIN items /\ merged[n] = items[s[n]]
                /\ merged[n].link \notin LinksOf(feedItems)
             \/ n - Len(s) \in DOMAIN feedItems
                /\ merged[n] = feedItems[n - Len(s)] /\ merged[n].link \in LinksOf(feedItems)
  <2>1. \/ n \in DOMAIN s
        \/ n - Len(s) \in DOMAIN feedItems /\ merged[n] = feedItems[n - Len(s)]
    BY <1>1, MergedItem
  <2> QED
    BY <1>2, <2>1 DEF LinksOf, ToSet
<1>4. ASSUME NEW n \in DOMAIN merged
      PROVE  \E c \in Cells(feeds) : merged[n] \in {ItemAt(c), Sent(ItemAt(c))}
  BY <1>3 DEF ComeFrom
<1>5. ASSUME NEW j \in DOMAIN merged, NEW k \in DOMAIN merged, j # k,
             merged[j].link = merged[k].link
      PROVE  \E c, d \in Cells(feeds) :
                 c # d /\ ItemAt(c).link = merged[k].link /\ ItemAt(d).link = merged[k].link
  <2>1. CASE merged[k].link \notin LinksOf(feedItems)
    <3>1. /\ j \in DOMAIN s /\ s[j] \in DOMAIN items /\ merged[j] = items[s[j]]
          /\ k \in DOMAIN s /\ s[k] \in DOMAIN items /\ merged[k] = items[s[k]]
      BY <1>3, <1>5, <2>1
    <3>2. s[j] # s[k]
      BY <1>2, <1>5, <3>1
    <3> QED
      BY <1>5, <3>1, <3>2 DEF ComeFrom
  <2>2. CASE merged[k].link \in LinksOf(feedItems)
    <3>1. /\ j - Len(s) \in DOMAIN feedItems /\ merged[j] = feedItems[j - Len(s)]
          /\ k - Len(s) \in DOMAIN feedItems /\ merged[k] = feedItems[k - Len(s)]
      BY <1>3, <1>5, <2>2
    <3>2. j - Len(s) # k - Len(s)
      <4>1. j \in Int /\ k \in Int
        BY <1>1 DEF Merges
      <4> QED
        BY <1>2, <1>5, <4>1
    <3> QED
      BY <1>5, <3>1, <3>2 DEF ComeFrom
  <2> QED
    BY <2>1, <2>2
<1> QED
  BY <1>4, <1>5 DEF ComeFrom

----------------------------------------------------------------------------
(* The messages on their way *)

\* What a message adds to the wire.
LEMMA AppendOnWire ==
    ASSUME wire \in Seq(Messages), NEW m \in Messages, wire' = Append(wire, m), NEW r
    PROVE  OnWire(r)' <=> OnWire(r) \/ m.id = r
<1>1. /\ DOMAIN wire = 1 .. Len(wire) /\ DOMAIN wire' = 1 .. Len(wire) + 1 /\ Len(wire) \in Nat
      /\ \A k \in 1 .. Len(wire) : wire'[k] = wire[k]
      /\ wire'[Len(wire) + 1] = m
  OBVIOUS
<1> QED
  BY <1>1 DEF OnWire

\* What the handler takes off it.
LEMMA TailOnWire ==
    ASSUME wire \in Seq(Messages), wire # <<>>, wire' = Tail(wire),
           NEW r, r # Head(wire).id, OnWire(r)
    PROVE  OnWire(r)'
<1>1. /\ DOMAIN wire = 1 .. Len(wire) /\ DOMAIN wire' = 1 .. Len(wire) - 1 /\ Len(wire) \in Nat
      /\ \A k \in 1 .. Len(wire) - 1 : wire'[k] = wire[k + 1]
      /\ Head(wire) = wire[1]
  OBVIOUS
<1>2. PICK k \in 1 .. Len(wire) : wire[k].id = r
  BY <1>1 DEF OnWire
<1>3. k # 1 /\ k - 1 \in 1 .. Len(wire) - 1 /\ wire'[k - 1] = wire[k]
  BY <1>1, <1>2
<1> QED
  BY <1>1, <1>2, <1>3 DEF OnWire

\* What Rails broadcasts has the links of its feeds.
LEMMA MessageType ==
    ASSUME asked \in [Requests -> SUBSET Feeds], NEW r \in Requests, NEW o \in Service!Outcomes,
           NEW items \in SentItems(o.feeds), NEW errors \in Errors(r, o)
    PROVE  /\ Message(r, o, items, errors) \in Messages
           /\ Message(r, o, items, errors).id = r
           /\ Message(r, o, items, errors).feeds = o.feeds
           /\ \A f \in o.feeds :
                 /\ Message(r, o, items, errors).status = "done"
                 /\ LinksOf(ItemsOf[f]) \subseteq LinksOf(Message(r, o, items, errors).items)
<1>1. /\ o.status \in {"done", "failed"} /\ o.feeds \subseteq Feeds
      /\ o.feeds # {} => o.status = "done"
  BY DEF Service!Outcomes
<1>2. /\ items \in Seq(PageItems)
      /\ \A f \in o.feeds : LinksOf(ItemsOf[f]) \subseteq LinksOf(items)
  BY <1>1, ResultsBringAll
<1>3. Message(r, o, items, errors) = [id |-> r, status |-> o.status, feeds |-> o.feeds,
                              items |-> items, errors |-> errors]
  BY DEF Message
<1>4. errors \in BOOLEAN
  BY DEF Errors
<1> QED
  BY <1>1, <1>2, <1>3, <1>4 DEF Messages

----------------------------------------------------------------------------
(* The form *)

LEMMA FormTypes ==
    ASSUME urls \in Seq(Feeds \union {NoUrl})
    PROVE  /\ \A k \in DOMAIN urls, url \in Typed \union {NoUrl} :
                 [urls EXCEPT ![k] = url] \in Seq(Feeds \union {NoUrl})
           /\ Append(urls, NoUrl) \in Seq(Feeds \union {NoUrl})
           /\ \A k \in DOMAIN urls : RemoveAt(urls, k) \in Seq(Feeds \union {NoUrl})
           /\ activeUrls \subseteq Feeds
<1>1. ASSUME NEW k \in DOMAIN urls, NEW url \in Typed \union {NoUrl}
      PROVE  [urls EXCEPT ![k] = url] \in Seq(Feeds \union {NoUrl})
  BY UrlsAssumption
<1>2. ASSUME NEW k \in DOMAIN urls PROVE RemoveAt(urls, k) \in Seq(Feeds \union {NoUrl})
  <2>1. k \in 1 .. Len(urls) /\ Len(urls) \in Nat
    OBVIOUS
  <2>2. /\ SubSeq(urls, 1, k - 1) \in Seq(Feeds \union {NoUrl})
        /\ SubSeq(urls, k + 1, Len(urls)) \in Seq(Feeds \union {NoUrl})
    BY <2>1
  <2> QED
    BY <2>2 DEF RemoveAt
<1>3. activeUrls \subseteq Feeds
  BY DEF activeUrls, ToSet
<1> QED
  BY <1>1, <1>2, <1>3

\* Nothing changes that the invariant is about.
LEMMA OtherStep ==
    ASSUME InductiveInv, UNCHANGED <<rows, post, asked, told, wire, missed, early>>
    PROVE  RowsAreExplained'
BY DEF InductiveInv, RowsAreExplained, RowsAreCreated, AnswerComesFirst, StuckRowHasReason,
       OnWire, Told, Created

----------------------------------------------------------------------------
(* The invariant, action by action *)

LEMMA FormStepKeeps == ASSUME InductiveInv, Form PROVE RowsAreExplained'
<1>t. urls \in Seq(Feeds \union {NoUrl}) /\ TypeOK
  BY DEF InductiveInv, TypeOK
<1>1. ASSUME NEW k \in DOMAIN urls, NEW url \in Typed \union {NoUrl}, handleUrlChange(k, url)
      PROVE  RowsAreExplained'
  BY <1>1, OtherStep DEF handleUrlChange, FormStep, callVars, cableVars, railsVars, history
<1>2. CASE addField
  BY <1>2, OtherStep DEF addField, FormStep, callVars, cableVars, railsVars, history
<1>3. ASSUME NEW k \in DOMAIN urls, removeField(k) PROVE RowsAreExplained'
  BY <1>3, OtherStep DEF removeField, FormStep, callVars, cableVars, railsVars, history
<1>4. CASE handleSubmit
  <2>1. /\ post' = [NoPost EXCEPT !.step = "sent", !.urls = activeUrls]
        /\ activeUrls # {} /\ activeUrls \subseteq Feeds
        /\ UNCHANGED <<urls, rows, asked, told, wire, missed, early>>
    <3>1. activeUrls \subseteq Feeds
      BY <1>t, FormTypes
    <3>2. activeUrls # {}
      BY <1>4 DEF handleSubmit, isSubmitDisabled
    <3> QED
      BY <1>4, <3>1, <3>2 DEF handleSubmit, cableVars, railsVars, history
  <2>2. /\ post' \in [step : {"none", "sent", "served"}, urls : SUBSET Feeds, id : Requests]
        /\ post'.step = "sent" /\ post'.urls # {}
    <3>1. Earlier \in Requests
      BY BoundsAssumption DEF Earlier, Requests
    <3>2. post' = [step |-> "sent", urls |-> activeUrls, id |-> Earlier]
      BY <2>1 DEF NoPost
    <3> QED
      BY <2>1, <3>1, <3>2
  <2> QED
    BY <2>1, <2>2
    DEF InductiveInv, RowsAreExplained, RowsAreCreated, AnswerComesFirst, StuckRowHasReason,
        OnWire, Told, Created
<1> QED
  BY <1>1, <1>2, <1>3, <1>4 DEF Form

LEMMA CreateKeeps ==
    ASSUME InductiveInv, NEW r \in Requests, CreateRequest(r) PROVE RowsAreExplained'
<1>1. /\ post.step = "sent" /\ post.urls # {} /\ ~Created(r)
      /\ asked' = [asked EXCEPT ![r] = post.urls]
      /\ post' = [post EXCEPT !.step = "served", !.id = r]
      /\ UNCHANGED <<urls, rows, told, wire, missed, early>>
  BY DEF CreateRequest, InductiveInv, RowsAreExplained, AnswerComesFirst, pageVars, cableVars,
         history
<1>2. /\ Created(r)'
      /\ \A q \in Requests : Created(q) => Created(q)'
      /\ \A q \in Requests : Told(q)' <=> Told(q)
  BY <1>1 DEF InductiveInv, TypeOK, Created, Told
<1>3. rows[r] = "none" /\ ~Told(r)
  BY <1>1 DEF InductiveInv, RowsAreExplained, RowsAreCreated
<1>4. post'.step = "served" /\ post'.id = r
  BY <1>1 DEF InductiveInv, TypeOK
<1>5. RowsAreCreated' /\ StuckRowHasReason'
  BY <1>1, <1>2 DEF InductiveInv, RowsAreExplained, RowsAreCreated, StuckRowHasReason, OnWire
<1>6. AnswerComesFirst'
  BY <1>1, <1>2, <1>3, <1>4 DEF AnswerComesFirst
<1> QED
  BY <1>5, <1>6 DEF RowsAreExplained

LEMMA AnswerKeeps == ASSUME InductiveInv, SubmitReturns \/ SubmitThrows PROVE RowsAreExplained'
<1>1. /\ post' = NoPost
      /\ UNCHANGED <<urls, asked, told, wire, missed, early>>
  BY DEF SubmitReturns, SubmitThrows, cableVars, railsVars, history
<1>2. post'.step = "none"
      /\ post' \in [step : {"none", "sent", "served"}, urls : SUBSET Feeds, id : Requests]
  BY <1>1, BoundsAssumption DEF NoPost, Earlier, Requests
<1>3. \A q \in Requests : (Told(q)' <=> Told(q)) /\ (Created(q)' <=> Created(q))
                          /\ (OnWire(q)' <=> OnWire(q))
  BY <1>1 DEF Told, Created, OnWire
<1>4. CASE SubmitReturns
  <2>1. rows' = [rows EXCEPT ![post.id] = "pending"] /\ post.step = "served"
    BY <1>4 DEF SubmitReturns
  <2>2. /\ rows' \in [Requests -> Statuses] /\ post.id \in Requests /\ rows'[post.id] = "pending"
        /\ \A q \in Requests \ {post.id} : rows'[q] = rows[q]
    BY <2>1 DEF InductiveInv, TypeOK, Statuses
  <2>4. RowsAreCreated' /\ StuckRowHasReason'
    BY <1>1, <1>3, <2>1, <2>2
    DEF InductiveInv, RowsAreExplained, RowsAreCreated, StuckRowHasReason, AnswerComesFirst
  <2>5. AnswerComesFirst'
    BY <1>2 DEF AnswerComesFirst
  <2> QED
    BY <2>4, <2>5 DEF RowsAreExplained
<1>5. CASE SubmitThrows
  <2>1. rows' = rows
    BY <1>5 DEF SubmitThrows
  <2>2. AnswerComesFirst'
    BY <1>2 DEF AnswerComesFirst
  <2>3. RowsAreCreated' /\ StuckRowHasReason'
    BY <1>1, <1>3, <2>1 DEF InductiveInv, RowsAreExplained, RowsAreCreated, StuckRowHasReason
  <2> QED
    BY <2>2, <2>3 DEF RowsAreExplained
<1> QED
  BY <1>4, <1>5

LEMMA TellKeeps ==
    ASSUME InductiveInv, NEW r \in Requests, NEW o \in Service!Outcomes, TellOutcome(r, o)
    PROVE  RowsAreExplained'
<1>1. /\ Created(r) /\ told' = told \union {<<r, o>>}
      /\ UNCHANGED <<asked, urls, rows, post, early>>
  BY DEF TellOutcome, Service!Tell, pageVars, callVars
<1>2. /\ wire' \in Seq(Messages)
      /\ \A q \in Requests : OnWire(q) => OnWire(q)'
      /\ missed \subseteq missed'
      /\ OnWire(r)' \/ r \in missed'
  <2>1. CASE wire' = wire /\ missed' = missed \union {r}
    BY <2>1 DEF InductiveInv, TypeOK, OnWire
  <2>2. ASSUME NEW items \in SentItems(o.feeds), NEW errors \in Errors(r, o),
               wire' = Append(wire, Message(r, o, items, errors)), missed' = missed
        PROVE  <1>2!1 /\ <1>2!2 /\ <1>2!3 /\ <1>2!4
    <3>1. Message(r, o, items, errors) \in Messages /\ Message(r, o, items, errors).id = r
      <4>1. asked \in [Requests -> SUBSET Feeds]
        BY DEF InductiveInv, TypeOK
      <4> QED
        BY <2>2, <4>1, MessageType
    <3>2. wire \in Seq(Messages)
      BY DEF InductiveInv, TypeOK
    <3>3. \A q \in Requests : OnWire(q)' <=> OnWire(q) \/ Message(r, o, items, errors).id = q
      BY <2>2, <3>1, <3>2, AppendOnWire
    <3>4. wire' \in Seq(Messages)
      BY <2>2, <3>1, <3>2
    <3> QED
      BY <2>2, <3>1, <3>3, <3>4
  <2> QED
    BY <2>1, <2>2 DEF TellOutcome
<1>3. /\ \A q \in Requests : Created(q)' <=> Created(q)
      /\ \A q \in Requests \ {r} : Told(q)' <=> Told(q)
  BY <1>1 DEF Created, Told
<1>4. RowsAreCreated'
  BY <1>1, <1>3 DEF InductiveInv, RowsAreExplained, RowsAreCreated
<1>5. AnswerComesFirst'
  <2>1. post.id \in Requests
    BY DEF InductiveInv, TypeOK
  <2> QED
    BY <1>1, <1>2, <1>3, <2>1 DEF InductiveInv, RowsAreExplained, AnswerComesFirst
<1>6. StuckRowHasReason'
  BY <1>1, <1>2, <1>3 DEF InductiveInv, RowsAreExplained, StuckRowHasReason
<1> QED
  BY <1>4, <1>5, <1>6 DEF RowsAreExplained

LEMMA BroadcastKeeps == ASSUME InductiveInv, handleBroadcastMessage PROVE RowsAreExplained'
<1> DEFINE m == Head(wire)
<1>1. /\ wire # <<>> /\ wire' = Tail(wire)
      /\ rows' = SetStatus(m.id, m.status)
      /\ early' = IF rows[m.id] = "none" THEN early \union {m.id} ELSE early
      /\ UNCHANGED <<urls, post, asked, told, missed>>
  BY DEF handleBroadcastMessage, railsVars
<1>2. wire \in Seq(Messages) /\ m \in Messages /\ wire' \in Seq(Messages)
  BY <1>1 DEF InductiveInv, TypeOK
<1>3. m.id \in Requests /\ m.status \in {"done", "failed"}
  BY <1>2 DEF Messages
<1> HIDE DEF m
<1>4. /\ rows' \in [Requests -> Statuses]
      /\ \A q \in Requests \ {m.id} : rows'[q] = rows[q]
      /\ rows'[m.id] # "pending"
      /\ rows'[m.id] = "none" <=> rows[m.id] = "none"
  BY <1>1, <1>3 DEF SetStatus, InductiveInv, TypeOK, Statuses
<1>5. \A q \in Requests : q # m.id /\ OnWire(q) => OnWire(q)'
  BY <1>1, <1>2, TailOnWire DEF m
<1>6. \A q \in Requests : (Told(q)' <=> Told(q)) /\ (Created(q)' <=> Created(q))
  BY <1>1 DEF Told, Created
<1>7. RowsAreCreated'
  BY <1>3, <1>4, <1>6 DEF InductiveInv, RowsAreExplained, RowsAreCreated
<1>8. AnswerComesFirst'
  <2>1. post.id \in Requests
    BY DEF InductiveInv, TypeOK
  <2>2. CASE post.id = m.id
    BY <1>1, <1>3, <1>4, <1>6, <2>2 DEF InductiveInv, RowsAreExplained, AnswerComesFirst
  <2>3. CASE post.id # m.id
    BY <1>1, <1>4, <1>5, <1>6, <2>1, <2>3 DEF InductiveInv, RowsAreExplained, AnswerComesFirst
  <2> QED
    BY <2>2, <2>3
<1>9. StuckRowHasReason'
  BY <1>1, <1>3, <1>4, <1>5, <1>6 DEF InductiveInv, RowsAreExplained, StuckRowHasReason
<1> QED
  BY <1>7, <1>8, <1>9 DEF RowsAreExplained

LEMMA TimerKeeps ==
    ASSUME InductiveInv, NEW r \in Requests, TimerFires(r) PROVE RowsAreExplained'
<1>1. /\ rows' = [rows EXCEPT ![r] = "none"]
      /\ UNCHANGED <<urls, post, asked, told, wire, missed, early>>
  BY DEF TimerFires, cableVars, railsVars, history
<1>2. /\ rows' \in [Requests -> Statuses] /\ rows'[r] = "none"
      /\ \A q \in Requests \ {r} : rows'[q] = rows[q]
  BY <1>1 DEF InductiveInv, TypeOK, Statuses
<1>3. \A q \in Requests : (Told(q)' <=> Told(q)) /\ (Created(q)' <=> Created(q))
                          /\ (OnWire(q)' <=> OnWire(q))
  BY <1>1 DEF Told, Created, OnWire
<1>4. post.id \in Requests
  BY <1>1, <1>2 DEF InductiveInv, TypeOK
<1>5. RowsAreCreated' /\ AnswerComesFirst' /\ StuckRowHasReason'
  BY <1>1, <1>2, <1>3, <1>4
  DEF InductiveInv, RowsAreExplained, RowsAreCreated, AnswerComesFirst, StuckRowHasReason
<1> QED
  BY <1>5 DEF RowsAreExplained

LEMMA LossKeeps == ASSUME InductiveInv, ConnectionIsLost PROVE RowsAreExplained'
<1>1. /\ missed' = missed \union {wire[k].id : k \in DOMAIN wire} /\ wire' = <<>>
      /\ UNCHANGED <<urls, rows, post, asked, told, early>>
  BY DEF ConnectionIsLost, pageVars, callVars, railsVars
<1>2. \A q \in Requests : OnWire(q) => q \in missed'
  BY <1>1 DEF OnWire
<1>3. \A q \in Requests : (Told(q)' <=> Told(q)) /\ (Created(q)' <=> Created(q))
  BY <1>1 DEF Told, Created
<1>4. post.id \in Requests
  BY <1>1 DEF InductiveInv, TypeOK
<1>5. RowsAreCreated' /\ AnswerComesFirst' /\ StuckRowHasReason'
  BY <1>1, <1>2, <1>3, <1>4
  DEF InductiveInv, RowsAreExplained, RowsAreCreated, AnswerComesFirst, StuckRowHasReason
<1> QED
  BY <1>5 DEF RowsAreExplained

----------------------------------------------------------------------------
(* Every variable keeps its type *)

LEMMA PostTypes ==
    ASSUME TypeOK, Form \/ SubmitReturns \/ SubmitThrows \/ \E r \in Requests : CreateRequest(r)
    PROVE  post' \in [step : {"none", "sent", "served"}, urls : SUBSET Feeds, id : Requests]
<1> DEFINE Posts == [step : {"none", "sent", "served"}, urls : SUBSET Feeds, id : Requests]
<1>1. NoPost \in Posts /\ NoPost = [step |-> "none", urls |-> {}, id |-> Earlier]
  BY BoundsAssumption DEF NoPost, Earlier, Requests
<1>2. post \in Posts /\ activeUrls \subseteq Feeds
  BY FormTypes DEF TypeOK
<1>3. CASE Form
  <2>1. CASE handleSubmit
    <3>1. post' = [NoPost EXCEPT !.step = "sent", !.urls = activeUrls]
      BY <2>1 DEF handleSubmit
    <3> QED
      BY <1>1, <1>2, <3>1
  <2>2. CASE ~handleSubmit
    <3>1. post' = post
      BY <1>3, <2>2 DEF Form, handleUrlChange, addField, removeField, FormStep, callVars
    <3> QED
      BY <1>2, <3>1
  <2> QED
    BY <2>1, <2>2
<1>4. CASE SubmitReturns \/ SubmitThrows
  BY <1>1, <1>4 DEF SubmitReturns, SubmitThrows
<1>5. ASSUME NEW r \in Requests, CreateRequest(r) PROVE post' \in Posts
  BY <1>2, <1>5 DEF CreateRequest
<1> QED
  BY <1>3, <1>4, <1>5

LEMMA FormTypeStep == ASSUME TypeOK, Form PROVE TypeOK'
<1> USE DEF pageVars, callVars, cableVars, railsVars, history
<1>1. urls \in Seq(Feeds \union {NoUrl}) /\ urls # <<>>
  BY DEF TypeOK
<1>2. urls' \in Seq(Feeds \union {NoUrl}) /\ urls' # <<>>
  <2>1. ASSUME NEW k \in DOMAIN urls, NEW url \in Typed \union {NoUrl}, handleUrlChange(k, url)
        PROVE  urls' \in Seq(Feeds \union {NoUrl}) /\ urls' # <<>>
    <3>1. urls' = [urls EXCEPT ![k] = url]
      BY <2>1 DEF handleUrlChange
    <3>2. urls' \in Seq(Feeds \union {NoUrl})
      BY <1>1, <3>1, FormTypes
    <3> QED
      BY <1>1, <3>1, <3>2
  <2>2. CASE addField
    BY <1>1, <2>2, FormTypes DEF addField
  <2>3. ASSUME NEW k \in DOMAIN urls, removeField(k)
        PROVE  urls' \in Seq(Feeds \union {NoUrl}) /\ urls' # <<>>
    <3>1. urls' = RemoveAt(urls, k) /\ Len(urls) > 1
      BY <2>3 DEF removeField
    <3>2. urls' \in Seq(Feeds \union {NoUrl})
      BY <1>1, <3>1, FormTypes
    <3>3. Len(urls') = Len(urls) - 1
      <4>1. k \in 1 .. Len(urls) /\ Len(urls) \in Nat
        BY <1>1
      <4> DEFINE before == SubSeq(urls, 1, k - 1)
                 after == SubSeq(urls, k + 1, Len(urls))
                 S == Feeds \union {NoUrl}
      <4>2. /\ before \in Seq(S) /\ Len(before) = k - 1
            /\ after \in Seq(S) /\ Len(after) = Len(urls) - k
        BY <1>1, <4>1
      <4>3. urls' = before \o after
        BY <3>1 DEF RemoveAt
      <4> HIDE DEF before, after, S
      <4>4. before \in Seq(S) /\ after \in Seq(S)
        BY <4>2
      <4>5. Len(before \o after) = Len(before) + Len(after)
        BY <4>4
      <4> QED
        BY <4>1, <4>2, <4>3, <4>5
    <3> QED
      BY <3>1, <3>2, <3>3
  <2>4. CASE handleSubmit
    BY <1>1, <2>4 DEF handleSubmit
  <2> QED
    BY <2>1, <2>2, <2>3, <2>4 DEF Form
<1>3. post' \in [step : {"none", "sent", "served"}, urls : SUBSET Feeds, id : Requests]
  BY PostTypes
<1>4. /\ loading' \in BOOLEAN /\ error' \in Banners
      /\ UNCHANGED <<rows, feedItems, load, timers, cableVars, railsVars, history>>
  BY DEF TypeOK, Form, handleUrlChange, addField, removeField, handleSubmit, FormStep, Banners
<1> QED
  BY <1>2, <1>3, <1>4 DEF TypeOK

LEMMA BroadcastTypeStep == ASSUME TypeOK, handleBroadcastMessage PROVE TypeOK'
<1> DEFINE m == Head(wire)
<1>1. /\ wire # <<>> /\ wire' = Tail(wire)
      /\ rows' = SetStatus(m.id, m.status)
      /\ timers' = [timers EXCEPT ![m.id] = @ + 1]
      /\ feedItems' \in IF m.status = "done" THEN Merge(m.items) ELSE {feedItems}
      /\ error' = IF m.errors THEN "feeds" ELSE error
      /\ early' = IF rows[m.id] = "none" THEN early \union {m.id} ELSE early
      /\ raced' = raced \union {p \in {m.id} \X m.feeds :
                       \E l \in Loads : load[l].step = "served" /\ p \notin load[l].read}
      /\ UNCHANGED <<urls, loading, post, load, streaming, drops, railsVars, missed>>
  BY DEF handleBroadcastMessage
<1>2. wire \in Seq(Messages) /\ m \in Messages /\ wire' \in Seq(Messages)
  BY <1>1 DEF TypeOK
<1>3. /\ m.id \in Requests /\ m.status \in {"done", "failed"} /\ m.feeds \subseteq Feeds
      /\ m.items \in Seq(PageItems)
  BY <1>2 DEF Messages
<1> HIDE DEF m
<1>4. feedItems' \in Seq(PageItems)
  <2>1. feedItems \in Seq(PageItems)
    BY DEF TypeOK
  <2> QED
    BY <1>1, <1>3, <2>1, MergeAdds
<1>5. rows' \in [Requests -> Statuses] /\ timers' \in [Requests -> Nat]
  BY <1>1, <1>3 DEF TypeOK, SetStatus, Statuses
<1>6. error' \in Banners /\ early' \subseteq Requests /\ raced' \subseteq Requests \X Feeds
  BY <1>1, <1>3 DEF TypeOK, Banners
<1> QED
  BY <1>1, <1>2, <1>4, <1>5, <1>6 DEF TypeOK, railsVars

LEMMA TellTypeStep ==
    ASSUME TypeOK, NEW r \in Requests, NEW o \in Service!Outcomes, TellOutcome(r, o)
    PROVE  TypeOK'
<1>1. /\ told' = told \union {<<r, o>>}
      /\ UNCHANGED <<asked, visible, pageVars, callVars, streaming, drops, early, raced>>
  BY DEF TellOutcome, Service!Tell
<1>2. wire' \in Seq(Messages) /\ missed' \subseteq Requests
  <2>1. CASE streaming
    <3>1. PICK items \in SentItems(o.feeds), errors \in Errors(r, o) :
              wire' = Append(wire, Message(r, o, items, errors))
      BY <2>1 DEF TellOutcome
    <3>2. Message(r, o, items, errors) \in Messages
      BY MessageType DEF TypeOK
    <3>3. wire' \in Seq(Messages)
      BY <3>1, <3>2 DEF TypeOK
    <3> QED
      BY <2>1, <3>3 DEF TellOutcome, TypeOK
  <2>2. CASE ~streaming
    BY <2>2 DEF TellOutcome, TypeOK
  <2> QED
    BY <2>1, <2>2
<1> QED
  BY <1>1, <1>2 DEF TypeOK, pageVars, callVars

LEMMA LoadTypeStep ==
    ASSUME TypeOK, NEW l \in Loads, ReadItems(l) \/ LoadReturns(l) \/ LoadThrows(l)
    PROVE  TypeOK'
<1> DEFINE Calls == [step : {"asked", "served", "ended"}, read : SUBSET (Requests \X Feeds)]
<1>1. load \in [Loads -> Calls] /\ visible \subseteq Requests \X Feeds
  BY DEF TypeOK
<1>2. load' \in [Loads -> Calls]
  BY <1>1 DEF ReadItems, LoadReturns, LoadThrows, LoadEnds
<1>3. feedItems' \in Seq(PageItems)
  <2>1. CASE LoadReturns(l)
    <3>1. load[l].read \subseteq Requests \X Feeds
      BY <1>1
    <3>2. feedItems' \in ItemAnswers(load[l].read)
      BY <2>1 DEF LoadReturns
    <3> QED
      BY <3>1, <3>2, AnswersShowAll
  <2>2. CASE ~LoadReturns(l)
    BY <2>2 DEF ReadItems, LoadThrows, TypeOK, pageVars
  <2> QED
    BY <2>1, <2>2
<1>4. /\ error' \in Banners
      /\ UNCHANGED <<urls, loading, rows, post, timers, cableVars, railsVars, history>>
  BY DEF ReadItems, LoadReturns, LoadThrows, TypeOK, pageVars, Banners
<1> QED
  BY <1>2, <1>3, <1>4 DEF TypeOK, cableVars, railsVars, history

LEMMA TypeStep == TypeOK /\ [Next]_vars => TypeOK'
<1> SUFFICES ASSUME TypeOK, [Next]_vars PROVE TypeOK'
  OBVIOUS
<1> USE DEF pageVars, callVars, cableVars, railsVars, history
<1>1. CASE Form
  BY <1>1, FormTypeStep
<1>2. CASE SubmitReturns \/ SubmitThrows
  <2>1. post' \in [step : {"none", "sent", "served"}, urls : SUBSET Feeds, id : Requests]
    BY <1>2, PostTypes
  <2>2. /\ rows' \in [Requests -> Statuses] /\ loading' \in BOOLEAN /\ error' \in Banners
        /\ UNCHANGED <<urls, feedItems, load, timers, cableVars, railsVars, history>>
    BY <1>2 DEF SubmitReturns, SubmitThrows, TypeOK, Statuses, Banners
  <2> QED
    BY <2>1, <2>2 DEF TypeOK
<1>3. ASSUME NEW r \in Requests, CreateRequest(r) PROVE TypeOK'
  <2>1. post' \in [step : {"none", "sent", "served"}, urls : SUBSET Feeds, id : Requests]
    BY <1>3, PostTypes
  <2>2. /\ asked' \in [Requests -> SUBSET Feeds]
        /\ UNCHANGED <<pageVars, load, timers, cableVars, visible, told, history>>
    BY <1>3 DEF CreateRequest, TypeOK
  <2> QED
    BY <2>1, <2>2 DEF TypeOK
<1>4. ASSUME NEW r \in Requests, TimerFires(r) PROVE TypeOK'
  <2>1. rows' \in [Requests -> Statuses] /\ timers' \in [Requests -> Nat]
    BY <1>4 DEF TimerFires, TypeOK, Statuses
  <2> QED
    BY <1>4, <2>1 DEF TimerFires, TypeOK
<1>5. ASSUME NEW l \in Loads, ReadItems(l) \/ LoadReturns(l) \/ LoadThrows(l) PROVE TypeOK'
  BY <1>5, LoadTypeStep
<1>6. CASE Subscribed
  BY <1>6 DEF Subscribed, TypeOK
<1>7. CASE ConnectionIsLost
  <2>1. drops' \in 0 .. MaxDrops
    BY <1>7, BoundsAssumption DEF ConnectionIsLost, TypeOK
  <2>2. missed' \subseteq Requests
    <3>1. \A k \in DOMAIN wire : wire[k].id \in Requests
      <4>1. wire \in Seq(Messages)
        BY DEF TypeOK
      <4>2. \A k \in DOMAIN wire : wire[k] \in Messages
        BY <4>1
      <4> QED
        BY <4>2 DEF Messages
    <3> QED
      BY <1>7, <3>1 DEF ConnectionIsLost, TypeOK
  <2>3. wire' \in Seq(Messages) /\ streaming' \in BOOLEAN
    <3>1. wire' = <<>> /\ streaming' = FALSE
      BY <1>7 DEF ConnectionIsLost
    <3>2. <<>> \in Seq(Messages)
      OBVIOUS
    <3> QED
      BY <3>1, <3>2
  <2>4. UNCHANGED <<pageVars, callVars, railsVars, early, raced>>
    BY <1>7 DEF ConnectionIsLost
  <2> QED
    BY <2>1, <2>2, <2>3, <2>4 DEF TypeOK
<1>8. ASSUME NEW r \in Requests, NEW f \in Feeds, ShowItems(r, f) PROVE TypeOK'
  <2>1. visible' \subseteq Requests \X Feeds
    BY <1>8 DEF ShowItems, Service!Show, TypeOK
  <2> QED
    BY <1>8, <2>1 DEF ShowItems, Service!Show, TypeOK
<1>9. ASSUME NEW r \in Requests, NEW o \in Service!Outcomes, TellOutcome(r, o) PROVE TypeOK'
  BY <1>9, TellTypeStep
<1>10. CASE handleBroadcastMessage
  BY <1>10, BroadcastTypeStep
<1>11. CASE CloseBanner
  BY <1>11 DEF CloseBanner, TypeOK, Banners
<1>12. CASE UNCHANGED vars
  BY <1>12 DEF vars, TypeOK
<1> QED
  BY <1>1, <1>2, <1>3, <1>4, <1>5, <1>6, <1>7, <1>8, <1>9, <1>10, <1>11, <1>12 DEF Next

----------------------------------------------------------------------------
(* What the user was told of arrives *)

\* Nothing changes that this part is about, but what a load has.
LEMMA ItemsStay ==
    ASSUME ItemsAreExplained,
           UNCHANGED <<feedItems, wire, told, missed, raced>>, visible \subseteq visible',
           \A l \in Loads : load'[l].step = "served" =>
               \/ load[l].step = "served" /\ load'[l].read = load[l].read
               \/ load'[l].read = visible
    PROVE  ItemsAreExplained'
<1>1. TellsAreVisible'
  BY DEF ItemsAreExplained, TellsAreVisible
<1>2. MessagesBringItems'
  BY DEF ItemsAreExplained, MessagesBringItems
<1>3. ASSUME NEW t \in told, NEW f \in t[2].feeds, StaysOnPage(t[1], f)
      PROVE  StaysOnPage(t[1], f)'
  <2>1. <<t[1], f>> \in visible
    BY DEF ItemsAreExplained, TellsAreVisible
  <2> QED
    BY <1>3, <2>1 DEF StaysOnPage
<1>4. TellsArrive'
  BY <1>3 DEF ItemsAreExplained, TellsArrive, Brings
<1> QED
  BY <1>1, <1>2, <1>4 DEF ItemsAreExplained

LEMMA LoadItems ==
    ASSUME InductiveInv, NEW l \in Loads, ReadItems(l) \/ LoadReturns(l) \/ LoadThrows(l)
    PROVE  ItemsAreExplained'
<1>1. /\ load \in [Loads -> [step : {"asked", "served", "ended"},
                             read : SUBSET (Requests \X Feeds)]]
      /\ UNCHANGED <<wire, told, missed, raced, visible>> /\ ItemsAreExplained
  BY DEF InductiveInv, TypeOK, ReadItems, LoadReturns, LoadThrows, pageVars, cableVars, railsVars,
         history
<1>2. \A k \in Loads : load'[k].step = "served" =>
          \/ load[k].step = "served" /\ load'[k].read = load[k].read
          \/ load'[k].read = visible
  BY <1>1 DEF ReadItems, LoadReturns, LoadThrows, LoadEnds
<1>3. CASE ~LoadReturns(l)
  <2>1. feedItems' = feedItems
    BY <1>3 DEF ReadItems, LoadThrows, pageVars
  <2> QED
    BY <1>1, <1>2, <2>1, ItemsStay
<1>4. CASE LoadReturns(l)
  <2>1. /\ load[l].step = "served" /\ load[l].read \subseteq Requests \X Feeds
        /\ feedItems' \in ItemAnswers(load[l].read)
    BY <1>1, <1>4 DEF LoadReturns
  <2>2. \A p \in load[l].read : LinksOf(ItemsOf[p[2]]) \subseteq LinksOf(feedItems')
    BY <2>1, AnswersShowAll
  <2>3. \A k \in Loads : load'[k].step = "served" =>
            load[k].step = "served" /\ load'[k].read = load[k].read
    BY <1>1, <1>4 DEF LoadReturns, LoadEnds
  <2>4. ASSUME NEW t \in told, NEW f \in t[2].feeds, StaysOnPage(t[1], f)
        PROVE  StaysOnPage(t[1], f)'
    <3>1. <<t[1], f>> \in load[l].read
      BY <2>1, <2>4 DEF StaysOnPage
    <3>2. LinksOf(ItemsOf[f]) \subseteq LinksOf(feedItems')
      BY <2>2, <3>1
    <3>3. \A k \in Loads : load'[k].step = "served" => <<t[1], f>> \in load'[k].read
      BY <2>3, <2>4 DEF StaysOnPage
    <3> QED
      BY <3>2, <3>3 DEF StaysOnPage, LinksOf
  <2>5. TellsAreVisible' /\ MessagesBringItems'
    BY <1>1 DEF ItemsAreExplained, TellsAreVisible, MessagesBringItems
  <2>6. TellsArrive'
    BY <1>1, <2>4 DEF ItemsAreExplained, TellsArrive, Brings
  <2> QED
    BY <2>5, <2>6 DEF ItemsAreExplained
<1> QED
  BY <1>3, <1>4

LEMMA TellItems ==
    ASSUME InductiveInv, NEW r \in Requests, NEW o \in Service!Outcomes, TellOutcome(r, o)
    PROVE  ItemsAreExplained'
<1>1. /\ {r} \X o.feeds \subseteq visible /\ told' = told \union {<<r, o>>}
      /\ UNCHANGED <<visible, feedItems, load, raced>> /\ ItemsAreExplained
      /\ wire \in Seq(Messages)
  BY DEF TellOutcome, Service!Tell, pageVars, callVars, InductiveInv, TypeOK
<1>2. TellsAreVisible'
  BY <1>1 DEF ItemsAreExplained, TellsAreVisible
<1>3. \A q, f : StaysOnPage(q, f) => StaysOnPage(q, f)'
  BY <1>1 DEF StaysOnPage
<1>4. CASE ~streaming
  <2>1. missed' = missed \union {r} /\ wire' = wire
    BY <1>4 DEF TellOutcome
  <2>2. MessagesBringItems'
    BY <1>1, <2>1 DEF ItemsAreExplained, MessagesBringItems
  <2>3. TellsArrive'
    <3> SUFFICES ASSUME NEW t \in told', NEW f \in t[2].feeds
                 PROVE  \/ t[1] \in missed'
                        \/ <<t[1], f>> \in raced'
                        \/ \E k \in DOMAIN wire' : Brings(k, t[1], f)'
                        \/ StaysOnPage(t[1], f)'
      BY DEF TellsArrive
    <3>1. CASE t = <<r, o>>
      BY <2>1, <3>1
    <3>2. CASE t \in told
      BY <1>1, <1>3, <2>1, <3>2 DEF ItemsAreExplained, TellsArrive, Brings
    <3> QED
      BY <1>1, <3>1, <3>2
  <2> QED
    BY <1>2, <2>2, <2>3 DEF ItemsAreExplained
<1>5. CASE streaming
  <2>1. PICK items \in SentItems(o.feeds), errors \in Errors(r, o) :
              wire' = Append(wire, Message(r, o, items, errors))
    BY <1>5 DEF TellOutcome
  <2> DEFINE m == Message(r, o, items, errors)
  <2>2. /\ m \in Messages /\ m.id = r /\ m.feeds = o.feeds
        /\ \A f \in o.feeds : m.status = "done" /\ LinksOf(ItemsOf[f]) \subseteq LinksOf(m.items)
    <3>1. asked \in [Requests -> SUBSET Feeds]
      BY DEF InductiveInv, TypeOK
    <3> QED
      BY <3>1, MessageType
  <2> HIDE DEF m
  <2>3. /\ DOMAIN wire = 1 .. Len(wire) /\ Len(wire) \in Nat
        /\ DOMAIN wire' = 1 .. Len(wire) + 1
        /\ \A k \in 1 .. Len(wire) : wire'[k] = wire[k]
        /\ wire'[Len(wire) + 1] = m
    BY <1>1, <2>1, <2>2 DEF m
  <2>4. MessagesBringItems'
    <3> SUFFICES ASSUME NEW k \in DOMAIN wire', NEW f \in wire'[k].feeds
                 PROVE  /\ wire'[k].status = "done"
                        /\ LinksOf(ItemsOf[f]) \subseteq LinksOf(wire'[k].items)
      BY DEF MessagesBringItems, LinksOf
    <3>1. CASE k = Len(wire) + 1
      BY <2>2, <2>3, <3>1
    <3>2. CASE k # Len(wire) + 1
      <4>1. k \in DOMAIN wire /\ wire'[k] = wire[k]
        BY <2>3, <3>2
      <4> QED
        BY <1>1, <4>1 DEF ItemsAreExplained, MessagesBringItems
    <3> QED
      BY <3>1, <3>2
  <2>5. \A q, f : (\E k \in DOMAIN wire : Brings(k, q, f)) =>
                     \E k \in DOMAIN wire' : Brings(k, q, f)'
    BY <2>3 DEF Brings
  <2>6. \A f \in o.feeds : \E k \in DOMAIN wire' : Brings(k, r, f)'
    BY <2>2, <2>3 DEF Brings
  <2>7. TellsArrive'
    <3> SUFFICES ASSUME NEW t \in told', NEW f \in t[2].feeds
                 PROVE  \/ t[1] \in missed'
                        \/ <<t[1], f>> \in raced'
                        \/ \E k \in DOMAIN wire' : Brings(k, t[1], f)'
                        \/ StaysOnPage(t[1], f)'
      BY DEF TellsArrive
    <3>1. CASE t = <<r, o>>
      BY <2>6, <3>1
    <3>2. CASE t \in told
      <4>1. missed' = missed
        BY <1>5 DEF TellOutcome
      <4> QED
        BY <1>1, <1>3, <2>5, <3>2, <4>1 DEF ItemsAreExplained, TellsArrive
    <3> QED
      BY <1>1, <3>1, <3>2
  <2> QED
    BY <1>2, <2>4, <2>7 DEF ItemsAreExplained
<1> QED
  BY <1>4, <1>5

LEMMA BroadcastItems == ASSUME InductiveInv, handleBroadcastMessage PROVE ItemsAreExplained'
<1> DEFINE m == Head(wire)
<1>1. /\ wire # <<>> /\ wire' = Tail(wire)
      /\ feedItems' \in IF m.status = "done" THEN Merge(m.items) ELSE {feedItems}
      /\ raced' = raced \union {p \in {m.id} \X m.feeds :
                       \E l \in Loads : load[l].step = "served" /\ p \notin load[l].read}
      /\ UNCHANGED <<load, visible, told, missed>>
      /\ ItemsAreExplained /\ wire \in Seq(Messages) /\ feedItems \in Seq(PageItems)
  BY DEF handleBroadcastMessage, railsVars, InductiveInv, TypeOK
<1>2. /\ DOMAIN wire = 1 .. Len(wire) /\ Len(wire) \in Nat /\ 1 \in DOMAIN wire /\ m = wire[1]
      /\ DOMAIN wire' = 1 .. Len(wire) - 1
      /\ \A k \in 1 .. Len(wire) - 1 : wire'[k] = wire[k + 1]
      /\ m \in Messages
  BY <1>1
<1>3. m.items \in Seq(PageItems)
  BY <1>2 DEF Messages
<1>4. \A f \in m.feeds : m.status = "done" /\ LinksOf(ItemsOf[f]) \subseteq LinksOf(m.items)
  BY <1>1, <1>2 DEF ItemsAreExplained, MessagesBringItems
<1> HIDE DEF m
<1>5. /\ LinksOf(feedItems) \subseteq LinksOf(feedItems')
      /\ \A f \in m.feeds : LinksOf(ItemsOf[f]) \subseteq LinksOf(feedItems')
  <2>1. CASE m.status = "done"
    <3>1. LinksOf(feedItems') = LinksOf(m.items) \union LinksOf(feedItems)
      BY <1>1, <1>3, <2>1, MergeAdds
    <3> QED
      BY <1>4, <3>1
  <2>2. CASE m.status # "done"
    BY <1>1, <1>4, <2>2
  <2> QED
    BY <2>1, <2>2
<1>6. TellsAreVisible'
  BY <1>1 DEF ItemsAreExplained, TellsAreVisible
<1>7. MessagesBringItems'
  <2> SUFFICES ASSUME NEW k \in DOMAIN wire', NEW f \in wire'[k].feeds
               PROVE  /\ wire'[k].status = "done"
                      /\ LinksOf(ItemsOf[f]) \subseteq LinksOf(wire'[k].items)
    BY DEF MessagesBringItems, LinksOf
  <2>1. k + 1 \in DOMAIN wire /\ wire'[k] = wire[k + 1]
    BY <1>2
  <2> QED
    BY <1>1, <2>1 DEF ItemsAreExplained, MessagesBringItems
<1>8. ASSUME NEW q, NEW f, StaysOnPage(q, f) PROVE StaysOnPage(q, f)'
  <2>1. LinksOf(ItemsOf[f]) \subseteq LinksOf(feedItems')
    BY <1>5, <1>8 DEF StaysOnPage
  <2>2. LinksOf(feedItems') = LinksOf(feedItems)'
    BY DEF LinksOf
  <2> QED
    BY <1>1, <1>8, <2>1, <2>2 DEF StaysOnPage
<1>9. ASSUME NEW k \in DOMAIN wire, NEW q, NEW f, Brings(k, q, f)
      PROVE  \/ <<q, f>> \in raced'
             \/ \E j \in DOMAIN wire' : Brings(j, q, f)'
             \/ StaysOnPage(q, f)'
  <2>1. CASE k # 1
    <3>1. k - 1 \in DOMAIN wire' /\ wire'[k - 1] = wire[k]
      BY <1>2, <2>1
    <3> QED
      BY <1>9, <3>1 DEF Brings
  <2>2. CASE k = 1
    <3>1. m.id = q /\ f \in m.feeds
      BY <1>2, <1>9, <2>2 DEF Brings
    <3>2. LinksOf(ItemsOf[f]) \subseteq LinksOf(feedItems')
      BY <1>5, <3>1
    <3>3. LinksOf(feedItems') = LinksOf(feedItems)'
      BY DEF LinksOf
    <3>4. <<q, f>> \in {m.id} \X m.feeds
      BY <3>1
    <3>5. CASE \E l \in Loads : load[l].step = "served" /\ <<q, f>> \notin load[l].read
      BY <1>1, <3>4, <3>5
    <3>6. CASE \A l \in Loads : load[l].step = "served" => <<q, f>> \in load[l].read
      BY <1>1, <3>2, <3>3, <3>6 DEF StaysOnPage
    <3> QED
      BY <3>5, <3>6
  <2> QED
    BY <2>1, <2>2
<1>10. raced \subseteq raced'
  BY <1>1
<1>11. TellsArrive'
  <2> SUFFICES ASSUME NEW t \in told, NEW f \in t[2].feeds
               PROVE  \/ t[1] \in missed'
                      \/ <<t[1], f>> \in raced'
                      \/ \E k \in DOMAIN wire' : Brings(k, t[1], f)'
                      \/ StaysOnPage(t[1], f)'
    BY <1>1 DEF TellsArrive
  <2> QED
    BY <1>1, <1>8, <1>9, <1>10 DEF ItemsAreExplained, TellsArrive
<1> QED
  BY <1>6, <1>7, <1>11 DEF ItemsAreExplained

LEMMA LossItems == ASSUME InductiveInv, ConnectionIsLost PROVE ItemsAreExplained'
<1>1. /\ missed' = missed \union {wire[k].id : k \in DOMAIN wire} /\ wire' = <<>>
      /\ UNCHANGED <<feedItems, load, visible, told, raced>> /\ ItemsAreExplained
  BY DEF ConnectionIsLost, pageVars, callVars, railsVars, InductiveInv
<1>2. TellsAreVisible' /\ MessagesBringItems'
  BY <1>1 DEF ItemsAreExplained, TellsAreVisible, MessagesBringItems
<1>3. \A q, f : StaysOnPage(q, f) => StaysOnPage(q, f)'
  BY <1>1 DEF StaysOnPage
<1>4. TellsArrive'
  BY <1>1, <1>3 DEF ItemsAreExplained, TellsArrive, Brings
<1> QED
  BY <1>2, <1>4 DEF ItemsAreExplained

LEMMA ItemsStep == InductiveInv /\ [Next]_vars => ItemsAreExplained'
<1> SUFFICES ASSUME InductiveInv, [Next]_vars PROVE ItemsAreExplained'
  OBVIOUS
<1> USE DEF pageVars, callVars, cableVars, railsVars, history
<1>1. ASSUME NEW l \in Loads, ReadItems(l) \/ LoadReturns(l) \/ LoadThrows(l)
      PROVE  ItemsAreExplained'
  BY <1>1, LoadItems
<1>2. ASSUME NEW r \in Requests, NEW o \in Service!Outcomes, TellOutcome(r, o)
      PROVE  ItemsAreExplained'
  BY <1>2, TellItems
<1>3. CASE handleBroadcastMessage
  BY <1>3, BroadcastItems
<1>4. CASE ConnectionIsLost
  BY <1>4, LossItems
<1>5. ASSUME UNCHANGED <<feedItems, load, wire, told, missed, raced>>, visible \subseteq visible'
      PROVE  ItemsAreExplained'
  BY <1>5, ItemsStay DEF InductiveInv
<1>6. CASE Form
  BY <1>5, <1>6
  DEF Form, handleUrlChange, addField, removeField, handleSubmit, FormStep
<1>7. CASE SubmitReturns \/ SubmitThrows \/ Subscribed \/ CloseBanner
  BY <1>5, <1>7 DEF SubmitReturns, SubmitThrows, Subscribed, CloseBanner
<1>8. ASSUME NEW r \in Requests, CreateRequest(r) \/ TimerFires(r) PROVE ItemsAreExplained'
  BY <1>5, <1>8 DEF CreateRequest, TimerFires
<1>9. ASSUME NEW r \in Requests, NEW f \in Feeds, ShowItems(r, f) PROVE ItemsAreExplained'
  BY <1>5, <1>9 DEF ShowItems, Service!Show
<1>10. CASE UNCHANGED vars
  BY <1>5, <1>10 DEF vars
<1> QED
  BY <1>1, <1>2, <1>3, <1>4, <1>6, <1>7, <1>8, <1>9, <1>10 DEF Next

----------------------------------------------------------------------------
(* What is on the page is what a reload would find *)

\* Nothing comes, and what can be seen stays.
LEMMA ShownStay ==
    ASSUME ItemsAreShown, visible \subseteq visible', UNCHANGED <<feedItems, load, wire>>
    PROVE  ItemsAreShown'
<1>1. Shown \subseteq Shown'
  BY DEF Shown
<1>2. ComeFrom(feedItems, Shown')
  BY <1>1, ComeFromMore DEF ItemsAreShown
<1>3. \A k \in DOMAIN wire : ComeFrom(wire[k].items, Shown')
  BY <1>1, ComeFromMore DEF ItemsAreShown
<1> QED
  BY <1>2, <1>3 DEF ItemsAreShown, ComeFrom

\* What can be seen stays the same.
LEMMA ShownAgain ==
    ASSUME visible' = visible, \A l \in Loads : load'[l].read \subseteq visible,
           ComeFrom(feedItems', Shown), \A k \in DOMAIN wire' : ComeFrom(wire'[k].items, Shown)
    PROVE  ItemsAreShown'
<1>1. Shown' = Shown
  BY DEF Shown
<1>2. ComeFrom(feedItems', Shown')
  BY <1>1
<1>3. \A k \in DOMAIN wire' : ComeFrom(wire'[k].items, Shown')
  BY <1>1
<1> QED
  BY <1>2, <1>3 DEF ItemsAreShown, ComeFrom

LEMMA LoadShown ==
    ASSUME TypeOK, ItemsAreShown, NEW l \in Loads, ReadItems(l) \/ LoadReturns(l) \/ LoadThrows(l)
    PROVE  ItemsAreShown'
<1>1. /\ load \in [Loads -> [step : {"asked", "served", "ended"},
                            read : SUBSET (Requests \X Feeds)]]
      /\ visible \subseteq Requests \X Feeds
      /\ \A m \in Loads : load[m].read \subseteq visible
  BY DEF TypeOK, ItemsAreShown
<1>2. UNCHANGED <<visible, wire>>
  BY DEF ReadItems, LoadReturns, LoadThrows, railsVars, cableVars
<1>3. \A m \in Loads : load'[m].read \subseteq visible
  <2>1. CASE ReadItems(l)
    BY <1>1, <1>2, <2>1 DEF ReadItems
  <2>2. CASE LoadReturns(l) \/ LoadThrows(l)
    BY <1>1, <1>2, <2>2 DEF LoadReturns, LoadThrows, LoadEnds
  <2> QED
    BY <2>1, <2>2
<1>4. \A k \in DOMAIN wire' : ComeFrom(wire'[k].items, Shown)
  BY <1>2 DEF ItemsAreShown
<1>5. ComeFrom(feedItems', Shown)
  <2>1. CASE LoadReturns(l)
    <3> DEFINE feeds == {p[2] : p \in load[l].read}
    <3>1. feedItems' \in AnyOrder(load[l].read)
      BY <2>1 DEF LoadReturns, ItemAnswers
    <3>2. PICK s \in Orders(Cells(feeds)) : feedItems' = [n \in DOMAIN s |-> ItemAt(s[n])]
      BY <3>1 DEF AnyOrder
    <3>3. feeds \subseteq Shown
      BY <1>1 DEF Shown
    <3> HIDE DEF feeds
    <3>4. ComeFrom(feedItems', feeds)
      BY <3>2, ArrangementComesFrom
    <3> QED
      BY <3>3, <3>4, ComeFromMore
  <2>2. CASE ReadItems(l) \/ LoadThrows(l)
    BY <2>2 DEF ReadItems, LoadThrows, pageVars, ItemsAreShown
  <2> QED
    BY <2>1, <2>2
<1> QED
  BY <1>2, <1>3, <1>4, <1>5, ShownAgain

LEMMA TellShown ==
    ASSUME TypeOK, ItemsAreShown,
           NEW r \in Requests, NEW o \in Service!Outcomes, TellOutcome(r, o)
    PROVE  ItemsAreShown'
<1>1. /\ {r} \X o.feeds \subseteq visible /\ wire \in Seq(Messages)
      /\ UNCHANGED <<visible, feedItems, load>>
  BY DEF TellOutcome, Service!Tell, pageVars, callVars, TypeOK
<1>2. CASE ~streaming
  BY <1>1, <1>2, ShownStay DEF TellOutcome
<1>3. CASE streaming
  <2>1. PICK items \in SentItems(o.feeds), errors \in Errors(r, o) :
              wire' = Append(wire, Message(r, o, items, errors))
    BY <1>3 DEF TellOutcome
  <2>2. PICK K \in Listed(o.feeds) :
            \E s \in Orders(K) : items = [n \in DOMAIN s |-> Sent(ItemAt(s[n]))]
    BY DEF SentItems
  <2>3. PICK s \in Orders(K) : items = [n \in DOMAIN s |-> Sent(ItemAt(s[n]))]
    BY <2>2
  <2>4. K \subseteq Cells(o.feeds)
    BY DEF Listed
  <2>5. ComeFrom(items, o.feeds)
    BY <2>3, <2>4, ArrangementComesFrom
  <2>6. o.feeds \subseteq Shown
    <3>1. \A f \in o.feeds : <<r, f>> \in visible /\ <<r, f>>[2] = f
      BY <1>1
    <3> QED
      BY <3>1 DEF Shown
  <2>7. ComeFrom(items, Shown)
    BY <2>5, <2>6, ComeFromMore
  <2> DEFINE m == Message(r, o, items, errors)
  <2>8. m \in Messages /\ m.items = items
    <3>1. asked \in [Requests -> SUBSET Feeds]
      BY DEF TypeOK
    <3>2. m \in Messages
      BY <3>1, MessageType
    <3> QED
      BY <3>2 DEF Message
  <2> HIDE DEF m
  <2>9. /\ DOMAIN wire = 1 .. Len(wire) /\ Len(wire) \in Nat
        /\ DOMAIN wire' = 1 .. Len(wire) + 1
        /\ \A k \in 1 .. Len(wire) : wire'[k] = wire[k]
        /\ wire'[Len(wire) + 1] = m
    BY <1>1, <2>1, <2>8 DEF m
  <2>10. ASSUME NEW k \in DOMAIN wire' PROVE ComeFrom(wire'[k].items, Shown)
    <3>1. CASE k = Len(wire) + 1
      BY <2>7, <2>8, <2>9, <3>1
    <3>2. CASE k # Len(wire) + 1
      <4>1. k \in DOMAIN wire /\ wire'[k] = wire[k]
        BY <2>9, <3>2
      <4> QED
        BY <4>1 DEF ItemsAreShown
    <3> QED
      BY <3>1, <3>2
  <2>11. /\ visible' = visible /\ \A l \in Loads : load'[l].read \subseteq visible
         /\ ComeFrom(feedItems', Shown)
    BY <1>1 DEF ItemsAreShown
  <2> QED
    BY <2>10, <2>11, ShownAgain
<1> QED
  BY <1>2, <1>3

LEMMA BroadcastShown ==
    ASSUME TypeOK, ItemsAreShown, handleBroadcastMessage PROVE ItemsAreShown'
<1> DEFINE m == Head(wire)
<1>1. /\ wire # <<>> /\ wire' = Tail(wire)
      /\ feedItems' \in IF m.status = "done" THEN Merge(m.items) ELSE {feedItems}
      /\ UNCHANGED <<load, visible>>
      /\ wire \in Seq(Messages) /\ feedItems \in Seq(PageItems)
  BY DEF handleBroadcastMessage, railsVars, TypeOK
<1>2. /\ DOMAIN wire = 1 .. Len(wire) /\ Len(wire) \in Nat /\ 1 \in DOMAIN wire /\ m = wire[1]
      /\ DOMAIN wire' = 1 .. Len(wire) - 1
      /\ \A k \in 1 .. Len(wire) - 1 : wire'[k] = wire[k + 1]
      /\ m \in Messages
  BY <1>1
<1>3. m.items \in Seq(PageItems)
  BY <1>2 DEF Messages
<1>4. ComeFrom(m.items, Shown) /\ ComeFrom(feedItems, Shown)
  BY <1>2 DEF ItemsAreShown
<1> HIDE DEF m
<1>5. ComeFrom(feedItems', Shown)
  <2>1. CASE m.status = "done"
    <3>1. feedItems' \in Merge(m.items)
      BY <1>1, <2>1
    <3> QED
      BY <1>1, <1>3, <1>4, <3>1, MergeComesFrom
  <2>2. CASE m.status # "done"
    BY <1>1, <1>4, <2>2
  <2> QED
    BY <2>1, <2>2
<1>6. ASSUME NEW k \in DOMAIN wire' PROVE ComeFrom(wire'[k].items, Shown)
  <2>1. k + 1 \in DOMAIN wire /\ wire'[k] = wire[k + 1]
    BY <1>2
  <2> QED
    BY <2>1 DEF ItemsAreShown
<1>7. visible' = visible /\ \A l \in Loads : load'[l].read \subseteq visible
  BY <1>1 DEF ItemsAreShown
<1> QED
  BY <1>5, <1>6, <1>7, ShownAgain

LEMMA ShownStep == InductiveInv /\ [Next]_vars => ItemsAreShown'
<1> SUFFICES ASSUME TypeOK, ItemsAreShown, [Next]_vars PROVE ItemsAreShown'
  BY DEF InductiveInv
<1> USE DEF pageVars, callVars, cableVars, railsVars, history
<1>1. ASSUME NEW l \in Loads, ReadItems(l) \/ LoadReturns(l) \/ LoadThrows(l)
      PROVE  ItemsAreShown'
  BY <1>1, LoadShown
<1>2. ASSUME NEW r \in Requests, NEW o \in Service!Outcomes, TellOutcome(r, o)
      PROVE  ItemsAreShown'
  BY <1>2, TellShown
<1>3. CASE handleBroadcastMessage
  BY <1>3, BroadcastShown
<1>4. CASE ConnectionIsLost
  <2>1. wire' = <<>> /\ UNCHANGED <<visible, load, feedItems>>
    BY <1>4 DEF ConnectionIsLost
  <2>2. /\ \A l \in Loads : load'[l].read \subseteq visible
        /\ ComeFrom(feedItems', Shown)
    BY <2>1 DEF ItemsAreShown
  <2>3. \A k \in DOMAIN wire' : ComeFrom(wire'[k].items, Shown)
    BY <2>1
  <2> QED
    BY <2>1, <2>2, <2>3, ShownAgain
<1>5. ASSUME UNCHANGED <<feedItems, load, wire>>, visible \subseteq visible' PROVE ItemsAreShown'
  BY <1>5, ShownStay
<1>6. CASE Form
  BY <1>5, <1>6
  DEF Form, handleUrlChange, addField, removeField, handleSubmit, FormStep
<1>7. CASE SubmitReturns \/ SubmitThrows \/ Subscribed \/ CloseBanner
  BY <1>5, <1>7 DEF SubmitReturns, SubmitThrows, Subscribed, CloseBanner
<1>8. ASSUME NEW r \in Requests, CreateRequest(r) \/ TimerFires(r) PROVE ItemsAreShown'
  BY <1>5, <1>8 DEF CreateRequest, TimerFires
<1>9. ASSUME NEW r \in Requests, NEW f \in Feeds, ShowItems(r, f) PROVE ItemsAreShown'
  BY <1>5, <1>9 DEF ShowItems, Service!Show
<1>10. CASE UNCHANGED vars
  BY <1>5, <1>10 DEF vars
<1> QED
  BY <1>1, <1>2, <1>3, <1>4, <1>6, <1>7, <1>8, <1>9, <1>10 DEF Next

\* With all links on the page, none of them twice and no two dates the same, the page and
\* the answer to a reload arrange the same items.
LEMMA SameItems ==
    ASSUME TypeOK, ItemsAreShown, NEW answer \in ItemAnswers(visible), Distinct(answer),
           LinksOf(answer) = LinksOf(feedItems),
           \A k \in DOMAIN feedItems : ~IsInvalid(feedItems[k].date)
    PROVE  Dated(answer) /\ Dated(feedItems) /\ ToSet(answer) = ToSet(feedItems)
<1> DEFINE cells == Cells(Shown)
<1>1. /\ visible \subseteq Requests \X Feeds /\ feedItems \in Seq(PageItems)
      /\ Shown \subseteq Feeds
  BY DEF TypeOK, Shown
<1>2. PICK s \in Orders(cells) : answer = [n \in DOMAIN s |-> ItemAt(s[n])]
  BY DEF ItemAnswers, AnyOrder, Shown
<1>3. /\ IsFiniteSet(cells)
      /\ \A c \in cells : ItemAt(c) \in [link : LinksOf(ItemsOf[c[1]]), date : Nat]
  BY <1>1, CellFacts
<1>4. ComeFrom(feedItems, Shown)
  BY DEF ItemsAreShown
<1> HIDE DEF cells
<1>5. /\ \A c \in cells : \E n \in DOMAIN s : s[n] = c
      /\ \A n \in DOMAIN s : s[n] \in cells
  BY <1>3, OrderFacts
<1>6. DOMAIN answer = DOMAIN s /\ \A n \in DOMAIN s : answer[n] = ItemAt(s[n])
  BY <1>2
<1>7. \A c \in cells : ItemAt(c).date \in Nat
                       /\ ItemAt(c) = [link |-> ItemAt(c).link, date |-> ItemAt(c).date]
  BY <1>3
<1>8. ASSUME NEW c \in cells PROVE ItemAt(c) \in ToSet(answer)
  BY <1>5, <1>6 DEF ToSet
<1>9. ASSUME NEW c \in cells, NEW d \in cells, ItemAt(c).link = ItemAt(d).link PROVE c = d
  <2>1. PICK i \in DOMAIN s : s[i] = c
    BY <1>5
  <2>2. PICK j \in DOMAIN s : s[j] = d
    BY <1>5
  <2>3. i = j
    BY <1>6, <1>9, <2>1, <2>2 DEF Distinct
  <2> QED
    BY <2>1, <2>2, <2>3
<1>10. Dated(answer)
  <2>1. \A n \in DOMAIN answer : ~IsInvalid(answer[n].date)
    BY <1>5, <1>6, <1>7 DEF IsInvalid, ZeroDate
  <2> QED
    BY <2>1 DEF Dated, Comparable, Distinct
<1>11. ASSUME NEW k \in DOMAIN feedItems PROVE \E c \in cells : feedItems[k] = ItemAt(c)
  <2>1. PICK c \in cells : feedItems[k] \in {ItemAt(c), Sent(ItemAt(c))}
    BY <1>4 DEF ComeFrom, cells
  <2>2. CASE feedItems[k] = Sent(ItemAt(c))
    <3>1. ItemAt(c).date # Null
      <4>1. feedItems[k].date # ZeroDate
        BY DEF IsInvalid
      <4> QED
        BY <2>2, <4>1 DEF Sent
    <3>2. Sent(ItemAt(c)) = ItemAt(c)
      BY <1>7, <3>1 DEF Sent
    <3> QED
      BY <2>2, <3>2
  <2> QED
    BY <2>1, <2>2
<1>12. ASSUME NEW j \in DOMAIN feedItems, NEW k \in DOMAIN feedItems, j # k
       PROVE  feedItems[j].link # feedItems[k].link
  <2> SUFFICES ASSUME feedItems[j].link = feedItems[k].link PROVE FALSE
    OBVIOUS
  <2>1. PICK c \in cells, d \in cells :
            c # d /\ ItemAt(c).link = feedItems[k].link /\ ItemAt(d).link = feedItems[k].link
    BY <1>4, <1>12 DEF ComeFrom, cells
  <2> QED
    BY <1>9, <2>1
<1>13. Dated(feedItems)
  <2> SUFFICES ASSUME NEW j \in DOMAIN feedItems, NEW k \in DOMAIN feedItems, j # k
               PROVE  feedItems[j].date # feedItems[k].date
    BY DEF Dated, Comparable
  <2>1. PICK c \in cells : feedItems[j] = ItemAt(c)
    BY <1>11
  <2>2. PICK d \in cells : feedItems[k] = ItemAt(d)
    BY <1>11
  <2>3. c # d
    BY <1>12, <2>1, <2>2
  <2>4. PICK i \in DOMAIN s : s[i] = c
    BY <1>5
  <2>5. PICK n \in DOMAIN s : s[n] = d
    BY <1>5
  <2>6. answer[i].date # answer[n].date
    BY <1>6, <2>3, <2>4, <2>5 DEF Distinct
  <2> QED
    BY <1>6, <2>1, <2>2, <2>4, <2>5, <2>6
<1>14. ToSet(feedItems) \subseteq ToSet(answer)
  BY <1>8, <1>11 DEF ToSet
<1>15. ToSet(answer) \subseteq ToSet(feedItems)
  <2> SUFFICES ASSUME NEW n \in DOMAIN answer PROVE answer[n] \in ToSet(feedItems)
    BY DEF ToSet
  <2>1. answer[n].link \in LinksOf(feedItems)
    BY DEF LinksOf, ToSet
  <2>2. PICK k \in DOMAIN feedItems : feedItems[k].link = answer[n].link
    BY <2>1 DEF LinksOf, ToSet
  <2>3. PICK c \in cells : feedItems[k] = ItemAt(c)
    BY <1>11
  <2>4. c = s[n]
    BY <1>5, <1>6, <1>9, <2>2, <2>3
  <2>5. feedItems[k] = answer[n]
    BY <1>6, <2>3, <2>4
  <2> QED
    BY <2>5 DEF ToSet
<1> QED
  BY <1>10, <1>13, <1>14, <1>15

\* So it shows them alike.
LEMMA ShownAlike == InductiveInv => LiveMatchesReload
<1> SUFFICES ASSUME TypeOK, ItemsAreShown, NEW answer \in ItemAnswers(visible), Distinct(answer),
                    LinksOf(answer) = LinksOf(feedItems),
                    \A k \in DOMAIN feedItems : ~IsInvalid(feedItems[k].date)
             PROVE  sortedItems(feedItems) = sortedItems(answer)
  BY DEF InductiveInv, LiveMatchesReload
<1> DEFINE L == UNION {LinksOf(ItemsOf[f]) : f \in Feeds}
<1>1. PageItems = Items(L)
  BY DEF PageItems, Items, Dates
<1>2. feedItems \in Seq(Items(L)) /\ answer \in Seq(Items(L))
  <2>1. visible \subseteq Requests \X Feeds /\ feedItems \in Seq(PageItems)
    BY DEF TypeOK
  <2>2. answer \in Seq(PageItems)
    BY <2>1, AnswersShowAll
  <2> QED
    BY <1>1, <2>1, <2>2
<1>3. Dated(answer) /\ Dated(feedItems) /\ ToSet(answer) = ToSet(feedItems)
  BY SameItems
<1> HIDE DEF L
<1> QED
  BY <1>2, <1>3, OneOrder

\* Items that came from feeds and can be compared are listed from the newest, those
\* without a date at the end.
LEMMA NewestShownFirst ==
    TypeOK /\ ItemsAreShown /\ Comparable(feedItems) => NewestFirst
<1> SUFFICES ASSUME TypeOK, ItemsAreShown, Comparable(feedItems) PROVE NewestFirst
  OBVIOUS
<1> DEFINE L == UNION {LinksOf(ItemsOf[f]) : f \in Feeds}
           n == Len(feedItems)
           t == Sort(feedItems)
<1>1. feedItems \in Seq(Items(L))
  <2>1. PageItems = Items(L)
    BY DEF PageItems, Items, Dates
  <2> QED
    BY <2>1 DEF TypeOK
<1> HIDE DEF L
<1>2. n \in Nat /\ n \in 0 .. n /\ DOMAIN feedItems = 1 .. n
  BY <1>1
<1>3. Arranged(t, feedItems, n)
  BY <1>1, SortIsStable
<1>4. t \in Seq(Items(L)) /\ Len(t) = n /\ Comparable(t) /\ Falls(t)
  BY <1>1, <1>2, <1>3, ArrangedFacts
<1>5. ASSUME NEW k \in DOMAIN feedItems PROVE feedItems[k].date \in Nat
  <2>1. Shown \subseteq Feeds
    BY DEF TypeOK, Shown
  <2>2. PICK c \in Cells(Shown) : feedItems[k] \in {ItemAt(c), Sent(ItemAt(c))}
    BY DEF ItemsAreShown, ComeFrom
  <2>3. ItemAt(c) \in [link : LinksOf(ItemsOf[c[1]]), date : Nat]
    BY <2>1, CellFacts
  <2>4. feedItems[k].date # ZeroDate
    BY DEF Comparable, IsInvalid
  <2>5. CASE feedItems[k] = Sent(ItemAt(c))
    BY <2>3, <2>4, <2>5 DEF Sent
  <2> QED
    BY <2>2, <2>3, <2>5
<1>6. PICK q : Arranges(q, feedItems, n) /\ t = [k \in 1 .. n |-> feedItems[q[k]]]
  BY <1>3 DEF Arranged
<1> HIDE DEF t, n
<1>7. DOMAIN t = 1 .. n /\ \A k \in 1 .. n : t[k].date \in Nat
  BY <1>2, <1>5, <1>6 DEF Arranges
<1> DEFINE shown == sortedItems(feedItems)
<1>8. /\ DOMAIN shown = 1 .. n
      /\ \A k \in 1 .. n : shown[k].shows = formatDate(t[k].date)
  BY <1>7 DEF sortedItems, t
<1>9. ASSUME NEW k \in 1 .. n PROVE formatDate(t[k].date) = t[k].date
  BY <1>7 DEF formatDate, Null, Blank, IsInvalid, Time
<1> HIDE DEF shown
<1>10. ASSUME NEW i \in 1 .. n, NEW j \in 1 .. n, i < j
       PROVE  \/ shown[j].shows \in {Blank, ZeroDate}
              \/ /\ shown[i].shows \notin {Blank, ZeroDate}
                 /\ shown[i].shows >= shown[j].shows
  <2>1. t[j].date <= t[i].date /\ t[i].date \in Nat /\ t[j].date \in Nat
    BY <1>4, <1>7, <1>10 DEF Falls
  <2>2. shown[i].shows = t[i].date /\ shown[j].shows = t[j].date
    BY <1>8, <1>9
  <2> QED
    BY <2>1, <2>2 DEF Blank, ZeroDate
<1> QED
  BY <1>8, <1>10 DEF NewestFirst, shown

----------------------------------------------------------------------------
(* The theorems *)

LEMMA InitInductive == Init => InductiveInv
<1> SUFFICES ASSUME Init PROVE InductiveInv
  OBVIOUS
<1>1. Earlier \in Requests
  BY BoundsAssumption DEF Earlier, Requests
<1>2. TypeOK
  <2> USE DEF Init
  <2>1. urls \in Seq(Feeds \union {NoUrl}) /\ urls # <<>>
    OBVIOUS
  <2>2. feedItems \in Seq(PageItems) /\ wire \in Seq(Messages)
    OBVIOUS
  <2>3. post \in [step : {"none", "sent", "served"}, urls : SUBSET Feeds, id : Requests]
    BY <1>1 DEF NoPost
  <2>4. /\ rows \in [Requests -> Statuses] /\ timers \in [Requests -> Nat]
        /\ load \in [Loads -> [step : {"asked", "served", "ended"},
                               read : SUBSET (Requests \X Feeds)]]
        /\ asked \in [Requests -> SUBSET Feeds]
    BY UrlsAssumption DEF Statuses
  <2>5. /\ loading \in BOOLEAN /\ streaming \in BOOLEAN
        /\ error \in Banners /\ drops \in 0 .. MaxDrops
    <3>1. MaxDrops \in Nat
      BY BoundsAssumption
    <3>2. drops \in 0 .. MaxDrops
      BY <3>1
    <3> QED
      BY <3>2 DEF Banners
  <2>6. /\ visible \subseteq Requests \X Feeds /\ told \subseteq Requests \X Service!Outcomes
        /\ missed \subseteq Requests /\ early \subseteq Requests
        /\ raced \subseteq Requests \X Feeds
    BY DEF Service!Init
  <2> QED
    BY <2>1, <2>2, <2>3, <2>4, <2>5, <2>6 DEF TypeOK
<1>3. told = {} /\ wire = <<>> /\ post.step = "none" /\ \A r \in Requests : rows[r] = "none"
  BY DEF Init, NoPost, Service!Init
<1>4. RowsAreExplained
  BY <1>3 DEF RowsAreExplained, RowsAreCreated, AnswerComesFirst, StuckRowHasReason, Told
<1>5. ItemsAreExplained
  BY <1>3 DEF ItemsAreExplained, TellsAreVisible, MessagesBringItems, TellsArrive
<1>6. ItemsAreShown
  BY DEF Init, ItemsAreShown, ComeFrom
<1> QED
  BY <1>2, <1>4, <1>5, <1>6 DEF InductiveInv

LEMMA RowsStep == InductiveInv /\ [Next]_vars => RowsAreExplained'
<1> SUFFICES ASSUME InductiveInv, [Next]_vars PROVE RowsAreExplained'
  OBVIOUS
<1>1. CASE Form
  BY <1>1, FormStepKeeps
<1>2. CASE SubmitReturns \/ SubmitThrows
  BY <1>2, AnswerKeeps
<1>3. ASSUME NEW r \in Requests, CreateRequest(r) \/ TimerFires(r) PROVE RowsAreExplained'
  BY <1>3, CreateKeeps, TimerKeeps
<1>4. ASSUME NEW l \in Loads, ReadItems(l) \/ LoadReturns(l) \/ LoadThrows(l)
      PROVE  RowsAreExplained'
  BY <1>4, OtherStep
  DEF ReadItems, LoadReturns, LoadThrows, pageVars, cableVars, railsVars, history
<1>5. CASE Subscribed
  BY <1>5, OtherStep DEF Subscribed, pageVars, callVars, railsVars, history
<1>6. CASE ConnectionIsLost
  BY <1>6, LossKeeps
<1>7. ASSUME NEW r \in Requests, NEW f \in Feeds, ShowItems(r, f) PROVE RowsAreExplained'
  BY <1>7, OtherStep DEF ShowItems, Service!Show, pageVars, callVars, cableVars, history
<1>8. ASSUME NEW r \in Requests, NEW o \in Service!Outcomes, TellOutcome(r, o)
      PROVE  RowsAreExplained'
  BY <1>8, TellKeeps
<1>9. CASE handleBroadcastMessage
  BY <1>9, BroadcastKeeps
<1>10. CASE CloseBanner
  BY <1>10, OtherStep DEF CloseBanner, callVars, cableVars, railsVars, history
<1>11. CASE UNCHANGED vars
  BY <1>11, OtherStep DEF vars, pageVars, callVars, cableVars, railsVars, history
<1> QED
  BY <1>1, <1>2, <1>3, <1>4, <1>5, <1>6, <1>7, <1>8, <1>9, <1>10, <1>11 DEF Next

\* The reasons for rows that stay pending and for items that are missing are inductive
\* with the types, with what is known before the answer to a submission, and with what
\* every broadcast and load brings (App.jsx:49-102 and 135-138).
THEOREM InductiveInvariant == Spec => []InductiveInv
<1>1. InductiveInv /\ [Next]_vars => InductiveInv'
  BY TypeStep, RowsStep, ItemsStep, ShownStep DEF InductiveInv
<1> QED
  BY InitInductive, <1>1, PTL DEF Spec

\* Every variable of the page, its calls, the cable and Rails keeps its type.
THEOREM TypeCorrect == Spec => []TypeOK
<1>1. InductiveInv => TypeOK
  BY DEF InductiveInv
<1> QED
  BY <1>1, InductiveInvariant, PTL

\* For any feeds, items, submissions and losses of the connection: the row of a request
\* that was broadcast goes on saying pending only while the message is on its way, when
\* it did not reach the page, or when it came before the row (App.jsx:51-62, 94-102).
THEOREM StuckRowsHaveReasons == Spec => []StuckRowHasReason
<1>1. InductiveInv => StuckRowHasReason
  BY DEF InductiveInv, RowsAreExplained
<1> QED
  BY <1>1, InductiveInvariant, PTL

\* For any feeds, items, loads and losses of the connection: what the user was told of is
\* on the page, comes with a message that is on its way, or is missing because a broadcast
\* found no subscription or overtook the answer of a load (App.jsx:71-77 and 135-138).
THEOREM MissingItemsHaveReasons == Spec => []MissingHasReason
<1>1. InductiveInv => MissingHasReason
  BY DEF InductiveInv, ItemsAreExplained, TellsArrive, MissingHasReason, StaysOnPage, Brings,
         OnWire
<1> QED
  BY <1>1, InductiveInvariant, PTL

\* For any feeds, items, loads and losses of the connection: a page that has the links of
\* all that Rails shows lists the cards that it would list after a reload, in the same
\* order, unless items share a link or a day or an undated one came with a broadcast
\* (App.jsx:71-77, FeedList.jsx:7-11, feed_items_controller.rb:4-8).
THEOREM LivePageMatchesReload == Spec => []LiveMatchesReload
BY ShownAlike, InductiveInvariant, PTL

\* For any feeds, items, loads and losses of the connection: the list is from the newest
\* item, with the undated ones at the end, while no item of the page has the zero date of
\* a broadcast. What refutes NewestFirst needs such an item (FeedList.jsx:6-11,
\* process_feed_result_job.rb:59-64).
THEOREM NewestFirstUnlessZeroDate ==
    Spec => [](Comparable(feedItems) => NewestFirst)
<1>1. InductiveInv /\ Comparable(feedItems) => NewestFirst
  BY NewestShownFirst DEF InductiveInv
<1> QED
  BY <1>1, InductiveInvariant, PTL
=============================================================================
