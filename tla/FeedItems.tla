----------------------------- MODULE FeedItems -----------------------------
(***************************************************************************)
(* What feeds contain, and what a call of RssReader.Parse may come to.      *)
(* FeedReader is shown to return one of these outcomes; JobProcessing takes *)
(* any of them in one step.  The feeds themselves are external, and do not  *)
(* change during a behaviour.                                               *)
(***************************************************************************)
EXTENDS SequencesExt

CONSTANTS
    Urls,      \* feed URLs
    NoLink,    \* the empty Link of an item
    FeedOf     \* what each URL serves: a sequence of [link, date], 0 = undated

LinksOf(u) == {e.link : e \in ToSet(FeedOf[u])}

ASSUME FeedsAssumption ==
    DOMAIN FeedOf = Urls /\ \A u \in Urls : FeedOf[u] \in Seq([link : LinksOf(u), date : Nat])

\* RssItem, of which only SourceURL, Link and PublishDate matter here.
ItemsOf(u) == [k \in DOMAIN FeedOf[u] |->
                  [url |-> u, link |-> FeedOf[u][k].link, date |-> FeedOf[u][k].date]]

\* The items of some feeds, one feed after the other: <<n, k>> is the k-th of the n-th.
Places(urls) == UNION {{n} \X DOMAIN FeedOf[urls[n]] : n \in DOMAIN urls}

ItemAt(urls, p) == ItemsOf(urls[p[1]])[p[2]]

Precedes(p, q) == p[1] < q[1] \/ (p[1] = q[1] /\ p[2] < q[2])

\* The places that stay when an item is dropped because an earlier one has its link.
FirstOfLink(urls) ==
    {p \in Places(urls) :
        \/ ItemAt(urls, p).link = NoLink
        \/ \A q \in Places(urls) : Precedes(q, p) => ItemAt(urls, q).link # ItemAt(urls, p).link}

\* The feeds at some positions of urls arrive, in this order; the others fail.
Outcome(urls, order) ==
    LET arrived == [n \in DOMAIN order |-> urls[order[n]]]
    IN [items  |-> {ItemAt(arrived, p) : p \in FirstOfLink(arrived)},
        errors |-> {urls[i] : i \in DOMAIN urls \ ToSet(order)}]

ParseOutcomes(urls) == {Outcome(urls, order) : order \in SetToAllKPermutations(DOMAIN urls)}
=============================================================================
