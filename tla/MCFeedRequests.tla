-------------------------- MODULE MCFeedRequests ---------------------------
(* FeedRequests on small instances. *)
EXTENDS FeedRequests, TLC

CONSTANTS r1, r2, t1, t2, f1

OneRequest == {r1}
TwoRequests == {r1, r2}
OneThread == {t1}
TwoThreads == {t1, t2}
OneFeed == {f1}

\* Every request asks for all the feeds.
AllFeeds == [r \in Requests |-> Feeds]

\* Threads are interchangeable, and so are requests of the same feeds; no property
\* names one.
ActorSymmetry == Permutations(Threads) \union Permutations(Requests)
=============================================================================
