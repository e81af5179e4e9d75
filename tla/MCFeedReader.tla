--------------------------- MODULE MCFeedReader ----------------------------
(* FeedReader on a small instance. *)
EXTENDS FeedReader

CONSTANTS u1, u2, a

TwoUrls == {u1, u2}

\* The feeds share the link a; each has an item without link, one of them undated.
Feeds ==
    u1 :> <<[link |-> a, date |-> 2], [link |-> NoLink, date |-> 0]>> @@
    u2 :> <<[link |-> NoLink, date |-> 3], [link |-> a, date |-> 1]>>

\* More URLs than places, and one of them twice.
List == <<u1, u2, u1>>
=============================================================================
