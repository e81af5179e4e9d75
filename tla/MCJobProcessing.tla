-------------------------- MODULE MCJobProcessing --------------------------
(* JobProcessing on a small instance. *)
EXTENDS JobProcessing

CONSTANTS j1, j2, w1, w2, u1, u2, a, b

TwoJobs == {j1, j2}
OnlyJ2 == {j2}
TwoWorkers == {w1, w2}
TwoUrls == {u1, u2}

\* The feeds share the link a; u1 also has an item without a link, and b twice.
Feeds ==
    u1 :> <<[link |-> a, date |-> 0], [link |-> NoLink, date |-> 0],
            [link |-> b, date |-> 0], [link |-> b, date |-> 1]>> @@
    u2 :> <<[link |-> a, date |-> 0]>>

\* j1 asks for both feeds, j2 for one of them.
Lists == j1 :> <<u1, u2>> @@ j2 :> <<u2>>

\* Workers are interchangeable and no property names one.
WorkerSymmetry == Permutations(Workers)
=============================================================================
