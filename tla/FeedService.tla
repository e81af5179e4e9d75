---------------------------- MODULE FeedService ----------------------------
(***************************************************************************)
(* What Rails promises the page: a reload shows the items of a feed from    *)
(* some moment on, and a broadcast only tells of items that a reload shows  *)
(* already.  FeedRequests is shown to implement this; Dashboard runs on top *)
(* of it.                                                                   *)
(***************************************************************************)
EXTENDS Integers

CONSTANTS
    Requests,    \* rows of feed_requests
    Feeds        \* feed URLs

VARIABLES
    visible,     \* <<r, f>>: a reload shows the items that r's parse found in f
    told         \* <<r, outcome>>: broadcast to the user

vars == <<visible, told>>

\* A failed request brings no items; a done one may bring none.
Outcomes == [status : {"failed"}, feeds : {{}}] \union [status : {"done"}, feeds : SUBSET Feeds]

Init ==
    /\ visible = {}
    /\ told = {}

\* The last of the rows that FeedItemsController joins is committed.
Show(r, f) ==
    /\ visible' = visible \union {<<r, f>>}
    /\ UNCHANGED told

\* Rows of a user are never deleted, so what was told stays visible.
Tell(r, o) ==
    /\ {r} \X o.feeds \subseteq visible
    /\ told' = told \union {<<r, o>>}
    /\ UNCHANGED visible

Next == \E r \in Requests :
    \/ \E f \in Feeds : Show(r, f)
    \/ \E o \in Outcomes : Tell(r, o)

Spec == Init /\ [][Next]_vars
=============================================================================
