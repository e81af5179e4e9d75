----------------------------- MODULE FeedList ------------------------------
(***************************************************************************)
(* What the page shows of an array of items: FeedList sorts a copy with     *)
(* Array.prototype.sort and FeedItem formats each date.  An item is its     *)
(* link and its publish_date as the page got it.  Pure definitions.         *)
(***************************************************************************)
EXTENDS SequencesExt

\* A publish_date is a day, a number from 1, or one of these two: undated items
\* come from Postgres with null and from rssservice with "0000-00-00".
Null == 0
ZeroDate == -1

\* What stands where FeedItem shows no date.
Blank == 0

\* new Date: null is the epoch, "0000-00-00" is an Invalid Date.
IsInvalid(date) == date = ZeroDate
Time(date) == date

\* The comparator.  Array.prototype.sort takes the NaN of an Invalid Date for 0.
Compare(a, b) ==
    IF IsInvalid(a.date) \/ IsInvalid(b.date) THEN 0 ELSE Time(b.date) - Time(a.date)

----------------------------------------------------------------------------
(* Array.prototype.sort of V8 on a short array: the run at its start, then    *)
(* binary insertion of what follows.  For a comparator that is an order this  *)
(* is the stable sort that every engine computes; for this one it may not be. *)

\* The length of the longest start of s that is strictly descending, or that
\* never descends, as its first two elements say.
Descends(s) == Len(s) > 1 /\ Compare(s[2], s[1]) < 0

RunLength(s) ==
    CHOOSE n \in 0 .. Len(s) :
        /\ \A k \in 2 .. n : (Compare(s[k], s[k - 1]) < 0) = Descends(s)
        /\ n < Len(s) => n > 0 /\ (Compare(s[n + 1], s[n]) < 0) # Descends(s)

Run(s) ==
    LET run == SubSeq(s, 1, RunLength(s))
    IN IF Descends(s) THEN Reverse(run) ELSE run

\* Binary search for the place of x in s, after its equals: what each turn of the
\* loop makes of the part that is left.
Halve(part, x, s) ==
    LET mid == (part.left + part.right) \div 2
    IN IF part.left >= part.right THEN part
       ELSE IF Compare(x, s[mid]) < 0 THEN [part EXCEPT !.right = mid]
                                      ELSE [part EXCEPT !.left = mid + 1]

PlaceFor(x, s) ==
    LET part[n \in 0 .. Len(s)] ==
            IF n = 0 THEN [left |-> 1, right |-> Len(s) + 1] ELSE Halve(part[n - 1], x, s)
    IN part[Len(s)].left

Insert(x, s) == InsertAt(s, PlaceFor(x, s), x)

Sort(s) ==
    LET sorted[n \in 0 .. Len(s)] ==
            IF n <= RunLength(s) THEN Run(s) ELSE Insert(s[n], sorted[n - 1])
    IN sorted[Len(s)]

----------------------------------------------------------------------------
\* FeedItem's formatDate: no text for null, the ISO day, or the string itself
\* when it is no date.
formatDate(date) ==
    CASE date = Null -> Blank
      [] IsInvalid(date) -> date
      [] OTHER -> Time(date)

\* The cards of the list, from the top.
sortedItems(items) ==
    LET sorted == Sort(items)
    IN [k \in DOMAIN sorted |-> [link |-> sorted[k].link, shows |-> formatDate(sorted[k].date)]]
=============================================================================
