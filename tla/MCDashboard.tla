---------------------------- MODULE MCDashboard ----------------------------
(* Dashboard on small instances: two feeds with dates that interleave, and one  *)
(* with an undated item and a link of the first.                               *)
EXTENDS Dashboard, TLC

CONSTANTS f1, f2, f3

TwoFeeds == {f1, f2}
ThreeFeeds == {f1, f2, f3}
Item(link, date) == [link |-> link, date |-> date]
SampleItems ==
    f1 :> <<Item("a", 3), Item("b", 1)>> @@
    f2 :> <<Item("c", 2)>> @@
    f3 :> <<Item("a", 3), Item("d", Null)>>
JustMount == {"mount"}
BothLoads == {"login", "mount"}
JustF1 == {f1}
JustF2 == {f2}
JustF3 == {f3}
=============================================================================
