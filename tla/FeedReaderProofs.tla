------------------------- MODULE FeedReaderProofs --------------------------
(***************************************************************************)
(* Proofs about FeedReader, for any list of URLs, any feeds and any limit:  *)
(* the semaphore, the WaitGroup and the channel do what Parse uses them     *)
(* for, and what Parse returns accounts for every URL, without duplicates   *)
(* and sorted.                                                              *)
(***************************************************************************)
EXTENDS FeedReader, FeedItemsProofs, TLAPS

USE UrlListAssumption, LimitAssumption

----------------------------------------------------------------------------
(* The inductive invariant behind ChannelAndLimitAreSafe. *)

\* The goroutines whose next step in f is one of steps.
At(f, steps) == {g \in Goroutines : f[g] \in steps}

Holding == {"fetch", "send", "release"}
Counted == Steps \ {"new", "ended"}
Sent == {"release", "exit", "ended"}

\* The types that it needs.
ReaderTypes ==
    /\ caller \in {"spawn", "collect", "returned"}
    /\ spawned \in 0 .. Len(UrlList)
    /\ pc \in [Goroutines -> Steps]
    /\ resultsChan \in Seq(Goroutines)
    /\ closed \in BOOLEAN
    /\ arrived \in Seq(Goroutines)

\* Goroutines are started one after the other, all before the caller collects.
SpawnedInOrder ==
    /\ \A g \in Goroutines : pc[g] = "new" <=> g > spawned
    /\ caller = "spawn" <=> spawned < Len(UrlList)

\* The semaphore and the WaitGroup count goroutines, and so do the results that were
\* sent.
CountsAgree ==
    /\ sem = Cardinality(At(pc, Holding))
    /\ sem <= Limit
    /\ wg = Cardinality(At(pc, Counted))
    /\ Len(resultsChan) + Len(arrived) = Cardinality(At(pc, Sent))

\* The channel is closed after the last goroutine, and Parse returns after that.
ClosedLast ==
    /\ closed => \A g \in Goroutines : pc[g] = "ended"
    /\ caller = "returned" => closed /\ resultsChan = <<>>

InductiveInv ==
    /\ ReaderTypes
    /\ SpawnedInOrder
    /\ CountsAgree
    /\ ClosedLast

----------------------------------------------------------------------------
(* The inductive invariant behind ReturnsAnOutcome, TypeOK and NewestFirst. *)

\* A goroutine that sent its result is in the channel or has arrived, once.
SentOnce ==
    /\ IsInjective(resultsChan) /\ IsInjective(arrived)
    /\ ToSet(resultsChan) \intersect ToSet(arrived) = {}
    /\ ToSet(resultsChan) \union ToSet(arrived) = At(pc, Sent)

\* items are those of some feeds, one feed after the other.
Concatenates(items, urls) ==
    \E pos \in [DOMAIN items -> Places(urls)] :
        /\ ToSet(pos) = Places(urls)
        /\ \A k \in DOMAIN items : items[k] = ItemAt(urls, pos[k])
        /\ \A k, l \in DOMAIN items : k < l => Precedes(pos[k], pos[l])

\* items are those of the feeds that came and were not lost, in some order, and errs
\* the URLs of those that were.
Collected(items, errs, came, lost) ==
    /\ \E order \in SetToSeqs(came \ lost) :
          Concatenates(items, [n \in DOMAIN order |-> UrlList[order[n]]])
    /\ ToSet(errs) = {UrlList[g] : g \in came \intersect lost}

CollectsWhatArrives == Collected(allItems, urlErrs, ToSet(arrived), failed)

ItemsInv ==
    /\ TypeOK
    /\ SentOnce
    /\ CollectsWhatArrives
    /\ ReturnsAnOutcome
    /\ NewestFirst

----------------------------------------------------------------------------
(* Counting goroutines *)

\* There are as many goroutines as URLs.
LEMMA GoroutinesAreFinite ==
    /\ Len(UrlList) \in Nat \ {0}
    /\ Goroutines = 1 .. Len(UrlList)
    /\ IsFiniteSet(Goroutines)
    /\ Cardinality(Goroutines) = Len(UrlList)
<1>1. Len(UrlList) \in Nat \ {0} /\ Goroutines = 1 .. Len(UrlList)
  BY DEF Goroutines
<1> QED
  BY <1>1, FS_Interval

\* So the goroutines at some steps can be counted.
LEMMA AtIsFinite ==
    ASSUME NEW f, NEW steps
    PROVE  /\ IsFiniteSet(At(f, steps))
           /\ Cardinality(At(f, steps)) \in Nat
           /\ Cardinality(At(f, steps)) <= Len(UrlList)
<1>1. At(f, steps) \in SUBSET Goroutines
  BY DEF At
<1>2. IsFiniteSet(At(f, steps)) /\ Cardinality(At(f, steps)) <= Len(UrlList)
  BY <1>1, GoroutinesAreFinite, FS_Subset
<1> QED
  BY <1>2, FS_CardinalityType

\* A goroutine that goes on from f to next is counted where it arrives, and no more
\* where it left.
LEMMA CountChanges ==
    ASSUME NEW f \in [Goroutines -> Steps], NEW g \in Goroutines, NEW to \in Steps,
           NEW next \in [Goroutines -> Steps], next[g] = to,
           \A h \in Goroutines \ {g} : next[h] = f[h],
           NEW steps
    PROVE  Cardinality(At(next, steps)) =
               Cardinality(At(f, steps)) + (IF to \in steps THEN 1 ELSE 0)
                                         - (IF f[g] \in steps THEN 1 ELSE 0)
<1> DEFINE rest == At(f, steps) \ {g}
<1>1. IsFiniteSet(At(f, steps)) /\ Cardinality(At(f, steps)) \in Nat
  BY AtIsFinite
<1>2. IsFiniteSet(rest) /\ Cardinality(rest) \in Nat
  BY <1>1, FS_RemoveElement, FS_CardinalityType
<1>3. Cardinality(rest) =
        IF f[g] \in steps THEN Cardinality(At(f, steps)) - 1 ELSE Cardinality(At(f, steps))
  <2>1. g \in At(f, steps) <=> f[g] \in steps
    BY DEF At
  <2>2. Cardinality(rest) =
          IF g \in At(f, steps) THEN Cardinality(At(f, steps)) - 1 ELSE Cardinality(At(f, steps))
    BY <1>1, FS_RemoveElement
  <2> QED
    BY <2>1, <2>2
<1>4. CASE to \in steps
  <2>1. At(next, steps) = rest \union {g} /\ g \notin rest
    BY <1>4 DEF At
  <2>2. Cardinality(At(next, steps)) = Cardinality(rest) + 1
    BY <1>2, <2>1, FS_AddElement
  <2> HIDE DEF rest
  <2> QED
    BY <1>1, <1>2, <1>3, <1>4, <2>2
<1>5. CASE to \notin steps
  <2>1. At(next, steps) = rest
    BY <1>5 DEF At
  <2>2. Cardinality(At(next, steps)) = Cardinality(rest)
    BY <2>1
  <2> HIDE DEF rest
  <2> QED
    BY <1>1, <1>2, <1>3, <1>5, <2>2
<1> QED
  BY <1>4, <1>5

\* Without goroutines at some steps, none is there.
LEMMA NoneCounted ==
    ASSUME NEW f, NEW steps, Cardinality(At(f, steps)) = 0
    PROVE  \A g \in Goroutines : f[g] \notin steps
<1>1. At(f, steps) = {}
  BY AtIsFinite, FS_EmptySet
<1> QED
  BY <1>1 DEF At

----------------------------------------------------------------------------
(* The inductive invariant *)

\* Before the first goroutine is started all counts are zero.
LEMMA InitInductive == Init => InductiveInv
<1> SUFFICES ASSUME Init PROVE InductiveInv
  OBVIOUS
<1>1. ReaderTypes
  <2>1. spawned \in 0 .. Len(UrlList)
    BY GoroutinesAreFinite DEF Init
  <2>2. pc \in [Goroutines -> Steps]
    BY DEF Init, Steps
  <2>3. resultsChan \in Seq(Goroutines) /\ arrived \in Seq(Goroutines)
    BY DEF Init
  <2> QED
    BY <2>1, <2>2, <2>3 DEF Init, ReaderTypes
<1>2. SpawnedInOrder
  BY GoroutinesAreFinite DEF Init, SpawnedInOrder
<1>3. At(pc, Holding) = {} /\ At(pc, Counted) = {} /\ At(pc, Sent) = {}
  BY DEF Init, At, Holding, Counted, Sent
<1>4. CountsAgree
  <2>1. /\ Cardinality(At(pc, Holding)) = 0 /\ Cardinality(At(pc, Counted)) = 0
        /\ Cardinality(At(pc, Sent)) = 0
    BY <1>3, FS_EmptySet
  <2>2. sem = 0 /\ wg = 0 /\ Len(resultsChan) + Len(arrived) = 0
    BY DEF Init
  <2> QED
    BY <2>1, <2>2 DEF CountsAgree
<1>5. ClosedLast
  BY DEF Init, ClosedLast
<1> QED
  BY <1>1, <1>2, <1>4, <1>5 DEF InductiveInv

\* How the counts change when one goroutine goes on.
LEMMA StepCounts ==
    ASSUME ReaderTypes, NEW g \in Goroutines, NEW to \in Steps, Goto(g, to)
    PROVE  /\ pc' \in [Goroutines -> Steps]
           /\ Cardinality(At(pc, Holding)') =
                 Cardinality(At(pc, Holding)) + (IF to \in Holding THEN 1 ELSE 0)
                                              - (IF pc[g] \in Holding THEN 1 ELSE 0)
           /\ Cardinality(At(pc, Counted)') =
                 Cardinality(At(pc, Counted)) + (IF to \in Counted THEN 1 ELSE 0)
                                              - (IF pc[g] \in Counted THEN 1 ELSE 0)
           /\ Cardinality(At(pc, Sent)') =
                 Cardinality(At(pc, Sent)) + (IF to \in Sent THEN 1 ELSE 0)
                                           - (IF pc[g] \in Sent THEN 1 ELSE 0)
<1>1. pc' = [pc EXCEPT ![g] = to] /\ pc \in [Goroutines -> Steps]
  BY DEF Goto, ReaderTypes
<1>2. /\ At(pc, Holding)' = At(pc', Holding)
      /\ At(pc, Counted)' = At(pc', Counted)
      /\ At(pc, Sent)' = At(pc', Sent)
  BY DEF At, Holding, Counted, Sent, Steps
<1>3. pc' \in [Goroutines -> Steps]
  BY <1>1
<1>4. pc'[g] = to /\ \A h \in Goroutines \ {g} : pc'[h] = pc[h]
  BY <1>1
\* The lemma for this goroutine and this step; the provers find no instance of it as
\* it stands.
<1>5. ASSUME NEW f \in [Goroutines -> Steps], NEW next \in [Goroutines -> Steps],
             next[g] = to, \A h \in Goroutines \ {g} : next[h] = f[h], NEW steps
      PROVE  Cardinality(At(next, steps)) =
                 Cardinality(At(f, steps)) + (IF to \in steps THEN 1 ELSE 0)
                                           - (IF f[g] \in steps THEN 1 ELSE 0)
  BY <1>5, CountChanges
<1>6. \A steps : Cardinality(At(pc', steps)) =
                    Cardinality(At(pc, steps)) + (IF to \in steps THEN 1 ELSE 0)
                                               - (IF pc[g] \in steps THEN 1 ELSE 0)
  BY <1>1, <1>3, <1>4, <1>5
<1> QED
  BY <1>2, <1>3, <1>6

\* The caller starts the next goroutine.
LEMMA SpawnKeeps == ASSUME InductiveInv, Spawn PROVE InductiveInv'
<1> USE DEF InductiveInv
<1>1. /\ caller = "spawn" /\ spawned < Len(UrlList)
      /\ spawned + 1 \in Goroutines /\ spawned \in Nat
      /\ pc[spawned + 1] = "new"
  BY GoroutinesAreFinite DEF Spawn, ReaderTypes, SpawnedInOrder
<1>2. /\ pc' = [pc EXCEPT ![spawned + 1] = "select"]
      /\ pc' \in [Goroutines -> Steps]
  BY <1>1, StepCounts DEF Spawn, Goto, Steps, ReaderTypes
<1>3. ReaderTypes'
  BY <1>1, <1>2, GoroutinesAreFinite DEF ReaderTypes, Spawn, collected
<1>4. SpawnedInOrder'
  BY <1>1, <1>2, GoroutinesAreFinite DEF SpawnedInOrder, Spawn, ReaderTypes
<1>5. CountsAgree'
  <2>1. /\ Cardinality(At(pc, Holding)') = Cardinality(At(pc, Holding))
        /\ Cardinality(At(pc, Counted)') = Cardinality(At(pc, Counted)) + 1
        /\ Cardinality(At(pc, Sent)') = Cardinality(At(pc, Sent))
    <3>1. Goto(spawned + 1, "select") /\ "select" \in Steps
      BY DEF Spawn, Steps
    <3>2. /\ "select" \notin Holding /\ "select" \in Counted /\ "select" \notin Sent
          /\ "new" \notin Holding /\ "new" \notin Counted /\ "new" \notin Sent
      BY DEF Holding, Counted, Sent, Steps
    <3> QED
      BY <1>1, <3>1, <3>2, StepCounts, AtIsFinite
  <2> QED
    BY <2>1 DEF CountsAgree, Spawn, collected
<1>6. ClosedLast'
  BY <1>1 DEF ClosedLast, Spawn
<1> QED
  BY <1>3, <1>4, <1>5, <1>6

\* The caller takes a result out of the channel.
LEMMA ReceiveKeeps == ASSUME InductiveInv, Receive PROVE InductiveInv'
<1> USE DEF InductiveInv, Receive
<1>1. /\ Head(resultsChan) \in Goroutines
      /\ Len(resultsChan') = Len(resultsChan) - 1 /\ resultsChan' \in Seq(Goroutines)
      /\ Len(arrived') = Len(arrived) + 1 /\ arrived' \in Seq(Goroutines)
      /\ Len(resultsChan) \in Nat /\ Len(arrived) \in Nat
  BY DEF ReaderTypes
<1>2. ReaderTypes' /\ SpawnedInOrder'
  BY <1>1 DEF ReaderTypes, SpawnedInOrder
<1>3. CountsAgree'
  BY <1>1 DEF CountsAgree, At
<1>4. ClosedLast'
  BY DEF ClosedLast
<1> QED
  BY <1>2, <1>3, <1>4

\* The caller returns what it has.
LEMMA ReturnKeeps == ASSUME InductiveInv, Return PROVE InductiveInv'
<1> USE DEF InductiveInv, Return, collected
<1>1. ReaderTypes' /\ SpawnedInOrder'
  BY DEF ReaderTypes, SpawnedInOrder
<1>2. CountsAgree'
  BY DEF CountsAgree, At
<1>3. ClosedLast'
  BY DEF ClosedLast
<1> QED
  BY <1>1, <1>2, <1>3

\* A goroutine that goes on was started, and the channel is still open.
LEMMA StepKeepsRest ==
    ASSUME InductiveInv, NEW g \in Goroutines, NEW from \in Steps \ {"new", "ended"},
           NEW to \in Steps \ {"new"}, Step(g, from, to), resultsChan' \in Seq(Goroutines)
    PROVE  ReaderTypes' /\ SpawnedInOrder' /\ ClosedLast'
<1>1. pc[g] = from /\ pc' = [pc EXCEPT ![g] = to] /\ pc \in [Goroutines -> Steps]
  BY DEF InductiveInv, ReaderTypes, Step, Goto
<1>2. UNCHANGED <<caller, spawned, arrived, closed>>
  BY DEF Step, callerVars, collected
<1>3. ReaderTypes'
  BY <1>1, <1>2 DEF InductiveInv, ReaderTypes
<1>4. SpawnedInOrder'
  BY <1>1, <1>2 DEF InductiveInv, SpawnedInOrder
<1>5. ~closed
  BY <1>1 DEF InductiveInv, ClosedLast
<1> QED
  BY <1>2, <1>3, <1>4, <1>5 DEF ClosedLast, InductiveInv

\* A goroutine takes its steps.
LEMMA GoroutineKeeps ==
    ASSUME InductiveInv, NEW g \in Goroutines,
           Runs(g) \/ FetchSucceeds(g) \/ FetchFails(g)
    PROVE  InductiveInv'
<1> USE DEF InductiveInv
<1>counts. /\ Cardinality(At(pc, Holding)) \in Nat /\ Cardinality(At(pc, Counted)) \in Nat
      /\ Cardinality(At(pc, Sent)) \in Nat
      /\ Len(resultsChan) \in Nat /\ Len(arrived) \in Nat
  BY AtIsFinite DEF ReaderTypes
<1>goes. ASSUME NEW from \in Steps, NEW to \in Steps, Step(g, from, to)
      PROVE  pc[g] = from /\ Goto(g, to) /\ arrived' = arrived
  BY <1>goes DEF Step, callerVars, collected
<1>1. CASE Acquire(g)
  <2>1. Step(g, "select", "fetch") /\ resultsChan' = resultsChan
    BY <1>1 DEF Acquire
  <2>2. CountsAgree'
    BY <1>counts, <1>1, <1>goes, <2>1, StepCounts
       DEF Acquire, HasRoom, CountsAgree, Holding, Counted, Sent, Steps
  <2> QED
    BY <2>1, <2>2, StepKeepsRest DEF ReaderTypes, Steps
<1>2. CASE Refuse(g)
  <2>1. Step(g, "select", "refused") /\ resultsChan' = resultsChan
    BY <1>2 DEF Refuse
  <2>2. CountsAgree'
    BY <1>counts, <1>2, <1>goes, <2>1, StepCounts
       DEF Refuse, CountsAgree, Holding, Counted, Sent, Steps
  <2> QED
    BY <2>1, <2>2, StepKeepsRest DEF ReaderTypes, Steps
<1>3. CASE FetchSucceeds(g) \/ FetchFails(g)
  <2>1. Step(g, "fetch", "send") /\ UNCHANGED <<sem, wg, resultsChan>>
    BY <1>3 DEF FetchSucceeds, FetchFails
  <2>2. CountsAgree'
    BY <1>counts, <1>goes, <2>1, StepCounts
       DEF CountsAgree, Holding, Counted, Sent, Steps
  <2> QED
    BY <2>1, <2>2, StepKeepsRest DEF ReaderTypes, Steps
<1>4. CASE Send(g)
  <2>1. /\ resultsChan' = Append(resultsChan, g) /\ UNCHANGED <<sem, wg>>
        /\ resultsChan' \in Seq(Goroutines)
        /\ Len(resultsChan') = Len(resultsChan) + 1
    BY <1>4 DEF Send, ReaderTypes
  <2>2. CASE Step(g, "send", "release")
    <3>1. CountsAgree'
      BY <1>counts, <1>goes, <2>1, <2>2, StepCounts
         DEF CountsAgree, Holding, Counted, Sent, Steps
    <3> QED
      BY <2>1, <2>2, <3>1, StepKeepsRest DEF Steps
  <2>3. CASE Step(g, "refused", "exit")
    <3>1. CountsAgree'
      BY <1>counts, <1>goes, <2>1, <2>3, StepCounts
         DEF CountsAgree, Holding, Counted, Sent, Steps
    <3> QED
      BY <2>1, <2>3, <3>1, StepKeepsRest DEF Steps
  <2> QED
    BY <1>4, <2>2, <2>3 DEF Send
<1>5. CASE Release(g)
  <2>1. Step(g, "release", "exit") /\ resultsChan' = resultsChan
    BY <1>5 DEF Release
  <2>2. CountsAgree'
    BY <1>counts, <1>5, <1>goes, <2>1, StepCounts
       DEF Release, CountsAgree, Holding, Counted, Sent, Steps
  <2> QED
    BY <2>1, <2>2, StepKeepsRest DEF ReaderTypes, Steps
<1>6. CASE Exit(g)
  <2>1. Step(g, "exit", "ended") /\ resultsChan' = resultsChan
    BY <1>6 DEF Exit
  <2>2. CountsAgree'
    BY <1>counts, <1>6, <1>goes, <2>1, StepCounts
       DEF Exit, CountsAgree, Holding, Counted, Sent, Steps
  <2> QED
    BY <2>1, <2>2, StepKeepsRest DEF ReaderTypes, Steps
<1> QED
  BY <1>1, <1>2, <1>3, <1>4, <1>5, <1>6 DEF Runs

\* The channel is closed when every goroutine was started and the WaitGroup is at
\* zero, so every goroutine has ended.
LEMMA CloseKeeps == ASSUME InductiveInv, Close PROVE InductiveInv'
<1> USE DEF InductiveInv, Close, callerVars, collected
<1>1. \A g \in Goroutines : pc[g] \notin Counted
  BY NoneCounted DEF AllDone, CountsAgree
<1>2. \A g \in Goroutines : pc[g] # "new"
  BY GoroutinesAreFinite DEF SpawnedInOrder, ReaderTypes
<1>3. \A g \in Goroutines : pc[g] = "ended"
  BY <1>1, <1>2 DEF Counted, ReaderTypes
<1>4. ReaderTypes' /\ SpawnedInOrder'
  BY DEF ReaderTypes, SpawnedInOrder
<1>5. CountsAgree'
  BY DEF CountsAgree, At
<1>6. ClosedLast'
  BY <1>3 DEF ClosedLast
<1> QED
  BY <1>4, <1>5, <1>6

\* Steps that touch nothing the invariant speaks of.
LEMMA OtherKeeps ==
    ASSUME InductiveInv,
           UNCHANGED <<caller, spawned, pc, sem, wg, resultsChan, closed, arrived>>
    PROVE  InductiveInv'
BY DEF InductiveInv, ReaderTypes, SpawnedInOrder, CountsAgree, ClosedLast, At

\* Every step of Parse keeps the invariant.
LEMMA InductiveStep == InductiveInv /\ [Next]_vars => InductiveInv'
<1> SUFFICES ASSUME InductiveInv, [Next]_vars PROVE InductiveInv'
  OBVIOUS
<1>1. CASE CallerRuns
  BY <1>1, SpawnKeeps, ReceiveKeeps, ReturnKeeps DEF CallerRuns
<1>2. CASE \E g \in Goroutines : Runs(g) \/ FetchSucceeds(g) \/ FetchFails(g)
  BY <1>2, GoroutineKeeps
<1>3. CASE Close
  BY <1>3, CloseKeeps
<1>4. CASE Cancel
  BY <1>4, OtherKeeps DEF Cancel, callerVars, collected
<1>5. CASE UNCHANGED vars
  BY <1>5, OtherKeeps DEF vars, callerVars, collected
<1> QED
  BY <1>1, <1>2, <1>3, <1>4, <1>5 DEF Next

----------------------------------------------------------------------------
(* What it gives *)

\* The counters of Parse are the numbers of goroutines that they stand for, at every
\* step of every call (rssreader.go:54-88).
THEOREM InductiveInvariant == Spec => []InductiveInv
<1> QED
  BY InitInductive, InductiveStep, PTL DEF Spec

\* Parse keeps to its limit, never sends on a closed channel and never blocks in a
\* send, for any URLs and any limit (rssreader.go:62-88).
THEOREM ChannelAndLimitHold == Spec => []ChannelAndLimitAreSafe
<1>1. InductiveInv => ChannelAndLimitAreSafe
  <2> SUFFICES ASSUME InductiveInv PROVE ChannelAndLimitAreSafe
    OBVIOUS
  <2>1. Cardinality({g \in Goroutines : pc[g] = "fetch"}) <= Limit
    <3>1. {g \in Goroutines : pc[g] = "fetch"} \in SUBSET At(pc, Holding)
      BY DEF At, Holding
    <3>2. /\ Cardinality({g \in Goroutines : pc[g] = "fetch"}) <= Cardinality(At(pc, Holding))
          /\ IsFiniteSet({g \in Goroutines : pc[g] = "fetch"})
      BY <3>1, AtIsFinite, FS_Subset
    <3>3. Cardinality(At(pc, Holding)) <= Limit
      BY DEF InductiveInv, CountsAgree
    <3> QED
      BY <3>2, <3>3, AtIsFinite, FS_CardinalityType
  <2>2. closed => \A g \in Goroutines : pc[g] \notin {"select", "refused", "fetch", "send"}
    BY DEF InductiveInv, ClosedLast
  <2>3. Len(resultsChan) <= Len(UrlList)
    BY AtIsFinite, GoroutinesAreFinite DEF InductiveInv, CountsAgree, ReaderTypes
  <2> QED
    BY <2>1, <2>2, <2>3 DEF ChannelAndLimitAreSafe
<1> QED
  BY <1>1, InductiveInvariant, PTL

\* Parse returns only after as many results arrived as there are URLs, however the
\* goroutines and the timeout meet (rssreader.go:92-100).
THEOREM EveryResultArrives == Spec => [](caller = "returned" => Len(arrived) = Len(UrlList))
<1>1. InductiveInv => (caller = "returned" => Len(arrived) = Len(UrlList))
  <2> SUFFICES ASSUME InductiveInv, caller = "returned" PROVE Len(arrived) = Len(UrlList)
    OBVIOUS
  <2>1. resultsChan = <<>> /\ \A g \in Goroutines : pc[g] = "ended"
    BY DEF InductiveInv, ClosedLast
  <2>2. At(pc, Sent) = Goroutines
    BY <2>1 DEF At, Sent
  <2> QED
    BY <2>1, <2>2, GoroutinesAreFinite DEF InductiveInv, CountsAgree, ReaderTypes
<1> QED
  BY <1>1, InductiveInvariant, PTL

----------------------------------------------------------------------------
(* Removing duplicates *)

NothingYet == [seen |-> {}, out |-> <<>>]

\* The loop of deduplicate has a state after every item.
LEMMA LoopRuns ==
    ASSUME NEW S, NEW items \in Seq(S)
    PROVE  \E f : f = [n \in 0 .. Len(items) |->
                          IF n = 0 THEN [seen |-> {}, out |-> <<>>] ELSE Take(f[n - 1], items[n])]
<1> DEFINE Run(f, m) ==
               f = [n \in 0 .. m |-> IF n = 0 THEN NothingYet ELSE Take(f[n - 1], items[n])]
           T == {m \in Nat : \E f : Run(f, m)}
<1>1. 0 \in T
  <2> DEFINE f == [n \in 0 .. 0 |-> NothingYet]
  <2>1. \A n \in 0 .. 0 : n = 0
    OBVIOUS
  <2>2. Run(f, 0)
    BY <2>1
  <2> QED
    BY <2>2
<1>2. ASSUME NEW m \in Nat, m \in T PROVE m + 1 \in T
  <2>1. PICK f : Run(f, m)
    BY <1>2
  <2> DEFINE g == [n \in 0 .. m + 1 |-> IF n <= m THEN f[n] ELSE Take(f[m], items[m + 1])]
  <2>2. /\ f[0] = NothingYet
        /\ \A n \in 1 .. m : f[n] = Take(f[n - 1], items[n])
    BY <2>1
  <2>3. /\ DOMAIN g = 0 .. m + 1
        /\ \A n \in 0 .. m : g[n] = f[n]
        /\ g[m + 1] = Take(f[m], items[m + 1])
    OBVIOUS
  <2>4. \A n \in 1 .. m + 1 : g[n] = Take(g[n - 1], items[n])
    <3> TAKE n \in 1 .. m + 1
    <3> HIDE DEF g
    <3>1. CASE n = m + 1
      BY <2>3, <3>1
    <3>2. CASE n # m + 1
      BY <2>2, <2>3, <3>2
    <3> QED
      BY <3>1, <3>2
  <2>5. g = [n \in 0 .. m + 1 |-> g[n]]
    OBVIOUS
  <2>6. g[0] = NothingYet
    BY <2>2, <2>3
  <2> HIDE DEF g
  <2>7. Run(g, m + 1)
    <3>1. \A n \in 0 .. m + 1 : g[n] = IF n = 0 THEN NothingYet ELSE Take(g[n - 1], items[n])
      BY <2>4, <2>6
    <3> QED
      BY <2>5, <3>1
  <2> QED
    BY <2>7
<1>3. Nat \subseteq T
  <2> HIDE DEF T
  <2> QED
    BY <1>1, <1>2, NumbersByInduction
<1>4. Len(items) \in T
  BY <1>3
<1> QED
  BY <1>4 DEF NothingYet

\* The items that no earlier one has the link of.
Kept(items) ==
    {k \in DOMAIN items : \/ items[k].link = NoLink
                          \/ \A j \in 1 .. k - 1 : items[j].link # items[k].link}

\* After n items the loop has seen their links, and holds those that are kept.
Looped(S, items, acc, n) ==
    /\ acc = [seen |-> acc.seen, out |-> acc.out]
    /\ acc.seen = {items[k].link : k \in 1 .. n} \ {NoLink}
    /\ acc.out \in Seq(S)
    /\ ToSet(acc.out) = {items[k] : k \in Kept(items) \intersect 1 .. n}
    /\ Deduplicated(acc.out)

\* It takes one more.
LEMMA LoopStep ==
    ASSUME NEW S, NEW items \in Seq(S), NEW n \in Nat, n + 1 \in DOMAIN items, NEW acc,
           Looped(S, items, acc, n)
    PROVE  Looped(S, items, Take(acc, items[n + 1]), n + 1)
<1> DEFINE item == items[n + 1]
           next == Take(acc, item)
<1>1. /\ 1 .. n + 1 = 1 .. n \union {n + 1} /\ n + 1 - 1 = n /\ item \in S
      /\ DOMAIN items = 1 .. Len(items) /\ Len(items) \in Nat /\ 1 .. n \subseteq DOMAIN items
  OBVIOUS
<1>2. /\ acc = [seen |-> acc.seen, out |-> acc.out]
      /\ acc.seen = {items[k].link : k \in 1 .. n} \ {NoLink}
      /\ acc.out \in Seq(S)
      /\ ToSet(acc.out) = {items[k] : k \in Kept(items) \intersect 1 .. n}
      /\ Deduplicated(acc.out)
  BY DEF Looped
<1>3. {items[k].link : k \in 1 .. n + 1} = {items[k].link : k \in 1 .. n} \union {item.link}
  BY <1>1
<1>4. n + 1 \in Kept(items) <=> item.link = NoLink \/ item.link \notin acc.seen
  <2> DEFINE link == item.link
  <2>1. n + 1 \in Kept(items) <=> link = NoLink \/ \A j \in 1 .. n : items[j].link # link
    BY <1>1 DEF Kept
  <2>2. link \in acc.seen <=> link # NoLink /\ \E j \in 1 .. n : items[j].link = link
    <3> HIDE DEF link
    <3> QED
      BY <1>2
  <2> HIDE DEF link
  <2>3. n + 1 \in Kept(items) <=> link = NoLink \/ link \notin acc.seen
    BY <2>1, <2>2
  <2> QED
    BY <2>3 DEF link
<1>5. CASE n + 1 \notin Kept(items)
  <2>1. next = acc
    BY <1>4, <1>5 DEF Take
  <2>2. item.link \in acc.seen
    BY <1>4, <1>5
  <2>3. acc.seen = {items[k].link : k \in 1 .. n + 1} \ {NoLink}
    BY <1>2, <1>3, <2>2
  <2>4. Kept(items) \intersect 1 .. n + 1 = Kept(items) \intersect 1 .. n
    BY <1>1, <1>5
  <2> HIDE DEF next
  <2> QED
    BY <1>2, <2>1, <2>3, <2>4 DEF Looped, next
<1>6. CASE n + 1 \in Kept(items)
  <2> DEFINE seen == IF item.link = NoLink THEN acc.seen ELSE acc.seen \union {item.link}
  <2>1. next = [seen |-> seen, out |-> Append(acc.out, item)]
    <3>1. CASE item.link = NoLink
      <4>1. next = [acc EXCEPT !.out = Append(@, item)]
        BY <3>1 DEF Take
      <4> HIDE DEF next, item
      <4> QED
        BY <1>2, <3>1, <4>1
    <3>2. CASE item.link # NoLink
      BY <1>4, <1>6, <3>2 DEF Take
    <3> QED
      BY <3>1, <3>2
  <2>2. next.seen = seen /\ next.out = Append(acc.out, item)
    BY <2>1
  <2>3. seen = {items[k].link : k \in 1 .. n + 1} \ {NoLink}
    <3> HIDE DEF item
    <3> QED
      BY <1>2, <1>3
  <2>4. /\ Append(acc.out, item) \in Seq(S)
        /\ ToSet(Append(acc.out, item)) = ToSet(acc.out) \union {item}
    <3> HIDE DEF item
    <3> QED
      BY <1>1, <1>2, AppendElement
  <2>5. Kept(items) \intersect 1 .. n + 1 = (Kept(items) \intersect 1 .. n) \union {n + 1}
    BY <1>1, <1>6
  <2>6. ToSet(Append(acc.out, item)) = {items[k] : k \in Kept(items) \intersect 1 .. n + 1}
    BY <1>2, <2>4, <2>5
  <2>7. \A e \in ToSet(acc.out) : e.link = item.link => e.link = NoLink
    <3> SUFFICES ASSUME NEW k \in 1 .. n, items[k].link = item.link, item.link # NoLink
                 PROVE  FALSE
      BY <1>2
    <3>1. item.link \in acc.seen
      BY <1>2
    <3> QED
      BY <1>4, <1>6, <3>1
  <2>8. Deduplicated(Append(acc.out, item))
    <3> DEFINE out == acc.out
    <3> HIDE DEF out, item
    <3>1. /\ Len(out) \in Nat /\ DOMAIN out = 1 .. Len(out)
          /\ DOMAIN Append(out, item) = 1 .. Len(out) + 1
          /\ \A i \in 1 .. Len(out) : Append(out, item)[i] = out[i]
          /\ Append(out, item)[Len(out) + 1] = item
      BY <1>2 DEF out
    <3>2. \A i \in 1 .. Len(out) : out[i].link = item.link => out[i].link = NoLink
      BY <2>7, <3>1 DEF out, ToSet
    <3>3. \A a, b \in 1 .. Len(out) :
             a # b => out[a].link # out[b].link \/ out[a].link = NoLink
      BY <1>2, <3>1 DEF out, Deduplicated
    <3>4. \A a, b \in 1 .. Len(out) + 1 :
             a # b => \/ Append(out, item)[a].link # Append(out, item)[b].link
                      \/ Append(out, item)[a].link = NoLink
      BY <3>1, <3>2, <3>3
    <3> QED
      BY <3>1, <3>4 DEF out, Deduplicated
  <2> HIDE DEF next, seen
  <2> QED
    BY <2>1, <2>2, <2>3, <2>4, <2>6, <2>8 DEF Looped, next
<1> QED
  BY <1>5, <1>6

\* deduplicate keeps the first item of each link and every item without one.
LEMMA DeduplicateKeeps ==
    ASSUME NEW S, NEW items \in Seq(S)
    PROVE  /\ deduplicate(items) \in Seq(S)
           /\ ToSet(deduplicate(items)) = {items[k] : k \in Kept(items)}
           /\ Deduplicated(deduplicate(items))
<1> DEFINE f == CHOOSE f : f = [n \in 0 .. Len(items) |->
                        IF n = 0 THEN [seen |-> {}, out |-> <<>>] ELSE Take(f[n - 1], items[n])]
           T == {n \in Nat : n <= Len(items) => Looped(S, items, f[n], n)}
<1>1. f = [n \in 0 .. Len(items) |->
              IF n = 0 THEN [seen |-> {}, out |-> <<>>] ELSE Take(f[n - 1], items[n])]
  BY LoopRuns, Zenon
<1>2. deduplicate(items) = f[Len(items)].out
  BY DEF deduplicate
<1> HIDE DEF f
<1>3. Len(items) \in Nat /\ DOMAIN items = 1 .. Len(items)
  OBVIOUS
<1>4. f[0] = [seen |-> {}, out |-> <<>>]
  BY <1>1, <1>3
<1>5. ASSUME NEW n \in Nat, n + 1 <= Len(items) PROVE f[n + 1] = Take(f[n], items[n + 1])
  <2>1. n + 1 \in 0 .. Len(items) /\ n + 1 # 0 /\ n + 1 - 1 = n
    BY <1>3, <1>5
  <2>2. \A k \in 0 .. Len(items) :
           f[k] = IF k = 0 THEN NothingYet ELSE Take(f[k - 1], items[k])
    BY <1>1, Zenon DEF NothingYet
  <2> QED
    BY <2>1, <2>2
<1>6. 0 \in T
  <2>1. 1 .. 0 = {} /\ <<>> \in Seq(S) /\ ToSet(<<>>) = {}
    BY DEF ToSet
  <2>2. f[0].seen = {} /\ f[0].out = <<>>
    BY <1>4
  <2>3. Deduplicated(<<>>)
    BY DEF Deduplicated
  <2>4. Looped(S, items, f[0], 0)
    BY <1>4, <2>1, <2>2, <2>3 DEF Looped
  <2> QED
    BY <2>4
<1>7. \A n \in Nat : n \in T => n + 1 \in T
  BY <1>3, <1>5, LoopStep
<1>8. Len(items) \in T
  <2> HIDE DEF T
  <2> QED
    BY <1>3, <1>6, <1>7, NumbersByInduction
<1>9. Kept(items) \intersect 1 .. Len(items) = Kept(items)
  BY <1>3 DEF Kept
<1> QED
  BY <1>2, <1>3, <1>8, <1>9 DEF Looped

----------------------------------------------------------------------------
(* Sorting *)

\* Sorting rearranges.
LEMMA SortRearranges ==
    ASSUME NEW S, NEW items \in Seq(S), NEW s \in SortItems(items)
    PROVE  /\ s \in Seq(S) /\ ToSet(s) = ToSet(items)
           /\ Deduplicated(items) => Deduplicated(s)
           /\ \A a, b \in DOMAIN s : a < b => ~Less(s[b], s[a])
<1>1. /\ \A a, b \in DOMAIN s : a < b => ~Less(s[b], s[a])
      /\ \E p \in Bijection(DOMAIN items, DOMAIN items) : s = [k \in DOMAIN items |-> items[p[k]]]
  BY DEF SortItems
<1>2. PICK p \in Bijection(DOMAIN items, DOMAIN items) : s = [k \in DOMAIN items |-> items[p[k]]]
  BY <1>1
<1>3. /\ p \in [DOMAIN items -> DOMAIN items]
      /\ \A a, b \in DOMAIN items : p[a] = p[b] => a = b
      /\ \A k \in DOMAIN items : \E j \in DOMAIN items : p[j] = k
  BY DEF Bijection, Injection, Surjection, IsInjective
<1>4. DOMAIN items = 1 .. Len(items) /\ Len(items) \in Nat /\ \A k \in DOMAIN items : items[k] \in S
  OBVIOUS
<1>5. DOMAIN s = DOMAIN items /\ \A k \in DOMAIN items : s[k] = items[p[k]]
  BY <1>2
<1>6. s \in Seq(S)
  <2>1. s \in [1 .. Len(items) -> S]
    BY <1>2, <1>3, <1>4
  <2> QED
    BY <1>4, <2>1
<1>7. ToSet(s) = ToSet(items)
  <2>1. ToSet(s) = {s[k] : k \in DOMAIN items} /\ ToSet(items) = {items[k] : k \in DOMAIN items}
    BY <1>5 DEF ToSet
  <2>2. ToSet(s) \subseteq ToSet(items)
    BY <1>3, <1>5, <2>1
  <2>3. ToSet(items) \subseteq ToSet(s)
    BY <1>3, <1>5, <2>1
  <2> QED
    BY <2>2, <2>3
<1>8. ASSUME Deduplicated(items) PROVE Deduplicated(s)
  <2> SUFFICES ASSUME NEW a \in DOMAIN s, NEW b \in DOMAIN s, a # b
               PROVE  s[a].link # s[b].link \/ s[a].link = NoLink
    BY DEF Deduplicated
  <2>1. p[a] \in DOMAIN items /\ p[b] \in DOMAIN items /\ p[a] # p[b]
    BY <1>3, <1>5
  <2>2. s[a] = items[p[a]] /\ s[b] = items[p[b]]
    BY <1>5
  <2> QED
    BY <1>8, <2>1, <2>2 DEF Deduplicated
<1> QED
  BY <1>1, <1>6, <1>7, <1>8

----------------------------------------------------------------------------
(* What arrives *)

\* A goroutine that has sent its result is past fetching.
SentStays == At(pc, Sent)' = At(pc, Sent) /\ UNCHANGED <<resultsChan, arrived>>

LEMMA GoroutineSends ==
    ASSUME ReaderTypes, NEW g \in Goroutines,
           Runs(g) \/ FetchSucceeds(g) \/ FetchFails(g)
    PROVE  /\ SentStays \/ Send(g)
           /\ UNCHANGED <<caller, spawned, allItems, urlErrs, output, arrived>>
           /\ failed' = failed \/ (failed' = failed \union {g} /\ g \notin At(pc, Sent))
<1> USE DEF callerVars, collected
<1>1. ASSUME NEW from \in Steps, NEW to \in Steps, Step(g, from, to),
             from \in Sent <=> to \in Sent
      PROVE  At(pc, Sent)' = At(pc, Sent)
  BY <1>1 DEF Step, Goto, At, ReaderTypes
<1>2. CASE Acquire(g)
  BY <1>1, <1>2 DEF Acquire, Step, SentStays, Sent, Steps
<1>3. CASE Refuse(g)
  <2>1. Step(g, "select", "refused") /\ failed' = failed \union {g} /\ resultsChan' = resultsChan
    BY <1>3 DEF Refuse
  <2>2. g \notin At(pc, Sent)
    BY <2>1 DEF Step, At, Sent
  <2> QED
    BY <1>1, <2>1, <2>2 DEF Step, SentStays, Sent, Steps
<1>4. CASE FetchSucceeds(g) \/ FetchFails(g)
  <2>1. /\ Step(g, "fetch", "send") /\ resultsChan' = resultsChan
        /\ failed' = failed \/ failed' = failed \union {g}
    BY <1>4 DEF FetchSucceeds, FetchFails
  <2>2. g \notin At(pc, Sent)
    BY <2>1 DEF Step, At, Sent
  <2> QED
    BY <1>1, <2>1, <2>2 DEF Step, SentStays, Sent, Steps
<1>5. CASE Send(g)
  BY <1>5 DEF Send, Step
<1>6. CASE Release(g)
  BY <1>1, <1>6 DEF Release, Step, SentStays, Sent, Steps
<1>7. CASE Exit(g)
  BY <1>1, <1>7 DEF Exit, Step, SentStays, Sent, Steps
<1> QED
  BY <1>2, <1>3, <1>4, <1>5, <1>6, <1>7 DEF Runs

\* A result is sent once and taken once.
LEMMA SentOnceStep ==
    ASSUME InductiveInv, SentOnce, [Next]_vars
    PROVE  SentOnce'
<1> USE DEF callerVars, collected
<1>1. resultsChan \in Seq(Goroutines) /\ arrived \in Seq(Goroutines) /\ ReaderTypes
  BY DEF InductiveInv, ReaderTypes
<1>2. ASSUME SentStays PROVE SentOnce'
  BY <1>2 DEF SentStays, SentOnce
<1>3. ASSUME NEW g \in Goroutines, Send(g) PROVE SentOnce'
  <2>1. /\ pc[g] \in {"send", "refused"} /\ pc'[g] \in {"release", "exit"} /\ arrived' = arrived
        /\ \A h \in Goroutines \ {g} : pc'[h] = pc[h]
        /\ resultsChan' = Append(resultsChan, g)
    BY <1>1, <1>3 DEF Send, Step, Goto, ReaderTypes
  <2>2. g \notin At(pc, Sent) /\ At(pc, Sent)' = At(pc, Sent) \union {g}
    BY <2>1 DEF At, Sent
  <2>3. g \notin ToSet(resultsChan) /\ g \notin ToSet(arrived)
    BY <2>2 DEF SentOnce
  <2>4. IsInjective(resultsChan') /\ ToSet(resultsChan') = ToSet(resultsChan) \union {g}
    BY <1>1, <2>1, <2>3, DistinctAppend, AppendElement DEF SentOnce
  <2> QED
    BY <2>1, <2>2, <2>3, <2>4 DEF SentOnce
<1>4. CASE Receive
  <2> DEFINE g == Head(resultsChan)
  <2>1. /\ resultsChan # <<>> /\ arrived' = Append(arrived, g)
        /\ resultsChan' = Tail(resultsChan) /\ At(pc, Sent)' = At(pc, Sent)
    BY <1>4 DEF Receive, At
  <2>2. g \in Goroutines /\ ToSet(resultsChan) = {g} \union ToSet(resultsChan')
    BY <1>1, <2>1, HeadAndTail
  <2>3. IsInjective(resultsChan') /\ g \notin ToSet(resultsChan')
    BY <1>1, <2>1, DistinctTail DEF SentOnce
  <2> HIDE DEF g
  <2>4. g \notin ToSet(arrived)
    BY <2>2 DEF SentOnce
  <2>5. IsInjective(arrived') /\ ToSet(arrived') = ToSet(arrived) \union {g}
    BY <1>1, <2>1, <2>2, <2>4, DistinctAppend, AppendElement DEF SentOnce
  <2> QED
    BY <2>1, <2>2, <2>3, <2>4, <2>5 DEF SentOnce
<1>5. CASE Spawn
  <2>1. /\ caller = "spawn" /\ spawned + 1 \in Goroutines /\ pc[spawned + 1] = "new"
        /\ spawned \in Nat
    BY <1>5, GoroutinesAreFinite DEF Spawn, InductiveInv, ReaderTypes, SpawnedInOrder
  <2>2. /\ pc' = [pc EXCEPT ![spawned + 1] = "select"] /\ UNCHANGED <<resultsChan, arrived>>
    BY <1>5 DEF Spawn, Goto
  <2>3. At(pc, Sent)' = At(pc, Sent)
    BY <1>1, <2>1, <2>2 DEF At, Sent, ReaderTypes
  <2> QED
    BY <1>2, <2>2, <2>3 DEF SentStays
<1>6. CASE Return \/ Close \/ Cancel \/ UNCHANGED vars
  <2>1. UNCHANGED <<pc, resultsChan, arrived>>
    BY <1>6 DEF Return, Close, Cancel, vars
  <2> QED
    BY <1>2, <2>1 DEF SentStays, At
<1> QED
  BY <1>1, <1>2, <1>3, <1>4, <1>5, <1>6, GoroutineSends DEF Next, CallerRuns

----------------------------------------------------------------------------
(* What is collected *)

\* The items of a feed are a sequence of items.
LEMMA ItemsAreTyped ==
    ASSUME NEW u \in Urls
    PROVE  /\ ItemsOf(u) \in Seq(Items) /\ DOMAIN ItemsOf(u) = DOMAIN FeedOf[u]
           /\ \A i \in ToSet(ItemsOf(u)) : i.date \in Nat
<1>1. FeedOf[u] \in Seq([link : LinksOf(u), date : Nat])
  BY FeedsAssumption
<1>2. DOMAIN FeedOf[u] = 1 .. Len(FeedOf[u]) /\ Len(FeedOf[u]) \in Nat
  BY <1>1
<1>3. \A k \in DOMAIN ItemsOf(u) : ItemsOf(u)[k] \in Items
  BY FeedTypes DEF Items
<1>4. ItemsOf(u) = [k \in 1 .. Len(FeedOf[u]) |-> ItemsOf(u)[k]]
  BY <1>2 DEF ItemsOf
<1>5. ItemsOf(u) \in [1 .. Len(FeedOf[u]) -> Items]
  BY <1>3, <1>4
<1>6. ASSUME NEW k \in DOMAIN FeedOf[u] PROVE ItemsOf(u)[k].date \in Nat
  <2>1. ItemsOf(u)[k] = [url |-> u, link |-> FeedOf[u][k].link, date |-> FeedOf[u][k].date]
    BY DEF ItemsOf
  <2> DEFINE R == [link : LinksOf(u), date : Nat]
             feed == FeedOf[u]
  <2>2. feed \in Seq(R) /\ k \in DOMAIN feed
    BY <1>1
  <2>3. \A e \in R : e.date \in Nat
    OBVIOUS
  <2> HIDE DEF R, feed
  <2>4. feed[k] \in R
    BY <2>2
  <2> QED
    BY <2>1, <2>3, <2>4 DEF feed
<1>7. ItemsOf(u) \in Seq(Items) /\ DOMAIN ItemsOf(u) = DOMAIN FeedOf[u]
  BY <1>2, <1>5, FeedTypes
<1>8. ToSet(ItemsOf(u)) = {ItemsOf(u)[k] : k \in DOMAIN FeedOf[u]}
  BY <1>7 DEF ToSet
<1> QED
  BY <1>6, <1>7, <1>8

\* Before anything arrives nothing is collected.
LEMMA NothingConcatenates == Concatenates(<<>>, <<>>)
<1>1. Places(<<>>) = {} /\ DOMAIN <<>> = {}
  BY DEF Places
<1>2. <<>> \in [DOMAIN <<>> -> Places(<<>>)] /\ ToSet(<<>>) = {}
  BY <1>1 DEF ToSet
<1> QED
  BY <1>1, <1>2 DEF Concatenates

\* One more feed adds its places after the others.
LEMMA ConcatenatesMore ==
    ASSUME NEW urls \in Seq(Urls), NEW u \in Urls, NEW items \in Seq(Items),
           Concatenates(items, urls)
    PROVE  Concatenates(items \o ItemsOf(u), Append(urls, u))
<1> DEFINE more == items \o ItemsOf(u)
           urls2 == Append(urls, u)
           m == Len(items)
           d == Len(ItemsOf(u))
           N == Len(urls) + 1
<1>1. PICK pos \in [DOMAIN items -> Places(urls)] :
         /\ ToSet(pos) = Places(urls)
         /\ \A k \in DOMAIN items : items[k] = ItemAt(urls, pos[k])
         /\ \A k, l \in DOMAIN items : k < l => Precedes(pos[k], pos[l])
  BY DEF Concatenates
<1>2. /\ ItemsOf(u) \in Seq(Items) /\ DOMAIN ItemsOf(u) = DOMAIN FeedOf[u]
      /\ DOMAIN ItemsOf(u) = 1 .. d /\ d \in Nat
  BY ItemsAreTyped
<1>3. /\ m \in Nat /\ DOMAIN items = 1 .. m /\ more \in Seq(Items)
      /\ Len(more) = m + d /\ DOMAIN more = 1 .. m + d
      /\ \A k \in 1 .. m : more[k] = items[k]
      /\ \A k \in m + 1 .. m + d : more[k] = ItemsOf(u)[k - m]
  BY <1>2, Concatenation
<1>4. /\ urls2 \in Seq(Urls) /\ N \in Nat /\ DOMAIN urls = 1 .. N - 1 /\ DOMAIN urls2 = 1 .. N
      /\ urls2[N] = u /\ \A n \in 1 .. N - 1 : urls2[n] = urls[n]
  OBVIOUS
<1>len. N \in Nat \ {0}
  OBVIOUS
<1> HIDE DEF more, urls2, m, d, N
<1>5. Places(urls2) = Places(urls) \union ({N} \X DOMAIN FeedOf[u])
  <2>1. 1 .. N = (1 .. N - 1) \union {N} /\ N \notin 1 .. N - 1
    <3>1. \A n : n \in 1 .. N <=> n \in 1 .. N - 1 \/ n = N
      BY <1>len
    <3>2. N \notin 1 .. N - 1
      BY <1>len
    <3> QED
      BY <3>1, <3>2
  <2> DEFINE Here(n) == {n} \X DOMAIN FeedOf[urls2[n]]
  <2>2. Places(urls2) = UNION {Here(n) : n \in 1 .. N}
    BY <1>4 DEF Places
  <2>3. Places(urls) = UNION {Here(n) : n \in 1 .. N - 1}
    BY <1>4 DEF Places
  <2>4. Here(N) = {N} \X DOMAIN FeedOf[u]
    BY <1>4
  <2> HIDE DEF Here
  <2> QED
    BY <2>1, <2>2, <2>3, <2>4
<1>6. \A p \in Places(urls) : p[1] \in 1 .. N - 1 /\ ItemAt(urls2, p) = ItemAt(urls, p)
  BY <1>4, PlaceTypes DEF ItemAt
<1> DEFINE pos2 == [k \in 1 .. m + d |-> IF k <= m THEN pos[k] ELSE <<N, k - m>>]
<1>7. /\ DOMAIN pos2 = 1 .. m + d
      /\ \A k \in 1 .. m : pos2[k] = pos[k] /\ pos[k] \in Places(urls)
      /\ \A k \in m + 1 .. m + d : pos2[k] = <<N, k - m>> /\ k - m \in DOMAIN FeedOf[u]
      /\ \A j \in DOMAIN FeedOf[u] : j + m \in m + 1 .. m + d
      /\ 1 .. m + d = 1 .. m \union m + 1 .. m + d
  BY <1>1, <1>2, <1>3
<1> HIDE DEF pos2
<1>8. \A k \in 1 .. m + d : pos2[k] \in Places(urls2)
  BY <1>5, <1>7
<1>9. pos2 \in [1 .. m + d -> Places(urls2)]
  BY <1>7, <1>8 DEF pos2
<1>10. ToSet(pos2) = Places(urls2)
  <2>1. ToSet(pos2) \subseteq Places(urls2)
    BY <1>7, <1>8 DEF ToSet
  <2>2. Places(urls) \subseteq ToSet(pos2)
    BY <1>1, <1>3, <1>7 DEF ToSet
  <2>3. ASSUME NEW j \in DOMAIN FeedOf[u] PROVE <<N, j>> \in ToSet(pos2)
    <3>1. \E k : k \in m + 1 .. m + d /\ k - m = j
      BY <1>2, <1>3, <1>7
    <3>2. PICK k \in m + 1 .. m + d : k - m = j
      BY <3>1
    <3>3. pos2[k] = <<N, j>> /\ k \in DOMAIN pos2
      BY <1>7, <3>2
    <3> QED
      BY <3>3 DEF ToSet
  <2> QED
    BY <1>5, <2>1, <2>2, <2>3
<1>11. \A k \in 1 .. m + d : more[k] = ItemAt(urls2, pos2[k])
  <2>1. \A k \in 1 .. m : more[k] = ItemAt(urls2, pos2[k])
    BY <1>1, <1>3, <1>6, <1>7
  <2>2. \A k \in m + 1 .. m + d : more[k] = ItemAt(urls2, pos2[k])
    BY <1>3, <1>4, <1>7 DEF ItemAt
  <2> QED
    BY <1>7, <2>1, <2>2
<1>12. \A k, l \in 1 .. m + d : k < l => Precedes(pos2[k], pos2[l])
  <2> SUFFICES ASSUME NEW k \in 1 .. m + d, NEW l \in 1 .. m + d, k < l
               PROVE  Precedes(pos2[k], pos2[l])
    OBVIOUS
  <2>1. CASE l <= m
    <3>1. k \in 1 .. m /\ l \in 1 .. m
      BY <1>2, <1>3, <2>1
    <3>2. pos2[k] = pos[k] /\ pos2[l] = pos[l] /\ Precedes(pos[k], pos[l])
      BY <1>1, <1>3, <1>7, <3>1
    <3> QED
      BY <3>2
  <2>2. CASE k <= m /\ l > m
    <3>1. k \in 1 .. m /\ l \in m + 1 .. m + d
      BY <1>2, <1>3, <2>2
    <3>2. pos2[k][1] \in 1 .. N - 1 /\ pos2[l][1] = N
      BY <1>6, <1>7, <3>1
    <3> QED
      BY <1>4, <3>2 DEF Precedes
  <2>3. CASE k > m
    <3>1. k \in m + 1 .. m + d /\ l \in m + 1 .. m + d
      BY <1>2, <1>3, <2>3
    <3>2. pos2[k] = <<N, k - m>> /\ pos2[l] = <<N, l - m>>
      BY <1>7, <3>1
    <3>3. k - m < l - m
      BY <1>3
    <3> QED
      BY <3>2, <3>3 DEF Precedes
  <2> QED
    BY <1>3, <2>1, <2>2, <2>3
<1>13. Concatenates(more, urls2)
  BY <1>3, <1>9, <1>10, <1>11, <1>12 DEF Concatenates
<1> QED
  BY <1>13 DEF more, urls2

\* What has been collected is about values.
LEMMA CollectedIsAValue ==
    CollectsWhatArrives' <=> Collected(allItems', urlErrs', ToSet(arrived'), failed')
BY DEF CollectsWhatArrives, Collected, Concatenates, Places, Precedes, ItemAt, ItemsOf, ToSet,
       SetToSeqs

\* One more result arrives, with items or with an error.
LEMMA CollectsMore ==
    ASSUME NEW items \in Seq(Items), NEW errs \in Seq(Urls), NEW came \in SUBSET Goroutines,
           NEW lost, NEW g \in Goroutines \ came, Collected(items, errs, came, lost)
    PROVE  /\ g \in lost =>
                 Collected(items, Append(errs, UrlList[g]), came \union {g}, lost)
           /\ g \notin lost =>
                 Collected(items \o ItemsOf(UrlList[g]), errs, came \union {g}, lost)
<1> DEFINE u == UrlList[g]
           Feeds(order) == [n \in DOMAIN order |-> UrlList[order[n]]]
<1>1. u \in Urls
  BY DEF Goroutines
<1>2. PICK order \in SetToSeqs(came \ lost) : Concatenates(items, Feeds(order))
  BY DEF Collected
<1>3. ToSet(errs) = {UrlList[h] : h \in came \intersect lost}
  BY DEF Collected
<1>4. CASE g \in lost
  <2>1. (came \union {g}) \ lost = came \ lost
    BY <1>4
  <2>2. (came \union {g}) \intersect lost = (came \intersect lost) \union {g}
    BY <1>4
  <2>3. ToSet(Append(errs, u)) = ToSet(errs) \union {u}
    <3> HIDE DEF u
    <3> QED
      BY <1>1, AppendElement
  <2>4. ToSet(Append(errs, u)) = {UrlList[h] : h \in (came \union {g}) \intersect lost}
    BY <1>3, <2>2, <2>3
  <2>5. Collected(items, Append(errs, u), came \union {g}, lost)
    BY <1>2, <2>1, <2>4 DEF Collected
  <2> QED
    BY <1>4, <2>5
<1>5. CASE g \notin lost
  <2>1. (came \union {g}) \ lost = (came \ lost) \union {g}
    BY <1>5
  <2>2. (came \union {g}) \intersect lost = came \intersect lost
    BY <1>5
  <2>3. IsFiniteSet(came \ lost)
    <3>1. came \ lost \in SUBSET Goroutines
      OBVIOUS
    <3> QED
      BY <3>1, GoroutinesAreFinite, FS_Subset
  <2>4. order \in Seq(came \ lost) /\ IsInjective(order) /\ ToSet(order) = came \ lost
    BY <2>3, ArrangementsOf
  <2>5. order \in Seq(Goroutines) /\ g \notin ToSet(order)
    BY <2>4
  <2>6. /\ IsInjective(Append(order, g)) /\ Append(order, g) \in Seq(Goroutines)
        /\ ToSet(Append(order, g)) = (came \union {g}) \ lost
    BY <2>1, <2>4, <2>5, DistinctAppend, AppendElement
  <2>7. Append(order, g) \in SetToSeqs((came \union {g}) \ lost)
    BY <2>6, DistinctIsArrangement
  <2>8. Feeds(order) \in Seq(Urls) /\ Feeds(Append(order, g)) = Append(Feeds(order), u)
    <3>1. DOMAIN order = 1 .. Len(order) /\ Len(order) \in Nat
      BY <2>5
    <3>2. \A n \in 1 .. Len(order) : UrlList[order[n]] \in Urls
      BY <2>5, <3>1 DEF Goroutines
    <3>3. Feeds(order) \in Seq(Urls) /\ Len(Feeds(order)) = Len(order)
      BY <3>1, <3>2
    <3>4. /\ DOMAIN Append(order, g) = 1 .. Len(order) + 1
          /\ Append(order, g)[Len(order) + 1] = g
          /\ \A n \in 1 .. Len(order) : Append(order, g)[n] = order[n]
      BY <2>5
    <3>5. Feeds(Append(order, g)) =
             [n \in 1 .. Len(order) + 1 |-> IF n = Len(order) + 1 THEN u ELSE Feeds(order)[n]]
      BY <3>1, <3>4
    <3>6. Append(Feeds(order), u) =
             [n \in 1 .. Len(order) + 1 |-> IF n = Len(order) + 1 THEN u ELSE Feeds(order)[n]]
      <4> DEFINE feeds == Feeds(order)
      <4>1. feeds \in Seq(Urls) /\ Len(feeds) = Len(order)
        BY <3>3
      <4> HIDE DEF feeds, u
      <4>2. /\ Append(feeds, u) \in Seq(Urls) /\ DOMAIN Append(feeds, u) = 1 .. Len(order) + 1
            /\ \A n \in 1 .. Len(order) : Append(feeds, u)[n] = feeds[n]
            /\ Append(feeds, u)[Len(order) + 1] = u
        BY <1>1, <3>1, <4>1
      <4>3. Append(feeds, u) = [n \in 1 .. Len(order) + 1 |-> Append(feeds, u)[n]]
        <5> DEFINE more == Append(feeds, u)
        <5>1. more \in Seq(Urls) /\ Len(more) = Len(order) + 1
          BY <1>1, <4>1
        <5> HIDE DEF more
        <5>2. more = [n \in 1 .. Len(more) |-> more[n]]
          BY <5>1
        <5> QED
          BY <5>1, <5>2 DEF more
      <4>4. \A n \in 1 .. Len(order) + 1 :
               Append(feeds, u)[n] = IF n = Len(order) + 1 THEN u ELSE feeds[n]
        BY <3>1, <4>2
      <4> QED
        BY <4>3, <4>4 DEF feeds
    <3> QED
      BY <3>3, <3>5, <3>6
  <2> HIDE DEF Feeds, u
  <2>9. Concatenates(items \o ItemsOf(u), Feeds(Append(order, g)))
    BY <1>1, <1>2, <2>8, ConcatenatesMore
  <2>10. Collected(items \o ItemsOf(u), errs, came \union {g}, lost)
    BY <1>3, <2>2, <2>7, <2>9 DEF Collected, Feeds
  <2> QED
    BY <1>5, <2>10 DEF u
<1> QED
  BY <1>4, <1>5

\* Nothing that happens to other goroutines changes what has been collected.
LEMMA CollectsStep ==
    ASSUME InductiveInv, SentOnce, TypeOK, CollectsWhatArrives, [Next]_vars
    PROVE  CollectsWhatArrives'
<1> USE DEF callerVars, collected
<1>1. /\ ReaderTypes /\ resultsChan \in Seq(Goroutines) /\ arrived \in Seq(Goroutines)
      /\ allItems \in Seq(Items) /\ urlErrs \in Seq(Urls)
  BY DEF InductiveInv, TypeOK
<1>2. ToSet(arrived) \in SUBSET Goroutines
  BY <1>1, ElementsAreIn
<1>3. ASSUME UNCHANGED <<allItems, urlErrs, arrived>>,
             failed' \intersect ToSet(arrived) = failed \intersect ToSet(arrived)
      PROVE  CollectsWhatArrives'
  <2>1. /\ ToSet(arrived) \ failed' = ToSet(arrived) \ failed
        /\ ToSet(arrived) \intersect failed' = ToSet(arrived) \intersect failed
    BY <1>3
  <2>2. Collected(allItems, urlErrs, ToSet(arrived), failed')
    BY <2>1 DEF CollectsWhatArrives, Collected
  <2>3. Collected(allItems', urlErrs', ToSet(arrived'), failed')
    BY <1>3, <2>2
  <2> QED
    BY <2>3, CollectedIsAValue
<1>4. CASE Receive
  <2> DEFINE g == Head(resultsChan)
  <2>1. /\ resultsChan # <<>> /\ arrived' = Append(arrived, g) /\ failed' = failed
        /\ g \in failed => urlErrs' = Append(urlErrs, UrlList[g]) /\ allItems' = allItems
        /\ g \notin failed => allItems' = allItems \o ItemsOf(UrlList[g]) /\ urlErrs' = urlErrs
    BY <1>4 DEF Receive
  <2>2. g \in Goroutines /\ g \in ToSet(resultsChan)
    BY <1>1, <2>1, HeadAndTail
  <2> HIDE DEF g
  <2>3. g \in Goroutines \ ToSet(arrived)
    BY <2>2 DEF SentOnce
  <2>4. ToSet(arrived') = ToSet(arrived) \union {g}
    BY <1>1, <2>1, <2>2, AppendElement
  <2>5. /\ g \in failed => Collected(allItems, Append(urlErrs, UrlList[g]), ToSet(arrived'), failed)
        /\ g \notin failed =>
              Collected(allItems \o ItemsOf(UrlList[g]), urlErrs, ToSet(arrived'), failed)
    <3> DEFINE came == ToSet(arrived)
    <3>1. came \in SUBSET Goroutines /\ g \in Goroutines \ came
      BY <1>2, <2>3
    <3>2. Collected(allItems, urlErrs, came, failed)
      BY DEF CollectsWhatArrives
    <3>3. ToSet(arrived') = came \union {g}
      BY <2>4
    <3> HIDE DEF came
    <3>4. /\ g \in failed =>
               Collected(allItems, Append(urlErrs, UrlList[g]), came \union {g}, failed)
          /\ g \notin failed =>
               Collected(allItems \o ItemsOf(UrlList[g]), urlErrs, came \union {g}, failed)
      BY <1>1, <3>1, <3>2, CollectsMore
    <3> QED
      BY <3>3, <3>4
  <2>6. Collected(allItems', urlErrs', ToSet(arrived'), failed')
    BY <2>1, <2>5
  <2> QED
    BY <2>6, CollectedIsAValue
<1>5. ASSUME NEW g \in Goroutines, Runs(g) \/ FetchSucceeds(g) \/ FetchFails(g)
      PROVE  CollectsWhatArrives'
  <2>1. /\ UNCHANGED <<allItems, urlErrs, arrived>>
        /\ failed' = failed \/ (failed' = failed \union {g} /\ g \notin At(pc, Sent))
    BY <1>1, <1>5, GoroutineSends
  <2>2. failed' \intersect ToSet(arrived) = failed \intersect ToSet(arrived)
    BY <2>1 DEF SentOnce
  <2> QED
    BY <1>3, <2>1, <2>2
<1>6. CASE Spawn \/ Return \/ Close \/ Cancel \/ UNCHANGED vars
  <2>1. UNCHANGED <<allItems, urlErrs, arrived, failed>>
    BY <1>6 DEF Spawn, Return, Close, Cancel, vars
  <2> QED
    BY <1>3, <2>1
<1> QED
  BY <1>4, <1>5, <1>6 DEF Next, CallerRuns

----------------------------------------------------------------------------
(* What is returned *)

\* Everything has arrived: what is collected, without duplicates, is an outcome.
LEMMA CollectedIsAnOutcome ==
    ASSUME NEW items \in Seq(Items), NEW errs, NEW lost, NEW out,
           Collected(items, errs, Goroutines, lost),
           ToSet(out) = {items[k] : k \in Kept(items)}
    PROVE  [items |-> ToSet(out), errors |-> ToSet(errs)] \in Outcomes
<1> DEFINE Feeds(order) == [n \in DOMAIN order |-> UrlList[order[n]]]
<1>1. PICK order \in SetToSeqs(Goroutines \ lost) : Concatenates(items, Feeds(order))
  BY DEF Collected
<1> DEFINE urls == Feeds(order)
<1>2. IsFiniteSet(Goroutines \ lost)
  <2>1. Goroutines \ lost \in SUBSET Goroutines
    OBVIOUS
  <2> QED
    BY <2>1, GoroutinesAreFinite, FS_Subset
<1>3. order \in Seq(Goroutines \ lost) /\ ToSet(order) = Goroutines \ lost
  BY <1>2, ArrangementsOf
<1>4. urls \in Seq(Urls)
  <2>1. DOMAIN order = 1 .. Len(order) /\ Len(order) \in Nat
    BY <1>3
  <2>2. \A n \in 1 .. Len(order) : UrlList[order[n]] \in Urls
    BY <1>3, <2>1 DEF Goroutines
  <2> QED
    BY <2>1, <2>2
<1>5. order \in SetToAllKPermutations(DOMAIN UrlList)
  <2>1. Goroutines \ lost \in SUBSET DOMAIN UrlList
    BY DEF Goroutines
  <2> QED
    BY <2>1 DEF SetToAllKPermutations
<1>6. PICK pos \in [DOMAIN items -> Places(urls)] :
         /\ ToSet(pos) = Places(urls)
         /\ \A k \in DOMAIN items : items[k] = ItemAt(urls, pos[k])
         /\ \A k, l \in DOMAIN items : k < l => Precedes(pos[k], pos[l])
  BY <1>1 DEF Concatenates
<1>7. ToSet(errs) = {UrlList[g] : g \in DOMAIN UrlList \ ToSet(order)}
  <2>1. Goroutines \intersect lost = DOMAIN UrlList \ ToSet(order)
    BY <1>3 DEF Goroutines
  <2> QED
    BY <2>1 DEF Collected
<1> HIDE DEF urls
<1>8. DOMAIN items = 1 .. Len(items) /\ Len(items) \in Nat /\ DOMAIN pos = DOMAIN items
  BY <1>6
<1>9. \A p \in Places(urls) : p[1] \in Nat /\ p[2] \in Nat
  BY <1>4, PlaceTypes
\* The place of an item precedes that of a later one, and of no earlier one.
<1>10. \A k, l \in DOMAIN items : Precedes(pos[k], pos[l]) => k < l
  <2> SUFFICES ASSUME NEW k \in DOMAIN items, NEW l \in DOMAIN items,
                      Precedes(pos[k], pos[l]), ~(k < l)
               PROVE  FALSE
    OBVIOUS
  <2>1. pos[k] \in Places(urls) /\ pos[l] \in Places(urls)
    BY <1>6
  <2>2. k = l \/ Precedes(pos[l], pos[k])
    BY <1>6, <1>8
  <2> QED
    BY <1>9, <2>1, <2>2 DEF Precedes
<1>11. \A k \in DOMAIN items : k \in Kept(items) <=> pos[k] \in FirstOfLink(urls)
  <2> TAKE k \in DOMAIN items
  <2>1. pos[k] \in Places(urls) /\ items[k] = ItemAt(urls, pos[k])
    BY <1>6
  <2>2. ASSUME k \in Kept(items) PROVE pos[k] \in FirstOfLink(urls)
    <3> SUFFICES ASSUME items[k].link # NoLink, NEW q \in Places(urls), Precedes(q, pos[k])
                 PROVE  ItemAt(urls, q).link # items[k].link
      BY <2>1 DEF FirstOfLink
    <3>1. PICK l \in DOMAIN items : q = pos[l]
      BY <1>6, <1>8 DEF ToSet
    <3>2. l \in 1 .. k - 1
      BY <1>8, <1>10, <3>1
    <3> QED
      BY <1>6, <2>2, <3>1, <3>2 DEF Kept
  <2>3. ASSUME pos[k] \in FirstOfLink(urls) PROVE k \in Kept(items)
    <3> SUFFICES ASSUME items[k].link # NoLink, NEW j \in 1 .. k - 1
                 PROVE  items[j].link # items[k].link
      BY DEF Kept
    <3>1. j \in DOMAIN items /\ j < k
      BY <1>8
    <3>2. Precedes(pos[j], pos[k]) /\ pos[j] \in Places(urls)
      BY <1>6, <3>1
    <3> QED
      BY <1>6, <2>1, <2>3, <3>1, <3>2 DEF FirstOfLink
  <2> QED
    BY <2>2, <2>3
<1>12. ToSet(out) = {ItemAt(urls, p) : p \in FirstOfLink(urls)}
  <2>1. ToSet(out) \subseteq {ItemAt(urls, p) : p \in FirstOfLink(urls)}
    BY <1>6, <1>11 DEF Kept
  <2>2. ASSUME NEW p \in FirstOfLink(urls) PROVE ItemAt(urls, p) \in ToSet(out)
    <3>1. PICK k \in DOMAIN items : p = pos[k]
      BY <1>6, <1>8 DEF ToSet, FirstOfLink
    <3> QED
      BY <1>6, <1>11, <3>1
  <2> QED
    BY <2>1, <2>2
<1>13. [items |-> ToSet(out), errors |-> ToSet(errs)] = Outcome(UrlList, order)
  BY <1>7, <1>12 DEF Outcome, urls
<1> QED
  BY <1>5, <1>13 DEF Outcomes, ParseOutcomes

\* The outcomes are about values.
LEMMA OutcomesAreFixed == Outcomes' = Outcomes /\ Items' = Items
BY DEF Outcomes, ParseOutcomes, Outcome, FirstOfLink, Places, Precedes, ItemAt, ItemsOf, LinksOf,
       ToSet, SetToAllKPermutations, SetToSeqs, Items

\* Parse returns when everything has arrived.
LEMMA ReturnStep ==
    ASSUME InductiveInv, SentOnce, TypeOK, CollectsWhatArrives, Return
    PROVE  output' \in Seq(Items) /\ ReturnsAnOutcome' /\ NewestFirst'
<1> USE DEF collected
<1>1. /\ closed /\ resultsChan = <<>> /\ urlErrs' = urlErrs
      /\ output' \in SortItems(deduplicate(allItems))
  BY DEF Return
<1>2. allItems \in Seq(Items)
  BY DEF TypeOK
<1>3. ToSet(arrived) = Goroutines
  <2>1. At(pc, Sent) = Goroutines
    BY <1>1 DEF InductiveInv, ClosedLast, At, Sent
  <2>2. ToSet(resultsChan) = {}
    BY <1>1 DEF ToSet
  <2> QED
    BY <2>1, <2>2 DEF SentOnce
<1> DEFINE kept == deduplicate(allItems)
           out == output'
<1>4. /\ kept \in Seq(Items) /\ ToSet(kept) = {allItems[k] : k \in Kept(allItems)}
      /\ Deduplicated(kept)
  BY <1>2, DeduplicateKeeps
<1>5. out \in SortItems(kept)
  BY <1>1
<1> HIDE DEF kept, out
<1>6. /\ out \in Seq(Items) /\ ToSet(out) = ToSet(kept) /\ Deduplicated(out)
      /\ \A a, b \in DOMAIN out : a < b => ~Less(out[b], out[a])
  BY <1>4, <1>5, SortRearranges
<1>7. [items |-> ToSet(out), errors |-> ToSet(urlErrs)] \in Outcomes
  BY <1>2, <1>3, <1>4, <1>6, CollectedIsAnOutcome DEF CollectsWhatArrives
<1>8. ReturnsAnOutcome'
  BY <1>1, <1>6, <1>7, OutcomesAreFixed DEF ReturnsAnOutcome, out, ToSet, Deduplicated
<1>9. \A a \in DOMAIN out : out[a].date \in Nat
  <2> SUFFICES ASSUME NEW a \in DOMAIN out PROVE out[a].date \in Nat
    OBVIOUS
  <2>1. out[a] \in Items
    BY <1>6
  <2> QED
    BY <2>1, ItemsAreTyped DEF Items
<1>10. \A a, b \in DOMAIN out : a < b => out[a].date >= out[b].date
  BY <1>6, <1>9 DEF Less
<1> QED
  BY <1>6, <1>8, <1>10 DEF NewestFirst, out

\* Everything keeps its type.
LEMMA TypeStep ==
    ASSUME InductiveInv, SentOnce, TypeOK, CollectsWhatArrives, [Next]_vars
    PROVE  TypeOK'
<1> USE DEF callerVars, collected
<1>1. InductiveInv'
  BY InductiveStep
<1>2. Len(UrlList) \in Nat /\ Limit \in Nat
  BY GoroutinesAreFinite
<1>3. /\ caller' \in {"spawn", "collect", "returned"} /\ spawned' \in 0 .. Len(UrlList)
      /\ pc' \in [Goroutines -> Steps] /\ resultsChan' \in Seq(Goroutines)
      /\ closed' \in BOOLEAN /\ arrived' \in Seq(Goroutines)
  BY <1>1 DEF InductiveInv, ReaderTypes
<1>4. sem' \in 0 .. Limit /\ wg' \in 0 .. Len(UrlList)
  <2>1. /\ sem' = Cardinality(At(pc', Holding)) /\ sem' <= Limit
        /\ wg' = Cardinality(At(pc', Counted))
    BY <1>1 DEF InductiveInv, CountsAgree, At, Holding, Counted, Steps
  <2>2. /\ Cardinality(At(pc', Holding)) \in Nat /\ Cardinality(At(pc', Counted)) \in Nat
        /\ Cardinality(At(pc', Counted)) <= Len(UrlList)
    BY AtIsFinite
  <2> QED
    BY <1>2, <2>1, <2>2
<1>5. ASSUME UNCHANGED <<allItems, urlErrs, output>>, cancelled' \in BOOLEAN,
             failed' \subseteq Goroutines
      PROVE  TypeOK'
  BY <1>3, <1>4, <1>5, OutcomesAreFixed DEF TypeOK, Goroutines
<1>6. CASE Receive
  <2> DEFINE g == Head(resultsChan)
  <2>1. /\ resultsChan # <<>> /\ UNCHANGED <<cancelled, failed, output>>
        /\ allItems' = allItems \/ allItems' = allItems \o ItemsOf(UrlList[g])
        /\ urlErrs' = urlErrs \/ urlErrs' = Append(urlErrs, UrlList[g])
    BY <1>6 DEF Receive
  <2>2. UrlList[g] \in Urls
    <3>1. g \in Goroutines
      BY <2>1 DEF TypeOK
    <3> QED
      BY <3>1 DEF Goroutines
  <2>3. ItemsOf(UrlList[g]) \in Seq(Items)
    BY <2>2, ItemsAreTyped
  <2> HIDE DEF g
  <2>4. allItems' \in Seq(Items) /\ urlErrs' \in Seq(Urls)
    <3> DEFINE u == UrlList[g]
               more == ItemsOf(u)
    <3>1. /\ allItems \in Seq(Items) /\ urlErrs \in Seq(Urls) /\ more \in Seq(Items) /\ u \in Urls
          /\ allItems' = allItems \/ allItems' = allItems \o more
          /\ urlErrs' = urlErrs \/ urlErrs' = Append(urlErrs, u)
      BY <2>1, <2>2, <2>3 DEF TypeOK
    <3> HIDE DEF u, more
    <3>2. allItems \o more \in Seq(Items) /\ Append(urlErrs, u) \in Seq(Urls)
      BY <3>1
    <3> QED
      BY <3>1, <3>2
  <2> QED
    BY <1>3, <1>4, <2>1, <2>4, OutcomesAreFixed DEF TypeOK, Goroutines
<1>7. CASE Return
  <2>1. output' \in Seq(Items)
    BY <1>7, ReturnStep
  <2>2. UNCHANGED <<cancelled, failed, allItems, urlErrs>>
    BY <1>7 DEF Return
  <2> QED
    BY <1>3, <1>4, <2>1, <2>2, OutcomesAreFixed DEF TypeOK, Goroutines
<1>8. ASSUME NEW g \in Goroutines, Runs(g) \/ FetchSucceeds(g) \/ FetchFails(g) PROVE TypeOK'
  <2>1. UNCHANGED <<allItems, urlErrs, output>> /\ failed' \subseteq Goroutines
    BY <1>8, GoroutineSends DEF TypeOK, InductiveInv
  <2>2. cancelled' = cancelled
    BY <1>8 DEF Runs, Acquire, Refuse, Send, Release, Exit, FetchSucceeds, FetchFails, Step
  <2> QED
    BY <1>5, <2>1, <2>2 DEF TypeOK
<1>9. CASE Spawn \/ Close \/ Cancel \/ UNCHANGED vars
  <2>1. UNCHANGED <<allItems, urlErrs, output, failed>> /\ cancelled' \in BOOLEAN
    BY <1>9 DEF Spawn, Close, Cancel, vars, TypeOK
  <2> QED
    BY <1>5, <2>1 DEF TypeOK
<1> QED
  BY <1>6, <1>7, <1>8, <1>9 DEF Next, CallerRuns

\* Nothing is returned before, and what was returned stays.
LEMMA ItemsStep ==
    ASSUME InductiveInv, ItemsInv, [Next]_vars
    PROVE  ItemsInv'
<1> USE DEF callerVars, collected
<1>1. SentOnce /\ TypeOK /\ CollectsWhatArrives /\ ReturnsAnOutcome /\ NewestFirst
  BY DEF ItemsInv
<1>2. SentOnce' /\ TypeOK' /\ CollectsWhatArrives'
  BY <1>1, SentOnceStep, TypeStep, CollectsStep
<1>3. ReturnsAnOutcome' /\ NewestFirst'
  <2>1. CASE Return
    BY <1>1, <2>1, ReturnStep
  <2>2. ASSUME output' = output, caller' = "returned" => caller = "returned" /\ urlErrs' = urlErrs
        PROVE  ReturnsAnOutcome' /\ NewestFirst'
    BY <1>1, <2>2, OutcomesAreFixed DEF ReturnsAnOutcome, NewestFirst, Deduplicated, ToSet
  <2>3. CASE Spawn \/ Receive \/ Close \/ Cancel \/ UNCHANGED vars
    <3>1. /\ output' = output
          /\ caller' = "returned" => caller = "returned" /\ urlErrs' = urlErrs
      BY <2>3 DEF Spawn, Receive, Close, Cancel, vars
    <3> QED
      BY <2>2, <3>1
  <2>4. ASSUME NEW g \in Goroutines, Runs(g) \/ FetchSucceeds(g) \/ FetchFails(g)
        PROVE  ReturnsAnOutcome' /\ NewestFirst'
    <3>1. UNCHANGED <<caller, urlErrs, output>>
      BY <2>4, GoroutineSends DEF InductiveInv
    <3> QED
      BY <2>2, <3>1
  <2> QED
    BY <2>1, <2>3, <2>4 DEF Next, CallerRuns
<1> QED
  BY <1>2, <1>3 DEF ItemsInv

\* Before the first goroutine is started nothing is collected.
LEMMA InitItems == Init => ItemsInv
<1> SUFFICES ASSUME Init PROVE ItemsInv
  OBVIOUS
<1>1. TypeOK
  <2>1. ReaderTypes
    BY InitInductive DEF InductiveInv
  <2>2. sem \in 0 .. Limit /\ wg \in 0 .. Len(UrlList)
    BY GoroutinesAreFinite DEF Init
  <2>3. allItems \in Seq(Items) /\ urlErrs \in Seq(Urls) /\ output \in Seq(Items)
    BY DEF Init
  <2>4. cancelled \in BOOLEAN /\ failed \subseteq Goroutines
    BY DEF Init
  <2> QED
    BY <2>1, <2>2, <2>3, <2>4 DEF TypeOK, ReaderTypes
<1>2. ToSet(<<>>) = {}
  BY DEF ToSet
<1>3. SentOnce
  <2>1. At(pc, Sent) = {}
    BY DEF Init, At, Sent
  <2>2. IsInjective(<<>>)
    BY DEF IsInjective
  <2> QED
    BY <1>2, <2>1, <2>2 DEF Init, SentOnce
<1>4. CollectsWhatArrives
  <2>1. IsInjective(<<>>) /\ <<>> \in Seq(Goroutines)
    BY DEF IsInjective
  <2>2. <<>> \in SetToSeqs({})
    <3> DEFINE s == <<>>
    <3>1. s \in Seq(Goroutines) /\ IsInjective(s) /\ ToSet(s) = {}
      BY <1>2, <2>1
    <3> HIDE DEF s
    <3>2. s \in SetToSeqs(ToSet(s))
      BY <3>1, DistinctIsArrangement
    <3> QED
      BY <3>1, <3>2 DEF s
  <2>3. [n \in DOMAIN <<>> |-> UrlList[<<>>[n]]] = <<>>
    OBVIOUS
  <2>4. ToSet(arrived) \ failed = {} /\ ToSet(arrived) \intersect failed = {}
    BY <1>2 DEF Init
  <2>5. allItems = <<>> /\ ToSet(urlErrs) = {}
    BY <1>2 DEF Init
  <2>6. Concatenates(allItems, [n \in DOMAIN <<>> |-> UrlList[<<>>[n]]])
    BY <2>3, <2>5, NothingConcatenates
  <2> QED
    BY <2>2, <2>4, <2>5, <2>6 DEF CollectsWhatArrives, Collected
<1>5. ReturnsAnOutcome /\ NewestFirst
  BY DEF Init, ReturnsAnOutcome, NewestFirst
<1> QED
  BY <1>1, <1>3, <1>4, <1>5 DEF ItemsInv

\* What is collected is what arrived, at every step (rssreader.go:92-100).
THEOREM ItemsInvariant == Spec => []ItemsInv
<1> QED
  BY InitInductive, InductiveStep, InitItems, ItemsStep, PTL DEF Spec

\* Every variable of Parse keeps its type: the counters stay within the number of URLs
\* and the limit (rssreader.go:54-88).
THEOREM TypeCorrect == Spec => []TypeOK
<1>1. ItemsInv => TypeOK
  BY DEF ItemsInv
<1> QED
  BY <1>1, ItemsInvariant, PTL

\* Whichever servers fail and whichever answers come first, what Parse returns accounts
\* for every URL and repeats no link (rssreader.go:92-103, options.go:38-56).
THEOREM OutcomeIsReturned == Spec => []ReturnsAnOutcome
<1>1. ItemsInv => ReturnsAnOutcome
  BY DEF ItemsInv
<1> QED
  BY <1>1, ItemsInvariant, PTL

\* And is sorted, with undated items last, though the sort is not stable and its order
\* leaves ties open (options.go:58-71).
THEOREM OutputIsSorted == Spec => []NewestFirst
<1>1. ItemsInv => NewestFirst
  BY DEF ItemsInv
<1> QED
  BY <1>1, ItemsInvariant, PTL
=============================================================================
