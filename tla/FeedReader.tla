---------------------------- MODULE FeedReader -----------------------------
(***************************************************************************)
(* One call of RssReader.Parse: it starts a goroutine per URL, which wait   *)
(* for a place in the semaphore, fetch, and send their result; one more     *)
(* goroutine closes the channel when all are done; the caller collects what *)
(* arrives, removes duplicates, sorts and returns.                          *)
(*                                                                          *)
(* The servers are external: a fetch may succeed, fail or hang, and nothing *)
(* but the caller's context ends a fetch that hangs.  Formats are abstract: *)
(* a body that neither parser takes is one more failed fetch.               *)
(***************************************************************************)
EXTENDS FeedItems

CONSTANTS
    UrlList,     \* the argument of Parse
    Limit        \* config.concurrencyLimit

ASSUME UrlListAssumption == UrlList \in Seq(Urls) /\ UrlList # <<>>
ASSUME LimitAssumption == Limit \in Nat \ {0}

\* Goroutines are named by the position of their URL.
Goroutines == DOMAIN UrlList

VARIABLES
    cancelled,   \* the context is done
    caller,      \* next step of the goroutine that called Parse
    spawned,     \* goroutines it has started so far
    pc,          \* next step of each goroutine
    failed,      \* goroutines whose fetch failed or never started
    sem,         \* places taken in the semaphore
    wg,          \* the WaitGroup's counter
    resultsChan, \* results in the channel, by goroutine
    closed,      \* the channel is closed
    allItems,    \* what the caller collects
    urlErrs,
    output,      \* the items that Parse returns
    \* history
    arrived      \* results that the caller received

collected == <<allItems, urlErrs, arrived>>
callerVars == <<caller, spawned, collected, output>>
vars == <<cancelled, callerVars, pc, failed, sem, wg, resultsChan, closed>>

Steps == {"new", "select", "refused", "fetch", "send", "release", "exit", "ended"}

Goto(g, step) == pc' = [pc EXCEPT ![g] = step]

----------------------------------------------------------------------------
(* The caller *)

Spawn ==
    /\ caller = "spawn"
    /\ spawned' = spawned + 1
    /\ wg' = wg + 1
    /\ Goto(spawned + 1, "select")
    /\ caller' = IF spawned + 1 = Len(UrlList) THEN "collect" ELSE "spawn"
    /\ UNCHANGED <<cancelled, failed, sem, resultsChan, closed, collected, output>>

Receive ==
    /\ caller = "collect"
    /\ resultsChan # <<>>
    /\ LET g == Head(resultsChan) IN
          /\ arrived' = Append(arrived, g)
          /\ IF g \in failed
             THEN urlErrs' = Append(urlErrs, UrlList[g]) /\ UNCHANGED allItems
             ELSE allItems' = allItems \o ItemsOf(UrlList[g]) /\ UNCHANGED urlErrs
    /\ resultsChan' = Tail(resultsChan)
    /\ UNCHANGED <<cancelled, caller, spawned, pc, failed, sem, wg, closed, output>>

\* Mutant: items without a link count as duplicates of each other.
TakeLinked(acc, item) ==
    IF item.link \in acc.seen THEN acc
    ELSE [seen |-> acc.seen \union {item.link}, out |-> Append(acc.out, item)]

\* The body of deduplicate's loop.
Take(acc, item) ==
    IF item.link = NoLink THEN [acc EXCEPT !.out = Append(@, item)]
    ELSE IF item.link \in acc.seen THEN acc
    ELSE [seen |-> acc.seen \union {item.link}, out |-> Append(acc.out, item)]

deduplicate(items) ==
    LET after[n \in 0 .. Len(items)] ==
            IF n = 0 THEN [seen |-> {}, out |-> <<>>] ELSE Take(after[n - 1], items[n])
    IN after[Len(items)].out

\* Mutant: undated items are not told from dated ones, so nothing moves them.
LessIfDated(i, j) == i.date # 0 /\ j.date # 0 /\ i.date > j.date

\* The function that sortItems gives to sort.Slice.
Less(i, j) == i.date # 0 /\ (j.date = 0 \/ i.date > j.date)

\* sort.Slice is not stable: any arrangement that Less allows.
SortItems(items) ==
    {s \in {[k \in DOMAIN items |-> items[p[k]]] : p \in Bijection(DOMAIN items, DOMAIN items)} :
        \A a, b \in DOMAIN s : a < b => ~Less(s[b], s[a])}

Return ==
    /\ caller = "collect"
    /\ resultsChan = <<>>
    /\ closed
    /\ output' \in SortItems(deduplicate(allItems))
    /\ caller' = "returned"
    /\ UNCHANGED <<cancelled, spawned, pc, failed, sem, wg, resultsChan, closed, collected>>

----------------------------------------------------------------------------
(* A goroutine *)

Step(g, from, to) ==
    /\ pc[g] = from
    /\ Goto(g, to)
    /\ UNCHANGED <<cancelled, callerVars, closed>>

\* Mutant: the semaphore takes one goroutine too many.
HasRoomForOneMore == sem <= Limit

HasRoom == sem < Limit

\* The select of line 71.  When both cases are ready either may be taken.
Acquire(g) ==
    /\ HasRoom
    /\ Step(g, "select", "fetch")
    /\ sem' = sem + 1
    /\ UNCHANGED <<failed, wg, resultsChan>>

Refuse(g) ==
    /\ cancelled
    /\ Step(g, "select", "refused")
    /\ failed' = failed \union {g}
    /\ UNCHANGED <<sem, wg, resultsChan>>

FetchSucceeds(g) ==
    /\ Step(g, "fetch", "send")
    /\ UNCHANGED <<failed, sem, wg, resultsChan>>

FetchFails(g) ==
    /\ Step(g, "fetch", "send")
    /\ failed' = failed \union {g}
    /\ UNCHANGED <<sem, wg, resultsChan>>

\* The channel has a place for every goroutine.  A goroutine that was refused
\* holds no place in the semaphore.
Send(g) ==
    /\ \/ Step(g, "send", "release")
       \/ Step(g, "refused", "exit")
    /\ resultsChan' = Append(resultsChan, g)
    /\ UNCHANGED <<failed, sem, wg>>

\* Mutant: a failed fetch returns before the place is given back.
ReleaseIfFetched(g) ==
    /\ Step(g, "release", "exit")
    /\ sem' = IF g \in failed THEN sem ELSE sem - 1
    /\ UNCHANGED <<failed, wg, resultsChan>>

Release(g) ==
    /\ Step(g, "release", "exit")
    /\ sem' = sem - 1
    /\ UNCHANGED <<failed, wg, resultsChan>>

Exit(g) ==
    /\ Step(g, "exit", "ended")
    /\ wg' = wg - 1
    /\ UNCHANGED <<failed, sem, resultsChan>>

----------------------------------------------------------------------------
\* Mutant: the closer waits until the semaphore is free.
SemaphoreIsFree == sem = 0

AllDone == wg = 0

\* The goroutine of line 84, started after the loop.
Close ==
    /\ caller # "spawn"
    /\ ~closed
    /\ AllDone
    /\ closed' = TRUE
    /\ UNCHANGED <<cancelled, callerVars, pc, failed, sem, wg, resultsChan>>

\* The caller's timeout, or the end of the request that it serves.
Cancel ==
    /\ ~cancelled
    /\ caller # "returned"
    /\ cancelled' = TRUE
    /\ UNCHANGED <<callerVars, pc, failed, sem, wg, resultsChan, closed>>

----------------------------------------------------------------------------
Init ==
    /\ cancelled = FALSE
    /\ caller = "spawn"
    /\ spawned = 0
    /\ pc = [g \in Goroutines |-> "new"]
    /\ failed = {}
    /\ sem = 0
    /\ wg = 0
    /\ resultsChan = <<>>
    /\ closed = FALSE
    /\ allItems = <<>>
    /\ urlErrs = <<>>
    /\ output = <<>>
    /\ arrived = <<>>

\* The steps that nothing outside can delay.
Runs(g) == Acquire(g) \/ Refuse(g) \/ Send(g) \/ Release(g) \/ Exit(g)

\* Mutant: the request is made without the context.
NoAbort(g) == FALSE

\* http.NewRequestWithContext: a fetch ends once the context is done.
Aborts(g) == cancelled /\ FetchFails(g)

CallerRuns == Spawn \/ Receive \/ Return

Next ==
    \/ CallerRuns
    \/ \E g \in Goroutines : Runs(g) \/ FetchSucceeds(g) \/ FetchFails(g)
    \/ Close
    \/ Cancel

Spec == Init /\ [][Next]_vars

\* The Go scheduler runs every goroutine that can run.  A server need not answer,
\* so a fetch must only end when the context is done.
Fairness ==
    /\ WF_vars(CallerRuns)
    /\ WF_vars(Close)
    /\ \A g \in Goroutines : WF_vars(Runs(g)) /\ WF_vars(Aborts(g))

FairSpec == Spec /\ Fairness

----------------------------------------------------------------------------
(* Properties *)

Items == UNION {ToSet(ItemsOf(u)) : u \in Urls}

\* Every variable keeps its type.
TypeOK ==
    /\ cancelled \in BOOLEAN
    /\ caller \in {"spawn", "collect", "returned"}
    /\ spawned \in 0 .. Len(UrlList)
    /\ pc \in [Goroutines -> Steps]
    /\ failed \subseteq Goroutines
    /\ sem \in 0 .. Limit
    /\ wg \in 0 .. Len(UrlList)
    /\ resultsChan \in Seq(Goroutines)
    /\ closed \in BOOLEAN
    /\ arrived \in Seq(Goroutines)
    /\ allItems \in Seq(Items)
    /\ urlErrs \in Seq(Urls)
    /\ output \in Seq(Items)

\* Never more connections at once than the limit (rssreader.go:75-77), never a
\* goroutine that still has to send when the channel is closed, which would panic
\* (rssreader.go:73, 80, 86), and never more results than the channel has places, so
\* that a send does not block (rssreader.go:62).
ChannelAndLimitAreSafe ==
    /\ Cardinality({g \in Goroutines : pc[g] = "fetch"}) <= Limit
    /\ closed => \A g \in Goroutines : pc[g] \notin {"select", "refused", "fetch", "send"}
    /\ Len(resultsChan) <= Len(UrlList)

Outcomes == ParseOutcomes(UrlList)

\* No two items have the same link.
Deduplicated(items) ==
    \A a, b \in DOMAIN items :
        a # b => items[a].link # items[b].link \/ items[a].link = NoLink

\* Whatever fails and whoever is first, the result accounts for every URL: the
\* items of those that arrived, less the ones with a link that arrived earlier,
\* and an error for each of the others (rssreader.go:92-103).
ReturnsAnOutcome ==
    caller = "returned" =>
        /\ [items |-> ToSet(output), errors |-> ToSet(urlErrs)] \in Outcomes
        /\ Deduplicated(output)

\* The result is sorted from new to old, undated items last (options.go:58-71).
NewestFirst ==
    \A a, b \in DOMAIN output : a < b => output[a].date >= output[b].date

\* A caller whose context ends gets its result, however many servers hang
\* (rssreader.go:71-76, fetch.go:12).
ReturnsWhenCancelled == cancelled ~> caller = "returned"

\* When every server answers the caller gets its result without a timeout: no
\* place in the semaphore is lost on any path (rssreader.go:77).
ReturnsWhenAnswered ==
    (\A g \in Goroutines : pc[g] = "fetch" ~> pc[g] # "fetch") => <>(caller = "returned")

=============================================================================
