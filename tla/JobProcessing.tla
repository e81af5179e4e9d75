--------------------------- MODULE JobProcessing ---------------------------
(***************************************************************************)
(* Inside rssservice: the workers that run Processor.Process on commands,   *)
(* the POST /parse handlers, and the Redis that they share, which holds the *)
(* jobs that GET /jobs/{id} shows and the URL cache.  Every Redis call is a *)
(* step, and so is everything a client or the broker sees.                  *)
(*                                                                          *)
(* Redis, the broker and the feeds are external.  The queue is the one of   *)
(* CommandBus, reduced to what its consumer sees: a delivery may come back  *)
(* while its worker goes on.  RssReader.Parse is one step, with an outcome  *)
(* that FeedReader returns.  The URLs of a job are distinct.                *)
(***************************************************************************)
EXTENDS FeedItems

CONSTANTS
    Jobs,         \* job ids; a job also names the handler of its POST /parse
    Workers,      \* bound: goroutines that process a delivery
    Posted,       \* bound: the jobs that somebody may send to POST /parse
    UrlsOf,       \* the URL list of each job
    Nothing,      \* an absent key in Redis, and the task of an idle actor
    MaxRetries,   \* the 3 of consumer.go:90
    MaxFaults     \* bound: failures, expired keys and hang-ups in a behaviour

ASSUME ActorsAssumption == Jobs \intersect Workers = {} /\ Posted \subseteq Jobs
ASSUME UrlsAssumption ==
    UrlsOf \in [Jobs -> Seq(Urls) \ {<<>>}] /\ \A j \in Jobs : IsInjective(UrlsOf[j])
ASSUME BoundsAssumption == MaxRetries \in Nat \ {0} /\ MaxFaults \in Nat

Actors == Workers \union Jobs

\* Rails sends the command of a job itself, or rssservice does in POST /parse.
Senders == {"rails", "go"}
Commands == Jobs \X Senders

VARIABLES
    store,      \* job:<id>
    cache,      \* cache:url:<hash>
    ready,      \* commands in the worker or the wait queue
    retries,    \* the x-death count of each command
    held,       \* workers whose delivery is unacked on the open channel
    sent,       \* commands published so far
    pc,         \* next step of each actor
    task,       \* what it is working on
    gone,       \* handlers whose client hung up, which ends the request's context
    faults,     \* failures, expired keys and clients that hung up so far
    \* history
    results,    \* <<j, result>> published for Rails or answered with 200
    again,      \* jobs submitted twice, or with a command delivered or tried again
    dropped     \* jobs of which a command was lost or parked, a final status was
                \* not stored, or a handler died

redisVars == <<store, cache>>
busVars == <<ready, retries, held, sent>>
actorVars == <<pc, task>>
vars == <<redisVars, busVars, actorVars, gone, faults, results, again, dropped>>

Final == {"done", "failed"}

Items == UNION {ToSet(ItemsOf(u)) : u \in Urls}

WorkerSteps == {"idle", "begin", "lookup", "fetch", "hydrate", "save", "report", "ack"}
HandlerSteps == {"none", "authorize", "create", "publish", "ended"}

JobOf(a) == task[a].cmd[1]

Goto(a, step) == pc' = [pc EXCEPT ![a] = step]

Start(a, c) ==
    task' = [task EXCEPT ![a] = [cmd |-> c, todo |-> UrlsOf[c[1]], missed |-> <<>>,
                                 found |-> {}, fresh |-> {}, errors |-> {}]]

Fault == faults < MaxFaults /\ faults' = faults + 1

\* A call to Redis, under the context of the delivery or the request.
RedisAnswers(a) == a \notin gone /\ UNCHANGED faults
RedisFails(a) == IF a \in gone THEN UNCHANGED faults ELSE Fault

----------------------------------------------------------------------------
(* Submission *)

\* PublishFeedJob publishes before it calls POST /parse, if it calls it at all.
RailsPublishes(j) ==
    /\ <<j, "rails">> \notin sent
    /\ pc[j] = "none"
    /\ sent' = sent \union {<<j, "rails">>}
    /\ ready' = ready \union {<<j, "rails">>}
    /\ UNCHANGED <<redisVars, retries, held, actorVars, gone, faults, results,
                   again, dropped>>

Post(j) ==
    /\ j \in Posted
    /\ pc[j] = "none"
    /\ Goto(j, "authorize")
    /\ Start(j, <<j, "go">>)
    /\ again' = IF <<j, "rails">> \in sent THEN again \union {j} ELSE again
    /\ UNCHANGED <<redisVars, busVars, gone, faults, results, dropped>>

----------------------------------------------------------------------------
(* POST /parse *)

HandlerStep(j, step) ==
    /\ pc[j] = step
    /\ UNCHANGED <<cache, retries, held, task, gone, results, again>>

\* Mutant: the job is created after its command is published.
CreateLast == [authorize |-> "publish", publish |-> "create", create |-> "ended"]

\* The order of the handler's calls while nothing fails.
Then == [authorize |-> "create", create |-> "publish", publish |-> "ended"]

Authorize(j) ==
    /\ HandlerStep(j, "authorize")
    /\ RedisAnswers(j)
    /\ Goto(j, Then["authorize"])
    /\ UNCHANGED <<store, ready, sent, dropped>>

\* The blocklist cannot be read: 401.
AuthorizeFails(j) ==
    /\ HandlerStep(j, "authorize")
    /\ RedisFails(j)
    /\ Goto(j, "ended")
    /\ UNCHANGED <<store, ready, sent, dropped>>

\* Mutant: a job starts in a status that nobody knows.
NewJobStarted(status) == [status |-> "started", items |-> {}, errors |-> {}]

NewJob(status) == [status |-> status, items |-> {}, errors |-> {}]

CreatePending(j) ==
    /\ HandlerStep(j, "create")
    /\ RedisAnswers(j)
    /\ store' = [store EXCEPT ![j] = NewJob("pending")]
    /\ Goto(j, Then["create"])
    /\ UNCHANGED <<ready, sent, dropped>>

CreateFails(j) ==
    /\ HandlerStep(j, "create")
    /\ RedisFails(j)
    /\ Goto(j, "lookup")
    /\ UNCHANGED <<store, ready, sent, dropped>>

\* 202.
PublishCommand(j) ==
    /\ HandlerStep(j, "publish")
    /\ sent' = sent \union {<<j, "go">>}
    /\ ready' = ready \union {<<j, "go">>}
    /\ Goto(j, Then["publish"])
    /\ UNCHANGED <<store, faults, dropped>>

\* The channel takes the message and the connection breaks: 202 all the same.
PublishIsLost(j) ==
    /\ HandlerStep(j, "publish")
    /\ Fault
    /\ dropped' = dropped \union {j}
    /\ Goto(j, Then["publish"])
    /\ UNCHANGED <<store, ready, sent>>

PublishFails(j) ==
    /\ HandlerStep(j, "publish")
    /\ Fault
    /\ Goto(j, "lookup")
    /\ UNCHANGED <<store, ready, sent, dropped>>

\* Rails waits 10 s (publish_feed_job.rb:34), a parse may take 15 s.
ClientLeaves(j) ==
    /\ j \notin gone
    /\ pc[j] \notin {"none", "ended"}
    /\ gone' = gone \union {j}
    /\ Fault
    /\ UNCHANGED <<redisVars, busVars, actorVars, results, again, dropped>>

----------------------------------------------------------------------------
(* A worker takes a command *)

Deliver(w) ==
    /\ pc[w] = "idle"
    /\ \E c \in ready :
          /\ retries[c] < MaxRetries
          /\ ready' = ready \ {c}
          /\ Start(w, c)
    /\ held' = held \union {w}
    /\ Goto(w, "begin")
    /\ UNCHANGED <<redisVars, retries, sent, gone, faults, results, again, dropped>>

\* The delivery after the last attempt goes to the failed queue.
Park(c) ==
    /\ c \in ready
    /\ retries[c] = MaxRetries
    /\ ready' = ready \ {c}
    /\ dropped' = dropped \union {c[1]}
    /\ UNCHANGED <<redisVars, retries, held, sent, actorVars, gone, faults, results, again>>

Leave(w) ==
    /\ Goto(w, "idle")
    /\ task' = [task EXCEPT ![w] = Nothing]
    /\ held' = held \ {w}

\* Mutant: the message is discarded, not dead-lettered.
Discard(w) ==
    /\ Leave(w)
    /\ UNCHANGED <<ready, retries, again>>

\* The handler returned an error: nack, then the wait queue.  On a channel that
\* is gone the nack reaches nobody.
Retry(w) ==
    /\ Leave(w)
    /\ IF w \in held
       THEN /\ ready' = ready \union {task[w].cmd}
            /\ retries' = [retries EXCEPT ![task[w].cmd] = @ + 1]
            /\ again' = again \union {JobOf(w)}
       ELSE UNCHANGED <<ready, retries, again>>

Begin(w) ==
    /\ pc[w] = "begin"
    /\ RedisAnswers(w)
    /\ store' = [store EXCEPT ![JobOf(w)] = NewJob("processing")]
    /\ Goto(w, "lookup")
    /\ UNCHANGED <<cache, busVars, task, gone, results, again, dropped>>

BeginFails(w) ==
    /\ pc[w] = "begin"
    /\ RedisFails(w)
    /\ Retry(w)
    /\ UNCHANGED <<redisVars, sent, gone, results, dropped>>

Ack(w) ==
    /\ pc[w] = "ack"
    /\ Leave(w)
    /\ UNCHANGED <<redisVars, ready, retries, sent, gone, faults, results, again, dropped>>

----------------------------------------------------------------------------
(* Parsing with the cache: the same code in Process and in the handler.       *)

ParseStep(a, step) ==
    /\ pc[a] = step
    /\ UNCHANGED <<store, busVars, gone, results, again, dropped>>

AfterLookup(todo, missed) ==
    IF todo # <<>> THEN "lookup" ELSE IF missed # <<>> THEN "fetch" ELSE "save"

\* Mutant: a hit is counted, its items are not used.
HitWithoutItems(found, u) == found

WithHit(found, u) == found \union cache[u]

Lookup(a) ==
    /\ ParseStep(a, "lookup")
    /\ LET u == Head(task[a].todo)
           todo == Tail(task[a].todo)
           hit == cache[u] # Nothing
           missed == IF hit THEN task[a].missed ELSE Append(task[a].missed, u)
       IN /\ task' = [task EXCEPT
                ![a].todo = todo,
                ![a].missed = missed,
                ![a].found = IF hit THEN WithHit(@, u) ELSE @]
          /\ Goto(a, AfterLookup(todo, missed))
    /\ RedisAnswers(a)
    /\ UNCHANGED cache

\* Any error of Redis counts as a miss.
LookupFails(a) ==
    /\ ParseStep(a, "lookup")
    /\ RedisFails(a)
    /\ LET todo == Tail(task[a].todo)
           missed == Append(task[a].missed, Head(task[a].todo))
       IN /\ task' = [task EXCEPT ![a].todo = todo, ![a].missed = missed]
          /\ Goto(a, AfterLookup(todo, missed))
    /\ UNCHANGED cache

AfterHydrate(todo) == IF todo = <<>> THEN "save" ELSE "hydrate"

Fetch(a) ==
    /\ ParseStep(a, "fetch")
    /\ \E o \in ParseOutcomes(task[a].missed) :
          task' = [task EXCEPT ![a].missed = <<>>, ![a].todo = task[a].missed,
                               ![a].found = @ \union o.items,
                               ![a].fresh = o.items, ![a].errors = o.errors]
    /\ Goto(a, "hydrate")
    /\ UNCHANGED <<cache, faults>>

\* fetchedItemsByURL
Fetched(a, u) == {i \in task[a].fresh : i.url = u}

\* Mutant: the cache is filled for the URLs that failed as well.
HasNeverFailed(a, u) == FALSE

HasFailed(a, u) == u \in task[a].errors

\* The loop over urlsToFetch goes on to the next.
Hydrated(a) ==
    LET todo == Tail(task[a].todo) IN
    /\ task' = [task EXCEPT ![a].todo = todo]
    /\ Goto(a, AfterHydrate(todo))

SkipsFailed(a) ==
    /\ ParseStep(a, "hydrate")
    /\ HasFailed(a, Head(task[a].todo))
    /\ Hydrated(a)
    /\ UNCHANGED <<cache, faults>>

Hydrate(a) ==
    /\ ParseStep(a, "hydrate")
    /\ RedisAnswers(a)
    /\ LET u == Head(task[a].todo) IN
          /\ ~HasFailed(a, u)
          /\ cache' = [cache EXCEPT ![u] = Fetched(a, u)]
    /\ Hydrated(a)

HydrateFails(a) ==
    /\ ParseStep(a, "hydrate")
    /\ ~HasFailed(a, Head(task[a].todo))
    /\ RedisFails(a)
    /\ Hydrated(a)
    /\ UNCHANGED cache

AllFailed(a) == task[a].found = {} /\ task[a].errors = ToSet(UrlsOf[JobOf(a)])

Result(a) ==
    [status |-> IF AllFailed(a) THEN "failed" ELSE "done",
     items |-> task[a].found, errors |-> task[a].errors]

----------------------------------------------------------------------------
(* The end of a job *)

SaveFinal(w) ==
    /\ pc[w] = "save"
    /\ RedisAnswers(w)
    /\ store' = [store EXCEPT ![JobOf(w)] = Result(w)]
    /\ Goto(w, "report")
    /\ UNCHANGED <<cache, busVars, task, gone, results, again, dropped>>

SaveFails(w) ==
    /\ pc[w] = "save"
    /\ RedisFails(w)
    /\ Retry(w)
    /\ dropped' = IF w \in held THEN dropped ELSE dropped \union {JobOf(w)}
    /\ UNCHANGED <<redisVars, sent, gone, results>>

PublishResult(w) ==
    /\ pc[w] = "report"
    /\ results' = results \union {<<JobOf(w), Result(w)>>}
    /\ Goto(w, "ack")
    /\ UNCHANGED <<redisVars, busVars, task, gone, faults, again, dropped>>

PublishResultFails(w) ==
    /\ pc[w] = "report"
    /\ Fault
    /\ Retry(w)
    /\ UNCHANGED <<redisVars, sent, gone, results, dropped>>

\* The handler saves what it found, whether or not Redis takes it, and answers 200.
Answer(j) ==
    /\ pc[j] = "save"
    /\ \/ /\ RedisAnswers(j)
          /\ store' = [store EXCEPT ![j] = Result(j)]
          /\ UNCHANGED dropped
       \/ /\ RedisFails(j)
          /\ dropped' = dropped \union {j}
          /\ UNCHANGED store
    /\ results' = results \union {<<j, Result(j)>>}
    /\ Goto(j, "ended")
    /\ task' = [task EXCEPT ![j] = Nothing]
    /\ UNCHANGED <<cache, busVars, gone, again>>

----------------------------------------------------------------------------
(* Time and failures *)

Expire ==
    /\ \/ \E u \in Urls : /\ cache[u] # Nothing
                          /\ cache' = [cache EXCEPT ![u] = Nothing]
                          /\ UNCHANGED store
       \/ \E j \in Jobs : /\ store[j] # Nothing
                          /\ store' = [store EXCEPT ![j] = Nothing]
                          /\ UNCHANGED cache
    /\ Fault
    /\ UNCHANGED <<busVars, actorVars, gone, results, again, dropped>>

\* The broker takes back what is unacked; the workers go on.
Disconnect ==
    /\ held # {}
    /\ Fault
    /\ ready' = ready \union {task[w].cmd : w \in held}
    /\ again' = again \union {JobOf(w) : w \in held}
    /\ held' = {}
    /\ UNCHANGED <<redisVars, retries, sent, actorVars, gone, results, dropped>>

Running == {a \in Actors : pc[a] \notin {"idle", "none", "ended"}}

\* Every worker and every handler dies with the process.
Crash ==
    /\ Running # {}
    /\ Fault
    /\ ready' = ready \union {task[w].cmd : w \in held}
    /\ again' = again \union {JobOf(w) : w \in held}
    /\ held' = {}
    /\ dropped' = dropped \union {JobOf(a) : a \in Running \ held}
    /\ pc' = [a \in Actors |-> IF a \in Workers THEN "idle"
                               ELSE IF a \in Running THEN "ended" ELSE pc[a]]
    /\ task' = [a \in Actors |-> Nothing]
    /\ UNCHANGED <<redisVars, retries, sent, gone, results>>

----------------------------------------------------------------------------
Init ==
    /\ store = [j \in Jobs |-> Nothing]
    /\ cache = [u \in Urls |-> Nothing]
    /\ ready = {}
    /\ retries = [c \in Commands |-> 0]
    /\ held = {}
    /\ sent = {}
    /\ pc = [a \in Actors |-> IF a \in Workers THEN "idle" ELSE "none"]
    /\ task = [a \in Actors |-> Nothing]
    /\ gone = {}
    /\ faults = 0
    /\ results = {}
    /\ again = {}
    /\ dropped = {}

HandlerNext(j) ==
    \/ RailsPublishes(j)
    \/ Post(j)
    \/ Authorize(j)
    \/ AuthorizeFails(j)
    \/ CreatePending(j)
    \/ CreateFails(j)
    \/ PublishCommand(j)
    \/ PublishIsLost(j)
    \/ PublishFails(j)
    \/ Answer(j)
    \/ ClientLeaves(j)

WorkerNext(w) ==
    \/ Deliver(w)
    \/ Begin(w)
    \/ BeginFails(w)
    \/ SaveFinal(w)
    \/ SaveFails(w)
    \/ PublishResult(w)
    \/ PublishResultFails(w)
    \/ Ack(w)

ParseNext(a) ==
    \/ Lookup(a)
    \/ LookupFails(a)
    \/ Fetch(a)
    \/ SkipsFailed(a)
    \/ Hydrate(a)
    \/ HydrateFails(a)

Next ==
    \/ \E j \in Jobs : HandlerNext(j)
    \/ \E w \in Workers : WorkerNext(w)
    \/ \E a \in Actors : ParseNext(a)
    \/ \E c \in Commands : Park(c)
    \/ Expire
    \/ Disconnect
    \/ Crash

Spec == Init /\ [][Next]_vars

----------------------------------------------------------------------------
(* Properties *)

Results == [status : Final \union {"pending", "processing"},
            items : SUBSET Items, errors : SUBSET Urls]

\* Every variable keeps its type.
TypeOK ==
    /\ store \in [Jobs -> Results \union {Nothing}]
    /\ cache \in [Urls -> (SUBSET Items) \union {Nothing}]
    /\ ready \subseteq sent
    /\ retries \in [Commands -> 0 .. MaxRetries]
    /\ held \subseteq Workers
    /\ sent \subseteq Commands
    /\ pc \in [Actors -> WorkerSteps \union HandlerSteps]
    /\ \A a \in Actors :
          \/ task[a] = Nothing
          \/ /\ task[a].cmd \in Commands
             /\ ToSet(task[a].todo) \union ToSet(task[a].missed) \subseteq Urls
             /\ task[a].found \union task[a].fresh \subseteq Items
             /\ task[a].errors \subseteq Urls
    /\ gone \subseteq Jobs
    /\ faults \in 0 .. MaxFaults
    /\ results \subseteq Jobs \X Results
    /\ again \subseteq Jobs
    /\ dropped \subseteq Jobs

\* Another URL that is asked for together with u has the link.
Shared(u, link) ==
    \E j \in Jobs : \E v \in ToSet(UrlsOf[j]) \ {u} :
        u \in ToSet(UrlsOf[j]) /\ link \in LinksOf(v) \ {NoLink}

Links(items) == {i.link : i \in items}

\* items are items of u, and all of them save those whose link one of them has, or
\* another URL of a job.
HoldsOwn(u, items) ==
    /\ items \subseteq ToSet(ItemsOf(u))
    /\ \A i \in ToSet(ItemsOf(u)) \ items :
          i.link \in Links(items) \ {NoLink} \/ Shared(u, i.link)

\* A cached URL has its own items and no others.  Missing are at most those whose
\* link is there, or is one of another URL of the same job, to which deduplicate gave
\* it; never all of them because a fetch failed (processor.go:93, 122-140).
CacheHoldsOwnItems == \A u \in Urls : cache[u] # Nothing => HoldsOwn(u, cache[u])

ItemsOfAll(urls) == UNION {ToSet(ItemsOf(u)) : u \in urls}

\* The links of u are among those of items, save shared ones.
Accounted(u, items) == \A link \in LinksOf(u) \ Links(items) : Shared(u, link)

\* However a job was served, from the cache, the network or both, its result
\* accounts for every URL: by an error, or by its links, save those that are
\* shared (processor.go:58-120, parse.go:78-140).
ResultsAccountForUrls ==
    \A p \in results :
        LET urls == ToSet(UrlsOf[p[1]])
            r == p[2]
        IN /\ r.items \subseteq ItemsOfAll(urls)
           /\ \A u \in urls \ r.errors : Accounted(u, r.items)

Busy(j) ==
    \/ \E c \in ready : c[1] = j
    \/ \E a \in Running : JobOf(a) = j

\* A poll that never ends has a reason: the command was lost or parked, the final
\* status could not be stored, or the process died in the handler.  No race of two
\* writers of one job leaves it pending (parse.go:64, 182, processor.go:53, 161).
StuckPollHasReason ==
    \A j \in Jobs :
        store[j] # Nothing /\ store[j].status \notin Final => Busy(j) \/ j \in dropped

\* A poll shows what was answered or published, until the job expires, unless the
\* job ran more than once or Redis failed (processor.go:161-169, parse.go:182).
PollShowsResult ==
    \A p \in results :
        p[1] \notin again \union dropped => store[p[1]] \in {p[2], Nothing}

=============================================================================
