------------------------ MODULE JobProcessingProofs ------------------------
(***************************************************************************)
(* Proofs about JobProcessing, for any jobs, workers, feeds, retries and     *)
(* failures: why a poll may stay pending, what a poll shows of a job that    *)
(* ran once, what the cache may hold, that a result accounts for every URL   *)
(* of its job, and that no command is forgotten.                             *)
(***************************************************************************)
EXTENDS JobProcessing, FeedItemsProofs, TLAPS

USE ActorsAssumption

----------------------------------------------------------------------------
(* The inductive invariant behind StuckPollHasReason and PollShowsResult.  It   *)
(* says nothing of items, so it needs no more of their types than their being   *)
(* there.                                                                       *)

ParseSteps == {"lookup", "fetch", "hydrate", "save"}

IsTask(t) ==
    /\ t = [cmd |-> t.cmd, todo |-> t.todo, missed |-> t.missed,
            found |-> t.found, fresh |-> t.fresh, errors |-> t.errors]
    /\ t.cmd \in Commands

\* Who runs works on a command, a handler on the one of its own job.
WorkIsWellFormed ==
    /\ pc \in [Actors -> WorkerSteps \union HandlerSteps]
    /\ DOMAIN task = Actors /\ DOMAIN store = Jobs
    /\ ready \subseteq Commands
    /\ \A a \in Running : IsTask(task[a]) /\ (a \in Jobs => JobOf(a) = a)
    /\ \A p \in results : p[1] \in Jobs
    /\ \A w \in Workers : pc[w] \in WorkerSteps
    /\ \A j \in Jobs : pc[j] \in HandlerSteps \union ParseSteps

\* An unacked delivery has a worker; a worker whose delivery was taken back works on
\* a job that is tried again.
DeliveriesHaveWorkers ==
    /\ held \subseteq Workers \intersect Running
    /\ \A w \in (Workers \intersect Running) \ held : JobOf(w) \in again

\* a still has to give j a final status, or will say why not.
WillFinish(a, j) ==
    /\ pc[a] \in {"publish"} \union ParseSteps \/ (pc[a] = "begin" /\ a \in held)
    /\ JobOf(a) = j

Awaited(j) ==
    \/ \E c \in ready : c[1] = j
    \/ \E a \in Actors : WillFinish(a, j)

PendingIsAwaited ==
    \A j \in Jobs :
        store[j] # Nothing /\ store[j].status \notin Final => Awaited(j) \/ j \in dropped

\* j was submitted once, and so far its command went its way without a failure.
Fresh(j) == j \notin again \union dropped

Submitted(j) == pc[j] # "none" \/ <<j, "rails">> \in sent

\* Then it is in one place: in the queue or in the hands of one actor.
OnePlace ==
    \A j \in Jobs : Fresh(j) =>
        /\ \A c \in ready : c[1] = j =>
              /\ Submitted(j)
              /\ \A d \in ready : d[1] = j => d = c
              /\ \A a \in Running : JobOf(a) # j
        /\ \A a \in Running : JobOf(a) = j =>
              /\ Submitted(j)
              /\ \A b \in Running : JobOf(b) = j => b = a

\* And what its worker stored is what it publishes, after which it only acks.
OneResult ==
    \A j \in Jobs : Fresh(j) =>
        /\ \A w \in Workers :
              pc[w] = "report" /\ JobOf(w) = j => store[j] \in {Result(w), Nothing}
        /\ \A p \in results : p[1] = j =>
              /\ store[j] \in {p[2], Nothing}
              /\ Submitted(j)
              /\ \A c \in ready : c[1] # j
              /\ \A a \in Running : JobOf(a) = j => pc[a] = "ack"

InductiveInv ==
    /\ WorkIsWellFormed
    /\ DeliveriesHaveWorkers
    /\ PendingIsAwaited
    /\ OnePlace
    /\ OneResult

----------------------------------------------------------------------------
(* The inductive invariant behind TypeOK, CacheHoldsOwnItems and               *)
(* ResultsAccountForUrls.                                                      *)

\* A command is published once, and its broker copy is in one place.
OneCopy ==
    /\ ready \subseteq sent
    /\ \A j \in Jobs :
          <<j, "go">> \in sent => pc[j] \notin {"none", "authorize", "create", "publish"}
    /\ \A w \in held : /\ task[w].cmd \in sent \ ready
                       /\ retries[task[w].cmd] < MaxRetries
                       /\ \A v \in held : task[v].cmd = task[w].cmd => v = w

\* A task is about the URLs of its job.
IsWork(t) ==
    LET urls == ToSet(UrlsOf[t.cmd[1]]) IN
    /\ IsTask(t)
    /\ t.todo \in Seq(urls) /\ t.missed \in Seq(urls)
    /\ t.found \union t.fresh \subseteq ItemsOfAll(urls)
    /\ t.errors \subseteq urls

TasksAreWork ==
    \A a \in Actors : a \in Running \/ task[a] # Nothing => IsWork(task[a])

LookingUp == {"authorize", "create", "publish", "begin", "lookup"}

\* What is left to do at a step: URLs to look up, to fetch, or to put into the cache.
LeftToDo(step, t) ==
    /\ step \in LookingUp \union {"hydrate"} => t.todo # <<>>
    /\ step = "fetch" => t.todo = <<>> /\ t.missed # <<>>
    /\ step = "hydrate" =>
          \A u \in ToSet(t.todo) \ t.errors : HoldsOwn(u, {i \in t.fresh : i.url = u})

\* The URLs that need no more work: their items are there, or their error.
Served(step, t) ==
    LET urls == ToSet(UrlsOf[t.cmd[1]]) IN
    /\ step \in LookingUp \union {"fetch"} =>
          /\ t.errors = {}
          /\ \A u \in urls \ (ToSet(t.todo) \union ToSet(t.missed)) : Accounted(u, t.found)
    /\ step \in {"hydrate", "save", "report"} =>
          \A u \in urls \ t.errors : Accounted(u, t.found)

ItemsInv ==
    /\ TypeOK
    /\ OneCopy
    /\ TasksAreWork
    /\ \A a \in Running : LeftToDo(pc[a], task[a]) /\ Served(pc[a], task[a])
    /\ CacheHoldsOwnItems
    /\ ResultsAccountForUrls

----------------------------------------------------------------------------
(* What becomes of a command, and the inductive invariant behind it.           *)

\* A command leaves the queue and the workers for good only when each of its attempts
\* has failed, or after a result of its job, whatever Redis, the connection and the
\* process do: the promise of the bus, kept with the handler that the service really has
\* (consumer.go:90-129, processor.go:161-175).
CommandsHaveOutcome ==
    \A c \in sent \ ready :
        \/ \E w \in held : task[w].cmd = c
        \/ retries[c] = MaxRetries
        \/ \E p \in results : p[1] = c[1]

\* A worker acks after it has published.
AckedIsAnswered ==
    \A w \in Workers : pc[w] = "ack" => \E p \in results : p[1] = JobOf(w)

CommandsInv == AckedIsAnswered /\ CommandsHaveOutcome

----------------------------------------------------------------------------
(* Work in hand *)

\* The steps that an actor can be at.
StepsOf(a) == IF a \in Jobs THEN HandlerSteps \union ParseSteps ELSE WorkerSteps

\* Where nothing runs.
Resting == {"idle", "none", "ended"}

\* Only a moves.
OthersStay(a) == \A b \in Actors \ {a} : pc'[b] = pc[b] /\ task'[b] = task[b]

\* An actor that takes a step with well-formed work in its hands, or rests after it,
\* leaves all work well-formed.
LEMMA WorkMoves ==
    ASSUME WorkIsWellFormed, NEW a \in Actors, NEW step, step \in StepsOf(a),
           Goto(a, step), OthersStay(a), DOMAIN task' = Actors,
           step \in Resting \/ (IsTask(task'[a]) /\ (a \in Jobs => task'[a].cmd[1] = a)),
           DOMAIN store' = Jobs, ready' \subseteq Commands,
           \A p \in results' : p[1] \in Jobs
    PROVE  WorkIsWellFormed'
<1> USE DEF WorkIsWellFormed, Goto
<1>1. pc'[a] = step /\ pc' \in [Actors -> WorkerSteps \union HandlerSteps]
  BY DEF StepsOf, WorkerSteps, ParseSteps
<1>2. ASSUME NEW b \in Running' PROVE IsTask(task'[b]) /\ (b \in Jobs => JobOf(b)' = b)
  <2>1. CASE b = a
    BY <1>1, <1>2, <2>1 DEF Running, Resting, JobOf
  <2>2. CASE b # a
    BY <1>2, <2>2 DEF Running, OthersStay, JobOf
  <2> QED
    BY <2>1, <2>2
<1>3. \A w \in Workers : pc'[w] \in WorkerSteps
  BY <1>1 DEF StepsOf, OthersStay, Actors
<1>4. \A j \in Jobs : pc'[j] \in HandlerSteps \union ParseSteps
  BY <1>1 DEF StepsOf, OthersStay, Actors
<1>5. \A b : IsTask(task[b])' <=> IsTask(task'[b])
  BY DEF IsTask, Commands
<1> QED
  BY <1>1, <1>2, <1>3, <1>4, <1>5

\* The same for an actor that keeps its work.
LEMMA WorkGoesOn ==
    ASSUME WorkIsWellFormed, NEW a \in Running, NEW step, step \in StepsOf(a),
           Goto(a, step), task' = task,
           DOMAIN store' = Jobs, ready' \subseteq Commands,
           \A p \in results' : p[1] \in Jobs
    PROVE  WorkIsWellFormed' /\ OthersStay(a)
<1>1. a \in Actors /\ OthersStay(a)
  BY DEF Running, OthersStay, Goto, WorkIsWellFormed
<1>2. IsTask(task'[a]) /\ (a \in Jobs => task'[a].cmd[1] = a)
  BY DEF WorkIsWellFormed, JobOf
<1>3. DOMAIN task' = Actors
  BY DEF WorkIsWellFormed
<1> QED
  BY <1>1, <1>2, <1>3, WorkMoves

\* And for a worker that puts it away.
LEMMA WorkEnds ==
    ASSUME WorkIsWellFormed, NEW w \in Workers, Leave(w),
           DOMAIN store' = Jobs, ready' \subseteq Commands,
           \A p \in results' : p[1] \in Jobs
    PROVE  WorkIsWellFormed' /\ OthersStay(w) /\ pc'[w] = "idle"
<1>1. /\ w \in Actors /\ OthersStay(w) /\ Goto(w, "idle") /\ DOMAIN task' = Actors
      /\ pc'[w] = "idle"
  BY DEF Actors, OthersStay, Goto, Leave, WorkIsWellFormed
<1>2. "idle" \in StepsOf(w) /\ "idle" \in Resting
  BY DEF StepsOf, WorkerSteps, Resting
<1> QED
  BY <1>1, <1>2, WorkMoves

\* A task that starts is well-formed.
LEMMA StartMoves ==
    ASSUME WorkIsWellFormed, NEW a \in Actors, NEW c \in Commands, Start(a, c)
    PROVE  /\ IsTask(task'[a]) /\ task'[a].cmd = c
           /\ DOMAIN task' = Actors /\ \A b \in Actors \ {a} : task'[b] = task[b]
<1> DEFINE t == [cmd |-> c, todo |-> UrlsOf[c[1]], missed |-> <<>>,
                 found |-> {}, fresh |-> {}, errors |-> {}]
<1>1. task' = [task EXCEPT ![a] = t]
  BY DEF Start
<1>2. t.cmd = c /\ IsTask(t)
  BY DEF IsTask
<1> HIDE DEF t
<1>3. task'[a] = t
  BY <1>1 DEF WorkIsWellFormed
<1> QED
  BY <1>1, <1>2, <1>3 DEF WorkIsWellFormed

\* What is written into the other fields leaves the command.
LEMMA TaskKeepsCommand ==
    ASSUME NEW t, NEW u, IsTask(t), NEW todo, NEW missed, NEW found, NEW fresh, NEW errors,
           u = [cmd |-> t.cmd, todo |-> todo, missed |-> missed,
                found |-> found, fresh |-> fresh, errors |-> errors]
    PROVE  IsTask(u) /\ u.cmd = t.cmd
BY DEF IsTask

\* What the steps of parsing do to everything but items and URLs.
LEMMA ParseMoves ==
    ASSUME WorkIsWellFormed, NEW a \in Actors, ParseNext(a)
    PROVE  /\ a \in Running /\ pc[a] \in ParseSteps
           /\ \E step \in ParseSteps : Goto(a, step)
           /\ DOMAIN task' = Actors /\ OthersStay(a)
           /\ IsTask(task'[a]) /\ task'[a].cmd = task[a].cmd
           /\ UNCHANGED <<store, ready, retries, held, sent, gone, results, again, dropped>>
<1> USE DEF ParseStep, busVars
<1>1. /\ pc[a] \in ParseSteps
      /\ UNCHANGED <<store, ready, retries, held, sent, gone, results, again, dropped>>
  BY DEF ParseNext, Lookup, LookupFails, Fetch, SkipsFailed, Hydrate, HydrateFails, ParseSteps
<1>2. a \in Running
  BY <1>1 DEF Running, ParseSteps
<1>3. \E step \in ParseSteps : Goto(a, step)
  BY DEF ParseNext, Lookup, LookupFails, Fetch, SkipsFailed, Hydrate, HydrateFails, Hydrated,
         AfterLookup, AfterHydrate, ParseSteps
<1>4. task[a] = [cmd |-> task[a].cmd, todo |-> task[a].todo, missed |-> task[a].missed,
                 found |-> task[a].found, fresh |-> task[a].fresh, errors |-> task[a].errors]
  BY <1>2 DEF WorkIsWellFormed, IsTask
<1>5. /\ DOMAIN task' = Actors
      /\ \A b \in Actors \ {a} : task'[b] = task[b]
      /\ \E todo, missed, found, fresh, errors :
            task'[a] = [cmd |-> task[a].cmd, todo |-> todo, missed |-> missed,
                        found |-> found, fresh |-> fresh, errors |-> errors]
  <2>1. CASE Lookup(a)
    <3>1. PICK todo, missed, found :
            task' = [task EXCEPT ![a].todo = todo, ![a].missed = missed, ![a].found = found]
      BY <2>1 DEF Lookup
    <3>2. task'[a] = [task[a] EXCEPT !.todo = todo, !.missed = missed, !.found = found]
      BY <3>1 DEF WorkIsWellFormed
    <3>3. task'[a] = [cmd |-> task[a].cmd, todo |-> todo, missed |-> missed, found |-> found,
                      fresh |-> task[a].fresh, errors |-> task[a].errors]
      BY <1>4, <3>2
    <3>4. DOMAIN task' = Actors
      BY <3>1 DEF WorkIsWellFormed
    <3>5. \A b \in Actors \ {a} : task'[b] = task[b]
      BY <3>1 DEF WorkIsWellFormed
    <3> QED
      BY <3>3, <3>4, <3>5
  <2>2. CASE LookupFails(a)
    <3>1. PICK todo, missed :
            task' = [task EXCEPT ![a].todo = todo, ![a].missed = missed]
      BY <2>2 DEF LookupFails
    <3>2. task'[a] = [task[a] EXCEPT !.todo = todo, !.missed = missed]
      BY <3>1 DEF WorkIsWellFormed
    <3>3. task'[a] = [cmd |-> task[a].cmd, todo |-> todo, missed |-> missed,
                      found |-> task[a].found, fresh |-> task[a].fresh,
                      errors |-> task[a].errors]
      BY <1>4, <3>2
    <3>4. DOMAIN task' = Actors
      BY <3>1 DEF WorkIsWellFormed
    <3>5. \A b \in Actors \ {a} : task'[b] = task[b]
      BY <3>1 DEF WorkIsWellFormed
    <3> QED
      BY <3>3, <3>4, <3>5
  <2>3. CASE Fetch(a)
    <3>1. PICK o \in ParseOutcomes(task[a].missed) :
            task' = [task EXCEPT ![a].missed = <<>>,
                                 ![a].todo = task[a].missed,
                                 ![a].found = @ \union o.items,
                                 ![a].fresh = o.items, ![a].errors = o.errors]
      BY <2>3 DEF Fetch
    <3>2. task'[a] = [task[a] EXCEPT !.missed = <<>>, !.todo = task[a].missed,
                                     !.found = @ \union o.items,
                                     !.fresh = o.items, !.errors = o.errors]
      BY <3>1 DEF WorkIsWellFormed
    <3>3. task'[a] = [cmd |-> task[a].cmd, todo |-> task[a].missed, missed |-> <<>>,
                      found |-> task[a].found \union o.items,
                      fresh |-> o.items, errors |-> o.errors]
      BY <1>4, <3>2
    <3>4. DOMAIN task' = Actors
      BY <3>1 DEF WorkIsWellFormed
    <3>5. \A b \in Actors \ {a} : task'[b] = task[b]
      BY <3>1 DEF WorkIsWellFormed
    <3> QED
      BY <3>3, <3>4, <3>5
  <2>4. CASE SkipsFailed(a) \/ Hydrate(a) \/ HydrateFails(a)
    <3>1. PICK todo : task' = [task EXCEPT ![a].todo = todo]
      BY <2>4 DEF SkipsFailed, Hydrate, HydrateFails, Hydrated
    <3>2. task'[a] = [task[a] EXCEPT !.todo = todo]
      BY <3>1 DEF WorkIsWellFormed
    <3>3. task'[a] = [cmd |-> task[a].cmd, todo |-> todo, missed |-> task[a].missed,
                      found |-> task[a].found, fresh |-> task[a].fresh,
                      errors |-> task[a].errors]
      BY <1>4, <3>2
    <3>4. DOMAIN task' = Actors
      BY <3>1 DEF WorkIsWellFormed
    <3>5. \A b \in Actors \ {a} : task'[b] = task[b]
      BY <3>1 DEF WorkIsWellFormed
    <3> QED
      BY <3>3, <3>4, <3>5
  <2> QED
    BY <2>1, <2>2, <2>3, <2>4 DEF ParseNext
<1>6. IsTask(task'[a]) /\ task'[a].cmd = task[a].cmd
  BY <1>2, <1>5, TaskKeepsCommand DEF WorkIsWellFormed
<1> QED
  BY <1>1, <1>2, <1>3, <1>5, <1>6 DEF OthersStay, Goto, WorkIsWellFormed

\* Work stays as it is when no actor moves.
LEMMA WorkRests ==
    ASSUME WorkIsWellFormed, UNCHANGED <<pc, task>>,
           DOMAIN store' = Jobs, ready' \subseteq Commands,
           \A p \in results' : p[1] \in Jobs
    PROVE  WorkIsWellFormed' /\ Running' = Running
BY DEF WorkIsWellFormed, Running, JobOf, IsTask, Commands

\* The steps of a handler that goes on, and what they add to the queue.
HandlerGoesOn(j) ==
    \/ Authorize(j) \/ AuthorizeFails(j) \/ CreatePending(j) \/ CreateFails(j)
    \/ PublishCommand(j) \/ PublishIsLost(j) \/ PublishFails(j)

LEMMA HandlerMoves ==
    ASSUME WorkIsWellFormed, NEW j \in Jobs, HandlerGoesOn(j)
    PROVE  /\ j \in Running /\ j \in Actors /\ pc[j] \in {"authorize", "create", "publish"}
           /\ \E step \in {"create", "publish", "lookup", "ended"} : Goto(j, step)
           /\ ready' \subseteq ready \union {<<j, "go">>}
           /\ UNCHANGED <<task, held, results, again>>
           /\ WorkIsWellFormed' /\ OthersStay(j)
<1> USE DEF HandlerStep, Then
<1>1. j \in Running /\ j \in Actors /\ pc[j] \in {"authorize", "create", "publish"}
  BY DEF HandlerGoesOn, Authorize, AuthorizeFails, CreatePending, CreateFails, PublishCommand,
         PublishIsLost, PublishFails, Running, Actors
<1>2. /\ UNCHANGED <<task, held, results, again>>
      /\ ready' \subseteq ready \union {<<j, "go">>}
  BY DEF HandlerGoesOn, Authorize, AuthorizeFails, CreatePending, CreateFails, PublishCommand,
         PublishIsLost, PublishFails
<1>3. PICK step \in {"create", "publish", "lookup", "ended"} : Goto(j, step)
  BY DEF HandlerGoesOn, Authorize, AuthorizeFails, CreatePending, CreateFails, PublishCommand,
         PublishIsLost, PublishFails
<1>4. DOMAIN store' = Jobs
  BY DEF HandlerGoesOn, Authorize, AuthorizeFails, CreatePending, CreateFails, PublishCommand,
         PublishIsLost, PublishFails, WorkIsWellFormed
<1>5. ready' \subseteq Commands /\ \A p \in results' : p[1] \in Jobs
  BY <1>2 DEF WorkIsWellFormed, Commands, Senders
<1>6. step \in StepsOf(j)
  BY DEF StepsOf, HandlerSteps, ParseSteps
<1> QED
  BY <1>1, <1>2, <1>3, <1>4, <1>5, <1>6, WorkGoesOn

\* The steps of a worker that goes on.
WorkerGoesOn(w) == Begin(w) \/ SaveFinal(w) \/ PublishResult(w)

LEMMA WorkerMoves ==
    ASSUME WorkIsWellFormed, NEW w \in Workers, WorkerGoesOn(w)
    PROVE  /\ w \in Running /\ w \in Actors /\ JobOf(w) \in Jobs
           /\ \E step \in {"lookup", "report", "ack"} : Goto(w, step)
           /\ UNCHANGED <<task, ready, held, sent, again, dropped>>
           /\ WorkIsWellFormed' /\ OthersStay(w)
<1> USE DEF busVars
<1>1. w \in Running /\ w \in Actors
  BY DEF WorkerGoesOn, Begin, SaveFinal, PublishResult, Running, Actors
<1>2. UNCHANGED <<task, ready, held, sent, again, dropped>>
  BY DEF WorkerGoesOn, Begin, SaveFinal, PublishResult
<1>3. PICK step \in {"lookup", "report", "ack"} : Goto(w, step)
  BY DEF WorkerGoesOn, Begin, SaveFinal, PublishResult
<1>4. DOMAIN store' = Jobs
  BY DEF WorkerGoesOn, Begin, SaveFinal, PublishResult, redisVars, WorkIsWellFormed
<1>5. JobOf(w) \in Jobs
  BY <1>1 DEF WorkIsWellFormed, IsTask, Commands, JobOf
<1>6. ready' \subseteq Commands /\ \A p \in results' : p[1] \in Jobs
  <2>1. results' \subseteq results \union {<<JobOf(w), Result(w)>>}
    BY DEF WorkerGoesOn, Begin, SaveFinal, PublishResult
  <2> QED
    BY <1>2, <1>5, <2>1 DEF WorkIsWellFormed
<1>7. step \in StepsOf(w)
  BY DEF StepsOf, WorkerSteps
<1> QED
  BY <1>1, <1>2, <1>3, <1>4, <1>5, <1>6, <1>7, WorkGoesOn

\* The steps of a worker that gives its delivery up, and back if it still has it.
WorkerGivesUp(w) == BeginFails(w) \/ SaveFails(w) \/ PublishResultFails(w)

LEMMA GiveUpMoves ==
    ASSUME WorkIsWellFormed, NEW w \in Workers, WorkerGivesUp(w)
    PROVE  /\ w \in Running /\ w \in Actors /\ task[w].cmd \in Commands
           /\ Retry(w) /\ UNCHANGED <<store, sent, results>>
           /\ dropped \subseteq dropped'
           /\ WorkIsWellFormed' /\ OthersStay(w) /\ pc'[w] = "idle"
<1>1. /\ w \in Running /\ w \in Actors /\ Retry(w)
      /\ UNCHANGED <<store, sent, results>> /\ dropped \subseteq dropped'
  BY DEF WorkerGivesUp, BeginFails, SaveFails, PublishResultFails, Running, Actors, redisVars
<1>2. task[w].cmd \in Commands
  BY <1>1 DEF WorkIsWellFormed, IsTask
<1>3. ready' \subseteq Commands /\ Leave(w)
  BY <1>1, <1>2 DEF WorkIsWellFormed, Retry
<1>4. DOMAIN store' = Jobs /\ \A p \in results' : p[1] \in Jobs
  BY <1>1 DEF WorkIsWellFormed
<1> QED
  BY <1>1, <1>2, <1>3, <1>4, WorkEnds

LEMMA DeliverMoves ==
    ASSUME WorkIsWellFormed, NEW w \in Workers, Deliver(w)
    PROVE  /\ w \in Actors /\ w \notin Running /\ pc'[w] = "begin"
           /\ \E c \in ready : ready' = ready \ {c} /\ task'[w].cmd = c
           /\ held' = held \union {w}
           /\ UNCHANGED <<store, sent, results, again, dropped>>
           /\ WorkIsWellFormed' /\ OthersStay(w)
<1>1. /\ w \in Actors /\ w \notin Running /\ Goto(w, "begin") /\ held' = held \union {w}
      /\ UNCHANGED <<store, sent, results, again, dropped>>
  BY DEF Deliver, Actors, Running, redisVars
<1>2. PICK c \in ready : ready' = ready \ {c} /\ Start(w, c)
  BY DEF Deliver
<1>3. c \in Commands /\ ready' \subseteq Commands
  BY <1>2 DEF WorkIsWellFormed
<1>4. /\ IsTask(task'[w]) /\ task'[w].cmd = c
      /\ DOMAIN task' = Actors /\ \A b \in Actors \ {w} : task'[b] = task[b]
  BY <1>1, <1>2, <1>3, StartMoves
<1>5. "begin" \in StepsOf(w) /\ w \notin Jobs
  BY DEF StepsOf, WorkerSteps
<1>6. pc'[w] = "begin" /\ OthersStay(w)
  BY <1>1, <1>4 DEF WorkIsWellFormed, Goto, OthersStay
<1>7. DOMAIN store' = Jobs /\ \A p \in results' : p[1] \in Jobs
  BY <1>1 DEF WorkIsWellFormed
<1>8. WorkIsWellFormed'
  BY <1>1, <1>3, <1>4, <1>5, <1>6, <1>7, WorkMoves
<1> QED
  BY <1>1, <1>2, <1>4, <1>6, <1>8

LEMMA AckMoves ==
    ASSUME WorkIsWellFormed, NEW w \in Workers, Ack(w)
    PROVE  /\ w \in Running /\ w \in Actors /\ pc[w] = "ack" /\ held' = held \ {w}
           /\ UNCHANGED <<store, ready, sent, results, again, dropped>>
           /\ WorkIsWellFormed' /\ OthersStay(w) /\ pc'[w] = "idle"
<1>1. /\ w \in Running /\ w \in Actors /\ pc[w] = "ack" /\ held' = held \ {w} /\ Leave(w)
      /\ UNCHANGED <<store, ready, sent, results, again, dropped>>
  BY DEF Ack, Leave, Running, Actors, redisVars
<1>2. DOMAIN store' = Jobs /\ ready' \subseteq Commands /\ \A p \in results' : p[1] \in Jobs
  BY <1>1 DEF WorkIsWellFormed
<1> QED
  BY <1>1, <1>2, WorkEnds

LEMMA PostMoves ==
    ASSUME WorkIsWellFormed, NEW j \in Jobs, Post(j)
    PROVE  /\ j \in Actors /\ pc[j] = "none" /\ j \notin Running /\ pc'[j] = "authorize"
           /\ JobOf(j)' = j
           /\ <<j, "rails">> \in sent => j \in again'
           /\ again \subseteq again'
           /\ UNCHANGED <<store, ready, held, sent, results, dropped>>
           /\ WorkIsWellFormed' /\ OthersStay(j)
<1>1. /\ j \in Actors /\ pc[j] = "none" /\ j \notin Running /\ Goto(j, "authorize")
      /\ Start(j, <<j, "go">>)
      /\ <<j, "rails">> \in sent => j \in again'
      /\ again \subseteq again'
      /\ UNCHANGED <<store, ready, held, sent, results, dropped>>
  BY DEF Post, Actors, Running, redisVars, busVars
<1>2. <<j, "go">> \in Commands
  BY DEF Commands, Senders
<1>3. /\ IsTask(task'[j]) /\ task'[j].cmd = <<j, "go">>
      /\ DOMAIN task' = Actors /\ \A b \in Actors \ {j} : task'[b] = task[b]
  BY <1>1, <1>2, StartMoves
<1>4. "authorize" \in StepsOf(j)
  BY DEF StepsOf, HandlerSteps
<1>5. pc'[j] = "authorize" /\ OthersStay(j) /\ JobOf(j)' = j
  BY <1>1, <1>3 DEF WorkIsWellFormed, Goto, OthersStay, JobOf
<1>6. DOMAIN store' = Jobs /\ ready' \subseteq Commands /\ \A p \in results' : p[1] \in Jobs
  BY <1>1 DEF WorkIsWellFormed
<1>7. WorkIsWellFormed'
  BY <1>1, <1>3, <1>4, <1>5, <1>6, WorkMoves
<1> QED
  BY <1>1, <1>5, <1>7

LEMMA AnswerMoves ==
    ASSUME WorkIsWellFormed, NEW j \in Jobs, Answer(j)
    PROVE  /\ j \in Running /\ j \in Actors /\ pc[j] = "save" /\ pc'[j] = "ended"
           /\ results' = results \union {<<j, Result(j)>>}
           /\ UNCHANGED <<ready, held, sent, again>> /\ dropped \subseteq dropped'
           /\ store' = [store EXCEPT ![j] = Result(j)] \/ (store' = store /\ j \in dropped')
           /\ WorkIsWellFormed' /\ OthersStay(j)
<1>1. /\ j \in Running /\ j \in Actors /\ pc[j] = "save" /\ Goto(j, "ended")
      /\ task' = [task EXCEPT ![j] = Nothing]
      /\ results' = results \union {<<j, Result(j)>>}
      /\ UNCHANGED <<ready, held, sent, again>> /\ dropped \subseteq dropped'
      /\ store' = [store EXCEPT ![j] = Result(j)] \/ (store' = store /\ j \in dropped')
  BY DEF Answer, Actors, Running, busVars
<1>2. "ended" \in StepsOf(j) /\ "ended" \in Resting
  BY DEF StepsOf, HandlerSteps, Resting
<1>3. pc'[j] = "ended" /\ OthersStay(j) /\ DOMAIN task' = Actors
  BY <1>1 DEF WorkIsWellFormed, Goto, OthersStay
<1>4. DOMAIN store' = Jobs /\ ready' \subseteq Commands /\ \A p \in results' : p[1] \in Jobs
  BY <1>1 DEF WorkIsWellFormed
<1>5. WorkIsWellFormed'
  BY <1>1, <1>2, <1>3, <1>4, WorkMoves
<1> QED
  BY <1>1, <1>3, <1>5

LEMMA ParseKeepsWork ==
    ASSUME WorkIsWellFormed, NEW a \in Actors, ParseNext(a) PROVE WorkIsWellFormed'
<1>1. /\ a \in Running /\ DOMAIN task' = Actors /\ OthersStay(a)
      /\ IsTask(task'[a]) /\ task'[a].cmd = task[a].cmd
      /\ UNCHANGED <<store, ready, results>>
  BY ParseMoves
<1>2. PICK step \in ParseSteps : Goto(a, step)
  BY ParseMoves
<1>3. step \in StepsOf(a)
  BY DEF StepsOf, ParseSteps, WorkerSteps
<1>4. a \in Jobs => task'[a].cmd[1] = a
  BY <1>1 DEF WorkIsWellFormed, JobOf
<1>5. DOMAIN store' = Jobs /\ ready' \subseteq Commands /\ \A p \in results' : p[1] \in Jobs
  BY <1>1 DEF WorkIsWellFormed
<1> QED
  BY <1>1, <1>2, <1>3, <1>4, <1>5, WorkMoves

\* The steps in which no actor moves.
NobodyMoves ==
    \/ \E j \in Jobs : RailsPublishes(j) \/ ClientLeaves(j)
    \/ \E c \in Commands : Park(c)
    \/ Expire
    \/ Disconnect
    \/ UNCHANGED vars

\* What the broker gives back, and what it says of the jobs.
GivenBack ==
    /\ ready' = ready \union {task[w].cmd : w \in held}
    /\ again' = again \union {JobOf(w) : w \in held}
    /\ held' = {}

LEMMA GivenBackFacts ==
    ASSUME WorkIsWellFormed, DeliveriesHaveWorkers, GivenBack
    PROVE  /\ ready' \subseteq Commands
           /\ \A c \in ready' \ ready : c[1] \in again'
           /\ \A w \in held : JobOf(w) \in again'
<1>1. \A w \in held : task[w].cmd \in Commands
  BY DEF WorkIsWellFormed, DeliveriesHaveWorkers, IsTask
<1>2. ready' \subseteq Commands
  BY <1>1 DEF WorkIsWellFormed, GivenBack
<1>3. \A w \in held : JobOf(w) \in again'
  BY DEF GivenBack
<1>4. ASSUME NEW c \in ready' \ ready PROVE c[1] \in again'
  <2>1. PICK w \in held : c = task[w].cmd
    BY <1>4 DEF GivenBack
  <2> QED
    BY <1>3, <2>1 DEF JobOf
<1> QED
  BY <1>2, <1>3, <1>4

LEMMA RestMoves ==
    ASSUME WorkIsWellFormed, DeliveriesHaveWorkers, NobodyMoves
    PROVE  WorkIsWellFormed' /\ UNCHANGED <<pc, task, results>> /\ Running' = Running
<1> USE DEF NobodyMoves
<1>1. UNCHANGED <<pc, task, results>>
  BY DEF RailsPublishes, ClientLeaves, Park, Expire, Disconnect, vars, actorVars
<1>2. DOMAIN store' = Jobs
  BY DEF RailsPublishes, ClientLeaves, Park, Expire, Disconnect, vars, redisVars,
         WorkIsWellFormed
<1>3. ready' \subseteq Commands
  <2>1. CASE Disconnect
    BY <2>1, GivenBackFacts DEF GivenBack, Disconnect
  <2>2. CASE ~Disconnect
    <3>1. \A j \in Jobs : <<j, "rails">> \in Commands
      BY DEF Commands, Senders
    <3>2. ready' \subseteq ready \union {<<j, "rails">> : j \in Jobs}
      BY <2>2 DEF RailsPublishes, ClientLeaves, Park, Expire, vars, busVars
    <3> QED
      BY <3>1, <3>2 DEF WorkIsWellFormed
  <2> QED
    BY <2>1, <2>2
<1>4. \A p \in results' : p[1] \in Jobs
  BY <1>1 DEF WorkIsWellFormed
<1> QED
  BY <1>1, <1>2, <1>3, <1>4, WorkRests

LEMMA CrashMoves ==
    ASSUME WorkIsWellFormed, DeliveriesHaveWorkers, Crash
    PROVE  /\ Running' = {} /\ GivenBack /\ UNCHANGED <<store, sent, results>>
           /\ dropped' = dropped \union {JobOf(a) : a \in Running \ held}
           /\ \A j \in Jobs : pc'[j] = (IF j \in Running THEN "ended" ELSE pc[j])
           /\ WorkIsWellFormed'
<1>1. /\ GivenBack /\ UNCHANGED <<store, sent, results>>
      /\ dropped' = dropped \union {JobOf(a) : a \in Running \ held}
      /\ task' = [a \in Actors |-> Nothing]
      /\ pc' = [a \in Actors |-> IF a \in Workers THEN "idle"
                                 ELSE IF a \in Running THEN "ended" ELSE pc[a]]
  BY DEF Crash, GivenBack, redisVars
<1>2. Running' = {}
  BY <1>1 DEF Running
<1>3. \A j \in Jobs : pc'[j] = (IF j \in Running THEN "ended" ELSE pc[j])
  BY <1>1 DEF Actors
<1>4. \A w \in Workers : pc'[w] = "idle"
  BY <1>1 DEF Actors
<1>5. pc' \in [Actors -> WorkerSteps \union HandlerSteps]
  BY <1>1 DEF WorkIsWellFormed, WorkerSteps, HandlerSteps
<1>6. ready' \subseteq Commands
  BY <1>1, GivenBackFacts
<1>7. WorkIsWellFormed'
  <2>1. DOMAIN task' = Actors /\ DOMAIN store' = Jobs /\ \A p \in results' : p[1] \in Jobs
    BY <1>1 DEF WorkIsWellFormed
  <2>2. \A j \in Jobs : pc'[j] \in HandlerSteps \union ParseSteps
    BY <1>3 DEF WorkIsWellFormed, HandlerSteps
  <2> QED
    BY <1>2, <1>4, <1>5, <1>6, <2>1, <2>2 DEF WorkIsWellFormed, WorkerSteps
<1> QED
  BY <1>1, <1>2, <1>3, <1>7

\* Every step is one of these.
LEMMA NextSplits ==
    ASSUME [Next]_vars
    PROVE  \/ \E j \in Jobs : Post(j) \/ HandlerGoesOn(j) \/ Answer(j)
           \/ \E w \in Workers : Deliver(w) \/ WorkerGoesOn(w) \/ WorkerGivesUp(w) \/ Ack(w)
           \/ \E a \in Actors : ParseNext(a)
           \/ NobodyMoves
           \/ Crash
BY DEF Next, HandlerNext, WorkerNext, HandlerGoesOn, WorkerGoesOn, WorkerGivesUp, NobodyMoves

\* Work stays well-formed.
LEMMA WorkStep ==
    ASSUME WorkIsWellFormed, DeliveriesHaveWorkers, [Next]_vars PROVE WorkIsWellFormed'
BY NextSplits, PostMoves, HandlerMoves, AnswerMoves, DeliverMoves, WorkerMoves, GiveUpMoves,
   AckMoves, ParseKeepsWork, RestMoves, CrashMoves

----------------------------------------------------------------------------
(* Deliveries *)

\* Jobs are never taken off the lists of what went wrong.
HistoryGrows == again \subseteq again' /\ dropped \subseteq dropped' /\ sent \subseteq sent'

LEMMA HistoryStep ==
    ASSUME WorkIsWellFormed, DeliveriesHaveWorkers, [Next]_vars PROVE HistoryGrows
<1>1. ASSUME NEW j \in Jobs, HandlerGoesOn(j) PROVE HistoryGrows
  BY <1>1 DEF HandlerGoesOn, Authorize, AuthorizeFails, CreatePending, CreateFails,
              PublishCommand, PublishIsLost, PublishFails, HandlerStep, HistoryGrows
<1>2. ASSUME NEW w \in Workers, WorkerGivesUp(w) PROVE HistoryGrows
  BY <1>2, GiveUpMoves DEF Retry, HistoryGrows
<1>3. CASE NobodyMoves
  BY <1>3 DEF NobodyMoves, RailsPublishes, ClientLeaves, Park, Expire, Disconnect, vars, busVars,
              HistoryGrows
<1>4. CASE Crash
  BY <1>4, CrashMoves DEF GivenBack, HistoryGrows
<1> QED
  BY <1>1, <1>2, <1>3, <1>4, NextSplits, PostMoves, AnswerMoves, DeliverMoves, WorkerMoves,
     AckMoves, ParseMoves DEF HistoryGrows

\* A step of one actor in which it lets no delivery go without resting, or takes one.
LEMMA DeliveriesMove ==
    ASSUME DeliveriesHaveWorkers, NEW a \in Actors, OthersStay(a), again \subseteq again',
           held' \subseteq held \union {a}, held \subseteq held' \union {a},
           a \in held' => a \in Workers \intersect Running',
           a \in (Workers \intersect Running') \ held' => JobOf(a)' \in again'
    PROVE  DeliveriesHaveWorkers'
<1>1. ASSUME NEW b \in Actors, b # a
      PROVE  (b \in Running' <=> b \in Running) /\ JobOf(b)' = JobOf(b)
  BY <1>1 DEF OthersStay, Running, JobOf
<1> QED
  BY <1>1 DEF DeliveriesHaveWorkers, Running, Actors

\* A delivery keeps its worker.
LEMMA DeliveriesStep ==
    ASSUME WorkIsWellFormed, DeliveriesHaveWorkers, [Next]_vars PROVE DeliveriesHaveWorkers'
<1>0. again \subseteq again'
  BY HistoryStep DEF HistoryGrows
<1>1. ASSUME NEW j \in Jobs, Post(j) \/ HandlerGoesOn(j) \/ Answer(j)
      PROVE  DeliveriesHaveWorkers'
  <2>1. j \in Actors /\ OthersStay(j) /\ held' = held
    BY <1>1, PostMoves, HandlerMoves, AnswerMoves
  <2>2. j \notin Workers /\ j \notin held
    BY DEF DeliveriesHaveWorkers
  <2> QED
    BY <1>0, <2>1, <2>2, DeliveriesMove
<1>2. ASSUME NEW w \in Workers, Deliver(w) PROVE DeliveriesHaveWorkers'
  <2>1. w \in Actors /\ OthersStay(w) /\ held' = held \union {w} /\ pc'[w] = "begin"
    BY <1>2, DeliverMoves
  <2>2. w \in Running'
    BY <2>1 DEF Running
  <2> QED
    BY <1>0, <2>1, <2>2, DeliveriesMove
<1>3. ASSUME NEW w \in Workers, WorkerGoesOn(w) PROVE DeliveriesHaveWorkers'
  <2>1. w \in Actors /\ w \in Running /\ OthersStay(w) /\ UNCHANGED <<held, task>>
    BY <1>3, WorkerMoves
  <2>2. PICK step \in {"lookup", "report", "ack"} : Goto(w, step)
    BY <1>3, WorkerMoves
  <2>3. w \in Running' /\ JobOf(w)' = JobOf(w)
    BY <2>1, <2>2 DEF Running, Goto, WorkIsWellFormed, JobOf
  <2>4. w \notin held => JobOf(w) \in again
    BY <2>1 DEF DeliveriesHaveWorkers
  <2> QED
    BY <1>0, <2>1, <2>3, <2>4, DeliveriesMove
<1>4. ASSUME NEW w \in Workers, WorkerGivesUp(w) \/ Ack(w) PROVE DeliveriesHaveWorkers'
  <2>1. w \in Actors /\ OthersStay(w) /\ held' = held \ {w} /\ pc'[w] = "idle"
    BY <1>4, GiveUpMoves, AckMoves DEF Retry, Leave
  <2>2. w \notin Running'
    BY <2>1 DEF Running
  <2> QED
    BY <1>0, <2>1, <2>2, DeliveriesMove
<1>5. ASSUME NEW a \in Actors, ParseNext(a) PROVE DeliveriesHaveWorkers'
  <2>1. /\ a \in Running /\ OthersStay(a) /\ held' = held
        /\ task'[a].cmd = task[a].cmd
    BY <1>5, ParseMoves
  <2>2. PICK step \in ParseSteps : Goto(a, step)
    BY <1>5, ParseMoves
  <2>3. a \in Running' /\ JobOf(a)' = JobOf(a)
    BY <2>1, <2>2 DEF Running, Goto, WorkIsWellFormed, JobOf, ParseSteps
  <2>4. a \in held => a \in Workers
    BY DEF DeliveriesHaveWorkers
  <2>5. a \in Workers /\ a \notin held => JobOf(a) \in again
    BY <2>1 DEF DeliveriesHaveWorkers
  <2> QED
    BY <1>0, <2>1, <2>3, <2>4, <2>5, DeliveriesMove
<1>6. CASE NobodyMoves
  <2>1. UNCHANGED <<pc, task>> /\ Running' = Running
    BY <1>6, RestMoves
  <2>2. CASE Disconnect
    <3>1. \A w \in held : JobOf(w) \in again'
      BY <2>2, GivenBackFacts DEF Disconnect, GivenBack
    <3> QED
      BY <1>0, <2>1, <2>2, <3>1 DEF Disconnect, DeliveriesHaveWorkers, JobOf
  <2>3. CASE ~Disconnect
    <3>1. held' = held
      BY <1>6, <2>3 DEF NobodyMoves, RailsPublishes, ClientLeaves, Park, Expire, vars, busVars
    <3> QED
      BY <1>0, <2>1, <3>1 DEF DeliveriesHaveWorkers, JobOf
  <2> QED
    BY <2>2, <2>3
<1>7. CASE Crash
  BY <1>7, CrashMoves DEF GivenBack, DeliveriesHaveWorkers
<1> QED
  BY <1>1, <1>2, <1>3, <1>4, <1>5, <1>6, <1>7, NextSplits

----------------------------------------------------------------------------
(* Polls that stay pending *)

\* j's row is not final and nothing excuses it.
Open(j) == store[j] # Nothing /\ store[j].status \notin Final /\ j \notin dropped

\* Who does not move goes on to finish what it will finish.
LEMMA AwaitedMoves ==
    ASSUME NEW a \in Actors, OthersStay(a), held \subseteq held' \union {a},
           NEW j, Awaited(j)
    PROVE  \/ Awaited(j)'
           \/ WillFinish(a, j)
           \/ \E c \in ready \ ready' : c[1] = j
<1>1. ASSUME NEW b \in Actors, b # a, WillFinish(b, j) PROVE WillFinish(b, j)'
  BY <1>1 DEF WillFinish, OthersStay, JobOf
<1> QED
  BY <1>1 DEF Awaited

\* A command of j in the queue, or an actor that works on it, is enough.
LEMMA AwaitedIntro ==
    ASSUME NEW j
    PROVE  /\ \A c \in ready' : c[1] = j => Awaited(j)'
           /\ \A a \in Actors : WillFinish(a, j)' => Awaited(j)'
BY DEF Awaited

\* The handler leaves a pending job to the queue, to itself, or to fate.
LEMMA HandlerAwaits ==
    ASSUME WorkIsWellFormed, NEW h \in Jobs, HandlerGoesOn(h) \/ Answer(h),
           NEW j \in Jobs, Open(j)', Open(j) => Awaited(j), dropped \subseteq dropped'
    PROVE  Awaited(j)'
<1> USE DEF HandlerStep, Then, WorkIsWellFormed, Goto
<1>0. /\ h \in Actors /\ h \in Running /\ JobOf(h) = h /\ OthersStay(h) /\ held' = held
      /\ pc' \in [Actors -> WorkerSteps \union HandlerSteps]
  BY HandlerMoves, AnswerMoves
<1>1. WillFinish(h, j) => j = h
  BY <1>0 DEF WillFinish
<1>2. CASE Authorize(h) \/ AuthorizeFails(h) \/ CreateFails(h)
  <2>1. pc[h] \in {"authorize", "create"} /\ UNCHANGED <<store, ready>>
    BY <1>2 DEF Authorize, AuthorizeFails, CreateFails
  <2>2. ~WillFinish(h, j)
    BY <2>1 DEF WillFinish, ParseSteps
  <2>3. Open(j)
    BY <2>1 DEF Open
  <2> QED
    BY <1>0, <2>1, <2>2, <2>3, AwaitedMoves
<1>3. CASE CreatePending(h)
  <2>1. /\ pc[h] = "create" /\ pc'[h] = "publish" /\ UNCHANGED <<task, ready>>
        /\ \A k \in Jobs \ {h} : store'[k] = store[k]
    BY <1>0, <1>3 DEF CreatePending
  <2>2. CASE j = h
    BY <1>0, <2>1, <2>2, AwaitedIntro DEF WillFinish, JobOf
  <2>3. CASE j # h
    BY <1>0, <1>1, <2>1, <2>3, AwaitedMoves DEF Open
  <2> QED
    BY <2>2, <2>3
<1>4. CASE PublishCommand(h)
  <2>1. store' = store /\ <<h, "go">> \in ready' /\ ready \subseteq ready'
    BY <1>4 DEF PublishCommand
  <2>2. CASE j = h
    BY <2>1, <2>2, AwaitedIntro
  <2>3. CASE j # h
    BY <1>0, <1>1, <2>1, <2>3, AwaitedMoves DEF Open
  <2> QED
    BY <2>2, <2>3
<1>5. CASE PublishIsLost(h)
  <2>1. UNCHANGED <<store, ready>> /\ h \in dropped'
    BY <1>5 DEF PublishIsLost
  <2> QED
    BY <1>0, <1>1, <2>1, AwaitedMoves DEF Open
<1>6. CASE PublishFails(h)
  <2>1. pc'[h] = "lookup" /\ UNCHANGED <<store, ready, task>>
    BY <1>0, <1>6 DEF PublishFails
  <2>2. CASE j = h
    BY <1>0, <2>1, <2>2, AwaitedIntro DEF WillFinish, JobOf, ParseSteps
  <2>3. CASE j # h
    BY <1>0, <1>1, <2>1, <2>3, AwaitedMoves DEF Open
  <2> QED
    BY <2>2, <2>3
<1>7. CASE Answer(h)
  <2>1. /\ ready' = ready
        /\ store' = [store EXCEPT ![h] = Result(h)] \/ (store' = store /\ h \in dropped')
    BY <1>7, AnswerMoves
  <2>2. Result(h).status \in Final
    BY DEF Result, Final
  <2>3. j # h
    BY <2>1, <2>2 DEF Open
  <2> QED
    BY <1>0, <1>1, <2>1, <2>3, AwaitedMoves DEF Open
<1> QED
  BY <1>2, <1>3, <1>4, <1>5, <1>6, <1>7 DEF HandlerGoesOn

\* So does a worker.
LEMMA WorkerAwaits ==
    ASSUME WorkIsWellFormed, NEW w \in Workers,
           WorkerGoesOn(w) \/ WorkerGivesUp(w) \/ Ack(w) \/ Deliver(w),
           NEW j \in Jobs, Open(j)', Open(j) => Awaited(j), dropped \subseteq dropped'
    PROVE  Awaited(j)'
<1> USE DEF WorkIsWellFormed, Goto
<1>0. w \in Actors /\ OthersStay(w)
  BY WorkerMoves, GiveUpMoves, AckMoves, DeliverMoves
<1>1. WillFinish(w, j) => j = JobOf(w)
  BY DEF WillFinish
<1>2. CASE Begin(w)
  <2>1. /\ pc'[w] = "lookup" /\ UNCHANGED <<task, ready, held>> /\ JobOf(w) \in Jobs
        /\ store' = [store EXCEPT ![JobOf(w)] = NewJob("processing")]
    BY <1>0, <1>2, WorkerMoves DEF Begin, WorkerGoesOn
  <2>2. CASE j = JobOf(w)
    BY <1>0, <2>1, <2>2, AwaitedIntro DEF WillFinish, JobOf, ParseSteps
  <2>3. CASE j # JobOf(w)
    BY <1>0, <1>1, <2>1, <2>3, AwaitedMoves DEF Open
  <2> QED
    BY <2>2, <2>3
<1>3. CASE SaveFinal(w)
  <2>1. /\ UNCHANGED <<ready, held>> /\ JobOf(w) \in Jobs
        /\ store' = [store EXCEPT ![JobOf(w)] = Result(w)]
    BY <1>3, WorkerMoves DEF SaveFinal, WorkerGoesOn
  <2>2. Result(w).status \in Final
    BY DEF Result, Final
  <2>3. j # JobOf(w)
    BY <2>1, <2>2 DEF Open
  <2> QED
    BY <1>0, <1>1, <2>1, <2>3, AwaitedMoves DEF Open
<1>4. CASE PublishResult(w) \/ Ack(w)
  <2>1. pc[w] \in {"report", "ack"} /\ UNCHANGED <<store, ready>> /\ held \subseteq held' \union {w}
    BY <1>4, WorkerMoves, AckMoves DEF PublishResult, WorkerGoesOn, redisVars
  <2>2. ~WillFinish(w, j)
    BY <2>1 DEF WillFinish, ParseSteps
  <2> QED
    BY <1>0, <2>1, <2>2, AwaitedMoves DEF Open
<1>5. CASE WorkerGivesUp(w)
  <2>1. Retry(w) /\ store' = store
    BY <1>5, GiveUpMoves
  <2>2. ready \subseteq ready' /\ held' = held \ {w}
    BY <2>1 DEF Retry, Leave
  <2>3. CASE ~WillFinish(w, j)
    BY <1>0, <2>1, <2>2, <2>3, AwaitedMoves DEF Open
  <2>4. CASE WillFinish(w, j) /\ w \in held
    <3>1. task[w].cmd \in ready' /\ task[w].cmd[1] = j
      BY <2>1, <2>4 DEF Retry, WillFinish, JobOf
    <3> QED
      BY <3>1, AwaitedIntro
  <2>5. CASE WillFinish(w, j) /\ w \notin held
    <3>1. SaveFails(w)
      BY <1>5, <2>5 DEF WillFinish, ParseSteps, WorkerGivesUp, BeginFails, PublishResultFails
    <3>2. j \in dropped'
      BY <1>1, <2>5, <3>1 DEF SaveFails
    <3> QED
      BY <3>2 DEF Open
  <2> QED
    BY <2>3, <2>4, <2>5
<1>6. CASE Deliver(w)
  <2>1. PICK c \in ready : ready' = ready \ {c} /\ task'[w].cmd = c
    BY <1>6, DeliverMoves
  <2>2. pc'[w] = "begin" /\ w \in held' /\ held \subseteq held' /\ store' = store /\ pc[w] = "idle"
    BY <1>6, DeliverMoves DEF Deliver
  <2>3. CASE c[1] = j
    BY <1>0, <2>1, <2>2, <2>3, AwaitedIntro DEF WillFinish, JobOf
  <2>4. CASE c[1] # j
    <3>1. ~WillFinish(w, j)
      BY <2>2 DEF WillFinish, ParseSteps
    <3> QED
      BY <1>0, <2>1, <2>2, <2>4, <3>1, AwaitedMoves DEF Open
  <2> QED
    BY <2>3, <2>4
<1> QED
  BY <1>2, <1>3, <1>4, <1>5, <1>6 DEF WorkerGoesOn

\* A pending job stays awaited.
LEMMA PendingStep ==
    ASSUME WorkIsWellFormed, DeliveriesHaveWorkers, PendingIsAwaited, [Next]_vars
    PROVE  PendingIsAwaited'
<1> SUFFICES ASSUME NEW j \in Jobs, Open(j)' PROVE Awaited(j)'
  BY DEF PendingIsAwaited, Open
<1>0. dropped \subseteq dropped' /\ (Open(j) => Awaited(j))
  BY HistoryStep DEF HistoryGrows, PendingIsAwaited, Open
<1>1. ASSUME NEW h \in Jobs, Post(h) PROVE Awaited(j)'
  <2>1. h \in Actors /\ pc[h] = "none" /\ OthersStay(h) /\ UNCHANGED <<store, ready, held>>
    BY <1>1, PostMoves
  <2>2. ~WillFinish(h, j) /\ Open(j)
    BY <1>0, <2>1 DEF WillFinish, ParseSteps, Open
  <2> QED
    BY <1>0, <2>1, <2>2, AwaitedMoves
<1>2. ASSUME NEW a \in Actors, ParseNext(a) PROVE Awaited(j)'
  <2>1. /\ OthersStay(a) /\ UNCHANGED <<store, ready, held>>
        /\ task'[a].cmd = task[a].cmd
    BY <1>2, ParseMoves
  <2>2. PICK step \in ParseSteps : Goto(a, step)
    BY <1>2, ParseMoves
  <2>3. pc'[a] \in ParseSteps
    BY <2>2 DEF Goto, WorkIsWellFormed
  <2>4. CASE WillFinish(a, j)
    BY <2>1, <2>3, <2>4, AwaitedIntro DEF WillFinish, JobOf
  <2>5. CASE ~WillFinish(a, j)
    BY <1>0, <2>1, <2>5, AwaitedMoves DEF Open
  <2> QED
    BY <2>4, <2>5
<1>3. CASE NobodyMoves
  <2>1. UNCHANGED <<pc, task>>
    BY <1>3, RestMoves
  <2>2. CASE (\E h \in Jobs : RailsPublishes(h) \/ ClientLeaves(h)) \/ Expire \/ UNCHANGED vars
    <3>1. ready \subseteq ready' /\ held' = held
      BY <2>2 DEF RailsPublishes, ClientLeaves, Expire, vars, busVars
    <3>2. store'[j] \in {store[j], Nothing}
      BY <2>2 DEF RailsPublishes, ClientLeaves, Expire, vars, redisVars, WorkIsWellFormed
    <3>3. Open(j)
      BY <1>0, <3>2 DEF Open
    <3> QED
      BY <1>0, <2>1, <3>1, <3>3 DEF Awaited, WillFinish, JobOf
  <2>3. ASSUME NEW c \in Commands, Park(c) PROVE Awaited(j)'
    <3>1. /\ ready' = ready \ {c} /\ c[1] \in dropped' /\ UNCHANGED <<store, held>>
      BY <2>3 DEF Park, redisVars
    <3>2. c[1] # j /\ Open(j)
      BY <1>0, <3>1 DEF Open
    <3> QED
      BY <1>0, <2>1, <3>1, <3>2 DEF Awaited, WillFinish, JobOf
  <2>4. CASE Disconnect
    <3>1. ready' = ready \union {task[w].cmd : w \in held} /\ store' = store
      BY <2>4 DEF Disconnect, redisVars
    <3>2. CASE \E c \in ready : c[1] = j
      BY <3>1, <3>2 DEF Awaited
    <3>3. ASSUME NEW a \in Actors, WillFinish(a, j), a \in held PROVE Awaited(j)'
      <4>1. task[a].cmd \in ready' /\ task[a].cmd[1] = j
        BY <3>1, <3>3 DEF WillFinish, JobOf
      <4> QED
        BY <4>1, AwaitedIntro
    <3>4. ASSUME NEW a \in Actors, WillFinish(a, j), a \notin held PROVE Awaited(j)'
      BY <2>1, <3>4, AwaitedIntro DEF WillFinish, JobOf
    <3>5. Awaited(j)
      BY <1>0, <3>1 DEF Open
    <3> QED
      BY <3>2, <3>3, <3>4, <3>5 DEF Awaited
  <2> QED
    BY <1>3, <2>2, <2>3, <2>4 DEF NobodyMoves
<1>4. CASE Crash
  <2>1. /\ ready' = ready \union {task[w].cmd : w \in held} /\ store' = store
        /\ dropped' = dropped \union {JobOf(a) : a \in Running \ held}
    BY <1>4, CrashMoves DEF GivenBack
  <2>2. CASE \E c \in ready : c[1] = j
    BY <2>1, <2>2 DEF Awaited
  <2>3. ASSUME NEW a \in Actors, WillFinish(a, j) PROVE Awaited(j)'
    <3>1. a \in Running /\ JobOf(a) = j
      BY <2>3 DEF WillFinish, Running, ParseSteps
    <3>2. a \in held
      BY <2>1, <3>1 DEF Open
    <3>3. task[a].cmd \in ready' /\ task[a].cmd[1] = j
      BY <2>1, <3>1, <3>2 DEF JobOf
    <3> QED
      BY <3>3, AwaitedIntro
  <2>4. Awaited(j)
    BY <1>0, <2>1 DEF Open
  <2> QED
    BY <2>2, <2>3, <2>4 DEF Awaited
<1> QED
  BY <1>0, <1>1, <1>2, <1>3, <1>4, NextSplits, HandlerAwaits, WorkerAwaits

----------------------------------------------------------------------------
(* Jobs that ran once *)

OnePlaceOf(j) ==
    Fresh(j) =>
        /\ \A c \in ready : c[1] = j =>
              /\ Submitted(j)
              /\ \A d \in ready : d[1] = j => d = c
              /\ \A a \in Running : JobOf(a) # j
        /\ \A a \in Running : JobOf(a) = j =>
              /\ Submitted(j)
              /\ \A b \in Running : JobOf(b) = j => b = a

OneResultOf(j) ==
    Fresh(j) =>
        /\ \A w \in Workers :
              pc[w] = "report" /\ JobOf(w) = j => store[j] \in {Result(w), Nothing}
        /\ \A p \in results : p[1] = j =>
              /\ store[j] \in {p[2], Nothing}
              /\ Submitted(j)
              /\ \A c \in ready : c[1] # j
              /\ \A a \in Running : JobOf(a) = j => pc[a] = "ack"

\* A job that was submitted stays so.
LEMMA SubmittedStep ==
    ASSUME WorkIsWellFormed, DeliveriesHaveWorkers, [Next]_vars, NEW j \in Jobs, Submitted(j)
    PROVE  Submitted(j)'
<1> USE DEF Submitted
<1>0. sent \subseteq sent'
  BY HistoryStep DEF HistoryGrows
<1>1. CASE pc[j] # "none"
  <2>1. ASSUME NEW h \in Jobs, Post(h) \/ HandlerGoesOn(h) \/ Answer(h) PROVE pc'[j] # "none"
    <3>1. /\ OthersStay(h) /\ pc' \in [Actors -> WorkerSteps \union HandlerSteps]
          /\ pc'[h] # "none"
      <4>1. CASE HandlerGoesOn(h)
        <5>1. PICK step \in {"create", "publish", "lookup", "ended"} : Goto(h, step)
          BY <4>1, HandlerMoves
        <5> QED
          BY <4>1, <5>1, HandlerMoves DEF Goto, WorkIsWellFormed
      <4>2. CASE Post(h) \/ Answer(h)
        BY <4>2, PostMoves, AnswerMoves DEF WorkIsWellFormed
      <4> QED
        BY <2>1, <4>1, <4>2
    <3> QED
      BY <1>1, <3>1 DEF OthersStay, Actors
  <2>2. ASSUME NEW w \in Workers,
               Deliver(w) \/ WorkerGoesOn(w) \/ WorkerGivesUp(w) \/ Ack(w)
        PROVE  pc'[j] # "none"
    <3>1. OthersStay(w) /\ w # j
      BY <2>2, DeliverMoves, WorkerMoves, GiveUpMoves, AckMoves
    <3> QED
      BY <1>1, <3>1 DEF OthersStay, Actors
  <2>3. ASSUME NEW a \in Actors, ParseNext(a) PROVE pc'[j] # "none"
    <3>1. OthersStay(a)
      BY <2>3, ParseMoves
    <3>2. PICK step \in ParseSteps : Goto(a, step)
      BY <2>3, ParseMoves
    <3> QED
      BY <1>1, <3>1, <3>2 DEF OthersStay, Actors, Goto, WorkIsWellFormed, ParseSteps
  <2>4. NobodyMoves \/ Crash => pc'[j] # "none"
    BY <1>1, RestMoves, CrashMoves
  <2> QED
    BY <2>1, <2>2, <2>3, <2>4, NextSplits
<1> QED
  BY <1>0, <1>1

\* A job whose commands and actors do not grow in number stays in one place.
LEMMA PlaceKept ==
    ASSUME NEW j, OnePlaceOf(j), HistoryGrows, Submitted(j) => Submitted(j)',
           Fresh(j)' => /\ \A c \in ready' : c[1] = j => c \in ready
                        /\ \A a \in Running' : JobOf(a)' = j => a \in Running /\ JobOf(a) = j
    PROVE  OnePlaceOf(j)'
BY DEF OnePlaceOf, HistoryGrows, Fresh

\* If besides its row does not change, its result stays what it was.
LEMMA ResultKept ==
    ASSUME NEW j, OneResultOf(j), HistoryGrows, Submitted(j) => Submitted(j)',
           Fresh(j)' =>
              /\ \A c \in ready' : c[1] = j => c \in ready
              /\ \A a \in Running' : JobOf(a)' = j =>
                    /\ a \in Running /\ JobOf(a) = j
                    /\ pc[a] = "ack" => pc'[a] = "ack"
                    /\ pc'[a] = "report" => pc[a] = "report" /\ task'[a] = task[a]
              /\ store'[j] \in {store[j], Nothing}
              /\ \A p \in results' : p[1] = j => p \in results
    PROVE  OneResultOf(j)'
<1> SUFFICES ASSUME Fresh(j)' PROVE OneResultOf(j)'
  BY DEF OneResultOf
<1>1. Fresh(j)
  BY DEF Fresh, HistoryGrows
<1>2. ASSUME NEW w \in Workers, pc'[w] = "report", JobOf(w)' = j
      PROVE  store'[j] \in {Result(w)', Nothing}
  <2>1. w \in Running'
    BY <1>2 DEF Running, Actors
  <2>2. pc[w] = "report" /\ JobOf(w) = j /\ task'[w] = task[w]
    BY <1>2, <2>1
  <2>3. Result(w)' = Result(w)
    BY <2>2 DEF Result, AllFailed, JobOf
  <2>4. store[j] \in {Result(w), Nothing}
    BY <1>1, <2>2 DEF OneResultOf
  <2> QED
    BY <2>3, <2>4
<1>3. ASSUME NEW p \in results', p[1] = j
      PROVE  /\ store'[j] \in {p[2], Nothing}
             /\ Submitted(j)'
             /\ \A c \in ready' : c[1] # j
             /\ \A a \in Running' : JobOf(a)' = j => pc'[a] = "ack"
  BY <1>1, <1>3 DEF OneResultOf
<1> QED
  BY <1>2, <1>3 DEF OneResultOf

\* Before its worker stores anything there is nothing to say of it.
LEMMA NoResultYet ==
    ASSUME NEW j,
           Fresh(j)' => /\ \A p \in results' : p[1] # j
                        /\ \A w \in Workers : pc'[w] = "report" => JobOf(w)' # j
    PROVE  OneResultOf(j)'
BY DEF OneResultOf

\* A job that waits, or runs, has no result, and no one else runs it.
LEMMA RunsAlone ==
    ASSUME NEW j, Fresh(j), OnePlaceOf(j), OneResultOf(j)
    PROVE  /\ \A c \in ready : c[1] = j =>
                 /\ \A p \in results : p[1] # j
                 /\ \A a \in Running : JobOf(a) # j
                 /\ \A d \in ready : d[1] = j => d = c
           /\ \A a \in Running : JobOf(a) = j =>
                 /\ pc[a] # "ack" => \A p \in results : p[1] # j
                 /\ \A b \in Running : JobOf(b) = j => b = a
                 /\ \A c \in ready : c[1] # j
           /\ ~Submitted(j) =>
                 /\ \A p \in results : p[1] # j
                 /\ \A a \in Running : JobOf(a) # j
                 /\ \A c \in ready : c[1] # j
BY DEF OnePlaceOf, OneResultOf

\* The others run what they ran.
LEMMA OthersRun ==
    ASSUME NEW a \in Actors, OthersStay(a), NEW b \in Actors, b # a
    PROVE  /\ (b \in Running' <=> b \in Running) /\ JobOf(b)' = JobOf(b)
           /\ pc'[b] = pc[b] /\ task'[b] = task[b]
BY DEF OthersStay, Running, JobOf

\* A report is a run.
LEMMA ReportsRun ==
    /\ \A w \in Workers : pc[w] = "report" => w \in Running
    /\ \A w \in Workers : pc'[w] = "report" => w \in Running'
    /\ \A a \in Running' : a \in Actors
BY DEF Running, Actors

Once(j) == OnePlaceOf(j) /\ OneResultOf(j)

\* A step of a that stores and publishes nothing for j, or that is about another job.
LEMMA ActorKeeps ==
    ASSUME NEW a \in Actors, OthersStay(a), NEW j, Once(j),
           HistoryGrows, Submitted(j) => Submitted(j)',
           a \in Running' /\ JobOf(a)' = j =>
              a \in Running /\ JobOf(a) = j /\ pc[a] # "ack" /\ pc'[a] # "report",
           Fresh(j)' =>
              /\ \A c \in ready' : c[1] = j => c \in ready
              /\ store'[j] \in {store[j], Nothing}
              /\ \A p \in results' : p[1] = j => p \in results
    PROVE  Once(j)'
<1>1. ASSUME NEW b \in Running', JobOf(b)' = j
      PROVE  /\ b \in Running /\ JobOf(b) = j
             /\ pc[b] = "ack" => pc'[b] = "ack"
             /\ pc'[b] = "report" => pc[b] = "report" /\ task'[b] = task[b]
  BY <1>1, OthersRun, ReportsRun
<1>2. OnePlaceOf(j)'
  BY <1>1, PlaceKept DEF Once
<1>3. OneResultOf(j)'
  BY <1>1, ResultKept DEF Once
<1> QED
  BY <1>2, <1>3 DEF Once

\* The steps of a handler.
LEMMA HandlerOnce ==
    ASSUME WorkIsWellFormed, NEW h \in Jobs, Post(h) \/ HandlerGoesOn(h) \/ Answer(h),
           NEW j \in Jobs, Once(j), HistoryGrows, Submitted(j) => Submitted(j)'
    PROVE  Once(j)'
<1> USE DEF HandlerStep, Then, Once
<1>0. /\ h \in Actors /\ OthersStay(h) /\ ready' \subseteq ready \union {<<h, "go">>}
      /\ results' \subseteq results \union {<<h, Result(h)>>}
      /\ WorkIsWellFormed'
  BY PostMoves, HandlerMoves, AnswerMoves
<1>1. h \in Running' => JobOf(h)' = h
  BY <1>0 DEF WorkIsWellFormed
<1>2. \A k \in Jobs \ {h} : store'[k] = store[k]
  <2>1. CASE Post(h)
    BY <2>1, PostMoves
  <2>2. CASE HandlerGoesOn(h)
    BY <2>2 DEF HandlerGoesOn, Authorize, AuthorizeFails, CreatePending, CreateFails,
                PublishCommand, PublishIsLost, PublishFails, WorkIsWellFormed
  <2>3. CASE Answer(h)
    BY <2>3, AnswerMoves DEF WorkIsWellFormed
  <2> QED
    BY <2>1, <2>2, <2>3
<1>3. CASE j # h
  <2>1. \A c \in ready' : c[1] = j => c \in ready
    BY <1>0, <1>3
  <2>2. \A p \in results' : p[1] = j => p \in results
    BY <1>0, <1>3
  <2> QED
    BY <1>0, <1>1, <1>2, <1>3, <2>1, <2>2, ActorKeeps
<1>4. CASE j = h /\ Fresh(j)'
  <2>0. Fresh(h)
    BY <1>4 DEF Fresh, HistoryGrows
  <2>1. CASE Post(h)
    <3>1. ~Submitted(h) /\ UNCHANGED <<ready, results>> /\ h \in Actors
      BY <1>4, <2>1, PostMoves DEF Submitted, Fresh
    <3>2. /\ \A p \in results : p[1] # h
          /\ \A a \in Running : JobOf(a) # h
          /\ \A c \in ready : c[1] # h
      BY <1>4, <2>0, <3>1, RunsAlone
    <3>3. \A a \in Running' : JobOf(a)' = h => a = h
      BY <1>0, <3>2, OthersRun, ReportsRun
    <3>4. pc'[h] = "authorize"
      BY <2>1, PostMoves
    <3>5. OnePlaceOf(j)'
      BY <1>4, <3>1, <3>2, <3>3, <3>4 DEF OnePlaceOf, Submitted
    <3>6. OneResultOf(j)'
      BY <1>4, <3>1, <3>2, <3>3, <3>4, NoResultYet, ReportsRun
    <3> QED
      BY <3>5, <3>6
  <2>2. CASE HandlerGoesOn(h) \/ Answer(h)
    <3>1. h \in Running /\ JobOf(h) = h /\ pc[h] # "ack"
      <4>1. h \in Running /\ pc[h] # "ack"
        BY <2>2, HandlerMoves, AnswerMoves
      <4> QED
        BY <4>1 DEF WorkIsWellFormed
    <3>2. /\ \A p \in results : p[1] # h
          /\ \A b \in Running : JobOf(b) = h => b = h
          /\ \A c \in ready : c[1] # h
      BY <1>4, <2>0, <3>1, RunsAlone
    <3>3. \A a \in Running' : JobOf(a)' = h => a = h
      BY <1>0, <3>2, OthersRun, ReportsRun
    <3>4. \A w \in Workers : pc'[w] = "report" => JobOf(w)' # h
      BY <3>3, ReportsRun
    <3>5. Submitted(h)'
      <4>1. Submitted(h)
        BY <1>4, <2>0, <3>1 DEF OnePlaceOf
      <4> QED
        BY <1>4, <4>1
    <3>6. CASE HandlerGoesOn(h)
      <4>1. results' = results
        BY <3>6, HandlerMoves
      <4>2. OneResultOf(j)'
        BY <1>4, <3>2, <3>4, <4>1, NoResultYet
      <4>3. CASE PublishCommand(h)
        <5>1. pc'[h] = "ended"
          BY <1>0, <4>3 DEF PublishCommand, Goto, WorkIsWellFormed
        <5>2. \A a \in Running' : JobOf(a)' # h
          BY <3>3, <5>1 DEF Running
        <5>3. \A c \in ready' : c[1] = h => c = <<h, "go">>
          BY <1>0, <3>2
        <5>4. OnePlaceOf(j)'
          BY <1>4, <3>5, <5>2, <5>3 DEF OnePlaceOf
        <5> QED
          BY <4>2, <5>4
      <4>4. CASE ~PublishCommand(h)
        <5>1. ready' = ready
          BY <3>6, <4>4 DEF HandlerGoesOn, Authorize, AuthorizeFails, CreatePending, CreateFails,
                            PublishIsLost, PublishFails
        <5>2. OnePlaceOf(j)'
          BY <1>4, <3>2, <3>3, <3>5, <5>1 DEF OnePlaceOf
        <5> QED
          BY <4>2, <5>2
      <4> QED
        BY <4>3, <4>4
    <3>7. CASE Answer(h)
      <4>1. /\ pc'[h] = "ended" /\ ready' = ready
            /\ results' = results \union {<<h, Result(h)>>}
            /\ store' = [store EXCEPT ![h] = Result(h)]
        BY <1>4, <3>7, AnswerMoves DEF Fresh
      <4>2. \A a \in Running' : JobOf(a)' # h
        BY <3>3, <4>1 DEF Running
      <4>3. OnePlaceOf(j)'
        BY <1>4, <3>2, <4>1, <4>2 DEF OnePlaceOf
      <4>4. store'[h] = Result(h)
        BY <4>1 DEF WorkIsWellFormed
      <4>5. \A p \in results' : p[1] = h => p[2] = Result(h)
        BY <3>2, <4>1
      <4>6. OneResultOf(j)'
        BY <1>4, <3>2, <3>4, <3>5, <4>1, <4>2, <4>4, <4>5 DEF OneResultOf
      <4> QED
        BY <4>3, <4>6
    <3> QED
      BY <2>2, <3>6, <3>7
  <2> QED
    BY <2>1, <2>2
<1>5. CASE ~Fresh(j)'
  BY <1>5 DEF OnePlaceOf, OneResultOf
<1> QED
  BY <1>3, <1>4, <1>5

\* The steps of a worker that goes on with its delivery.
LEMMA WorkerOnce ==
    ASSUME WorkIsWellFormed, NEW w \in Workers, WorkerGoesOn(w),
           NEW j \in Jobs, Once(j), HistoryGrows, Submitted(j) => Submitted(j)'
    PROVE  Once(j)'
<1> USE DEF Once
<1>0. /\ w \in Running /\ w \in Actors /\ JobOf(w) \in Jobs /\ OthersStay(w)
      /\ UNCHANGED <<task, ready>>
  BY WorkerMoves
<1>1. JobOf(w)' = JobOf(w) /\ Result(w)' = Result(w)
  BY <1>0 DEF JobOf, Result, AllFailed
<1>2. results' \subseteq results \union {<<JobOf(w), Result(w)>>}
  BY DEF WorkerGoesOn, Begin, SaveFinal, PublishResult
<1>3. \A k \in Jobs \ {JobOf(w)} : store'[k] = store[k]
  BY DEF WorkerGoesOn, Begin, SaveFinal, PublishResult, redisVars, WorkIsWellFormed
<1>4. OnePlaceOf(j)'
  <2>1. \A a \in Running' : JobOf(a)' = j => a \in Running /\ JobOf(a) = j
    BY <1>0, <1>1, OthersRun, ReportsRun
  <2> QED
    BY <1>0, <2>1, PlaceKept
<1>5. CASE j # JobOf(w)
  <2>1. \A p \in results' : p[1] = j => p \in results
    BY <1>2, <1>5
  <2> QED
    BY <1>0, <1>1, <1>3, <1>5, <2>1, ActorKeeps
<1>6. CASE j = JobOf(w) /\ Fresh(j)'
  <2>0. Fresh(j)
    BY <1>6 DEF Fresh, HistoryGrows
  <2>1. pc[w] # "ack"
    BY DEF WorkerGoesOn, Begin, SaveFinal, PublishResult
  <2>2. /\ \A p \in results : p[1] # j
        /\ \A b \in Running : JobOf(b) = j => b = w
        /\ \A c \in ready : c[1] # j
    BY <1>0, <1>6, <2>0, <2>1, RunsAlone
  <2>3. \A a \in Running' : JobOf(a)' = j => a = w
    BY <1>0, <2>2, OthersRun, ReportsRun
  <2>4. \A v \in Workers : pc'[v] = "report" /\ JobOf(v)' = j => v = w
    BY <2>3, ReportsRun
  <2>5. CASE Begin(w)
    <3>1. pc'[w] = "lookup" /\ results' = results
      BY <1>0, <2>5 DEF Begin, Goto, WorkIsWellFormed
    <3> QED
      BY <1>4, <2>2, <2>4, <3>1, NoResultYet
  <2>6. CASE SaveFinal(w)
    <3>1. store'[j] = Result(w) /\ results' = results
      BY <1>6, <2>6 DEF SaveFinal, WorkIsWellFormed
    <3>2. OneResultOf(j)'
      BY <1>1, <2>2, <2>4, <3>1 DEF OneResultOf
    <3> QED
      BY <1>4, <3>2
  <2>7. CASE PublishResult(w)
    <3>1. /\ pc[w] = "report" /\ pc'[w] = "ack" /\ store' = store
      BY <1>0, <2>7 DEF PublishResult, Goto, WorkIsWellFormed, redisVars
    <3>2. store[j] \in {Result(w), Nothing}
      BY <1>6, <2>0, <3>1 DEF OneResultOf
    <3>3. \A p \in results' : p[1] = j => p[2] = Result(w)
      BY <1>2, <2>2
    <3>4. Submitted(j)'
      BY <1>0, <1>6, <2>0 DEF OnePlaceOf
    <3>5. \A v \in Workers : pc'[v] = "report" => JobOf(v)' # j
      BY <2>4, <3>1
    <3>6. OneResultOf(j)'
      BY <1>0, <2>2, <2>3, <3>1, <3>2, <3>3, <3>4, <3>5 DEF OneResultOf
    <3> QED
      BY <1>4, <3>6
  <2> QED
    BY <2>5, <2>6, <2>7 DEF WorkerGoesOn
<1>7. CASE ~Fresh(j)'
  BY <1>7 DEF OnePlaceOf, OneResultOf
<1> QED
  BY <1>5, <1>6, <1>7

\* The steps of a worker that takes or leaves a delivery.
LEMMA DeliveryOnce ==
    ASSUME WorkIsWellFormed, DeliveriesHaveWorkers, NEW w \in Workers,
           Deliver(w) \/ WorkerGivesUp(w) \/ Ack(w),
           NEW j \in Jobs, Once(j), HistoryGrows, Submitted(j) => Submitted(j)'
    PROVE  Once(j)'
<1> USE DEF Once
<1>1. CASE WorkerGivesUp(w) \/ Ack(w)
  <2>1. /\ w \in Actors /\ OthersStay(w) /\ pc'[w] = "idle"
        /\ UNCHANGED <<store, results>>
    BY <1>1, GiveUpMoves, AckMoves
  <2>2. w \notin Running'
    BY <2>1 DEF Running
  <2>3. ASSUME Fresh(j)', NEW c \in ready', c[1] = j PROVE c \in ready
    <3>1. CASE Ack(w)
      BY <2>3, <3>1, AckMoves
    <3>2. CASE WorkerGivesUp(w)
      <4>1. Retry(w)
        BY <3>2, GiveUpMoves
      <4>2. \/ ready' = ready
            \/ ready' = ready \union {task[w].cmd} /\ task[w].cmd[1] \in again'
        BY <4>1 DEF Retry, JobOf
      <4> QED
        BY <2>3, <4>2 DEF Fresh
    <3> QED
      BY <1>1, <3>1, <3>2
  <2> QED
    BY <2>1, <2>2, <2>3, ActorKeeps
<1>2. CASE Deliver(w)
  <2>1. /\ w \in Actors /\ w \notin Running /\ OthersStay(w) /\ pc'[w] = "begin"
        /\ UNCHANGED <<store, results>>
    BY <1>2, DeliverMoves
  <2>2. PICK c \in ready : ready' = ready \ {c} /\ task'[w].cmd = c
    BY <1>2, DeliverMoves
  <2>3. JobOf(w)' = c[1]
    BY <2>2 DEF JobOf
  <2>4. CASE c[1] # j
    BY <2>1, <2>2, <2>3, <2>4, ActorKeeps
  <2>5. CASE c[1] = j /\ Fresh(j)'
    <3>0. Fresh(j) /\ Submitted(j)
      BY <2>5 DEF Fresh, HistoryGrows, OnePlaceOf
    <3>1. /\ \A p \in results : p[1] # j
          /\ \A a \in Running : JobOf(a) # j
          /\ \A d \in ready : d[1] = j => d = c
      BY <2>5, <3>0, RunsAlone
    <3>2. \A a \in Running' : JobOf(a)' = j => a = w
      BY <2>1, <3>1, OthersRun, ReportsRun
    <3>3. \A d \in ready' : d[1] # j
      BY <2>2, <3>1
    <3>4. OnePlaceOf(j)'
      BY <3>0, <3>2, <3>3 DEF OnePlaceOf
    <3>5. OneResultOf(j)'
      BY <2>1, <3>1, <3>2, NoResultYet, ReportsRun
    <3> QED
      BY <3>4, <3>5
  <2>6. CASE ~Fresh(j)'
    BY <2>6 DEF OnePlaceOf, OneResultOf
  <2> QED
    BY <2>4, <2>5, <2>6
<1> QED
  BY <1>1, <1>2

\* The steps in which no actor moves, or all stop.
LEMMA OthersOnce ==
    ASSUME WorkIsWellFormed, DeliveriesHaveWorkers, NobodyMoves \/ Crash,
           NEW j \in Jobs, Once(j), HistoryGrows, Submitted(j) => Submitted(j)'
    PROVE  Once(j)'
<1> USE DEF Once
<1>1. ASSUME NEW h \in Jobs, RailsPublishes(h) PROVE Once(j)'
  <2>1. /\ ready' = ready \union {<<h, "rails">>} /\ UNCHANGED <<store, results, pc, task>>
        /\ ~Submitted(h) /\ <<h, "rails">> \in sent'
    BY <1>1 DEF RailsPublishes, redisVars, actorVars, Submitted
  <2>2. Running' = Running /\ \A a : JobOf(a)' = JobOf(a) /\ Result(a)' = Result(a)
    BY <2>1 DEF Running, JobOf, Result, AllFailed
  <2>3. CASE j # h
    <3>1. \A c \in ready' : c[1] = j => c \in ready
      BY <2>1, <2>3
    <3> QED
      BY <2>1, <2>2, <3>1, PlaceKept, ResultKept
  <2>4. CASE j = h /\ Fresh(j)'
    <3>1. Fresh(j)
      BY <2>4 DEF Fresh, HistoryGrows
    <3>2. /\ \A p \in results : p[1] # h
          /\ \A a \in Running : JobOf(a) # h
          /\ \A c \in ready : c[1] # h
      BY <2>1, <2>4, <3>1, RunsAlone
    <3>3. \A c \in ready' : c[1] = h => c = <<h, "rails">>
      BY <2>1, <3>2
    <3>4. OnePlaceOf(j)'
      BY <2>1, <2>2, <2>4, <3>2, <3>3 DEF OnePlaceOf, Submitted
    <3>5. OneResultOf(j)'
      BY <2>1, <2>2, <2>4, <3>2, NoResultYet, ReportsRun
    <3> QED
      BY <3>4, <3>5
  <2>5. CASE ~Fresh(j)'
    BY <2>5 DEF OnePlaceOf, OneResultOf
  <2> QED
    BY <2>3, <2>4, <2>5
<1>2. CASE NobodyMoves /\ ~(\E h \in Jobs : RailsPublishes(h))
  <2>1. UNCHANGED <<pc, task, results>> /\ Running' = Running
    BY <1>2, RestMoves
  <2>2. \A a : JobOf(a)' = JobOf(a)
    BY <2>1 DEF JobOf
  <2>3. ASSUME Fresh(j)', NEW c \in ready', c[1] = j PROVE c \in ready
    <3>1. CASE Disconnect
      <4>1. GivenBack
        BY <3>1 DEF Disconnect, GivenBack
      <4> QED
        BY <2>3, <4>1, GivenBackFacts DEF Fresh
    <3>2. CASE ~Disconnect
      BY <1>2, <2>3, <3>2 DEF NobodyMoves, ClientLeaves, Park, Expire, vars, busVars
    <3> QED
      BY <3>1, <3>2
  <2>4. store'[j] \in {store[j], Nothing}
    BY <1>2 DEF NobodyMoves, ClientLeaves, Park, Expire, Disconnect, vars, redisVars,
                WorkIsWellFormed
  <2> QED
    BY <2>1, <2>2, <2>3, <2>4, PlaceKept, ResultKept
<1>3. CASE Crash
  <2>1. Running' = {} /\ GivenBack /\ UNCHANGED <<store, results>>
    BY <1>3, CrashMoves
  <2>2. ASSUME Fresh(j)', NEW c \in ready', c[1] = j PROVE c \in ready
    BY <2>1, <2>2, GivenBackFacts DEF Fresh
  <2> QED
    BY <2>1, <2>2, PlaceKept, ResultKept
<1> QED
  BY <1>1, <1>2, <1>3

\* A step of parsing stores and publishes nothing.
LEMMA ParseOnce ==
    ASSUME WorkIsWellFormed, NEW a \in Actors, ParseNext(a),
           NEW j \in Jobs, Once(j), HistoryGrows, Submitted(j) => Submitted(j)'
    PROVE  Once(j)'
<1>1. /\ a \in Running /\ OthersStay(a) /\ pc[a] \in ParseSteps
      /\ task'[a].cmd = task[a].cmd /\ UNCHANGED <<store, ready, results>>
  BY ParseMoves
<1>2. PICK step \in ParseSteps : Goto(a, step)
  BY ParseMoves
<1>3. pc'[a] # "report" /\ pc[a] # "ack"
  BY <1>1, <1>2 DEF Goto, WorkIsWellFormed, ParseSteps
<1>4. JobOf(a)' = JobOf(a)
  BY <1>1 DEF JobOf
<1> QED
  BY <1>1, <1>3, <1>4, ActorKeeps

\* A job that ran once so far keeps its one place and its one result.
LEMMA OnceStep ==
    ASSUME WorkIsWellFormed, DeliveriesHaveWorkers, OnePlace, OneResult, [Next]_vars
    PROVE  OnePlace' /\ OneResult'
<1> SUFFICES ASSUME NEW j \in Jobs PROVE Once(j)'
  BY DEF Once, OnePlace, OneResult, OnePlaceOf, OneResultOf
<1>1. Once(j)
  BY DEF Once, OnePlace, OneResult, OnePlaceOf, OneResultOf
<1>2. HistoryGrows /\ (Submitted(j) => Submitted(j)')
  BY HistoryStep, SubmittedStep
<1> QED
  BY <1>1, <1>2, NextSplits, HandlerOnce, WorkerOnce, DeliveryOnce, ParseOnce, OthersOnce

----------------------------------------------------------------------------
(* The invariant, and what follows from it *)

\* Nothing is submitted yet.
LEMMA InitInductive == Init => InductiveInv
<1> SUFFICES ASSUME Init PROVE InductiveInv
  OBVIOUS
<1>1. Running = {}
  BY DEF Init, Running
<1>2. WorkIsWellFormed
  <2>1. pc \in [Actors -> WorkerSteps \union HandlerSteps]
    BY DEF Init, WorkerSteps, HandlerSteps
  <2>2. \A w \in Workers : pc[w] \in WorkerSteps
    BY DEF Init, Actors, WorkerSteps
  <2>3. \A j \in Jobs : pc[j] \in HandlerSteps \union ParseSteps
    BY DEF Init, Actors, HandlerSteps
  <2> QED
    BY <1>1, <2>1, <2>2, <2>3 DEF Init, WorkIsWellFormed
<1>3. DeliveriesHaveWorkers
  BY <1>1 DEF Init, DeliveriesHaveWorkers
<1>4. PendingIsAwaited
  BY DEF Init, PendingIsAwaited
<1>5. OnePlace
  BY <1>1 DEF Init, OnePlace
<1>6. OneResult
  BY <1>1, ReportsRun DEF Init, OneResult
<1> QED
  BY <1>2, <1>3, <1>4, <1>5, <1>6 DEF InductiveInv

\* Each part is kept by the lemma of its own.
LEMMA InductiveStep == InductiveInv /\ [Next]_vars => InductiveInv'
BY WorkStep, DeliveriesStep, PendingStep, OnceStep DEF InductiveInv

\* The parts together hold in every state.
THEOREM InductiveInvariant == Spec => []InductiveInv
BY InitInductive, InductiveStep, PTL DEF Spec

\* Who will finish a job is busy with it.
LEMMA AwaitedIsBusy ==
    ASSUME WorkIsWellFormed, NEW j, Awaited(j)
    PROVE  Busy(j)
<1>1. ASSUME NEW a \in Actors, WillFinish(a, j) PROVE Busy(j)
  <2>1. a \in Running /\ JobOf(a) = j
    BY <1>1 DEF WillFinish, Running, ParseSteps
  <2> QED
    BY <2>1 DEF Busy, Running
<1> QED
  BY <1>1 DEF Awaited, Busy

\* A poll that never ends has one of the named reasons, whoever writes the job and in
\* whatever order (parse.go:64, 182, processor.go:53, 161).
THEOREM StuckPollsExplained == Spec => []StuckPollHasReason
<1>1. InductiveInv => StuckPollHasReason
  BY AwaitedIsBusy DEF InductiveInv, PendingIsAwaited, StuckPollHasReason
<1> QED
  BY <1>1, InductiveInvariant, PTL

\* A poll of a job that ran once without a failure shows what was published or
\* answered for it (processor.go:161-169, parse.go:182).
THEOREM PollsShowResults == Spec => []PollShowsResult
<1>1. InductiveInv => PollShowsResult
  BY DEF InductiveInv, WorkIsWellFormed, OneResult, Fresh, PollShowsResult
<1> QED
  BY <1>1, InductiveInvariant, PTL

----------------------------------------------------------------------------
(* What an actor has in its hands *)

LEMMA JobUrls ==
    ASSUME NEW j \in Jobs
    PROVE  /\ UrlsOf[j] \in Seq(Urls) /\ UrlsOf[j] # <<>>
           /\ ToSet(UrlsOf[j]) \subseteq Urls
           /\ UrlsOf[j] \in Seq(ToSet(UrlsOf[j]))
<1>1. UrlsOf[j] \in Seq(Urls) /\ UrlsOf[j] # <<>>
  BY UrlsAssumption
<1> QED
  BY <1>1, ElementsAreIn, OwnElements

\* Who has all items of a URL, save shared ones, accounts for it.
LEMMA OwnItemsAccount ==
    ASSUME NEW u \in Urls, NEW items, HoldsOwn(u, items)
    PROVE  Accounted(u, items)
<1> SUFFICES ASSUME NEW link \in LinksOf(u) \ Links(items), ~Shared(u, link) PROVE FALSE
  BY DEF Accounted
<1>1. PICK i \in ToSet(ItemsOf(u)) : i.link = link
  BY FeedTypes
<1>2. i \notin items
  BY <1>1 DEF Links
<1> QED
  BY <1>1, <1>2 DEF HoldsOwn

LEMMA MoreItemsAccount ==
    ASSUME NEW u, NEW items, NEW more, items \subseteq more, Accounted(u, items)
    PROVE  Accounted(u, more)
BY DEF Accounted, Links

\* Work that starts is in order.
LEMMA NewWork ==
    ASSUME NEW c \in Commands, NEW t, NEW step \in {"authorize", "begin"},
           t = [cmd |-> c, todo |-> UrlsOf[c[1]], missed |-> <<>>,
                found |-> {}, fresh |-> {}, errors |-> {}]
    PROVE  IsWork(t) /\ LeftToDo(step, t) /\ Served(step, t)
<1>1. /\ t.cmd = c /\ t.todo = UrlsOf[c[1]] /\ t.missed = <<>>
      /\ t.found = {} /\ t.fresh = {} /\ t.errors = {}
  OBVIOUS
<1>2. c[1] \in Jobs
  BY DEF Commands
<1>3. IsTask(t)
  BY <1>1 DEF IsTask
<1>4. <<>> \in Seq(ToSet(UrlsOf[c[1]]))
  OBVIOUS
<1>5. IsWork(t)
  BY <1>1, <1>2, <1>3, <1>4, JobUrls DEF IsWork
<1>6. LeftToDo(step, t)
  BY <1>1, <1>2, JobUrls DEF LeftToDo
<1>7. Served(step, t)
  BY <1>1 DEF Served, LookingUp
<1> QED
  BY <1>5, <1>6, <1>7

\* A URL found in the cache is served, one that is not is missed, and what is left
\* decides what is next.
LEMMA WorkAfterLookup ==
    ASSUME NEW t, IsWork(t), LeftToDo("lookup", t), Served("lookup", t),
           NEW missed, NEW found, NEW t2,
           t2 = [cmd |-> t.cmd, todo |-> Tail(t.todo), missed |-> missed,
                 found |-> found, fresh |-> t.fresh, errors |-> t.errors],
           \/ missed = Append(t.missed, Head(t.todo)) /\ found = t.found
           \/ missed = t.missed /\ \E items : /\ HoldsOwn(Head(t.todo), items)
                                              /\ found = t.found \union items
    PROVE  LET step == AfterLookup(Tail(t.todo), missed)
           IN IsWork(t2) /\ LeftToDo(step, t2) /\ Served(step, t2)
<1> DEFINE urls == ToSet(UrlsOf[t.cmd[1]])
           u == Head(t.todo)
           todo == Tail(t.todo)
           step == AfterLookup(todo, missed)
<1>1. /\ t2.cmd = t.cmd /\ t2.todo = todo /\ t2.missed = missed
      /\ t2.found = found /\ t2.fresh = t.fresh /\ t2.errors = t.errors
  OBVIOUS
<1>2. /\ t.cmd \in Commands /\ t.cmd[1] \in Jobs /\ urls \subseteq Urls
      /\ t.todo \in Seq(urls) /\ t.missed \in Seq(urls) /\ t.todo # <<>>
      /\ t.found \union t.fresh \subseteq ItemsOfAll(urls) /\ t.errors = {}
      /\ \A v \in urls \ (ToSet(t.todo) \union ToSet(t.missed)) : Accounted(v, t.found)
  BY JobUrls DEF IsWork, IsTask, Commands, LeftToDo, Served, LookingUp
<1>3. /\ u \in urls /\ u \in Urls /\ todo \in Seq(urls)
      /\ ToSet(t.todo) = {u} \union ToSet(todo)
  <2> HIDE DEF urls
  <2> QED
    BY <1>2, HeadAndTail
<1>4. /\ missed \in Seq(urls) /\ found \subseteq ItemsOfAll(urls) /\ t.found \subseteq found
      /\ u \in ToSet(missed) \/ Accounted(u, found)
      /\ ToSet(t.missed) \subseteq ToSet(missed)
  <2> HIDE DEF urls, u
  <2>1. CASE missed = Append(t.missed, u) /\ found = t.found
    <3>1. missed \in Seq(urls) /\ ToSet(missed) = ToSet(t.missed) \union {u}
      BY <1>2, <1>3, <2>1, AppendElement
    <3> QED
      BY <1>2, <2>1, <3>1
  <2>2. ASSUME NEW items, missed = t.missed, HoldsOwn(u, items), found = t.found \union items
        PROVE  <1>4
    <3>1. items \subseteq ItemsOfAll(urls)
      BY <1>3, <2>2 DEF HoldsOwn, ItemsOfAll
    <3>2. Accounted(u, found)
      BY <1>3, <2>2, OwnItemsAccount, MoreItemsAccount
    <3> QED
      BY <1>2, <2>2, <3>1, <3>2
  <2> QED
    BY <2>1, <2>2 DEF u
<1> HIDE DEF urls, u, todo
<1>5. \A v \in urls \ (ToSet(todo) \union ToSet(missed)) : Accounted(v, found)
  <2> SUFFICES ASSUME NEW v \in urls, v \notin ToSet(todo), v \notin ToSet(missed)
               PROVE  Accounted(v, found)
    OBVIOUS
  <2>1. CASE v = u
    BY <1>4, <2>1
  <2>2. CASE v # u
    BY <1>2, <1>3, <1>4, <2>2, MoreItemsAccount
  <2> QED
    BY <2>1, <2>2
<1>6. IsWork(t2)
  <2>1. IsTask(t2)
    BY <1>1, <1>2 DEF IsTask, todo
  <2> QED
    BY <1>1, <1>2, <1>3, <1>4, <2>1 DEF IsWork, urls
<1>7. LeftToDo(step, t2)
  BY <1>1 DEF LeftToDo, AfterLookup, LookingUp
<1>8. Served(step, t2)
  <2>1. CASE todo = <<>> /\ missed = <<>>
    <3>1. ToSet(todo) = {} /\ ToSet(missed) = {}
      BY <2>1 DEF ToSet
    <3> QED
      BY <1>1, <1>2, <1>5, <2>1, <3>1 DEF Served, AfterLookup, LookingUp, urls
  <2>2. CASE todo # <<>> \/ missed # <<>>
    BY <1>1, <1>2, <1>5, <2>2 DEF Served, AfterLookup, LookingUp, urls
  <2> QED
    BY <2>1, <2>2
<1> QED
  BY <1>6, <1>7, <1>8 DEF todo

\* What Parse returns serves the URLs that were missed, and of each that did not fail
\* it has the items to put into the cache.
LEMMA WorkAfterFetch ==
    ASSUME NEW t, IsWork(t), LeftToDo("fetch", t), Served("fetch", t),
           NEW o \in ParseOutcomes(t.missed), NEW t2,
           t2 = [cmd |-> t.cmd, todo |-> t.missed, missed |-> <<>>,
                 found |-> t.found \union o.items, fresh |-> o.items, errors |-> o.errors]
    PROVE  IsWork(t2) /\ LeftToDo("hydrate", t2) /\ Served("hydrate", t2)
<1> DEFINE urls == ToSet(UrlsOf[t.cmd[1]])
           found == t.found \union o.items
<1>1. /\ t2.cmd = t.cmd /\ t2.todo = t.missed /\ t2.missed = <<>>
      /\ t2.found = found /\ t2.fresh = o.items /\ t2.errors = o.errors
  OBVIOUS
<1>2. /\ t.cmd \in Commands /\ t.cmd[1] \in Jobs /\ urls \subseteq Urls
      /\ t.missed \in Seq(urls) /\ t.todo = <<>> /\ t.missed # <<>>
      /\ t.found \subseteq ItemsOfAll(urls)
      /\ \A v \in urls \ (ToSet(t.todo) \union ToSet(t.missed)) : Accounted(v, t.found)
  BY JobUrls DEF IsWork, IsTask, Commands, LeftToDo, Served, LookingUp
<1>3. ToSet(t.missed) \subseteq urls /\ ToSet(t.todo) = {}
  <2>1. ToSet(t.missed) \subseteq urls
    <3> HIDE DEF urls
    <3> QED
      BY <1>2, ElementsAreIn
  <2> QED
    BY <1>2, <2>1 DEF ToSet
<1>4. t.missed \in Seq(Urls)
  <2> HIDE DEF urls
  <2> QED
    BY <1>2
<1> HIDE DEF urls
<1>5. /\ o.errors \subseteq ToSet(t.missed)
      /\ \A i \in o.items : i.url \in ToSet(t.missed) /\ i \in ToSet(ItemsOf(i.url))
      /\ \A v \in ToSet(t.missed) \ o.errors : \A i \in ToSet(ItemsOf(v)) :
            \/ i \in o.items
            \/ i.link # NoLink /\ \E h \in o.items : h.link = i.link
  BY <1>4, OutcomeFacts
<1>6. o.items \subseteq ItemsOfAll(urls)
  BY <1>3, <1>5 DEF ItemsOfAll
<1>7. IsWork(t2)
  <2>1. IsTask(t2)
    BY <1>1, <1>2 DEF IsTask
  <2>2. <<>> \in Seq(urls)
    OBVIOUS
  <2>3. o.errors \subseteq urls
    BY <1>3, <1>5
  <2> QED
    BY <1>1, <1>2, <1>6, <2>1, <2>2, <2>3 DEF IsWork, urls
<1>8. ASSUME NEW v \in ToSet(t.missed) \ o.errors
      PROVE  HoldsOwn(v, {i \in o.items : i.url = v})
  <2> DEFINE own == {i \in o.items : i.url = v}
  <2>1. own \subseteq ToSet(ItemsOf(v))
    BY <1>5
  <2>2. ASSUME NEW i \in ToSet(ItemsOf(v)) \ own
        PROVE  i.link \in Links(own) \ {NoLink} \/ Shared(v, i.link)
    <3>1. v \in Urls /\ i.url = v
      BY <1>2, <1>3, FeedTypes
    <3>2. PICK h \in o.items : i.link # NoLink /\ h.link = i.link
      BY <1>5, <3>1
    <3>3. CASE h.url = v
      BY <3>2, <3>3 DEF Links
    <3>4. CASE h.url # v
      <4>1. h.url \in urls \ {v} /\ v \in urls /\ h.url \in Urls
        BY <1>2, <1>3, <1>5, <3>4
      <4>2. h.link \in LinksOf(h.url)
        BY <1>5, <4>1, FeedTypes
      <4> QED
        BY <1>2, <3>2, <4>1, <4>2 DEF Shared, urls
    <3> QED
      BY <3>3, <3>4
  <2> QED
    BY <2>1, <2>2 DEF HoldsOwn
<1>9. LeftToDo("hydrate", t2)
  BY <1>1, <1>2, <1>8 DEF LeftToDo, LookingUp
<1>10. \A v \in urls \ o.errors : Accounted(v, found)
  <2> SUFFICES ASSUME NEW v \in urls \ o.errors PROVE Accounted(v, found)
    OBVIOUS
  <2>1. CASE v \in ToSet(t.missed)
    <3> DEFINE own == {i \in o.items : i.url = v}
    <3>1. v \in Urls /\ own \subseteq found /\ HoldsOwn(v, own)
      BY <1>2, <1>8, <2>1
    <3> HIDE DEF own
    <3>2. Accounted(v, own)
      BY <3>1, OwnItemsAccount
    <3> QED
      BY <3>1, <3>2, MoreItemsAccount
  <2>2. CASE v \notin ToSet(t.missed)
    BY <1>2, <1>3, <2>2, MoreItemsAccount
  <2> QED
    BY <2>1, <2>2
<1>11. Served("hydrate", t2)
  BY <1>1, <1>10 DEF Served, LookingUp, urls
<1> QED
  BY <1>7, <1>9, <1>11

\* So it is when one of them is in the cache, or was passed over.
LEMMA WorkAfterHydrate ==
    ASSUME NEW t, IsWork(t), LeftToDo("hydrate", t), Served("hydrate", t), NEW t2,
           t2 = [cmd |-> t.cmd, todo |-> Tail(t.todo), missed |-> t.missed,
                 found |-> t.found, fresh |-> t.fresh, errors |-> t.errors]
    PROVE  LET step == AfterHydrate(Tail(t.todo))
           IN /\ IsWork(t2) /\ LeftToDo(step, t2) /\ Served(step, t2)
              /\ Head(t.todo) \in Urls
              /\ Head(t.todo) \notin t.errors =>
                    HoldsOwn(Head(t.todo), {i \in t.fresh : i.url = Head(t.todo)})
<1> DEFINE urls == ToSet(UrlsOf[t.cmd[1]])
           step == AfterHydrate(Tail(t.todo))
<1>1. /\ t2.cmd = t.cmd /\ t2.todo = Tail(t.todo) /\ t2.missed = t.missed
      /\ t2.found = t.found /\ t2.fresh = t.fresh /\ t2.errors = t.errors
  OBVIOUS
<1>2. /\ t.cmd \in Commands /\ t.cmd[1] \in Jobs /\ urls \subseteq Urls
      /\ t.todo \in Seq(urls) /\ t.missed \in Seq(urls) /\ t.todo # <<>>
      /\ t.found \union t.fresh \subseteq ItemsOfAll(urls) /\ t.errors \subseteq urls
      /\ \A u \in ToSet(t.todo) \ t.errors : HoldsOwn(u, {i \in t.fresh : i.url = u})
      /\ \A u \in urls \ t.errors : Accounted(u, t.found)
  BY JobUrls DEF IsWork, IsTask, Commands, LeftToDo, Served, LookingUp
<1> HIDE DEF urls
<1>3. /\ Head(t.todo) \in urls /\ Head(t.todo) \in ToSet(t.todo) /\ Tail(t.todo) \in Seq(urls)
      /\ ToSet(Tail(t.todo)) \subseteq ToSet(t.todo)
  BY <1>2, HeadAndTail
<1>4. IsWork(t2)
  <2>1. IsTask(t2)
    BY <1>1, <1>2 DEF IsTask
  <2> QED
    BY <1>1, <1>2, <1>3, <2>1 DEF IsWork, urls
<1>5. step \in {"hydrate", "save"} /\ (step = "hydrate" => Tail(t.todo) # <<>>)
  BY DEF AfterHydrate
<1>6. LeftToDo(step, t2)
  BY <1>1, <1>2, <1>3, <1>5 DEF LeftToDo, LookingUp
<1>7. Served(step, t2)
  BY <1>1, <1>2, <1>5 DEF Served, LookingUp, urls
<1> QED
  BY <1>2, <1>3, <1>4, <1>6, <1>7

\* What a has in its hands is in order.
InOrder(a) ==
    /\ a \in Running \/ task[a] # Nothing => IsWork(task[a])
    /\ a \in Running => LeftToDo(pc[a], task[a]) /\ Served(pc[a], task[a])

AllInOrder == \A a \in Actors : InOrder(a)

\* The operators about work are about values.
LEMMA WorkIsAValue ==
    ASSUME NEW a
    PROVE  /\ IsWork(task[a])' <=> IsWork(task'[a])
           /\ LeftToDo(pc[a], task[a])' <=> LeftToDo(pc'[a], task'[a])
           /\ Served(pc[a], task[a])' <=> Served(pc'[a], task'[a])
BY DEF IsWork, IsTask, LeftToDo, Served, Commands, Actors, LookingUp, HoldsOwn, Accounted,
       Links, Shared, LinksOf, ItemsOf, ItemsOfAll, ToSet

\* The hands of one actor may change in a step.
LEMMA HandsMove ==
    ASSUME AllInOrder, NEW a \in Actors, OthersStay(a), InOrder(a)'
    PROVE  AllInOrder'
<1> SUFFICES ASSUME NEW b \in Actors, b # a PROVE InOrder(b)'
  BY DEF AllInOrder
<1>1. pc'[b] = pc[b] /\ task'[b] = task[b]
  BY DEF OthersStay
<1>2. (b \in Running)' <=> b \in Running
  BY <1>1 DEF Running
<1>3. InOrder(b)
  BY DEF AllInOrder
<1> QED
  BY <1>1, <1>2, <1>3, WorkIsAValue DEF InOrder

\* A step leaves them in order if it ends with work that is in order, or with none.
LEMMA HandsInOrder ==
    ASSUME NEW a,
           \/ IsWork(task'[a]) /\ LeftToDo(pc'[a], task'[a]) /\ Served(pc'[a], task'[a])
           \/ task'[a] = Nothing /\ pc'[a] \in Resting
    PROVE  InOrder(a)'
<1>1. pc'[a] \in Resting => (a \notin Running)'
  BY DEF Running, Resting
<1> QED
  BY <1>1, WorkIsAValue DEF InOrder

\* The steps of parsing leave the work of their actor in order.
LEMMA ParsingInOrder ==
    ASSUME WorkIsWellFormed, AllInOrder, CacheHoldsOwnItems, NEW a \in Actors, ParseNext(a)
    PROVE  AllInOrder'
<1> DEFINE t == task[a]
<1>1. /\ a \in Running /\ OthersStay(a) /\ DOMAIN task = Actors
      /\ pc \in [Actors -> WorkerSteps \union HandlerSteps]
  BY ParseMoves DEF WorkIsWellFormed
<1>2. IsWork(t) /\ LeftToDo(pc[a], t) /\ Served(pc[a], t)
  BY <1>1 DEF AllInOrder, InOrder
<1>3. t = [cmd |-> t.cmd, todo |-> t.todo, missed |-> t.missed,
           found |-> t.found, fresh |-> t.fresh, errors |-> t.errors]
  BY <1>2 DEF IsWork, IsTask
<1>4. CASE Lookup(a)
  <2> DEFINE u == Head(t.todo)
             missed == IF cache[u] # Nothing THEN t.missed ELSE Append(t.missed, u)
             found == IF cache[u] # Nothing THEN t.found \union cache[u] ELSE t.found
             step == AfterLookup(Tail(t.todo), missed)
  <2>1. /\ pc[a] = "lookup" /\ Goto(a, step)
        /\ task' = [task EXCEPT ![a].todo = Tail(t.todo), ![a].missed = missed,
                                ![a].found = found]
    BY <1>4 DEF Lookup, ParseStep, WithHit
  <2>2. pc'[a] = step
    BY <1>1, <2>1 DEF Goto
  <2>3. task'[a] = [t EXCEPT !.todo = Tail(t.todo), !.missed = missed, !.found = found]
    BY <1>1, <2>1
  <2>4. task'[a] = [cmd |-> t.cmd, todo |-> Tail(t.todo), missed |-> missed,
                    found |-> found, fresh |-> t.fresh, errors |-> t.errors]
    BY <1>3, <2>3
  <2>5. u \in Urls
    <3>1. t.todo # <<>> /\ t.cmd[1] \in Jobs /\ t.todo \in Seq(ToSet(UrlsOf[t.cmd[1]]))
      BY <1>2, <2>1 DEF LeftToDo, LookingUp, IsWork, IsTask, Commands
    <3> QED
      BY <3>1, HeadAndTail, JobUrls
  <2>6. \/ missed = Append(t.missed, u) /\ found = t.found
        \/ missed = t.missed /\ \E items : HoldsOwn(u, items) /\ found = t.found \union items
    BY <2>5 DEF CacheHoldsOwnItems
  <2>7. LeftToDo("lookup", t) /\ Served("lookup", t)
    BY <1>2, <2>1
  <2> HIDE DEF missed, found, t
  <2>8. IsWork(task'[a]) /\ LeftToDo(step, task'[a]) /\ Served(step, task'[a])
    BY <1>2, <2>4, <2>6, <2>7, WorkAfterLookup
  <2> QED
    BY <1>1, <2>2, <2>8, HandsInOrder, HandsMove
<1>5. CASE LookupFails(a)
  <2> DEFINE missed == Append(t.missed, Head(t.todo))
             step == AfterLookup(Tail(t.todo), missed)
  <2>1. /\ pc[a] = "lookup" /\ Goto(a, step)
        /\ task' = [task EXCEPT ![a].todo = Tail(t.todo), ![a].missed = missed]
    BY <1>5 DEF LookupFails, ParseStep
  <2>2. pc'[a] = step
    BY <1>1, <2>1 DEF Goto
  <2>3. task'[a] = [t EXCEPT !.todo = Tail(t.todo), !.missed = missed]
    BY <1>1, <2>1
  <2>4. task'[a] = [cmd |-> t.cmd, todo |-> Tail(t.todo), missed |-> missed,
                    found |-> t.found, fresh |-> t.fresh, errors |-> t.errors]
    BY <1>3, <2>3
  <2>5. LeftToDo("lookup", t) /\ Served("lookup", t)
    BY <1>2, <2>1
  <2>6. missed = Append(t.missed, Head(t.todo))
    OBVIOUS
  <2> HIDE DEF missed, t
  <2>7. IsWork(task'[a]) /\ LeftToDo(step, task'[a]) /\ Served(step, task'[a])
    BY <1>2, <2>4, <2>5, <2>6, WorkAfterLookup
  <2> QED
    BY <1>1, <2>2, <2>7, HandsInOrder, HandsMove
<1>6. CASE Fetch(a)
  <2>1. PICK o \in ParseOutcomes(t.missed) :
            task' = [task EXCEPT ![a].missed = <<>>, ![a].todo = t.missed,
                                 ![a].found = @ \union o.items,
                                 ![a].fresh = o.items, ![a].errors = o.errors]
    BY <1>6 DEF Fetch
  <2>2. pc[a] = "fetch" /\ Goto(a, "hydrate")
    BY <1>6 DEF Fetch, ParseStep
  <2>3. pc'[a] = "hydrate"
    BY <1>1, <2>2 DEF Goto
  <2>4. task'[a] = [t EXCEPT !.missed = <<>>, !.todo = t.missed, !.found = @ \union o.items,
                             !.fresh = o.items, !.errors = o.errors]
    BY <1>1, <2>1
  <2>5. task'[a] = [cmd |-> t.cmd, todo |-> t.missed, missed |-> <<>>,
                    found |-> t.found \union o.items, fresh |-> o.items, errors |-> o.errors]
    BY <1>3, <2>4
  <2>6. LeftToDo("fetch", t) /\ Served("fetch", t)
    BY <1>2, <2>2
  <2> HIDE DEF t
  <2>7. IsWork(task'[a]) /\ LeftToDo("hydrate", task'[a]) /\ Served("hydrate", task'[a])
    BY <1>2, <2>5, <2>6, WorkAfterFetch
  <2> QED
    BY <1>1, <2>3, <2>7, HandsInOrder, HandsMove
<1>7. CASE SkipsFailed(a) \/ Hydrate(a) \/ HydrateFails(a)
  <2> DEFINE step == AfterHydrate(Tail(t.todo))
  <2>1. /\ pc[a] = "hydrate" /\ Goto(a, step)
        /\ task' = [task EXCEPT ![a].todo = Tail(t.todo)]
    BY <1>7 DEF SkipsFailed, Hydrate, HydrateFails, Hydrated, ParseStep
  <2>2. pc'[a] = step
    BY <1>1, <2>1 DEF Goto
  <2>3. task'[a] = [t EXCEPT !.todo = Tail(t.todo)]
    BY <1>1, <2>1
  <2>4. task'[a] = [cmd |-> t.cmd, todo |-> Tail(t.todo), missed |-> t.missed,
                    found |-> t.found, fresh |-> t.fresh, errors |-> t.errors]
    BY <1>3, <2>3
  <2>5. LeftToDo("hydrate", t) /\ Served("hydrate", t)
    BY <1>2, <2>1
  <2> HIDE DEF t
  <2>6. IsWork(task'[a]) /\ LeftToDo(step, task'[a]) /\ Served(step, task'[a])
    BY <1>2, <2>4, <2>5, WorkAfterHydrate
  <2> QED
    BY <1>1, <2>2, <2>6, HandsInOrder, HandsMove
<1> QED
  BY <1>4, <1>5, <1>6, <1>7 DEF ParseNext

\* No step of anybody leaves work out of order.
LEMMA AllInOrderStep ==
    ASSUME WorkIsWellFormed, DeliveriesHaveWorkers, AllInOrder, CacheHoldsOwnItems, [Next]_vars
    PROVE  AllInOrder'
<1>1. ASSUME NEW j \in Jobs, Post(j) PROVE AllInOrder'
  <2>1. j \in Actors /\ OthersStay(j) /\ pc'[j] = "authorize"
    BY <1>1, PostMoves
  <2>2. <<j, "go">> \in Commands
    BY DEF Commands, Senders
  <2>3. task'[j] = [cmd |-> <<j, "go">>, todo |-> UrlsOf[<<j, "go">>[1]], missed |-> <<>>,
                    found |-> {}, fresh |-> {}, errors |-> {}]
    BY <1>1, <2>1 DEF Post, Start, WorkIsWellFormed
  <2> QED
    BY <2>1, <2>2, <2>3, NewWork, HandsInOrder, HandsMove
<1>2. ASSUME NEW j \in Jobs, HandlerGoesOn(j) PROVE AllInOrder'
  <2>1. /\ j \in Actors /\ j \in Running /\ OthersStay(j) /\ task' = task
        /\ pc[j] \in {"authorize", "create", "publish"}
        /\ pc' \in [Actors -> WorkerSteps \union HandlerSteps]
    BY <1>2, HandlerMoves DEF WorkIsWellFormed
  <2>2. PICK step \in {"create", "publish", "lookup", "ended"} : Goto(j, step)
    BY <1>2, HandlerMoves
  <2>3. pc'[j] = step
    BY <2>1, <2>2 DEF Goto, WorkIsWellFormed
  <2>4. InOrder(j)
    BY <2>1 DEF AllInOrder
  <2>5. CASE step = "ended"
    <3>1. (j \notin Running)'
      BY <2>3, <2>5 DEF Running
    <3> QED
      BY <2>1, <2>4, <3>1, WorkIsAValue, HandsMove DEF InOrder
  <2>6. CASE step # "ended"
    <3>1. IsWork(task'[j]) /\ LeftToDo(pc'[j], task'[j]) /\ Served(pc'[j], task'[j])
      BY <2>1, <2>3, <2>4, <2>6 DEF InOrder, LeftToDo, Served, LookingUp
    <3> QED
      BY <2>1, <3>1, HandsInOrder, HandsMove
  <2> QED
    BY <2>5, <2>6
<1>3. ASSUME NEW j \in Jobs, Answer(j) PROVE AllInOrder'
  <2>1. j \in Actors /\ OthersStay(j) /\ pc'[j] = "ended"
    BY <1>3, AnswerMoves
  <2>2. task'[j] = Nothing
    BY <1>3, <2>1 DEF Answer, WorkIsWellFormed
  <2> QED
    BY <2>1, <2>2, HandsInOrder, HandsMove DEF Resting
<1>4. ASSUME NEW w \in Workers, Deliver(w) PROVE AllInOrder'
  <2>1. w \in Actors /\ OthersStay(w) /\ pc'[w] = "begin"
    BY <1>4, DeliverMoves
  <2>2. PICK c \in ready : Start(w, c)
    BY <1>4 DEF Deliver
  <2>3. c \in Commands
    BY DEF WorkIsWellFormed
  <2>4. task'[w] = [cmd |-> c, todo |-> UrlsOf[c[1]], missed |-> <<>>,
                    found |-> {}, fresh |-> {}, errors |-> {}]
    BY <2>1, <2>2 DEF Start, WorkIsWellFormed
  <2> QED
    BY <2>1, <2>3, <2>4, NewWork, HandsInOrder, HandsMove
<1>5. ASSUME NEW w \in Workers, WorkerGoesOn(w) PROVE AllInOrder'
  <2>1. w \in Running /\ w \in Actors /\ task' = task /\ OthersStay(w)
    BY <1>5, WorkerMoves
  <2>2. \/ pc[w] = "begin" /\ Goto(w, "lookup")
        \/ pc[w] = "save" /\ Goto(w, "report")
        \/ pc[w] = "report" /\ Goto(w, "ack")
    BY <1>5 DEF WorkerGoesOn, Begin, SaveFinal, PublishResult
  <2>3. \/ pc[w] = "begin" /\ pc'[w] = "lookup"
        \/ pc[w] = "save" /\ pc'[w] = "report"
        \/ pc[w] = "report" /\ pc'[w] = "ack"
    BY <2>1, <2>2 DEF Goto, WorkIsWellFormed
  <2>4. InOrder(w)
    BY <2>1 DEF AllInOrder
  <2>5. IsWork(task'[w]) /\ LeftToDo(pc'[w], task'[w]) /\ Served(pc'[w], task'[w])
    BY <2>1, <2>3, <2>4 DEF InOrder, LeftToDo, Served, LookingUp
  <2> QED
    BY <2>1, <2>5, HandsInOrder, HandsMove
<1>6. ASSUME NEW w \in Workers, WorkerGivesUp(w) \/ Ack(w) PROVE AllInOrder'
  <2>1. w \in Actors /\ OthersStay(w) /\ pc'[w] = "idle" /\ Leave(w)
    BY <1>6, GiveUpMoves, AckMoves DEF Retry, Ack
  <2>2. task'[w] = Nothing
    BY <2>1 DEF Leave, WorkIsWellFormed
  <2> QED
    BY <2>1, <2>2, HandsInOrder, HandsMove DEF Resting
<1>7. ASSUME NEW a \in Actors, ParseNext(a) PROVE AllInOrder'
  BY <1>7, ParsingInOrder
<1>8. CASE NobodyMoves
  <2>1. UNCHANGED <<pc, task>> /\ Running' = Running
    BY <1>8, RestMoves
  <2> QED
    BY <2>1, WorkIsAValue DEF AllInOrder, InOrder
<1>9. CASE Crash
  <2>1. Running' = {} /\ task' = [a \in Actors |-> Nothing]
    BY <1>9, CrashMoves DEF Crash
  <2>2. ASSUME NEW a \in Actors PROVE InOrder(a)'
    BY <2>1 DEF InOrder
  <2> QED
    BY <2>2 DEF AllInOrder
<1> QED
  BY <1>1, <1>2, <1>3, <1>4, <1>5, <1>6, <1>7, <1>8, <1>9, NextSplits

----------------------------------------------------------------------------
(* The cache, the results and everybody's types *)

\* The operators about items and results are about values.
LEMMA CacheIsAValue ==
    /\ \A u : HoldsOwn(u, cache[u])' <=> HoldsOwn(u, cache'[u])
    /\ Items' = Items
BY DEF HoldsOwn, Links, Shared, LinksOf, ItemsOf, ToSet, Items

CacheTyped == cache \in [Urls -> (SUBSET Items) \union {Nothing}]

\* What a step may put into the cache is what a URL holds.
LEMMA CacheStep ==
    ASSUME WorkIsWellFormed, DeliveriesHaveWorkers, AllInOrder, CacheHoldsOwnItems,
           CacheTyped, [Next]_vars
    PROVE  CacheHoldsOwnItems' /\ CacheTyped'
<1>1. ASSUME NEW u \in Urls, cache'[u] = cache[u] \/ cache'[u] = Nothing
      PROVE  cache'[u] # Nothing => HoldsOwn(u, cache'[u])
  BY <1>1 DEF CacheHoldsOwnItems
<1>2. CASE \E a \in Actors : Hydrate(a)
  <2>1. PICK a \in Actors : Hydrate(a)
    BY <1>2
  <2> DEFINE t == task[a]
             u == Head(t.todo)
  <2>2. /\ pc[a] = "hydrate" /\ u \notin t.errors
        /\ cache' = [cache EXCEPT ![u] = {i \in t.fresh : i.url = u}]
    BY <2>1 DEF Hydrate, ParseStep, HasFailed, Fetched
  <2>3. IsWork(t) /\ LeftToDo("hydrate", t) /\ Served("hydrate", t)
    BY <2>2 DEF AllInOrder, InOrder, Running
  <2>4. u \in Urls /\ HoldsOwn(u, {i \in t.fresh : i.url = u})
    <3> HIDE DEF t
    <3> QED
      BY <2>2, <2>3, WorkAfterHydrate
  <2>5. {i \in t.fresh : i.url = u} \subseteq Items
    BY <2>4 DEF HoldsOwn, Items
  <2>6. CacheTyped'
    BY <2>2, <2>4, <2>5, CacheIsAValue DEF CacheTyped
  <2>7. HoldsOwn(u, cache'[u]) /\ \A v \in Urls \ {u} : cache'[v] = cache[v]
    BY <2>2, <2>4 DEF CacheTyped
  <2> QED
    BY <1>1, <2>6, <2>7, CacheIsAValue DEF CacheHoldsOwnItems
<1>3. CASE Expire
  <2>1. \A v \in Urls : cache'[v] = cache[v] \/ cache'[v] = Nothing
    BY <1>3 DEF Expire, CacheTyped
  <2>2. cache' = cache \/ \E u \in Urls : cache' = [cache EXCEPT ![u] = Nothing]
    BY <1>3 DEF Expire
  <2>3. cache' \in [Urls -> (SUBSET Items) \union {Nothing}]
    <3>1. CASE cache' = cache
      BY <3>1 DEF CacheTyped
    <3>2. ASSUME NEW u \in Urls, cache' = [cache EXCEPT ![u] = Nothing] PROVE <2>3
      <4> DEFINE S == (SUBSET Items) \union {Nothing}
      <4>1. cache \in [Urls -> S]
        BY DEF CacheTyped
      <4>2. Nothing \in S
        OBVIOUS
      <4> HIDE DEF S
      <4>3. cache' \in [Urls -> S]
        BY <3>2, <4>1, <4>2
      <4> QED
        BY <4>3 DEF S
    <3> QED
      BY <2>2, <3>1, <3>2
  <2> QED
    BY <1>1, <2>1, <2>3, CacheIsAValue DEF CacheHoldsOwnItems, CacheTyped
<1>4. CASE ~Expire /\ ~\E a \in Actors : Hydrate(a)
  <2>1. UNCHANGED cache
    BY <1>4 DEF Next, HandlerNext, WorkerNext, ParseNext, RailsPublishes, Post, Authorize,
                AuthorizeFails, CreatePending, CreateFails, PublishCommand, PublishIsLost,
                PublishFails, Answer, ClientLeaves, Deliver, Begin, BeginFails, SaveFinal,
                SaveFails, PublishResult, PublishResultFails, Ack, Lookup, LookupFails, Fetch,
                SkipsFailed, HydrateFails, Park, Disconnect, Crash, HandlerStep, redisVars, vars
  <2> QED
    BY <1>1, <2>1, CacheIsAValue DEF CacheHoldsOwnItems, CacheTyped
<1> QED
  BY <1>2, <1>3, <1>4

\* The result of an actor that has served its job.
LEMMA ResultAccounts ==
    ASSUME AllInOrder, NEW a \in Running, pc[a] \in {"save", "report"}
    PROVE  LET urls == ToSet(UrlsOf[JobOf(a)])
               r == Result(a)
           IN /\ JobOf(a) \in Jobs /\ r \in Results /\ r.items \subseteq ItemsOfAll(urls)
              /\ \A u \in urls \ r.errors : Accounted(u, r.items)
<1> DEFINE t == task[a]
           urls == ToSet(UrlsOf[JobOf(a)])
<1>1. IsWork(t) /\ Served(pc[a], t)
  BY DEF AllInOrder, InOrder, Running
<1>2. /\ JobOf(a) \in Jobs /\ t.found \subseteq ItemsOfAll(urls) /\ t.errors \subseteq urls
      /\ \A u \in urls \ t.errors : Accounted(u, t.found)
  BY <1>1 DEF IsWork, IsTask, Commands, Served, JobOf
<1>3. urls \subseteq Urls
  BY <1>2, JobUrls
<1>4. ItemsOfAll(urls) \subseteq Items
  BY <1>3 DEF ItemsOfAll, Items
<1> HIDE DEF urls
<1>5. Result(a).items = t.found /\ Result(a).errors = t.errors
  BY DEF Result
<1>6. Result(a) \in Results
  BY <1>2, <1>3, <1>4 DEF Result, Results, Final
<1> QED
  BY <1>2, <1>5, <1>6 DEF urls

LEMMA ResultsStep ==
    ASSUME WorkIsWellFormed, DeliveriesHaveWorkers, AllInOrder, ResultsAccountForUrls,
           results \subseteq Jobs \X Results, [Next]_vars
    PROVE  ResultsAccountForUrls' /\ results' \subseteq Jobs \X Results
<1>1. ASSUME NEW a \in Running, pc[a] \in {"save", "report"},
             results' = results \union {<<JobOf(a), Result(a)>>}
      PROVE  ResultsAccountForUrls' /\ results' \subseteq Jobs \X Results
  BY <1>1, ResultAccounts, CacheIsAValue DEF ResultsAccountForUrls
<1>2. ASSUME NEW j \in Jobs, Answer(j)
      PROVE  ResultsAccountForUrls' /\ results' \subseteq Jobs \X Results
  <2>1. j \in Running /\ JobOf(j) = j /\ pc[j] = "save"
    BY <1>2, AnswerMoves DEF WorkIsWellFormed
  <2> QED
    BY <1>1, <1>2, <2>1, AnswerMoves
<1>3. ASSUME NEW w \in Workers, PublishResult(w)
      PROVE  ResultsAccountForUrls' /\ results' \subseteq Jobs \X Results
  <2>1. /\ w \in Running /\ pc[w] = "report"
        /\ results' = results \union {<<JobOf(w), Result(w)>>}
    BY <1>3 DEF PublishResult, Running, Actors
  <2> QED
    BY <1>1, <2>1
<1>4. CASE ~(\E j \in Jobs : Answer(j)) /\ ~\E w \in Workers : PublishResult(w)
  <2>1. UNCHANGED results
    BY <1>4 DEF Next, HandlerNext, WorkerNext, ParseNext, RailsPublishes, Post, Authorize,
                AuthorizeFails, CreatePending, CreateFails, PublishCommand, PublishIsLost,
                PublishFails, ClientLeaves, Deliver, Begin, BeginFails, SaveFinal,
                SaveFails, PublishResultFails, Ack, Lookup, LookupFails, Fetch, Hydrate,
                SkipsFailed, HydrateFails, ParseStep, Park, Expire, Disconnect, Crash,
                HandlerStep, vars
  <2> QED
    BY <2>1, CacheIsAValue DEF ResultsAccountForUrls
<1> QED
  BY <1>2, <1>3, <1>4

\* A row of the store is a result, or on its way to one.
StoreTyped == store \in [Jobs -> Results \union {Nothing}]

LEMMA StoreStep ==
    ASSUME WorkIsWellFormed, DeliveriesHaveWorkers, AllInOrder, StoreTyped, [Next]_vars
    PROVE  StoreTyped'
<1>1. \A status \in {"pending", "processing"} : NewJob(status) \in Results
  BY DEF NewJob, Results
<1>2. ASSUME NEW j \in Jobs, NEW row \in Results \union {Nothing},
             store' = [store EXCEPT ![j] = row] \/ store' = store
      PROVE  StoreTyped'
  BY <1>2, CacheIsAValue DEF StoreTyped
<1>3. ASSUME store' = store PROVE StoreTyped'
  BY <1>3, CacheIsAValue DEF StoreTyped
<1>4. ASSUME NEW j \in Jobs, Post(j) \/ HandlerGoesOn(j) \/ Answer(j) PROVE StoreTyped'
  <2>1. CASE CreatePending(j)
    BY <1>1, <1>2, <2>1 DEF CreatePending
  <2>2. CASE Answer(j)
    <3>1. Result(j) \in Results
      BY <2>2, AnswerMoves, ResultAccounts
    <3> QED
      BY <1>2, <1>3, <2>2, <3>1, AnswerMoves
  <2>3. CASE ~CreatePending(j) /\ ~Answer(j)
    <3>1. store' = store
      BY <1>4, <2>3, PostMoves DEF HandlerGoesOn, Authorize, AuthorizeFails, CreateFails,
                                   PublishCommand, PublishIsLost, PublishFails
    <3> QED
      BY <1>3, <3>1
  <2> QED
    BY <2>1, <2>2, <2>3
<1>5. ASSUME NEW w \in Workers, Deliver(w) \/ WorkerGoesOn(w) \/ WorkerGivesUp(w) \/ Ack(w)
      PROVE  StoreTyped'
  <2>1. CASE Begin(w)
    <3>1. JobOf(w) \in Jobs /\ store' = [store EXCEPT ![JobOf(w)] = NewJob("processing")]
      BY <2>1, WorkerMoves DEF Begin, WorkerGoesOn
    <3> QED
      BY <1>1, <1>2, <3>1
  <2>2. CASE SaveFinal(w)
    <3>1. w \in Running /\ pc[w] = "save" /\ store' = [store EXCEPT ![JobOf(w)] = Result(w)]
      BY <2>2, WorkerMoves DEF SaveFinal, WorkerGoesOn
    <3> QED
      BY <1>2, <3>1, ResultAccounts
  <2>3. CASE ~Begin(w) /\ ~SaveFinal(w)
    <3>1. store' = store
      BY <1>5, <2>3, DeliverMoves, GiveUpMoves, AckMoves DEF WorkerGoesOn, PublishResult, redisVars
    <3> QED
      BY <1>3, <3>1
  <2> QED
    BY <2>1, <2>2, <2>3
<1>6. ASSUME NEW a \in Actors, ParseNext(a) PROVE StoreTyped'
  BY <1>3, <1>6, ParseMoves
<1>7. CASE NobodyMoves
  <2>1. CASE Expire
    BY <1>2, <1>3, <2>1 DEF Expire
  <2>2. CASE ~Expire
    <3>1. store' = store
      BY <1>7, <2>2 DEF NobodyMoves, RailsPublishes, ClientLeaves, Park, Disconnect, redisVars,
                        vars
    <3> QED
      BY <1>3, <3>1
  <2> QED
    BY <2>1, <2>2
<1>8. CASE Crash
  BY <1>3, <1>8, CrashMoves
<1> QED
  BY <1>4, <1>5, <1>6, <1>7, <1>8, NextSplits

----------------------------------------------------------------------------
(* Copies of a command *)

RetriesTyped == retries \in [Commands -> 0 .. MaxRetries]

\* The delivery that a worker takes, or lets go, has no other copy.
LEMMA OneCopyStep ==
    ASSUME WorkIsWellFormed, DeliveriesHaveWorkers, OneCopy, RetriesTyped, [Next]_vars
    PROVE  OneCopy' /\ RetriesTyped'
<1> USE DEF RetriesTyped
<1>0. /\ pc \in [Actors -> WorkerSteps \union HandlerSteps] /\ held \subseteq Workers
      /\ \A w \in held : w \in Running /\ task[w].cmd \in Commands
  BY DEF WorkIsWellFormed, DeliveriesHaveWorkers, IsTask
<1>1. ASSUME NEW j \in Jobs, OthersStay(j), UNCHANGED <<held, retries>>,
             sent \subseteq sent', ready' \subseteq sent',
             ready' \ ready \subseteq sent' \ sent,
             \A i \in Jobs : <<i, "go">> \in sent' \ sent => i = j,
             <<j, "go">> \in sent' => pc'[j] \notin {"none", "authorize", "create", "publish"}
      PROVE  OneCopy' /\ RetriesTyped'
  <2>1. \A w \in held : pc'[w] = pc[w] /\ task'[w] = task[w]
    BY <1>0, <1>1 DEF OthersStay, Actors
  <2>2. \A i \in Jobs \ {j} : pc'[i] = pc[i]
    BY <1>1 DEF OthersStay, Actors
  <2>3. \A i \in Jobs :
           <<i, "go">> \in sent' => pc'[i] \notin {"none", "authorize", "create", "publish"}
    BY <1>1, <2>2 DEF OneCopy
  <2>4. \A w \in held : task'[w].cmd \in sent' \ ready'
    BY <1>1, <2>1 DEF OneCopy
  <2> QED
    BY <1>1, <2>1, <2>3, <2>4 DEF OneCopy
<1>2. ASSUME NEW j \in Jobs, HandlerGoesOn(j) PROVE OneCopy' /\ RetriesTyped'
  <2>1. /\ OthersStay(j) /\ UNCHANGED <<held, retries>> /\ j \in Actors
        /\ pc[j] \in {"authorize", "create", "publish"}
    BY <1>2, HandlerMoves DEF HandlerGoesOn, Authorize, AuthorizeFails, CreatePending,
       CreateFails, PublishCommand, PublishIsLost, PublishFails, HandlerStep
  <2>2. <<j, "go">> \notin sent
    BY <2>1 DEF OneCopy
  <2>3. CASE PublishCommand(j)
    <3>1. /\ sent' = sent \union {<<j, "go">>} /\ ready' = ready \union {<<j, "go">>}
          /\ pc'[j] = "ended"
      BY <1>0, <2>1, <2>3 DEF PublishCommand, Then, Goto
    <3>2. ready' \ ready \subseteq sent' \ sent /\ ready' \subseteq sent'
      BY <2>2, <3>1 DEF OneCopy
    <3> QED
      BY <1>1, <2>1, <3>1, <3>2
  <2>4. CASE ~PublishCommand(j)
    <3>1. UNCHANGED <<sent, ready>>
      BY <1>2, <2>4 DEF HandlerGoesOn, Authorize, AuthorizeFails, CreatePending,
         CreateFails, PublishIsLost, PublishFails
    <3> QED
      BY <1>1, <2>1, <2>2, <3>1 DEF OneCopy
  <2> QED
    BY <2>3, <2>4
<1>3. ASSUME NEW j \in Jobs, Post(j) \/ Answer(j) PROVE OneCopy' /\ RetriesTyped'
  <2>1. /\ OthersStay(j) /\ UNCHANGED <<held, retries, sent, ready>> /\ j \in Actors
        /\ pc[j] = "none" \/ pc'[j] = "ended"
    BY <1>3, PostMoves, AnswerMoves DEF Post, Answer, busVars
  <2>2. <<j, "go">> \in sent' => pc'[j] \notin {"none", "authorize", "create", "publish"}
    BY <2>1 DEF OneCopy
  <2> QED
    BY <1>1, <2>1, <2>2 DEF OneCopy
<1>4. ASSUME NEW w \in Workers, Deliver(w) PROVE OneCopy' /\ RetriesTyped'
  <2>1. /\ w \in Actors /\ OthersStay(w) /\ w \notin Running /\ held' = held \union {w}
        /\ UNCHANGED <<sent, retries>>
    BY <1>4, DeliverMoves DEF Deliver
  <2>2. PICK c \in ready : /\ retries[c] < MaxRetries /\ ready' = ready \ {c} /\ Start(w, c)
    BY <1>4 DEF Deliver
  <2>3. task'[w].cmd = c
    BY <2>1, <2>2, StartMoves DEF WorkIsWellFormed
  <2>4. w \notin held /\ \A v \in held : v # w /\ task'[v] = task[v] /\ task[v].cmd # c
    BY <1>0, <2>1, <2>2 DEF OneCopy, OthersStay, Actors
  <2>5. \A j \in Jobs : pc'[j] = pc[j]
    BY <2>1 DEF OthersStay, Actors
  <2> QED
    BY <2>1, <2>2, <2>3, <2>4, <2>5 DEF OneCopy
<1>5. ASSUME NEW w \in Workers, WorkerGoesOn(w) PROVE OneCopy' /\ RetriesTyped'
  <2>1. w \in Actors /\ OthersStay(w) /\ UNCHANGED <<task, sent, retries, ready, held>>
    BY <1>5, WorkerMoves DEF WorkerGoesOn, Begin, SaveFinal, PublishResult, busVars
  <2>2. \A j \in Jobs : pc'[j] = pc[j]
    BY <2>1 DEF OthersStay, Actors
  <2> QED
    BY <2>1, <2>2 DEF OneCopy
<1>6. ASSUME NEW w \in Workers, WorkerGivesUp(w) PROVE OneCopy' /\ RetriesTyped'
  <2>1. w \in Actors /\ OthersStay(w) /\ sent' = sent /\ Retry(w)
    BY <1>6, GiveUpMoves
  <2>2. \A j \in Jobs : pc'[j] = pc[j]
    BY <2>1 DEF OthersStay, Actors
  <2>3. held' = held \ {w} /\ \A v \in held' : task'[v] = task[v]
    BY <1>0, <2>1 DEF Retry, Leave, OthersStay, Actors
  <2>4. CASE w \in held
    <3> DEFINE c == task[w].cmd
    <3>1. ready' = ready \union {c} /\ retries' = [retries EXCEPT ![c] = @ + 1]
      BY <2>1, <2>4 DEF Retry
    <3>2. c \in sent /\ retries[c] < MaxRetries /\ c \in Commands
      BY <1>0, <2>4 DEF OneCopy
    <3>3. \A v \in held' : task[v].cmd # c
      BY <2>3, <2>4 DEF OneCopy
    <3>4. RetriesTyped'
      BY <3>1, <3>2, BoundsAssumption
    <3>5. \A v \in held' : retries'[task[v].cmd] = retries[task[v].cmd]
      BY <1>0, <2>3, <3>1, <3>3
    <3> HIDE DEF c
    <3> QED
      BY <2>1, <2>2, <2>3, <3>1, <3>2, <3>3, <3>4, <3>5 DEF OneCopy
  <2>5. CASE w \notin held
    <3>1. UNCHANGED <<ready, retries>>
      BY <2>1, <2>5 DEF Retry
    <3> QED
      BY <2>1, <2>2, <2>3, <3>1 DEF OneCopy
  <2> QED
    BY <2>4, <2>5
<1>7. ASSUME NEW w \in Workers, Ack(w) PROVE OneCopy' /\ RetriesTyped'
  <2>1. /\ w \in Actors /\ OthersStay(w) /\ held' = held \ {w}
        /\ UNCHANGED <<sent, ready, retries>>
    BY <1>7, AckMoves DEF Ack
  <2>2. \A j \in Jobs : pc'[j] = pc[j]
    BY <2>1 DEF OthersStay, Actors
  <2>3. \A v \in held' : task'[v] = task[v]
    BY <1>0, <2>1 DEF OthersStay, Actors
  <2> QED
    BY <2>1, <2>2, <2>3 DEF OneCopy
<1>8. ASSUME NEW a \in Actors, ParseNext(a) PROVE OneCopy' /\ RetriesTyped'
  <2>1. /\ OthersStay(a) /\ UNCHANGED <<sent, ready, retries, held>>
        /\ pc[a] \in ParseSteps /\ task'[a].cmd = task[a].cmd
    BY <1>8, ParseMoves
  <2>2. PICK step \in ParseSteps : Goto(a, step)
    BY <1>8, ParseMoves
  <2>3. \A j \in Jobs : pc'[j] \in {"none", "authorize", "create", "publish"} => pc'[j] = pc[j]
    BY <1>0, <2>1, <2>2 DEF OthersStay, Actors, Goto, ParseSteps
  <2>4. \A v \in held' : task'[v].cmd = task[v].cmd
    BY <1>0, <2>1 DEF OthersStay, Actors
  <2> QED
    BY <2>1, <2>3, <2>4 DEF OneCopy
<1>9. ASSUME GivenBack, UNCHANGED <<sent, retries>>,
             \A j \in Jobs : pc'[j] = pc[j] \/ pc'[j] = "ended"
      PROVE  OneCopy' /\ RetriesTyped'
  <2>1. ready' \subseteq sent' /\ held' = {}
    BY <1>9 DEF GivenBack, OneCopy
  <2> QED
    BY <1>9, <2>1 DEF OneCopy
<1>10. CASE NobodyMoves
  <2>1. UNCHANGED <<pc, task>>
    BY <1>10, RestMoves
  <2>2. CASE Disconnect
    BY <1>9, <2>1, <2>2 DEF Disconnect, GivenBack
  <2>3. ASSUME NEW j \in Jobs, RailsPublishes(j) PROVE OneCopy' /\ RetriesTyped'
    BY <2>1, <2>3 DEF RailsPublishes, OneCopy
  <2>4. CASE ~Disconnect /\ ~\E j \in Jobs : RailsPublishes(j)
    <3>1. UNCHANGED <<sent, held, retries>> /\ ready' \subseteq ready
      BY <1>10, <2>4 DEF NobodyMoves, ClientLeaves, Park, Expire, vars, busVars
    <3> QED
      BY <2>1, <3>1 DEF OneCopy
  <2> QED
    BY <2>2, <2>3, <2>4
<1>11. CASE Crash
  <2>1. GivenBack /\ UNCHANGED <<sent, retries>>
    BY <1>11, CrashMoves DEF Crash
  <2> QED
    BY <1>9, <1>11, <2>1, CrashMoves
<1> QED
  BY <1>2, <1>3, <1>4, <1>5, <1>6, <1>7, <1>8, <1>10, <1>11, NextSplits

\* The rest of the types.
CountsTyped ==
    /\ sent \subseteq Commands /\ gone \subseteq Jobs /\ faults \in 0 .. MaxFaults
    /\ again \subseteq Jobs /\ dropped \subseteq Jobs

LEMMA CountsStep ==
    ASSUME WorkIsWellFormed, DeliveriesHaveWorkers, CountsTyped, [Next]_vars
    PROVE  CountsTyped'
<1>1. \A j \in Jobs : <<j, "rails">> \in Commands /\ <<j, "go">> \in Commands
  BY DEF Commands, Senders
<1>2. \A a \in Running : JobOf(a) \in Jobs
  BY DEF WorkIsWellFormed, IsTask, Commands, JobOf
<1>3. \A w \in held : w \in Running
  BY DEF DeliveriesHaveWorkers
<1>4. faults' \in 0 .. MaxFaults
  <2>1. UNCHANGED faults \/ Fault
    BY DEF Next, HandlerNext, WorkerNext, ParseNext, RailsPublishes, Post, Authorize,
       AuthorizeFails, CreatePending, CreateFails, PublishCommand, PublishIsLost, PublishFails,
       Answer, ClientLeaves, Deliver, Begin, BeginFails, SaveFinal, SaveFails, PublishResult,
       PublishResultFails, Ack, Lookup, LookupFails, Fetch, SkipsFailed, Hydrate, HydrateFails,
       Park, Expire, Disconnect, Crash, RedisAnswers, RedisFails, vars
  <2> QED
    BY <2>1, BoundsAssumption DEF Fault, CountsTyped
<1>5. sent' \subseteq Commands
  <2>1. sent' \subseteq sent \union {<<j, "rails">> : j \in Jobs} \union {<<j, "go">> : j \in Jobs}
    BY DEF Next, HandlerNext, WorkerNext, ParseNext, RailsPublishes, Post, Authorize,
       AuthorizeFails, CreatePending, CreateFails, PublishCommand, PublishIsLost, PublishFails,
       Answer, ClientLeaves, Deliver, Begin, BeginFails, SaveFinal, SaveFails, PublishResult,
       PublishResultFails, Ack, Lookup, LookupFails, Fetch, SkipsFailed, Hydrate, HydrateFails,
       Park, Expire, Disconnect, Crash, ParseStep, busVars, vars
  <2> QED
    BY <1>1, <2>1 DEF CountsTyped
<1>6. gone' \subseteq Jobs
  BY DEF Next, HandlerNext, WorkerNext, ParseNext, RailsPublishes, Post, Authorize,
     AuthorizeFails, CreatePending, CreateFails, PublishCommand, PublishIsLost, PublishFails,
     Answer, ClientLeaves, Deliver, Begin, BeginFails, SaveFinal, SaveFails, PublishResult,
     PublishResultFails, Ack, Lookup, LookupFails, Fetch, SkipsFailed, Hydrate, HydrateFails,
     Park, Expire, Disconnect, Crash, ParseStep, HandlerStep, vars, CountsTyped
<1>7. again' \subseteq Jobs /\ dropped' \subseteq Jobs
  <2> USE DEF CountsTyped
  <2>1. ASSUME NEW j \in Jobs, Post(j) \/ HandlerGoesOn(j) \/ Answer(j) PROVE <1>7
    <3>1. again' \subseteq again \union {j} /\ dropped' \subseteq dropped \union {j}
      BY <2>1 DEF Post, HandlerGoesOn, Answer, Authorize, AuthorizeFails, CreatePending,
         CreateFails, PublishCommand, PublishIsLost, PublishFails, HandlerStep
    <3> QED
      BY <3>1
  <2>2. ASSUME NEW w \in Workers, Deliver(w) \/ WorkerGoesOn(w) \/ WorkerGivesUp(w) \/ Ack(w)
        PROVE  <1>7
    <3>1. CASE WorkerGivesUp(w)
      <4>1. w \in Running
        BY <3>1, GiveUpMoves
      <4>2. again' \subseteq again \union {JobOf(w)} /\ dropped' \subseteq dropped \union {JobOf(w)}
        BY <3>1 DEF WorkerGivesUp, BeginFails, SaveFails, PublishResultFails, Retry
      <4> QED
        BY <1>2, <4>1, <4>2
    <3>2. CASE ~WorkerGivesUp(w)
      BY <2>2, <3>2, DeliverMoves, WorkerMoves, AckMoves
    <3> QED
      BY <3>1, <3>2
  <2>3. ASSUME NEW a \in Actors, ParseNext(a) PROVE <1>7
    BY <2>3, ParseMoves
  <2>4. CASE NobodyMoves
    <3>1. ASSUME NEW c \in Commands PROVE c[1] \in Jobs
      BY DEF Commands
    <3> QED
      BY <1>2, <1>3, <2>4, <3>1 DEF NobodyMoves, RailsPublishes, ClientLeaves, Park, Expire,
         Disconnect, vars
  <2>5. CASE Crash
    BY <1>2, <1>3, <2>5 DEF Crash
  <2> QED
    BY <2>1, <2>2, <2>3, <2>4, <2>5, NextSplits
<1> QED
  BY <1>4, <1>5, <1>6, <1>7 DEF CountsTyped

----------------------------------------------------------------------------
(* Theorems about items *)

\* What ItemsInv says of types is said by its other parts, and by these.
LEMMA TypesFollow ==
    ASSUME WorkIsWellFormed, DeliveriesHaveWorkers, AllInOrder, OneCopy, RetriesTyped,
           CountsTyped, StoreTyped, CacheTyped, results \subseteq Jobs \X Results
    PROVE  TypeOK
<1>1. ASSUME NEW a \in Actors, task[a] # Nothing
      PROVE  /\ task[a].cmd \in Commands
             /\ ToSet(task[a].todo) \union ToSet(task[a].missed) \subseteq Urls
             /\ task[a].found \union task[a].fresh \subseteq Items
             /\ task[a].errors \subseteq Urls
  <2> DEFINE t == task[a]
             urls == ToSet(UrlsOf[t.cmd[1]])
  <2>1. IsWork(t)
    BY <1>1 DEF AllInOrder, InOrder
  <2>2. t.cmd \in Commands /\ urls \subseteq Urls
    BY <2>1, JobUrls DEF IsWork, IsTask, Commands
  <2>3. ItemsOfAll(urls) \subseteq Items
    BY <2>2 DEF ItemsOfAll, Items
  <2> HIDE DEF t
  <2>4. /\ t.todo \in Seq(urls) /\ t.missed \in Seq(urls) /\ t.errors \subseteq urls
        /\ t.found \union t.fresh \subseteq ItemsOfAll(urls)
    BY <2>1 DEF IsWork
  <2> HIDE DEF urls
  <2>5. ToSet(t.todo) \subseteq urls /\ ToSet(t.missed) \subseteq urls
    BY <2>4, ElementsAreIn
  <2> QED
    BY <2>2, <2>3, <2>4, <2>5 DEF t
<1>2. held \subseteq Workers /\ pc \in [Actors -> WorkerSteps \union HandlerSteps]
  BY DEF WorkIsWellFormed, DeliveriesHaveWorkers
<1> QED
  BY <1>1, <1>2 DEF TypeOK, OneCopy, RetriesTyped, CountsTyped, StoreTyped, CacheTyped

\* The two inductive invariants together.
LEMMA ItemsInvSplits ==
    ItemsInv /\ WorkIsWellFormed =>
        /\ AllInOrder /\ OneCopy /\ RetriesTyped /\ CountsTyped /\ StoreTyped /\ CacheTyped
        /\ results \subseteq Jobs \X Results /\ CacheHoldsOwnItems /\ ResultsAccountForUrls
<1> SUFFICES ASSUME ItemsInv, WorkIsWellFormed PROVE AllInOrder /\ RetriesTyped /\ CountsTyped
  BY DEF ItemsInv, TypeOK, StoreTyped, CacheTyped
<1>1. AllInOrder
  BY DEF ItemsInv, TasksAreWork, AllInOrder, InOrder
<1> QED
  BY <1>1 DEF ItemsInv, TypeOK, RetriesTyped, CountsTyped

LEMMA InitItems == Init => ItemsInv
<1> SUFFICES ASSUME Init PROVE ItemsInv
  OBVIOUS
<1>1. Running = {}
  BY DEF Init, Running
<1>2. WorkIsWellFormed /\ DeliveriesHaveWorkers
  BY InitInductive DEF InductiveInv
<1>3. AllInOrder
  BY <1>1 DEF Init, AllInOrder, InOrder
<1>4. OneCopy
  BY DEF Init, OneCopy
<1>5. RetriesTyped /\ CountsTyped /\ StoreTyped /\ CacheTyped
  <2>1. RetriesTyped
    BY BoundsAssumption DEF Init, RetriesTyped
  <2>2. CountsTyped
    BY BoundsAssumption DEF Init, CountsTyped
  <2>3. StoreTyped
    BY DEF Init, StoreTyped
  <2>4. CacheTyped
    <3> DEFINE S == (SUBSET Items) \union {Nothing}
    <3>1. cache = [u \in Urls |-> Nothing]
      BY DEF Init
    <3>2. Nothing \in S
      OBVIOUS
    <3> HIDE DEF S
    <3>3. cache \in [Urls -> S]
      BY <3>1, <3>2
    <3> QED
      BY <3>3 DEF CacheTyped, S
  <2> QED
    BY <2>1, <2>2, <2>3, <2>4
<1>6. results = {} /\ CacheHoldsOwnItems
  BY DEF Init, CacheHoldsOwnItems
<1>7. ResultsAccountForUrls
  BY <1>6 DEF ResultsAccountForUrls
<1>8. TypeOK
  BY <1>2, <1>3, <1>4, <1>5, <1>6, TypesFollow
<1> QED
  BY <1>1, <1>3, <1>4, <1>6, <1>7, <1>8 DEF ItemsInv, TasksAreWork, AllInOrder, InOrder

LEMMA ItemsStep == InductiveInv /\ ItemsInv /\ [Next]_vars => ItemsInv'
<1> SUFFICES ASSUME InductiveInv, ItemsInv, [Next]_vars PROVE ItemsInv'
  OBVIOUS
<1>1. WorkIsWellFormed /\ DeliveriesHaveWorkers
  BY DEF InductiveInv
<1>2. WorkIsWellFormed' /\ DeliveriesHaveWorkers'
  BY <1>1, WorkStep, DeliveriesStep
<1>3. /\ AllInOrder /\ OneCopy /\ RetriesTyped /\ CountsTyped /\ StoreTyped /\ CacheTyped
      /\ results \subseteq Jobs \X Results /\ CacheHoldsOwnItems /\ ResultsAccountForUrls
  BY <1>1, ItemsInvSplits
<1>4. /\ AllInOrder' /\ OneCopy' /\ RetriesTyped' /\ CountsTyped' /\ StoreTyped' /\ CacheTyped'
      /\ results' \subseteq Jobs \X Results /\ CacheHoldsOwnItems' /\ ResultsAccountForUrls'
  BY <1>1, <1>3, AllInOrderStep, OneCopyStep, CountsStep, StoreStep, CacheStep, ResultsStep
<1>5. TypeOK'
  <2>1. (results \subseteq Jobs \X Results)'
    BY <1>4, CacheIsAValue DEF Results
  <2> QED
    BY <1>2, <1>4, <2>1, TypesFollow, PTL
<1>6. TasksAreWork' /\ (\A a \in Running : LeftToDo(pc[a], task[a]) /\ Served(pc[a], task[a]))'
  <2>1. \A a \in Running' : a \in Actors
    BY DEF Running
  <2> QED
    BY <1>4, <2>1 DEF AllInOrder, InOrder, TasksAreWork
<1> QED
  BY <1>4, <1>5, <1>6 DEF ItemsInv

\* Work is in order, the cache is true and the results are complete in every state.
THEOREM ItemsInvariant == Spec => []ItemsInv
BY InductiveInvariant, InitItems, ItemsStep, PTL DEF Spec

\* Every variable keeps its type.
THEOREM TypeCorrect == Spec => []TypeOK
<1>1. ItemsInv => TypeOK
  BY DEF ItemsInv
<1> QED
  BY <1>1, ItemsInvariant, PTL

\* A cached URL has its own items, and all of them save those whose link is there or is
\* another URL's, whichever fetches failed and whoever wrote the cache at the same time
\* (processor.go:93, 122-140).
THEOREM CacheIsTrue == Spec => []CacheHoldsOwnItems
<1>1. ItemsInv => CacheHoldsOwnItems
  BY DEF ItemsInv
<1> QED
  BY <1>1, ItemsInvariant, PTL

\* A result accounts for each URL of its job, by an error or by its links, however the
\* cache, the network and Redis served it (processor.go:58-120, parse.go:78-140).
THEOREM ResultsAreComplete == Spec => []ResultsAccountForUrls
<1>1. ItemsInv => ResultsAccountForUrls
  BY DEF ItemsInv
<1> QED
  BY <1>1, ItemsInvariant, PTL

----------------------------------------------------------------------------
(* What becomes of a command *)

\* A step in which a command can only come, and results, keeps the outcomes.
LEMMA OutcomesStay ==
    ASSUME CommandsHaveOutcome, UNCHANGED <<held, retries>>, results \subseteq results',
           sent' \ ready' \subseteq sent \ ready,
           \A w \in held : task'[w].cmd = task[w].cmd
    PROVE  CommandsHaveOutcome'
BY DEF CommandsHaveOutcome

\* An actor other than a worker at its ack changes no ack.
LEMMA AcksStay ==
    ASSUME AckedIsAnswered, results \subseteq results', NEW a \in Actors, OthersStay(a),
           a \in Workers => pc'[a] # "ack"
    PROVE  AckedIsAnswered'
<1> SUFFICES ASSUME NEW w \in Workers, pc'[w] = "ack"
             PROVE  \E p \in results' : p[1] = JobOf(w)'
  BY DEF AckedIsAnswered
<1>1. w # a /\ w \in Actors
  BY DEF Actors
<1>2. pc[w] = "ack" /\ JobOf(w)' = JobOf(w)
  BY <1>1 DEF OthersStay, JobOf
<1> QED
  BY <1>2 DEF AckedIsAnswered

\* Every step keeps the acks justified and the commands accounted for.
LEMMA CommandsStep ==
    ASSUME WorkIsWellFormed, DeliveriesHaveWorkers, OneCopy, RetriesTyped, CommandsInv,
           [Next]_vars
    PROVE  CommandsInv'
<1>0. /\ AckedIsAnswered /\ CommandsHaveOutcome
      /\ pc \in [Actors -> WorkerSteps \union HandlerSteps] /\ held \subseteq Workers
      /\ \A w \in held : w \in Running /\ task[w].cmd \in Commands
  BY DEF CommandsInv, WorkIsWellFormed, DeliveriesHaveWorkers, IsTask
<1> USE DEF CommandsInv
<1>1. ASSUME NEW j \in Jobs, Post(j) \/ HandlerGoesOn(j) \/ Answer(j) PROVE CommandsInv'
  <2>1. /\ j \in Actors /\ j \notin Workers /\ OthersStay(j)
        /\ held' = held /\ results \subseteq results'
    BY <1>1, PostMoves, HandlerMoves, AnswerMoves
  <2>2. retries' = retries /\ sent' \ ready' \subseteq sent \ ready
    BY <1>1 DEF Post, HandlerGoesOn, Answer, Authorize, AuthorizeFails, CreatePending,
       CreateFails, PublishCommand, PublishIsLost, PublishFails, HandlerStep, busVars
  <2>3. \A w \in held : task'[w].cmd = task[w].cmd
    BY <1>0, <2>1 DEF OthersStay, Actors
  <2> QED
    BY <1>0, <2>1, <2>2, <2>3, OutcomesStay, AcksStay
<1>2. ASSUME NEW w \in Workers, Deliver(w) PROVE CommandsInv'
  <2>1. /\ w \in Actors /\ w \notin Running /\ OthersStay(w) /\ pc'[w] = "begin"
        /\ held' = held \union {w} /\ UNCHANGED <<sent, results, retries>>
    BY <1>2, DeliverMoves DEF Deliver
  <2>2. PICK c \in ready : ready' = ready \ {c} /\ task'[w].cmd = c
    BY <1>2, DeliverMoves
  <2>3. \A v \in held : task'[v] = task[v]
    BY <1>0, <2>1 DEF OthersStay, Actors
  <2>4. CommandsHaveOutcome'
    BY <1>0, <2>1, <2>2, <2>3 DEF CommandsHaveOutcome
  <2> QED
    BY <1>0, <2>1, <2>4, AcksStay
<1>3. ASSUME NEW w \in Workers, WorkerGoesOn(w) PROVE CommandsInv'
  <2>1. w \in Actors /\ OthersStay(w) /\ UNCHANGED <<task, ready, held, sent, retries>>
    BY <1>3, WorkerMoves DEF WorkerGoesOn, Begin, SaveFinal, PublishResult, busVars
  <2>2. results \subseteq results'
    BY <1>3 DEF WorkerGoesOn, Begin, SaveFinal, PublishResult
  <2>3. CommandsHaveOutcome'
    BY <1>0, <2>1, <2>2, OutcomesStay
  <2>4. CASE PublishResult(w)
    <3>1. <<JobOf(w), Result(w)>> \in results'
      BY <2>4 DEF PublishResult
    <3>2. \A v \in Workers : JobOf(v)' = JobOf(v) /\ (v # w => pc'[v] = pc[v])
      BY <2>1 DEF OthersStay, Actors, JobOf
    <3> QED
      BY <1>0, <2>2, <2>3, <3>1, <3>2 DEF AckedIsAnswered
  <2>5. CASE ~PublishResult(w)
    <3>1. pc'[w] # "ack"
      BY <1>0, <1>3, <2>1, <2>5 DEF WorkerGoesOn, Begin, SaveFinal, Goto
    <3> QED
      BY <1>0, <2>1, <2>2, <2>3, <3>1, AcksStay
  <2> QED
    BY <2>4, <2>5
<1>4. ASSUME NEW w \in Workers, WorkerGivesUp(w) PROVE CommandsInv'
  <2>1. /\ w \in Actors /\ OthersStay(w) /\ Retry(w) /\ pc'[w] = "idle"
        /\ UNCHANGED <<sent, results>>
    BY <1>4, GiveUpMoves
  <2>2. held' = held \ {w} /\ \A v \in held' : task'[v] = task[v]
    BY <1>0, <2>1 DEF Retry, Leave, OthersStay, Actors
  <2>3. CASE w \in held
    <3> DEFINE c == task[w].cmd
    <3>1. ready' = ready \union {c} /\ retries' = [retries EXCEPT ![c] = @ + 1]
      BY <2>1, <2>3 DEF Retry
    <3> HIDE DEF c
    <3>2. ASSUME NEW d \in sent' \ ready'
          PROVE  \/ \E v \in held' : task'[v].cmd = d
                 \/ retries'[d] = MaxRetries
                 \/ \E p \in results' : p[1] = d[1]
      <4>1. d \in sent \ ready /\ d # c
        BY <2>1, <3>1
      <4>2. CASE \E v \in held : task[v].cmd = d
        BY <2>2, <4>1, <4>2 DEF c
      <4>3. CASE retries[d] = MaxRetries
        <5>1. retries'[d] = retries[d]
          BY <3>1, <4>1 DEF RetriesTyped
        <5> QED
          BY <4>3, <5>1
      <4> QED
        BY <1>0, <2>1, <4>1, <4>2, <4>3 DEF CommandsHaveOutcome
    <3>3. CommandsHaveOutcome'
      BY <3>2 DEF CommandsHaveOutcome
    <3> QED
      BY <1>0, <2>1, <3>3, AcksStay
  <2>4. CASE w \notin held
    <3>1. UNCHANGED <<ready, retries>> /\ held' = held
      BY <2>1, <2>2, <2>4 DEF Retry
    <3>2. CommandsHaveOutcome'
      BY <1>0, <2>1, <2>2, <3>1, OutcomesStay
    <3> QED
      BY <1>0, <2>1, <3>2, AcksStay
  <2> QED
    BY <2>3, <2>4
<1>5. ASSUME NEW w \in Workers, Ack(w) PROVE CommandsInv'
  <2>1. /\ w \in Actors /\ OthersStay(w) /\ pc[w] = "ack" /\ pc'[w] = "idle"
        /\ held' = held \ {w} /\ UNCHANGED <<sent, ready, results, retries>>
    BY <1>5, AckMoves DEF Ack
  <2>2. \A v \in held' : task'[v] = task[v]
    BY <1>0, <2>1 DEF OthersStay, Actors
  <2>3. PICK p \in results : p[1] = task[w].cmd[1]
    BY <1>0, <2>1 DEF AckedIsAnswered, JobOf
  <2>4. CommandsHaveOutcome'
    BY <1>0, <2>1, <2>2, <2>3 DEF CommandsHaveOutcome
  <2> QED
    BY <1>0, <2>1, <2>4, AcksStay
<1>6. ASSUME NEW a \in Actors, ParseNext(a) PROVE CommandsInv'
  <2>1. /\ OthersStay(a) /\ UNCHANGED <<sent, ready, retries, held, results>>
        /\ task'[a].cmd = task[a].cmd
    BY <1>6, ParseMoves
  <2>2. PICK step \in ParseSteps : Goto(a, step)
    BY <1>6, ParseMoves
  <2>3. pc'[a] # "ack"
    BY <1>0, <2>2 DEF Goto, ParseSteps
  <2>4. \A v \in held : task'[v].cmd = task[v].cmd
    BY <1>0, <2>1 DEF OthersStay, Actors
  <2>5. CommandsHaveOutcome'
    BY <1>0, <2>1, <2>4, OutcomesStay
  <2> QED
    BY <1>0, <2>1, <2>3, <2>5, AcksStay
<1>7. ASSUME GivenBack, UNCHANGED <<sent, retries, results>> PROVE CommandsHaveOutcome'
  BY <1>0, <1>7 DEF GivenBack, CommandsHaveOutcome
<1>8. CASE NobodyMoves
  <2>1. UNCHANGED <<pc, task, results>>
    BY <1>8, RestMoves
  <2>2. AckedIsAnswered'
    BY <1>0, <2>1 DEF AckedIsAnswered, JobOf
  <2>3. CASE Disconnect
    BY <1>7, <2>1, <2>2, <2>3 DEF Disconnect, GivenBack
  <2>4. ASSUME NEW c \in Commands, Park(c) PROVE CommandsInv'
    <3>1. /\ retries[c] = MaxRetries /\ ready' = ready \ {c}
          /\ UNCHANGED <<held, sent, retries>>
      BY <2>4 DEF Park
    <3>2. CommandsHaveOutcome'
      BY <1>0, <2>1, <3>1 DEF CommandsHaveOutcome
    <3> QED
      BY <2>2, <3>2
  <2>5. CASE ~Disconnect /\ ~\E c \in Commands : Park(c)
    <3>1. UNCHANGED <<held, retries>> /\ sent' \ ready' \subseteq sent \ ready
      BY <1>8, <2>5 DEF NobodyMoves, RailsPublishes, ClientLeaves, Expire, vars, busVars
    <3> QED
      BY <1>0, <2>1, <2>2, <3>1, OutcomesStay
  <2> QED
    BY <2>3, <2>4, <2>5
<1>9. CASE Crash
  <2>1. GivenBack /\ UNCHANGED <<sent, retries, results>>
    BY <1>9, CrashMoves DEF Crash
  <2>2. \A w \in Workers : pc'[w] = "idle"
    BY <1>9 DEF Crash, Actors
  <2> QED
    BY <1>7, <2>1, <2>2 DEF AckedIsAnswered
<1> QED
  BY <1>1, <1>2, <1>3, <1>4, <1>5, <1>6, <1>8, <1>9, NextSplits

\* For any jobs, workers, retries and failures: a command that the queue and the workers
\* have no more had its last attempt, or its job has a result (consumer.go:90-129,
\* processor.go:161-175).
THEOREM CommandsAreKept == Spec => []CommandsHaveOutcome
<1>1. Init => CommandsInv
  BY DEF Init, CommandsInv, AckedIsAnswered, CommandsHaveOutcome, Actors
<1>2. InductiveInv /\ ItemsInv /\ CommandsInv /\ [Next]_vars => CommandsInv'
  <2>1. ItemsInv => OneCopy /\ RetriesTyped
    BY DEF ItemsInv, TypeOK, RetriesTyped
  <2> QED
    BY <2>1, CommandsStep DEF InductiveInv
<1>3. CommandsInv => CommandsHaveOutcome
  BY DEF CommandsInv
<1> QED
  BY <1>1, <1>2, <1>3, InductiveInvariant, ItemsInvariant, PTL DEF Spec
=============================================================================
