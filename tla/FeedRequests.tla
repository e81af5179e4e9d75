--------------------------- MODULE FeedRequests ----------------------------
(***************************************************************************)
(* The life of a feed request in Rails: the controller that creates it, the *)
(* PublishFeedJob that sends its command or falls back to POST /parse, and  *)
(* the Sneakers threads that run ProcessFeedResultJob on the results.  They *)
(* share the database and nothing else; every SQL statement is a step.      *)
(*                                                                          *)
(* The command bus and rssservice behind it are AtLeastOnce, the promise    *)
(* that CommandBus is shown to keep.  The broker's result queue, ActionCable *)
(* and Postgres are external.                                               *)
(***************************************************************************)
EXTENDS Integers, FiniteSets

CONSTANTS
    Requests,    \* rows of feed_requests; a request also names its PublishFeedJob
    Threads,     \* Sneakers threads, each in a process of its own
    Feeds,       \* feed URLs
    UrlsOf,      \* the URLs of each request
    NoTask,      \* the task of an actor that has no result in hand
    MaxFaults    \* bound: failures of any kind in a behaviour

ASSUME ActorsAssumption == Requests \intersect Threads = {}
ASSUME UrlsAssumption == UrlsOf \in [Requests -> (SUBSET Feeds) \ {{}}]
ASSUME FaultsAssumption == MaxFaults \in Nat

Actors == Requests \union Threads

\* The command a request sends: over the bus itself, or through POST /parse,
\* which publishes it as well when it can.
Senders == {"rails", "go"}
Commands == Requests \X Senders

VARIABLES
    status,      \* feed_requests.status, "absent" before the row exists
    feeds,       \* rows of feeds, by URL
    joined,      \* rows of feed_requests_feeds
    saved,       \* <<r, f>>: the items of r's parse of f are in feed_items
    pc,          \* next step of each job and thread
    task,        \* the result each of them is working on
    queue,       \* result messages ready in rss_results_rails
    held,        \* threads whose message is unsettled on an open channel
    accepted, answered, parked, settled,    \* the bus: see AtLeastOnce
    faults,      \* failures so far
    \* history
    claims,      \* how often a thread won the update of line 25 for a request
    owed,        \* <<r, f>>: r's status was set from a result with items of f
    told,        \* <<r, outcome>> broadcast to the user
    reopened,    \* requests that went from done or failed back to processing
    lost,        \* requests of which a command or a result was lost or parked
    interrupted  \* requests an actor of which stopped half way

dbVars == <<status, feeds, joined, saved>>
actorVars == <<pc, task>>
queueVars == <<queue, held>>
busVars == <<accepted, answered, parked, settled>>
history == <<claims, owed, told, reopened, lost, interrupted>>
vars == <<dbVars, actorVars, queueVars, busVars, faults, history>>

Bus == INSTANCE AtLeastOnce WITH Malformed <- {}

Final == {"done", "failed"}

\* What a parse of r's URLs can come to.  Items only come with "done"; a URL
\* without items failed, or had none.
Outcomes(r) == {[status |-> "failed", feeds |-> {}]}
               \union {[status |-> "done", feeds |-> F] : F \in SUBSET UrlsOf[r]}

\* copy tells the messages of one command apart.
Messages == UNION {[cmd : {r} \X Senders, copy : 0 .. MaxFaults, outcome : Outcomes(r)]
                   : r \in Requests}

\* A result in hand: what of it is left to save, and the feed being saved.
Tasks == [msg : Messages, left : SUBSET Feeds, feed : Feeds \union {NoTask}]

SaveSteps == {"find", "validate", "create", "include", "link", "insert", "broadcast"}
JobSteps == {"none", "created", "queued", "mark", "fallback", "respond", "fail", "ended"}
ThreadSteps == {"idle", "claim"}

Req(a) == task[a].msg.cmd[1]
Outcome(a) == task[a].msg.outcome

Goto(a, step) == pc' = [pc EXCEPT ![a] = step]

Fault == faults < MaxFaults /\ faults' = faults + 1

----------------------------------------------------------------------------
(* FeedsController#create *)

Submit(r) ==
    /\ status[r] = "absent"
    /\ status' = [status EXCEPT ![r] = "pending"]
    /\ Goto(r, "created")
    /\ UNCHANGED <<feeds, joined, saved, task, queueVars, busVars, faults, history>>

Enqueue(r) ==
    /\ pc[r] = "created"
    /\ Goto(r, "queued")
    /\ UNCHANGED <<dbVars, task, queueVars, busVars, faults, history>>

----------------------------------------------------------------------------
(* PublishFeedJob *)

JobStep(r, from, to) ==
    /\ pc[r] = from
    /\ Goto(r, to)
    /\ UNCHANGED <<feeds, joined, saved, queueVars, answered, parked, settled>>

Publish(r) ==
    /\ JobStep(r, "queued", "mark")
    /\ Bus!Accept(<<r, "rails">>)
    /\ UNCHANGED <<status, task, faults, history>>

\* No confirm and no mandatory flag: see CommandBus!RailsPublishes.
PublishIsLost(r) ==
    /\ JobStep(r, "queued", "mark")
    /\ Fault
    /\ lost' = lost \union {r}
    /\ UNCHANGED <<status, task, accepted, claims, owed, told, reopened, interrupted>>

PublishFails(r) ==
    /\ JobStep(r, "queued", "fallback")
    /\ Fault
    /\ UNCHANGED <<status, task, accepted, history>>

\* Mutant: a status that the model does not have.
MarkPublished(r) ==
    /\ JobStep(r, "mark", "ended")
    /\ status' = [status EXCEPT ![r] = "published"]
    /\ UNCHANGED <<task, accepted, faults, history>>

\* update!(status: "processing") writes over whatever the row says by now: the
\* job's copy of the record still says "pending".
Mark(r) ==
    /\ JobStep(r, "mark", "ended")
    /\ status' = [status EXCEPT ![r] = "processing"]
    /\ reopened' = IF status[r] \in Final THEN reopened \union {r} ELSE reopened
    /\ UNCHANGED <<task, accepted, faults, claims, owed, told, lost, interrupted>>

\* The rescue of line 13 covers the update as well as the publish.
MarkFails(r) ==
    /\ JobStep(r, "mark", "fallback")
    /\ Fault
    /\ UNCHANGED <<status, task, accepted, history>>

\* Mutant: the job takes the 202 for a success but leaves the status alone.
PostEndsJob(r) ==
    /\ JobStep(r, "fallback", "ended")
    /\ UNCHANGED <<status, task, accepted, faults, history>>

\* POST /parse: rssservice publishes the command when it can and answers 202,
\* which line 38 takes for a failure.
PostIsAccepted(r) ==
    /\ JobStep(r, "fallback", "fail")
    /\ Bus!Accept(<<r, "go">>)
    /\ UNCHANGED <<status, task, faults, history>>

\* rssservice has no channel: it parses at once and answers 200.
PostIsParsed(r) ==
    /\ JobStep(r, "fallback", "respond")
    /\ \E o \in Outcomes(r) :
          task' = [task EXCEPT ![r] =
              [msg |-> [cmd |-> <<r, "go">>, copy |-> 0, outcome |-> o],
               left |-> o.feeds, feed |-> NoTask]]
    /\ UNCHANGED <<status, accepted, faults, history>>

\* No connection, 10 s without an answer, or another status code.
PostFails(r) ==
    /\ JobStep(r, "fallback", "fail")
    /\ Fault
    /\ UNCHANGED <<status, task, accepted, history>>

\* Mutant: the broadcast goes out before the items are saved.
TellFirst(left) == "broadcast"

\* The step after the status is set, and after each group of items.
SaveNext(left) == IF left = {} THEN "broadcast" ELSE "find"

Owe(r, o) == owed' = owed \union ({r} \X o.feeds)

Respond(r) ==
    /\ JobStep(r, "respond", SaveNext(Outcome(r).feeds))
    /\ status' = [status EXCEPT ![r] = Outcome(r).status]
    /\ Owe(r, Outcome(r))
    /\ UNCHANGED <<task, accepted, faults, claims, told, reopened, lost, interrupted>>

\* The rescue of line 82: status, then broadcast.
Fail(r) ==
    /\ JobStep(r, "fail", "ended")
    /\ status' = [status EXCEPT ![r] = "failed"]
    /\ told' = told \union {<<r, [status |-> "failed", feeds |-> {}]>>}
    /\ UNCHANGED <<task, accepted, faults, claims, owed, reopened, lost, interrupted>>

\* The process is killed, or the update of line 84 raises.  Nobody runs the job
\* again; before perform_later there is none.
JobDies(r) ==
    /\ pc[r] \notin {"none", "ended"}
    /\ Fault
    /\ Goto(r, "ended")
    /\ task' = [task EXCEPT ![r] = NoTask]
    /\ interrupted' = interrupted \union {r}
    /\ UNCHANGED <<dbVars, queueVars, busVars, claims, owed, told, reopened, lost>>

----------------------------------------------------------------------------
(* ProcessFeedResultJob: up to the update of the status *)

\* find_by and the guard of line 22, on the row as it is now.
Receive(t) ==
    /\ pc[t] = "idle"
    /\ \E m \in queue :
          /\ queue' = queue \ {m}
          /\ IF status[m.cmd[1]] \in Final
             THEN UNCHANGED <<pc, task, held>>
             ELSE /\ Goto(t, "claim")
                  /\ task' = [task EXCEPT ![t] =
                         [msg |-> m, left |-> m.outcome.feeds, feed |-> NoTask]]
                  /\ held' = held \union {t}
    /\ UNCHANGED <<dbVars, busVars, faults, history>>

\* The thread acks or rejects its message and waits for the next.
Release(t) ==
    /\ Goto(t, "idle")
    /\ task' = [task EXCEPT ![t] = NoTask]
    /\ held' = held \ {t}

\* Mutant: the update has no WHERE on the status.
AnyStatus == Final \union {"pending", "processing"}

\* Mutant: the update does not expect a result before the job's own update.
OnlyProcessing == {"processing"}

Claimable == {"pending", "processing"}

\* update_all writes only where the status still says that nobody was faster.
Claim(t) ==
    /\ pc[t] = "claim"
    /\ status[Req(t)] \in Claimable
    /\ status' = [status EXCEPT ![Req(t)] = Outcome(t).status]
    /\ claims' = [claims EXCEPT ![Req(t)] = @ + 1]
    /\ Owe(Req(t), Outcome(t))
    /\ Goto(t, SaveNext(Outcome(t).feeds))
    /\ UNCHANGED <<feeds, joined, saved, task, queueVars, busVars, faults,
                   told, reopened, lost, interrupted>>

ClaimIsLost(t) ==
    /\ pc[t] = "claim"
    /\ status[Req(t)] \notin Claimable
    /\ Release(t)
    /\ UNCHANGED <<dbVars, queue, busVars, faults, history>>

----------------------------------------------------------------------------
(* Saving the items of a result: the same statements in execute_fallback and  *)
(* in ProcessFeedResultJob#work.  a is a job or a thread.                      *)

\* What the rescue does.  A job goes on to line 84.  A thread rejects its
\* message, which Sneakers does without requeueing, and the queue has no
\* dead-letter exchange; on a channel that is gone the reject reaches nobody.
Raise(a) ==
    /\ interrupted' = IF pc[a] \in SaveSteps THEN interrupted \union {Req(a)}
                                             ELSE interrupted
    /\ IF a \in Requests
       THEN /\ Goto(a, "fail")
            /\ task' = [task EXCEPT ![a] = NoTask]
            /\ UNCHANGED <<held, lost>>
       ELSE /\ Release(a)
            /\ lost' = IF a \in held THEN lost \union {Req(a)} ELSE lost

SaveStep(a, step) ==
    /\ pc[a] = step
    /\ UNCHANGED <<status, queue, busVars, faults, claims, owed, reopened>>

Continue(a, step) ==
    /\ Goto(a, step)
    /\ UNCHANGED <<held, lost, interrupted>>

\* find_or_create_by!: look, and when there is no row create! one.
Find(a) ==
    /\ SaveStep(a, "find")
    /\ \E f \in task[a].left :
          /\ task' = [task EXCEPT ![a].feed = f]
          /\ Continue(a, IF f \in feeds THEN "include" ELSE "validate")
    /\ UNCHANGED <<feeds, joined, saved, told>>

\* The uniqueness validation of Feed looks again, and raises RecordInvalid when
\* somebody else created the row in between.
Validate(a) ==
    /\ SaveStep(a, "validate")
    /\ IF task[a].feed \in feeds THEN Raise(a)
                                 ELSE Continue(a, "create") /\ UNCHANGED task
    /\ UNCHANGED <<feeds, joined, saved, told>>

\* The INSERT; a violation of the unique index is rescued with a find.
Create(a) ==
    /\ SaveStep(a, "create")
    /\ feeds' = feeds \union {task[a].feed}
    /\ Continue(a, "include")
    /\ UNCHANGED <<joined, saved, task, told>>

\* request.feeds << feed unless request.feeds.include?(feed)
Include(a) ==
    /\ SaveStep(a, "include")
    /\ Continue(a, IF <<Req(a), task[a].feed>> \in joined THEN "insert" ELSE "link")
    /\ UNCHANGED <<feeds, joined, saved, task, told>>

Link(a) ==
    /\ SaveStep(a, "link")
    /\ LET row == <<Req(a), task[a].feed>> IN
       IF row \in joined
       THEN Raise(a) /\ UNCHANGED joined
       ELSE /\ joined' = joined \union {row}
            /\ Continue(a, "insert")
            /\ UNCHANGED task
    /\ UNCHANGED <<feeds, saved, told>>

\* insert_all skips the rows that are there already.
Insert(a) ==
    /\ SaveStep(a, "insert")
    /\ LET left == task[a].left \ {task[a].feed} IN
       /\ saved' = saved \union {<<Req(a), task[a].feed>>}
       /\ task' = [task EXCEPT ![a].left = left, ![a].feed = NoTask]
       /\ Continue(a, SaveNext(left))
    /\ UNCHANGED <<feeds, joined, told>>

\* The broadcast, and for a thread the ack.
Broadcast(a) ==
    /\ SaveStep(a, "broadcast")
    /\ told' = told \union {<<Req(a), Outcome(a)>>}
    /\ task' = [task EXCEPT ![a] = NoTask]
    /\ Goto(a, IF a \in Requests THEN "ended" ELSE "idle")
    /\ held' = held \ {a}
    /\ UNCHANGED <<feeds, joined, saved, lost, interrupted>>

\* Any statement may raise: no database, no cable.
StatementFails(a) ==
    /\ pc[a] \in SaveSteps \union {"claim", "respond"}
    /\ Fault
    /\ Raise(a)
    /\ UNCHANGED <<dbVars, queue, busVars, claims, owed, told, reopened>>

Save(a) ==
    \/ Find(a)
    \/ Validate(a)
    \/ Create(a)
    \/ Include(a)
    \/ Link(a)
    \/ Insert(a)
    \/ Broadcast(a)

----------------------------------------------------------------------------
(* The result queue *)

\* The process of t dies; the broker gives an unsettled message back.
ThreadDies(t) ==
    /\ pc[t] # "idle"
    /\ Fault
    /\ queue' = IF t \in held THEN queue \union {task[t].msg} ELSE queue
    /\ interrupted' = IF pc[t] \in SaveSteps THEN interrupted \union {Req(t)}
                                             ELSE interrupted
    /\ Release(t)
    /\ UNCHANGED <<dbVars, busVars, claims, owed, told, reopened, lost>>

\* The connection of t breaks: the broker gives the message to another thread
\* while t works on.
Redeliver(t) ==
    /\ t \in held
    /\ Fault
    /\ queue' = queue \union {task[t].msg}
    /\ held' = held \ {t}
    /\ UNCHANGED <<dbVars, actorVars, busVars, history>>

----------------------------------------------------------------------------
(* The command bus and the worker behind it *)

BusStep == UNCHANGED <<dbVars, actorVars, held, claims, owed, told, reopened, interrupted>>

\* Processor.Process publishes a result.  It does so once more only when the
\* command was redelivered (CommandBus!DuplicatesNeedFaults).
Answer(c) ==
    /\ Bus!Answer(c)
    /\ IF c \in answered THEN Fault ELSE UNCHANGED faults
    /\ \E o \in Outcomes(c[1]) :
          queue' = queue \union {[cmd |-> c, outcome |-> o,
                                  copy |-> IF c \in answered THEN faults + 1 ELSE 0]}
    /\ UNCHANGED lost
    /\ BusStep

\* Three failures: the command ends in rss_commands_failed and Rails never hears
\* of it.
Park(c) ==
    /\ c \notin answered
    /\ Bus!Park(c)
    /\ Fault
    /\ lost' = lost \union {c[1]}
    /\ UNCHANGED queue
    /\ BusStep

Settle(c) ==
    /\ c \notin settled
    /\ Bus!Settle(c)
    /\ UNCHANGED <<queue, faults, lost>>
    /\ BusStep

----------------------------------------------------------------------------
Init ==
    /\ status = [r \in Requests |-> "absent"]
    /\ feeds = {}
    /\ joined = {}
    /\ saved = {}
    /\ pc = [a \in Actors |-> IF a \in Requests THEN "none" ELSE "idle"]
    /\ task = [a \in Actors |-> NoTask]
    /\ queue = {}
    /\ held = {}
    /\ Bus!Init
    /\ faults = 0
    /\ claims = [r \in Requests |-> 0]
    /\ owed = {}
    /\ told = {}
    /\ reopened = {}
    /\ lost = {}
    /\ interrupted = {}

\* What the job of r does unless something fails.
JobRuns(r) ==
    \/ Enqueue(r)
    \/ Publish(r)
    \/ Mark(r)
    \/ PostIsAccepted(r)
    \/ PostIsParsed(r)
    \/ Respond(r)
    \/ Fail(r)
    \/ Save(r)

JobFails(r) == PublishIsLost(r) \/ PublishFails(r) \/ MarkFails(r) \/ PostFails(r) \/ JobDies(r)

ThreadRuns(t) ==
    \/ Receive(t)
    \/ Claim(t)
    \/ ClaimIsLost(t)
    \/ Save(t)

ThreadFails(t) == ThreadDies(t) \/ Redeliver(t)

Next ==
    \/ \E r \in Requests : Submit(r) \/ JobRuns(r) \/ JobFails(r)
    \/ \E t \in Threads : ThreadRuns(t) \/ ThreadFails(t)
    \/ \E a \in Actors : StatementFails(a)
    \/ \E c \in Commands : Answer(c) \/ Park(c) \/ Settle(c)

Spec == Init /\ [][Next]_vars

\* Jobs and threads run while they have something to do, and the bus gives an
\* accepted command an outcome and settles it (CommandBus!CommandsSettle).  No
\* failure is ever obliged to happen, and nobody has to submit anything.
Fairness ==
    /\ \A r \in Requests : WF_vars(JobRuns(r))
    /\ \A t \in Threads : WF_vars(ThreadRuns(t))
    /\ \A c \in Commands : /\ WF_vars(c \notin answered \union parked /\ (Answer(c) \/ Park(c)))
                           /\ WF_vars(Settle(c))

FairSpec == Spec /\ Fairness

----------------------------------------------------------------------------
(* Properties *)

\* Every variable keeps its type.
TypeOK ==
    /\ status \in [Requests -> Final \union {"absent", "pending", "processing"}]
    /\ feeds \subseteq Feeds
    /\ joined \subseteq Requests \X Feeds
    /\ saved \subseteq Requests \X Feeds
    /\ pc \in [Actors -> SaveSteps \union JobSteps \union ThreadSteps]
    /\ task \in [Actors -> Tasks \union {NoTask}]
    /\ queue \subseteq Messages
    /\ held \subseteq Threads
    /\ accepted \subseteq Commands
    /\ answered \subseteq accepted
    /\ parked \subseteq accepted
    /\ settled \subseteq accepted
    /\ faults \in 0 .. MaxFaults
    /\ claims \in [Requests -> Nat]
    /\ owed \subseteq Requests \X Feeds
    /\ told \subseteq UNION {{r} \X Outcomes(r) : r \in Requests}
    /\ reopened \subseteq Requests
    /\ lost \subseteq Requests
    /\ interrupted \subseteq Requests

\* When the user hears that a request is done, the rows that a reload would show
\* are there: the feed, its link to the request and the items, whichever of two
\* savers wrote them (process_feed_result_job.rb:32-64, publish_feed_job.rb:46-78).
\* The page is modelled on top of this promise.
Service == INSTANCE FeedService
    WITH visible <- {row \in joined \intersect saved : row[2] \in feeds}

ImplementsFeedService == Service!Spec

\* Two results of one request, delivered twice or to two threads, are saved once:
\* a second claim needs the job to have reopened the request
\* (process_feed_result_job.rb:21-27).
OneClaimUnlessReopened ==
    \A r \in Requests : claims[r] <= (IF r \in reopened THEN 2 ELSE 1)

Saving(a, r, f) ==
    /\ pc[a] \in SaveSteps
    /\ Req(a) = r
    /\ f \in task[a].left

\* The status is committed before the items (process_feed_result_job.rb:25 and 55).
\* Items of a request that looks finished are missing only while somebody is
\* still saving them or after an error or a death cut that short; no other
\* interleaving of two savers loses them.
MissingItemsHaveReason ==
    \A row \in owed \ (joined \intersect saved) :
        (\E a \in Actors : Saving(a, row[1], row[2])) \/ row[1] \in interrupted

\* No process, message or command can move r any more.
Quiet(r) ==
    /\ pc[r] \in {"none", "ended"}
    /\ \A t \in Threads : pc[t] = "idle" \/ Req(t) # r
    /\ \A m \in queue : m.cmd[1] # r
    /\ \A c \in {r} \X Senders : c \in accepted => c \in settled

\* Why a request may wait forever.
Excused(r) == r \in reopened \union lost \union interrupted

\* A request that stays pending or processing for good was reopened, lost its
\* result to a reject, lost its job, or its command was lost or parked: there is
\* no other way to get stuck (publish_feed_job.rb:12, process_feed_result_job.rb:69).
StuckHasReason ==
    \A r \in Requests : Quiet(r) /\ status[r] \in Claimable => Excused(r)

\* Whatever happens, the threads never change the status of a finished request:
\* only its own job does (process_feed_result_job.rb:25-27).
ThreadsKeepFinalStatus ==
    [][\A r \in Requests :
          status[r] \in Final /\ status'[r] # status[r] => pc'[r] # pc[r]]_vars

\* Every job that Solid Queue runs leads to a final status that lasts, or to one
\* of the reasons above (publish_feed_job.rb:4-19).
RequestsFinish ==
    \A r \in Requests :
        pc[r] = "queued" ~> [](status[r] \in Final \/ Excused(r))

----------------------------------------------------------------------------
(* What the documents and comments say, and the code does not keep. *)

\* ARCHITECTURE.md:38: the thread "persists the finalized items into PostgreSQL,
\* updates the request status to `done` or `failed`, and broadcasts".  So the
\* items of a finished request are there once nobody works on it.
FinishedIsSaved ==
    \A row \in owed : Quiet(row[1]) => row \in saved

\* ARCHITECTURE.md:38 again, for a run in which nothing fails: every request that
\* is queued gets a final status and keeps it.
EveryRequestFinishes ==
    \A r \in Requests : pc[r] = "queued" ~> [](status[r] \in Final)
=============================================================================
