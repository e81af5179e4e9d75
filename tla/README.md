# A verification project for EMP_apps

EMP_apps reads RSS and Atom feeds for its users. A React page sends a list of feed
URLs to a Rails application; Rails hands the list over RabbitMQ to a Go service,
`rssservice`, which fetches and parses the feeds with the library `rss_reader` and
sends the items back over RabbitMQ; Rails stores them and pushes them to the page.
When Rails cannot reach RabbitMQ it calls the Go service over HTTP instead.

This directory holds TLA+ models of that system, the TLC runs that check them and the
TLAPS proofs about them. Every definition is a translation of code; `PROJECT.json`
names the lines each one stands for.

## 1. The system

| Component | State it keeps | Operations | Talks to |
| --- | --- | --- | --- |
| Dashboard: `App.jsx`, `FeedForm`, `FeedList`, `useFeedChannel.js` | rows of requests and items on the page, the fields of the form | submit, load, subscribe, handle a broadcast | Rails by REST and ActionCable |
| Sign-in: `MainApp`, `LoginForm`, `cable.js`, `SessionsController`, `Connection` | who the page says is signed in, the session cookie, the socket | start, sign in, submit, sign out | Rails; the dashboard's items |
| `FeedsController`, `PublishFeedJob` | `feed_requests` in Postgres, Solid Queue jobs | create a request, publish its command, fall back to `POST /parse` | RabbitMQ, rssservice, ActionCable |
| `ProcessFeedResultJob` (Sneakers) | `feed_requests`, `feeds`, `feed_requests_feeds`, `feed_items` | process a result, save its items, broadcast | RabbitMQ, Postgres, ActionCable |
| Topology: commands, retry, results and failed queues | durable queues, `x-death` headers | route, dead-letter, expire after 30 s | all others |
| `rabbitmq.Client` | connection, `closed`, `reconnectChan` | connect, notice a disconnect, recover, close | RabbitMQ |
| `rabbitmq.Consumer`, `Worker` | one goroutine per delivery | decode, count retries, handle, ack, nack, park; daily sweep | RabbitMQ, the processor |
| `Processor`, `RedisJobStore`, `URLCache` | `job:<id>` and `cache:url:<hash>` in Redis | process a command, read and fill the cache, save, publish the result | Redis, the reader, RabbitMQ |
| REST API: `POST /parse`, `GET /jobs/{id}`, token check | none of its own | accept a job, or parse at once; show a job | Redis, the reader, RabbitMQ |
| `rss_reader` | goroutines and a channel per call | fetch, parse, deduplicate, sort | feed servers |
| Configuration, logging, health, documentation pages, Rails' tokens | files | | |

### What is hard

* **Nobody owns a request.** Its row is written by the controller, by the job that
  publishes it, by the fallback and by several Sneakers threads, one SQL statement at a
  time. The result can come back before the job has written that it sent the command.
* **At least once.** RabbitMQ delivers again after a disconnect, while the goroutine of
  the first delivery still works. Publishing is without confirms. Ack, nack and publish
  cross a connection that may be gone.
* **A retry cycle over two queues** counts in a header what the limit of three is
  compared with.
* **Recovery** is spread over the handler of each connection, a loop with a wake-up
  channel of one place, the consumer's own loop, and a callback that can fail.
* **Two caches of truth.** Redis says one thing about a job and Postgres another; the
  URL cache is filled from a result in which feeds have already been merged.
* **Timeouts that overlap**: Rails waits 10 s for a parse that may take 15 s.
* **Callbacks of a page that has moved on.** A broadcast can overtake the answer to the
  submission it belongs to, and the answer of a load that has read less; broadcasts are
  not repeated after a lost WebSocket. Sign-ins, sign-outs, loads and submissions overlap,
  and each answer is applied to whatever the page shows, and the cookie holds, by then.
* **A comparator that is no order**: a date that is none makes it answer `NaN`.

### What makes each part correct

* Command bus: a command that the broker took is answered or parked before it is
  forgotten; exactly three attempts; one owner per delivery; duplicates need a fault.
* Client: no leaked connection, no lost wake-up, no handler that closes a newer
  connection; the worker consumes again when the broker is back.
* Requests: a finished request stays finished, is claimed once, has its items; the user
  is told only what is there; no request waits forever without a reason.
* Jobs: a poll ends, shows what was answered, and every URL is accounted for; the cache
  holds what its URL serves.
* Reader: bounded concurrency, no send on a closed channel, every URL accounted for in
  any order of arrival, sorted, and it returns when cancelled.
* Dashboard: the page shows what the user was told, in the order a reload would, and no
  row says pending forever, without a reason that can be named.
* Sign-in: the page has items and broadcasts of the session in the cookie only, and says
  the truth about who is signed in, with the reasons that can be named.

## 2. The modules

| Module | Models | Main correspondence |
| --- | --- | --- |
| `AtLeastOnce` | the promise of the command bus to its users | accept, answer, park, settle |
| `CommandBus` | topology, consumer, publishers, sweep | `place` is where the broker has a command, `rejected`/`expired` are the two `x-death` counts, `pc`/`cmd` the goroutines of `processDelivery`, `live` the goroutines whose channel is still the open one; one action per publish, ack, nack and failure of each |
| `BrokerClient` | `rabbitmq.Client`, boot, recovery loop, start of consumption | `conn`, `closed`, `signal` (= `reconnectChan`), `handler[k]` per connection, `main`, `recovery`, `worker`: the next step of each goroutine; what the mutex protects is one step |
| `FeedRequests` | controller, `PublishFeedJob`, `ProcessFeedResultJob` | `status`, `feeds`, `joined`, `saved` are the tables; `pc`/`task` the jobs and threads; one action per SQL statement, publish, HTTP call or broadcast, with three merges (see Abstractions). Uses `AtLeastOnce` for the bus |
| `FeedService` | what Rails promises the page | `visible` is what a reload shows, `told` what was broadcast |
| `FeedItems` | feed contents, outcomes of a parse | pure definitions shared by the next two |
| `FeedReader` | `RssReader.Parse` | `pc` of each goroutine, `sem`, `wg`, `resultsChan`, `closed`, the context `cancelled` |
| `JobProcessing` | `Processor.Process`, `POST /parse`, Redis | `store`, `cache`; `pc`/`task` of workers and handlers; one action per Redis call, publish and answer |
| `FeedList` | the order and the dates of `FeedList.jsx` and `FeedItem.jsx` | pure definitions: the comparator, the sort of V8 on short arrays |
| `Dashboard` | the page of a signed-in user, from its mount | `rows` is `pendingRequests`, `post` and `load` the calls under way, `timers` the `setTimeout`s, `wire` the broadcasts on the socket; one action per callback. Uses `FeedService` and `FeedList` |
| `Session` | start, `handleLogin`, `handleLogout`, cookie, socket | `attempt`, `signout` are the runs of the two handlers, `call` the calls under way, the handshake of the socket included, `waiting` and `posting` what disables the buttons; one action per continuation |
| `CommandBusProofs`, `BrokerClientProofs`, `FeedRequestsProofs`, `JobProcessingProofs`, `FeedReaderProofs`, `DashboardProofs`, `SessionProofs` | theorems about the module they are named after | |
| `FeedItemsProofs` | lemmas about numbers, sequences and the outcomes of a parse | shared by `JobProcessingProofs` and `FeedReaderProofs` |
| `MC*` | small instances for TLC | |

How they compose: `CommandBus` implements `AtLeastOnce` (checked and proved), and
`FeedRequests` runs on top of an instance of `AtLeastOnce`. In the same way
`FeedRequests` implements `FeedService` (checked and proved), and `Dashboard` runs on top of an
instance of it. `Session` holds what outlives the dashboard and reduces the items to
whose they are; `Dashboard` holds what one user sees. `CommandBus` sees the
connection as one variable `link`; `BrokerClient` checks and proves that the real client moves it
only as `CommandBus` allows (`LinkMovesLikeCommandBus`). `FeedReader` returns one of the
`ParseOutcomes` of `FeedItems`; `JobProcessing` takes any of those in one step. The step
of `CommandBus` that handles a command (fails, or publishes a result) is what
`JobProcessing` opens up, over a queue reduced to what a consumer sees of it.

### Abstractions

* A connection and its one channel are one thing; the broker applies what a client sent
  in the order it was sent, keeps durable messages and gives unacked ones back.
* `DeclareTopology` is one step. Times are not modelled: a timer may fire at any moment.
* Three steps of `FeedRequests` are merges: a job's failing update comes with its
  broadcast (`Fail`), a thread's broadcast with its ack (`Broadcast`), and a delivery with
  the look at the request and the ack of a result nobody waits for (`Receive`). So a death
  between the two halves is left out: the user of a failed request is always told, and no
  result comes again after its broadcast (`process_feed_result_job.rb:22` would drop it).
* Items of a request are one group per feed URL in `FeedRequests`; there the status and
  the set of URLs with items are all that a result carries. In `FeedItems` an item has a
  URL, a link and a date, which is a number with 0 for none.
* In `Dashboard` the result of a feed has every link of it, the items of a feed in its
  order, and a link that two fetched feeds share may come with either. That a cache entry
  can lack such a link is the subject of `JobProcessing`.
* Feeds do not change during a behaviour. Formats are abstract: a feed gives its items or
  fails. The URLs of a job are distinct in `JobProcessing` (`UrlsAssumption`), and may
  repeat in `FeedReader`.
* Sneakers 0.0.7 answers `:reject` with `basic.reject` and `requeue = false`. Each
  Sneakers thread has its own process here, so one may die alone.
* A crashed `rssservice` is started again.
* `FeedsController` and `HealthController` always answer with mode `full`, so the branch
  of `handleFeedSubmit` for other modes and the mode itself are left out. Broadcasts
  never say `processing` (`GEMINI.md` and `feed_submission_spec.rb:25` do), and the
  errors in one are `{url, error}` objects, so the banner they raise names none of them
  (`App.jsx:80`): in the model it is a banner without text.
* `Dashboard` is one mount of the page, in production: the doubled mount of React's
  StrictMode is a thing of development. The list is sorted as V8 sorts short arrays,
  which matters only where the comparator is no order (`SortIsStable`).
* Rails keeps the session in the cookie, and may send it again with any answer to a call
  that it read the session for: of a load, of a submission, of a refused sign-in, and with
  an error as well (`base_controller.rb:23-26`). That is a choice in `Session`
  (`AnswerMaySetCookie`). The health check reads no session, and the handshake of the
  WebSocket sends no cookie. The cookie of an answer and the continuation that waits for
  it are one step; an answer that is cut off after its headers is an error with a cookie.
  Devise and Warden are modelled by what they answer.
* Redis is reliable storage with failing calls and expiring keys.

## 3. The runs

Passing runs:

| Run | Question | Bounds |
| --- | --- | --- |
| `command_bus` | safety of the bus, refinement of `AtLeastOnce`, and that every queued command settles | two commands (one not JSON) for one prefetch slot, 3 goroutines, 2 retries, 3 faults |
| `broker_client` | safety of the client, recovery, and that its connection moves as `link` does | 3 outages, one connection each and two more |
| `feed_requests` | safety of two requests for the same new feed, refinement of `FeedService` | 2 threads, 1 feed, 1 failure of any kind; threads and requests symmetric |
| `feed_requests_live` | a request whose job runs is finished, or has a reason not to be | 1 request, 2 threads, 1 feed, 2 failures (both the publish and the fallback can fail) |
| `feed_reader` | what `Parse` returns, and that it returns | 3 goroutines (one URL twice), 2 places, shared links, items without link or date |
| `job_processing` | job store and cache under concurrent workers and a handler | 2 jobs that share a feed and a link, a feed that repeats a link of its own, 3 submissions, 2 workers, 1 retry, 1 fault (a failure, an expired key, a client that hangs up); workers symmetric |
| `dashboard` | what the page lacks or leaves pending, its order, and that rows go away | an earlier request with a feed of one item, a submission of a feed of two, 2 fields, 2 broadcasts, the load of the mount, 1 loss of the WebSocket |
| `session` | whose items and stream the page has, what it says of the sign-in, and that the message of a sign-in has a timer | 2 users, 3 sign-ins, 1 sign-out, 2 submissions; users symmetric |

Why the bounds are enough: every hazard listed in `PROJECT.json` needs two actors on one
object (a delivery, a row, a feed, a key), with one fault between their steps; a third
goroutine is there where a stale one has to meet two others, and a second fault where a
fault must hit the repair of the first. Retries only repeat the cycle: two of them show
a first, a middle and a last attempt, and the proofs hold for any limit, the real 3
included. Three sign-ins are one that makes the page, and two that overlap after the
sign-out; two submissions are one of each user. All actions and disjuncts of every
next-state relation occur.
The faults are bounded by a counter in the guards (`MaxFaults`, `MaxOutages`,
`MaxDrops`), and so are broadcasts (`MaxTells`) and the fields of the form
(`MaxFields`), which nobody touches once the last request is made (`FormMatters`);
nothing else is cut except goroutines, connections, submissions, requests, sign-ins and
sign-outs, which are finite sets.

Deadlock is not checked in any run: all of them have final states in which everything is
published, processed, or used up.

### Fairness

* `CommandBus`: weak fairness of goroutines, timers, reconnecting and subscribing; strong
  fairness of delivering each command, because the queue is FIFO while the prefetch
  window opens and closes. No fairness of faults or of publishing.
* `BrokerClient`: weak fairness of each goroutine. The property itself says that the
  broker stays up from some point on.
* `FeedRequests`: weak fairness of the jobs' and threads' own steps and of the bus, as
  `CommandsSettle` promises. Nothing has to fail and nobody has to submit.
* `FeedReader`: weak fairness of the Go scheduler, and of a fetch only once its context
  is done. A server may hang forever; `ReturnsWhenAnswered` assumes in the property that
  it does not.
* `Dashboard`: weak fairness of the handler of broadcasts and of the timers. Nobody has to
  use the page, the connection may stay down, and a call may hang: `fetch` has no
  timeout.
* `Session` states safety only, for here too a call may hang: `FlashWillFade` says that
  the message of a sign-in has a timer or a `handleLogin` that is still to set one.
* `JobProcessing` states safety only. A worker ends after a bounded number of calls, which
  answer or time out, and that its commands come back until they settle is
  `CommandsSettle` of `CommandBus`.

### What the code does not keep

Each of these runs checks one statement of the documents or comments and ends in a
counterexample, which is a behaviour of the code.

| Run | Statement | What happens |
| --- | --- | --- |
| `broker_client_recovers` | full mode is restored when the broker recovers | after an outage, the connection is lost a second time while the reconnect callback runs; the callback fails, the recovery loop calls `Close`, and a closed client never connects again |
| `feed_requests_race` | the items of a finished request are persisted | two threads create the same feed; one raises after its status update and rejects. Its items are not saved for that request, unless the other thread's result brings the same ones |
| `feed_requests_stuck` | a processed request becomes done or failed | the job's own `update!(status: "processing")` comes after the result and reopens the request for good; nothing fails |
| `dashboard_order` | the list is in descending order of dates | an undated item comes with a broadcast as `0000-00-00`, the comparator answers `NaN`, and older items stay above newer ones |

The passing runs say what holds all the same, and name what else the code allows: a
fallback answered with 202, whose request is failed while its command is still worked
on, and a cache entry that lacks a link two feeds of a job share. `OneClaimUnlessReopened`,
`MissingItemsHaveReason` and `StuckHasReason` list every way in which a request may be
claimed twice, lose items or hang, so a new way would be found. `CacheHoldsOwnItems` and
`ResultsAccountForUrls` say that shared links are the only thing a cache entry can lack.
`MissingHasReason`, `StuckRowHasReason`, `PageIsTheSessions` and `SignInMatchesCookie` do
the same for the page: a broadcast that found no subscription, one that overtook an
answer, a sign-out that ended in an error. For the session the reasons are history
variables. `outlived` has the users who had a call, a handshake or the socket open at the
last change of the cookie, or whose items the page then kept; the next change begins it
anew. `swapped` says that an answer changed the cookie behind the page: the late answer of
a submission or a load brings back the session that it came with, after a sign-out or
under the next user, until somebody signs in or out. `inherited` says that a sign-in was
answered for the session that came with it, whatever was typed, and `unheard` that the
start or the last sign-out ended in an error. Sign-ins overlap because the navigation at
the end of `handleLogin` (`App.jsx:199`) leads a user who has signed out to a new login
form, whose button knows nothing of the sign-in under way.

## 4. The proofs

`CommandBusProofs` is about `CommandBus` for any sets of commands and goroutines, any
prefetch, retry limit and number of faults. It uses the assumptions on the constants:
`CommandsAssumption`, `MaxRetriesAssumption` and `MaxFaultsAssumption`.

* `TypeCorrect`: every variable keeps its type.
* `InductiveInvariant`: `Spec => []InductiveInv`.
* `CommandsAreNotLost`, `DeliveriesAreOwned`, `RetriesAreBounded`: the safety properties,
  from `InductiveInv`.
* `DuplicatesAreBounded`: no command is answered or copied more often than faults allow.
* `Refinement`: `Spec => ImplementsAtLeastOnce`.

`NoCommandLost` is not inductive: from a state in which a goroutine is about to ack a
command without an outcome, the next step breaks it. `AckJustified` excludes that state,
and to be preserved it needs that a second goroutine cannot own the same delivery
(`OneOwnerPerDelivery`), which in turn needs that goroutines that may settle are running
and hold a command of the broker (`Running`). `ParkedAfterMaxRetries` rests on
`RetriesLeft` (a goroutine that may still reject has not used the last attempt, one that
parks has) and on `CycleCounts`, which ties the counts of the two dead-letter hops
together. `DuplicatesNeedFaults` counts what has happened; `ChancesNeedFaults` also counts
what can still happen: the results and copies of a command, the goroutines that still
try it and its place in the queues are together at most one more than the faults. Each
step keeps that balance or is a fault. The proofs follow that order: types, owners,
retries, outcomes, and each of the four lemmas has one step per action. `Refinement` maps
every step to a step of `AtLeastOnce` or a stutter; the ack needs `AckJustified`, the rest
follows from types.

`BrokerClientProofs` is about `BrokerClient` for any set of connections and any number of
outages (`ConnsAssumption`, `OutagesAssumption`).

* `TypeCorrect` and `ClientInvariant` (`Spec => []InductiveInv`).
* `ConnectionsAreNotLeaked`, `HandlersStayCurrent`, `WakeupsAreNotLost`: from
  `InductiveInv`.
* `MovesLikeCommandBus`: every step of the client moves the connection as `link` moves in
  `CommandBus`, so what is proved of the bus does not rest on a wrong picture of the
  client.

`NoLeakedConnection` alone is not inductive: the loop could dial while the client has a
connection. `OneRecovery` says that it cannot, because a call for recovery is in one
place at most (a handler, `reconnectChan` or the loop) and exists only while the client
has no connection. `BootIsFirst` keeps `main` and the loop from dialling together,
`CallbackIsAlone` says that the connection the callback works on is the client's or gone,
so that `Close` never hits a working one, and `WakeupSinceBoot` extends `NoLostWakeup` to
the time before the loops run. `ConnectInvariant` is the lemma all this serves: whoever
dials finds nothing open and no handler waiting.

`FeedRequestsProofs` is about `FeedRequests` for any requests, threads, feeds and number
of failures (`ActorsAssumption`, `UrlsAssumption`, `FaultsAssumption`).

* `TypeCorrect` and `InductiveInvariant`.
* `ClaimedOnce`, `MissingItemsExplained`, `StuckRequestsExplained` and the action property
  `ThreadsKeepStatus`.
* `Refinement`: `Spec => ImplementsFeedService`.

The properties name neither the job's next step nor the messages under way, and what
they say rests on both. `SavesProgress` says of every job and thread that what its result
brings is left to save or linked and saved, and that a link it is about to use exists;
with `JoinedFeedsExist` that gives the refinement, in which a link or an insert may show a
row, a broadcast tells, and all else stutters. `MissingItemsHaveReason` is inductive
together with it: a step that owes items begins to save them (`NewDebts`), and a step of
a saver saves them, leaves them to save or interrupts (`SavingGoesOn`). For a request
that nobody works on, `StuckHasReason` is followed back along the command:
`JobsMatchRows` says that an ended job left a command with the bus or a reason,
`SettledHaveOutcome` that a settled command was answered or lost, and `AnswersAreHeard`
that an answer to an open request is in the queue or in the hands of a thread about to
claim it. `ClaimsFinish` adds to `OneClaimUnlessReopened` that the last claim left a final
status, and that a reopened request has a job that ended, which can reopen it no more.
Each part has a lemma for its step that says which other parts it needs; `ActorMoves` and
`BusMoves` split the next-state relation for all of them.

`JobProcessingProofs` is about `JobProcessing` for any jobs, workers, feeds, retries and
failures (`ActorsAssumption`, which keeps workers and jobs apart, `UrlsAssumption`,
`BoundsAssumption`, and `FeedsAssumption` of `FeedItems`).

* `InductiveInvariant` and `ItemsInvariant`: `Spec => []InductiveInv` and
  `Spec => []ItemsInv`.
* `TypeCorrect`, `CacheIsTrue`, `ResultsAreComplete`: from `ItemsInv`.
* `StuckPollsExplained`, `PollsShowResults`: from `InductiveInv`.
* `CommandsAreKept`: `Spec => []CommandsHaveOutcome`, a property that no run lists.

`StuckPollHasReason` says that somebody is busy with an unfinished job, and a worker that
only acks is busy too. `PendingIsAwaited` asks for more: a command in the queue, or an
actor that has yet to give the job its final status (`WillFinish`). A worker whose
delivery was taken back may die with the process and leave nothing to try again;
`DeliveriesHaveWorkers` says that such a worker works on a job that was tried again, whose
other copy is followed in its place. For a job that ran once and undisturbed (`Fresh`),
`OnePlace` says that it is in the queue or in the hands of one actor, and `OneResult` that
what this actor stored is what it publishes, after which it writes no more.
`WorkIsWellFormed` is the part of the types these need. There is a lemma for each kind of
step (a handler's, a worker's, one inside `Parse`, a fault), and one for each part of the
invariant.

`ItemsInv` follows the items through a job. The task of an actor is about the URLs of its
job (`TasksAreWork`); at each step its URLs are left to do, failed, or accounted for by
what was found (`Served`), and what it is about to put into the cache is the URL's own
(`LeftToDo`). `OneCopy` keeps the number of attempts in its type. The step that fetches
rests on `OutcomeFacts`, which says for every list of URLs what each of its
`ParseOutcomes` brings and lacks: a link that is there has a first place, because a set of
numbers has a least one.

`CommandsHaveOutcome` joins the module to `CommandBus`, whose handler is one step that
publishes or fails. It says of the handler that the service really has what
`NoCommandLost` says of that step: a command that is neither in the queue nor unacked had
its last attempt, or its job has a result. `AckedIsAnswered` (a worker that acks has
published) makes it inductive, with `OneCopy`, by which a parked command has no copy
whose failure would move its count.

`SessionProofs` is about `Session` for any users, sign-ins, sign-outs and submissions
(`UsersAssumption`, `BoundsAssumption`).

* `TypeCorrect` and `InductiveInvariant`.
* `PageBelongsToSession`, `SignInIsTrue`: from `InductiveInv`; `MessageHasTimer`.

`PageIsTheSessions` alone is not inductive: an answer under way brings its items later,
and may bring its session. `CallsAreExplained`, `SocketIsExplained` and
`ItemsAreExplained` say that whatever is open, or has arrived, belongs to the cookie or to
a user in `outlived`. Two lemmas about a step carry them: a call that is open after it was
open before or was sent with the cookie of then (`CallsMove`), and whoever listens when the
cookie changes is in `outlived` afterwards (`CookieMoves`), which is why one change may
forget who outlived the one before. `SignInMatchesCookie` needs only that nothing runs
beside the start of the page (`StartIsAlone`) and that an answer the page is not told of
leaves the cookie or is recorded (`AnswerSwaps`). Nothing is assumed about how many
sign-ins are under way.

`DashboardProofs` is about `Dashboard` for any feeds, items, requests and numbers of
broadcasts, losses and fields (`BoundsAssumption`, `UrlsAssumption`, `ItemsAssumption`).

* `InductiveInvariant`: `Spec => []InductiveInv`.
* `TypeCorrect`, `StuckRowsHaveReasons`, `MissingItemsHaveReasons`,
  `LivePageMatchesReload`: from it.
* `SortIsStable`: when the dates can be compared, what V8 does with an array arranges it
  stably, the newest first.
* `NewestFirstUnlessZeroDate`: the statement that `dashboard_order` refutes holds while no
  item of the page has the zero date that a broadcast gives an undated one.

A row appears when the answer to the submission is handled, and the broadcast may be
gone by then. `AnswerComesFirst` says what is known before that: the request exists, has
no row, and a broadcast of it is under way, was missed or was early. `RowsAreCreated`
keeps a new request from having a row or a broadcast already. `MissingHasReason` is not
inductive either: a load can take items off the page. `StaysOnPage` adds that every load
that was answered had read them, which a broadcast either finds true or records in
`raced`; `TellsAreVisible` is why a load answered later has read them, and
`MessagesBringItems` why handling the broadcast puts them there. `AnswersShowAll`,
`ResultsBringAll` and `MergeAdds` say what a load, a result and the handler do to the
links of the page, for sequences of any length.

`LiveMatchesReload` compares what the page shows with any answer that Rails could give.
`ItemsAreShown` says why they have the same items: whatever is on the page or on its way
there is an item of a feed that Rails shows, as a load or a broadcast has it, and a link
that is there twice is the link of two of their items (`ComeFrom`). With all links there,
none of them twice and no zero date, page and answer hold the same items (`SameItems`),
each of a day of its own. What remains is about `Sort`. `Arranged` says that a sequence has
the first n items of another, once each, later dates above earlier ones and those of one date in
the order they came in. `RunFacts` proves it of the first run, `HalveFacts` and
`PlaceFacts` bound the binary search, `InsertFacts` adds one item, and `SortIsStable`
puts them together for lists of any length. Two arrangements of the same items by
distinct dates are equal (`OneOrder`), because the first place where they differ would
have a newer item further down.

`FeedReaderProofs` is about `FeedReader` for any list of URLs, any feeds and any limit
(`UrlListAssumption`, `LimitAssumption`, and `FeedsAssumption` of `FeedItems`).

* `InductiveInvariant` and `ItemsInvariant`: `Spec => []InductiveInv` and
  `Spec => []ItemsInv`.
* `ChannelAndLimitHold`: from the first. `EveryResultArrives`: `Parse` returns only after
  one result for each URL arrived.
* `TypeCorrect`, `OutcomeIsReturned`, `OutputIsSorted`: from the second.

That no goroutine sends on the closed channel is not inductive: it holds because the
closer waits for the WaitGroup. `CountsAgree` says that `wg`, `sem` and the results in the
channel are the cardinalities of sets of goroutines, `SpawnedInOrder` that all were
started before the closer runs, `ClosedLast` that all have ended when it closes.
`CountChanges` is the one lemma about counting: what a step of one goroutine adds and
takes away.

`ItemsInv` says what has been collected: a goroutine that sent is in the channel or has
arrived, in one place once (`SentOnce`), and `allItems` is the items of those that arrived
without error, feed after feed, `urlErrs` the URLs of the others (`CollectsWhatArrives`).
`DeduplicateKeeps` says that the loop of `deduplicate` leaves the first item of each link,
`SortRearranges` that the sort only rearranges, and `CollectedIsAnOutcome` puts these
together with the definition of `ParseOutcomes`, so that `JobProcessing` may take any of
those in place of the reader.

The inductive invariants stand at the start of the `*Proofs` modules. TLC checked each of
them as an invariant on the small instances before it was proved, and so it did
`CommandsHaveOutcome` and the condition of `NewestFirstUnlessZeroDate`.

Model-checked only: the liveness properties (`CommandsSettle`, `RequestsFinish`,
`ReturnsWhenCancelled`, `ReturnsWhenAnswered`, `ConsumesAgain`, `RowsSettle`).
Liveness under fairness is outside what the prover does. Every other property of a passing
run is the statement of a theorem.

No module that theorems are about uses a recursive operator: `PlaceFor` and `Sort` of
`FeedList` and the loop of `deduplicate` are recursive functions. Where a proof needs an
induction over the length of a sequence, it is stated for a set of numbers
(`NumbersByInduction`: a set that has 0, and n + 1 whenever it has n, has every number),
and rests on the well-foundedness of `<`. That such a function exists at all is proved in
the same way (`SearchRuns`, `SortRuns`).

## 5. What is not modelled, and what is left

Not modelled: configuration, logging, health check and the documentation pages (read
once, or pure output); `JwtService`, which signs a token and keeps nothing; build files;
the service worker, which is the commented-out template of Rails; what is drawn around
the items; the in-memory job store (not used by `main`); and the byte level of the feed
formats. One hazard has no property: an outage of Redis answers 401 (a guard of
`AuthorizeFails`, visible in the model).

Left for later: `JobProcessing` and `CommandBus` as one specification. Today the handler
of the one is a step of the other, and `CommandsHaveOutcome` is the promise that the two
share.
