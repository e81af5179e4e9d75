---------------------------- MODULE CommandBus -----------------------------
(***************************************************************************)
(* The command side of the RabbitMQ bus, seen from rssservice: the worker   *)
(* queue, the 30 s wait queue and the failed queue that DeclareTopology     *)
(* sets up, the connection of the Go process, and the goroutines that       *)
(* Consumer.Start spawns, one per delivery (consumer.go:72).                *)
(*                                                                          *)
(* The broker is external: it keeps persistent messages, gives an unacked   *)
(* delivery back to its queue when the connection is gone, counts deaths in *)
(* the x-death header and applies what a client sent in the order it was    *)
(* sent.  What the handler does with a command is abstract here: it fails   *)
(* or it publishes a result.                                                *)
(***************************************************************************)
EXTENDS Integers, FiniteSets

CONSTANTS
    Commands,     \* command messages; each is one publish, so job ids may repeat
    Malformed,    \* commands whose body is not JSON
    NoCommand,    \* what a goroutine that is not running holds
    Goroutines,   \* bound: goroutines of processDelivery that may exist at once
    Prefetch,     \* config.yaml rabbitmq.prefetch, the channel's QoS
    MaxRetries,   \* the 3 of consumer.go:90
    MaxFaults     \* bound: disconnects, crashes and failed writes of a behaviour

ASSUME CommandsAssumption == Malformed \subseteq Commands /\ NoCommand \notin Commands
ASSUME PrefetchAssumption == Prefetch \in Nat \ {0}
ASSUME MaxRetriesAssumption == MaxRetries \in Nat \ {0}
ASSUME MaxFaultsAssumption == MaxFaults \in Nat

VARIABLES
    link,         \* the process's connection: "up", "broken" (gone, not noticed
                  \* yet), "none" (Client.conn = nil) or "closed" (Client.closed)
    declared,     \* the durable topology exists on the broker
    subscribed,   \* Consumer.Start has a consumer on the current connection
    place,        \* where the broker has each command
    rejected,     \* x-death count of (worker queue, "rejected")
    expired,      \* x-death count of (wait queue, "expired")
    pc,           \* next step of each goroutine
    cmd,          \* the command of each goroutine's delivery
    live,         \* the goroutines whose delivery's channel is the open one
    results,      \* results published to rss_results for each command
    parked,       \* copies published to rss_commands_failed
    swept,        \* copies the daily sweep took out of rss_commands_failed
    faults        \* disconnects, crashes and failed writes so far

brokerVars == <<declared, place, rejected, expired, results, parked, swept>>
goroutineVars == <<pc, cmd, live>>
connectionVars == <<link, subscribed, faults>>
vars == <<brokerVars, goroutineVars, connectionVars>>

Links == {"up", "broken", "none", "closed"}
Places == {"unpublished", "lost", "worker", "unacked", "wait", "settled"}
Steps == {"idle", "handle", "park", "ack", "nack", "requeue"}

Unacked == {c \in Commands : place[c] = "unacked"}

----------------------------------------------------------------------------
(* consumer.go *)

\* getRetryCount: the largest count of the x-death header.
RetryCount(c) == IF rejected[c] >= expired[c] THEN rejected[c] ELSE expired[c]

\* Mutant: one retry too many.
ExhaustedLate(c) == RetryCount(c) > MaxRetries

Exhausted(c) == RetryCount(c) >= MaxRetries

\* What processDelivery does first with a delivery of c.
FirstStep(c) ==
    IF c \in Malformed THEN "ack" ELSE IF Exhausted(c) THEN "park" ELSE "handle"

\* The broker pushes c and Start spawns a goroutine for it.
Deliver(c, g) ==
    /\ subscribed
    /\ place[c] = "worker"
    /\ pc[g] = "idle"
    /\ Cardinality(Unacked) < Prefetch
    /\ place' = [place EXCEPT ![c] = "unacked"]
    /\ pc' = [pc EXCEPT ![g] = FirstStep(c)]
    /\ cmd' = [cmd EXCEPT ![g] = c]
    /\ live' = live \union {g}
    /\ UNCHANGED <<declared, rejected, expired, results, parked, swept, connectionVars>>

Goto(g, from, to) ==
    /\ pc[g] = from
    /\ pc' = [pc EXCEPT ![g] = to]
    /\ UNCHANGED <<cmd, live>>

\* Mutant: a failed command is acked.
FailureIsAcked(g) ==
    /\ Goto(g, "handle", "ack")
    /\ UNCHANGED <<brokerVars, connectionVars>>

\* The handler returns an error: it published nothing.
HandlerFails(g) ==
    /\ Goto(g, "handle", "nack")
    /\ UNCHANGED <<brokerVars, connectionVars>>

\* Mutant: a command whose result went out is retried all the same.
PublishesThenFails(g) ==
    /\ link = "up"
    /\ Goto(g, "handle", "nack")
    /\ results' = [results EXCEPT ![cmd[g]] = @ + 1]
    /\ UNCHANGED <<declared, place, rejected, expired, parked, swept, connectionVars>>

\* The handler publishes its result on whatever channel the client has now,
\* which need not be the channel of the delivery.  There are no publisher
\* confirms: into a broken connection the publish reports success and is lost.
HandlerPublishes(g) ==
    /\ link \in {"up", "broken"}
    /\ Goto(g, "handle", "ack")
    /\ results' = IF link = "up"
                  THEN [results EXCEPT ![cmd[g]] = @ + 1]
                  ELSE results
    /\ UNCHANGED <<declared, place, rejected, expired, parked, swept, connectionVars>>

\* The copy for the failed queue goes out on the delivery's own channel.
ParkCopy(g) ==
    /\ Goto(g, "park", "ack")
    /\ parked' = IF g \in live THEN [parked EXCEPT ![cmd[g]] = @ + 1] ELSE parked
    /\ UNCHANGED <<declared, place, rejected, expired, results, swept, connectionVars>>

\* Mutant: the error of that publish is ignored.
ParkFailureIsAcked(g) ==
    /\ Goto(g, "park", "ack")
    /\ UNCHANGED <<brokerVars, connectionVars>>

\* That publish returns an error; on a channel still open it is a fault.
ParkFails(g) ==
    /\ Goto(g, "park", "requeue")
    /\ g \in live => faults < MaxFaults
    /\ faults' = IF g \in live THEN faults + 1 ELSE faults
    /\ UNCHANGED <<brokerVars, link, subscribed>>

\* The goroutine settles its delivery and ends.  On a channel that is gone the
\* settlement only returns an error, which the code drops or logs.
Finish(g, step, to) ==
    /\ pc[g] = step
    /\ place' = IF g \in live THEN [place EXCEPT ![cmd[g]] = to] ELSE place
    /\ pc' = [pc EXCEPT ![g] = "idle"]
    /\ cmd' = [cmd EXCEPT ![g] = NoCommand]
    /\ live' = live \ {g}
    /\ UNCHANGED <<declared, expired, results, parked, swept, connectionVars>>

Ack(g) ==
    /\ Finish(g, "ack", "settled")
    /\ UNCHANGED rejected

\* Nack(false, false): the worker queue dead-letters to the retry exchange.
Nack(g) ==
    /\ Finish(g, "nack", "wait")
    /\ rejected' = IF g \in live THEN [rejected EXCEPT ![cmd[g]] = @ + 1] ELSE rejected

\* Nack(false, true): straight back to the worker queue, no death counted.
Requeue(g) ==
    /\ Finish(g, "requeue", "worker")
    /\ UNCHANGED rejected

GoroutineStep(g) ==
    \/ HandlerFails(g)
    \/ HandlerPublishes(g)
    \/ ParkCopy(g)
    \/ ParkFails(g)
    \/ Ack(g)
    \/ Nack(g)
    \/ Requeue(g)

----------------------------------------------------------------------------
(* Publishing a command *)

Put(c, where) ==
    /\ place[c] = "unpublished"
    /\ place' = [place EXCEPT ![c] = where]
    /\ UNCHANGED <<declared, rejected, expired, results, parked, swept,
                   goroutineVars, connectionVars>>

\* RabbitmqPublisher (Rails) has a connection of its own.  It declares the
\* exchange and nothing else: without a bound queue the broker drops the
\* message, and neither mandatory nor confirms would tell.
RailsPublishes(c) == Put(c, IF declared THEN "worker" ELSE "lost")

\* Publisher.PublishCommand (POST /parse and POST /jobs of rssservice).
PublishCommand(c) ==
    /\ link \in {"up", "broken"}
    /\ Put(c, IF link = "up" THEN "worker" ELSE "lost")

----------------------------------------------------------------------------
(* The broker on its own, and the daily sweep *)

\* The TTL of the wait queue dead-letters the message back to the commands
\* exchange.
Expire(c) ==
    /\ place[c] = "wait"
    /\ place' = [place EXCEPT ![c] = "worker"]
    /\ expired' = [expired EXCEPT ![c] = @ + 1]
    /\ UNCHANGED <<declared, rejected, results, parked, swept,
                   goroutineVars, connectionVars>>

\* Mutant: the sweep counts a copy it did not get.
SweepBlindly(c) ==
    /\ link = "up"
    /\ swept[c] <= parked[c]
    /\ swept' = [swept EXCEPT ![c] = @ + 1]
    /\ UNCHANGED <<declared, place, rejected, expired, results, parked,
                   goroutineVars, connectionVars>>

\* One iteration of sweepFailedQueue: Get with autoAck, then the log line.
Sweep(c) ==
    /\ link = "up"
    /\ swept[c] < parked[c]
    /\ swept' = [swept EXCEPT ![c] = @ + 1]
    /\ UNCHANGED <<declared, place, rejected, expired, results, parked,
                   goroutineVars, connectionVars>>

----------------------------------------------------------------------------
(* The connection of the Go process *)

\* The broker gives every unsettled delivery back to the queue's head.
GiveBack == place' = [c \in Commands |-> IF place[c] = "unacked" THEN "worker"
                                                                 ELSE place[c]]

\* Mutant: goroutines of the old connection still settle.
DisconnectKeepsDeliveries ==
    /\ link = "up"
    /\ faults < MaxFaults
    /\ link' = "broken"
    /\ subscribed' = FALSE
    /\ faults' = faults + 1
    /\ GiveBack
    /\ UNCHANGED <<declared, rejected, expired, results, parked, swept, goroutineVars>>

Disconnect ==
    /\ link = "up"
    /\ faults < MaxFaults
    /\ link' = "broken"
    /\ subscribed' = FALSE
    /\ faults' = faults + 1
    /\ GiveBack
    /\ live' = {}
    /\ UNCHANGED <<declared, rejected, expired, results, parked, swept, pc, cmd>>

\* handleDisconnects forgets the connection and signals the recovery loop.
NoticeDisconnect ==
    /\ link = "broken"
    /\ link' = "none"
    /\ UNCHANGED <<subscribed, faults, brokerVars, goroutineVars>>

\* Connect, then DeclareTopology: at boot or by the recovery loop.
Reconnect ==
    /\ link = "none"
    /\ link' = "up"
    /\ declared' = TRUE
    /\ UNCHANGED <<subscribed, faults, place, rejected, expired, results, parked,
                   swept, goroutineVars>>

\* Connect, but the callback fails, before or after the client notices that the
\* new connection is gone: the recovery loop closes the client, and Connect
\* refuses a closed client from then on (module BrokerClient).
ReconnectCallbackFails ==
    /\ link \in {"none", "broken"}
    /\ faults < MaxFaults
    /\ link' = "closed"
    /\ faults' = faults + 1
    /\ UNCHANGED <<subscribed, brokerVars, goroutineVars>>

\* Mutant: Worker.Start consumes once and does not come back after a fault.
SubscribeOnce ==
    /\ link = "up"
    /\ ~subscribed
    /\ faults = 0
    /\ subscribed' = TRUE
    /\ UNCHANGED <<link, faults, brokerVars, goroutineVars>>

\* Worker.Start calls Consumer.Start again and again, 2 s apart.
Subscribe ==
    /\ link = "up"
    /\ ~subscribed
    /\ subscribed' = TRUE
    /\ UNCHANGED <<link, faults, brokerVars, goroutineVars>>

\* The process ends (os.Exit on any signal, main.go:171) and starts again.
Crash ==
    /\ faults < MaxFaults
    /\ link' = "none"
    /\ subscribed' = FALSE
    /\ faults' = faults + 1
    /\ GiveBack
    /\ pc' = [g \in Goroutines |-> "idle"]
    /\ cmd' = [g \in Goroutines |-> NoCommand]
    /\ live' = {}
    /\ UNCHANGED <<declared, rejected, expired, results, parked, swept>>

----------------------------------------------------------------------------
Init ==
    /\ link = "none"
    /\ declared = FALSE
    /\ subscribed = FALSE
    /\ place = [c \in Commands |-> "unpublished"]
    /\ rejected = [c \in Commands |-> 0]
    /\ expired = [c \in Commands |-> 0]
    /\ pc = [g \in Goroutines |-> "idle"]
    /\ cmd = [g \in Goroutines |-> NoCommand]
    /\ live = {}
    /\ results = [c \in Commands |-> 0]
    /\ parked = [c \in Commands |-> 0]
    /\ swept = [c \in Commands |-> 0]
    /\ faults = 0

Next ==
    \/ \E c \in Commands : RailsPublishes(c) \/ PublishCommand(c) \/ Expire(c) \/ Sweep(c)
    \/ \E c \in Commands, g \in Goroutines : Deliver(c, g)
    \/ \E g \in Goroutines : GoroutineStep(g)
    \/ Disconnect
    \/ NoticeDisconnect
    \/ Reconnect
    \/ ReconnectCallbackFails
    \/ Subscribe
    \/ Crash

Spec == Init /\ [][Next]_vars

\* Goroutines run, timers fire and the broker is reachable again after a while.
\* A queued command is offered in FIFO order, so one that is deliverable again
\* and again is delivered: strong fairness.  Nothing makes a command be
\* published, or a fault happen.
Fairness ==
    /\ WF_vars(NoticeDisconnect)
    /\ WF_vars(Reconnect)
    /\ WF_vars(Subscribe)
    /\ \A c \in Commands : WF_vars(Expire(c))
    /\ \A c \in Commands : SF_vars(\E g \in Goroutines : Deliver(c, g))
    /\ \A g \in Goroutines : WF_vars(GoroutineStep(g))

FairSpec == Spec /\ Fairness

----------------------------------------------------------------------------
(* Properties *)

\* Every variable keeps its type, and the sweep never counts a copy that was not
\* parked (worker.go:106-115).
TypeOK ==
    /\ link \in Links
    /\ declared \in BOOLEAN
    /\ subscribed \in BOOLEAN
    /\ place \in [Commands -> Places]
    /\ rejected \in [Commands -> Nat]
    /\ expired \in [Commands -> Nat]
    /\ pc \in [Goroutines -> Steps]
    /\ cmd \in [Goroutines -> Commands \union {NoCommand}]
    /\ live \subseteq Goroutines
    /\ results \in [Commands -> Nat]
    /\ parked \in [Commands -> Nat]
    /\ swept \in [Commands -> Nat]
    /\ \A c \in Commands : swept[c] <= parked[c]
    /\ faults \in Nat

\* The broker forgets a decodable command only after a result was published
\* for it or a copy was parked: an ack never overtakes what it stands for, also
\* when the publish before it was lost in a broken connection
\* (consumer.go:112-127).
NoCommandLost ==
    \A c \in Commands \ Malformed :
        place[c] = "settled" => results[c] > 0 \/ parked[c] > 0

\* An unsettled delivery belongs to exactly one goroutine that can still settle
\* it, and only such a goroutine can: a goroutine left over from an older
\* connection never settles somebody else's delivery (consumer.go:72, client.go:84-97).
OneOwnerPerDelivery ==
    /\ \A g \in live : link = "up" /\ cmd[g] \in Unacked
    /\ \A c \in Unacked : \E g \in live : cmd[g] = c
    /\ \A g, h \in live : cmd[g] = cmd[h] => g = h

\* The handler failed exactly MaxRetries times, no more and no fewer, when a
\* copy goes to the failed queue, and a command is never rejected again after
\* that (consumer.go:90-124 with the two dead-letter hops of DeclareTopology).
ParkedAfterMaxRetries ==
    \A c \in Commands : /\ rejected[c] <= MaxRetries
                        /\ parked[c] > 0 => rejected[c] = MaxRetries

\* Only a fault makes the bus repeat an outcome: a command has at most one
\* result or parked copy more than there were faults (rss_results consumers see
\* duplicates only then).
DuplicatesNeedFaults ==
    \A c \in Commands : results[c] + parked[c] <= 1 + faults

\* Commands the broker took responsibility for.
Accepted == {c \in Commands : place[c] \notin {"unpublished", "lost"}}

\* The promise to the other components: see AtLeastOnce.
Bus == INSTANCE AtLeastOnce WITH
    accepted <- Accepted,
    answered <- {c \in Commands : results[c] > 0},
    parked   <- {c \in Commands : parked[c] > 0},
    settled  <- {c \in Commands : place[c] = "settled"}

ImplementsAtLeastOnce == Bus!Spec

\* While the client is not closed for good, a command that reached the worker
\* queue leaves the broker for good: it is not retried or redelivered forever,
\* and no goroutine keeps it (30 s wait, 2 s resubscription and reconnection
\* included).
CommandsSettle ==
    [](link # "closed") =>
        \A c \in Commands : place[c] = "worker" ~> place[c] = "settled"

=============================================================================
