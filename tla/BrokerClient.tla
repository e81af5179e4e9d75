--------------------------- MODULE BrokerClient ----------------------------
(***************************************************************************)
(* The connection of rssservice to RabbitMQ: rabbitmq.Client with its       *)
(* mutex, the handleDisconnects goroutine of each connection, the recovery  *)
(* loop, and the users of the channel: Worker.Start with Consumer.Start     *)
(* under it, and the publishers of the HTTP handlers.  CommandBus folds all *)
(* of this into the variable link.                                          *)
(*                                                                          *)
(* A connection and its one channel are modelled as one thing: whichever    *)
(* closes first, handleDisconnects closes the other.  What a mutex protects *)
(* is one step.                                                             *)
(***************************************************************************)
EXTENDS Integers, FiniteSets

CONSTANTS
    Conns,        \* bound: connections dialled in a behaviour
    NoConn,       \* Client.conn = nil
    MaxOutages    \* bound: losses of a connection that nobody caused

ASSUME ConnsAssumption == NoConn \notin Conns
ASSUME OutagesAssumption == MaxOutages \in Nat

VARIABLES
    brokerUp,     \* the broker can be dialled
    topology,     \* DeclareTopology has completed once (it is durable)
    outages,
    dialled,      \* connections that were ever opened
    open,         \* those whose connection and channel are open
    conn,         \* Client.conn and Client.channel
    closed,       \* Client.closed
    signal,       \* Client.reconnectChan holds its one token
    handler,      \* next step of the handleDisconnects of each connection
    main,         \* next step of main()
    recovery,     \* next step of the recovery loop
    recoveryConn, \* the channel its callback got
    worker,       \* next step of Worker.Start
    workerConn    \* the channel Consumer.Start got

brokerVars == <<brokerUp, topology, outages>>
clientVars == <<conn, closed, signal>>
recoveryVars == <<recovery, recoveryConn>>
workerVars == <<worker, workerConn>>
vars == <<brokerVars, dialled, open, clientVars, handler, main, recoveryVars, workerVars>>

----------------------------------------------------------------------------
(* Client *)

\* Mutant: no handler watches the new connection.
ConnectUnwatched(k) ==
    /\ ~closed
    /\ brokerUp
    /\ k \in Conns \ dialled
    /\ dialled' = dialled \union {k}
    /\ open' = open \union {k}
    /\ conn' = k
    /\ UNCHANGED handler

\* Connect opens a connection and starts its handler, all under the mutex.
Connect(k) ==
    /\ ~closed
    /\ brokerUp
    /\ k \in Conns \ dialled
    /\ dialled' = dialled \union {k}
    /\ open' = open \union {k}
    /\ conn' = k
    /\ handler' = [handler EXCEPT ![k] = "watch"]

\* TriggerRecovery and the end of handleDisconnects: a send that never blocks.
Signal == signal' = TRUE

\* NotifyClose fires.  Under the mutex the handler closes and forgets whatever
\* the client holds, unless somebody closed the client.
Forget(k) ==
    /\ handler[k] = "watch"
    /\ k \notin open
    /\ IF closed
       THEN /\ handler' = [handler EXCEPT ![k] = "ended"]
            /\ UNCHANGED <<open, conn>>
       ELSE /\ handler' = [handler EXCEPT ![k] = "signal"]
            /\ open' = open \ {conn}
            /\ conn' = NoConn
    /\ UNCHANGED <<brokerVars, dialled, closed, signal, main, recoveryVars, workerVars>>

\* Mutant: reconnectChan has no buffer, so a loop that is busy or that main() has
\* not started yet misses the token.
SignalUnbuffered(k) ==
    /\ handler[k] = "signal"
    /\ handler' = [handler EXCEPT ![k] = "ended"]
    /\ signal' = (signal \/ (main = "run" /\ recovery = "wait"))
    /\ UNCHANGED <<brokerVars, dialled, open, conn, closed, main, recoveryVars, workerVars>>

SignalRecovery(k) ==
    /\ handler[k] = "signal"
    /\ handler' = [handler EXCEPT ![k] = "ended"]
    /\ Signal
    /\ UNCHANGED <<brokerVars, dialled, open, conn, closed, main, recoveryVars, workerVars>>

----------------------------------------------------------------------------
(* main(): connect, declare, then start the loops *)

\* Mutant: main() triggers the recovery although it has connected.
BootAlwaysTriggers ==
    /\ main = "connect"
    /\ \E k \in Conns : Connect(k)
    /\ Signal
    /\ main' = "declare"
    /\ UNCHANGED <<brokerVars, closed, recoveryVars, workerVars>>

BootConnects ==
    /\ main = "connect"
    /\ \E k \in Conns : Connect(k)
    /\ main' = "declare"
    /\ UNCHANGED <<brokerVars, closed, signal, recoveryVars, workerVars>>

\* The broker is unreachable: go on without it and leave the rest to the loop.
BootGoesOn ==
    /\ main = "connect"
    /\ ~brokerUp
    /\ Signal
    /\ main' = "run"
    /\ UNCHANGED <<brokerVars, dialled, open, conn, closed, handler, recoveryVars, workerVars>>

\* Channel() may find nothing any more, and then the topology is not declared;
\* an error of DeclareTopology ends the process.
BootDeclares ==
    /\ main = "declare"
    /\ IF conn = NoConn
       THEN main' = "run" /\ UNCHANGED topology
       ELSE IF conn \in open
            THEN main' = "run" /\ topology' = TRUE
            ELSE main' = "exit" /\ UNCHANGED topology
    /\ UNCHANGED <<brokerUp, outages, dialled, open, clientVars, handler, recoveryVars,
                   workerVars>>

----------------------------------------------------------------------------
(* StartRecoveryLoop, with the callback of main() *)

TakeSignal ==
    /\ main = "run"
    /\ recovery = "wait"
    /\ signal
    /\ signal' = FALSE
    /\ recovery' = "connect"
    /\ UNCHANGED <<brokerVars, dialled, open, conn, closed, handler, main, recoveryConn,
                   workerVars>>

\* A Connect that fails (no broker, or a closed client) is tried again after the
\* backoff: nothing changes.
Reconnect ==
    /\ recovery = "connect"
    /\ \E k \in Conns : Connect(k)
    /\ recovery' = "channel"
    /\ UNCHANGED <<brokerVars, closed, signal, main, recoveryConn, workerVars>>

\* The callback asks the client for its channel.
CallbackGetsChannel ==
    /\ recovery = "channel"
    /\ recovery' = IF conn = NoConn THEN "close" ELSE "declare"
    /\ recoveryConn' = conn
    /\ UNCHANGED <<brokerVars, dialled, open, clientVars, handler, main, workerVars>>

\* Mutant: the loop closes the client although the callback succeeded.
CallbackGivesUp ==
    /\ recovery = "declare"
    /\ recovery' = "close"
    /\ topology' = (topology \/ recoveryConn \in open)
    /\ UNCHANGED <<brokerUp, outages, dialled, open, clientVars, handler, main,
                   recoveryConn, workerVars>>

\* DeclareTopology fails on a channel that is gone.
CallbackDeclares ==
    /\ recovery = "declare"
    /\ IF recoveryConn \in open
       THEN recovery' = "wait" /\ topology' = TRUE
       ELSE recovery' = "close" /\ UNCHANGED topology
    /\ UNCHANGED <<brokerUp, outages, dialled, open, clientVars, handler, main,
                   recoveryConn, workerVars>>

\* After a failed callback the loop calls Close, then Connect again.
CloseClient ==
    /\ recovery = "close"
    /\ closed' = TRUE
    /\ open' = open \ {conn}
    /\ conn' = NoConn
    /\ recovery' = "connect"
    /\ UNCHANGED <<brokerVars, dialled, signal, handler, main, recoveryConn, workerVars>>

----------------------------------------------------------------------------
(* Users of the channel *)

\* Consumer.Start gets a channel; without one Worker.Start tries again in 2 s.
StartConsumer ==
    /\ main = "run"
    /\ worker = "start"
    /\ conn # NoConn
    /\ worker' = "consume"
    /\ workerConn' = conn
    /\ UNCHANGED <<brokerVars, dialled, open, clientVars, handler, main, recoveryVars>>

\* Consume on a queue that does not exist is a channel exception.
Consume ==
    /\ worker = "consume"
    /\ worker' = IF workerConn \in open /\ topology THEN "consuming" ELSE "start"
    /\ open' = IF topology THEN open ELSE open \ {workerConn}
    /\ UNCHANGED <<brokerVars, dialled, clientVars, handler, main, recoveryVars, workerConn>>

\* The delivery channel is closed: back to Worker.Start.
StopConsuming ==
    /\ worker = "consuming"
    /\ workerConn \notin open
    /\ worker' = "start"
    /\ UNCHANGED <<brokerVars, dialled, open, clientVars, handler, main, recoveryVars,
                   workerConn>>

\* PublishCommand of an HTTP handler before the exchange exists is a channel
\* exception as well.
PublishTooEarly ==
    /\ main = "run"
    /\ conn # NoConn
    /\ ~topology
    /\ open' = open \ {conn}
    /\ UNCHANGED <<brokerVars, dialled, clientVars, handler, main, recoveryVars, workerVars>>

----------------------------------------------------------------------------
(* The broker and the network *)

\* The broker goes down, or only a connection is lost.
Outage ==
    /\ outages < MaxOutages
    /\ outages' = outages + 1
    /\ open' = {}
    /\ brokerUp' \in BOOLEAN
    /\ UNCHANGED <<topology, dialled, clientVars, handler, main, recoveryVars, workerVars>>

BrokerReturns ==
    /\ ~brokerUp
    /\ brokerUp' = TRUE
    /\ UNCHANGED <<topology, outages, dialled, open, clientVars, handler, main,
                   recoveryVars, workerVars>>

----------------------------------------------------------------------------
\* The topology may be there from an earlier process.
Init ==
    /\ brokerUp \in BOOLEAN
    /\ topology \in BOOLEAN
    /\ outages = 0
    /\ dialled = {}
    /\ open = {}
    /\ conn = NoConn
    /\ closed = FALSE
    /\ signal = FALSE
    /\ handler = [k \in Conns |-> "none"]
    /\ main = "connect"
    /\ recovery = "wait"
    /\ recoveryConn = NoConn
    /\ worker = "start"
    /\ workerConn = NoConn

HandlerRuns(k) == Forget(k) \/ SignalRecovery(k)
MainRuns == BootConnects \/ BootGoesOn \/ BootDeclares
RecoveryRuns == TakeSignal \/ Reconnect \/ CallbackGetsChannel \/ CallbackDeclares \/ CloseClient
WorkerRuns == StartConsumer \/ Consume \/ StopConsuming

Next ==
    \/ \E k \in Conns : HandlerRuns(k)
    \/ MainRuns
    \/ RecoveryRuns
    \/ WorkerRuns
    \/ PublishTooEarly
    \/ Outage
    \/ BrokerReturns

Spec == Init /\ [][Next]_vars

\* Every goroutine runs when it can.  Outages, the return of the broker and early
\* publishes are nobody's duty.
Fairness ==
    /\ \A k \in Conns : WF_vars(HandlerRuns(k))
    /\ WF_vars(MainRuns)
    /\ WF_vars(RecoveryRuns)
    /\ WF_vars(WorkerRuns)

FairSpec == Spec /\ Fairness

----------------------------------------------------------------------------
(* Properties *)

\* Every variable keeps its type, and each connection that was opened has a handler
\* (client.go:64).
TypeOK ==
    /\ brokerUp \in BOOLEAN
    /\ topology \in BOOLEAN
    /\ outages \in 0 .. MaxOutages
    /\ dialled \subseteq Conns
    /\ open \subseteq dialled
    /\ conn \in dialled \union {NoConn}
    /\ closed \in BOOLEAN
    /\ signal \in BOOLEAN
    /\ handler \in [Conns -> {"none", "watch", "signal", "ended"}]
    /\ \A k \in Conns : handler[k] = "none" <=> k \notin dialled
    /\ main \in {"connect", "declare", "run", "exit"}
    /\ recovery \in {"wait", "connect", "channel", "declare", "close"}
    /\ recoveryConn \in dialled \union {NoConn}
    /\ worker \in {"start", "consume", "consuming"}
    /\ workerConn \in dialled \union {NoConn}

\* The client never opens a second connection beside one it has, so none is left
\* open without an owner (client.go:36-67, client.go:84-97).
NoLeakedConnection == open \subseteq {conn}

\* A handler that is still to run belongs to the connection the client holds: a
\* late handler never closes a newer connection (client.go:89-96).
HandlersAreCurrent ==
    ~closed => \A k \in Conns : handler[k] = "watch" => conn = k

\* When the client has no connection and is not closed, recovery is under way or
\* its wake-up call is: the one-place reconnectChan loses none
\* (client.go:99-102, client.go:114).
NoLostWakeup ==
    ~closed /\ conn = NoConn /\ main = "run" =>
        \/ signal
        \/ recovery # "wait"
        \/ \E k \in Conns : handler[k] = "signal"

\* The connection as CommandBus sees it.
Link ==
    IF closed THEN "closed"
    ELSE IF conn = NoConn THEN "none"
    ELSE IF conn \in open THEN "up" ELSE "broken"

LinkMoves == {<<"none", "up">>, <<"up", "broken">>, <<"broken", "none">>,
              <<"none", "closed">>, <<"broken", "closed">>}

\* The connection moves only as the variable link of CommandBus does: it breaks
\* before the client forgets it, the client dials only after that, and Close never
\* hits a connection that still works (client.go:123-134).
LinkMovesLikeCommandBus ==
    [][Link' # Link => <<Link, Link'>> \in LinkMoves]_vars

\* Once the broker stays reachable and nobody closed the client, the worker
\* consumes for good, however the loops interleaved before (worker.go:43-67 and
\* client.go:105-146).
ConsumesAgain ==
    <>[]brokerUp /\ []~closed /\ []<>(main = "run") => <>[](worker = "consuming")

\* rssservice/README.md:109: "The RabbitMQ client attempts automatic connection
\* recovery loops in the background [...], restoring full asynchronous mode once
\* the broker recovers."
RecoversWithBroker ==
    <>[]brokerUp /\ []<>(main = "run") => <>[](worker = "consuming")

=============================================================================
