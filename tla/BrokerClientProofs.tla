------------------------ MODULE BrokerClientProofs -------------------------
(***************************************************************************)
(* Theorems about BrokerClient, for any number of connections and outages.  *)
(***************************************************************************)
EXTENDS BrokerClient, TLAPS

USE ConnsAssumption, OutagesAssumption

----------------------------------------------------------------------------
(* The inductive invariant *)

Signalling == {k \in Conns : handler[k] = "signal"}

\* A call for recovery is in one place at most, on its way from a handler through
\* reconnectChan to the loop, and while it is there nobody else connects.
OneRecovery ==
    ~closed =>
        /\ signal \/ Signalling # {} \/ recovery = "connect" => conn = NoConn
        /\ recovery = "connect" => ~signal /\ Signalling = {}
        /\ signal => Signalling = {}
        /\ \A k, l \in Signalling : k = l

\* Before main() has connected or given up nothing has happened; the loop starts
\* after that.
BootIsFirst ==
    /\ main = "connect" => dialled = {} /\ ~signal
    /\ main \in {"connect", "declare"} => recovery = "wait"

\* NoLostWakeup before the loops are started: a connection that broke during boot
\* has called for recovery already.
WakeupSinceBoot ==
    ~closed /\ conn = NoConn /\ main # "connect" =>
        signal \/ recovery # "wait" \/ Signalling # {}

\* While the callback runs nobody else connects, so a callback that failed leaves
\* nothing open; after Close the loop tries to connect forever.
CallbackIsAlone ==
    /\ closed => recovery = "connect"
    /\ ~closed /\ recovery = "declare" => conn \in {recoveryConn, NoConn}
    /\ ~closed /\ recovery = "close" => open = {}

\* The inductive invariant behind the safety of the client (client.go:36-183).
InductiveInv ==
    /\ TypeOK
    /\ NoLeakedConnection
    /\ HandlersAreCurrent
    /\ OneRecovery
    /\ BootIsFirst
    /\ WakeupSinceBoot
    /\ CallbackIsAlone

----------------------------------------------------------------------------
(* Types *)

\* Nothing is dialled at first.
LEMMA InitTypeOK == Init => TypeOK
<1> SUFFICES ASSUME Init PROVE TypeOK
  OBVIOUS
<1>1. handler \in [Conns -> {"none", "watch", "signal", "ended"}]
  BY DEF Init
<1>2. \A k \in Conns : handler[k] = "none" <=> k \notin dialled
  BY DEF Init
<1>3. outages \in 0 .. MaxOutages
  BY DEF Init
<1> QED
  BY <1>1, <1>2, <1>3 DEF Init, TypeOK

\* Connect dials a connection and gives it a handler.
LEMMA ConnectType ==
  ASSUME TypeOK, NEW k \in Conns, Connect(k)
  PROVE  /\ dialled' \subseteq Conns
         /\ open' \subseteq dialled'
         /\ conn' \in dialled'
         /\ dialled \subseteq dialled'
         /\ handler' \in [Conns -> {"none", "watch", "signal", "ended"}]
         /\ \A l \in Conns : handler'[l] = "none" <=> l \notin dialled'
  BY DEF TypeOK, Connect

\* Every step keeps the types (client.go:36-183).
LEMMA TypeOKStep == TypeOK /\ [Next]_vars => TypeOK'
<1> SUFFICES ASSUME TypeOK, [Next]_vars PROVE TypeOK'
  OBVIOUS
<1> USE DEF TypeOK
<1>1. ASSUME NEW k \in Conns, Forget(k) PROVE TypeOK'
  BY <1>1 DEF Forget, brokerVars, recoveryVars, workerVars
<1>2. ASSUME NEW k \in Conns, SignalRecovery(k) PROVE TypeOK'
  BY <1>2 DEF SignalRecovery, Signal, brokerVars, recoveryVars, workerVars
<1>3. CASE BootConnects
  BY <1>3, ConnectType DEF BootConnects, Connect, brokerVars, recoveryVars, workerVars
<1>4. CASE BootGoesOn
  BY <1>4 DEF BootGoesOn, Signal, brokerVars, recoveryVars, workerVars
<1>5. CASE BootDeclares
  BY <1>5 DEF BootDeclares, clientVars, recoveryVars, workerVars
<1>6. CASE TakeSignal
  BY <1>6 DEF TakeSignal, brokerVars, workerVars
<1>7. CASE Reconnect
  BY <1>7, ConnectType DEF Reconnect, Connect, brokerVars, workerVars
<1>8. CASE CallbackGetsChannel
  BY <1>8 DEF CallbackGetsChannel, brokerVars, clientVars, workerVars
<1>9. CASE CallbackDeclares
  BY <1>9 DEF CallbackDeclares, clientVars, workerVars
<1>10. CASE CloseClient
  BY <1>10 DEF CloseClient, brokerVars, workerVars
<1>11. CASE StartConsumer
  BY <1>11 DEF StartConsumer, brokerVars, clientVars, recoveryVars
<1>12. CASE Consume
  BY <1>12 DEF Consume, brokerVars, clientVars, recoveryVars
<1>13. CASE StopConsuming
  BY <1>13 DEF StopConsuming, brokerVars, clientVars, recoveryVars
<1>14. CASE PublishTooEarly
  BY <1>14 DEF PublishTooEarly, brokerVars, clientVars, recoveryVars, workerVars
<1>15. CASE Outage
  BY <1>15 DEF Outage, clientVars, recoveryVars, workerVars
<1>16. CASE BrokerReturns
  BY <1>16 DEF BrokerReturns, clientVars, recoveryVars, workerVars
<1>17. CASE UNCHANGED vars
  BY <1>17 DEF vars, brokerVars, clientVars, recoveryVars, workerVars
<1> QED
  BY <1>1, <1>2, <1>3, <1>4, <1>5, <1>6, <1>7, <1>8, <1>9, <1>10, <1>11, <1>12,
     <1>13, <1>14, <1>15, <1>16, <1>17
     DEF Next, HandlerRuns, MainRuns, RecoveryRuns, WorkerRuns

\* Every variable keeps its type (client.go:14-25).
THEOREM TypeCorrect == Spec => []TypeOK
<1>1. Init => TypeOK
  BY InitTypeOK
<1>2. TypeOK /\ [Next]_vars => TypeOK'
  BY TypeOKStep
<1> QED
  BY <1>1, <1>2, PTL DEF Spec

----------------------------------------------------------------------------
(* Connections and recovery *)

Ownership == NoLeakedConnection /\ HandlersAreCurrent
Recovering == OneRecovery /\ BootIsFirst /\ WakeupSinceBoot /\ CallbackIsAlone

\* The initial states have no connection and no call for recovery.
LEMMA InitInvariant == Init => InductiveInv
  BY InitTypeOK DEF Init, InductiveInv, NoLeakedConnection, HandlersAreCurrent,
     OneRecovery, BootIsFirst, WakeupSinceBoot, CallbackIsAlone, Signalling

\* Whoever dials finds the client without a connection and without a handler that
\* is still to run, so the new connection is the only one (client.go:36-67).
LEMMA ConnectInvariant ==
  ASSUME TypeOK, Ownership, NEW k \in Conns, Connect(k), conn = NoConn
  PROVE  /\ open' = {k}
         /\ conn' = k
         /\ \A l \in Conns : handler'[l] = "watch" <=> l = k
         /\ \A l \in Conns : handler'[l] = "signal" <=> handler[l] = "signal"
<1>1. open = {}
  BY DEF TypeOK, Ownership, NoLeakedConnection
<1>2. \A l \in Conns : handler[l] # "watch"
  BY DEF TypeOK, Connect, Ownership, HandlersAreCurrent
<1>3. handler[k] = "none"
  BY DEF TypeOK, Connect
<1> QED
  BY <1>1, <1>2, <1>3 DEF TypeOK, Connect

\* Every step keeps the connection with its owner and the one call for recovery.
LEMMA InvariantStep == InductiveInv /\ [Next]_vars => InductiveInv'
<1> SUFFICES ASSUME InductiveInv, [Next]_vars PROVE InductiveInv'
  OBVIOUS
<1>0. TypeOK /\ TypeOK'
  BY TypeOKStep DEF InductiveInv
<1> SUFFICES (Ownership /\ Recovering)'
  BY <1>0 DEF InductiveInv, Ownership, Recovering
<1>a. Ownership /\ Recovering
  BY DEF InductiveInv, Ownership, Recovering
<1> USE DEF Ownership, Recovering, NoLeakedConnection, HandlersAreCurrent, OneRecovery,
            BootIsFirst, WakeupSinceBoot, CallbackIsAlone, Signalling
<1>1. ASSUME NEW k \in Conns, Forget(k) PROVE (Ownership /\ Recovering)'
  BY <1>0, <1>1, <1>a DEF TypeOK, Forget, recoveryVars
<1>2. ASSUME NEW k \in Conns, SignalRecovery(k) PROVE (Ownership /\ Recovering)'
  BY <1>0, <1>2, <1>a DEF TypeOK, SignalRecovery, Signal, recoveryVars
<1>3. CASE BootConnects
  BY <1>0, <1>3, <1>a, ConnectInvariant DEF TypeOK, BootConnects, recoveryVars
<1>4. CASE BootGoesOn
  BY <1>0, <1>4, <1>a DEF TypeOK, BootGoesOn, Signal, recoveryVars
<1>5. CASE BootDeclares
  BY <1>0, <1>5, <1>a DEF TypeOK, BootDeclares, clientVars, recoveryVars
<1>6. CASE TakeSignal
  BY <1>0, <1>6, <1>a DEF TypeOK, TakeSignal
<1>7. CASE Reconnect
  <2>1. PICK k \in Conns : Connect(k)
    BY <1>7 DEF Reconnect
  <2>2. recovery = "connect" /\ recovery' = "channel" /\ UNCHANGED <<closed, signal, main>>
    BY <1>7 DEF Reconnect
  <2>3. ~closed /\ conn = NoConn /\ ~signal /\ Signalling = {}
    BY <2>1, <2>2, <1>a DEF Connect
  <2>4. /\ open' = {k} /\ conn' = k
        /\ \A l \in Conns : handler'[l] = "watch" <=> l = k
        /\ \A l \in Conns : handler'[l] = "signal" <=> handler[l] = "signal"
    BY <1>0, <1>a, <2>1, <2>3, ConnectInvariant
  <2>5. Signalling' = {}
    BY <2>3, <2>4
  <2>6. main \notin {"connect", "declare"}
    BY <2>2, <1>a
  <2> QED
    BY <2>2, <2>3, <2>4, <2>5, <2>6
<1>8. CASE CallbackGetsChannel
  BY <1>0, <1>8, <1>a DEF TypeOK, CallbackGetsChannel, clientVars
<1>9. CASE CallbackDeclares
  BY <1>0, <1>9, <1>a DEF TypeOK, CallbackDeclares, clientVars
<1>10. CASE CloseClient
  BY <1>0, <1>10, <1>a DEF TypeOK, CloseClient
<1>11. CASE StartConsumer
  BY <1>11, <1>a DEF StartConsumer, clientVars, recoveryVars
<1>12. CASE Consume
  BY <1>12, <1>a DEF Consume, clientVars, recoveryVars
<1>13. CASE StopConsuming
  BY <1>13, <1>a DEF StopConsuming, clientVars, recoveryVars
<1>14. CASE PublishTooEarly
  BY <1>14, <1>a DEF PublishTooEarly, clientVars, recoveryVars
<1>15. CASE Outage
  BY <1>15, <1>a DEF Outage, clientVars, recoveryVars
<1>16. CASE BrokerReturns
  BY <1>16, <1>a DEF BrokerReturns, clientVars, recoveryVars
<1>17. CASE UNCHANGED vars
  BY <1>17, <1>a DEF vars, clientVars, recoveryVars
<1> QED
  BY <1>1, <1>2, <1>3, <1>4, <1>5, <1>6, <1>7, <1>8, <1>9, <1>10, <1>11, <1>12,
     <1>13, <1>14, <1>15, <1>16, <1>17
     DEF Next, HandlerRuns, MainRuns, RecoveryRuns, WorkerRuns

\* The safety of the client rests on one inductive invariant (client.go:36-183).
THEOREM ClientInvariant == Spec => []InductiveInv
<1>1. Init => InductiveInv
  BY InitInvariant
<1>2. InductiveInv /\ [Next]_vars => InductiveInv'
  BY InvariantStep
<1> QED
  BY <1>1, <1>2, PTL DEF Spec

\* No connection is left open without an owner (client.go:36-67, 84-97).
THEOREM ConnectionsAreNotLeaked == Spec => []NoLeakedConnection
<1>1. InductiveInv => NoLeakedConnection
  BY DEF InductiveInv
<1> QED
  BY <1>1, ClientInvariant, PTL

\* No handler closes a connection newer than its own (client.go:84-97).
THEOREM HandlersStayCurrent == Spec => []HandlersAreCurrent
<1>1. InductiveInv => HandlersAreCurrent
  BY DEF InductiveInv
<1> QED
  BY <1>1, ClientInvariant, PTL

\* The one-place reconnectChan loses no wake-up (client.go:99-114).
THEOREM WakeupsAreNotLost == Spec => []NoLostWakeup
<1>1. InductiveInv => NoLostWakeup
  BY DEF InductiveInv, WakeupSinceBoot, NoLostWakeup, Signalling
<1> QED
  BY <1>1, ClientInvariant, PTL

----------------------------------------------------------------------------
(* The connection as CommandBus sees it *)

\* A step of the client moves its connection as CommandBus allows.
LEMMA LinkStep ==
  ASSUME InductiveInv, [Next]_vars
  PROVE  [Link' # Link => <<Link, Link'>> \in LinkMoves]_vars
<1> USE DEF InductiveInv, TypeOK, Link, LinkMoves, NoLeakedConnection
<1>1. ASSUME NEW k \in Conns, Forget(k) PROVE Link' # Link => <<Link, Link'>> \in LinkMoves
  BY <1>1 DEF Forget, HandlersAreCurrent
<1>2. ASSUME NEW k \in Conns, SignalRecovery(k) PROVE Link' = Link
  BY <1>2 DEF SignalRecovery
<1>3. ASSUME NEW k \in Conns, Connect(k), conn = NoConn, closed' = closed
      PROVE  <<Link, Link'>> \in LinkMoves
  BY <1>3 DEF Connect
<1>4. CASE BootConnects
  BY <1>3, <1>4 DEF BootConnects, BootIsFirst
<1>5. CASE BootGoesOn
  BY <1>5 DEF BootGoesOn
<1>6. CASE BootDeclares
  BY <1>6 DEF BootDeclares, clientVars
<1>7. CASE TakeSignal
  BY <1>7 DEF TakeSignal
<1>8. CASE Reconnect
  BY <1>3, <1>8 DEF Reconnect, Connect, OneRecovery
<1>9. CASE CallbackGetsChannel
  BY <1>9 DEF CallbackGetsChannel, clientVars
<1>10. CASE CallbackDeclares
  BY <1>10 DEF CallbackDeclares, clientVars
<1>11. CASE CloseClient
  BY <1>11 DEF CloseClient, CallbackIsAlone
<1>12. CASE StartConsumer
  BY <1>12 DEF StartConsumer, clientVars
<1>13. CASE Consume
  BY <1>13 DEF Consume, clientVars
<1>14. CASE StopConsuming
  BY <1>14 DEF StopConsuming, clientVars
<1>15. CASE PublishTooEarly
  BY <1>15 DEF PublishTooEarly, clientVars
<1>16. CASE Outage
  BY <1>16 DEF Outage, clientVars
<1>17. CASE BrokerReturns
  BY <1>17 DEF BrokerReturns, clientVars
<1>18. CASE UNCHANGED vars
  BY <1>18
<1> QED
  BY <1>1, <1>2, <1>4, <1>5, <1>6, <1>7, <1>8, <1>9, <1>10, <1>11, <1>12, <1>13,
     <1>14, <1>15, <1>16, <1>17, <1>18
     DEF Next, HandlerRuns, MainRuns, RecoveryRuns, WorkerRuns

\* The client never dials beside a connection it has, and Close never hits one
\* that works: the moves of link in CommandBus are all there are (client.go:123-134).
THEOREM MovesLikeCommandBus == Spec => LinkMovesLikeCommandBus
<1>1. InductiveInv /\ [Next]_vars => [Link' # Link => <<Link, Link'>> \in LinkMoves]_vars
  BY LinkStep
<1> QED
  BY <1>1, ClientInvariant, PTL DEF Spec, LinkMovesLikeCommandBus
=============================================================================
