------------------------- MODULE CommandBusProofs --------------------------
(***************************************************************************)
(* Proofs about CommandBus, for any number of commands, goroutines,         *)
(* retries and faults.  Each part of InductiveInv has a lemma that says     *)
(* which other parts its step needs; the theorems put them together.        *)
(***************************************************************************)
EXTENDS CommandBus, FiniteSetTheorems, TLAPS

USE CommandsAssumption, MaxRetriesAssumption, MaxFaultsAssumption

----------------------------------------------------------------------------
(* The inductive invariant *)

\* A command in the wait queue has been through the cycle once more than it
\* has come back from it, so counting either hop alone would do.
CycleCounts ==
    \A c \in Commands :
        rejected[c] = expired[c] + (IF place[c] = "wait" THEN 1 ELSE 0)

\* A goroutine that runs has a command of the broker's, one that can settle runs,
\* and the client consumes on a connection that is up.
Running ==
    /\ subscribed => link = "up"
    /\ \A g \in Goroutines : /\ pc[g] # "idle" => cmd[g] \in Accepted
                             /\ g \in live => pc[g] # "idle"

\* A goroutine that parks has seen the last rejection; one that still may reject
\* has not.
RetriesLeft ==
    \A g \in Goroutines :
        /\ pc[g] = "park" => rejected[cmd[g]] = MaxRetries
        /\ g \in live /\ pc[g] \in {"handle", "nack"} => rejected[cmd[g]] < MaxRetries

\* An ack that the broker will apply has its outcome behind it.
AckJustified ==
    \A g \in Goroutines :
        g \in live /\ pc[g] = "ack" =>
            cmd[g] \in Malformed \/ results[cmd[g]] > 0 \/ parked[cmd[g]] > 0

\* The goroutines that can still give c an outcome, or give it back to be tried
\* again.
Trying(c) ==
    {g \in Goroutines : /\ cmd[g] = c
                        /\ \/ pc[g] \in {"handle", "park"}
                           \/ g \in live /\ pc[g] \in {"nack", "requeue"}}

\* A command that is to be delivered, for the first time or again.
Chance(c) == IF place[c] \in {"unpublished", "worker", "wait"} THEN 1 ELSE 0

\* The outcomes of a command and whatever may bring it another are at most one
\* more than the faults, each of which can add a delivery beside a goroutine that
\* goes on.
ChancesNeedFaults ==
    \A c \in Commands :
        /\ IsFiniteSet(Trying(c))
        /\ results[c] + parked[c] + Cardinality(Trying(c)) + Chance(c) <= 1 + faults

\* The inductive invariant behind the safety properties of the command bus
\* (consumer.go:77-130 and the connection life cycle of client.go).
InductiveInv ==
    /\ TypeOK
    /\ Running
    /\ OneOwnerPerDelivery
    /\ CycleCounts
    /\ ParkedAfterMaxRetries
    /\ RetriesLeft
    /\ AckJustified
    /\ NoCommandLost

----------------------------------------------------------------------------
(* Types *)

\* The initial state of the bus has the types of its variables.
LEMMA InitTypeOK == Init => TypeOK
<1> SUFFICES ASSUME Init PROVE TypeOK
  OBVIOUS
<1> USE DEF Init, Links, Places, Steps
<1>1. /\ link \in Links /\ declared \in BOOLEAN /\ subscribed \in BOOLEAN
      /\ live \subseteq Goroutines /\ faults \in Nat
  OBVIOUS
<1>2. place \in [Commands -> Places] /\ pc \in [Goroutines -> Steps]
  OBVIOUS
<1>3. cmd \in [Goroutines -> Commands \union {NoCommand}]
  OBVIOUS
<1>4. /\ rejected \in [Commands -> Nat] /\ expired \in [Commands -> Nat]
      /\ results \in [Commands -> Nat] /\ parked \in [Commands -> Nat]
      /\ swept \in [Commands -> Nat]
  OBVIOUS
<1> QED
  BY <1>1, <1>2, <1>3, <1>4 DEF TypeOK

\* Counting up one entry keeps a function of counters one, also when the entry
\* is not there.
LEMMA CountUp ==
    ASSUME NEW S, NEW f \in [S -> Nat], NEW x
    PROVE  [f EXCEPT ![x] = @ + 1] \in [S -> Nat]
<1>1. CASE x \in S
  BY <1>1
<1>2. CASE x \notin S
  BY <1>2
<1> QED
  BY <1>1, <1>2

\* Giving deliveries back to the queue keeps every command somewhere.
LEMMA GiveBackType ==
    ASSUME place \in [Commands -> Places], GiveBack
    PROVE  place' \in [Commands -> Places]
BY DEF GiveBack, Places

\* Every operation of the consumer, the publishers, the broker and the
\* connection keeps the types.
LEMMA TypeOKStep == TypeOK /\ [Next]_vars => TypeOK'
<1> SUFFICES ASSUME TypeOK, [Next]_vars PROVE TypeOK'
  OBVIOUS
<1> USE DEF TypeOK, Links, Places, Steps, brokerVars, goroutineVars, connectionVars
<1>1. ASSUME NEW c \in Commands, RailsPublishes(c) PROVE TypeOK'
  BY <1>1 DEF RailsPublishes, Put
<1>2. ASSUME NEW c \in Commands, PublishCommand(c) PROVE TypeOK'
  BY <1>2 DEF PublishCommand, Put
<1>3. ASSUME NEW c \in Commands, Expire(c) PROVE TypeOK'
  BY <1>3 DEF Expire
<1>4. ASSUME NEW c \in Commands, Sweep(c) PROVE TypeOK'
  BY <1>4 DEF Sweep
<1>5. ASSUME NEW c \in Commands, NEW g \in Goroutines, Deliver(c, g) PROVE TypeOK'
  BY <1>5 DEF Deliver, FirstStep
<1>6. ASSUME NEW g \in Goroutines, GoroutineStep(g) PROVE TypeOK'
  <2>1. CASE HandlerFails(g)
    BY <2>1 DEF HandlerFails, Goto
  <2>2. CASE HandlerPublishes(g)
    <3>1. results' \in [Commands -> Nat]
      BY <2>2, CountUp DEF HandlerPublishes
    <3> QED
      BY <2>2, <3>1 DEF HandlerPublishes, Goto
  <2>3. CASE ParkCopy(g)
    <3>1. parked' \in [Commands -> Nat]
      BY <2>3, CountUp DEF ParkCopy
    <3> QED
      BY <2>3, <3>1 DEF ParkCopy, Goto
  <2>4. CASE ParkFails(g)
    BY <2>4 DEF ParkFails, Goto
  <2>5. CASE Ack(g)
    BY <2>5 DEF Ack, Finish
  <2>6. CASE Nack(g)
    <3>1. rejected' \in [Commands -> Nat]
      BY <2>6, CountUp DEF Nack
    <3> QED
      BY <2>6, <3>1 DEF Nack, Finish
  <2>7. CASE Requeue(g)
    BY <2>7 DEF Requeue, Finish
  <2> QED
    BY <1>6, <2>1, <2>2, <2>3, <2>4, <2>5, <2>6, <2>7 DEF GoroutineStep
<1>7. CASE Disconnect
  <2>1. place' \in [Commands -> Places]
    BY <1>7, GiveBackType DEF Disconnect
  <2>2. link' \in Links /\ faults' \in Nat
    BY <1>7 DEF Disconnect
  <2>4. subscribed' \in BOOLEAN /\ live' \subseteq Goroutines
    BY <1>7 DEF Disconnect
  <2>3. UNCHANGED <<declared, rejected, expired, results, parked, swept, pc, cmd>>
    BY <1>7 DEF Disconnect
  <2> QED
    BY <2>1, <2>2, <2>3, <2>4
<1>8. CASE NoticeDisconnect
  BY <1>8 DEF NoticeDisconnect
<1>9. CASE Reconnect
  BY <1>9 DEF Reconnect
<1>10. CASE ReconnectCallbackFails
  BY <1>10 DEF ReconnectCallbackFails
<1>11. CASE Subscribe
  BY <1>11 DEF Subscribe
<1>12. CASE Crash
  <2>1. place' \in [Commands -> Places]
    BY <1>12, GiveBackType DEF Crash
  <2>2. pc' \in [Goroutines -> Steps] /\ cmd' \in [Goroutines -> Commands \union {NoCommand}]
    BY <1>12 DEF Crash
  <2>3. link' \in Links /\ faults' \in Nat
    BY <1>12 DEF Crash
  <2>5. subscribed' \in BOOLEAN /\ live' \subseteq Goroutines
    BY <1>12 DEF Crash
  <2>4. UNCHANGED <<declared, rejected, expired, results, parked, swept>>
    BY <1>12 DEF Crash
  <2> QED
    BY <2>1, <2>2, <2>3, <2>4, <2>5
<1>13. CASE UNCHANGED vars
  BY <1>13 DEF vars
<1> QED
  BY <1>1, <1>2, <1>3, <1>4, <1>5, <1>6, <1>7, <1>8, <1>9, <1>10, <1>11, <1>12, <1>13
  DEF Next

\* Type correctness: TypeOK holds in every state of the command bus.
THEOREM TypeCorrect == Spec => []TypeOK
BY InitTypeOK, TypeOKStep, PTL DEF Spec

----------------------------------------------------------------------------
(* Who may settle a delivery *)

\* The initial state has no delivery.
LEMMA InitOwners == Init => Running /\ OneOwnerPerDelivery
BY DEF Init, Running, OneOwnerPerDelivery, Unacked

\* Every unacked command keeps exactly one goroutine on the open connection: the
\* connection takes all of them away at once, and a settlement takes one.
LEMMA OwnersStep ==
    ASSUME TypeOK, Running, OneOwnerPerDelivery, [Next]_vars
    PROVE  Running' /\ OneOwnerPerDelivery'
<1> USE DEF TypeOK, Running, OneOwnerPerDelivery, Unacked, Accepted,
            brokerVars, goroutineVars, connectionVars
<1>0. live' \subseteq Goroutines
  BY TypeOKStep
<1>1. ASSUME NEW c \in Commands, RailsPublishes(c)
      PROVE  Running' /\ OneOwnerPerDelivery'
  BY <1>1 DEF RailsPublishes, Put
<1>2. ASSUME NEW c \in Commands, PublishCommand(c)
      PROVE  Running' /\ OneOwnerPerDelivery'
  BY <1>2 DEF PublishCommand, Put
<1>3. ASSUME NEW c \in Commands, Expire(c)
      PROVE  Running' /\ OneOwnerPerDelivery'
  BY <1>3 DEF Expire
<1>4. ASSUME NEW c \in Commands, Sweep(c)
      PROVE  Running' /\ OneOwnerPerDelivery'
  BY <1>4 DEF Sweep
<1>5. ASSUME NEW c \in Commands, NEW g \in Goroutines, Deliver(c, g)
      PROVE  Running' /\ OneOwnerPerDelivery'
  <2>1. Running'
    BY <1>5 DEF Deliver, FirstStep
  <2>2. \A h \in Goroutines : h # g => (h \in live' <=> h \in live) /\ cmd'[h] = cmd[h]
    BY <1>5 DEF Deliver
  <2>3. g \in live' /\ cmd'[g] = c
    BY <1>5 DEF Deliver
  <2>4. \A h \in live : cmd[h] # c
    BY <1>5 DEF Deliver
  <2>5. \A h \in live' : link' = "up" /\ cmd'[h] \in Unacked'
    BY <1>5, <2>2, <2>3 DEF Deliver
  <2>6. \A d \in Unacked' : \E h \in live' : cmd'[h] = d
    <3>1. ASSUME NEW d \in Unacked', d # c
          PROVE  \E h \in live' : cmd'[h] = d
      <4>1. d \in Unacked
        BY <1>5, <3>1 DEF Deliver
      <4>2. PICK h \in live : cmd[h] = d
        BY <4>1
      <4>3. h # g
        BY <1>5, <4>2 DEF Deliver
      <4> QED
        BY <4>2, <4>3, <2>2
    <3> QED
      BY <3>1, <2>3
  <2>7. \A h, k \in live' : cmd'[h] = cmd'[k] => h = k
    BY <1>0, <2>2, <2>3, <2>4
  <2> QED
    BY <2>1, <2>5, <2>6, <2>7 DEF OneOwnerPerDelivery
<1>6. ASSUME NEW g \in Goroutines, GoroutineStep(g)
      PROVE  Running' /\ OneOwnerPerDelivery'
  <2>1. ASSUME NEW from, NEW to, Goto(g, from, to), from # "idle", to # "idle",
               UNCHANGED <<place, link, subscribed>>
        PROVE  Running' /\ OneOwnerPerDelivery'
    BY <2>1 DEF Goto
  <2>2. ASSUME NEW step, NEW to, Finish(g, step, to), step # "idle",
               to \in {"settled", "wait", "worker"}
        PROVE  Running' /\ OneOwnerPerDelivery'
    <3>1. Running'
      <4>1. ASSUME NEW h \in Goroutines, pc'[h] # "idle" PROVE cmd'[h] \in Accepted'
        BY <2>2, <4>1 DEF Finish
      <4> QED
        BY <2>2, <4>1 DEF Finish
    <3>2. \A h \in Goroutines : h # g => (h \in live' <=> h \in live) /\ cmd'[h] = cmd[h]
      BY <2>2 DEF Finish
    <3>3. g \notin live' /\ link' = link
      BY <2>2 DEF Finish
    <3>4. cmd[g] \in Commands
      BY <2>2 DEF Finish
    <3>5. \A c \in Commands : place'[c] = "unacked" <=>
              place[c] = "unacked" /\ ~(g \in live /\ cmd[g] = c)
      BY <2>2, <3>4 DEF Finish
    <3>6. \A h \in live' : link' = "up" /\ cmd'[h] \in Unacked'
      BY <1>0, <3>2, <3>3, <3>5
    <3>7. \A d \in Unacked' : \E h \in live' : cmd'[h] = d
      BY <3>2, <3>5
    <3> QED
      BY <1>0, <3>1, <3>2, <3>3, <3>6, <3>7
  <2>3. CASE HandlerFails(g)
    BY <2>3, <2>1 DEF HandlerFails
  <2>4. CASE HandlerPublishes(g)
    BY <2>4, <2>1 DEF HandlerPublishes
  <2>5. CASE ParkCopy(g)
    BY <2>5, <2>1 DEF ParkCopy
  <2>6. CASE ParkFails(g)
    BY <2>6, <2>1 DEF ParkFails
  <2>7. CASE Ack(g)
    BY <2>7, <2>2 DEF Ack
  <2>8. CASE Nack(g)
    BY <2>8, <2>2 DEF Nack
  <2>9. CASE Requeue(g)
    BY <2>9, <2>2 DEF Requeue
  <2> QED
    BY <1>6, <2>3, <2>4, <2>5, <2>6, <2>7, <2>8, <2>9 DEF GoroutineStep
<1>7. CASE Disconnect
  BY <1>7 DEF Disconnect, GiveBack
<1>8. CASE NoticeDisconnect
  BY <1>8 DEF NoticeDisconnect
<1>9. CASE Reconnect
  BY <1>9 DEF Reconnect
<1>10. CASE ReconnectCallbackFails
  BY <1>10 DEF ReconnectCallbackFails
<1>11. CASE Subscribe
  BY <1>11 DEF Subscribe
<1>12. CASE Crash
  BY <1>12 DEF Crash, GiveBack
<1>13. CASE UNCHANGED vars
  BY <1>13 DEF vars
<1> QED
  BY <1>1, <1>2, <1>3, <1>4, <1>5, <1>6, <1>7, <1>8, <1>9, <1>10, <1>11, <1>12, <1>13
  DEF Next

----------------------------------------------------------------------------
(* Retries *)

\* Nothing was rejected before the first delivery.
LEMMA InitRetries == Init => CycleCounts /\ ParkedAfterMaxRetries /\ RetriesLeft
BY DEF Init, CycleCounts, ParkedAfterMaxRetries, RetriesLeft

\* The two dead-letter hops count in step, and only the owner of a delivery that
\* has retries left can reject it.
LEMMA RetriesStep ==
    ASSUME TypeOK, Running, OneOwnerPerDelivery,
           CycleCounts, ParkedAfterMaxRetries, RetriesLeft, [Next]_vars
    PROVE  CycleCounts' /\ ParkedAfterMaxRetries' /\ RetriesLeft'
<1> USE DEF TypeOK, CycleCounts, ParkedAfterMaxRetries, RetriesLeft,
            brokerVars, goroutineVars, connectionVars
<1> DEFINE Goal == CycleCounts' /\ ParkedAfterMaxRetries' /\ RetriesLeft'
<1>1. ASSUME NEW c \in Commands, RailsPublishes(c) PROVE Goal
  BY <1>1 DEF RailsPublishes, Put
<1>2. ASSUME NEW c \in Commands, PublishCommand(c) PROVE Goal
  BY <1>2 DEF PublishCommand, Put
<1>3. ASSUME NEW c \in Commands, Expire(c) PROVE Goal
  <2>1. \A d \in Commands : rejected'[d] = rejected[d] /\ parked'[d] = parked[d]
    BY <1>3 DEF Expire
  <2>2. CycleCounts'
    BY <1>3 DEF Expire
  <2>3. ParkedAfterMaxRetries'
    BY <2>1
  <2>4. RetriesLeft'
    BY <1>3 DEF Expire
  <2> QED
    BY <2>2, <2>3, <2>4
<1>4. ASSUME NEW c \in Commands, Sweep(c) PROVE Goal
  BY <1>4 DEF Sweep
<1>5. ASSUME NEW c \in Commands, NEW g \in Goroutines, Deliver(c, g) PROVE Goal
  <2>1. CycleCounts' /\ ParkedAfterMaxRetries'
    BY <1>5 DEF Deliver
  <2>2. rejected[c] = expired[c] /\ rejected[c] \in Nat /\ rejected[c] <= MaxRetries
    BY <1>5 DEF Deliver
  <2>3. FirstStep(c) = "park" => rejected[c] = MaxRetries
    BY <2>2 DEF FirstStep, Exhausted, RetryCount
  <2>4. FirstStep(c) \in {"handle", "nack"} => rejected[c] < MaxRetries
    BY <2>2 DEF FirstStep, Exhausted, RetryCount
  <2>5. pc'[g] = FirstStep(c) /\ cmd'[g] = c /\ rejected' = rejected
    BY <1>5 DEF Deliver
  <2>6. \A h \in Goroutines : h # g =>
            pc'[h] = pc[h] /\ cmd'[h] = cmd[h] /\ (h \in live' <=> h \in live)
    BY <1>5 DEF Deliver
  <2>7. RetriesLeft'
    BY <2>3, <2>4, <2>5, <2>6
  <2> QED
    BY <2>1, <2>7
<1>6. ASSUME NEW g \in Goroutines, GoroutineStep(g) PROVE Goal
  <2>1. CASE HandlerFails(g)
    BY <2>1 DEF HandlerFails, Goto
  <2>2. CASE HandlerPublishes(g)
    BY <2>2 DEF HandlerPublishes, Goto
  <2>3. CASE ParkCopy(g)
    <3>1. rejected[cmd[g]] = MaxRetries
      BY <2>3 DEF ParkCopy, Goto
    <3>2. \A d \in Commands : parked'[d] = parked[d] \/ d = cmd[g]
      BY <2>3 DEF ParkCopy
    <3>3. UNCHANGED <<rejected, expired, place, cmd, live>>
      BY <2>3 DEF ParkCopy, Goto
    <3>4. CycleCounts' /\ ParkedAfterMaxRetries'
      BY <3>1, <3>2, <3>3
    <3>5. RetriesLeft'
      BY <2>3, <3>3 DEF ParkCopy, Goto
    <3> QED
      BY <3>4, <3>5
  <2>4. CASE ParkFails(g)
    BY <2>4 DEF ParkFails, Goto
  <2>5. CASE Ack(g) \/ Requeue(g)
    <3>1. UNCHANGED <<rejected, expired, parked>>
      BY <2>5 DEF Ack, Requeue, Finish
    <3>2. \A d \in Commands : place'[d] = "wait" <=> place[d] = "wait"
      BY <2>5 DEF Ack, Requeue, Finish, Running, OneOwnerPerDelivery, Unacked
    <3>3. CycleCounts' /\ ParkedAfterMaxRetries'
      BY <3>1, <3>2
    <3>4. RetriesLeft'
      BY <2>5, <3>1 DEF Ack, Requeue, Finish
    <3> QED
      BY <3>3, <3>4
  <2>6. CASE Nack(g)
    <3>1. CASE g \notin live
      <4>1. UNCHANGED <<place, rejected, expired, parked>>
        BY <2>6, <3>1 DEF Nack, Finish
      <4> QED
        BY <2>6, <4>1 DEF Nack, Finish
    <3>2. CASE g \in live
      <4>1. cmd[g] \in Commands /\ place[cmd[g]] = "unacked"
        BY <3>2 DEF OneOwnerPerDelivery, Unacked
      <4>2. rejected[cmd[g]] < MaxRetries
        BY <2>6, <3>2 DEF Nack, Finish
      <4>3. /\ place'[cmd[g]] = "wait"
            /\ rejected'[cmd[g]] = rejected[cmd[g]] + 1
            /\ \A d \in Commands : d # cmd[g] =>
                   place'[d] = place[d] /\ rejected'[d] = rejected[d]
        BY <2>6, <3>2, <4>1 DEF Nack, Finish
      <4>4. UNCHANGED <<expired, parked>>
        BY <2>6 DEF Nack, Finish
      <4>5. CycleCounts'
        BY <4>1, <4>3, <4>4
      <4>6. ParkedAfterMaxRetries'
        BY <4>1, <4>2, <4>3, <4>4
      <4>7. pc'[g] = "idle" /\ \A h \in Goroutines : h # g =>
                pc'[h] = pc[h] /\ cmd'[h] = cmd[h] /\ (h \in live' <=> h \in live)
        BY <2>6 DEF Nack, Finish
      <4>8. \A h \in Goroutines : pc[h] = "park" => cmd[h] # cmd[g]
        BY <4>2
      <4>9. \A h \in live : h # g => cmd[h] # cmd[g]
        BY <3>2 DEF OneOwnerPerDelivery
      <4>10. \A h \in Goroutines : pc[h] # "idle" => cmd[h] \in Commands
        BY DEF Running, Accepted
      <4>11. RetriesLeft'
        BY <4>3, <4>7, <4>8, <4>9, <4>10
      <4> QED
        BY <4>5, <4>6, <4>11
    <3> QED
      BY <3>1, <3>2
  <2> QED
    BY <1>6, <2>1, <2>2, <2>3, <2>4, <2>5, <2>6 DEF GoroutineStep
<1>7. CASE Disconnect
  BY <1>7 DEF Disconnect, GiveBack
<1>8. CASE NoticeDisconnect
  BY <1>8 DEF NoticeDisconnect
<1>9. CASE Reconnect
  BY <1>9 DEF Reconnect
<1>10. CASE ReconnectCallbackFails
  BY <1>10 DEF ReconnectCallbackFails
<1>11. CASE Subscribe
  BY <1>11 DEF Subscribe
<1>12. CASE Crash
  BY <1>12 DEF Crash, GiveBack
<1>13. CASE UNCHANGED vars
  BY <1>13 DEF vars
<1> QED
  BY <1>1, <1>2, <1>3, <1>4, <1>5, <1>6, <1>7, <1>8, <1>9, <1>10, <1>11, <1>12, <1>13
  DEF Next

----------------------------------------------------------------------------
(* Outcomes *)

\* Nothing is settled at the start.
LEMMA InitOutcomes == Init => AckJustified /\ NoCommandLost
BY DEF Init, AckJustified, NoCommandLost

\* Outcomes never go away, and the broker applies an ack only while the
\* connection that carried the outcome is still there.
LEMMA OutcomesStep ==
    ASSUME TypeOK, Running, OneOwnerPerDelivery, AckJustified, NoCommandLost, [Next]_vars
    PROVE  AckJustified' /\ NoCommandLost'
<1> USE DEF TypeOK, AckJustified, NoCommandLost, brokerVars, goroutineVars, connectionVars
<1> DEFINE Goal == AckJustified' /\ NoCommandLost'
<1>1. ASSUME NEW c \in Commands, RailsPublishes(c) PROVE Goal
  BY <1>1 DEF RailsPublishes, Put
<1>2. ASSUME NEW c \in Commands, PublishCommand(c) PROVE Goal
  BY <1>2 DEF PublishCommand, Put
<1>3. ASSUME NEW c \in Commands, Expire(c) PROVE Goal
  BY <1>3 DEF Expire
<1>4. ASSUME NEW c \in Commands, Sweep(c) PROVE Goal
  BY <1>4 DEF Sweep
<1>5. ASSUME NEW c \in Commands, NEW g \in Goroutines, Deliver(c, g) PROVE Goal
  BY <1>5 DEF Deliver, FirstStep
<1>6. ASSUME NEW g \in Goroutines, GoroutineStep(g) PROVE Goal
  <2>1. CASE HandlerFails(g)
    BY <2>1 DEF HandlerFails, Goto
  <2>2. CASE HandlerPublishes(g)
    <3>1. \A c \in Commands : results[c] > 0 => results'[c] > 0
      BY <2>2 DEF HandlerPublishes
    <3>2. g \in live => link = "up" /\ cmd[g] \in Commands
      BY DEF OneOwnerPerDelivery, Unacked
    <3>3. g \in live => results'[cmd[g]] > 0
      BY <2>2, <3>2 DEF HandlerPublishes
    <3>4. UNCHANGED <<place, parked, cmd, live>>
      BY <2>2 DEF HandlerPublishes, Goto
    <3>5. \A h \in Goroutines : h # g => pc'[h] = pc[h]
      BY <2>2 DEF HandlerPublishes, Goto
    <3>6. \A h \in live : cmd[h] \in Commands
      BY DEF OneOwnerPerDelivery, Unacked
    <3>7. AckJustified'
      BY <3>1, <3>3, <3>4, <3>5, <3>6
    <3>8. NoCommandLost'
      BY <3>1, <3>4
    <3> QED
      BY <3>7, <3>8
  <2>3. CASE ParkCopy(g)
    <3>1. \A c \in Commands : parked[c] > 0 => parked'[c] > 0
      BY <2>3 DEF ParkCopy
    <3>2. \A h \in live : cmd[h] \in Commands
      BY DEF OneOwnerPerDelivery, Unacked
    <3>3. g \in live => parked'[cmd[g]] > 0
      BY <2>3, <3>2 DEF ParkCopy
    <3>4. UNCHANGED <<place, results, cmd, live>>
      BY <2>3 DEF ParkCopy, Goto
    <3>5. \A h \in Goroutines : h # g => pc'[h] = pc[h]
      BY <2>3 DEF ParkCopy, Goto
    <3>6. AckJustified'
      BY <3>1, <3>2, <3>3, <3>4, <3>5
    <3>7. NoCommandLost'
      BY <3>1, <3>4
    <3> QED
      BY <3>6, <3>7
  <2>4. CASE ParkFails(g)
    BY <2>4 DEF ParkFails, Goto
  <2>5. CASE Ack(g)
    BY <2>5 DEF Ack, Finish
  <2>6. CASE Nack(g) \/ Requeue(g)
    BY <2>6 DEF Nack, Requeue, Finish
  <2> QED
    BY <1>6, <2>1, <2>2, <2>3, <2>4, <2>5, <2>6 DEF GoroutineStep
<1>7. CASE Disconnect
  BY <1>7 DEF Disconnect, GiveBack
<1>8. CASE NoticeDisconnect
  BY <1>8 DEF NoticeDisconnect
<1>9. CASE Reconnect
  BY <1>9 DEF Reconnect
<1>10. CASE ReconnectCallbackFails
  BY <1>10 DEF ReconnectCallbackFails
<1>11. CASE Subscribe
  BY <1>11 DEF Subscribe
<1>12. CASE Crash
  BY <1>12 DEF Crash, GiveBack
<1>13. CASE UNCHANGED vars
  BY <1>13 DEF vars
<1> QED
  BY <1>1, <1>2, <1>3, <1>4, <1>5, <1>6, <1>7, <1>8, <1>9, <1>10, <1>11, <1>12, <1>13
  DEF Next

----------------------------------------------------------------------------
(* The theorems *)

\* InductiveInv holds in every state of the command bus, whatever the number of
\* commands, goroutines, retries and faults.
THEOREM InductiveInvariant == Spec => []InductiveInv
<1>1. Init => InductiveInv
  BY InitTypeOK, InitOwners, InitRetries, InitOutcomes DEF InductiveInv
<1>2. InductiveInv /\ [Next]_vars => InductiveInv'
  BY TypeOKStep, OwnersStep, RetriesStep, OutcomesStep DEF InductiveInv
<1> QED
  BY <1>1, <1>2, PTL DEF Spec

\* At least once: no decodable command is settled without a result or a parked
\* copy (consumer.go:112-127).
THEOREM CommandsAreNotLost == Spec => []NoCommandLost
<1>1. InductiveInv => NoCommandLost
  BY DEF InductiveInv
<1> QED
  BY <1>1, InductiveInvariant, PTL

\* Each unsettled delivery has one owner, and goroutines of older connections
\* settle nothing (consumer.go:72).
THEOREM DeliveriesAreOwned == Spec => []OneOwnerPerDelivery
<1>1. InductiveInv => OneOwnerPerDelivery
  BY DEF InductiveInv
<1> QED
  BY <1>1, InductiveInvariant, PTL

\* A command is parked after exactly MaxRetries rejections, and the x-death
\* counts of the two queues agree (consumer.go:90, consumer.go:132).
THEOREM RetriesAreBounded == Spec => [](ParkedAfterMaxRetries /\ CycleCounts)
<1>1. InductiveInv => ParkedAfterMaxRetries /\ CycleCounts
  BY DEF InductiveInv
<1> QED
  BY <1>1, InductiveInvariant, PTL

----------------------------------------------------------------------------
(* Duplicates *)

\* Whatever is left of a finite set is finite and no larger.
LEMMA FewerElements ==
    ASSUME NEW S, IsFiniteSet(S), NEW T, T \subseteq S
    PROVE  /\ IsFiniteSet(T)
           /\ Cardinality(T) \in Nat /\ Cardinality(S) \in Nat
           /\ Cardinality(T) <= Cardinality(S)
BY FS_Subset, FS_CardinalityType

\* One element more is one more at most.
LEMMA OneMore ==
    ASSUME NEW S, IsFiniteSet(S), NEW x, NEW T, T \subseteq S \union {x}
    PROVE  /\ IsFiniteSet(T)
           /\ Cardinality(T) \in Nat /\ Cardinality(S) \in Nat
           /\ Cardinality(T) <= Cardinality(S) + 1
<1>0. Cardinality(S) \in Nat
  BY FS_CardinalityType
<1>1. /\ IsFiniteSet(S \union {x})
      /\ Cardinality(S \union {x}) =
             IF x \in S THEN Cardinality(S) ELSE Cardinality(S) + 1
  BY FS_AddElement
<1>2. IsFiniteSet(T) /\ Cardinality(T) <= Cardinality(S \union {x}) /\ Cardinality(T) \in Nat
  BY <1>1, FewerElements
<1>3. Cardinality(S \union {x}) \in Nat
  BY <1>1, FS_CardinalityType
<1> QED
  BY <1>0, <1>1, <1>2, <1>3

\* One element less is one less.
LEMMA OneLess ==
    ASSUME NEW S, IsFiniteSet(S), NEW x \in S, NEW T, T \subseteq S \ {x}
    PROVE  /\ IsFiniteSet(T)
           /\ Cardinality(T) \in Nat /\ Cardinality(S) \in Nat
           /\ Cardinality(T) + 1 <= Cardinality(S)
<1>1. /\ IsFiniteSet(S \ {x}) /\ Cardinality(S) \in Nat
      /\ Cardinality(S \ {x}) = Cardinality(S) - 1
  BY FS_RemoveElement, FS_CardinalityType
<1>2. IsFiniteSet(T) /\ Cardinality(T) <= Cardinality(S \ {x}) /\ Cardinality(T) \in Nat
  BY <1>1, FewerElements
<1> QED
  BY <1>1, <1>2

\* Nobody works on a command before it is published.
LEMMA InitChances == Init => ChancesNeedFaults
<1> SUFFICES ASSUME Init, NEW c \in Commands
             PROVE  /\ IsFiniteSet(Trying(c))
                    /\ results[c] + parked[c] + Cardinality(Trying(c)) + Chance(c) <= 1 + faults
  BY DEF ChancesNeedFaults
<1>1. Trying(c) = {}
  BY DEF Init, Trying
<1>2. IsFiniteSet(Trying(c)) /\ Cardinality(Trying(c)) = 0
  BY <1>1, FS_EmptySet
<1> QED
  BY <1>2 DEF Init, Chance

\* What the goroutines that try c, its place and its outcomes have to come to, for a
\* step to keep ChancesNeedFaults.
Balance(c) ==
    \/ /\ Trying(c)' \subseteq Trying(c)
       /\ results'[c] + parked'[c] + Chance(c)' - faults'
              <= results[c] + parked[c] + Chance(c) - faults
    \/ \E g \in Goroutines :
       /\ Trying(c)' \subseteq Trying(c) \union {g}
       /\ results'[c] + parked'[c] + Chance(c)' - faults' + 1
              <= results[c] + parked[c] + Chance(c) - faults
    \/ \E g \in Trying(c) :
       /\ Trying(c)' \subseteq Trying(c) \ {g}
       /\ results'[c] + parked'[c] + Chance(c)' - faults'
              <= results[c] + parked[c] + Chance(c) - faults + 1

\* A step that keeps the balance of every command keeps ChancesNeedFaults.
LEMMA BalanceIsEnough ==
    ASSUME TypeOK, TypeOK', ChancesNeedFaults, \A c \in Commands : Balance(c)
    PROVE  ChancesNeedFaults'
<1> SUFFICES ASSUME NEW c \in Commands
             PROVE  /\ IsFiniteSet(Trying(c)')
                    /\ results'[c] + parked'[c] + Cardinality(Trying(c)') + Chance(c)'
                           <= 1 + faults'
  BY DEF ChancesNeedFaults
<1> DEFINE S == Trying(c)
           T == Trying(c)'
<1>1. /\ IsFiniteSet(S)
      /\ results[c] + parked[c] + Cardinality(S) + Chance(c) <= 1 + faults
  BY DEF ChancesNeedFaults
<1>2. /\ results[c] \in Nat /\ parked[c] \in Nat /\ faults \in Nat /\ Chance(c) \in Nat
      /\ results'[c] \in Nat /\ parked'[c] \in Nat /\ faults' \in Nat /\ Chance(c)' \in Nat
  BY DEF TypeOK, Chance
<1>3. Balance(c)
  OBVIOUS
<1> HIDE DEF S, T
<1>4. CASE /\ T \subseteq S
           /\ results'[c] + parked'[c] + Chance(c)' - faults'
                  <= results[c] + parked[c] + Chance(c) - faults
  <2>1. /\ IsFiniteSet(T) /\ Cardinality(T) \in Nat
        /\ Cardinality(S) \in Nat
        /\ Cardinality(T) <= Cardinality(S)
    BY <1>1, <1>4, FewerElements
  <2> QED
    BY <1>1, <1>2, <1>4, <2>1 DEF T
<1>5. ASSUME NEW g \in Goroutines, T \subseteq S \union {g},
             results'[c] + parked'[c] + Chance(c)' - faults' + 1
                 <= results[c] + parked[c] + Chance(c) - faults
      PROVE  /\ IsFiniteSet(Trying(c)')
             /\ results'[c] + parked'[c] + Cardinality(Trying(c)') + Chance(c)' <= 1 + faults'
  <2>1. /\ IsFiniteSet(T) /\ Cardinality(T) \in Nat
        /\ Cardinality(S) \in Nat
        /\ Cardinality(T) <= Cardinality(S) + 1
    BY <1>1, <1>5, OneMore
  <2> QED
    BY <1>1, <1>2, <1>5, <2>1 DEF T
<1>6. ASSUME NEW g \in S, T \subseteq S \ {g},
             results'[c] + parked'[c] + Chance(c)' - faults'
                 <= results[c] + parked[c] + Chance(c) - faults + 1
      PROVE  /\ IsFiniteSet(Trying(c)')
             /\ results'[c] + parked'[c] + Cardinality(Trying(c)') + Chance(c)' <= 1 + faults'
  <2>1. /\ IsFiniteSet(T) /\ Cardinality(T) \in Nat
        /\ Cardinality(S) \in Nat
        /\ Cardinality(T) + 1 <= Cardinality(S)
    BY <1>1, <1>6, OneLess
  <2> QED
    BY <1>1, <1>2, <1>6, <2>1 DEF T
<1> QED
  BY <1>3, <1>4, <1>5, <1>6 DEF Balance, S, T

\* Every step keeps the balance: an outcome ends a try, a delivery uses up a chance, a
\* try that fails gives the command one more, and a disconnect or a crash that gives
\* it back is a fault.
LEMMA StepBalances ==
    ASSUME TypeOK, TypeOK', [Next]_vars, NEW c \in Commands
    PROVE  Balance(c)
<1> USE DEF TypeOK, Links, Places, Steps, brokerVars, goroutineVars, connectionVars
<1>0. /\ results[c] \in Nat /\ parked[c] \in Nat /\ faults \in Nat
      /\ results'[c] \in Nat /\ parked'[c] \in Nat /\ faults' \in Nat
  OBVIOUS
<1>1. ASSUME NEW d \in Commands, RailsPublishes(d) \/ PublishCommand(d) \/ Expire(d) \/ Sweep(d)
      PROVE  Balance(c)
  <2>1. UNCHANGED <<pc, cmd, live, results, parked, faults>>
    BY <1>1 DEF RailsPublishes, PublishCommand, Put, Expire, Sweep
  <2>2. Trying(c)' = Trying(c)
    BY <2>1 DEF Trying
  <2>3. Chance(c)' <= Chance(c)
    BY <1>1 DEF RailsPublishes, PublishCommand, Put, Expire, Sweep, Chance
  <2>4. Chance(c) \in Nat /\ Chance(c)' \in Nat
    BY DEF Chance
  <2> QED
    BY <1>0, <2>1, <2>2, <2>3, <2>4 DEF Balance
<1>2. ASSUME NEW d \in Commands, NEW g \in Goroutines, Deliver(d, g) PROVE Balance(c)
  <2>1. CASE d = c
    <3>1. Chance(c) = 1 /\ Chance(c)' = 0
      BY <1>2, <2>1 DEF Deliver, Chance
    <3>2. Trying(c)' \subseteq Trying(c) \union {g}
      BY <1>2 DEF Deliver, Trying
    <3> QED
      BY <1>0, <1>2, <3>1, <3>2 DEF Balance, Deliver
  <2>2. CASE d # c
    <3>1. Chance(c) = Chance(c)' /\ Chance(c) \in Nat
      BY <1>2, <2>2 DEF Deliver, Chance
    <3>2. Trying(c)' \subseteq Trying(c)
      BY <1>2, <2>2 DEF Deliver, Trying
    <3> QED
      BY <1>0, <1>2, <3>1, <3>2 DEF Balance, Deliver
  <2> QED
    BY <2>1, <2>2
<1>3. ASSUME NEW g \in Goroutines, GoroutineStep(g) PROVE Balance(c)
  <2>0. Chance(c) \in {0, 1} /\ Chance(c)' \in {0, 1}
    BY DEF Chance
  <2>1. CASE HandlerFails(g)
    <3>1. Trying(c)' \subseteq Trying(c)
      BY <2>1 DEF HandlerFails, Goto, Trying
    <3>2. UNCHANGED <<place, results, parked, faults>>
      BY <2>1 DEF HandlerFails
    <3> QED
      BY <1>0, <3>1, <3>2 DEF Balance, Chance
  <2>2. CASE HandlerPublishes(g) \/ ParkCopy(g)
    <3>1. UNCHANGED <<place, faults>>
      BY <2>2 DEF HandlerPublishes, ParkCopy
    <3>2. Trying(c)' \subseteq Trying(c) \ {g}
      BY <2>2 DEF HandlerPublishes, ParkCopy, Goto, Trying
    <3>3. CASE cmd[g] = c
      <4>1. g \in Trying(c)
        BY <2>2, <3>3 DEF HandlerPublishes, ParkCopy, Goto, Trying
      <4>2. results'[c] + parked'[c] <= results[c] + parked[c] + 1
        BY <2>2, <1>0, <3>3 DEF HandlerPublishes, ParkCopy
      <4>3. Chance(c)' = Chance(c)
        BY <3>1 DEF Chance
      <4>4. results'[c] + parked'[c] + Chance(c)' - faults'
                <= results[c] + parked[c] + Chance(c) - faults + 1
        BY <1>0, <2>0, <3>1, <4>2, <4>3
      <4> QED
        BY <3>2, <4>1, <4>4 DEF Balance
    <3>4. CASE cmd[g] # c
      <4>1. results'[c] = results[c] /\ parked'[c] = parked[c]
        BY <2>2, <3>4 DEF HandlerPublishes, ParkCopy
      <4>2. Chance(c)' = Chance(c)
        BY <3>1 DEF Chance
      <4> QED
        BY <1>0, <2>0, <3>1, <3>2, <4>1, <4>2 DEF Balance
    <3> QED
      BY <3>3, <3>4
  <2>3. CASE ParkFails(g)
    <3>1. Trying(c)' \subseteq Trying(c)
      BY <2>3 DEF ParkFails, Goto, Trying
    <3>2. UNCHANGED <<place, results, parked>> /\ faults <= faults'
      BY <1>0, <2>3 DEF ParkFails
    <3>3. Chance(c)' = Chance(c)
      BY <3>2 DEF Chance
    <3> QED
      BY <1>0, <2>0, <3>1, <3>2, <3>3 DEF Balance
  <2>4. CASE Ack(g)
    <3>1. Trying(c)' \subseteq Trying(c)
      BY <2>4 DEF Ack, Finish, Trying
    <3>2. UNCHANGED <<results, parked, faults>>
      BY <2>4 DEF Ack, Finish
    <3>3. Chance(c)' <= Chance(c)
      BY <2>4 DEF Ack, Finish, Chance
    <3> QED
      BY <1>0, <2>0, <3>1, <3>2, <3>3 DEF Balance
  <2>5. CASE Nack(g) \/ Requeue(g)
    <3>1. UNCHANGED <<results, parked, faults>>
      BY <2>5 DEF Nack, Requeue, Finish
    <3>2. Trying(c)' \subseteq Trying(c) \ {g}
      BY <2>5 DEF Nack, Requeue, Finish, Trying
    <3>3. CASE g \in live /\ cmd[g] = c
      <4>1. g \in Trying(c)
        BY <2>5, <3>3 DEF Nack, Requeue, Finish, Trying
      <4>2. results'[c] + parked'[c] + Chance(c)' - faults'
                <= results[c] + parked[c] + Chance(c) - faults + 1
        BY <1>0, <2>0, <3>1
      <4> QED
        BY <3>2, <4>1, <4>2 DEF Balance
    <3>4. CASE ~(g \in live /\ cmd[g] = c)
      <4>1. Chance(c)' = Chance(c)
        BY <2>5, <3>4 DEF Nack, Requeue, Finish, Chance
      <4> QED
        BY <1>0, <2>0, <3>1, <3>2, <4>1 DEF Balance
    <3> QED
      BY <3>3, <3>4
  <2> QED
    BY <1>3, <2>1, <2>2, <2>3, <2>4, <2>5 DEF GoroutineStep
<1>4. CASE Disconnect \/ Crash
  <2>1. UNCHANGED <<results, parked>> /\ faults' = faults + 1
    BY <1>4 DEF Disconnect, Crash
  <2>2. Trying(c)' \subseteq Trying(c)
    BY <1>4 DEF Disconnect, Crash, Trying
  <2>3. Chance(c) \in {0, 1} /\ Chance(c)' \in {0, 1}
    BY DEF Chance
  <2> QED
    BY <1>0, <2>1, <2>2, <2>3 DEF Balance
<1>5. CASE NoticeDisconnect \/ Reconnect \/ ReconnectCallbackFails \/ Subscribe \/ UNCHANGED vars
  <2>1. UNCHANGED <<place, pc, cmd, live, results, parked>> /\ faults <= faults'
    BY <1>0, <1>5 DEF NoticeDisconnect, Reconnect, ReconnectCallbackFails, Subscribe, vars
  <2>2. Trying(c)' = Trying(c) /\ Chance(c)' = Chance(c) /\ Chance(c) \in {0, 1}
    BY <2>1 DEF Trying, Chance
  <2> QED
    BY <1>0, <2>1, <2>2 DEF Balance
<1> QED
  BY <1>1, <1>2, <1>3, <1>4, <1>5 DEF Next

\* Only faults repeat an outcome, whatever the numbers of commands, goroutines and
\* faults: a command has at most one result or parked copy more than there were
\* faults (consumer.go:77-130).
THEOREM DuplicatesAreBounded == Spec => []DuplicatesNeedFaults
<1>1. Init => TypeOK /\ ChancesNeedFaults
  BY InitTypeOK, InitChances
<1>2. TypeOK /\ ChancesNeedFaults /\ [Next]_vars => TypeOK' /\ ChancesNeedFaults'
  BY TypeOKStep, StepBalances, BalanceIsEnough
<1>3. TypeOK /\ ChancesNeedFaults => DuplicatesNeedFaults
  <2> SUFFICES ASSUME TypeOK, ChancesNeedFaults, NEW c \in Commands
               PROVE  results[c] + parked[c] <= 1 + faults
    BY DEF DuplicatesNeedFaults
  <2>1. Cardinality(Trying(c)) \in Nat
    BY FS_CardinalityType DEF ChancesNeedFaults
  <2>2. /\ results[c] \in Nat /\ parked[c] \in Nat /\ faults \in Nat /\ Chance(c) \in Nat
    BY DEF TypeOK, Chance
  <2>3. results[c] + parked[c] + Cardinality(Trying(c)) + Chance(c) <= 1 + faults
    BY DEF ChancesNeedFaults
  <2> QED
    BY <2>1, <2>2, <2>3
<1> QED
  BY <1>1, <1>2, <1>3, PTL DEF Spec

----------------------------------------------------------------------------
(* Refinement *)

\* The bus starts as AtLeastOnce does.
LEMMA RefinesInit == Init => Bus!Init
BY DEF Init, Accepted, Bus!Init

\* Each step of the bus accepts, answers, parks or settles one command of
\* AtLeastOnce, or changes nothing that it sees.
LEMMA RefinesStep == InductiveInv /\ [Next]_vars => [Bus!Next]_Bus!vars
<1> SUFFICES ASSUME InductiveInv, [Next]_vars PROVE [Bus!Next]_Bus!vars
  OBVIOUS
<1> USE DEF InductiveInv, TypeOK, Accepted, brokerVars, goroutineVars, connectionVars
<1> DEFINE Answered == {c \in Commands : results[c] > 0}
           Parked   == {c \in Commands : parked[c] > 0}
           Settled  == {c \in Commands : place[c] = "settled"}
           Same     == UNCHANGED <<Accepted, Answered, Parked, Settled>>
<1>0. Same => [Bus!Next]_Bus!vars
  BY DEF Bus!vars
<1>11. ASSUME NEW c \in Commands, Bus!Answer(c) \/ Bus!Park(c) \/ Bus!Settle(c)
       PROVE  [Bus!Next]_Bus!vars
  BY <1>11 DEF Bus!Next
<1>1. ASSUME NEW c \in Commands,
             place[c] = "unpublished", NEW to \in {"worker", "lost"},
             place' = [place EXCEPT ![c] = to], UNCHANGED <<results, parked>>
      PROVE  [Bus!Next]_Bus!vars
  <2>1. CASE to = "lost"
    BY <1>0, <1>1, <2>1
  <2>2. CASE to = "worker"
    <3>1. Bus!Accept(c)
      BY <1>1, <2>2 DEF Bus!Accept
    <3> QED
      BY <3>1 DEF Bus!Next
  <2> QED
    BY <1>1, <2>1, <2>2
<1>2. ASSUME NEW c \in Commands, RailsPublishes(c) \/ PublishCommand(c)
      PROVE  [Bus!Next]_Bus!vars
  BY <1>1, <1>2 DEF RailsPublishes, PublishCommand, Put
<1>3. ASSUME NEW c \in Commands, Expire(c) PROVE Same
  BY <1>3 DEF Expire
<1>4. ASSUME NEW c \in Commands, Sweep(c) PROVE Same
  BY <1>4 DEF Sweep
<1>5. ASSUME NEW c \in Commands, NEW g \in Goroutines, Deliver(c, g) PROVE Same
  BY <1>5 DEF Deliver
<1>6. ASSUME NEW g \in Goroutines, GoroutineStep(g) PROVE [Bus!Next]_Bus!vars
  <2>1. CASE HandlerFails(g)
    BY <1>0, <2>1 DEF HandlerFails
  <2>2. CASE HandlerPublishes(g)
    <3>1. cmd[g] \in Accepted /\ UNCHANGED <<place, parked>>
      BY <2>2 DEF HandlerPublishes, Goto, Running
    <3>2. CASE link = "up"
      <4>1. PICK c \in Accepted : c = cmd[g]
        BY <3>1
      <4>2. Answered' = Answered \union {c}
        BY <2>2, <3>1, <3>2, <4>1 DEF HandlerPublishes
      <4>3. Bus!Answer(c)
        BY <3>1, <4>2 DEF Bus!Answer
      <4> QED
        BY <4>3, <1>11
    <3>3. CASE link # "up"
      BY <1>0, <2>2, <3>1, <3>3 DEF HandlerPublishes
    <3> QED
      BY <3>2, <3>3
  <2>3. CASE ParkCopy(g)
    <3>1. cmd[g] \in Accepted /\ UNCHANGED <<place, results>>
      BY <2>3 DEF ParkCopy, Goto, Running
    <3>2. CASE g \in live
      <4>1. PICK c \in Accepted : c = cmd[g]
        BY <3>1
      <4>2. Parked' = Parked \union {c}
        BY <2>3, <3>1, <3>2, <4>1 DEF ParkCopy
      <4>3. Bus!Park(c)
        BY <3>1, <4>2 DEF Bus!Park
      <4> QED
        BY <4>3, <1>11
    <3>3. CASE g \notin live
      BY <1>0, <2>3, <3>1, <3>3 DEF ParkCopy
    <3> QED
      BY <3>2, <3>3
  <2>4. CASE ParkFails(g)
    BY <1>0, <2>4 DEF ParkFails
  <2>5. CASE Ack(g)
    <3>1. UNCHANGED <<results, parked>>
      BY <2>5 DEF Ack, Finish
    <3>2. CASE g \in live
      <4>1. PICK c \in Unacked : c = cmd[g]
        BY <3>2 DEF OneOwnerPerDelivery
      <4>2. place[c] = "unacked" /\ c \in Accepted
        BY DEF Unacked
      <4>3. place' = [place EXCEPT ![c] = "settled"] /\ pc[g] = "ack"
        BY <2>5, <3>2, <4>1 DEF Ack, Finish
      <4>4. c \in Answered \union Parked \union Malformed
        BY <3>2, <4>1, <4>2, <4>3 DEF AckJustified
      <4>5. Accepted' = Accepted /\ Settled' = Settled \union {c}
        BY <4>2, <4>3
      <4>6. Bus!Settle(c)
        BY <3>1, <4>2, <4>4, <4>5 DEF Bus!Settle
      <4> QED
        BY <4>2, <4>6, <1>11
    <3>3. CASE g \notin live
      BY <1>0, <2>5, <3>1, <3>3 DEF Ack, Finish
    <3> QED
      BY <3>2, <3>3
  <2>6. CASE Nack(g) \/ Requeue(g)
    <3>1. UNCHANGED <<results, parked>>
      BY <2>6 DEF Nack, Requeue, Finish
    <3>2. g \in live => place[cmd[g]] = "unacked"
      BY DEF OneOwnerPerDelivery, Unacked
    <3>3. Accepted' = Accepted /\ Settled' = Settled
      BY <2>6, <3>2 DEF Nack, Requeue, Finish
    <3> QED
      BY <1>0, <3>1, <3>3
  <2> QED
    BY <1>6, <2>1, <2>2, <2>3, <2>4, <2>5, <2>6 DEF GoroutineStep
<1>7. CASE Disconnect
  BY <1>0, <1>7 DEF Disconnect, GiveBack
<1>8. CASE NoticeDisconnect \/ Reconnect \/ ReconnectCallbackFails \/ Subscribe
  BY <1>0, <1>8 DEF NoticeDisconnect, Reconnect, ReconnectCallbackFails, Subscribe
<1>9. CASE Crash
  BY <1>0, <1>9 DEF Crash, GiveBack
<1>10. CASE UNCHANGED vars
  BY <1>0, <1>10 DEF vars
<1> QED
  BY <1>0, <1>2, <1>3, <1>4, <1>5, <1>6, <1>7, <1>8, <1>9, <1>10 DEF Next

\* The command bus keeps the promise of AtLeastOnce.
THEOREM Refinement == Spec => ImplementsAtLeastOnce
BY RefinesInit, RefinesStep, InductiveInvariant, PTL DEF Spec, ImplementsAtLeastOnce, Bus!Spec
=============================================================================
