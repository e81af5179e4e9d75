------------------------ MODULE FeedRequestsProofs -------------------------
(***************************************************************************)
(* Proofs about FeedRequests, for any requests, threads, feeds and number   *)
(* of failures.  Each part of InductiveInv has a lemma that says which      *)
(* other parts its step needs; the theorems put them together.              *)
(***************************************************************************)
EXTENDS FeedRequests, TLAPS

USE ActorsAssumption, UrlsAssumption, FaultsAssumption

----------------------------------------------------------------------------
(* The inductive invariant behind the safety properties. *)

\* Whoever saves a result has saved all of it but what is left.
Progress(a) ==
    /\ pc[a] \in SaveSteps \union {"claim", "respond"} =>
          /\ task[a] \in Tasks
          /\ a \in Requests => Req(a) = a
    /\ pc[a] \in {"claim", "respond"} => task[a].left = Outcome(a).feeds
    /\ pc[a] \in SaveSteps =>
          \A f \in Outcome(a).feeds :
              f \in task[a].left \/ <<Req(a), f>> \in joined \intersect saved
    /\ pc[a] = "broadcast" => task[a].left = {}
    /\ pc[a] \in {"validate", "create", "include", "link", "insert"} =>
          task[a].feed \in task[a].left
    /\ pc[a] \in {"include", "link", "insert"} => task[a].feed \in feeds
    /\ pc[a] = "insert" => <<Req(a), task[a].feed>> \in joined

SavesProgress == \A a \in Actors : Progress(a)

\* A message is held for work on it.
HeldIsWorkedOn == \A t \in held : pc[t] \in SaveSteps \union {"claim"}

\* The foreign key of feed_requests_feeds.
JoinedFeedsExist == \A row \in joined : row[2] \in feeds

\* A claim ends the time in which a request can be claimed; its own job can start
\* that time again, once.
ClaimsFinish ==
    \A r \in Requests :
        /\ claims[r] <= (IF r \in reopened THEN 2 ELSE 1)
        /\ claims[r] = (IF r \in reopened THEN 2 ELSE 1) => status[r] \in Final
        /\ r \in reopened => pc[r] = "ended" /\ status[r] # "absent"

\* What the step of a job says of its row and its command.
JobsMatchRows ==
    \A r \in Requests :
        /\ status[r] = "absent" =>
              pc[r] = "none" /\ \A c \in accepted : c[1] # r
        /\ pc[r] = "none" => status[r] = "absent"
        /\ pc[r] \in SaveSteps => status[r] \in Final
        /\ pc[r] \in {"mark", "ended"} =>
              \/ status[r] \in Final \/ Excused(r)
              \/ \E c \in accepted : c[1] = r

\* The result of an open request is on its way to a claim.
AnswersAreHeard ==
    \A c \in answered :
        \/ status[c[1]] \notin Claimable
        \/ Excused(c[1])
        \/ \E m \in queue : m.cmd[1] = c[1]
        \/ \E t \in held : pc[t] = "claim" /\ Req(t) = c[1]

\* What the bus forgets was answered, or parked and lost.
SettledHaveOutcome ==
    /\ settled \subseteq answered \union parked
    /\ \A c \in parked : c[1] \in lost

InductiveInv ==
    /\ TypeOK
    /\ SavesProgress
    /\ HeldIsWorkedOn
    /\ JoinedFeedsExist
    /\ MissingItemsHaveReason
    /\ ClaimsFinish
    /\ JobsMatchRows
    /\ AnswersAreHeard
    /\ SettledHaveOutcome

----------------------------------------------------------------------------
(* Messages and results in hand *)

\* What a message says is about its request.
LEMMA MessageFacts ==
    ASSUME NEW m \in Messages
    PROVE  /\ m.cmd \in Commands
           /\ m.cmd[1] \in Requests
           /\ m.outcome \in Outcomes(m.cmd[1])
           /\ m.outcome.feeds \subseteq Feeds
           /\ m.outcome.status \in Final
<1>1. PICK r \in Requests :
        m \in [cmd : {r} \X Senders, copy : 0 .. MaxFaults, outcome : Outcomes(r)]
  BY DEF Messages
<1>2. m.cmd \in {r} \X Senders /\ m.outcome \in Outcomes(r)
  BY <1>1
<1>3. m.cmd[1] = r /\ m.cmd \in Commands
  BY <1>2 DEF Commands
<1>4. m.outcome.feeds \subseteq Feeds /\ m.outcome.status \in Final
  BY <1>2 DEF Outcomes, Final
<1> QED
  BY <1>2, <1>3, <1>4

\* A message put together from a request, a sender and an outcome.
LEMMA MessageType ==
    ASSUME NEW r \in Requests, NEW s \in Senders, NEW n \in 0 .. MaxFaults,
           NEW o \in Outcomes(r)
    PROVE  [cmd |-> <<r, s>>, copy |-> n, outcome |-> o] \in Messages
<1>1. [cmd |-> <<r, s>>, copy |-> n, outcome |-> o]
        \in [cmd : {r} \X Senders, copy : 0 .. MaxFaults, outcome : Outcomes(r)]
  OBVIOUS
<1> QED
  BY <1>1 DEF Messages

\* The same for the result that an actor has in hand.
LEMMA TaskFacts ==
    ASSUME NEW a, task[a] \in Tasks
    PROVE  /\ task[a].msg \in Messages
           /\ task[a].left \subseteq Feeds
           /\ task[a].feed \in Feeds \union {NoTask}
           /\ task[a] = [msg |-> task[a].msg, left |-> task[a].left, feed |-> task[a].feed]
           /\ Req(a) \in Requests
           /\ Outcome(a) \in Outcomes(Req(a))
           /\ Outcome(a).feeds \subseteq Feeds
           /\ Outcome(a).status \in Final
<1>1. /\ task[a].msg \in Messages
      /\ task[a].left \subseteq Feeds
      /\ task[a].feed \in Feeds \union {NoTask}
      /\ task[a] = [msg |-> task[a].msg, left |-> task[a].left, feed |-> task[a].feed]
  BY DEF Tasks
<1> QED
  BY <1>1, MessageFacts DEF Req, Outcome

\* An actor past its first step has a result of a request in hand.
LEMMA WorkerFacts ==
    ASSUME SavesProgress, NEW a \in Actors,
           pc[a] \in SaveSteps \union {"claim", "respond"}
    PROVE  task[a] \in Tasks
BY DEF SavesProgress, Progress

----------------------------------------------------------------------------
(* Types *)

\* Nothing has happened yet.
LEMMA InitTypeOK == Init => TypeOK
<1> SUFFICES ASSUME Init PROVE TypeOK
  OBVIOUS
<1>1. status \in [Requests -> Final \union {"absent", "pending", "processing"}]
  BY DEF Init
<1>2. pc \in [Actors -> SaveSteps \union JobSteps \union ThreadSteps]
  BY DEF Init, JobSteps, ThreadSteps
<1>3. task \in [Actors -> Tasks \union {NoTask}] /\ claims \in [Requests -> Nat]
  BY DEF Init
<1>4. faults \in 0 .. MaxFaults
  BY DEF Init
<1> QED
  BY <1>1, <1>2, <1>3, <1>4 DEF Init, TypeOK, Bus!Init

\* Raise keeps the types of what it writes.
LEMMA RaiseTypes ==
    ASSUME TypeOK, NEW a \in Actors, task[a] \in Tasks, Raise(a)
    PROVE  /\ pc' \in [Actors -> SaveSteps \union JobSteps \union ThreadSteps]
           /\ task' \in [Actors -> Tasks \union {NoTask}]
           /\ held' \subseteq Threads
           /\ lost' \subseteq Requests
           /\ interrupted' \subseteq Requests
<1>1. Req(a) \in Requests
  BY TaskFacts
<1>2. CASE a \in Requests
  BY <1>1, <1>2 DEF Raise, TypeOK, Goto, JobSteps
<1>3. CASE a \notin Requests
  BY <1>1, <1>3 DEF Raise, Release, TypeOK, Goto, ThreadSteps
<1> QED
  BY <1>2, <1>3

\* Every step of the controller and of the job that saves nothing keeps the types.
LEMMA JobTypes ==
    ASSUME TypeOK, SavesProgress, NEW r \in Requests,
           \/ Submit(r) \/ Enqueue(r) \/ Publish(r) \/ Mark(r) \/ PostIsAccepted(r)
           \/ PostIsParsed(r) \/ Respond(r) \/ Fail(r) \/ JobFails(r)
    PROVE  TypeOK'
<1> USE DEF TypeOK, Goto, JobStep, queueVars, busVars, dbVars, history
<1>0. /\ r \in Actors
      /\ \A step \in SaveSteps \union JobSteps :
            [pc EXCEPT ![r] = step] \in [Actors -> SaveSteps \union JobSteps \union ThreadSteps]
      /\ [task EXCEPT ![r] = NoTask] \in [Actors -> Tasks \union {NoTask}]
      /\ <<r, "rails">> \in Commands /\ <<r, "go">> \in Commands
  BY DEF Actors, Commands, Senders
<1>1. CASE Submit(r)
  BY <1>0, <1>1 DEF Submit, JobSteps
<1>2. CASE Enqueue(r)
  BY <1>0, <1>2 DEF Enqueue, JobSteps
<1>3. CASE Publish(r)
  BY <1>0, <1>3 DEF Publish, JobSteps, Bus!Accept
<1>4. CASE Mark(r)
  BY <1>0, <1>4 DEF Mark, JobSteps
<1>5. CASE PostIsAccepted(r)
  BY <1>0, <1>5 DEF PostIsAccepted, JobSteps, Bus!Accept
<1>6. CASE PostIsParsed(r)
  <2>1. PICK o \in Outcomes(r) : task' = [task EXCEPT ![r] =
              [msg |-> [cmd |-> <<r, "go">>, copy |-> 0, outcome |-> o],
               left |-> o.feeds, feed |-> NoTask]]
    BY <1>6 DEF PostIsParsed
  <2>2. [cmd |-> <<r, "go">>, copy |-> 0, outcome |-> o] \in Messages
    BY MessageType DEF Senders
  <2>3. o.feeds \subseteq Feeds
    BY DEF Outcomes
  <2>4. task' \in [Actors -> Tasks \union {NoTask}]
    BY <2>1, <2>2, <2>3 DEF Tasks
  <2> QED
    BY <1>0, <1>6, <2>4 DEF PostIsParsed, JobSteps
<1>7. CASE Respond(r)
  <2>1. pc[r] = "respond"
    BY <1>7 DEF Respond
  <2>2. task[r] \in Tasks /\ Req(r) = r
    BY <1>0, <2>1 DEF SavesProgress, Progress
  <2>3. Outcome(r).status \in Final /\ Outcome(r).feeds \subseteq Feeds
    BY <2>2, TaskFacts
  <2>4. owed' \subseteq Requests \X Feeds
    BY <1>7, <2>3 DEF Respond, Owe
  <2>5. status' \in [Requests -> Final \union {"absent", "pending", "processing"}]
    BY <1>7, <2>3 DEF Respond
  <2>6. pc' \in [Actors -> SaveSteps \union JobSteps \union ThreadSteps]
    BY <1>0, <1>7 DEF Respond, SaveNext, SaveSteps
  <2> QED
    BY <1>7, <2>4, <2>5, <2>6 DEF Respond
<1>8. CASE Fail(r)
  <2>1. <<r, [status |-> "failed", feeds |-> {}]>> \in {r} \X Outcomes(r)
    BY DEF Outcomes
  <2>2. told' \subseteq UNION {{q} \X Outcomes(q) : q \in Requests}
    <3>1. <<r, [status |-> "failed", feeds |-> {}]>> \in UNION {{q} \X Outcomes(q) : q \in Requests}
      BY <2>1
    <3> QED
      BY <1>8, <3>1 DEF Fail
  <2>3. status' \in [Requests -> Final \union {"absent", "pending", "processing"}]
    BY <1>8 DEF Fail, Final
  <2> QED
    BY <1>0, <1>8, <2>2, <2>3 DEF Fail, JobSteps
<1>9. CASE JobFails(r)
  <2>1. CASE PublishIsLost(r)
    BY <1>0, <2>1 DEF PublishIsLost, JobSteps, Fault
  <2>2. CASE PublishFails(r)
    BY <1>0, <2>2 DEF PublishFails, JobSteps, Fault
  <2>3. CASE MarkFails(r)
    BY <1>0, <2>3 DEF MarkFails, JobSteps, Fault
  <2>4. CASE PostFails(r)
    BY <1>0, <2>4 DEF PostFails, JobSteps, Fault
  <2>5. CASE JobDies(r)
    BY <1>0, <2>5 DEF JobDies, JobSteps, Fault
  <2> QED
    BY <1>9, <2>1, <2>2, <2>3, <2>4, <2>5 DEF JobFails
<1> QED
  BY <1>1, <1>2, <1>3, <1>4, <1>5, <1>6, <1>7, <1>8, <1>9

\* So does every step of a thread that saves nothing.
LEMMA ThreadTypes ==
    ASSUME TypeOK, SavesProgress, HeldIsWorkedOn, NEW t \in Threads,
           Receive(t) \/ Claim(t) \/ ClaimIsLost(t) \/ ThreadFails(t)
    PROVE  TypeOK'
<1> USE DEF TypeOK, Goto, queueVars, busVars, dbVars, actorVars, history
<1>0. /\ t \in Actors
      /\ \A step \in SaveSteps \union ThreadSteps :
            [pc EXCEPT ![t] = step] \in [Actors -> SaveSteps \union JobSteps \union ThreadSteps]
      /\ [task EXCEPT ![t] = NoTask] \in [Actors -> Tasks \union {NoTask}]
  BY DEF Actors
<1>1. CASE Receive(t)
  <2>1. PICK m \in queue :
          /\ queue' = queue \ {m}
          /\ IF status[m.cmd[1]] \in Final
             THEN UNCHANGED <<pc, task, held>>
             ELSE /\ Goto(t, "claim")
                  /\ task' = [task EXCEPT ![t] =
                         [msg |-> m, left |-> m.outcome.feeds, feed |-> NoTask]]
                  /\ held' = held \union {t}
    BY <1>1 DEF Receive
  <2>2. [msg |-> m, left |-> m.outcome.feeds, feed |-> NoTask] \in Tasks
    BY MessageFacts DEF Tasks
  <2>3. task' \in [Actors -> Tasks \union {NoTask}]
    BY <2>1, <2>2
  <2>4. pc' \in [Actors -> SaveSteps \union JobSteps \union ThreadSteps]
    BY <1>0, <2>1 DEF ThreadSteps
  <2> QED
    BY <1>1, <2>1, <2>3, <2>4 DEF Receive
<1>2. CASE Claim(t)
  <2>1. task[t] \in Tasks
    BY <1>0, <1>2, WorkerFacts DEF Claim
  <2>2. /\ Outcome(t).status \in Final /\ Outcome(t).feeds \subseteq Feeds
        /\ Req(t) \in Requests
    BY <2>1, TaskFacts
  <2>3. owed' \subseteq Requests \X Feeds /\ claims' \in [Requests -> Nat]
    BY <1>2, <2>2 DEF Claim, Owe
  <2>4. status' \in [Requests -> Final \union {"absent", "pending", "processing"}]
    BY <1>2, <2>2 DEF Claim
  <2>5. pc' \in [Actors -> SaveSteps \union JobSteps \union ThreadSteps]
    BY <1>0, <1>2 DEF Claim, SaveNext, SaveSteps
  <2> QED
    BY <1>2, <2>3, <2>4, <2>5 DEF Claim
<1>3. CASE ClaimIsLost(t)
  BY <1>0, <1>3 DEF ClaimIsLost, Release, ThreadSteps
<1>4. CASE ThreadDies(t)
  <2>1. t \in held => task[t].msg \in Messages
    BY <1>0, WorkerFacts, TaskFacts DEF HeldIsWorkedOn
  <2>2. pc[t] \in SaveSteps => Req(t) \in Requests
    BY <1>0, WorkerFacts, TaskFacts
  <2> QED
    BY <1>0, <1>4, <2>1, <2>2 DEF ThreadDies, Release, ThreadSteps, Fault
<1>5. CASE Redeliver(t)
  <2>1. task[t].msg \in Messages
    BY <1>0, <1>5, WorkerFacts, TaskFacts DEF HeldIsWorkedOn, Redeliver
  <2> QED
    BY <1>5, <2>1 DEF Redeliver, Fault
<1> QED
  BY <1>1, <1>2, <1>3, <1>4, <1>5 DEF ThreadFails

\* So does every step of saving a result.
LEMMA SaveTypes ==
    ASSUME TypeOK, SavesProgress, NEW a \in Actors, Save(a) \/ StatementFails(a)
    PROVE  TypeOK'
<1> USE DEF TypeOK, busVars, dbVars
<1>1. task[a] \in Tasks
  BY WorkerFacts
     DEF Save, StatementFails, Find, Validate, Create, Include, Link, Insert, Broadcast,
         SaveStep, SaveSteps
<1>2. /\ Req(a) \in Requests /\ Outcome(a) \in Outcomes(Req(a))
      /\ task[a].left \subseteq Feeds /\ task[a].feed \in Feeds \union {NoTask}
  BY <1>1, TaskFacts
<1>3. \A step \in SaveSteps \union JobSteps \union ThreadSteps :
            [pc EXCEPT ![a] = step] \in [Actors -> SaveSteps \union JobSteps \union ThreadSteps]
  OBVIOUS
<1>4. CASE Find(a)
  <2>1. PICK f \in task[a].left :
          /\ task' = [task EXCEPT ![a].feed = f]
          /\ Continue(a, IF f \in feeds THEN "include" ELSE "validate")
    BY <1>4 DEF Find
  <2>2. [task[a] EXCEPT !.feed = f] \in Tasks
    BY <1>1, <1>2 DEF Tasks
  <2>3. task' \in [Actors -> Tasks \union {NoTask}]
    BY <2>1, <2>2
  <2>4. pc' \in [Actors -> SaveSteps \union JobSteps \union ThreadSteps]
    BY <1>3, <2>1 DEF Continue, Goto, SaveSteps
  <2> QED
    BY <1>4, <2>1, <2>3, <2>4 DEF Find, SaveStep, Continue
<1>5. CASE Validate(a)
  <2>1. CASE task[a].feed \in feeds
    BY <1>1, <1>5, <2>1, RaiseTypes DEF Validate, SaveStep
  <2>2. CASE task[a].feed \notin feeds
    BY <1>3, <1>5, <2>2 DEF Validate, SaveStep, Continue, Goto, SaveSteps
  <2> QED
    BY <2>1, <2>2
<1>6. CASE Create(a)
  <2>1. task[a].feed \in Feeds
    BY <1>2, <1>6 DEF Create, SaveStep, SavesProgress, Progress
  <2> QED
    BY <1>3, <1>6, <2>1 DEF Create, SaveStep, Continue, Goto, SaveSteps
<1>7. CASE Include(a)
  BY <1>3, <1>7 DEF Include, SaveStep, Continue, Goto, SaveSteps
<1>8. CASE Link(a)
  <2>1. task[a].feed \in Feeds
    BY <1>2, <1>8 DEF Link, SaveStep, SavesProgress, Progress
  <2>2. CASE <<Req(a), task[a].feed>> \in joined
    BY <1>1, <1>8, <2>2, RaiseTypes DEF Link, SaveStep
  <2>3. CASE <<Req(a), task[a].feed>> \notin joined
    BY <1>2, <1>3, <1>8, <2>1, <2>3 DEF Link, SaveStep, Continue, Goto, SaveSteps
  <2> QED
    BY <2>2, <2>3
<1>9. CASE Insert(a)
  <2>1. task[a].feed \in Feeds
    BY <1>2, <1>9 DEF Insert, SaveStep, SavesProgress, Progress
  <2>2. [task[a] EXCEPT !.left = task[a].left \ {task[a].feed}, !.feed = NoTask] \in Tasks
    BY <1>1, <1>2 DEF Tasks
  <2>3. task' \in [Actors -> Tasks \union {NoTask}]
    BY <1>9, <2>2 DEF Insert
  <2>4. pc' \in [Actors -> SaveSteps \union JobSteps \union ThreadSteps]
    BY <1>3, <1>9 DEF Insert, Continue, Goto, SaveNext, SaveSteps
  <2> QED
    <3>1. saved' \subseteq Requests \X Feeds
      BY <1>2, <1>9, <2>1 DEF Insert
    <3>2. UNCHANGED <<status, feeds, joined, queue, held, accepted, answered, parked,
                      settled, faults, claims, owed, told, reopened, lost, interrupted>>
      BY <1>9 DEF Insert, SaveStep, Continue
    <3> QED
      BY <2>3, <2>4, <3>1, <3>2
<1>10. CASE Broadcast(a)
  <2>1. told' \subseteq UNION {{q} \X Outcomes(q) : q \in Requests}
    BY <1>2, <1>10 DEF Broadcast
  <2>2. task' \in [Actors -> Tasks \union {NoTask}]
    BY <1>10 DEF Broadcast
  <2>3. pc' \in [Actors -> SaveSteps \union JobSteps \union ThreadSteps]
    BY <1>3, <1>10 DEF Broadcast, Goto, JobSteps, ThreadSteps
  <2> QED
    BY <1>10, <2>1, <2>2, <2>3 DEF Broadcast, SaveStep
<1>11. CASE StatementFails(a)
  BY <1>1, <1>11, RaiseTypes DEF StatementFails, Fault
<1> QED
  BY <1>4, <1>5, <1>6, <1>7, <1>8, <1>9, <1>10, <1>11 DEF Save

\* So does every step of the bus and of the worker behind it.
LEMMA BusTypes ==
    ASSUME TypeOK, NEW c \in Commands, Answer(c) \/ Park(c) \/ Settle(c)
    PROVE  TypeOK'
<1> USE DEF TypeOK, BusStep, dbVars, actorVars
<1>1. CASE Answer(c)
  <2>1. PICK o \in Outcomes(c[1]) :
          queue' = queue \union {[cmd |-> c, outcome |-> o,
                                  copy |-> IF c \in answered THEN faults + 1 ELSE 0]}
    BY <1>1 DEF Answer
  <2>2. (IF c \in answered THEN faults + 1 ELSE 0) \in 0 .. MaxFaults
    BY <1>1 DEF Answer, Fault
  <2>3. c[1] \in Requests /\ c[2] \in Senders /\ c = <<c[1], c[2]>>
    BY DEF Commands
  <2>4. queue' \subseteq Messages
    BY <2>1, <2>2, <2>3, MessageType
  <2> QED
    BY <1>1, <2>4 DEF Answer, Fault, Bus!Answer
<1>2. CASE Park(c)
  <2>1. c[1] \in Requests
    BY DEF Commands
  <2> QED
    BY <1>2, <2>1 DEF Park, Fault, Bus!Park
<1>3. CASE Settle(c)
  BY <1>3 DEF Settle, Bus!Settle
<1> QED
  BY <1>1, <1>2, <1>3

\* Every step keeps the types.
LEMMA TypeOKStep == TypeOK /\ SavesProgress /\ HeldIsWorkedOn /\ [Next]_vars => TypeOK'
<1> SUFFICES ASSUME TypeOK, SavesProgress, HeldIsWorkedOn, [Next]_vars PROVE TypeOK'
  OBVIOUS
<1>1. CASE \E r \in Requests : Submit(r) \/ JobRuns(r) \/ JobFails(r)
  BY <1>1, JobTypes, SaveTypes DEF JobRuns, Actors
<1>2. CASE \E t \in Threads : ThreadRuns(t) \/ ThreadFails(t)
  BY <1>2, ThreadTypes, SaveTypes DEF ThreadRuns, Actors
<1>3. CASE \E a \in Actors : StatementFails(a)
  BY <1>3, SaveTypes
<1>4. CASE \E c \in Commands : Answer(c) \/ Park(c) \/ Settle(c)
  BY <1>4, BusTypes
<1>5. CASE UNCHANGED vars
  BY <1>5 DEF vars, dbVars, actorVars, queueVars, busVars, history, TypeOK
<1> QED
  BY <1>1, <1>2, <1>3, <1>4, <1>5 DEF Next

----------------------------------------------------------------------------
(* What is left of a result *)

\* Rows are only added.
TablesGrow == feeds \subseteq feeds' /\ joined \subseteq joined' /\ saved \subseteq saved'

\* A step of a leaves the others where they are.
OthersStay(a) == \A b \in Actors \ {a} : pc'[b] = pc[b] /\ task'[b] = task[b]

\* The steps of a job and of a thread.
ActorMoves(a) ==
    \/ a \in Requests /\ (Submit(a) \/ JobRuns(a) \/ JobFails(a))
    \/ a \in Threads /\ (ThreadRuns(a) \/ ThreadFails(a))
    \/ StatementFails(a)

\* A step of the bus, or no step.
BusMoves == (\E c \in Commands : Answer(c) \/ Park(c) \/ Settle(c)) \/ UNCHANGED vars

\* Every step is one of these.
LEMMA NextSplits ==
    ASSUME [Next]_vars
    PROVE  (\E a \in Actors : ActorMoves(a)) \/ BusMoves
BY DEF Next, ActorMoves, BusMoves, Actors

\* Raising touches no tables and no other actor.
LEMMA RaiseIsLocal == ASSUME TypeOK, NEW a \in Actors, Raise(a) PROVE OthersStay(a)
BY DEF TypeOK, Raise, Release, Goto, OthersStay

\* No step of an actor deletes a row or moves another actor.
LEMMA MovesAreLocal ==
    ASSUME TypeOK, NEW a \in Actors, ActorMoves(a)
    PROVE  TablesGrow /\ OthersStay(a)
<1> USE DEF TypeOK, TablesGrow, Goto, dbVars, actorVars
<1>1. CASE Submit(a) \/ Enqueue(a) \/ Publish(a) \/ Mark(a) \/ PostIsAccepted(a)
           \/ PostIsParsed(a) \/ Respond(a) \/ Fail(a)
  BY <1>1 DEF Submit, Enqueue, Publish, Mark, PostIsAccepted, PostIsParsed, Respond, Fail,
              JobStep, OthersStay
<1>2. CASE JobFails(a)
  BY <1>2 DEF JobFails, PublishIsLost, PublishFails, MarkFails, PostFails, JobDies, JobStep,
              OthersStay
<1>3. CASE Receive(a)
  BY <1>3 DEF Receive, OthersStay
<1>4. CASE Claim(a) \/ ClaimIsLost(a) \/ ThreadFails(a)
  BY <1>4 DEF Claim, ClaimIsLost, ThreadFails, ThreadDies, Redeliver, Release, OthersStay
<1>5. CASE Validate(a)
  BY <1>5, RaiseIsLocal DEF Validate, SaveStep, Continue, OthersStay
<1>6. CASE Link(a)
  BY <1>6, RaiseIsLocal DEF Link, SaveStep, Continue, OthersStay
<1>7. CASE Find(a) \/ Create(a) \/ Include(a) \/ Insert(a) \/ Broadcast(a)
  BY <1>7 DEF Find, Create, Include, Insert, Broadcast, SaveStep, Continue, OthersStay
<1>8. CASE StatementFails(a)
  BY <1>8, RaiseIsLocal DEF StatementFails
<1> QED
  BY <1>1, <1>2, <1>3, <1>4, <1>5, <1>6, <1>7, <1>8
     DEF ActorMoves, JobRuns, ThreadRuns, Save

\* Growing tables do not disturb who does not move.
LEMMA OthersProgress ==
    ASSUME TypeOK, TablesGrow, NEW b \in Actors, Progress(b),
           pc'[b] = pc[b], task'[b] = task[b]
    PROVE  Progress(b)'
BY DEF Progress, TablesGrow, Req, Outcome

\* Who has no result in hand has nothing to save.
LEMMA IdleProgress ==
    ASSUME NEW a, pc'[a] \notin SaveSteps \union {"claim", "respond"}
    PROVE  Progress(a)'
BY DEF Progress, SaveSteps

\* After an error nothing is in hand.
LEMMA RaiseProgress == ASSUME TypeOK, NEW a \in Actors, Raise(a) PROVE Progress(a)'
<1>1. pc'[a] \in {"fail", "idle"}
  BY DEF TypeOK, Raise, Release, Goto
<1> QED
  BY <1>1, IdleProgress DEF SaveSteps

\* A result comes into the hands of a job or a thread whole.
LEMMA TakeProgress ==
    ASSUME NEW a, NEW m \in Messages, a \in Requests => m.cmd[1] = a,
           pc'[a] \in {"claim", "respond"},
           task'[a] = [msg |-> m, left |-> m.outcome.feeds, feed |-> NoTask]
    PROVE  Progress(a)'
<1>1. task'[a] \in Tasks
  BY MessageFacts DEF Tasks
<1>2. task'[a].left = task'[a].msg.outcome.feeds /\ task'[a].msg = m
  OBVIOUS
<1> QED
  BY <1>1, <1>2 DEF Progress, SaveSteps, Req, Outcome

\* The status was set: all of the result is left.
LEMMA StartProgress ==
    ASSUME NEW a, Progress(a), pc[a] \in {"claim", "respond"},
           task'[a] = task[a], pc'[a] = SaveNext(Outcome(a).feeds)
    PROVE  Progress(a)'
BY DEF Progress, SaveSteps, SaveNext, Req, Outcome

\* Every statement of the save leaves what is left to save right.
LEMMA SaveProgress == ASSUME TypeOK, NEW a \in Actors, Progress(a), Save(a) PROVE Progress(a)'
<1> USE DEF TypeOK, Goto
<1>1. pc[a] \in SaveSteps /\ task[a] \in Tasks /\ (a \in Requests => Req(a) = a)
  BY DEF Save, Find, Validate, Create, Include, Link, Insert, Broadcast, SaveStep, SaveSteps,
         Progress
<1>2. \A f \in Outcome(a).feeds :
         f \in task[a].left \/ <<Req(a), f>> \in joined \intersect saved
  BY <1>1 DEF Progress
<1>3. CASE Find(a)
  <2>1. PICK f \in task[a].left :
          /\ task' = [task EXCEPT ![a].feed = f]
          /\ Continue(a, IF f \in feeds THEN "include" ELSE "validate")
    BY <1>3 DEF Find
  <2>2. task'[a] = [task[a] EXCEPT !.feed = f] /\ f \in Feeds
    BY <1>1, <2>1, TaskFacts
  <2>3. /\ task'[a].msg = task[a].msg /\ task'[a].left = task[a].left
        /\ task'[a].feed = f /\ task'[a] \in Tasks
    BY <1>1, <2>2 DEF Tasks
  <2>4. pc'[a] = (IF f \in feeds THEN "include" ELSE "validate")
    BY <2>1 DEF Continue
  <2>5. UNCHANGED <<feeds, joined, saved>>
    BY <1>3 DEF Find
  <2> QED
    BY <1>1, <1>2, <2>1, <2>3, <2>4, <2>5 DEF Progress, Req, Outcome, SaveSteps
<1>4. CASE Validate(a)
  <2>1. CASE task[a].feed \in feeds
    BY <1>4, <2>1, RaiseProgress DEF Validate
  <2>2. CASE task[a].feed \notin feeds
    <3>1. pc[a] = "validate" /\ pc'[a] = "create" /\ UNCHANGED <<task, feeds, joined, saved>>
      BY <1>4, <2>2 DEF Validate, SaveStep, Continue
    <3> QED
      BY <3>1 DEF Progress, Req, Outcome, SaveSteps
  <2> QED
    BY <2>1, <2>2
<1>5. CASE Create(a)
  <2>1. /\ pc[a] = "create" /\ pc'[a] = "include" /\ UNCHANGED <<task, joined, saved>>
        /\ task[a].feed \in feeds'
    BY <1>5 DEF Create, SaveStep, Continue
  <2> QED
    BY <2>1 DEF Progress, Req, Outcome, SaveSteps
<1>6. CASE Include(a)
  <2>1. /\ pc[a] = "include" /\ UNCHANGED <<task, feeds, joined, saved>>
        /\ pc'[a] = (IF <<Req(a), task[a].feed>> \in joined THEN "insert" ELSE "link")
    BY <1>6 DEF Include, SaveStep, Continue
  <2> QED
    BY <2>1 DEF Progress, Req, Outcome, SaveSteps
<1>7. CASE Link(a)
  <2>1. CASE <<Req(a), task[a].feed>> \in joined
    BY <1>7, <2>1, RaiseProgress DEF Link
  <2>2. CASE <<Req(a), task[a].feed>> \notin joined
    <3>1. /\ pc[a] = "link" /\ pc'[a] = "insert" /\ UNCHANGED <<task, feeds, saved>>
          /\ joined' = joined \union {<<Req(a), task[a].feed>>}
      BY <1>7, <2>2 DEF Link, SaveStep, Continue
    <3> QED
      BY <3>1 DEF Progress, Req, Outcome, SaveSteps
  <2> QED
    BY <2>1, <2>2
<1>8. CASE Insert(a)
  <2> DEFINE left == task[a].left \ {task[a].feed}
  <2>1. task'[a] = [task[a] EXCEPT !.left = left, !.feed = NoTask]
    BY <1>8 DEF Insert
  <2>2. /\ task'[a].msg = task[a].msg /\ task'[a].left = left
        /\ task'[a] \in Tasks
    <3>1. task[a] = [msg |-> task[a].msg, left |-> task[a].left, feed |-> task[a].feed]
      BY <1>1, TaskFacts
    <3>2. task'[a] = [msg |-> task[a].msg, left |-> left, feed |-> NoTask]
      BY <2>1, <3>1
    <3>3. task[a].msg \in Messages /\ left \subseteq Feeds
      BY <1>1, TaskFacts
    <3> QED
      BY <3>2, <3>3 DEF Tasks
  <2>3. pc[a] = "insert" /\ pc'[a] = SaveNext(left) /\ UNCHANGED <<feeds, joined>>
    BY <1>8 DEF Insert, SaveStep, Continue
  <2>4. saved' = saved \union {<<Req(a), task[a].feed>>}
    BY <1>8 DEF Insert
  <2>5. <<Req(a), task[a].feed>> \in joined
    BY <2>3 DEF Progress
  <2>6. Req(a)' = Req(a) /\ Outcome(a)' = Outcome(a)
    BY <2>2 DEF Req, Outcome
  <2>7. \A f \in Outcome(a).feeds :
           f \in left \/ <<Req(a), f>> \in joined' \intersect saved'
    BY <1>2, <2>3, <2>4, <2>5
  <2>8. pc'[a] = "find" \/ (pc'[a] = "broadcast" /\ left = {})
    BY <2>3 DEF SaveNext
  <2> QED
    BY <1>1, <2>2, <2>3, <2>6, <2>7, <2>8 DEF Progress, SaveSteps
<1>9. CASE Broadcast(a)
  <2>1. pc'[a] \in {"ended", "idle"}
    BY <1>9 DEF Broadcast
  <2> QED
    BY <2>1, IdleProgress DEF SaveSteps
<1> QED
  BY <1>3, <1>4, <1>5, <1>6, <1>7, <1>8, <1>9 DEF Save

\* So does every step of the actor itself.
LEMMA OwnProgress ==
    ASSUME TypeOK, NEW a \in Actors, Progress(a), ActorMoves(a) PROVE Progress(a)'
<1> USE DEF TypeOK, Goto
<1>1. CASE Submit(a) \/ Enqueue(a) \/ Publish(a) \/ Mark(a) \/ PostIsAccepted(a) \/ Fail(a)
           \/ JobFails(a)
  <2>1. pc'[a] \in JobSteps \ {"respond"}
    BY <1>1 DEF Submit, Enqueue, Publish, Mark, PostIsAccepted, Fail, JobFails, PublishIsLost,
                PublishFails, MarkFails, PostFails, JobDies, JobStep, JobSteps
  <2> QED
    BY <2>1, IdleProgress DEF JobSteps, SaveSteps
<1>2. CASE a \in Requests /\ PostIsParsed(a)
  <2>1. PICK o \in Outcomes(a) : task' = [task EXCEPT ![a] =
              [msg |-> [cmd |-> <<a, "go">>, copy |-> 0, outcome |-> o],
               left |-> o.feeds, feed |-> NoTask]]
    BY <1>2 DEF PostIsParsed
  <2> DEFINE m == [cmd |-> <<a, "go">>, copy |-> 0, outcome |-> o]
  <2>2. m \in Messages /\ m.cmd[1] = a /\ m.outcome.feeds = o.feeds
    BY <1>2, MessageType DEF Senders
  <2>3. task'[a] = [msg |-> m, left |-> m.outcome.feeds, feed |-> NoTask]
    BY <2>1
  <2>4. pc'[a] = "respond"
    BY <1>2 DEF PostIsParsed, JobStep
  <2> HIDE DEF m
  <2> QED
    BY <2>2, <2>3, <2>4, TakeProgress
<1>3. CASE Respond(a) \/ Claim(a)
  <2>1. /\ pc[a] \in {"claim", "respond"} /\ task'[a] = task[a]
        /\ pc'[a] = SaveNext(Outcome(a).feeds)
    BY <1>3 DEF Respond, Claim, JobStep
  <2> QED
    BY <2>1, StartProgress
<1>4. CASE a \in Threads /\ Receive(a)
  <2>1. PICK m \in queue :
          IF status[m.cmd[1]] \in Final
          THEN UNCHANGED <<pc, task, held>>
          ELSE /\ Goto(a, "claim")
               /\ task' = [task EXCEPT ![a] =
                      [msg |-> m, left |-> m.outcome.feeds, feed |-> NoTask]]
    BY <1>4 DEF Receive
  <2>2. CASE status[m.cmd[1]] \in Final
    <3>1. pc'[a] = "idle"
      BY <1>4, <2>1, <2>2 DEF Receive
    <3> QED
      BY <3>1, IdleProgress DEF SaveSteps
  <2>3. CASE status[m.cmd[1]] \notin Final
    <3>1. /\ task'[a] = [msg |-> m, left |-> m.outcome.feeds, feed |-> NoTask]
          /\ pc'[a] = "claim" /\ m \in Messages /\ a \notin Requests
      BY <1>4, <2>1, <2>3
    <3> QED
      BY <3>1, TakeProgress
  <2> QED
    BY <2>2, <2>3
<1>5. CASE ClaimIsLost(a) \/ ThreadDies(a)
  <2>1. pc'[a] = "idle"
    BY <1>5 DEF ClaimIsLost, ThreadDies, Release
  <2> QED
    BY <2>1, IdleProgress DEF SaveSteps
<1>6. CASE Redeliver(a)
  BY <1>6, OthersProgress DEF Redeliver, TablesGrow, dbVars, actorVars
<1>7. CASE Save(a)
  BY <1>7, SaveProgress
<1>8. CASE StatementFails(a)
  BY <1>8, RaiseProgress DEF StatementFails
<1> QED
  BY <1>1, <1>2, <1>3, <1>4, <1>5, <1>6, <1>7, <1>8
     DEF ActorMoves, JobRuns, ThreadRuns, ThreadFails

\* What the bus does touches no actor and no table.
LEMMA BusIsElsewhere ==
    ASSUME BusMoves
    PROVE  UNCHANGED <<status, feeds, joined, saved, pc, task, held, claims, owed, told,
                       reopened, interrupted>>
BY DEF BusMoves, Answer, Park, Settle, BusStep, vars, dbVars, actorVars, queueVars, history

\* Every step keeps the progress of all actors.
LEMMA ProgressStep == TypeOK /\ SavesProgress /\ [Next]_vars => SavesProgress'
<1> SUFFICES ASSUME TypeOK, SavesProgress, [Next]_vars, NEW b \in Actors PROVE Progress(b)'
  BY DEF SavesProgress, Actors
<1>1. Progress(b)
  BY DEF SavesProgress
<1>2. ASSUME NEW a \in Actors, ActorMoves(a) PROVE Progress(b)'
  <2>1. CASE b = a
    BY <1>1, <1>2, <2>1, OwnProgress
  <2>2. CASE b # a
    BY <1>1, <1>2, <2>2, MovesAreLocal, OthersProgress DEF OthersStay
  <2> QED
    BY <2>1, <2>2
<1>3. CASE BusMoves
  BY <1>1, <1>3, BusIsElsewhere, OthersProgress DEF TablesGrow
<1> QED
  BY <1>2, <1>3, NextSplits

----------------------------------------------------------------------------
(* Messages in hand, and the rows that were promised *)

\* Whoever holds a message after a step works on it.
LEMMA HeldStep == TypeOK /\ HeldIsWorkedOn /\ [Next]_vars => HeldIsWorkedOn'
<1> SUFFICES ASSUME TypeOK, HeldIsWorkedOn, [Next]_vars, NEW t \in held'
             PROVE  pc'[t] \in SaveSteps \union {"claim"}
  BY DEF HeldIsWorkedOn
<1> USE DEF TypeOK, HeldIsWorkedOn, Goto
<1>1. ASSUME NEW a \in Actors, ActorMoves(a) PROVE pc'[t] \in SaveSteps \union {"claim"}
  <2>1. held' \subseteq held \union {a}
    BY <1>1 DEF ActorMoves, JobRuns, JobFails, ThreadRuns, ThreadFails, Save, Submit, Enqueue,
                Publish, Mark, PostIsAccepted, PostIsParsed, Respond, Fail, PublishIsLost,
                PublishFails, MarkFails, PostFails, JobDies, JobStep, Receive, Claim,
                ClaimIsLost, ThreadDies, Redeliver, Release, Find, Validate, Create, Include,
                Link, Insert, Broadcast, StatementFails, Raise, Continue, queueVars
  <2>2. CASE t # a
    BY <1>1, <2>1, <2>2, MovesAreLocal DEF OthersStay, Actors
  <2>3. CASE t = a /\ a \in Requests
    <3>1. a \notin held /\ a \notin Threads
      BY <2>3
    <3>2. held' \subseteq Threads
      BY <1>1, <2>3, <3>1
         DEF ActorMoves, JobRuns, JobFails, Save, Submit, Enqueue,
                Publish, Mark, PostIsAccepted, PostIsParsed, Respond, Fail, PublishIsLost,
                PublishFails, MarkFails, PostFails, JobDies, JobStep, Find, Validate, Create,
                Include, Link, Insert, Broadcast, StatementFails, Raise, Continue, queueVars
    <3> QED
      BY <2>3, <3>1, <3>2
  <2>4. CASE t = a /\ a \in Threads
    <3>1. CASE Receive(a)
      BY <2>4, <3>1 DEF Receive
    <3>2. CASE Claim(a)
      BY <2>4, <3>2 DEF Claim, SaveNext, SaveSteps
    <3>3. CASE ClaimIsLost(a) \/ ThreadFails(a)
      BY <2>4, <3>3 DEF ClaimIsLost, ThreadFails, ThreadDies, Redeliver, Release, actorVars
    <3>4. CASE Find(a) \/ Create(a) \/ Include(a) \/ Insert(a) \/ Broadcast(a)
      BY <2>4, <3>4
         DEF Find, Create, Include, Insert, Broadcast, Continue, SaveNext, SaveSteps
    <3>5. CASE Validate(a) \/ Link(a)
      BY <2>4, <3>5 DEF Validate, Link, Raise, Release, Continue, SaveSteps
    <3>6. CASE StatementFails(a)
      BY <2>4, <3>6 DEF StatementFails, Raise, Release
    <3> QED
      BY <1>1, <2>4, <3>1, <3>2, <3>3, <3>4, <3>5, <3>6
         DEF ActorMoves, ThreadRuns, Save
  <2> QED
    BY <2>2, <2>3, <2>4 DEF Actors
<1>2. CASE BusMoves
  BY <1>2, BusIsElsewhere
<1> QED
  BY <1>1, <1>2, NextSplits

\* A link is only made to a feed that is there.
LEMMA JoinedStep ==
    TypeOK /\ SavesProgress /\ JoinedFeedsExist /\ [Next]_vars => JoinedFeedsExist'
<1> SUFFICES ASSUME TypeOK, SavesProgress, JoinedFeedsExist, [Next]_vars
             PROVE  JoinedFeedsExist'
  OBVIOUS
<1>1. ASSUME NEW a \in Actors, ActorMoves(a) PROVE JoinedFeedsExist'
  <2>1. feeds \subseteq feeds'
    BY <1>1, MovesAreLocal DEF TablesGrow
  <2>2. CASE Link(a)
    <3>1. pc[a] = "link" /\ joined' \subseteq joined \union {<<Req(a), task[a].feed>>}
      BY <2>2 DEF Link, SaveStep
    <3>2. task[a].feed \in feeds
      BY <3>1 DEF SavesProgress, Progress
    <3> QED
      BY <2>1, <3>1, <3>2 DEF JoinedFeedsExist
  <2>3. CASE ~Link(a)
    <3>1. joined' = joined
      BY <1>1, <2>3
         DEF ActorMoves, JobRuns, JobFails, ThreadRuns, ThreadFails, Save, Submit, Enqueue,
             Publish, Mark, PostIsAccepted, PostIsParsed, Respond, Fail, PublishIsLost,
             PublishFails, MarkFails, PostFails, JobDies, JobStep, Receive, Claim,
             ClaimIsLost, ThreadDies, Redeliver, Find, Validate, Create, Include,
             Insert, Broadcast, StatementFails, dbVars
    <3> QED
      BY <2>1, <3>1 DEF JoinedFeedsExist
  <2> QED
    BY <2>2, <2>3
<1>2. CASE BusMoves
  BY <1>2, BusIsElsewhere DEF JoinedFeedsExist
<1> QED
  BY <1>1, <1>2, NextSplits

\* The histories only grow.
HistoryGrows ==
    /\ owed \subseteq owed' /\ reopened \subseteq reopened'
    /\ lost \subseteq lost' /\ interrupted \subseteq interrupted'

\* Every step adds to them.
LEMMA HistoryStep == ASSUME [Next]_vars PROVE HistoryGrows
<1> USE DEF HistoryGrows, history
<1>1. ASSUME NEW a \in Actors, ActorMoves(a) PROVE HistoryGrows
  BY <1>1 DEF ActorMoves, JobRuns, JobFails, ThreadRuns, ThreadFails, Save, Submit, Enqueue,
              Publish, Mark, PostIsAccepted, PostIsParsed, Respond, Fail, PublishIsLost,
              PublishFails, MarkFails, PostFails, JobDies, JobStep, Receive, Claim,
              ClaimIsLost, ThreadDies, Redeliver, Find, Validate, Create, Include,
              Link, Insert, Broadcast, StatementFails, Raise, SaveStep, Continue, Owe
<1>2. CASE BusMoves
  BY <1>2 DEF BusMoves, Answer, Park, Settle, BusStep, vars
<1> QED
  BY <1>1, <1>2, NextSplits

\* Items that are being saved are saved, or go on being saved, or the save was cut
\* short.
LEMMA SavingGoesOn ==
    ASSUME TypeOK, JobsMatchRows, NEW a \in Actors, Progress(a), ActorMoves(a),
           NEW r \in Requests, NEW f \in Feeds, Saving(a, r, f)
    PROVE  \/ Saving(a, r, f)'
           \/ r \in interrupted'
           \/ <<r, f>> \in joined' \intersect saved'
<1> USE DEF TypeOK, Goto
<1>1. /\ pc[a] \in SaveSteps /\ Req(a) = r /\ f \in task[a].left
      /\ task[a] \in Tasks /\ (a \in Requests => a = r)
  BY DEF Saving, Progress
<1>2. CASE Find(a)
  <2>1. /\ task'[a].msg = task[a].msg /\ task'[a].left = task[a].left
        /\ pc'[a] \in {"include", "validate"}
    <3>1. PICK g \in task[a].left :
            /\ task' = [task EXCEPT ![a].feed = g]
            /\ Continue(a, IF g \in feeds THEN "include" ELSE "validate")
      BY <1>2 DEF Find
    <3>2. task'[a] = [task[a] EXCEPT !.feed = g]
      BY <3>1
    <3>3. task[a] = [msg |-> task[a].msg, left |-> task[a].left, feed |-> task[a].feed]
      BY <1>1, TaskFacts
    <3>4. task'[a] = [msg |-> task[a].msg, left |-> task[a].left, feed |-> g]
      BY <3>2, <3>3
    <3> QED
      BY <3>1, <3>4 DEF Continue
  <2> QED
    BY <1>1, <2>1 DEF Saving, Req, SaveSteps
<1>3. CASE Validate(a) \/ Link(a)
  <2>1. CASE Raise(a)
    BY <1>1, <2>1 DEF Raise
  <2>2. CASE ~Raise(a)
    <3>1. UNCHANGED task /\ pc'[a] \in {"create", "insert"}
      BY <1>3, <2>2 DEF Validate, Link, Continue
    <3> QED
      BY <1>1, <3>1 DEF Saving, Req, SaveSteps
  <2> QED
    BY <2>1, <2>2
<1>4. CASE Create(a) \/ Include(a)
  <2>1. UNCHANGED task /\ pc'[a] \in {"include", "insert", "link"}
    BY <1>4 DEF Create, Include, Continue
  <2> QED
    BY <1>1, <2>1 DEF Saving, Req, SaveSteps
<1>5. CASE Insert(a)
  <2>1. pc[a] = "insert" /\ joined' = joined /\ saved' = saved \union {<<r, task[a].feed>>}
    BY <1>1, <1>5 DEF Insert, SaveStep
  <2>2. <<r, task[a].feed>> \in joined
    BY <1>1, <2>1 DEF Progress
  <2>3. CASE f = task[a].feed
    BY <2>1, <2>2, <2>3
  <2>4. CASE f # task[a].feed
    <3> DEFINE left == task[a].left \ {task[a].feed}
    <3>1. task'[a] = [task[a] EXCEPT !.left = left, !.feed = NoTask]
      BY <1>5 DEF Insert
    <3>2. task[a] = [msg |-> task[a].msg, left |-> task[a].left, feed |-> task[a].feed]
      BY <1>1, TaskFacts
    <3>3. task'[a] = [msg |-> task[a].msg, left |-> left, feed |-> NoTask]
      BY <3>1, <3>2
    <3>4. task'[a].msg = task[a].msg /\ f \in task'[a].left
      BY <1>1, <2>4, <3>3
    <3>5. pc'[a] = "find"
      BY <1>1, <1>5, <2>4 DEF Insert, Continue, SaveNext
    <3> QED
      BY <1>1, <3>4, <3>5 DEF Saving, Req, SaveSteps
  <2> QED
    BY <2>3, <2>4
<1>6. CASE Broadcast(a)
  BY <1>1, <1>6 DEF Broadcast, SaveStep, Progress
<1>7. CASE StatementFails(a)
  BY <1>1, <1>7 DEF StatementFails, Raise
<1>8. CASE JobDies(a) /\ a \in Requests
  BY <1>1, <1>8 DEF JobDies
<1>9. CASE ThreadDies(a)
  BY <1>1, <1>9 DEF ThreadDies
<1>10. CASE Redeliver(a)
  BY <1>1, <1>10 DEF Redeliver, actorVars, Saving, Req
<1>11. ~ \/ Enqueue(a) \/ Publish(a) \/ Mark(a) \/ PostIsAccepted(a) \/ PostIsParsed(a)
         \/ Respond(a) \/ Fail(a) \/ PublishIsLost(a) \/ PublishFails(a) \/ MarkFails(a)
         \/ PostFails(a) \/ Receive(a) \/ Claim(a) \/ ClaimIsLost(a)
  BY <1>1 DEF Enqueue, Publish, Mark, PostIsAccepted, PostIsParsed, Respond, Fail,
              PublishIsLost, PublishFails, MarkFails, PostFails, JobStep, Receive, Claim,
              ClaimIsLost, SaveSteps
<1>12. ~(a \in Requests /\ Submit(a))
  BY <1>1 DEF JobsMatchRows, Submit, Final
<1> QED
  BY <1>2, <1>3, <1>4, <1>5, <1>6, <1>7, <1>8, <1>9, <1>10, <1>11, <1>12
     DEF ActorMoves, JobRuns, JobFails, ThreadRuns, ThreadFails, Save

\* A step that owes items begins to save them.
LEMMA NewDebts ==
    ASSUME TypeOK, NEW a \in Actors, Progress(a), ActorMoves(a),
           NEW row \in owed' \ owed
    PROVE  Saving(a, row[1], row[2])'
<1> USE DEF TypeOK, Goto
<1>1. CASE (a \in Requests /\ Respond(a)) \/ Claim(a)
  <2>1. /\ pc[a] \in {"claim", "respond"} /\ UNCHANGED task
        /\ owed' = owed \union ({Req(a)} \X Outcome(a).feeds)
        /\ pc'[a] = SaveNext(Outcome(a).feeds)
    <3>1. CASE Claim(a)
      BY <3>1 DEF Claim, Owe
    <3>2. CASE a \in Requests /\ Respond(a)
      <4>1. Req(a) = a
        BY <3>2 DEF Respond, JobStep, Progress
      <4> QED
        BY <3>2, <4>1 DEF Respond, JobStep, Owe
    <3> QED
      BY <1>1, <3>1, <3>2
  <2>2. row \in {Req(a)} \X Outcome(a).feeds
    BY <2>1
  <2>3. row[1] = Req(a) /\ row[2] \in Outcome(a).feeds
    BY <2>2
  <2>4. pc'[a] = "find" /\ task'[a] = task[a] /\ task[a].left = Outcome(a).feeds
    BY <2>1, <2>3 DEF SaveNext, Progress
  <2> QED
    BY <2>3, <2>4 DEF Saving, Req, SaveSteps
<1>2. CASE ~((a \in Requests /\ Respond(a)) \/ Claim(a))
  <2>1. owed' = owed
    BY <1>2
       DEF ActorMoves, JobRuns, JobFails, ThreadRuns, ThreadFails, Save, Submit, Enqueue,
           Publish, Mark, PostIsAccepted, PostIsParsed, Fail, PublishIsLost,
           PublishFails, MarkFails, PostFails, JobDies, JobStep, Receive,
           ClaimIsLost, ThreadDies, Redeliver, Find, Validate, Create, Include,
           Link, Insert, Broadcast, StatementFails, SaveStep, history
  <2> QED
    BY <2>1
<1> QED
  BY <1>1, <1>2

\* Missing items keep their reason.
LEMMA MissingStep ==
    ASSUME TypeOK, SavesProgress, JobsMatchRows, MissingItemsHaveReason, [Next]_vars
    PROVE  MissingItemsHaveReason'
<1> SUFFICES ASSUME NEW row \in owed', row \notin joined' \intersect saved'
             PROVE  \/ \E b \in Actors : Saving(b, row[1], row[2])'
                    \/ row[1] \in interrupted'
  BY DEF MissingItemsHaveReason
<1>1. ASSUME NEW a \in Actors, ActorMoves(a)
      PROVE  \/ \E b \in Actors : Saving(b, row[1], row[2])'
             \/ row[1] \in interrupted'
  <2>1. CASE row \notin owed
    BY <1>1, <2>1, NewDebts DEF SavesProgress
  <2>2. CASE row \in owed
    <3>1. row \notin joined \intersect saved
      BY <1>1, MovesAreLocal DEF TablesGrow
    <3>2. CASE row[1] \in interrupted
      BY <3>2, HistoryStep DEF HistoryGrows
    <3>3. ASSUME NEW b \in Actors, Saving(b, row[1], row[2])
          PROVE  Saving(b, row[1], row[2])' \/ row[1] \in interrupted'
      <4>1. /\ row[1] \in Requests /\ row[2] \in Feeds
            /\ row = <<row[1], row[2]>>
        BY <2>2 DEF TypeOK
      <4>2. CASE b = a
        BY <1>1, <3>3, <4>1, <4>2, SavingGoesOn DEF SavesProgress
      <4>3. CASE b # a
        <5>1. pc'[b] = pc[b] /\ task'[b] = task[b]
          BY <1>1, <4>3, MovesAreLocal DEF OthersStay
        <5> QED
          BY <3>3, <5>1 DEF Saving, Req
      <4> QED
        BY <4>2, <4>3
    <3> QED
      BY <2>2, <3>1, <3>2, <3>3 DEF MissingItemsHaveReason
  <2> QED
    BY <2>1, <2>2
<1>2. CASE BusMoves
  <2>1. /\ owed' = owed /\ joined' = joined /\ saved' = saved /\ interrupted' = interrupted
        /\ pc' = pc /\ task' = task
    BY <1>2, BusIsElsewhere
  <2>2. (\E b \in Actors : Saving(b, row[1], row[2])) \/ row[1] \in interrupted
    BY <2>1 DEF MissingItemsHaveReason
  <2>3. ASSUME NEW b \in Actors, Saving(b, row[1], row[2])
        PROVE  Saving(b, row[1], row[2])'
    BY <2>1, <2>3 DEF Saving, Req
  <2> QED
    BY <2>1, <2>2, <2>3
<1> QED
  BY <1>1, <1>2, NextSplits

----------------------------------------------------------------------------
(* Claims, rows and jobs *)

\* The steps that set a status.
SetsStatus(a) ==
    \/ a \in Requests /\ (Submit(a) \/ Mark(a) \/ Respond(a) \/ Fail(a))
    \/ a \in Threads /\ Claim(a)

\* All others leave the row as it is.
LEMMA RestLeavesStatus ==
    ASSUME NEW a \in Actors, ActorMoves(a), ~SetsStatus(a)
    PROVE  UNCHANGED <<status, claims, reopened>>
BY DEF SetsStatus, ActorMoves, JobRuns, JobFails, ThreadRuns, ThreadFails, Save, Enqueue,
       Publish, PostIsAccepted, PostIsParsed, PublishIsLost,
       PublishFails, MarkFails, PostFails, JobDies, JobStep, Receive,
       ClaimIsLost, ThreadDies, Redeliver, Find, Validate, Create, Include,
       Link, Insert, Broadcast, StatementFails, SaveStep, history, dbVars

\* The last two steps of a job finish its own row.
LEMMA FinishMoves ==
    ASSUME TypeOK, SavesProgress, NEW r \in Requests, Respond(r) \/ Fail(r)
    PROVE  /\ status'[r] \in Final
           /\ \A q \in Requests \ {r} : status'[q] = status[q]
           /\ UNCHANGED <<claims, reopened>>
<1> USE DEF TypeOK
<1>1. CASE Respond(r)
  <2>1. task[r] \in Tasks
    BY <1>1, WorkerFacts DEF Respond, JobStep, Actors
  <2>2. Outcome(r).status \in Final
    BY <2>1, TaskFacts
  <2> QED
    BY <1>1, <2>2 DEF Respond
<1>2. CASE Fail(r)
  BY <1>2 DEF Fail, Final
<1> QED
  BY <1>1, <1>2

\* A claim finishes the row of its result.
LEMMA ClaimMoves ==
    ASSUME TypeOK, SavesProgress, NEW t \in Threads, Claim(t)
    PROVE  /\ Req(t) \in Requests
           /\ status[Req(t)] \in Claimable /\ status'[Req(t)] \in Final
           /\ \A q \in Requests \ {Req(t)} : status'[q] = status[q]
           /\ claims' = [claims EXCEPT ![Req(t)] = @ + 1]
           /\ UNCHANGED reopened
<1> USE DEF TypeOK
<1>1. task[t] \in Tasks
  BY WorkerFacts DEF Claim, Actors
<1>2. Req(t) \in Requests /\ Outcome(t).status \in Final
  BY <1>1, TaskFacts
<1> QED
  BY <1>2 DEF Claim

\* A job that has ended does nothing more.
LEMMA EndedStays ==
    ASSUME TypeOK, NEW r \in Requests, pc[r] = "ended", status[r] # "absent",
           NEW a \in Actors, ActorMoves(a)
    PROVE  pc'[r] = "ended"
<1>1. CASE a = r
  BY <1>1 DEF ActorMoves, JobRuns, JobFails, Save, Submit, Enqueue,
              Publish, Mark, PostIsAccepted, PostIsParsed, Respond, Fail, PublishIsLost,
              PublishFails, MarkFails, PostFails, JobDies, JobStep, Find, Validate, Create,
              Include, Link, Insert, Broadcast, StatementFails, SaveStep, SaveSteps
<1>2. CASE a # r
  BY <1>2, MovesAreLocal DEF OthersStay, Actors
<1> QED
  BY <1>1, <1>2

\* One claim, or two around the job's own update.
LEMMA ClaimsStep ==
    ASSUME TypeOK, SavesProgress, JobsMatchRows, ClaimsFinish, [Next]_vars
    PROVE  ClaimsFinish'
<1> SUFFICES ASSUME NEW r \in Requests
             PROVE  /\ claims'[r] <= (IF r \in reopened' THEN 2 ELSE 1)
                    /\ claims'[r] = (IF r \in reopened' THEN 2 ELSE 1) => status'[r] \in Final
                    /\ r \in reopened' => pc'[r] = "ended" /\ status'[r] # "absent"
  BY DEF ClaimsFinish
<1> USE DEF TypeOK
<1>1. /\ claims[r] <= (IF r \in reopened THEN 2 ELSE 1)
      /\ claims[r] = (IF r \in reopened THEN 2 ELSE 1) => status[r] \in Final
      /\ r \in reopened => pc[r] = "ended" /\ status[r] # "absent"
      /\ claims[r] \in Nat
  BY DEF ClaimsFinish
<1>2. ASSUME NEW a \in Actors, ActorMoves(a), UNCHANGED <<status, claims, reopened>>
      PROVE  r \in reopened' => pc'[r] = "ended"
  BY <1>1, <1>2, EndedStays
<1>3. CASE \E a \in Actors : ActorMoves(a) /\ ~SetsStatus(a)
  BY <1>1, <1>2, <1>3, RestLeavesStatus
<1>4. ASSUME NEW a \in Requests, Submit(a), ActorMoves(a)
      PROVE  /\ claims'[r] <= (IF r \in reopened' THEN 2 ELSE 1)
             /\ claims'[r] = (IF r \in reopened' THEN 2 ELSE 1) => status'[r] \in Final
             /\ r \in reopened' => pc'[r] = "ended" /\ status'[r] # "absent"
  <2>1. UNCHANGED <<claims, reopened>> /\ status' = [status EXCEPT ![a] = "pending"]
        /\ status[a] = "absent"
    BY <1>4 DEF Submit, history
  <2>2. "absent" \notin Final
    BY DEF Final
  <2>3. r \in reopened => r # a /\ pc'[r] = "ended"
    BY <1>1, <1>4, <2>1, EndedStays DEF Actors
  <2> QED
    BY <1>1, <2>1, <2>2, <2>3
<1>5. ASSUME NEW a \in Requests, Mark(a), ActorMoves(a)
      PROVE  /\ claims'[r] <= (IF r \in reopened' THEN 2 ELSE 1)
             /\ claims'[r] = (IF r \in reopened' THEN 2 ELSE 1) => status'[r] \in Final
             /\ r \in reopened' => pc'[r] = "ended" /\ status'[r] # "absent"
  <2>1. /\ UNCHANGED claims /\ status' = [status EXCEPT ![a] = "processing"]
        /\ reopened' = (IF status[a] \in Final THEN reopened \union {a} ELSE reopened)
        /\ pc[a] = "mark" /\ pc'[a] = "ended"
    BY <1>5 DEF Mark, JobStep, Goto, Actors
  <2>2. CASE r = a
    BY <1>1, <2>1, <2>2
  <2>3. CASE r # a
    <3>1. r \in reopened' <=> r \in reopened
      BY <2>1, <2>3
    <3>2. r \in reopened => pc'[r] = "ended"
      BY <1>1, <1>5, EndedStays DEF Actors
    <3> QED
      BY <1>1, <2>1, <2>3, <3>1, <3>2
  <2> QED
    BY <2>2, <2>3
<1>6. ASSUME NEW a \in Requests, Respond(a) \/ Fail(a), ActorMoves(a)
      PROVE  /\ claims'[r] <= (IF r \in reopened' THEN 2 ELSE 1)
             /\ claims'[r] = (IF r \in reopened' THEN 2 ELSE 1) => status'[r] \in Final
             /\ r \in reopened' => pc'[r] = "ended" /\ status'[r] # "absent"
  <2>1. /\ status'[a] \in Final
        /\ \A q \in Requests \ {a} : status'[q] = status[q]
        /\ UNCHANGED <<claims, reopened>>
    BY <1>6, FinishMoves
  <2>2. r \in reopened => pc'[r] = "ended"
    BY <1>1, <1>6, EndedStays DEF Actors
  <2> QED
    BY <1>1, <2>1, <2>2 DEF Final
<1>7. ASSUME NEW a \in Threads, Claim(a), ActorMoves(a)
      PROVE  /\ claims'[r] <= (IF r \in reopened' THEN 2 ELSE 1)
             /\ claims'[r] = (IF r \in reopened' THEN 2 ELSE 1) => status'[r] \in Final
             /\ r \in reopened' => pc'[r] = "ended" /\ status'[r] # "absent"
  <2>1. /\ Req(a) \in Requests
        /\ status[Req(a)] \in Claimable /\ status'[Req(a)] \in Final
        /\ \A q \in Requests \ {Req(a)} : status'[q] = status[q]
        /\ claims' = [claims EXCEPT ![Req(a)] = @ + 1]
        /\ UNCHANGED reopened
    BY <1>7, ClaimMoves
  <2>2. r \in reopened => pc'[r] = "ended"
    BY <1>1, <1>7, EndedStays DEF Actors
  <2>3. CASE r = Req(a)
    <3>1. claims'[r] = claims[r] + 1 /\ status[r] \notin Final
      BY <2>1, <2>3 DEF Claimable, Final
    <3> QED
      BY <1>1, <2>1, <2>2, <2>3, <3>1 DEF Final
  <2>4. CASE r # Req(a)
    BY <1>1, <2>1, <2>2, <2>4
  <2> QED
    BY <2>3, <2>4
<1>8. CASE BusMoves
  BY <1>1, <1>8, BusIsElsewhere
<1> QED
  BY <1>3, <1>4, <1>5, <1>6, <1>7, <1>8, NextSplits DEF SetsStatus

\* JobsMatchRows for one request.
JobMatchesRow(r) ==
    /\ status[r] = "absent" => pc[r] = "none" /\ \A c \in accepted : c[1] # r
    /\ pc[r] = "none" => status[r] = "absent"
    /\ pc[r] \in SaveSteps => status[r] \in Final
    /\ pc[r] \in {"mark", "ended"} =>
          \/ status[r] \in Final \/ Excused(r)
          \/ \E c \in accepted : c[1] = r

\* The commands that the bus has: only a job adds one, its own.
LEMMA AcceptedMoves ==
    ASSUME NEW a \in Actors, ActorMoves(a)
    PROVE  /\ accepted \subseteq accepted'
           /\ \A c \in accepted' \ accepted : c[1] = a
           /\ UNCHANGED <<answered, parked, settled>>
BY DEF ActorMoves, JobRuns, JobFails, ThreadRuns, ThreadFails, Save, Submit, Enqueue,
       Publish, Mark, PostIsAccepted, PostIsParsed, Respond, Fail, PublishIsLost,
       PublishFails, MarkFails, PostFails, JobDies, JobStep, Receive, Claim,
       ClaimIsLost, ThreadDies, Redeliver, Find, Validate, Create, Include,
       Link, Insert, Broadcast, StatementFails, SaveStep, busVars, Bus!Accept

\* A job that saves and raises goes on to its last update, a job that has saved all
\* ends.
LEMMA SaveOfJob ==
    ASSUME TypeOK, NEW r \in Requests, Save(r) \/ StatementFails(r)
    PROVE  /\ pc[r] \in SaveSteps \union {"respond", "claim"}
           /\ pc'[r] \in SaveSteps \union {"fail", "ended"}
           /\ pc'[r] \in SaveSteps \union {"ended"} => pc[r] \in SaveSteps
           /\ UNCHANGED <<status, accepted>>
<1> USE DEF TypeOK, Goto, SaveStep, busVars
<1>1. CASE Find(r) \/ Create(r) \/ Include(r) \/ Insert(r) \/ Broadcast(r)
  BY <1>1 DEF Find, Create, Include, Insert, Broadcast, Continue, SaveNext, SaveSteps, Actors
<1>2. CASE Validate(r) \/ Link(r)
  BY <1>2 DEF Validate, Link, Raise, Continue, SaveSteps, Actors
<1>3. CASE StatementFails(r)
  BY <1>3 DEF StatementFails, Raise, SaveSteps, Actors, dbVars
<1> QED
  BY <1>1, <1>2, <1>3 DEF Save

\* Its own step keeps a job and its row together.
LEMMA OwnRowMatches ==
    ASSUME TypeOK, SavesProgress, NEW r \in Requests, JobMatchesRow(r), ActorMoves(r),
           HistoryGrows
    PROVE  JobMatchesRow(r)'
<1> USE DEF TypeOK, Goto, JobStep, JobMatchesRow
<1>0. /\ r \in Actors /\ r \notin Threads
      /\ \A step : [pc EXCEPT ![r] = step][r] = step
      /\ Excused(r) => Excused(r)'
  BY DEF Actors, HistoryGrows, Excused
<1>1. CASE Submit(r)
  <2>1. status'[r] = "pending" /\ pc'[r] = "created"
    BY <1>0, <1>1 DEF Submit
  <2> QED
    BY <2>1 DEF SaveSteps
<1>2. CASE Enqueue(r) \/ PublishFails(r) \/ MarkFails(r) \/ PostIsParsed(r) \/ PostFails(r)
  <2>1. /\ pc[r] \in {"created", "queued", "mark", "fallback"}
        /\ pc'[r] \in {"queued", "fallback", "respond", "fail"}
        /\ UNCHANGED <<status, accepted>>
    BY <1>0, <1>2 DEF Enqueue, PublishFails, MarkFails, PostIsParsed, PostFails, dbVars, busVars
  <2> QED
    BY <2>1 DEF SaveSteps
<1>3. CASE Publish(r) \/ PostIsAccepted(r)
  <2>1. /\ pc[r] \in {"queued", "fallback"} /\ pc'[r] \in {"mark", "fail"}
        /\ UNCHANGED status
        /\ \E c \in accepted' : c[1] = r
    <3>1. CASE Publish(r)
      <4>1. <<r, "rails">> \in accepted'
        BY <3>1 DEF Publish, Bus!Accept
      <4>2. \E c \in accepted' : c[1] = r
        BY <4>1
      <4> QED
        BY <1>0, <3>1, <4>2 DEF Publish
    <3>2. CASE PostIsAccepted(r)
      <4>1. <<r, "go">> \in accepted'
        BY <3>2 DEF PostIsAccepted, Bus!Accept
      <4>2. \E c \in accepted' : c[1] = r
        BY <4>1
      <4> QED
        BY <1>0, <3>2, <4>2 DEF PostIsAccepted
    <3> QED
      BY <1>3, <3>1, <3>2
  <2> QED
    BY <2>1 DEF SaveSteps
<1>4. CASE PublishIsLost(r)
  <2>1. /\ pc[r] = "queued" /\ pc'[r] = "mark" /\ UNCHANGED <<status, accepted>>
        /\ r \in lost'
    BY <1>0, <1>4 DEF PublishIsLost
  <2> QED
    BY <2>1 DEF SaveSteps, Excused
<1>5. CASE Mark(r)
  <2>1. /\ pc[r] = "mark" /\ pc'[r] = "ended" /\ status'[r] = "processing"
        /\ accepted' = accepted
        /\ status[r] \in Final => r \in reopened'
    BY <1>0, <1>5 DEF Mark
  <2>2. Excused(r)' \/ \E c \in accepted : c[1] = r
    BY <1>0, <2>1 DEF Excused
  <2> QED
    BY <2>1, <2>2 DEF SaveSteps
<1>6. CASE Respond(r)
  <2>1. /\ status'[r] \in Final
        /\ pc'[r] \in SaveSteps
    BY <1>0, <1>6, FinishMoves DEF Respond, SaveNext, SaveSteps
  <2> QED
    BY <2>1 DEF SaveSteps, Final
<1>7. CASE Fail(r)
  <2>1. status'[r] \in Final /\ pc'[r] = "ended"
    BY <1>0, <1>7, FinishMoves DEF Fail
  <2> QED
    BY <2>1 DEF SaveSteps, Final
<1>8. CASE JobDies(r)
  <2>1. /\ pc[r] # "none" /\ pc'[r] = "ended" /\ r \in interrupted'
        /\ UNCHANGED <<status, accepted>>
    BY <1>0, <1>8 DEF JobDies, dbVars, busVars
  <2> QED
    BY <2>1 DEF SaveSteps, Excused
<1>9. CASE Save(r) \/ StatementFails(r)
  <2>1. /\ pc[r] \in SaveSteps \union {"respond", "claim"}
        /\ pc'[r] \in SaveSteps \union {"fail", "ended"}
        /\ pc'[r] \in SaveSteps \union {"ended"} => pc[r] \in SaveSteps
        /\ UNCHANGED <<status, accepted>>
    BY <1>9, SaveOfJob
  <2> QED
    BY <2>1 DEF SaveSteps
<1> QED
  BY <1>0, <1>1, <1>2, <1>3, <1>4, <1>5, <1>6, <1>7, <1>8, <1>9
     DEF ActorMoves, JobRuns, JobFails

\* Jobs and rows stay together, whoever moves.
LEMMA JobsStep ==
    ASSUME TypeOK, SavesProgress, JobsMatchRows, [Next]_vars PROVE JobsMatchRows'
<1> SUFFICES ASSUME NEW r \in Requests PROVE JobMatchesRow(r)'
  BY DEF JobsMatchRows, JobMatchesRow
<1>1. JobMatchesRow(r) /\ HistoryGrows
  BY HistoryStep DEF JobsMatchRows, JobMatchesRow
<1>2. Excused(r) => Excused(r)'
  BY <1>1 DEF HistoryGrows, Excused
<1>3. ASSUME NEW a \in Actors, ActorMoves(a) PROVE JobMatchesRow(r)'
  <2>1. CASE a = r
    BY <1>1, <1>3, <2>1, OwnRowMatches
  <2>2. CASE a # r
    <3>1. pc'[r] = pc[r]
      BY <1>3, <2>2, MovesAreLocal DEF OthersStay, Actors
    <3>2. /\ accepted \subseteq accepted'
          /\ \A c \in accepted' : c[1] = r => c \in accepted
      BY <1>3, <2>2, AcceptedMoves
    <3>3. status'[r] = status[r] \/ (status[r] \in Claimable /\ status'[r] \in Final)
      <4>1. CASE ~SetsStatus(a)
        BY <1>3, <4>1, RestLeavesStatus
      <4>2. CASE a \in Requests /\ (Submit(a) \/ Mark(a))
        BY <2>2, <4>2 DEF Submit, Mark, TypeOK
      <4>3. CASE a \in Requests /\ (Respond(a) \/ Fail(a))
        BY <2>2, <4>3, FinishMoves
      <4>4. CASE a \in Threads /\ Claim(a)
        BY <4>4, ClaimMoves
      <4> QED
        BY <4>1, <4>2, <4>3, <4>4 DEF SetsStatus
    <3>4. "absent" \notin Final /\ "absent" \notin Claimable
      BY DEF Final, Claimable
    <3> QED
      BY <1>1, <1>2, <3>1, <3>2, <3>3, <3>4 DEF JobMatchesRow
  <2> QED
    BY <2>1, <2>2
<1>4. CASE BusMoves
  <2>1. status' = status /\ pc' = pc /\ accepted' = accepted
    BY <1>4, BusIsElsewhere
       DEF BusMoves, Answer, Park, Settle, Bus!Answer, Bus!Park, Bus!Settle, vars, busVars
  <2> QED
    BY <1>1, <1>2, <2>1 DEF JobMatchesRow
<1> QED
  BY <1>3, <1>4, NextSplits

----------------------------------------------------------------------------
(* Answers *)

\* The result of c has a claim ahead of it.
Awaited(c) ==
    \/ \E m \in queue : m.cmd[1] = c[1]
    \/ \E t \in held : pc[t] = "claim" /\ Req(t) = c[1]

\* An actor that takes an answer off its way claims it, gives it back, or finds a
\* reason why it is lost or not needed.
LEMMA AwaitedMoves ==
    ASSUME TypeOK, SavesProgress, HeldIsWorkedOn, NEW a \in Actors, ActorMoves(a),
           NEW c \in Commands, Awaited(c)
    PROVE  \/ Awaited(c)'
           \/ status'[c[1]] \notin Claimable
           \/ c[1] \in lost'
<1> USE DEF TypeOK, Goto
<1>0. "absent" \notin Claimable /\ \A s \in Final : s \notin Claimable
  BY DEF Claimable, Final
<1>1. ASSUME NEW m \in queue, m.cmd[1] = c[1]
      PROVE  \/ Awaited(c)'
             \/ status'[c[1]] \notin Claimable
  <2>1. CASE m \in queue'
    BY <1>1, <2>1 DEF Awaited
  <2>2. CASE m \notin queue'
    <3>1. a \in Threads /\ Receive(a)
      BY <2>2
         DEF ActorMoves, JobRuns, JobFails, ThreadRuns, ThreadFails, Save, Submit, Enqueue,
             Publish, Mark, PostIsAccepted, PostIsParsed, Respond, Fail, PublishIsLost,
             PublishFails, MarkFails, PostFails, JobDies, JobStep, Claim,
             ClaimIsLost, ThreadDies, Redeliver, Find, Validate, Create, Include,
             Link, Insert, Broadcast, StatementFails, SaveStep, queueVars
    <3>2. PICK n \in queue :
            /\ queue' = queue \ {n}
            /\ IF status[n.cmd[1]] \in Final
               THEN UNCHANGED <<pc, task, held>>
               ELSE /\ Goto(a, "claim")
                    /\ task' = [task EXCEPT ![a] =
                           [msg |-> n, left |-> n.outcome.feeds, feed |-> NoTask]]
                    /\ held' = held \union {a}
      BY <3>1 DEF Receive
    <3>3. n = m /\ UNCHANGED status
      BY <2>2, <3>1, <3>2 DEF Receive, dbVars
    <3>4. CASE status[m.cmd[1]] \in Final
      BY <1>0, <1>1, <3>3, <3>4
    <3>5. CASE status[m.cmd[1]] \notin Final
      <4>1. /\ pc'[a] = "claim" /\ a \in held'
            /\ task'[a] = [msg |-> m, left |-> m.outcome.feeds, feed |-> NoTask]
        BY <3>2, <3>3, <3>5
      <4>2. task'[a].msg.cmd[1] = c[1]
        BY <1>1, <4>1
      <4> QED
        BY <4>1, <4>2 DEF Awaited, Req
    <3> QED
      BY <3>4, <3>5
  <2> QED
    BY <2>1, <2>2
<1>2. ASSUME NEW t \in held, pc[t] = "claim", Req(t) = c[1]
      PROVE  \/ Awaited(c)'
             \/ status'[c[1]] \notin Claimable
             \/ c[1] \in lost'
  <2>1. CASE t # a
    <3>1. pc'[t] = pc[t] /\ task'[t] = task[t]
      BY <2>1, MovesAreLocal DEF OthersStay, Actors
    <3>2. t \in held'
      BY <2>1
         DEF ActorMoves, JobRuns, JobFails, ThreadRuns, ThreadFails, Save, Submit, Enqueue,
             Publish, Mark, PostIsAccepted, PostIsParsed, Respond, Fail, PublishIsLost,
             PublishFails, MarkFails, PostFails, JobDies, JobStep, Receive, Claim,
             ClaimIsLost, ThreadDies, Redeliver, Release, Find, Validate, Create, Include,
             Link, Insert, Broadcast, StatementFails, Raise, SaveStep, Continue, queueVars,
             actorVars
    <3> QED
      BY <1>2, <3>1, <3>2 DEF Awaited, Req
  <2>2. CASE t = a
    <3>1. a \in Threads /\ a \notin Requests /\ a \in held
      BY <2>2
    <3>2. CASE Claim(a)
      BY <1>0, <1>2, <2>2, <3>1, <3>2, ClaimMoves
    <3>3. CASE ClaimIsLost(a)
      BY <1>2, <2>2, <3>3 DEF ClaimIsLost, dbVars
    <3>4. CASE StatementFails(a)
      BY <1>2, <2>2, <3>1, <3>4 DEF StatementFails, Raise
    <3>5. CASE ThreadDies(a) \/ Redeliver(a)
      <4>1. task[a].msg \in queue'
        BY <3>1, <3>5 DEF ThreadDies, Redeliver
      <4>2. task[a].msg.cmd[1] = c[1]
        BY <1>2, <2>2 DEF Req
      <4> QED
        BY <4>1, <4>2 DEF Awaited
    <3>6. ~Receive(a) /\ ~Save(a)
      BY <1>2, <2>2 DEF Receive, Save, Find, Validate, Create, Include, Link, Insert,
                        Broadcast, SaveStep
    <3> QED
      BY <3>1, <3>2, <3>3, <3>4, <3>5, <3>6 DEF ActorMoves, ThreadRuns, ThreadFails
  <2> QED
    BY <2>1, <2>2
<1> QED
  BY <1>1, <1>2 DEF Awaited

\* No answer is forgotten while its request is open.
LEMMA AnswersStep ==
    ASSUME TypeOK, SavesProgress, HeldIsWorkedOn, JobsMatchRows, AnswersAreHeard, [Next]_vars
    PROVE  AnswersAreHeard'
<1> SUFFICES ASSUME NEW c \in answered'
             PROVE  \/ status'[c[1]] \notin Claimable
                    \/ Excused(c[1])'
                    \/ Awaited(c)'
  BY DEF AnswersAreHeard, Awaited
<1> USE DEF TypeOK
<1>0. \A q : Excused(q) => Excused(q)'
  BY HistoryStep DEF HistoryGrows, Excused
<1>1. ASSUME NEW a \in Actors, ActorMoves(a)
      PROVE  \/ status'[c[1]] \notin Claimable
             \/ Excused(c[1])'
             \/ Awaited(c)'
  <2>1. c \in answered /\ c \in accepted /\ c \in Commands
    BY <1>1, AcceptedMoves
  <2>2. c[1] \in Requests
    BY <2>1 DEF Commands
  <2>3. status[c[1]] \notin Claimable \/ Excused(c[1]) \/ Awaited(c)
    BY <2>1 DEF AnswersAreHeard, Awaited
  <2>4. CASE Awaited(c)
    BY <1>1, <2>1, <2>4, AwaitedMoves DEF Excused
  <2>5. CASE Excused(c[1])
    BY <1>0, <2>5
  <2>6. CASE status[c[1]] \notin Claimable
    <3>1. status[c[1]] # "absent"
      BY <2>1, <2>2 DEF JobsMatchRows
    <3>2. status[c[1]] \in Final
      BY <2>2, <2>6, <3>1 DEF Claimable
    <3>3. CASE ~SetsStatus(a)
      BY <1>1, <2>6, <3>3, RestLeavesStatus
    <3>4. CASE a \in Requests /\ Submit(a)
      BY <2>2, <2>6, <3>1, <3>4 DEF Submit
    <3>5. CASE a \in Requests /\ Mark(a)
      BY <2>2, <2>6, <3>2, <3>5 DEF Mark, Excused
    <3>6. CASE a \in Requests /\ (Respond(a) \/ Fail(a))
      BY <2>2, <2>6, <3>6, FinishMoves DEF Final, Claimable
    <3>7. CASE a \in Threads /\ Claim(a)
      BY <2>2, <2>6, <3>7, ClaimMoves DEF Final, Claimable
    <3> QED
      BY <3>3, <3>4, <3>5, <3>6, <3>7 DEF SetsStatus
  <2> QED
    BY <2>3, <2>4, <2>5, <2>6
<1>2. CASE BusMoves
  <2>1. UNCHANGED <<status, pc, task, held>>
    BY <1>2, BusIsElsewhere
  <2>2. queue \subseteq queue'
    BY <1>2 DEF BusMoves, Answer, Park, Settle, vars, queueVars
  <2>3. Awaited(c) => Awaited(c)'
    BY <2>1, <2>2 DEF Awaited, Req
  <2>4. CASE c \in answered
    BY <1>0, <2>1, <2>3, <2>4 DEF AnswersAreHeard, Awaited
  <2>5. CASE c \notin answered
    <3>1. PICK d \in Commands : Answer(d)
      BY <1>2, <2>5
         DEF BusMoves, Park, Settle, Bus!Park, Bus!Settle, vars, busVars
    <3>2. c = d
      BY <2>5, <3>1 DEF Answer, Bus!Answer
    <3>3. \E m \in queue' : m.cmd = c
      <4>1. PICK o \in Outcomes(d[1]) :
              queue' = queue \union {[cmd |-> d, outcome |-> o,
                                      copy |-> IF d \in answered THEN faults + 1 ELSE 0]}
        BY <3>1 DEF Answer
      <4> DEFINE m == [cmd |-> d, outcome |-> o,
                       copy |-> IF d \in answered THEN faults + 1 ELSE 0]
      <4>2. m \in queue' /\ m.cmd = c
        BY <3>2, <4>1
      <4> QED
        BY <4>2
    <3> QED
      BY <3>3 DEF Awaited
  <2> QED
    BY <2>4, <2>5
<1> QED
  BY <1>1, <1>2, NextSplits

\* The bus forgets only what has an outcome.
LEMMA SettledStep == ASSUME SettledHaveOutcome, [Next]_vars PROVE SettledHaveOutcome'
<1>1. lost \subseteq lost'
  BY HistoryStep DEF HistoryGrows
<1>2. ASSUME NEW a \in Actors, ActorMoves(a) PROVE SettledHaveOutcome'
  BY <1>1, <1>2, AcceptedMoves DEF SettledHaveOutcome
<1>3. CASE BusMoves
  BY <1>1, <1>3
     DEF BusMoves, Answer, Park, Settle, Bus!Answer, Bus!Park, Bus!Settle, vars, busVars,
         SettledHaveOutcome
<1> QED
  BY <1>2, <1>3, NextSplits

----------------------------------------------------------------------------
(* The invariant, and what follows from it *)

\* Nothing has been asked for yet.
LEMMA InitInductive == Init => InductiveInv
<1> SUFFICES ASSUME Init PROVE InductiveInv
  OBVIOUS
<1>1. TypeOK
  BY InitTypeOK
<1>2. \A a \in Actors : pc[a] \in {"none", "idle"}
  BY DEF Init
<1>3. SavesProgress
  BY <1>2 DEF SavesProgress, Progress, SaveSteps
<1>4. HeldIsWorkedOn /\ JoinedFeedsExist /\ MissingItemsHaveReason
  BY DEF Init, HeldIsWorkedOn, JoinedFeedsExist, MissingItemsHaveReason
<1>5. ClaimsFinish
  BY DEF Init, ClaimsFinish
<1>6. JobsMatchRows
  BY DEF Init, JobsMatchRows, SaveSteps, Actors, Bus!Init
<1>7. AnswersAreHeard /\ SettledHaveOutcome
  BY DEF Init, Bus!Init, AnswersAreHeard, SettledHaveOutcome
<1> QED
  BY <1>1, <1>3, <1>4, <1>5, <1>6, <1>7 DEF InductiveInv

\* Each part is kept by the lemma of its own.
LEMMA InductiveStep == InductiveInv /\ [Next]_vars => InductiveInv'
<1> SUFFICES ASSUME InductiveInv, [Next]_vars PROVE InductiveInv'
  OBVIOUS
<1> USE DEF InductiveInv
<1>1. TypeOK' /\ SavesProgress' /\ HeldIsWorkedOn'
  BY TypeOKStep, ProgressStep, HeldStep
<1>2. JoinedFeedsExist' /\ MissingItemsHaveReason'
  BY JoinedStep, MissingStep
<1>3. ClaimsFinish' /\ JobsMatchRows'
  BY ClaimsStep, JobsStep
<1>4. AnswersAreHeard' /\ SettledHaveOutcome'
  BY AnswersStep, SettledStep
<1> QED
  BY <1>1, <1>2, <1>3, <1>4

\* The parts together hold in every state.
THEOREM InductiveInvariant == Spec => []InductiveInv
BY InitInductive, InductiveStep, PTL DEF Spec

\* Every variable keeps its type.
THEOREM TypeCorrect == Spec => []TypeOK
<1>1. InductiveInv => TypeOK
  BY DEF InductiveInv
<1> QED
  BY <1>1, InductiveInvariant, PTL

\* However often a result is delivered and however many threads have it, it is
\* claimed once; a second claim needs the job to have reopened the request
\* (process_feed_result_job.rb:21-27).
THEOREM ClaimedOnce == Spec => []OneClaimUnlessReopened
<1>1. InductiveInv => OneClaimUnlessReopened
  BY DEF InductiveInv, ClaimsFinish, OneClaimUnlessReopened
<1> QED
  BY <1>1, InductiveInvariant, PTL

\* No interleaving of savers loses items of a finished request: they are being
\* saved, or a save was cut short (process_feed_result_job.rb:25-55).
THEOREM MissingItemsExplained == Spec => []MissingItemsHaveReason
<1>1. InductiveInv => MissingItemsHaveReason
  BY DEF InductiveInv
<1> QED
  BY <1>1, InductiveInvariant, PTL

\* A request nobody works on and nothing excuses has a final status.
LEMMA StuckFollows == InductiveInv => StuckHasReason
<1> SUFFICES ASSUME InductiveInv, NEW r \in Requests, Quiet(r), status[r] \in Claimable
             PROVE  Excused(r)
  BY DEF StuckHasReason
<1> USE DEF InductiveInv
<1>1. SUFFICES ASSUME ~Excused(r) PROVE FALSE
  OBVIOUS
<1>2. status[r] \notin Final /\ status[r] # "absent"
  BY DEF Claimable, Final
<1>3. pc[r] = "ended"
  BY <1>2 DEF Quiet, JobsMatchRows
<1>4. PICK c \in accepted : c[1] = r
  BY <1>1, <1>2, <1>3 DEF JobsMatchRows
<1>5. c \in settled
  <2>1. c \in Requests \X Senders
    BY DEF TypeOK, Commands
  <2>2. c \in {r} \X Senders
    BY <1>4, <2>1
  <2> QED
    BY <1>4, <2>2 DEF Quiet
<1>6. c \in answered
  BY <1>1, <1>4, <1>5 DEF SettledHaveOutcome, Excused
<1>7. \/ \E m \in queue : m.cmd[1] = r
      \/ \E t \in held : pc[t] = "claim" /\ Req(t) = r
  BY <1>1, <1>4, <1>6 DEF AnswersAreHeard
<1> QED
  BY <1>7 DEF Quiet, TypeOK

\* There is no other way to wait forever than the ones that Excused names
\* (publish_feed_job.rb:12, process_feed_result_job.rb:69).
THEOREM StuckRequestsExplained == Spec => []StuckHasReason
BY StuckFollows, InductiveInvariant, PTL

\* Who changes a finished row moves its job.
LEMMA FinalStatusStep ==
    ASSUME TypeOK, SavesProgress, [Next]_vars, NEW r \in Requests,
           status[r] \in Final, status'[r] # status[r]
    PROVE  pc'[r] # pc[r]
<1> USE DEF TypeOK, Goto, JobStep
<1>1. ASSUME NEW a \in Actors, ActorMoves(a) PROVE pc'[r] # pc[r]
  <2>1. SetsStatus(a)
    BY <1>1, RestLeavesStatus
  <2>2. CASE a \in Requests /\ Submit(a)
    BY <2>2 DEF Submit, Final
  <2>3. CASE a \in Requests /\ Mark(a)
    BY <2>3 DEF Mark, Actors
  <2>4. CASE a \in Requests /\ Respond(a)
    <3>1. a = r
      BY <2>4, FinishMoves
    <3> QED
      BY <2>4, <3>1 DEF Respond, SaveNext, Actors
  <2>5. CASE a \in Requests /\ Fail(a)
    <3>1. a = r
      BY <2>5, FinishMoves
    <3> QED
      BY <2>5, <3>1 DEF Fail, Actors
  <2>6. CASE a \in Threads /\ Claim(a)
    BY <2>6, ClaimMoves DEF Claimable, Final
  <2> QED
    BY <2>1, <2>2, <2>3, <2>4, <2>5, <2>6 DEF SetsStatus
<1>2. CASE BusMoves
  BY <1>2, BusIsElsewhere
<1> QED
  BY <1>1, <1>2, NextSplits

\* Only its own job changes the status of a finished request, never a thread
\* (process_feed_result_job.rb:25-27).
THEOREM ThreadsKeepStatus == Spec => ThreadsKeepFinalStatus
<1>1. InductiveInv /\ [Next]_vars =>
        [\A r \in Requests :
            status[r] \in Final /\ status'[r] # status[r] => pc'[r] # pc[r]]_vars
  BY FinalStatusStep DEF InductiveInv
<1> QED
  BY <1>1, InductiveInvariant, PTL DEF Spec, ThreadsKeepFinalStatus

----------------------------------------------------------------------------
(* FeedService *)

\* The rows a reload shows are linked and saved: their feed is always there.
LEMMA VisibleRows ==
    JoinedFeedsExist =>
      {row \in joined \intersect saved : row[2] \in feeds} = joined \intersect saved
BY DEF JoinedFeedsExist

\* An outcome of the worker is one that the page knows.
LEMMA OutcomesAreKnown ==
    ASSUME NEW r \in Requests, NEW o \in Outcomes(r)
    PROVE  o \in Service!Outcomes
<1>1. CASE o = [status |-> "failed", feeds |-> {}]
  BY <1>1 DEF Service!Outcomes
<1>2. CASE \E F \in SUBSET UrlsOf[r] : o = [status |-> "done", feeds |-> F]
  <2>1. PICK F \in SUBSET UrlsOf[r] : o = [status |-> "done", feeds |-> F]
    BY <1>2
  <2>2. F \subseteq Feeds
    OBVIOUS
  <2>3. o \in [status : {"done"}, feeds : SUBSET Feeds]
    BY <2>1, <2>2
  <2> QED
    BY <2>3 DEF Service!Outcomes
<1> QED
  BY <1>1, <1>2 DEF Outcomes

\* At first a reload shows nothing and nobody was told anything.
LEMMA RefinesInit == Init => Service!Init
BY DEF Init, Service!Init

\* A step that tells says what is visible.
LEMMA TellsVisible ==
    ASSUME NEW r \in Requests, NEW o \in Outcomes(r),
           JoinedFeedsExist, JoinedFeedsExist',
           \A f \in o.feeds : <<r, f>> \in joined \intersect saved,
           UNCHANGED <<joined, saved>>, told' = told \union {<<r, o>>}
    PROVE  [Service!Next]_Service!vars
<1>1. Service!Tell(r, o)
  BY VisibleRows DEF Service!Tell, JoinedFeedsExist
<1>2. o \in Service!Outcomes
  BY OutcomesAreKnown
<1> QED
  BY <1>1, <1>2 DEF Service!Next

\* A step that writes one row shows at most that row.
LEMMA ShowsRow ==
    ASSUME NEW r \in Requests, NEW f \in Feeds,
           JoinedFeedsExist, JoinedFeedsExist',
           \/ joined' = joined \union {<<r, f>>} /\ saved' = saved
           \/ saved' = saved \union {<<r, f>>} /\ joined' = joined,
           UNCHANGED told
    PROVE  [Service!Next]_Service!vars
<1> DEFINE seen == joined \intersect saved
<1>1. seen' = seen \/ seen' = seen \union {<<r, f>>}
  OBVIOUS
<1>2. {row \in joined \intersect saved : row[2] \in feeds} = seen
  BY VisibleRows
<1>3. {row \in joined' \intersect saved' : row[2] \in feeds'} = seen'
  BY DEF JoinedFeedsExist
<1>4. CASE seen' = seen
  BY <1>2, <1>3, <1>4 DEF Service!vars
<1>5. CASE seen' = seen \union {<<r, f>>}
  <2>1. Service!Show(r, f)
    BY <1>2, <1>3, <1>5 DEF Service!Show
  <2> QED
    BY <2>1 DEF Service!Next
<1> QED
  BY <1>1, <1>4, <1>5

\* A link and an insert show a row, a broadcast tells, the rest shows nothing new.
LEMMA RefinesStep == InductiveInv /\ [Next]_vars => [Service!Next]_Service!vars
<1> SUFFICES ASSUME InductiveInv, [Next]_vars PROVE [Service!Next]_Service!vars
  OBVIOUS
<1>1. JoinedFeedsExist /\ JoinedFeedsExist'
  BY InductiveStep DEF InductiveInv
<1>2. ASSUME UNCHANGED <<joined, saved, told>> PROVE [Service!Next]_Service!vars
  <2>1. {row \in joined' \intersect saved' : row[2] \in feeds'}
          = {row \in joined \intersect saved : row[2] \in feeds}
    BY <1>1, <1>2 DEF JoinedFeedsExist
  <2> QED
    BY <1>2, <2>1 DEF Service!vars
<1>3. ASSUME NEW a \in Actors, ActorMoves(a) PROVE [Service!Next]_Service!vars
  <2>1. ASSUME pc[a] \in SaveSteps
        PROVE  /\ task[a] \in Tasks /\ Req(a) \in Requests
               /\ Outcome(a) \in Outcomes(Req(a)) /\ task[a].left \subseteq Feeds
    <3>1. task[a] \in Tasks
      BY <2>1, WorkerFacts DEF InductiveInv
    <3> QED
      BY <3>1, TaskFacts
  <2>2. Progress(a)
    BY DEF InductiveInv, SavesProgress
  <2>3. CASE Link(a)
    <3>1. /\ pc[a] = "link" /\ UNCHANGED <<saved, told>>
          /\ \/ joined' = joined
             \/ joined' = joined \union {<<Req(a), task[a].feed>>}
      BY <2>3 DEF Link, SaveStep
    <3>2. Req(a) \in Requests /\ task[a].feed \in Feeds
      BY <2>1, <2>2, <3>1 DEF Progress, SaveSteps
    <3> QED
      BY <1>1, <1>2, <3>1, <3>2, ShowsRow
  <2>4. CASE Insert(a)
    <3>1. /\ pc[a] = "insert" /\ UNCHANGED <<joined, told>>
          /\ saved' = saved \union {<<Req(a), task[a].feed>>}
      BY <2>4 DEF Insert, SaveStep
    <3>2. Req(a) \in Requests /\ task[a].feed \in Feeds
      BY <2>1, <2>2, <3>1 DEF Progress, SaveSteps
    <3> QED
      BY <1>1, <3>1, <3>2, ShowsRow
  <2>5. CASE Broadcast(a)
    <3>1. /\ pc[a] = "broadcast" /\ UNCHANGED <<joined, saved>>
          /\ told' = told \union {<<Req(a), Outcome(a)>>}
      BY <2>5 DEF Broadcast, SaveStep
    <3>2. Req(a) \in Requests /\ Outcome(a) \in Outcomes(Req(a))
      BY <2>1, <3>1 DEF SaveSteps
    <3>3. \A f \in Outcome(a).feeds : <<Req(a), f>> \in joined \intersect saved
      BY <2>2, <3>1 DEF Progress, SaveSteps
    <3> QED
      BY <1>1, <3>1, <3>2, <3>3, TellsVisible
  <2>6. CASE a \in Requests /\ Fail(a)
    <3> DEFINE o == [status |-> "failed", feeds |-> {}]
    <3>1. UNCHANGED <<joined, saved>> /\ told' = told \union {<<a, o>>}
      BY <2>6 DEF Fail, JobStep
    <3>2. o \in Outcomes(a) /\ o.feeds = {}
      BY DEF Outcomes
    <3> HIDE DEF o
    <3> QED
      BY <1>1, <2>6, <3>1, <3>2, TellsVisible
  <2>7. CASE ~(Link(a) \/ Insert(a) \/ Broadcast(a) \/ (a \in Requests /\ Fail(a)))
    <3>1. UNCHANGED <<joined, saved, told>>
      BY <1>3, <2>7
         DEF ActorMoves, JobRuns, JobFails, ThreadRuns, ThreadFails, Save, Submit, Enqueue,
             Publish, Mark, PostIsAccepted, PostIsParsed, Respond, PublishIsLost,
             PublishFails, MarkFails, PostFails, JobDies, JobStep, Receive, Claim,
             ClaimIsLost, ThreadDies, Redeliver, Find, Validate, Create, Include,
             StatementFails, SaveStep, dbVars, history
    <3> QED
      BY <1>2, <3>1
  <2> QED
    BY <2>3, <2>4, <2>5, <2>6, <2>7
<1>4. CASE BusMoves
  BY <1>2, <1>4, BusIsElsewhere
<1> QED
  BY <1>3, <1>4, NextSplits

\* The page hears of a result only when a reload shows its items
\* (process_feed_result_job.rb:25-66, publish_feed_job.rb:41-84).
THEOREM Refinement == Spec => ImplementsFeedService
BY RefinesInit, RefinesStep, InductiveInvariant, PTL
   DEF Spec, ImplementsFeedService, Service!Spec
=============================================================================
