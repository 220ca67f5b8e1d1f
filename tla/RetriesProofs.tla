----------------------------- MODULE RetriesProofs -----------------------------
(***************************************************************************)
(* Proofs about Delivery that need to know what is declared and what       *)
(* x-death says, with and without a name of the queue.                     *)
(*                                                                         *)
(* RetriesAreBounded: the x-death entry of the requeue counts how often a  *)
(* message has come back, is carried along by Requeue and the dead         *)
(* letters, and is the newest one whenever the message is in the queue of  *)
(* the sink, where getRedelivery reads it (Counting); the sink has         *)
(* compared it with the limit before it asks the requeue (SeenOK).         *)
(* TypeCorrect: what a message can be routed to is declared, and what is   *)
(* declared is of the configuration (DeclaredFrom, TargetsPlaces).         *)
(* ServesWhatItDeclares: on a connection that is up, what is not declared  *)
(* yet is still to be declared (AllDeclared).                              *)
(* NoWayBack: FinalStays of DeliveryProofs.                                *)
(* SinkNeverIdles: case by case over the labels of the sink, with          *)
(* ServesWhatItDeclares for its rest (Idle), and OnePerRun for amqp-recv.  *)
(***************************************************************************)
EXTENDS DeliveryProofs

(***************************************************************************)
(* What is declared is of the configuration, or the queue of the requeue.  *)
(***************************************************************************)
DeclaredFrom ==
    /\ todo \in Seq(AnyDeclaration)
    /\ declared \union Elements(todo) \subseteq Infrastructure \union {Queue(RequeueName)}

LEMMA DeclaredChange ==
    ASSUME Next
    PROVE  \/ declared' \subseteq declared /\ todo' \in {todo, <<>>}
           \/ Declare \/ Connect \/ StartRequeue
<1>1. Ended => declared' \subseteq declared
    BY DEF Ended
<1>2. Leave => declared' \subseteq declared /\ todo' = <<>>
    BY <1>1 DEF Leave
<1>3. CASE \E m \in Messages : Send(m) \/ DelayExpires(m) \/ Push(m) \/ Receive(m)
    BY <1>3 DEF Send, DelayExpires, Push, Receive, sinkVars
<1>4. CASE Faults
    BY <1>1, <1>2, <1>4 DEF Faults, LoseConnection, SetupFails, Restart, Wipe, RequeueLeaves,
       RepublishFails, Interrupt, Kill, Goto, sinkVars
<1>5. CASE NextRun \/ SetRequeue \/ DeclareRefused \/ Consume \/ Broken \/ Cancelled \/ Decide
    BY <1>2, <1>5 DEF NextRun, SetRequeue, DeclareRefused, Consume, Broken, Cancelled,
       LeaveQuietly, Decide, Goto, sinkVars
<1>6. CASE Filter \/ Handler \/ RequeueFails \/ RequeueAborted
    BY <1>6 DEF Filter, Handler, HandlePlain, HandleSucceeds, HandleFails, RequeueFails,
       RequeueAborted, Goto
<1>7. CASE Settling
    <2>1. \A outcome : Settle(outcome) => declared' \subseteq declared
        BY <1>1 DEF Settle
    <2>2. QED
        BY <1>2, <1>7, <2>1 DEF Settling, Refuse, LeaveQuietly, Ack, Nack, GiveToRequeue, Goto
<1>8. QED
    BY <1>3, <1>4, <1>5, <1>6, <1>7 DEF Next, Broker, Program, SinkStep

LEMMA StepDeclared == ASSUME setup \in Setups, DeclaredFrom, Next PROVE DeclaredFrom'
<1>1. Infrastructure' = Infrastructure /\ RequeueName' = RequeueName
    BY SetupStays, SameNames
<1>2. SUFFICES /\ todo' \in Seq(AnyDeclaration)
               /\ declared' \union Elements(todo') \subseteq
                      Infrastructure \union {Queue(RequeueName)}
    BY <1>1 DEF DeclaredFrom
<1>3. CASE declared' \subseteq declared /\ todo' \in {todo, <<>>}
    <2>1. <<>> \in Seq(AnyDeclaration) /\ Elements(<<>>) = {}
        BY DEF Elements
    <2>2. QED
        BY <1>3, <2>1 DEF DeclaredFrom
<1>4. CASE Declare
    <2>1. /\ todo # <<>> /\ todo' = Tail(todo) /\ declared' = declared \union {Head(todo)}
        BY <1>4 DEF Declare
    <2>2. /\ Tail(todo) \in Seq(AnyDeclaration)
          /\ Elements(todo) = {Head(todo)} \union Elements(Tail(todo))
        BY <2>1, HeadTailElements DEF DeclaredFrom
    <2>3. QED
        BY <2>1, <2>2 DEF DeclaredFrom
<1>5. CASE Connect
    BY <1>5, InfrastructureFrom DEF Connect, DeclaredFrom
<1>6. CASE StartRequeue
    BY <1>6 DEF StartRequeue, sinkVars, DeclaredFrom
<1>7. QED
    BY <1>3, <1>4, <1>5, <1>6, DeclaredChange

LEMMA InitDeclared == Init => DeclaredFrom
BY DEF Init, DeclaredFrom, Elements

-----------------------------------------------------------------------------
(***************************************************************************)
(* Dead letters do not come back to the sink that has refused them: if     *)
(* they did, their x-death entry would be the newest and its count would   *)
(* start anew, and the limit of the retries would be none.                 *)
(***************************************************************************)
DeadLettersLeave(s) ==
    s.deadExchange # <<>> =>
        /\ s.deadQueue \notin {s.queue, <<"amq.gen">>}
        /\ s.exchange = s.deadExchange =>
             \A i \in DOMAIN s.keys : s.keys[i] # s.deadQueue

LEMMA DeadTargets ==
    ASSUME setup \in Setups, DeclaredFrom, DeadLettersLeave(setup), setup.deadExchange # <<>>
    PROVE  Targets(setup.deadExchange, setup.deadQueue) \cap {QueueName, RequeueName} = {}
<1>1. setup.deadQueue \notin {QueueName, RequeueName}
    BY InfrastructureFrom DEF DeadLettersLeave, WellConfigured, QueueName, RequeueName
<1>2. ASSUME NEW d \in declared, d.kind = "binding", d.name = setup.deadExchange,
             d.key = setup.deadQueue
      PROVE  d.to = setup.deadQueue
    <2>1. d \in Infrastructure
        BY <1>2 DEF DeclaredFrom, Queue
    <2>2. FromSetup(d, setup, QueueName)
        BY <2>1, InfrastructureFrom
    <2>3. QED
        BY <1>2, <2>2 DEF FromSetup, Queue, Binding, DeadLettersLeave
<1>3. Targets(setup.deadExchange, setup.deadQueue) \subseteq {setup.deadQueue}
    BY <1>2 DEF Targets, Bound
<1>4. QED
    BY <1>1, <1>3

-----------------------------------------------------------------------------
(***************************************************************************)
(* The x-death entry of the requeue counts how often a message has come    *)
(* back from it, and is the newest in the queue of the sink.               *)
(***************************************************************************)
Tries(deaths) == Count(deaths, RequeueName, "expired")
Told(deaths)  == deaths.newest.count

Counting(c, n) ==
    /\ n \in Nat /\ n <= setup.retries + 1 /\ Tries(c.msg.deaths) \in Nat
    /\ c.state = "unacked" => c.queue = QueueName
    /\ c.state \in {"ready", "unacked"} /\ c.queue = QueueName =>
         n <= Tries(c.msg.deaths) /\ Told(c.msg.deaths) = Tries(c.msg.deaths)
    /\ c.state = "ready" /\ c.queue = RequeueName =>
         n <= Tries(c.msg.deaths) + 1 /\ Tries(c.msg.deaths) <= setup.retries
    /\ c.state = "new" => n = 0

SeenOK ==
    /\ InWork /\ ~setup.auto /\ link = "up" => seen.deaths = copy[cur].msg.deaths
    /\ sink \in {"filter", "requeue"} => ~(Told(seen.deaths) > setup.retries)
    /\ sink \in {"ack", "nack", "requeue"} => ~setup.auto

RetriesInv ==
    /\ retried \in [Messages -> Nat]
    /\ \A m \in Messages : Counting(copy[m], retried[m])
    /\ SeenOK

Limited == setup.requeue /\ setup.retries >= 0

\* The model counts far enough, and dead letters go elsewhere.
Fits(s) ==
    s.requeue /\ s.retries >= 0 => s.retries < MaxCount /\ DeadLettersLeave(s)

Context == /\ setup \in Setups /\ Limited /\ setup.retries \in Nat /\ Fits(setup)
           /\ IInv /\ SignedInv /\ DeclaredFrom /\ RetriesInv

-----------------------------------------------------------------------------
LEMMA CountedMore ==
    ASSUME NEW n \in Nat
    PROVE  /\ Counted(n) \in Nat
           /\ n < MaxCount => Counted(n) = n + 1
BY EnvelopeAssumption DEF Counted

\* What an x-death header says after the message has died.
LEMMA DiedDeaths ==
    ASSUME NEW msg, IsMessage(msg), NEW queue, NEW why
    PROVE  LET entry == [queue |-> queue, why |-> why, key |-> msg.key,
                         count |-> Counted(Count(msg.deaths, queue, why))]
           IN  Died(msg, queue, why).deaths =
                 [entries |-> (msg.deaths.entries \ Entries(msg.deaths, queue, why))
                                 \union {entry},
                  newest |-> entry]
<1>1. \A deaths : [msg EXCEPT !.deaths = deaths].deaths = deaths
    BY DEF IsMessage
<1>2. QED
    BY <1>1 DEF Died

LEMMA ExpiredTries ==
    ASSUME NEW msg, IsMessage(msg)
    PROVE  LET died == Died(msg, RequeueName, "expired")
           IN  /\ Tries(died.deaths) = Counted(Tries(msg.deaths))
               /\ Told(died.deaths) = Tries(died.deaths)
<1> DEFINE n == Counted(Count(msg.deaths, RequeueName, "expired"))
           entry == [queue |-> RequeueName, why |-> "expired", key |-> msg.key, count |-> n]
           others == msg.deaths.entries \ Entries(msg.deaths, RequeueName, "expired")
           deaths == [entries |-> others \union {entry}, newest |-> entry]
<1>1. Died(msg, RequeueName, "expired").deaths = deaths
    BY DiedDeaths
<1>2. Entries(deaths, RequeueName, "expired") = {entry}
    BY DEF Entries
<1>3. Count(deaths, RequeueName, "expired") = n
    <2>1. entry.count = n
        OBVIOUS
    <2> HIDE DEF entry, deaths, n
    <2>2. QED
        BY <1>2, <2>1 DEF Count
<1>4. QED
    BY <1>1, <1>3 DEF Tries, Told

LEMMA RejectedTries ==
    ASSUME NEW msg, IsMessage(msg), NEW queue
    PROVE  Tries(Died(msg, queue, "rejected").deaths) = Tries(msg.deaths)
<1> DEFINE entry == [queue |-> queue, why |-> "rejected", key |-> msg.key,
                     count |-> Counted(Count(msg.deaths, queue, "rejected"))]
           others == msg.deaths.entries \ Entries(msg.deaths, queue, "rejected")
           deaths == [entries |-> others \union {entry}, newest |-> entry]
<1>1. Died(msg, queue, "rejected").deaths = deaths
    BY DiedDeaths
<1>2. entry.why = "rejected" /\ deaths.entries = others \union {entry}
    OBVIOUS
<1> HIDE DEF entry, deaths
<1>3. Entries(deaths, RequeueName, "expired") = Entries(msg.deaths, RequeueName, "expired")
    BY <1>2 DEF Entries, others
<1>4. Count(deaths, RequeueName, "expired") = Count(msg.deaths, RequeueName, "expired")
    <2> DEFINE CountOf(same) == IF same = {} THEN 0 ELSE (CHOOSE d \in same : TRUE).count
    <2>1. \A any : Count(any, RequeueName, "expired") =
                      CountOf(Entries(any, RequeueName, "expired"))
        BY DEF Count
    <2> HIDE DEF CountOf
    <2>2. QED
        BY <1>3, <2>1
<1>5. QED
    BY <1>1, <1>4 DEF Tries

LEMMA RoutedDeaths ==
    ASSUME NEW msg, IsMessage(msg), NEW exchange, NEW key, NEW otherwise
    PROVE  LET c == Routed(msg, exchange, key, otherwise)
           IN  /\ c.msg.deaths = msg.deaths
               /\ c.state = otherwise \/ (c.state = "ready" /\ c.queue \in Targets(exchange, key))
<1> DEFINE sent == [msg EXCEPT !.key = key]
<1>1. sent.deaths = msg.deaths
    BY DEF IsMessage
<1> HIDE DEF sent
<1>2. CASE Targets(exchange, key) = {}
    BY <1>2 DEF Routed, Settled
<1>3. CASE Targets(exchange, key) # {}
    <2>1. Routed(msg, exchange, key, otherwise) =
            [state |-> "ready", queue |-> CHOOSE q \in Targets(exchange, key) : TRUE,
             msg |-> sent]
        BY <1>3 DEF Routed, sent
    <2>2. (CHOOSE q \in Targets(exchange, key) : TRUE) \in Targets(exchange, key)
        BY <1>3
    <2>3. QED
        BY <1>1, <2>1, <2>2
<1>4. QED
    BY <1>2, <1>3

\* A message that is not in the queue of the sink or of the requeue.
LEMMA AwayCounting ==
    ASSUME NEW c, NEW n \in Nat, n <= setup.retries + 1, Tries(c.msg.deaths) \in Nat,
           c.state \notin {"new", "ready", "unacked"}
           \/ (c.state = "ready" /\ c.queue \notin {QueueName, RequeueName})
    PROVE  Counting(c, n)
BY DEF Counting

LEMMA FreshCounting ==
    ASSUME Limited, setup.retries \in Nat, NEW c, c.msg.deaths = NoDeaths,
           c.state # "unacked"
    PROVE  Counting(c, 0)
<1>1. Tries(NoDeaths) = 0 /\ Told(NoDeaths) = 0
    BY DEF Tries, Told, NoDeaths, NoDeath, Count, Entries
<1>2. QED
    BY <1>1 DEF Counting

\* A delivery that goes back to its queue, by Nack or with its connection.
LEMMA BackCounting ==
    ASSUME setup \in Setups, NEW c, Shape(c), NEW n, Counting(c, n), c.state = "unacked"
    PROVE  Counting([c EXCEPT !.state = "ready"], n)
<1> DEFINE back == [c EXCEPT !.state = "ready"]
<1>1. back.state = "ready" /\ back.queue = c.queue /\ back.msg = c.msg
    BY DEF Shape
<1>2. QED
    BY <1>1, InfrastructureFrom DEF Counting

LEMMA ReturnedCounting ==
    ASSUME setup \in Setups, NEW c, Shape(c), NEW n, Counting(c, n)
    PROVE  Counting(Returned(c), n)
<1>1. CASE c.state = "client" \/ (Temporary /\ c.queue = QueueName)
    BY <1>1 DEF Returned, Settled, Counting
<1>2. CASE ~(c.state = "client" \/ (Temporary /\ c.queue = QueueName)) /\ c.state = "unacked"
    BY <1>2, BackCounting DEF Returned
<1>3. QED
    BY <1>1, <1>2 DEF Returned

LEMMA SetupQueue == ASSUME setup \in Setups PROVE setup.queue # RequeueName
<1>1. CASE Temporary
    <2>1. setup.queue = <<>> /\ \A x : <<>> \o <<x>> # <<>>
        BY <1>1 DEF Temporary
    <2>2. QED
        BY <2>1 DEF RequeueName
<1>2. CASE ~Temporary
    BY <1>2, InfrastructureFrom DEF Temporary, QueueName
<1>3. QED
    BY <1>1, <1>2

-----------------------------------------------------------------------------
\* Context is about the configuration, which stays.
LEMMA NextRetries ==
    ASSUME setup' = setup, retried' \in [Messages -> Nat],
           \A m \in Messages : Counting(copy'[m], retried'[m]), SeenOK'
    PROVE  RetriesInv'
BY SameNames DEF RetriesInv, Counting, Tries, Told

LEMMA ContextCopy ==
    ASSUME Context, NEW m \in Messages
    PROVE  /\ Counting(copy[m], retried[m]) /\ retried[m] \in Nat
           /\ Tries(copy[m].msg.deaths) \in Nat
           /\ Shape(copy[m]) /\ IsMessage(copy[m].msg)
           /\ Counting(Returned(copy[m]), retried[m])
BY ReturnedCounting DEF Context, RetriesInv, IInv, CopiesOK, SignedInv, Genuine, Counting

\* Steps of others, at a copy that the sink does not have in work.
LEMMA OutsideRetries ==
    ASSUME Context, NEW m \in Messages, Send(m) \/ DelayExpires(m) \/ Push(m)
    PROVE  RetriesInv'
<1>1. UNCHANGED <<setup, link, sinkVars, retried>>
    BY DEF Send, DelayExpires, Push, connVars, history
<1>2. /\ \A n \in Messages \ {m} : copy'[n] = copy[n]
      /\ copy[m].state # "unacked" \/ setup.auto
    BY DEF Send, DelayExpires, Waiting, Push, Context, IInv, CopiesOK
<1>3. Counting(copy'[m], retried[m])
    <2>1. CASE Send(m)
        <3>1. PICK sign \in MaySign :
                LET msg == IF sign THEN Signed(NewMessage(m)) ELSE NewMessage(m)
                IN  copy' = [copy EXCEPT ![m] =
                      IF setup.keys = <<>> THEN Routed(msg, <<>>, QueueName, "unrouted")
                      ELSE Routed(msg, setup.exchange, setup.keys[1], "unrouted")]
            BY <2>1 DEF Send
        <3> DEFINE msg == IF sign THEN Signed(NewMessage(m)) ELSE NewMessage(m)
        <3>2. IsMessage(msg) /\ msg.deaths = NoDeaths
            BY DEF IsMessage, Signed, NewMessage
        <3> HIDE DEF msg
        <3>3. PICK exchange, key : copy'[m] = Routed(msg, exchange, key, "unrouted")
            BY <3>1 DEF msg, Context, IInv, CopiesOK
        <3>4. copy'[m].msg.deaths = NoDeaths /\ copy'[m].state # "unacked"
            BY <3>2, <3>3, RoutedDeaths
        <3>5. retried[m] = 0
            BY <2>1, ContextCopy DEF Send, Counting
        <3>6. QED
            BY <3>4, <3>5, FreshCounting DEF Context
    <2>2. CASE DelayExpires(m)
        <3>1. copy[m].state = "ready" /\ copy[m].queue = RequeueName
            BY <2>2 DEF DelayExpires, Waiting
        <3> DEFINE died == Died(copy[m].msg, RequeueName, "expired")
        <3>2. IsMessage(died) /\ copy'[m] = Routed(died, <<>>, setup.queue, "lost")
            BY <2>2, ContextCopy, DiedMessage DEF DelayExpires, Context, IInv, CopiesOK
        <3>3. Targets(<<>>, setup.queue) \subseteq {setup.queue}
            BY DEF Targets
        <3>4. /\ Tries(died.deaths) = Tries(copy[m].msg.deaths) + 1
              /\ Told(died.deaths) = Tries(died.deaths)
              /\ retried[m] <= Tries(copy[m].msg.deaths) + 1
            BY <3>1, ContextCopy, ExpiredTries, CountedMore, EnvelopeAssumption
            DEF Counting, Context, Limited, Fits
        <3> HIDE DEF died
        <3>5. /\ copy'[m].msg.deaths = died.deaths
              /\ copy'[m].state = "lost" \/ (copy'[m].state = "ready"
                                             /\ copy'[m].queue = setup.queue)
            BY <3>2, <3>3, RoutedDeaths
        <3>6. setup.queue # RequeueName
            BY InfrastructureFrom, SetupQueue DEF Context
        <3>7. QED
            BY <3>4, <3>5, <3>6, ContextCopy DEF Counting
    <2>3. CASE Push(m)
        <3>1. copy'[m] = [copy[m] EXCEPT !.state = "client"]
            BY <2>3 DEF Push, Context, IInv, CopiesOK
        <3>2. copy'[m].state = "client" /\ copy'[m].msg = copy[m].msg
            BY <3>1, ContextCopy DEF Shape
        <3>3. QED
            BY <3>2, ContextCopy DEF Counting
    <2>4. QED
        BY <2>1, <2>2, <2>3
<1>4. SeenOK'
    BY <1>1, <1>2 DEF sinkVars, SeenOK, InWork, Context, RetriesInv, IInv, HeldByUs
<1>5. QED
    BY <1>1, <1>2, <1>3, <1>4, NextRetries, ContextCopy DEF Context, RetriesInv

\* The end of a connection, of the sink, of the program or of the broker.
LEMMA LeaveRetries ==
    ASSUME Context, Leave, retried' = retried PROVE RetriesInv'
<1>1. SeenOK'
    BY DEF Leave, SeenOK, InWork
<1>2. \A m \in Messages : Counting(copy'[m], retried'[m])
    BY ContextCopy DEF Leave, Ended
<1>3. QED
    BY <1>1, <1>2, NextRetries DEF Leave, Context, RetriesInv

LEMMA FaultRetries ==
    ASSUME Context, Faults \/ Program PROVE RetriesInv'
<1>1. CASE SetupFails \/ Kill
    BY <1>1, LeaveRetries DEF SetupFails, Kill, Fails
<1>2. CASE LoseConnection \/ Restart \/ Wipe
    <2>1. UNCHANGED <<setup, retried, sinkVars>> /\ link' # "up"
        BY <1>2 DEF LoseConnection, Restart, Wipe, Fails, connVars
    <2>2. ASSUME NEW m \in Messages PROVE Counting(copy'[m], retried[m])
        <3>1. \/ copy'[m] \in {copy[m], Returned(copy[m])}
              \/ copy'[m] = Settled("gone", copy[m].msg)
              \/ copy'[m] = Settled("wiped", copy[m].msg)
            BY <1>2 DEF LoseConnection, Restart, Wipe, Ended
        <3>2. QED
            BY <3>1, ContextCopy DEF Settled, Counting
    <2>3. SeenOK'
        BY <2>1 DEF SeenOK, sinkVars, Context, RetriesInv
    <2>4. QED
        BY <2>1, <2>2, <2>3, NextRetries DEF Context, RetriesInv
<1>3. CASE NextRun \/ StartRequeue \/ SetRequeue \/ Connect \/ RequeueLeaves \/ Interrupt
    <2>1. /\ UNCHANGED <<setup, copy, retried>>
          /\ UNCHANGED <<link, sinkVars>> \/ sink' = "declare"
        BY <1>3 DEF NextRun, StartRequeue, SetRequeue, Connect, RequeueLeaves, Interrupt, Fails,
           history
    <2>2. SeenOK'
        BY <2>1 DEF SeenOK, InWork, sinkVars, Context, RetriesInv
    <2>3. QED
        BY <2>1, <2>2, NextRetries DEF Context, RetriesInv
<1>4. CASE RepublishFails
    <2>1. /\ UNCHANGED <<setup, copy, retried, link, cur, seen>>
          /\ sink = "requeue" /\ sink' = "nack"
        BY <1>4 DEF RepublishFails, Fails, Goto
    <2>2. SeenOK'
        BY <2>1 DEF SeenOK, InWork, Context, RetriesInv
    <2>3. QED
        BY <2>1, <2>2, NextRetries DEF Context, RetriesInv
<1>5. QED
    BY <1>1, <1>2, <1>3, <1>4 DEF Faults, Program

\* Steps of the sink that settle nothing.
LEMMA WorkRetries ==
    ASSUME Context,
           \/ Declare \/ DeclareRefused \/ Consume \/ Broken \/ Cancelled
           \/ \E m \in Messages : Receive(m)
           \/ Decide \/ Filter \/ Handler \/ RequeueFails \/ RequeueAborted
    PROVE  RetriesInv'
<1>1. CASE DeclareRefused \/ Broken \/ Cancelled
    BY <1>1, LeaveRetries DEF DeclareRefused, Broken, Cancelled, LeaveQuietly, history
<1>2. ASSUME NEW m \in Messages, Receive(m) PROVE RetriesInv'
    <2>1. /\ UNCHANGED <<setup, link, retried>> /\ sink' = "decide"
          /\ cur' = m /\ seen' = copy[m].msg
        BY <1>2 DEF Receive, connVars, history
    <2>2. \A n \in Messages \ {m} : copy'[n] = copy[n]
        BY <1>2 DEF Receive, Context, IInv, CopiesOK
    <2>3. PICK state : /\ copy'[m] = [copy[m] EXCEPT !.state = state]
                       /\ \/ state = "taken" /\ setup.auto
                          \/ state = "unacked" /\ Here(m)
        BY <1>2 DEF Receive, Context, IInv, CopiesOK
    <2>4. copy'[m].state = state /\ copy'[m].queue = copy[m].queue /\ copy'[m].msg = copy[m].msg
        BY <2>3, ContextCopy DEF Shape
    <2>5. Counting(copy'[m], retried[m])
        BY <2>3, <2>4, ContextCopy DEF Here, Counting
    <2>6. SeenOK'
        BY <2>1, <2>4 DEF SeenOK
    <2>7. QED
        BY <2>1, <2>2, <2>5, <2>6, NextRetries, ContextCopy DEF Context, RetriesInv
<1>3. CASE Declare \/ Consume \/ Decide \/ Filter \/ Handler \/ RequeueFails \/ RequeueAborted
    <2>1. UNCHANGED <<setup, copy, link, cur, retried>>
        BY <1>3 DEF Declare, Consume, Decide, Filter, Handler, HandlePlain, HandleSucceeds,
           HandleFails, RequeueFails, RequeueAborted, Goto, connVars, history
    <2>2. SeenOK'
        <3>1. CASE Declare \/ Consume
            BY <3>1 DEF Declare, Consume, Goto, SeenOK, InWork
        <3>2. CASE Decide
            <4>1. /\ sink = "decide" /\ sink' \in {"refuse", "filter"}
                  /\ seen' = seen \/ seen' = [seen EXCEPT !.key = RestoredKey(seen)]
                  /\ sink' = "filter" => ~(Told(seen.deaths) > setup.retries)
                BY <3>2 DEF Decide, Goto, Expired, Redelivered, Told, Context, Limited
            <4>2. IsMessage(seen)
                BY <4>1 DEF Context, SignedInv, InWork, Genuine
            <4>3. seen'.deaths = seen.deaths
                BY <4>1, <4>2 DEF IsMessage
            <4>4. QED
                BY <2>1, <4>1, <4>3 DEF Context, RetriesInv, SeenOK, InWork
        <3>3. CASE Filter
            BY <2>1, <3>3 DEF Filter, Goto, Context, RetriesInv, SeenOK, InWork
        <3>4. CASE Handler \/ RequeueFails \/ RequeueAborted
            BY <2>1, <3>4 DEF Handler, HandlePlain, HandleSucceeds, HandleFails, Filtered,
               RequeueFails, RequeueAborted, Goto, Context, Limited, RetriesInv, SeenOK, InWork
        <3>5. QED
            BY <1>3, <3>1, <3>2, <3>3, <3>4
    <2>3. QED
        BY <2>1, <2>2, NextRetries DEF Context, RetriesInv
<1>4. QED
    BY <1>1, <1>2, <1>3

\* A delivery is settled: its copy is replaced, or its connection has ended.
LEMMA SettleRetries ==
    ASSUME Context, InWork, NEW outcome, Settle(outcome), setup' = setup, sink' = "select",
           NEW n \in Nat, retried' = [retried EXCEPT ![cur] = n],
           link = "up" /\ copy[cur].state = "unacked" => Counting(outcome, n),
           ~(link = "up" /\ copy[cur].state = "unacked") => n = retried[cur]
    PROVE  RetriesInv'
<1>1. cur \in Messages
    BY DEF Context, IInv, HeldByUs
<1>2. /\ retried' \in [Messages -> Nat] /\ retried'[cur] = n
      /\ \A m \in Messages \ {cur} : retried'[m] = retried[m]
    BY <1>1 DEF Context, RetriesInv
<1>3. SeenOK'
    BY DEF SeenOK, InWork
<1>4. CASE link = "up" /\ copy[cur].state = "unacked"
    <2>1. copy' = [copy EXCEPT ![cur] = outcome]
        BY <1>4 DEF Settle
    <2>2. copy'[cur] = outcome /\ \A m \in Messages \ {cur} : copy'[m] = copy[m]
        BY <1>1, <2>1 DEF Context, IInv, CopiesOK
    <2>3. QED
        BY <1>2, <1>3, <1>4, <2>2, NextRetries, ContextCopy
<1>5. CASE ~(link = "up" /\ copy[cur].state = "unacked")
    <2>1. \A m \in Messages : retried'[m] = retried[m]
        BY <1>2, <1>5
    <2>2. \A m \in Messages : copy'[m] \in {copy[m], Returned(copy[m])}
        BY <1>5 DEF Settle, Ended
    <2>3. QED
        BY <1>2, <1>3, <2>1, <2>2, NextRetries, ContextCopy
<1>6. QED
    BY <1>4, <1>5

LEMMA SettlingRetries == ASSUME Context, Settling PROVE RetriesInv'
<1>1. /\ InWork /\ cur \in Messages /\ retried \in [Messages -> Nat]
      /\ retried = [retried EXCEPT ![cur] = retried[cur]]
    BY DEF Settling, Refuse, Ack, Nack, GiveToRequeue, InWork, Context, IInv, HeldByUs,
       RetriesInv
<1>2. PICK m \in Messages : m = cur
    BY <1>1
<1>3. CASE Refuse
    <2>1. CASE link = "broken"
        BY <1>3, <2>1, LeaveRetries DEF Refuse, LeaveQuietly, history
    <2>2. CASE link # "broken"
        <3> DEFINE outcome == DeadLettered(copy[m].msg)
        <3>1. Counting(outcome, retried[m])
            <4>1. CASE setup.deadExchange = <<>>
                BY <4>1, ContextCopy DEF DeadLettered, Settled, Counting
            <4>2. CASE setup.deadExchange # <<>>
                <5> DEFINE died == Died(copy[m].msg, QueueName, "rejected")
                <5>1. setup.deadQueue # <<>>
                    BY <4>2, InfrastructureFrom DEF Context, WellConfigured
                <5>2. outcome = Routed(died, setup.deadExchange, setup.deadQueue, "lost")
                    BY <4>2, <5>1 DEF DeadLettered
                <5>3. IsMessage(died) /\ Tries(died.deaths) \in Nat
                    BY ContextCopy, DiedMessage, RejectedTries
                <5> HIDE DEF died, outcome
                <5>4. /\ outcome.msg.deaths = died.deaths
                      /\ outcome.state = "lost"
                         \/ (outcome.state = "ready"
                             /\ outcome.queue \notin {QueueName, RequeueName})
                    BY <4>2, <5>2, <5>3, RoutedDeaths, DeadTargets DEF Context, Fits, Limited
                <5>5. retried[m] <= setup.retries + 1
                    BY ContextCopy DEF Counting
                <5>6. QED
                    BY <1>1, <1>2, <5>3, <5>4, <5>5, AwayCounting
            <4>3. QED
                BY <4>1, <4>2
        <3>2. retried' = retried /\ setup' = setup /\ sink' = "select" /\ Settle(outcome)
            BY <1>2, <1>3, <2>2 DEF Refuse, Goto
        <3> HIDE DEF outcome
        <3>3. QED
            BY <1>1, <1>2, <3>1, <3>2, SettleRetries
    <2>3. QED
        BY <2>1, <2>2
<1>4. CASE Ack
    <2>1. Counting(Settled("acked", copy[m].msg), retried[m])
        BY ContextCopy DEF Settled, Counting
    <2>2. /\ retried' = retried /\ setup' = setup /\ sink' = "select"
          /\ Settle(Settled("acked", copy[m].msg))
        BY <1>2, <1>4 DEF Ack, Goto
    <2>3. QED
        BY <1>1, <1>2, <2>1, <2>2, SettleRetries
<1>5. CASE Nack
    <2> DEFINE outcome == [copy[m] EXCEPT !.state = "ready"]
    <2>1. copy[m].state = "unacked" => Counting(outcome, retried[m])
        BY ContextCopy, BackCounting DEF Context
    <2>2. /\ retried' = retried /\ setup' = setup /\ sink' = "select" /\ Settle(outcome)
        BY <1>2, <1>5 DEF Nack, Goto, Context, Limited
    <2> HIDE DEF outcome
    <2>3. QED
        BY <1>1, <1>2, <2>1, <2>2, SettleRetries
<1>6. CASE GiveToRequeue
    <2> DEFINE outcome == Routed(Requeued(seen), <<>>, RequeueName, "lost")
               n == Again(retried[m], setup.retries + 2)
    <2>1. /\ link = "up" /\ sink = "requeue" /\ setup' = setup /\ sink' = "select"
          /\ Settle(outcome) /\ retried' = [retried EXCEPT ![cur] = n]
        BY <1>2, <1>6 DEF GiveToRequeue, GivenBack, Goto, Context, Limited
    <2>2. /\ copy[m].state = "unacked" /\ seen.deaths = copy[m].msg.deaths
          /\ ~(Told(seen.deaths) > setup.retries) /\ IsMessage(seen)
        BY <1>1, <1>2, <2>1 DEF Context, RetriesInv, SeenOK, IInv, HeldByUs, SignedInv, Genuine
    <2>3. /\ Tries(seen.deaths) \in Nat /\ Tries(seen.deaths) <= setup.retries
          /\ retried[m] <= Tries(seen.deaths)
        BY <2>2, ContextCopy DEF Counting, Context
    <2>4. n = retried[m] + 1 /\ n \in Nat
        BY <2>3, ContextCopy DEF Again, Context
    <2>5. IsMessage(Requeued(seen)) /\ Requeued(seen).deaths = seen.deaths
        <3>1. ASSUME NEW flag
              PROVE  LET msg == [seen EXCEPT !.persistent = flag]
                     IN  IsMessage(msg) /\ msg.deaths = seen.deaths
            BY <2>2 DEF IsMessage
        <3>2. QED
            BY <3>1 DEF Requeued
    <2>6. Targets(<<>>, RequeueName) \subseteq {RequeueName} /\ QueueName # RequeueName
        BY InfrastructureFrom DEF Targets, Context
    <2>7. /\ outcome.msg.deaths = seen.deaths
          /\ outcome.state = "lost" \/ (outcome.state = "ready" /\ outcome.queue = RequeueName)
        BY <2>5, <2>6, RoutedDeaths
    <2> HIDE DEF outcome, n
    <2>8. Counting(outcome, n)
        BY <2>3, <2>4, <2>6, <2>7, ContextCopy DEF Counting, Context
    <2>9. QED
        BY <1>1, <1>2, <2>1, <2>2, <2>4, <2>8, SettleRetries
<1>7. QED
    BY <1>3, <1>4, <1>5, <1>6 DEF Settling

LEMMA StepRetries == ASSUME Context, [Next]_vars PROVE RetriesInv'
<1>1. CASE UNCHANGED vars
    BY <1>1, NextRetries DEF vars, connVars, sinkVars, history, Context, RetriesInv, SeenOK,
       InWork
<1>2. CASE Next
    BY <1>2, OutsideRetries, FaultRetries, WorkRetries, SettlingRetries
    DEF Next, Broker, Program, SinkStep
<1>3. QED
    BY <1>1, <1>2

-----------------------------------------------------------------------------
(***************************************************************************)
(* sink.go and requeuer.go: with a requeue no message goes through it more *)
(* often than the limit allows, for any messages and configurations.  What *)
(* is bounded is what x-death counts; the count is not lost in between, by *)
(* restarts of the broker and the program, or where the sink gives the     *)
(* message back with Nack because Requeue has failed, was aborted, or is   *)
(* not known yet: those returns are uncounted and unlimited themselves.    *)
(* The limit fits into the model's counters, and dead letters do not come  *)
(* back to the sink.                                                       *)
(***************************************************************************)
THEOREM RetriesAreBounded ==
    ASSUME \A s \in Setups : Fits(s) PROVE Spec => []RetriesBounded
<1> DEFINE Bounded == Limited => RetriesInv
<1>1. Init => Bounded
    <2> SUFFICES ASSUME Init, Limited PROVE RetriesInv
        OBVIOUS
    <2>1. setup.retries \in Nat
        BY InfrastructureFrom DEF Init, WellConfigured, Limited
    <2>2. ASSUME NEW m \in Messages PROVE Counting(copy[m], 0)
        <3>1. copy[m].msg.deaths = NoDeaths /\ copy[m].state = "new"
            BY DEF Init, Settled, NewMessage
        <3>2. QED
            BY <2>1, <3>1, FreshCounting
    <2>3. QED
        BY <2>2 DEF Init, RetriesInv, SeenOK, InWork
<1>2. IInv /\ KeptInv /\ SignedInv /\ DeclaredFrom /\ Bounded /\ [Next]_vars =>
        DeclaredFrom' /\ Bounded'
    <2> SUFFICES ASSUME IInv, KeptInv, SignedInv, DeclaredFrom, Bounded, [Next]_vars
                 PROVE  DeclaredFrom' /\ Bounded'
        OBVIOUS
    <2>1. setup' = setup /\ setup \in Setups
        BY SetupStays DEF KeptInv, vars
    <2>2. DeclaredFrom'
        <3>1. CASE UNCHANGED vars
            BY <3>1, SameNames DEF vars, sinkVars, DeclaredFrom
        <3>2. QED
            BY <2>1, <3>1, StepDeclared
    <2>3. ASSUME Limited' PROVE RetriesInv'
        <3>1. Limited /\ setup.retries \in Nat
            BY <2>1, <2>3, InfrastructureFrom DEF Limited, WellConfigured
        <3>2. Context
            BY <2>1, <3>1 DEF Context
        <3>3. QED
            BY <3>2, StepRetries
    <2>4. QED
        BY <2>2, <2>3
<1>3. Bounded => RetriesBounded
    BY DEF Limited, RetriesInv, Counting, RetriesBounded
<1> HIDE DEF Bounded
<1>4. QED
    BY <1>1, <1>2, <1>3, InitInv, StepInv, InitKept, StepKept, InitSigned, StepSigned,
       InitDeclared, PTL
    DEF Spec, SafeSpec

-----------------------------------------------------------------------------
(***************************************************************************)
(* The types.  That a copy lies in a queue the sink has declared needs     *)
(* DeclaredFrom, that it has its body SignedInv.                           *)
(***************************************************************************)
Places == {<<>>, QueueName, RequeueName, setup.deadQueue}
Placed(c) == c.state \in States /\ c.queue \in Places

Scalars ==
    /\ gctx \in {"live", "done"} /\ idx \in 0..1
    /\ passed \in 0..Len(setup.middleware)
    /\ sink \in {"off", "declare", "select", "decide", "filter", "refuse", "ack",
                 "nack", "requeue"}
    /\ cur \in Messages \union {NoMessage}
    /\ rq \in {"off", "on", "left"}
    /\ {reqset, calm, misused} \subseteq BOOLEAN

Histories ==
    /\ signed \subseteq Messages
    /\ handled \in [Messages -> 0..2] /\ retried \in [Messages -> Nat]

TypeInv == Scalars /\ Histories /\ \A m \in Messages : Placed(copy[m])

LEMMA TargetsPlaces ==
    ASSUME setup \in Setups, DeclaredFrom, NEW exchange, NEW key
    PROVE  Targets(exchange, key) \subseteq Places
<1> SUFFICES ASSUME NEW q \in Targets(exchange, key) PROVE q \in Places
    OBVIOUS
<1>1. Queue(q) \in Infrastructure \/ Queue(q) = Queue(RequeueName)
    BY DEF Targets, DeclaredFrom
<1>2. \A p : Queue(q) = Queue(p) => q = p
    BY DEF Queue
<1>3. CASE Queue(q) \in Infrastructure
    <2>1. FromSetup(Queue(q), setup, QueueName)
        BY <1>3, InfrastructureFrom
    <2>2. Queue(q) \in {Queue(QueueName), Queue(setup.deadQueue)}
        BY <2>1 DEF FromSetup, Queue, Binding
    <2>3. QED
        BY <1>2, <2>2 DEF Places
<1>4. QED
    BY <1>1, <1>2, <1>3 DEF Places

LEMMA RoutedPlaced ==
    ASSUME setup \in Setups, DeclaredFrom, NEW msg, NEW exchange, NEW key,
           NEW otherwise \in States
    PROVE  /\ Placed(Routed(msg, exchange, key, otherwise))
           /\ Placed(Settled(otherwise, msg))
<1>1. Placed(Settled(otherwise, msg))
    BY DEF Settled, Placed, Places
<1>2. ASSUME Targets(exchange, key) # {}
      PROVE  Placed(Routed(msg, exchange, key, otherwise))
    <2>1. (CHOOSE q \in Targets(exchange, key) : TRUE) \in Places
        BY <1>2, TargetsPlaces
    <2>2. QED
        BY <1>2, <2>1 DEF Routed, Placed, States
<1>3. QED
    BY <1>1, <1>2 DEF Routed

LEMMA DeadPlaced ==
    ASSUME setup \in Setups, DeclaredFrom, NEW msg PROVE Placed(DeadLettered(msg))
BY RoutedPlaced DEF DeadLettered, States

LEMMA StatePlaced ==
    ASSUME NEW c, Shape(c), Placed(c), NEW state \in States
    PROVE  Placed([c EXCEPT !.state = state])
BY DEF Shape, Placed

LEMMA ReturnedPlaced ==
    ASSUME NEW c, Shape(c), Placed(c) PROVE Placed(Returned(c))
<1>1. \A msg : Placed(Settled("lost", msg))
    BY DEF Settled, Placed, Places, States
<1>2. "ready" \in States
    BY DEF States
<1>3. QED
    BY <1>1, <1>2, StatePlaced DEF Returned

LEMMA SettlePlaced ==
    ASSUME IInv, TypeInv, NEW outcome, Settle(outcome), Placed(outcome),
           NEW m \in Messages
    PROVE  Placed(copy'[m])
BY ReturnedPlaced DEF Settle, Ended, TypeInv, IInv, CopiesOK

LEMMA StepPlaced ==
    ASSUME IInv, TypeInv, setup \in Setups, DeclaredFrom, Next, NEW m \in Messages
    PROVE  Placed(copy'[m])
<1>1. /\ Shape(copy[m]) /\ Placed(copy[m]) /\ Placed(Returned(copy[m]))
      /\ \A c : copy' = [copy EXCEPT ![m] = c] => copy'[m] = c
      /\ \A n \in Messages \ {m} : \A c : copy' = [copy EXCEPT ![n] = c] => copy'[m] = copy[m]
    BY ReturnedPlaced DEF IInv, CopiesOK, TypeInv
<1>2. /\ {"ready", "client", "taken", "unacked", "acked", "lost", "gone", "unrouted", "wiped"}
             \subseteq States
    BY DEF States
<1>3. \A msg : \A state \in States : Placed(Settled(state, msg))
    BY DEF Settled, Placed, Places
<1>4. ASSUME NEW n \in Messages, Send(n) \/ DelayExpires(n) \/ Push(n) \/ Receive(n)
      PROVE  Placed(copy'[m])
    <2>1. n = m \/ copy'[m] = copy[m]
        BY <1>1, <1>4 DEF Send, DelayExpires, Push, Receive, IInv, CopiesOK
    <2>2. CASE Send(m)
        BY <1>1, <1>2, <2>2, RoutedPlaced DEF Send
    <2>3. CASE DelayExpires(m)
        BY <1>1, <1>2, <2>3, RoutedPlaced DEF DelayExpires
    <2>4. CASE Push(m) \/ Receive(m)
        <3>1. PICK state \in States : copy' = [copy EXCEPT ![m].state = state]
            BY <1>2, <2>4 DEF Push, Receive
        <3>2. copy'[m] = [copy[m] EXCEPT !.state = state]
            BY <3>1 DEF IInv, CopiesOK
        <3>3. QED
            BY <1>1, <3>2, StatePlaced
    <2>5. QED
        BY <1>1, <1>4, <2>1, <2>2, <2>3, <2>4
<1>5. Leave \/ Ended => Placed(copy'[m])
    BY <1>1 DEF Leave, Ended
<1>6. CASE Faults
    BY <1>1, <1>2, <1>3, <1>5, <1>6 DEF Faults, LoseConnection, SetupFails, Restart, Wipe,
       RequeueLeaves, RepublishFails, Interrupt, Kill
<1>7. CASE Program \/ Declare \/ DeclareRefused \/ Consume \/ Broken \/ Cancelled
    BY <1>1, <1>5, <1>7 DEF Program, Connect, NextRun, StartRequeue, SetRequeue, Declare,
       DeclareRefused, Consume, Broken, Cancelled, LeaveQuietly
<1>8. CASE Decide \/ Filter \/ Handler \/ RequeueFails \/ RequeueAborted
    BY <1>1, <1>8 DEF Decide, Filter, Handler, HandlePlain, HandleSucceeds, HandleFails,
       RequeueFails, RequeueAborted
<1>9. CASE Settling
    <2>1. cur \in Messages
        BY <1>9 DEF Settling, Refuse, Ack, Nack, GiveToRequeue, InWork, IInv, HeldByUs
    <2>2. Placed([copy[cur] EXCEPT !.state = "ready"])
        BY <1>2, <2>1, StatePlaced DEF IInv, CopiesOK, TypeInv
    <2>3. QED
        BY <1>2, <1>3, <1>5, <1>9, <2>2, SettlePlaced, DeadPlaced, RoutedPlaced
        DEF Settling, Refuse, LeaveQuietly, Ack, Nack, GiveToRequeue
<1>10. QED
    BY <1>4, <1>6, <1>7, <1>8, <1>9 DEF Next, Broker, SinkStep

LEMMA StepScalars ==
    ASSUME IInv, TypeInv, setup \in Setups, Next PROVE Scalars'
<1>1. setup' = setup /\ Len(setup.middleware) \in Nat
    BY SetupStays, InfrastructureFrom DEF WellConfigured
<1>2. ASSUME NEW m \in Messages, Send(m) \/ DelayExpires(m) \/ Push(m) \/ Receive(m)
      PROVE  Scalars'
    BY <1>1, <1>2 DEF Send, DelayExpires, Push, Receive, TypeInv, Scalars, connVars, sinkVars,
       history
<1>3. ASSUME UNCHANGED <<cur, passed, gctx, idx, reqset, misused>>,
             calm' \in BOOLEAN, rq' \in {rq, "left"},
             sink' \in {"select", "decide", "filter", "refuse", "ack", "nack", "requeue"}
      PROVE  Scalars'
    <2>1. {reqset', calm', misused'} \subseteq BOOLEAN
        BY <1>3 DEF TypeInv, Scalars
    <2>2. QED
        BY <1>1, <1>3, <2>1 DEF TypeInv, Scalars
<1>4. ASSUME Leave, calm' \in BOOLEAN, reqset' \in BOOLEAN, UNCHANGED misused,
             gctx' \in {"live", "done"}, idx' \in 0..1
      PROVE  Scalars'
    <2>1. link' = "none" /\ sink' = "off" /\ rq' = "off" /\ cur' = NoMessage /\ passed' = 0
        BY <1>4 DEF Leave, NoDelivery
    <2>2. passed' \in 0..Len(setup'.middleware)
        BY <1>1, <2>1
    <2>3. {reqset', calm', misused'} \subseteq BOOLEAN
        BY <1>4 DEF TypeInv, Scalars
    <2>4. QED
        BY <1>4, <2>1, <2>2, <2>3 DEF Scalars
<1>5. CASE Faults
    <2>1. CASE SetupFails \/ Kill
        <3>1. Leave /\ calm' \in BOOLEAN /\ UNCHANGED misused
            BY <2>1 DEF SetupFails, Kill, Fails
        <3>2. gctx' \in {"live", "done"} /\ idx' \in 0..1
            BY <2>1 DEF SetupFails, Kill, TypeInv, Scalars
        <3>3. reqset' \in BOOLEAN
            BY <2>1 DEF SetupFails, Kill, TypeInv, Scalars
        <3>4. QED
            BY <1>4, <3>1, <3>2, <3>3
    <2>2. CASE LoseConnection \/ Restart \/ Wipe \/ RequeueLeaves \/ Interrupt
        <3>1. /\ UNCHANGED <<sink, cur, passed, idx, reqset, misused>> /\ calm' = FALSE
              /\ gctx' \in {gctx, "done"} /\ rq' \in {rq, "left"}
            BY <2>2 DEF LoseConnection, Restart, Wipe, RequeueLeaves, Interrupt, Fails,
               sinkVars, connVars
        <3>2. {reqset', calm', misused'} \subseteq BOOLEAN
            BY <3>1 DEF TypeInv, Scalars
        <3>3. QED
            BY <1>1, <3>1, <3>2 DEF TypeInv, Scalars
    <2>3. CASE RepublishFails
        BY <1>3, <2>3 DEF RepublishFails, Fails, Goto
    <2>4. QED
        BY <1>5, <2>1, <2>2, <2>3 DEF Faults
<1>6. CASE Program \/ Declare \/ Consume
    <2>1. /\ UNCHANGED <<cur, passed, calm, misused>>
          /\ sink' \in {sink, "declare", "select"} /\ rq' \in {rq, "on"}
          /\ reqset' \in {reqset, TRUE, FALSE}
          /\ UNCHANGED <<gctx, idx>> \/ (gctx' = "live" /\ idx' = 0)
        BY <1>6 DEF Program, Connect, NextRun, StartRequeue, SetRequeue, Declare, Consume, Goto,
           sinkVars, connVars, history
    <2>2. {reqset', calm', misused'} \subseteq BOOLEAN
        BY <2>1 DEF TypeInv, Scalars
    <2>3. QED
        BY <1>1, <2>1, <2>2 DEF TypeInv, Scalars
<1>7. CASE DeclareRefused \/ Broken \/ Cancelled
    <2>1. Leave /\ UNCHANGED <<calm, misused, gctx, idx, reqset>>
        BY <1>7 DEF DeclareRefused, Broken, Cancelled, LeaveQuietly, history
    <2>2. calm' \in BOOLEAN /\ reqset' \in BOOLEAN
        BY <2>1 DEF TypeInv, Scalars
    <2>3. QED
        BY <1>4, <2>1, <2>2 DEF TypeInv, Scalars
<1>8. CASE Decide \/ Filter
    BY <1>1, <1>8 DEF Decide, Filter, Goto, TypeInv, Scalars, connVars, history
<1>9. CASE Handler \/ RequeueFails \/ RequeueAborted
    <2>1. CASE HandleSucceeds
        BY <1>1, <2>1 DEF HandleSucceeds, Goto, TypeInv, Scalars
    <2>2. CASE HandlePlain \/ HandleFails \/ RequeueFails \/ RequeueAborted
        <3>1. /\ UNCHANGED <<cur, passed, gctx, idx, reqset, misused, calm>>
              /\ rq' \in {rq, "left"} /\ sink' \in {"select", "nack", "requeue"}
            BY <2>2 DEF HandlePlain, HandleFails, RequeueFails, RequeueAborted, Goto, connVars,
               history
        <3>2. calm' \in BOOLEAN
            BY <3>1 DEF TypeInv, Scalars
        <3>3. QED
            BY <1>3, <3>1, <3>2
    <2>3. QED
        BY <1>9, <2>1, <2>2 DEF Handler
<1>10. CASE Settling
    <2>1. \A outcome : Settle(outcome) => misused' \in BOOLEAN /\ rq' = rq
        BY DEF Settle, TypeInv, Scalars
    <2>2. CASE Refuse /\ link = "broken"
        <3>1. Leave /\ UNCHANGED <<calm, misused, gctx, idx, reqset>>
            BY <2>2 DEF Refuse, LeaveQuietly, history
        <3>2. calm' \in BOOLEAN /\ reqset' \in BOOLEAN
            BY <3>1 DEF TypeInv, Scalars
        <3>3. QED
            BY <1>4, <3>1, <3>2 DEF TypeInv, Scalars
    <2>3. CASE ~(Refuse /\ link = "broken")
        <3>1. /\ misused' \in BOOLEAN /\ rq' = rq /\ sink' = "select"
              /\ UNCHANGED <<cur, passed, gctx, idx, reqset, calm>>
            BY <1>10, <2>1, <2>3 DEF Settling, Refuse, Ack, Nack, GiveToRequeue, Goto
        <3>2. {reqset', calm', misused'} \subseteq BOOLEAN
            BY <3>1 DEF TypeInv, Scalars
        <3>3. QED
            BY <1>1, <3>1, <3>2 DEF TypeInv, Scalars
    <2>4. QED
        BY <2>2, <2>3
<1>11. QED
    BY <1>2, <1>5, <1>6, <1>7, <1>8, <1>9, <1>10 DEF Next, Broker, SinkStep

LEMMA StepHistories ==
    ASSUME IInv, TypeInv, setup \in Setups, Next PROVE Histories'
<1> USE DEF TypeInv
<1>1. CASE UNCHANGED <<signed, handled, retried>>
    BY <1>1 DEF Histories
<1>2. ASSUME NEW m \in Messages, Send(m) PROVE Histories'
    BY <1>2 DEF Send, Histories
<1>3. CASE HandlePlain \/ HandleSucceeds
    <2>1. HandledAgain /\ UNCHANGED <<signed, retried>> /\ cur \in Messages
        BY <1>3 DEF HandlePlain, HandleSucceeds, Filtered, InWork, IInv, HeldByUs
    <2>2. \A n \in 0..2 : Again(n, 2) \in 0..2
        BY DEF Again
    <2> DEFINE n == IF calm \/ setup.auto THEN Again(handled[cur], 2)
                    ELSE IF setup.once THEN 1 ELSE 0
    <2>3. n \in 0..2 /\ handled' = [handled EXCEPT ![cur] = n]
        <3>1. handled[cur] \in 0..2
            BY <2>1 DEF Histories
        <3>2. QED
            BY <2>1, <2>2, <3>1 DEF HandledAgain
    <2> HIDE DEF n
    <2>4. handled' \in [Messages -> 0..2]
        BY <2>3 DEF Histories
    <2>5. QED
        BY <2>1, <2>4 DEF Histories
<1>4. CASE Nack \/ GiveToRequeue
    <2>1. /\ GivenBack \/ retried' = retried
          /\ UNCHANGED <<signed, handled>> /\ cur \in Messages
        BY <1>4 DEF Nack, GiveToRequeue, InWork, IInv, HeldByUs
    <2>2. \A n \in Nat : \A most : Again(n, most) \in Nat
        BY DEF Again
    <2>3. PICK n \in Nat : retried' \in {retried, [retried EXCEPT ![cur] = n]}
        BY <2>1, <2>2 DEF GivenBack, Histories
    <2>4. QED
        BY <2>1, <2>3 DEF Histories
<1>5. CASE Broker \/ Program \/ RequeueFails
    <2>1. UNCHANGED <<signed, handled, retried>>
        BY <1>5 DEF Broker, DelayExpires, Push, Program, Connect, NextRun, StartRequeue,
           SetRequeue, RequeueFails, history
    <2>2. QED
        BY <1>1, <2>1
<1>6. ASSUME SinkStep, ~(HandlePlain \/ HandleSucceeds \/ Nack \/ GiveToRequeue)
      PROVE  Histories'
    <2>1. UNCHANGED <<signed, handled, retried>>
        BY <1>6 DEF SinkStep, Declare, DeclareRefused, Consume, Broken, Cancelled, LeaveQuietly,
           Receive, Decide, Filter, Handler, HandleFails, Settling, Refuse, Ack, RequeueAborted,
           history
    <2>2. QED
        BY <1>1, <2>1
<1>7. CASE Faults
    <2>1. UNCHANGED <<signed, retried>> /\ CountEnds
        BY <1>7 DEF Faults, LoseConnection, SetupFails, Restart, Wipe, RequeueLeaves,
           RepublishFails, Interrupt, Kill, Fails
    <2>2. [m \in Messages |-> 0] \in [Messages -> 0..2]
        OBVIOUS
    <2>3. QED
        BY <2>1, <2>2 DEF CountEnds, Histories
<1>8. QED
    BY <1>2, <1>3, <1>4, <1>5, <1>6, <1>7 DEF Next

(***************************************************************************)
(* sink.go: every step of the sink, the broker and the programs keeps the  *)
(* types; a copy lies in a queue that the sink or the requeue has          *)
(* declared, amqp-recv counts one message in each run, the loop over the   *)
(* middlewares stays within them, and a body is never another's.           *)
(***************************************************************************)
THEOREM TypeCorrect == Spec => []TypeOK
<1> DEFINE All == TypeInv /\ DeclaredFrom
<1>1. Init => All
    <2> SUFFICES ASSUME Init PROVE TypeInv
        BY InitDeclared
    <2>1. Len(setup.middleware) \in Nat
        BY InfrastructureFrom DEF Init, WellConfigured
    <2>2. ASSUME NEW m \in Messages PROVE Placed(copy[m])
        BY DEF Init, Settled, Placed, Places, States
    <2>3. /\ signed \subseteq Messages
          /\ handled \in [Messages -> 0..2] /\ retried \in [Messages -> Nat]
        BY DEF Init
    <2>4. {reqset, calm, misused} \subseteq BOOLEAN /\ rq \in {"off", "on", "left"}
        BY DEF Init
    <2>5. passed \in 0..Len(setup.middleware) /\ idx \in 0..1
        BY <2>1 DEF Init
    <2>6. gctx = "live" /\ sink = "off" /\ cur = NoMessage
        BY DEF Init
    <2>7. QED
        BY <2>2, <2>3, <2>4, <2>5, <2>6 DEF TypeInv, Scalars, Histories
<1>2. IInv /\ KeptInv /\ All /\ [Next]_vars => All'
    <2> SUFFICES ASSUME IInv, KeptInv, All, [Next]_vars PROVE All'
        OBVIOUS
    <2>1. CASE UNCHANGED vars
        BY <2>1, SameNames DEF vars, connVars, sinkVars, history, DeclaredFrom, TypeInv, Scalars,
           Histories, Placed, Places
    <2>2. CASE Next
        <3>1. setup \in Setups /\ setup' = setup
            BY <2>2, SetupStays DEF KeptInv
        <3>2. \A m \in Messages : Placed(copy[m])'
            BY <2>2, <3>1, StepPlaced, SameNames DEF Placed, Places
        <3>3. QED
            BY <2>2, <3>1, <3>2, StepDeclared, StepScalars, StepHistories DEF TypeInv
    <2>3. QED
        BY <2>1, <2>2
<1>3. IInv /\ KeptInv /\ SignedInv /\ All => TypeOK
    <2> SUFFICES ASSUME IInv, KeptInv, SignedInv, All PROVE TypeOK
        OBVIOUS
    <2>1. declared \subseteq Infrastructure \union {Queue(RequeueName)}
        BY DEF DeclaredFrom
    <2>2. \A m \in Messages : /\ copy[m].state \in States /\ copy[m].msg.body = <<m>>
                              /\ copy[m].queue \in Places
        BY DEF TypeInv, Placed, SignedInv, Genuine
    <2>3. link \in {"none", "up", "broken"} /\ (link = "none") = (sink = "off")
        BY DEF IInv, LinkOK
    <2>4. QED
        BY <2>1, <2>2, <2>3 DEF KeptInv, TypeInv, Scalars, Histories, Places, TypeOK
<1> HIDE DEF All
<1>4. QED
    BY <1>1, <1>2, <1>3, InitInv, StepInv, InitKept, StepKept, InitSigned, StepSigned, PTL
    DEF Spec, SafeSpec

-----------------------------------------------------------------------------
(***************************************************************************)
(* What the sink has declared, and what it has still to declare.           *)
(***************************************************************************)
StreamsOnAll ==
    sink \notin {"off", "declare"} /\ link = "up" => Infrastructure \subseteq declared

AllDeclared ==
    /\ sink # "declare" => todo = <<>>
    /\ link = "up" => Infrastructure \subseteq declared \union Elements(todo)

LEMMA StepAllDeclared ==
    ASSUME setup \in Setups, LinkOK, DeclaredFrom, AllDeclared, Next PROVE AllDeclared'
<1>1. setup' = setup /\ Infrastructure' = Infrastructure
    BY SetupStays, SameNames
<1>2. SUFFICES /\ sink' # "declare" => todo' = <<>>
               /\ link' = "up" => Infrastructure \subseteq declared' \union Elements(todo')
    BY <1>1 DEF AllDeclared
<1>3. ASSUME link' = link, declared' = declared, todo' = todo,
             sink' = "declare" => sink = "declare",
             sink = "declare" => sink' = "declare" \/ todo = <<>>
      PROVE  /\ sink' # "declare" => todo' = <<>>
             /\ link' = "up" => Infrastructure \subseteq declared' \union Elements(todo')
    BY <1>3 DEF AllDeclared
<1>4. CASE \E m \in Messages : Send(m) \/ DelayExpires(m) \/ Push(m) \/ Receive(m)
    BY <1>3, <1>4 DEF Send, DelayExpires, Push, Receive, connVars, sinkVars
<1>5. CASE Leave
    BY <1>5 DEF Leave
<1>6. CASE Faults \/ NextRun \/ SetRequeue
    <2>1. CASE LoseConnection \/ SetupFails \/ Restart \/ Wipe \/ Kill
        BY <1>5, <2>1 DEF LoseConnection, SetupFails, Restart, Wipe, Kill, AllDeclared,
           sinkVars, connVars
    <2>2. CASE RequeueLeaves \/ RepublishFails \/ Interrupt \/ NextRun \/ SetRequeue
        BY <1>3, <2>2 DEF RequeueLeaves, RepublishFails, Interrupt, NextRun, SetRequeue, Goto,
           sinkVars
    <2>3. QED
        BY <1>6, <2>1, <2>2 DEF Faults
<1>7. CASE Connect
    BY <1>7, InfrastructureFrom DEF Connect
<1>8. CASE StartRequeue
    BY <1>8 DEF StartRequeue, sinkVars, AllDeclared
<1>9. CASE Declare
    <2>1. /\ todo # <<>> /\ todo' = Tail(todo) /\ declared' = declared \union {Head(todo)}
          /\ link' = link /\ sink = "declare" /\ sink' = sink
        BY <1>9 DEF Declare, connVars
    <2>2. Elements(todo) = {Head(todo)} \union Elements(Tail(todo))
        BY <2>1, HeadTailElements DEF DeclaredFrom
    <2>3. QED
        BY <2>1, <2>2 DEF AllDeclared
<1>10. CASE DeclareRefused \/ Broken \/ Cancelled
    BY <1>5, <1>10 DEF DeclareRefused, Broken, Cancelled, LeaveQuietly
<1>11. CASE Consume \/ Decide \/ Filter \/ Handler \/ RequeueFails \/ RequeueAborted
    <2>1. UNCHANGED <<link, declared, todo>> /\ sink' # "declare"
        BY <1>11 DEF Consume, Decide, Filter, Handler, HandlePlain, HandleSucceeds,
           HandleFails, RequeueFails, RequeueAborted, Goto, connVars
    <2>2. sink = "declare" => todo = <<>>
        BY <1>11 DEF Consume, Decide, Filter, Handler, HandlePlain, HandleSucceeds,
           HandleFails, Filtered, RequeueFails, RequeueAborted
    <2>3. QED
        BY <2>1, <2>2 DEF AllDeclared
<1>12. CASE Settling
    <2>1. CASE Refuse /\ link = "broken"
        BY <1>5, <2>1 DEF Refuse, LeaveQuietly
    <2>2. CASE ~(Refuse /\ link = "broken")
        <3>1. /\ sink # "declare" /\ sink' = "select" /\ todo' = todo
              /\ \E outcome : Settle(outcome)
            BY <1>12, <2>2 DEF Settling, Refuse, Ack, Nack, GiveToRequeue, Goto
        <3>2. link' = "up" => link = "up" /\ declared' = declared
            BY <3>1 DEF Settle
        <3>3. QED
            BY <3>1, <3>2 DEF AllDeclared
    <2>3. QED
        BY <2>1, <2>2
<1>13. QED
    BY <1>4, <1>6, <1>7, <1>8, <1>9, <1>10, <1>11, <1>12 DEF Next, Broker, Program, SinkStep

(***************************************************************************)
(* sink.go, the safety of README.md:17 "Will restore all defined           *)
(* infrastructure": on every connection, the first or a later one, after a *)
(* restart of the broker or in an empty one, no delivery is in work before *)
(* everything the sink is configured with has been declared, and nothing   *)
(* of it goes away while the connection is up.                             *)
(***************************************************************************)
THEOREM ServesWhatItDeclares == Spec => []StreamsOnAll
<1> DEFINE All == AllDeclared /\ DeclaredFrom
<1>1. Init => All
    BY InitDeclared DEF Init, AllDeclared
<1>2. IInv /\ KeptInv /\ All /\ [Next]_vars => All'
    <2> SUFFICES ASSUME IInv, KeptInv, All, [Next]_vars PROVE All'
        OBVIOUS
    <2>1. CASE UNCHANGED vars
        BY <2>1, SameNames DEF vars, connVars, sinkVars, DeclaredFrom, AllDeclared
    <2>2. CASE Next
        BY <2>2, StepDeclared, StepAllDeclared DEF KeptInv, IInv
    <2>3. QED
        BY <2>1, <2>2
<1>3. All => StreamsOnAll
    BY DEF AllDeclared, StreamsOnAll, Elements
<1> HIDE DEF All
<1>4. QED
    BY <1>1, <1>2, <1>3, InitInv, StepInv, InitKept, StepKept, PTL DEF Spec, SafeSpec

-----------------------------------------------------------------------------
(***************************************************************************)
(* sink.go: there is no way back.  A message that was acknowledged,        *)
(* refused or lost is never in a queue again, so it is never delivered     *)
(* again, whatever connections, programs and brokers end in between.       *)
(***************************************************************************)
THEOREM NoWayBack ==
    ASSUME NEW m \in Messages
    PROVE  Spec => [][copy[m].state \in Final => copy'[m].state \in Final]_vars
<1>1. IInv /\ [Next]_vars =>
        [copy[m].state \in Final => copy'[m].state \in Final]_vars
    BY FinalStays
<1>2. QED
    BY <1>1, InitInv, StepInv, PTL DEF Spec, SafeSpec

-----------------------------------------------------------------------------
(***************************************************************************)
(* Who can take the next step.  The conditions are the guards of the       *)
(* actions, written out.                                                   *)
(***************************************************************************)
CanReceive(m) == IF setup.auto THEN copy[m].state = "client" ELSE link = "up" /\ Here(m)

SinkReady ==
    \/ sink = "declare" /\ link # "none"
    \/ sink = "select" /\ (\/ link = "broken" \/ gctx = "done" \/ rq = "left"
                            \/ \E m \in Messages : CanReceive(m))
    \/ sink = "filter" /\ passed <= Len(setup.middleware)
    \/ sink \in {"decide", "refuse", "ack", "nack"}
    \/ sink = "requeue" /\ ((link = "up" /\ rq = "on") \/ gctx = "done")
ProgramReady ==
    \/ link = "none"                               \* Connect, NextRun or SetRequeue
    \/ setup.requeue /\ ~reqset                    \* SetRequeue
    \/ setup.requeue /\ link = "up" /\ rq = "off"  \* StartRequeue
PushReady ==
    setup.auto /\ link = "up" /\ sink \notin {"off", "declare"} /\ \E m \in Messages : Here(m)

\* The select of a sink that has nothing to do, and the wait for the answer of
\* a requeue that has left or whose connection is gone.
Idle     == Serving /\ gctx = "live" /\ rq # "left" /\ \A m \in Messages : ~Here(m)
Forsaken == sink = "requeue" /\ gctx = "live" /\ (link = "broken" \/ rq = "left")

NoDeadEnd == SinkReady \/ ProgramReady \/ PushReady \/ Idle \/ Forsaken

(***************************************************************************)
(* A run of amqp-recv is over as soon as it has handled a message, or was  *)
(* interrupted, and gives messages back only then.                         *)
(***************************************************************************)
OnePerRun ==
    /\ idx = 1 => gctx = "done"
    /\ gctx = "done" => idx = 1 \/ ~calm
    /\ setup.once /\ sink \in {"nack", "requeue"} => gctx = "done"

AskedOfRequeue == reqset \/ sink = "requeue" => setup.requeue

LEMMA StepRun ==
    ASSUME TypeOK, OnePerRun, AskedOfRequeue, Next
    PROVE  OnePerRun' /\ AskedOfRequeue'
<1>1. setup' = setup
    BY SetupStays
<1>2. ASSUME UNCHANGED <<gctx, idx>>, calm' => calm, reqset' => reqset,
             sink' \in {"nack", "requeue"} => sink' = sink \/ (sink = "requeue" /\ ~setup.once),
             sink' = "requeue" => sink = "requeue"
      PROVE  OnePerRun' /\ AskedOfRequeue'
    BY <1>1, <1>2 DEF OnePerRun, AskedOfRequeue
<1>3. CASE \E m \in Messages : Send(m) \/ DelayExpires(m) \/ Push(m) \/ Receive(m)
    BY <1>2, <1>3 DEF Send, DelayExpires, Push, Receive, connVars, sinkVars, history
<1>4. CASE LoseConnection \/ SetupFails \/ Restart \/ Wipe \/ RequeueLeaves
    BY <1>2, <1>4 DEF LoseConnection, SetupFails, Restart, Wipe, RequeueLeaves, Fails, Leave,
       connVars, sinkVars
<1>5. sink = "requeue" => ~setup.once
    BY SetupsAssumption DEF TypeOK, AskedOfRequeue, WellConfigured
<1>6. CASE RepublishFails \/ RequeueFails \/ RequeueAborted
    BY <1>2, <1>5, <1>6 DEF RepublishFails, RequeueFails, RequeueAborted, Fails, Goto, connVars,
       history
<1>7. CASE Interrupt
    <2>1. gctx' = "done" /\ ~calm' /\ UNCHANGED <<idx, reqset, sink>>
        BY <1>7 DEF Interrupt, Fails, sinkVars
    <2>2. QED
        BY <1>1, <2>1 DEF OnePerRun, AskedOfRequeue
<1>8. CASE Kill \/ NextRun
    <2>1. gctx' = "live" /\ idx' = 0 /\ sink' = "off" /\ reqset' = FALSE
        BY <1>8 DEF Kill, NextRun, Leave, sinkVars, TypeOK
    <2>2. QED
        BY <2>1 DEF OnePerRun, AskedOfRequeue
<1>9. CASE Connect \/ StartRequeue \/ Declare \/ Consume
    BY <1>2, <1>9 DEF Connect, StartRequeue, Declare, Consume, Goto, connVars, sinkVars, history
<1>10. CASE SetRequeue
    BY <1>1, <1>10 DEF SetRequeue, OnePerRun, AskedOfRequeue, sinkVars, history
<1>11. CASE DeclareRefused \/ Broken \/ Cancelled
    BY <1>2, <1>11 DEF DeclareRefused, Broken, Cancelled, LeaveQuietly, Leave, history
<1>12. CASE Decide \/ Filter \/ HandlePlain
    BY <1>2, <1>12 DEF Decide, Filter, HandlePlain, Goto, connVars, history
<1>13. CASE HandleSucceeds
    <2>1. sink' = "ack" /\ UNCHANGED <<calm, reqset>>
        BY <1>13 DEF HandleSucceeds, Goto
    <2>2. CASE setup.once
        <3>1. ~(idx >= 1) /\ idx \in 0..1
            BY <1>13, <2>2 DEF HandleSucceeds, TypeOK
        <3>2. gctx' = "done" /\ idx' = 1
            BY <1>13, <2>2, <3>1 DEF HandleSucceeds
        <3>3. QED
            BY <1>1, <2>1, <3>2 DEF OnePerRun, AskedOfRequeue
    <2>3. CASE ~setup.once
        BY <1>2, <1>13, <2>1, <2>3 DEF HandleSucceeds
    <2>4. QED
        BY <2>2, <2>3
<1>14. CASE HandleFails
    <2>1. /\ UNCHANGED <<gctx, idx, reqset, calm>> /\ (setup.once => idx >= 1)
          /\ sink' = IF reqset THEN "requeue" ELSE "nack"
        BY <1>14 DEF HandleFails, Goto, connVars, history
    <2>2. setup.once => gctx = "done"
        BY <2>1 DEF OnePerRun, TypeOK
    <2>3. QED
        BY <1>1, <2>1, <2>2 DEF OnePerRun, AskedOfRequeue
<1>15. CASE Settling
    BY <1>2, <1>15 DEF Settling, Refuse, LeaveQuietly, Leave, Ack, Nack, GiveToRequeue, Goto,
       history
<1>16. QED
    BY <1>3, <1>4, <1>6, <1>7, <1>8, <1>9, <1>10, <1>11, <1>12, <1>13, <1>14, <1>15 DEF Next,
       Broker, Faults, Program, SinkStep, Handler

(***************************************************************************)
(* sink.go and the programs, the safety of InfrastructureRestored and of   *)
(* LoopPrintsAll.  Whatever has failed before, either somebody can step,   *)
(* or the sink serves an empty queue with all its declarations in the      *)
(* broker, or, as long as the program is not asked to end, it waits for a  *)
(* requeue that has left or whose connection is gone, which Transact shows *)
(* may be for ever.  And amqp-recv's limit, which it tests only in its     *)
(* handler, never makes a run without progress: a run is cancelled when it *)
(* has handled one message, else only from outside, and no message is      *)
(* given back before.                                                      *)
(***************************************************************************)
THEOREM SinkNeverIdles == Spec => [](NoDeadEnd /\ OnePerRun)
<1> DEFINE Run == OnePerRun /\ AskedOfRequeue
<1>1. Init => Run
    BY DEF Init, OnePerRun, AskedOfRequeue
<1>2. TypeOK /\ Run /\ [Next]_vars => Run'
    <2>1. ASSUME Run, UNCHANGED vars PROVE Run'
        BY <2>1 DEF vars, connVars, sinkVars, history, OnePerRun, AskedOfRequeue
    <2>2. QED
        BY <2>1, StepRun
<1>3. TypeOK /\ StreamsOnAll /\ Run => NoDeadEnd
    <2> SUFFICES ASSUME TypeOK, StreamsOnAll, Run, ~SinkReady, ~ProgramReady
                 PROVE  PushReady \/ Idle \/ Forsaken
        BY DEF NoDeadEnd
    <2>1. link \in {"up", "broken"} /\ sink # "off"
        BY DEF TypeOK, ProgramReady
    <2>2. sink \notin {"declare", "decide", "refuse", "ack", "nack"}
        BY <2>1 DEF SinkReady
    <2>3. sink # "filter"
        <3>1. Len(setup.middleware) \in Nat
            BY SetupsAssumption DEF TypeOK, WellConfigured
        <3>2. QED
            BY <3>1 DEF TypeOK, SinkReady
    <2>4. sink \in {"select", "requeue"}
        BY <2>1, <2>2, <2>3 DEF TypeOK
    <2>5. CASE sink = "requeue"
        <3>1. gctx = "live" /\ rq \in {"off", "on", "left"}
            BY <2>5 DEF SinkReady, TypeOK
        <3>2. QED
            BY <2>1, <2>5, <3>1 DEF SinkReady, ProgramReady, AskedOfRequeue, Forsaken
    <2>6. CASE sink = "select"
        <3>1. /\ link = "up" /\ gctx = "live" /\ rq # "left"
              /\ \A m \in Messages : ~CanReceive(m)
            BY <2>1, <2>6 DEF SinkReady, TypeOK
        <3>2. Serving
            BY <2>6, <3>1 DEF StreamsOnAll, Serving
        <3>3. CASE \E m \in Messages : Here(m)
            BY <2>6, <3>1, <3>3 DEF CanReceive, PushReady
        <3>4. CASE \A m \in Messages : ~Here(m)
            BY <3>1, <3>2, <3>4 DEF Idle
        <3>5. QED
            BY <3>3, <3>4
    <2>7. QED
        BY <2>4, <2>5, <2>6
<1>4. Run => OnePerRun
    OBVIOUS
<1> HIDE DEF Run
<1>5. QED
    BY <1>1, <1>2, <1>3, <1>4, TypeCorrect, ServesWhatItDeclares, PTL DEF Spec, SafeSpec
===============================================================================
