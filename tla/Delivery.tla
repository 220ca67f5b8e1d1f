------------------------------- MODULE Delivery -------------------------------
(***************************************************************************)
(* The way of a message: sent by amqp-send or another writer, routed by    *)
(* what a sink has declared, consumed by the sink as its configuration     *)
(* says, validated, handled, retried or dead-lettered.  sink.go with the   *)
(* programs that configure it: amqp-exec, amqp-recv (which handles one     *)
(* message and ends, and is run in a loop), the test and the example.      *)
(*                                                                         *)
(* There is one sink, whose configuration is chosen in the beginning, and  *)
(* one copy of each message.  The goroutines of the server, and the steps  *)
(* between a copy and its ack, are those of Server and Transact: here a    *)
(* connection ends in one step with the sink, and Requeue with the ack     *)
(* that follows is another one.                                            *)
(*                                                                         *)
(* Definitions named X_... are faulty variants of X, used to see that the  *)
(* properties reject them; they are not part of the specification.         *)
(***************************************************************************)
EXTENDS Envelope

CONSTANTS Messages, NoMessage,
          Setups,           \* configurations of the sink to check
          DefaultRetries    \* of the BrokerConfig

ASSUME DeliveryAssumption ==
    /\ NoMessage \notin Messages
    /\ DefaultRetries \in Int

\* A configuration is one that can work: there are no bindings to the exchange
\* "", and a dead letter exchange has a queue that is not the requeue's own.
\* amqp-recv has no requeue.
Names == Seq(STRING)
WellConfigured(s) ==
    /\ {s.queue, s.deadExchange, s.deadQueue, s.exchange} \subseteq Names
    /\ s.keys \in Seq(Names) /\ s.middleware \in Seq(STRING)
    /\ s.retries \in Int /\ {s.auto, s.requeue, s.once} \subseteq BOOLEAN
    /\ s.once => ~s.requeue
    /\ s.keys # <<>> => s.exchange # <<>>
    /\ s.deadExchange # <<>> => s.deadQueue \notin {<<>>, s.queue \o <<"/requeue">>}

ASSUME SetupsAssumption == \A s \in Setups : WellConfigured(s)

-----------------------------------------------------------------------------
\* SinkConfig and its setters.  once is set for the handler of amqp-recv.

NewSink(queue) ==
    [queue |-> queue, deadExchange |-> <<>>, deadQueue |-> <<>>, exchange |-> <<>>,
     keys |-> <<>>, retries |-> DefaultRetries, auto |-> TRUE, requeue |-> FALSE,
     middleware |-> <<>>, once |-> FALSE]

Retries(s, n)   == [s EXCEPT !.retries = n]
Requeue(s)      == [s EXCEPT !.requeue = TRUE]
ManualAck(s)    == [s EXCEPT !.auto = FALSE]
Use(s, handler) == [s EXCEPT !.middleware = Append(@, handler)]
Validate(s)     == Use(s, "validator")
Bind(s, exchange, keys) == [s EXCEPT !.exchange = exchange, !.keys = keys]
DeadLetter(s, exchange, key) == [s EXCEPT !.deadExchange = exchange, !.deadQueue = key]
KeepDead(s) == DeadLetter(s, <<"dead.messages">>, s.queue \o <<"/dead">>)

\* What the programs make of them; amqp-exec need not have an exchange.
ExecSink(queue, limit, exchange, keys) ==
    ManualAck(Bind(Validate(Requeue(Retries(NewSink(queue), limit))), exchange, keys))
RecvSink(queue) ==
    [ManualAck(Bind(Validate(NewSink(queue)), <<"events">>, << <<"key">> >>))
        EXCEPT !.once = TRUE]
TestSink(queue) ==
    ManualAck(Bind(Requeue(Retries(KeepDead(NewSink(queue)), 0)), <<"xxx">>, <<>>))
SampleSink(queue) ==
    ManualAck(Bind(Retries(DeadLetter(Validate(NewSink(queue)), <<>>, <<"deads">>), 1),
                   <<"sample">>, << <<"key">> >>))

VARIABLES setup,     \* the configuration
          declared,  \* what the broker has: exchanges, queues, bindings
          copy,      \* of each message: where it is, and its envelope
          link,      \* none, up, or broken: lost, or its channel closed by the broker
          gctx,      \* the context of the program
          sink,      \* where ChannelReady is
          todo,      \* the declarations it still has to make
          cur, seen, \* the delivery it works on: the message, and its envelope
          passed,    \* middlewares that have let it pass
          idx,       \* limited.idx of amqp-recv
          rq,        \* the requeue on this connection: off, on, or it has left
          reqset,    \* HandlerFunc has put the requeue into the configuration
          signed,    \* messages that were signed when they were sent
          handled,   \* how often the handler has succeeded with a message, as
                     \* far as something is promised of that
          retried,   \* how often a message was given to the requeue, or, for a
                     \* sink that has none, back to its queue
          calm,      \* nothing has failed and nobody has interrupted so far
          misused    \* the broker has closed a channel for an unknown delivery tag

history  == <<signed, handled, retried, calm, misused>>
connVars == <<link, gctx, idx, rq, reqset>>
sinkVars == <<sink, todo, cur, seen, passed>>
vars == <<setup, declared, copy, connVars, sinkVars, history>>

QueueName == IF setup.queue = <<>> THEN <<"amq.gen">> ELSE setup.queue
Temporary == setup.queue = <<>>
RequeueName == setup.queue \o <<"/requeue">>

-----------------------------------------------------------------------------
\* What is declared, and in which order.

Exchange(name)        == [kind |-> "exchange", name |-> name, key |-> <<>>, to |-> <<>>]
Queue(name)           == [kind |-> "queue", name |-> name, key |-> <<>>, to |-> <<>>]
Binding(exc, key, to) == [kind |-> "binding", name |-> exc, key |-> key, to |-> to]

When(condition, declaration) == IF condition THEN <<declaration>> ELSE <<>>

\* The dead letter queue bound with the name of the sink's queue.
Declarations_WrongKey(s, queue) ==
       When(s.deadExchange # <<>>, Exchange(s.deadExchange))
    \o When(s.deadQueue # <<>>, Queue(s.deadQueue))
    \o When(s.deadExchange # <<>> /\ s.deadQueue # <<>>,
            Binding(s.deadExchange, queue, s.deadQueue))
    \o <<Queue(queue)>>

Declarations(s, queue) ==
       When(s.deadExchange # <<>>, Exchange(s.deadExchange))
    \o When(s.deadQueue # <<>>, Queue(s.deadQueue))
    \o When(s.deadExchange # <<>> /\ s.deadQueue # <<>>,
            Binding(s.deadExchange, s.deadQueue, s.deadQueue))
    \o <<Queue(queue)>>
    \o When(s.exchange # <<>>, Exchange(s.exchange))
    \o [i \in DOMAIN s.keys |-> Binding(s.exchange, s.keys[i], queue)]

Infrastructure ==
    LET d == Declarations(setup, QueueName) IN {d[i] : i \in DOMAIN d}

\* The broker refuses a queue with x-dead-letter-routing-key and without
\* x-dead-letter-exchange.
Acceptable(d) ==
    d = Queue(QueueName) /\ setup.deadQueue # <<>> => setup.deadExchange # <<>>

-----------------------------------------------------------------------------
\* The broker.

Settled(state, msg) == [state |-> state, queue |-> <<>>, msg |-> msg]

Bound(exchange, key) ==
    {d.to : d \in {e \in declared : e.kind = "binding" /\ e.name = exchange /\ e.key = key}}
Targets(exchange, key) ==
    {q \in (IF exchange = <<>> THEN {key} ELSE Bound(exchange, key)) : Queue(q) \in declared}

\* A message is published or dead-lettered to an exchange.
Routed(msg, exchange, key, otherwise) ==
    IF Targets(exchange, key) = {} THEN Settled(otherwise, msg)
    ELSE [state |-> "ready", queue |-> CHOOSE q \in Targets(exchange, key) : TRUE,
          msg |-> [msg EXCEPT !.key = key]]

\* basic.nack without requeue, on the queue that the sink has declared.
DeadLettered(msg) ==
    IF setup.deadExchange = <<>> THEN Settled("refused", msg)
    ELSE Routed(Died(msg, QueueName, "rejected"), setup.deadExchange,
                IF setup.deadQueue = <<>> THEN msg.key ELSE setup.deadQueue, "lost")

\* What becomes of a copy when the connection of the sink ends: an
\* autogenerated queue is deleted with its consumer (or, without one, is left
\* behind under a name that nobody knows), and what was pushed to a consumer
\* that does not acknowledge is gone.
Returned(c) ==
    IF c.state = "client" \/ (Temporary /\ c.queue = QueueName) THEN Settled("lost", c.msg)
    ELSE IF c.state = "unacked" THEN [c EXCEPT !.state = "ready"] ELSE c

Ended == /\ copy' = [m \in Messages |-> Returned(copy[m])]
         /\ declared' = IF Temporary
              THEN {d \in declared : d # Queue(QueueName) /\ d.to # QueueName}
              ELSE declared

Here(m)   == copy[m].state = "ready" /\ copy[m].queue = QueueName
Waiting(m) == copy[m].state = "ready" /\ copy[m].queue = RequeueName

\* Bounds of the model: senders may sign where somebody validates; counters of
\* the history stop at the first value that is of interest.
MaySign == {b \in BOOLEAN : b => \E i \in DOMAIN setup.middleware :
                                    setup.middleware[i] = "validator"}
Again(n, most) == IF n < most THEN n + 1 ELSE n

\* A writer publishes with the exchange and key that the sink is bound with, or
\* to its queue by name; nothing tells it whether there is one.
Send(m) ==
    /\ copy[m].state = "new"
    /\ \E sign \in MaySign :
         LET msg == IF sign THEN Signed(NewMessage(m)) ELSE NewMessage(m)
         IN  /\ copy' = [copy EXCEPT ![m] =
                   IF setup.keys = <<>> THEN Routed(msg, <<>>, QueueName, "unrouted")
                   ELSE Routed(msg, setup.exchange, setup.keys[1], "unrouted")]
             /\ signed' = IF sign THEN signed \union {m} ELSE signed
    /\ UNCHANGED <<setup, declared, connVars, sinkVars, handled, retried, calm, misused>>

\* The TTL of the requeue queue's copy: back to the name the sink was given.
DelayExpires(m) ==
    /\ Waiting(m)
    /\ copy' = [copy EXCEPT ![m] =
         Routed(Died(copy[m].msg, RequeueName, "expired"), <<>>, setup.queue, "lost")]
    /\ UNCHANGED <<setup, declared, connVars, sinkVars, history>>

\* A consumer without acknowledgement is given all there is.
Push(m) ==
    /\ setup.auto /\ link = "up" /\ sink \notin {"off", "declare"} /\ Here(m)
    /\ copy' = [copy EXCEPT ![m].state = "client"]
    /\ UNCHANGED <<setup, declared, connVars, sinkVars, history>>

-----------------------------------------------------------------------------
\* The connection and the program.

\* Declarations are made on the first connection only.
Connect_Once ==
    /\ link = "none" /\ gctx = "live"
    /\ link' = "up" /\ sink' = "declare"
    /\ todo' = IF calm THEN Declarations(setup, QueueName) ELSE <<Queue(QueueName)>>
    /\ UNCHANGED <<setup, declared, copy, gctx, idx, rq, reqset, cur, seen, passed, history>>

Connect ==
    /\ link = "none" /\ gctx = "live"
    /\ link' = "up" /\ sink' = "declare"
    /\ todo' = Declarations(setup, QueueName)
    /\ UNCHANGED <<setup, declared, copy, gctx, idx, rq, reqset, cur, seen, passed, history>>

NoDelivery == cur' = NoMessage /\ seen' = NewMessage(NoMessage) /\ passed' = 0

\* ChannelReady returns, and with it all handlers and the connection.
Leave ==
    /\ link' = "none" /\ sink' = "off" /\ todo' = <<>> /\ rq' = "off"
    /\ NoDelivery /\ Ended
    /\ UNCHANGED setup

LeaveQuietly == Leave /\ UNCHANGED <<gctx, idx, reqset, history>>

\* After a failure a message may be handled again: the count of how often it
\* was ends, where no property needs it any more.
CountEnds ==
    handled' = IF setup.auto \/ setup.once THEN handled ELSE [m \in Messages |-> 0]

Fails == calm' = FALSE /\ CountEnds /\ UNCHANGED <<signed, retried, misused>>

LoseConnection ==
    /\ link = "up"
    /\ link' = "broken" /\ Ended /\ Fails
    /\ UNCHANGED <<setup, gctx, idx, rq, reqset, sinkVars>>

\* A method of the setup, or a Ready callback, returns an error.
SetupFails ==
    /\ sink = "declare" /\ link = "up"
    /\ Leave /\ Fails /\ UNCHANGED <<gctx, idx, reqset>>

\* The broker restarts: what is not persistent is gone.
Restart ==
    /\ copy' = [m \in Messages |->
         IF ~copy[m].msg.persistent /\ copy[m].state \in {"ready", "unacked"}
           THEN Settled("gone", copy[m].msg) ELSE Returned(copy[m])]
    /\ declared' = {d \in declared : Temporary => d # Queue(QueueName) /\ d.to # QueueName}
    /\ link' = IF link = "none" THEN "none" ELSE "broken"
    /\ calm' = FALSE /\ CountEnds
    /\ UNCHANGED <<setup, gctx, idx, rq, reqset, sinkVars, signed, retried, misused>>

\* The broker is replaced by an empty one.
Wipe ==
    /\ link = "none" /\ declared # {}
    /\ declared' = {}
    /\ copy' = [m \in Messages |->
         IF copy[m].state = "ready" THEN Settled("wiped", copy[m].msg) ELSE copy[m]]
    /\ Fails /\ UNCHANGED <<setup, connVars, sinkVars>>

\* The requeue leaves the connection and closes its context: its channel or its
\* queue is refused, or another handler has ended.
RequeueLeaves ==
    /\ setup.requeue /\ link = "up" /\ rq # "left"
    /\ rq' = "left" /\ Fails
    /\ UNCHANGED <<setup, declared, copy, link, gctx, idx, reqset, sinkVars>>

\* SignalContext: the program is asked to end, and does so by itself.
Interrupt ==
    /\ gctx = "live"
    /\ gctx' = "done" /\ Fails
    /\ UNCHANGED <<setup, declared, copy, link, idx, rq, reqset, sinkVars>>

\* The program is killed, or panics in its handler (or where it reads the
\* requeue while HandlerFunc writes it), and is started again.
Kill ==
    /\ link # "none"
    /\ Leave /\ Fails
    /\ gctx' = "live" /\ idx' = 0 /\ reqset' = FALSE

\* WaitToFinish returns, the program ends, and the loop starts it again.
\* Without WaitToFinish the program ends with its sink in the middle.
NextRun_NoWait ==
    /\ gctx = "done" /\ (setup.requeue => reqset)
    /\ gctx' = "live" /\ idx' = 0 /\ reqset' = FALSE
    /\ Leave /\ UNCHANGED history

NextRun ==
    /\ gctx = "done" /\ link = "none" /\ (setup.requeue => reqset)
    /\ gctx' = "live" /\ idx' = 0 /\ reqset' = FALSE
    /\ UNCHANGED <<setup, declared, copy, link, rq, sinkVars, history>>

-----------------------------------------------------------------------------
\* ChannelReady of the sink.

Declare ==
    /\ sink = "declare" /\ todo # <<>> /\ link = "up" /\ Acceptable(Head(todo))
    /\ declared' = declared \union {Head(todo)}
    /\ todo' = Tail(todo)
    /\ UNCHANGED <<setup, copy, connVars, sink, cur, seen, passed, history>>

DeclareRefused ==
    /\ sink = "declare" /\ todo # <<>> /\ link = "up" /\ ~Acceptable(Head(todo))
    /\ LeaveQuietly

Goto(label) == sink' = label /\ UNCHANGED <<todo, cur, seen, passed>>

\* Consume, and the Ready callbacks.
Consume ==
    /\ sink = "declare" /\ todo = <<>> /\ link = "up"
    /\ Goto("select")
    /\ UNCHANGED <<setup, declared, copy, connVars, history>>

\* The stream is closed, or the next method fails.
Broken == sink \in {"declare", "select"} /\ link = "broken" /\ LeaveQuietly

\* The context of the connection is closed: with that of the program, or by the
\* requeue.
Cancelled == sink = "select" /\ (gctx = "done" \/ rq = "left") /\ LeaveQuietly

Receive(m) ==
    /\ sink = "select"
    /\ IF setup.auto THEN copy[m].state = "client" ELSE link = "up" /\ Here(m)
    /\ copy' = [copy EXCEPT ![m].state = IF setup.auto THEN "taken" ELSE "unacked"]
    /\ cur' = m /\ seen' = copy[m].msg /\ passed' = 0
    /\ sink' = "decide"
    /\ UNCHANGED <<setup, declared, connVars, todo, history>>

Expired(msg) == setup.retries >= 0 /\ Redelivered(msg) > setup.retries

\* No OnExpired and no OnTooMuchRetries is set: Transact has them.
Decide ==
    /\ sink = "decide"
    /\ IF Expired(seen) THEN Goto("refuse")
       ELSE /\ sink' = "filter" /\ seen' = [seen EXCEPT !.key = RestoredKey(seen)]
            /\ UNCHANGED <<todo, cur, passed>>
    /\ UNCHANGED <<setup, declared, copy, connVars, history>>

\* A delivery is acknowledged or refused; one that the broker does not wait for
\* costs the channel.
Settle(outcome) ==
    /\ IF link = "up" /\ copy[cur].state = "unacked"
         THEN /\ copy' = [copy EXCEPT ![cur] = outcome]
              /\ UNCHANGED <<declared, link, misused>>
         ELSE /\ misused' = (misused \/ link = "up")
              /\ IF link = "up" THEN link' = "broken" /\ Ended
                                ELSE UNCHANGED <<declared, copy, link>>
    /\ UNCHANGED rq

\* msg.Nack(false, false).  If that fails, ChannelReady returns the error.
Refuse ==
    /\ sink = "refuse"
    /\ IF link = "broken" THEN LeaveQuietly
       ELSE /\ Settle(DeadLettered(copy[cur].msg)) /\ Goto("select")
            /\ UNCHANGED <<setup, gctx, idx, reqset, signed, handled, retried, calm>>

Accepts(handler) == IF handler = "validator" THEN {Valid(seen)} ELSE BOOLEAN

\* The loop over the middlewares goes on after a Nack.
Filter_NoBreak ==
    /\ sink = "filter" /\ passed < Len(setup.middleware)
    /\ \E accepted \in Accepts(setup.middleware[passed + 1]) :
         IF accepted
           THEN /\ passed' = passed + 1
                /\ UNCHANGED <<declared, copy, link, rq, sink, todo, cur, seen, misused>>
           ELSE /\ Settle(DeadLettered(copy[cur].msg)) /\ passed' = passed + 1
                /\ UNCHANGED <<sink, todo, cur, seen>>
    /\ UNCHANGED <<setup, gctx, idx, reqset, signed, handled, retried, calm>>

Filter ==
    /\ sink = "filter" /\ passed < Len(setup.middleware)
    /\ \E accepted \in Accepts(setup.middleware[passed + 1]) :
         IF accepted
           THEN /\ passed' = passed + 1
                /\ UNCHANGED <<sink, todo, cur, seen>>
           ELSE Goto("refuse")
    /\ UNCHANGED <<setup, declared, copy, connVars, history>>

Filtered == sink = "filter" /\ passed = Len(setup.middleware)

\* A second time counts where it is promised that there is none.
HandledAgain ==
    handled' = [handled EXCEPT ![cur] =
        IF calm \/ setup.auto THEN Again(@, 2) ELSE IF setup.once THEN 1 ELSE 0]

\* A handler without transaction: success or not, the sink goes on.
HandlePlain ==
    /\ Filtered /\ setup.auto
    /\ HandledAgain
    /\ Goto("select")
    /\ UNCHANGED <<setup, declared, copy, connVars, signed, retried, calm, misused>>

\* amqp-recv does not look whether it has handled a message already.
HandleSucceeds_Unlimited ==
    /\ Filtered /\ ~setup.auto
    /\ HandledAgain
    /\ IF setup.once THEN idx' = idx + 1 /\ gctx' = "done" ELSE UNCHANGED <<idx, gctx>>
    /\ Goto("ack")
    /\ UNCHANGED <<setup, declared, copy, link, rq, reqset, signed, retried, calm,
                   misused>>

\* amqp-recv does not cancel.
HandleSucceeds_NoCancel ==
    /\ Filtered /\ ~setup.auto /\ ~(setup.once /\ idx >= 1)
    /\ HandledAgain
    /\ idx' = IF setup.once THEN idx + 1 ELSE idx
    /\ Goto("ack")
    /\ UNCHANGED <<setup, declared, copy, link, gctx, rq, reqset, signed, retried, calm, misused>>

\* TransactFunc; amqp-recv has written the message to its output, and cancels.
HandleSucceeds ==
    /\ Filtered /\ ~setup.auto /\ ~(setup.once /\ idx >= 1)
    /\ HandledAgain
    /\ IF setup.once THEN idx' = idx + 1 /\ gctx' = "done" ELSE UNCHANGED <<idx, gctx>>
    /\ Goto("ack")
    /\ UNCHANGED <<setup, declared, copy, link, rq, reqset, signed, retried, calm,
                   misused>>

\* The user's function returns an error; amqp-recv's does above its limit.  The
\* sink may have its first deliveries before it has its requeue.
HandleFails ==
    /\ Filtered /\ ~setup.auto /\ (setup.once => idx >= 1)
    /\ Goto(IF reqset THEN "requeue" ELSE "nack")
    /\ UNCHANGED <<setup, declared, copy, connVars, history>>

Ack ==
    /\ sink = "ack"
    /\ Settle(Settled("acked", copy[cur].msg)) /\ Goto("select")
    /\ UNCHANGED <<setup, gctx, idx, reqset, signed, handled, retried, calm>>

\* Without a limit nothing is promised of the number.
GivenBack == retried' =
    IF link = "up" /\ setup.retries >= 0
      THEN [retried EXCEPT ![cur] = Again(@, setup.retries + 2)] ELSE retried

\* msg.Nack(false, true): the message is in its queue as it was.  x-death does
\* not count that; for a sink that has no requeue it is the only way.
Nack ==
    /\ sink = "nack"
    /\ Settle([copy[cur] EXCEPT !.state = "ready"]) /\ Goto("select")
    /\ IF setup.requeue THEN UNCHANGED retried ELSE GivenBack
    /\ UNCHANGED <<setup, gctx, idx, reqset, signed, handled, calm>>

\* RequeueWithError and the ack that follows it.
GiveToRequeue ==
    /\ sink = "requeue" /\ link = "up" /\ rq = "on"
    /\ Settle(Routed(Requeued(seen), <<>>, RequeueName, "lost"))
    /\ Goto("select") /\ GivenBack
    /\ UNCHANGED <<setup, gctx, idx, reqset, signed, handled, calm>>

\* ch.Publish fails on the channel of the requeue, which answers with the error
\* and leaves; the channel of the sink still works.
RepublishFails ==
    /\ sink = "requeue" /\ link = "up" /\ rq = "on"
    /\ rq' = "left" /\ Goto("nack") /\ Fails
    /\ UNCHANGED <<setup, declared, copy, link, gctx, idx, reqset>>

\* Requeue sees the context of the program closed.
RequeueAborted ==
    /\ sink = "requeue" /\ gctx = "done"
    /\ Goto("nack")
    /\ UNCHANGED <<setup, declared, copy, connVars, history>>

\* The connection is lost, and with it the channel of the requeue, if that is
\* there to answer.
RequeueFails ==
    /\ sink = "requeue" /\ link = "broken" /\ rq = "on"
    /\ rq' = "left" /\ Goto("nack")
    /\ UNCHANGED <<setup, declared, copy, link, gctx, idx, reqset, history>>

\* ChannelReady of the requeue declares its queue on a channel of its own.
StartRequeue ==
    /\ setup.requeue /\ link = "up" /\ rq = "off"
    /\ rq' = "on" /\ declared' = declared \union {Queue(RequeueName)}
    /\ UNCHANGED <<setup, copy, link, gctx, idx, reqset, sinkVars, history>>

\* HandlerFunc: the sink is registered, then the requeue is created, and then
\* the sink can find it.
SetRequeue ==
    /\ setup.requeue /\ ~reqset
    /\ reqset' = TRUE
    /\ UNCHANGED <<setup, declared, copy, link, gctx, idx, rq, sinkVars, history>>

-----------------------------------------------------------------------------
Init ==
    /\ setup \in Setups
    /\ declared = {} /\ link = "none" /\ gctx = "live" /\ idx = 0
    /\ rq = "off" /\ reqset = FALSE
    /\ copy = [m \in Messages |-> Settled("new", NewMessage(m))]
    /\ sink = "off" /\ todo = <<>>
    /\ cur = NoMessage /\ seen = NewMessage(NoMessage) /\ passed = 0
    /\ signed = {} /\ calm = TRUE /\ misused = FALSE
    /\ handled = [m \in Messages |-> 0] /\ retried = [m \in Messages |-> 0]

Broker  == \E m \in Messages : DelayExpires(m) \/ Push(m)
Faults  == \/ LoseConnection \/ SetupFails \/ Restart \/ Wipe
           \/ RequeueLeaves \/ RepublishFails \/ Interrupt \/ Kill
Program == Connect \/ NextRun \/ StartRequeue \/ SetRequeue
Handler == HandlePlain \/ HandleSucceeds \/ HandleFails
Settling == Refuse \/ Ack \/ Nack \/ GiveToRequeue
SinkStep ==
    \/ Declare \/ DeclareRefused \/ Consume \/ Broken \/ Cancelled
    \/ \E m \in Messages : Receive(m)
    \/ Decide \/ Filter \/ Handler \/ Settling \/ RequeueAborted

Next ==
    \/ \E m \in Messages : Send(m)
    \/ Broker \/ Faults \/ Program \/ SinkStep \/ RequeueFails

SafeSpec == Init /\ [][Next]_vars

(***************************************************************************)
(* Goroutines that can run do run, functions of the user return, the       *)
(* broker delivers, delays expire, the program is started again.  A        *)
(* goroutine of the requeue that has left answers no more (see Transact),  *)
(* so nothing is assumed of RequeueFails.  The select of the sink chooses  *)
(* a context that stays closed some time.                                  *)
(***************************************************************************)
Spec == /\ SafeSpec
        /\ WF_vars(Broker) /\ WF_vars(Connect \/ NextRun)
        /\ WF_vars(StartRequeue) /\ WF_vars(SetRequeue)
        /\ WF_vars(SinkStep) /\ SF_vars(Cancelled)
-----------------------------------------------------------------------------
States == {"new", "ready", "unacked", "client", "taken", "acked", "refused",
           "unrouted", "lost", "gone", "wiped"}

TypeOK ==
    /\ setup \in Setups /\ declared \subseteq Infrastructure \union {Queue(RequeueName)}
    /\ \A m \in Messages :
         /\ copy[m].state \in States
         /\ copy[m].queue \in {<<>>, QueueName, RequeueName, setup.deadQueue}
         /\ copy[m].msg.body = <<m>>
    /\ link \in {"none", "up", "broken"} /\ gctx \in {"live", "done"}
    /\ idx \in 0..1 /\ rq \in {"off", "on", "left"} /\ reqset \in BOOLEAN
    /\ passed \in 0..Len(setup.middleware)
    /\ sink \in {"off", "declare", "select", "decide", "filter", "refuse", "ack",
                 "nack", "requeue"}
    /\ cur \in Messages \union {NoMessage}
    /\ (link = "none") = (sink = "off")
    /\ signed \subseteq Messages /\ {calm, misused} \subseteq BOOLEAN
    /\ handled \in [Messages -> 0..2] /\ retried \in [Messages -> Nat]

(***************************************************************************)
(* README.md, of amqp-recv: "queue name should be defined if persistent    *)
(* required".  A message that has reached the queue of a sink that         *)
(* acknowledges and has a name is handled, refused without a dead letter   *)
(* queue, or still in a queue: connections lost and programs killed at any *)
(* step, and everything declared or gone in between.  The one exception is *)
(* what is in a requeue when the broker restarts.                          *)
(***************************************************************************)
NamedQueueLosesNothing ==
    ~Temporary /\ ~setup.auto =>
        \A m \in Messages : copy[m].state # "lost" /\ (copy[m].state = "gone" => setup.requeue)

(***************************************************************************)
(* The signature of a message is found valid as often as it comes back     *)
(* from a requeue, a dead letter or a lost connection, and only messages   *)
(* that were signed get past a validator to the handler.                   *)
(***************************************************************************)
SignatureSurvives ==
    /\ sink = "filter" => (Valid(seen) <=> cur \in signed)
    /\ \A i \in DOMAIN setup.middleware :
         setup.middleware[i] = "validator" /\ Filtered => cur \in signed

(***************************************************************************)
(* With a requeue no message goes through it more often than the limit     *)
(* allows.  That is what x-death counts, and the count survives everything *)
(* that happens in between: it travels with the headers that Requeue       *)
(* copies, and a message that is given back with Nack (Requeue has failed  *)
(* or was aborted, or the sink has no requeue yet), or by the end of a     *)
(* connection, keeps it.  Those are not counted themselves, so the handler *)
(* may fail more often than that: retried leaves them out.                 *)
(***************************************************************************)
RetriesBounded ==
    setup.requeue /\ setup.retries >= 0 =>
        \A m \in Messages : retried[m] <= setup.retries + 1

(***************************************************************************)
(* config.go:65 promises "maximum retries for sink with TransactHandlers": *)
(* with a requeue or without.                                              *)
(***************************************************************************)
RetriesLimited ==
    setup.retries >= 0 =>
        \A m \in Messages : retried[m] <= setup.retries + 1

(***************************************************************************)
(* A delivery is settled once, so the broker never closes the channel of a *)
(* sink that acknowledges; that would reset the connection of all handlers.*)
(***************************************************************************)
NoChannelError == ~setup.auto => ~misused

(***************************************************************************)
(* A message is handled again only if something has failed or the program  *)
(* was interrupted, though amqp-recv cancels its program before it         *)
(* acknowledges; one that is acknowledged automatically is never handled   *)
(* again.                                                                  *)
(***************************************************************************)
HandledOnce == calm \/ setup.auto => \A m \in Messages : handled[m] <= 1

(***************************************************************************)
(* README.md:17 "Will restore all defined infrastructure": once nothing    *)
(* fails any more, a sink that has left is back at its stream with all its *)
(* declarations in the broker, even in a broker that has lost everything.  *)
(* The sink has no requeue it may wait for (Transact), and its declaration *)
(* is one the broker accepts.                                              *)
(***************************************************************************)
Serving == sink = "select" /\ link = "up" /\ Infrastructure \subseteq declared

InfrastructureRestored ==
    <>[][~Faults]_vars =>
        (~setup.requeue /\ Acceptable(Queue(QueueName)) /\ sink = "off" ~> Serving)

(***************************************************************************)
(* The loop of README.md around amqp-recv prints every message of a named  *)
(* queue that is not refused, one in each run, once nothing fails.         *)
(***************************************************************************)
LoopPrintsAll ==
    <>[][~Faults]_vars =>
        \A m \in Messages :
            setup.once /\ ~Temporary /\ Here(m)
                ~> handled[m] > 0 \/ copy[m].state \in {"refused", "wiped"}
===============================================================================
