# A TLA+ development of fluent-amqp

fluent-amqp is a Go library that wraps the streadway AMQP client: it keeps one
connection to a broker alive, gives a channel on it to every registered handler
(publishers, sinks, requeues), buffers outgoing messages, retries failed ones
with a delay, and builds RPC on top. `cmd/` holds three programs that use it.

This directory holds TLA+ models of that code, TLC configurations that check
them on small instances, and TLAPS proofs that hold for every value of the
constants. `PROJECT.json` is the index: components, runs, mutants, the map from
each definition to the lines it models, findings, hazards and theorems. Source
paths below are relative to `src/`.

    tlc -workers 2 -config MCServer.cfg MCServer     # model-check a run
    tlapm ServerProofs.tla                           # check a module of proofs

Contents

1. The system: components, state, operations, what is hard
2. The modules, and how they correspond to the code
3. What the runs check, their bounds, and fairness
4. What is proved, and how
5. Where the code and its documentation disagree
6. Behaviour that the models have and no property forbids
7. What is not modelled, and the plan


## 1. The system

| component | source | state it keeps | operations |
|---|---|---|---|
| outgoing message queue | `internal/message_queue.go` | list under an RWMutex, `notify` channel of capacity 1, lazily created | `Put` (any goroutine); `Len`, `Peek`, `Commit` (the publisher) |
| server | `amqp.go` | context, slice of handlers under a lock, `refreshHandlers` of capacity 1, `done` | `start` with its states, `handle`, `streamHandlers`, a goroutine per handler, `WaitToFinish` |
| broker configuration | `config.go` | URLs, intervals, defaults of sinks | setters before `Start` |
| writer and publisher | `writer.go` | the queue, the overflow flag, Done and Try channels of messages | `Publish`, `PublishWait`, `Send`, `TrySend`; `ChannelReady` |
| sink | `sink.go`, `middleware.go` | its configuration, the delivery in hand | `HandlerFunc`, `TransactFunc`, `ChannelReady` |
| requeue | `requeuer.go` | channel of requests of capacity 1 | `Requeue`, `RequeueWithError`, `ChannelReady` |
| RPC | `rpc.go` | map from correlation id to reply channel, under a lock | `Raw` and its wrappers, `onMessage`, the release goroutine, `Reply` |
| signing | `certs.go` | keys | signer and validator, middlewares |
| header helpers, `SignalContext` | `utils.go` | none | conversions |
| amqp-exec | `cmd/amqp-exec/main.go` | a child process and its pipes | `Handle`, `send`, `runApplication`, `runMultiLineApplication` |
| amqp-recv | `cmd/amqp-recv/main.go` | a sink, the number of messages handled | `limited.Handle`, `run` |
| amqp-send | `cmd/amqp-send/main.go` | one message | `run`: sign, `PublishWait` |

How they interact. The server runs on one goroutine and walks through READY,
CONNECTION_ESTABLISHED, CHANNELS_CREATED, DISCONNECTED and IDLE (`amqp.go:76-141`).
On each connection a streamer offers the handlers one by one, and each gets a
goroutine that opens a channel and calls its `ChannelReady(ctx, ch)`. The first
goroutine that ends closes the context of the connection, which ends the others;
a wait group holds the server until all have. Application goroutines reach a
publisher through the queue, a sink reaches its requeue through a channel, a
sink reaches RPC callers through reply channels, and everything reaches the
broker through the client library.

What is hard here, and what makes each component correct:

* **Queue.** `Put` signals after it has unlocked, with a send that is dropped
  when `notify` is full; `Peek` looks at the list before it sleeps; `initOnce`
  tests without the lock. Correct: no lost wakeup, no lost message, `Commit`
  removes what `Peek` returned, `Len` does not overstate.
* **Server.** Registration races the streamer (one side without the lock), the
  loss of a connection races its replacement, shutdown races everything.
  Correct: one goroutine per handler, none outlives its connection, no
  registration is missed, one end ends all, shutdown completes.
* **Publisher.** Connections end between any two of: publish, tell the caller,
  commit. Correct: written once and in order, callers are told the truth and
  are told once, overflow reports are neither stale nor missing.
* **Sink and requeue.** Two goroutines and the broker hand a message around
  while connections are lost and given up. Correct: never lost, never
  acknowledged before its copy is safe, duplicated only if something failed,
  settled in the end.
* **Sink and broker.** What a sink declares, and in which order, decides where
  messages go; connections end between two declarations, brokers restart or
  start empty, deliveries are pushed to a sink that wants one only. Correct: a
  queue with a name loses nothing, everything declared comes back, a delivery is
  settled once, retries are bounded, a message is handled once in calm.
* **Signing.** The signature is a header of a message that is copied, delayed
  and dead-lettered. Correct: it is valid as often as the message comes back,
  and nothing unsigned passes a validator.
* **RPC.** Replies race callers, duplicates and the shutdown. Correct: each
  reply channel is used once, replies reach their calls, everybody is released.
* **amqp-exec.** Child, copier, waiter, scanner and publisher wait for each
  other over bounded pipes. Correct: no line is dropped, failures are retried,
  nobody waits in a circle.

`PROJECT.json` lists the hazards one by one, at their lines.


## 2. The modules

Each abstract module says what its users may rely on; a detailed module is shown
to implement it, and the modules above use the abstract one.

    Mailbox    <- MessageQueue      used by Publisher (its queue is a sequence)
    Lifecycle  <- Server            used by Transact and Rpc (INSTANCE Lifecycle)
    Outbox     <- Publisher         used by Rpc and Exec (a request is written, once)
    Transact   sink + requeue + broker, on Lifecycle
    Rpc        callers + reply sink + writer, on Lifecycle
    Exec       a TransactFunc handler; the sink around it is Transact
    Envelope   what a message carries: operators, used by Delivery
    Delivery   configuration, declarations, broker, sink, and the program in a loop

A definition `X_Variant` that follows or precedes `X` is what a plausible bug
would make of `X`; each property is violated by such a variant (`mutants` in
`PROJECT.json`). The variants are not part of the specifications.

### MessageQueue, Mailbox

One step per critical section (they only touch the list and never block), and
one for each thing done outside the lock. `pc[t]` is the place of goroutine `t`:
`check` and `create` are `initOnce`, `body` the critical section, `signal` the
send of `Put`, `wait` the select of `Peek`. `notify` counts the tokens in the
channel. `hand` is what `Peek` has returned, `seen` the last `Len`.
`CloseContext` and `NewContext` are the context of one connection and the next.
`Mailbox` is a FIFO buffer with one consumer that holds a message in hand while
it works on it, and that may find its context closed at any time. It is met from
both sides: `MessageQueue` implements it, and `Publisher`, whose queue is a
sequence, uses it (`Box`).

### Server, Lifecycle

`srv` is where `start()` is; `streamer`, `sent`, `target` and `offered` are the
locals of `streamHandlers`; `creating`, `running` and `leaving` count, per
handler, its goroutines in `createChannel`, in `ChannelReady`, and between
`closer()` and `wg.Done()`. `conn` is `lost` when the library has noticed that
the connection is gone. With `RacyAppend`, `handle()` stores the new length of
the slice before the new element, which the build may do because the streamer
reads the slice without the lock: the streamer may then read `Nil`. A nil
handler panics, and the process with it. `ChannelReady` is left open: it may
return at any time. `MustReturn` says when it has to: when its context is closed
or, for `Watchers` (sinks), when the connection is lost. `Retriers` are the sinks
with a requeue. One that is in `asking` is inside `Requeue` (`requeuer.go:105`)
and sees neither its context nor its connection; it comes back when the requeue
answers, which it need not do, or when the application ends (`RequeueAnswers`).
`Lifecycle` has the states that `amqp.go` documents and the channels open in
them.

### Publisher, Outbox

`pub` is where `ChannelReady` is in its loop; `closed` and `answer` are the Done
and Try channels; `written` and `refused` say what has become of a message since
it was last accepted. `kind` says how it was sent; `verdict` what the call
returned. A member of `Messages` is a message and its call; it is used again
after both are over. `link` is `broken` once the library has noticed. "Written"
means that `ch.Publish` has returned nil: the code asks for no confirms, so
nothing more can be promised. A message in `poison` is one that the library
cannot encode: `ch.Publish` fails with it on a channel that works. `Outbox` is:
accepted in an order, written in that order and once, only `TrySend` may be
refused.

### Transact

Broker: `copy[c]` is one copy of a message: `ready`, `unacked`, `delayed` (in
the requeue queue), with its x-death count and whether it survives a restart.
Unacknowledged copies go back with their channel; a delay that expires
dead-letters the copy back with its count incremented; a restart keeps what is
persistent. Connection: `link` is `silent` between the loss and its noticing;
what is sent meanwhile goes nowhere and returns nil.

Sink: `select`, `decide` (retry limits and middleware, `sink.go:352-389`),
`handle`, then `ack`/`nack` or the two selects of `Requeue`, `offer` and
`await`. `refuse` is the Nack of a message that is not kept. The handlers that
the user may set (OnExpired, OnTooMuchRetries, middleware) are nondeterministic.
Requeue: `select` and `publish`; `box` is `s.messages`, `taken` the request being
published, `awaited` says whether the sender still waits for the answer; a
sender that has given up leaves its request behind, and it is published later.
`reqset` follows `HandlerFunc`: the sink is registered before the requeue, and
finds the requeue in its configuration only after that. `calm` is a history
variable: nothing has failed or been cancelled so far.

### Envelope, Delivery

Transact looks at the goroutines between a delivery and its ack, for one kind of
sink; Delivery looks at the whole way of a message for many kinds of sinks, with
a connection that ends in one step together with its sink, and a `Requeue` that
succeeds and the ack that follows as one step. So there is one copy of each
message; the second one, of a request that its sender has given up or of an ack
that got lost, is Transact's subject.

Envelope is the data: `NewMessage` is what a writer builds, `Signed` and `Valid`
the signer and the validator, `Requeued` the copy that `Requeue` makes (field by
field, without the delivery mode), `Died` what the broker writes into x-death,
`Redelivered` and `RestoredKey` what the sink reads there. x-death is the set of
its entries, one for a queue and a reason, and the newest of them: the sink reads
the first one only, so the order of the others is left out. A body and an id are
sequences of bytes, and what is signed is one after the other; a name is a
sequence of its parts.

Delivery builds configurations with the setters of `SinkConfig` and those of the
programs from them: `ExecSink`, `RecvSink`, `TestSink`, `SampleSink`. `setup` is
the one of the behaviour, chosen in `Init` from `Setups`. `declared` is what the
broker has, a set of exchanges, queues and bindings; `todo` the declarations
that `ChannelReady` still has to make, in the order of `sink.go:298-331`;
`copy[m]` where the only copy of a message is, and its envelope. `Routed` sends
a message through what is declared at that moment. A message that reaches no
queue is `unrouted` when it is sent, and `lost` when it is dead-lettered or
returned. `sink` follows `ChannelReady`: `declare`, `select`, `decide` (limits),
`filter` (one middleware at a time, `passed` of them done), then `ack`, `nack`,
`requeue` or `refuse`. `Settle` is what the broker does with an ack or a nack:
of a delivery it does not wait for, it closes the channel (`misused`).

`reqset` is, as in Transact, the requeue in the configuration of the sink; until
`HandlerFunc` has stored it a failed message is given back with Nack. `rq` is the
requeue's goroutine on this connection: `off`, `on`, or it has `left`. It leaves
when its channel or its queue is refused, or with another handler
(`RequeueLeaves`), and when the broker refuses the copy (`RepublishFails`), and
closes the context of the connection. `Requeue` gives an error when the copy is
refused, when the connection is lost before the requeue has left (`RequeueFails`)
or when the program is asked to end (`RequeueAborted`); of a requeue that has left
it gets no answer. After an error the sink gives the message back with Nack, on
its own channel, which may still work. `Interrupt` is `SignalContext` (`utils.go:10`). At its end a copy is `acked`
or `refused`; `gone` is what a restart of the broker took because it was not
persistent, `wiped` what went with the whole broker.

`once` marks the handler of amqp-recv: `idx` is `limited.idx`, and success
cancels the context (`gctx`) before the delivery is acknowledged. `NextRun` is
the shell loop of README.md that starts it again when `WaitToFinish` has
returned; `Kill` starts it again at any moment on a connection. `Wipe` replaces
the broker by an empty one between two connections.

### Rpc

`call[c]` follows `Raw` and the reading of the `Reply`; `correlation`,
`buffered` and `closed` are the map and the reply channels; `sink` follows
`onMessage`; `release` the goroutine of `BuildRPC`. Requests are answered up to
`MaxReplies` times or never, in any order, and replies get lost.

### Exec

`handle` follows `Handle`; `child`, `copier` (the goroutine of os/exec that
reads the child's output) and `closed` (the goroutine that waits and closes the
pipe) are the others. Lines are counted: `out` printed, `copied` written by the
copier, `scanned` returned by the scanner, `sent` given to the publisher. Line
`long` is longer than a `bufio.Scanner` takes. Outside of --multiline the same
variables describe `cmd.Run` and its buffer.


## 3. The runs

Twelve runs; eight pass, four show a disagreement (section 5). States are
distinct states; each run takes about two minutes at most.

| run | instance | what it shows |
|---|---|---|
| `queue` (35 000 states) | 2 producers, 2 messages each, 1 consumer | types, `NoLostWakeup`, and that the queue implements `Mailbox` with its liveness |
| `server` (59 000) | a sink with a requeue and another handler, 2 URLs, 2 connections, racy append | types, `NothingOutlivesConnection`, `OneGoroutinePerHandler`, `Lifecycle`, and three liveness properties |
| `publisher` (101 000) | 2 messages used again and again, any of them poison, overflow at 2 | types, `VerdictIsTrue`, `SettledOnce`, `BacklogReported`, `OverflowReportsAreTrue`, `Outbox`, `CallersReturn` |
| `transact` (880 000) | 2 messages, 3 copies, requeue, limit 0, connections lost and channels refused anywhere | types, `NothingLost`, `CopyBeforeAck`, `NoDuplicates` |
| `transact_live` (82 000) | 1 message, 2 copies, with and without a requeue, limit 0, threshold 1, filtering, faults, broker restarts, other handlers | `EventuallySettled`, `ShutdownCompletes`, `PlainSinkRecovers` |
| `rpc` (60 000) | 2 calls, 2 replies each | types, `ChannelsUsedOnce`, `FirstReplyArrives`, `ReadersReleased` |
| `exec` (7 000) | 4 lines, a pipe of 2, any of them too long | types, `NoLineDropped`, `WholeOutputIsOfSuccess`, `NobodyWaitsForever` |
| `delivery` (313 000) | 2 messages, 8 sinks (below), every fault | types, `NamedQueueLosesNothing`, `SignatureSurvives`, `RetriesBounded`, `NoChannelError`, `HandledOnce`, `InfrastructureRestored`, `LoopPrintsAll` |
| `transact_stuck`, `transact_restart`, `exec_failure_acked`, `delivery_retries` | smaller | the violations of section 5 |

### Bounds, and why they are enough

* Queue: two producers are needed to race `initOnce` and `notify` with each
  other and the consumer; two messages each let the list be empty, of one and
  of several, and let a token be stale. Safety is proved without the bound.
* Server: a sink and another handler register concurrently and one can end the
  other, also while the sink is inside `Requeue`; two
  connections give an old goroutine the chance to meet a new connection. After
  `MaxConns` connections dialling only fails, which the code allows; liveness
  is checked with that. Safety is proved for any number.
* Publisher: with two messages the queue is empty, below and at the limit, and a
  message can be sent again while the other is in hand. There is no bound on
  steps: losses, reconnections and sends go on for ever.
* Transact: the third copy is one more than the messages, because a copy that is
  published after its sender gave up exists beside the original. When no copy is
  free, one more of a message that waits already is merged with the one that
  waits (`Merged`): the instance has no room for two, and no property but
  `NoDuplicates` tells them apart; that one speaks of calm behaviours, in which
  no request is given up and the bound is not reached. Counts stop above the
  limits (`MaxCount`), as no comparison tells larger ones apart. The limits 0,
  and 1 in `transact_restart`, are the boundary; a larger limit only repeats the
  loop.
* Rpc: two calls for the map, two replies for duplicates.
* Exec: the pipe is smaller than the output, so that the child blocks; four
  lines let a chunk hold several, and one of them end the scanner in the middle.

* Delivery: the eight sinks are amqp-exec's with a name (limit 1, bound to no
  exchange, which the program allows) and without a name (limit 0), the test's
  (dead letters and a requeue, limit 0), one without limit and with a middleware
  of the user, the example's, amqp-recv's with a name and without, and an
  auto-acknowledged one; between them they take every branch of
  `ChannelReady` and of `TransactFunc`. With two messages one is in work while
  the other is pushed, waits, or dies. `MaxCount` stops x-death counts above the
  limits. `MaySign`: senders sign or not where the sink validates; elsewhere
  nobody looks. `Again`: histories stop counting at the first value that a
  property excludes. `CountEnds`: after a fault `handled` is forgotten for the
  sinks of which nothing is promised then. `GivenBack`: without a limit retries
  are not counted. There is no bound on faults.

The queue is checked for deadlock: its context is closed and renewed for ever.
The other configurations set `CHECK_DEADLOCK FALSE`, since those systems may
stop. A server that has finished, a child that prints nothing and a process that has
panicked have no step left; that nothing stops too early is what the liveness
properties are for. Symmetry (`transact` only) is over the copies, which no
property of that run names; no liveness is checked with it.

### Fairness

* Every goroutine that can take a step takes one: weak fairness of its steps,
  what the Go scheduler gives. Nobody has to call a method, register a handler,
  print a line, lose a connection or close a context.
* A select with a closed context among its cases chooses among the ready ones at
  random: taken again and again, it chooses the context some time. This is
  strong fairness of that case only: `IdleAborted`, `StopStreaming` and the
  return of a handler that must in Server, `SinkCancelled`, `RequeueCancelled`
  and the `Finish` of the shutdown in Transact, `Finish` and `SinkLeaves` in Rpc,
  `Cancelled` in Delivery.
* Functions of the user return; the broker delivers and lets delays expire; a
  lost connection is noticed, by the heartbeat of 10 s (`amqp.go:163`).
* That connections stop being lost, or that the broker can be reached, is never
  fairness: where a property needs it, it is its premise (`NetworkSettles`,
  `<>[][~DialFails]_vars`, `<>[][~Faults]_vars`, `calm`).
* Nothing is assumed of the answer of a requeue whose goroutine has left
  (`RequeueFails` in Delivery, `RequeueAnswers` in Server before the shutdown): by
  `transact_stuck` it may never come. `InfrastructureRestored` is therefore
  stated for sinks without a requeue, and `EndsAreNoticed` has the premise
  `[]<>(r \notin asking)`, that no sink stays in `Requeue` for ever: it is needed,
  without it TLC finds a sink that holds a lost connection. `ShutdownCompletes`
  has no such premise.
* That a publisher whose context is closed returns in the end assumes that its
  queue runs empty some time (section 6).
* `ReadersReleased` in Rpc uses that a server which is shut down finishes, the
  property `ShutdownCompletes` of Server.


## 4. The proofs

TLAPS checks the following for any sets of producers, handlers, messages and
calls, and any bounds, from the named assumption of each module (constants have
their types, "none" values are not members of the sets).

| module | theorems |
|---|---|
| `MessageQueueProofs` | `TypeCorrect`, `LostWakeupFree`, `CommitRemovesPeeked`, `LenNeverOverstates`, `QueueRefinesMailbox` (safety) |
| `ServerProofs` | `TypeCorrect`, `WaitGroupHolds`, `NoOverlap`, `NoRegistrationLost`, `LockedReadSuffices`, `ServerRefinesLifecycle`, `NeverWedged` |
| `PublisherProofs` | `TypeCorrect`, `VerdictsTrue`, `SettlesOnce`, `OverflowKnown`, `ReportsTrue`, `PublisherRefinesOutbox`, `PublisherUsesMailbox`, `NoCallerForgotten` |
| `RpcProofs` | `TypeCorrect`, `ChannelsSafe`, `RepliesArrive`, `NoReaderForgotten`, `RawIsNotReleased`, `RpcFollowsLifecycle`, `ReadersAreServed`, `ClosedMeansUnanswered` |
| `ExecProofs` | `TypeCorrect`, `NothingCutOff`, `WholeSucceeds`, `NoCircularWait` |
| `TransactProofs` | `TypeCorrect`, `RequeuedBeforeAck`, `MessagesAreKept` (no broker restart), `RestartsAreHarmless` (no requeue), `RetriesDuplicateNothing`, `StuckUntilShutdown`, `TransactFollowsLifecycle`, `NoOtherDeadlock`, `ShutdownIsNotHeld` |
| `DeliveryProofs` | `SettlesOnce`, `NothingIsLost`, `NotHandledAgain`, `SignaturesSurvive` |
| `RetriesProofs` (Delivery) | `RetriesAreBounded` (dead letters go elsewhere), `TypeCorrect`, `ServesWhatItDeclares`, `NoWayBack`, `SinkNeverIdles` |

Each module has an inductive invariant `IInv` and three kinds of facts:
`Init => IInv`, `IInv /\ [Next]_vars => IInv'`, and `IInv` implies the property;
the last step of a theorem is propositional temporal logic.

**Queue.** None of the properties is inductive alone. `CreatedBeforeUse`: a
goroutine past `initOnce` finds the queue created, and before it is created the
list is empty and nothing is in hand, so the second test under the lock is what
keeps `CreateOnce` from wiping the list. `ConsumerProtocol`: the consumer never
signals, waits only in `Peek`, and commits only with something in hand, so
`hand` stays in front. `NoLostWakeup` is then inductive because a list grows
only by a step that ends in `signal`, and the token goes away only by a step
that leaves `wait`. Refinement maps puts to `PushBack`, commits to
`RemoveFront`, everything about `initOnce` and `notify` to stutters.

**Server.** `SliceOK`: the slice has no handler twice, and an element that is
still `Nil` is the last one, of the handler that is storing it.
`StreamerBounds` and `OnlyStreamedRun`: the handlers with a goroutine are among
the first `sent` of the slice, so `Spawn` starts one that has none (`NoOverlap`).
`Phases`: goroutines exist only while established or draining; `Disconnect`
waits for them. `TokenOwed` strengthens `NoMissedHandler` to the states in which
the streamer is still offering: the token must be owed as soon as the slice
outgrows the length the streamer has read. `LockedReadSuffices`: without the
racy append (section 6) only handlers run, so a lock in `streamHandlers` is a
sufficient repair.

**Publisher.** `HandIsFront`: no message is in the queue twice, and the one in
hand is its front. `Untouched`: a queued message is not settled, except for the
signals of the one in hand that precede `Commit`. `SignalsAreTrue`: a closed
Done, or a nil in Try, is of a written message; an error in Try of a refused
one. `MeasuredIsThere`: between `Len` and the comparison the queue only grows.
Refinement: a message leaves the backlog of the outbox when `ch.Publish` takes
it, not at `Commit`; after it only the signals and `Commit` follow, and no step
of the connection can prevent them. `PublisherUsesMailbox` is the assumption that
`QueueRefinesMailbox` is a guarantee for: the publisher asks only when it has
nothing in hand, commits what it was given, and comes back with nothing
(`ConsumerTidy`).

**Rpc.** `Phases`: the release goroutine runs when the server has finished, and
then no sink runs. `Wire`: a reply is only of a request that was written, which
was registered before. `Table`: what has an entry has not been looked up, and
the other way round; this is what keeps the two that use a reply channel outside
of the lock apart. `NoReaderForgotten` is the safety of `ReadersReleased`: when
the release goroutine is done, each request that was written has been looked up
or its channel is closed (`EndInv`), the one that was looked up is answered, and
nothing is written any more. `RawIsNotReleased` proves what section 6 says of a
caller inside `Raw`. `RpcFollowsLifecycle` and `TransactFollowsLifecycle` close a
gap: the two modules step the server themselves, through `INSTANCE Lifecycle`,
and every one of their steps is a step of it or a stutter, as every step of
`Server` is (`ServerRefinesLifecycle`).

**Exec.** `Flow`: no stage of a line is ahead of the one before it. `Stages`:
the pipe is closed after the copier is done, the copier is done after the child.
`Ended`, `WholeOutput` and `SentBound`: what `Handle` knows when it leaves its
loop.

**Transact.** `ConnOK`: the sink and the requeue have channels exactly while they
run, and no connection ends before both have left, so `link` becomes "up" only
with both off. `HandOK`: the copy in hand is unacknowledged and of an arrived
message as long as the link is up. `RequestOK`: a request that is awaited is of
the delivery in hand, is in one place, and has no answer yet; it is what keeps
the answer to a request that was given up from being taken for a newer one.
`AnswerOK` strengthens `CopyBeforeAck` to the moment before the sink has read
the answer. For `NothingLost`, `HeldSteps` says of every step what becomes of a
held copy: it stays, another copy of its message stays, or the message is
settled; a broker restart is the one step that does worse, hence the assumption
`~Restarts` (without it `transact_restart` is a counterexample). That the restart
harms only by the copies of the requeue is `RestartsAreHarmless`: where no sink
has one (`TRUE \notin Setups`) every copy is durable (`NoRequeue`), and nothing is
lost, restarts included. `StuckUntilShutdown` is the state that `transact_stuck`
finds: it is left only when the context is closed, for any instance, since the
connection cannot be replaced while the sink runs. For `NoDuplicates`,
`CalmOK`: while nothing fails nobody gives up a request, so what the requeue
publishes is a copy of the delivery in hand, which is then acknowledged.

**Delivery.** Four invariants, each on top of `IInv`. `HeldByUs` in `IInv`: a
delivery in work on a sink that acknowledges is unacknowledged as long as the
link is up; so each `Settle` is the first one. `NamedInv`, of a sink with a name
and acknowledgements: what `ChannelReady` has still to declare and what the
broker has are together its `Declarations`, so a dead letter or a requeued copy
has a queue from the first delivery on; declarations go away only with `Wipe`,
which finds no connection and takes the copies too; a delayed copy has a queue
to come back to; only a requeue makes copies that a restart loses. `OnceInv`: a
message that was handled is at its end or between its handler and its ack, and
`CalmLink` shows that nothing but a fault or an interruption comes in between:
amqp-recv has no requeue (`WellConfigured`), and what cancels its sink is its own
handler. `SignedInv`: each
copy, and each delivery, has the id and body it was sent with and the signature
of exactly those if its message is in `signed`; what the loop over the
middlewares has passed was found valid. The configurations are those of
`SetupsAssumption`: no bindings to the exchange "", which AMQP refuses, and a
dead letter exchange comes with a key that is not the requeue's queue. Without
the key a rejected message keeps its own, which nothing binds.

`CommitRemovesPeeked`, `LenNeverOverstates` and `NoRegistrationLost` are parts of
these arguments that no run states by itself: the first two follow from what
`ImplementsMailbox` checks, the third from `RegisteredGetsChannel`.

**Retries.** `RetriesBounded` is not inductive: it compares a history variable
with a constant, and what bounds `retried` is a header that travels with the
message. `Counting` says of a copy how the two are related: in the queue of the
sink `retried` is at most the count in the x-death entry of the requeue's queue,
and this entry is the newest, so it is the one that `getRedelivery` reads; in the
requeue's queue it is at most one more, and the count is within the limit. Only
the end of the delay writes that entry (`ExpiredTries`), a dead letter leaves it
as it is (`RejectedTries`), and `Requeue` copies it. A message that is given back
with Nack, because `Requeue` has failed or was aborted or is not there yet, keeps
entry and count (`BackCounting`), so these steps may happen any number of times.
The theorem bounds what goes through the requeue, and not how often the handler
fails: the Nacks are not counted by the broker, nor by `retried` (section 6).
`SeenOK`: the sink holds the envelope of the copy it has, and was let past the
limit by it. `DeclaredFrom` says that what
the broker has is of the configuration or the requeue's queue, so it is known
where a message can go.

The theorem has a hypothesis, `Fits`, of a sink with a requeue and a limit. The
limit is below `MaxCount`, the bound of the model's counters. And dead letters do
not come back to the sink (`DeadLettersLeave`): the key of `DeadLetter` is not the
sink's own queue, and the sink is not bound to the dead letter exchange with that
key. This is needed: with `DeadLetter("x", <queue>)` the refused message is back
with an entry for the refusal as the newest, whose count starts at 1, and TLC
finds `RetriesBounded` violated; the code (`sink.go:400`) reads the first entry
whatever its queue is. The configurations of the repository all fit, and the
run's `Setups` too.

The other theorems of this module need no hypothesis. `TypeCorrect` uses
`DeclaredFrom` (`TargetsPlaces`: every queue that routing can choose has one of
three names) and `SignedInv` for the bodies. `ServesWhatItDeclares` is the safety
of `InfrastructureRestored`: what is not declared on a connection that is up is
still in `todo`, and there are no deliveries before that is empty. `NoWayBack`
says that a message at its end is never in a queue again.

**What liveness rests on.** Fairness helps only a step that somebody can take, so
the safety under each promise of progress is that somebody can. It is a theorem
for every component, with the guards of the actions written out as conditions
(`...Ready`), since `ENABLED` is out of the prover's reach:

| theorem | under the property | what is proved |
|---|---|---|
| `LostWakeupFree` | the fairness in `ImplementsMailbox` | a parked consumer with a message in the list has a token, or a producer will leave one |
| `NeverWedged` | `ShutdownCompletes`, `EndsAreNoticed` (Server) | `start()`, the streamer or a goroutine can go on; or the connection is up with nothing to do (`AtRest`); or it has ended and all that is left of it are sinks inside `Requeue` (`Held`, the state of `transact_stuck` and the reason for the premise of `EndsAreNoticed`). After the shutdown it is neither |
| `NoCallerForgotten` | `CallersReturn` | whoever is in `PublishWait` or `TrySend` may return, or its message is queued and the publisher is off or can go on; the signal comes before `Commit` (`SignalFirst`) |
| `NoOtherDeadlock`, `ShutdownIsNotHeld` | `EventuallySettled`, `ShutdownCompletes` (Transact) | a transaction can go on, or the requeue can, or it is `Stuck`, and there is no fourth case: `transact_stuck` shows the only deadlock. After the shutdown not even that one holds the server |
| `ReadersAreServed`, `NoReaderForgotten` | `ReadersReleased` | a reader has an entry, its reply or the end of its channel, or `onMessage` holds the reply; none has only an entry when the release goroutine is done |
| `NoCircularWait` | `NobodyWaitsForever` | `Handle`, the copier, the goroutine that closes the pipe or the kill can go on, or a silent child is waited for whose output is read to the end |
| `ServesWhatItDeclares`, `SinkNeverIdles` | `InfrastructureRestored`, `LoopPrintsAll` | the sink, the program or the broker can go on, or the sink serves an empty queue, or it waits for a requeue that has left or whose connection is gone (`Forsaken`, the case of Transact), and this only until the program is asked to end. `OnePerRun`: amqp-recv is cancelled when it has handled a message, or else from outside, and gives messages back only then, so its limit never costs a run that has printed nothing |

Each needs a fact that the property does not mention: `AskOK`, that while the
context is live every request is awaited by the sink that has asked; `Attached`,
that a copier that writes has a pipe; `ClosedIsCancelled`, that the streamer
closes its channel only for a cancelled connection. `ClosedMeansUnanswered` adds
to those of Rpc that a reader which is released has lost no reply.

Only model-checked: liveness itself, which includes the fairness of
`ImplementsMailbox` (TLAPS does no fairness here). Every safety property that a
passing run checks is proved. Sequences are reasoned about with the lemmas of
SequenceTheorems; no definition that is proved about is recursive.


## 5. Where the code and its documentation disagree

* **`transact_stuck`** (`requeuer.go:105`). "Reconnectiong. Will restore all
  defined infrastructure" (`README.md:17`). `Requeue` waits for its answer or
  for the context of the broker, not of the connection. When the requeue's
  goroutine has left (its channel was refused, or another handler ended the
  connection), the sink waits for ever, `wg.Wait` with it, and the server never
  reconnects. `PlainSinkRecovers` shows that a sink without requeue always is
  given its connection back, `EndsAreNoticed` that a server is held by nothing
  but a sink that stays in `Requeue`, and `ShutdownCompletes` that the shutdown
  still goes through.
* **`transact_restart`** (`requeuer.go:92`). "Delivery type - persistent"
  (`README.md:49`). The delayed copy is built without a delivery mode, so it is
  transient, and the persistent original is acknowledged: a broker restart
  during the delay loses the message. `NamedQueueLosesNothing` shows that a sink
  without requeue loses nothing, restarts included.
* **`exec_failure_acked`** (`cmd/amqp-exec/main.go:241`). "If exit code is not 0
  then requeue back to AMQP broker with some delay"
  (`cmd/amqp-exec/README.md:8`). With --multiline the result of `cmd.Wait` is
  ignored; the end of the output ends `Handle` with nil, and the delivery of a
  program that failed, or was killed because the connection ended, is
  acknowledged.
* **`delivery_retries`** (`sink.go:235`). "maximum retries for sink with
  TransactHandlers" (`config.go:65`). Without a requeue a failed message is given
  back with `msg.Nack(false, true)`, and the broker writes no x-death entry for
  that: `getRedelivery` returns 0 for ever and the message is retried without
  end and without delay. `RetriesBounded` shows what holds with a requeue: no
  message goes through it more often than the limit allows. Messages that are
  given back around it are not counted there either (section 6).


## 6. Behaviour that the models have and no property forbids

Met while modelling; nothing in the code or its documents clearly promises
otherwise.

* The streamer reads the slice of handlers without `handlersLock`
  (`amqp.go:194`), while `handle()` appends under it. It may see the new length
  before the element and start a goroutine for a nil handler, which panics. (In
  Server with `RacyAppend`: `OnlyHandlersRun` does not hold.)
* A caller inside `Raw` waits for the Done channel of its request (`rpc.go:64`);
  after the shutdown no publisher closes it, and the release goroutine, which
  means to "release all reasources" (`rpc.go:34`), closes reply channels only.
  (In Rpc a call in `sending` has no step left:
  `RawIsNotReleased`.)
* A publisher does not look at its closed context while its queue is not empty
  (`writer.go:101`): `Peek` selects only on an empty list. With writers that
  never pause on a channel that works, it stays after the shutdown. (In
  Publisher, `CancelChild` affects `PeekCancelled` only.)
* `PublishWait` that gives up leaves its message in the queue; sending again
  writes it twice. `TrySend` returns nil when its middleware rejects the message.
* A message that the client library cannot encode, and that was not sent with
  `TrySend`, stays in front of the queue: every connection ends with it, without
  end, and no message behind it is written (`Clogged` in Publisher).
* A sink with a requeue, too, has retries that its limit does not count, since
  x-death counts only what comes back from the requeue: a message that fails
  before `HandlerFunc` has stored the requeue (`sink.go:206`), for which the
  requeue's channel refuses the copy, or whose `Requeue` is ended by the shutdown
  is put straight back in the queue with Nack, without a delay; one whose
  connection is lost is put back by the broker. Its handler may so be called more
  often than the limit says. (`HandleFails`, `RepublishFails`, `RequeueAborted`,
  `Returned` in Delivery; `RetriesBounded` leaves them out.)
* A shutdown during `Requeue` gives the message back although its copy may be
  published: a duplicate, in a behaviour that is not calm.
* `Requeue()` on a sink with an autogenerated queue name dead-letters to the
  empty routing key: a retried message is lost after its delay, without any
  fault (`ExecSink(<<>>, 0)`).
* A dead letter that comes back to the queue of its sink starts the limit anew:
  `getRedelivery` (`sink.go:400`) reads the newest x-death entry, which is then
  that of the refusal. (`RetriesAreBounded` excludes it by `DeadLettersLeave`.)
* `restoreRoutingKey` takes the newest x-death entry. After a requeue this is
  that of the requeue queue, so the handler of a retry is given the key
  `<queue>/requeue`; amqp-exec passes it on in its environment.
* The Nack of an expired or filtered message on an auto-acknowledged sink is a
  channel error, and with it the end of the connection (`Settle`, `misused`):
  each invalid message costs `Validate` on such a sink a reconnection.
* `DeadLetter("", key)`, as in `example/cmd/fluent-sample/main.go:23`, leaves
  `x-dead-letter-routing-key` without `x-dead-letter-exchange`: the broker
  refuses the queue, and every connection of the program ends with it.
* amqp-send ends with status 0 when a signal interrupts it before its message is
  published.
* amqp-exec: lines sent before a later one failed are sent again with the retry;
  a line of more than 64 kB ends the scanner, `Handle` returns nil, and the
  child, its copier and its waiter stay until the process ends.
* `Reply.ID` is never set.


## 7. What is not modelled, and the plan

Not modelled, and why:

* Command lines, output formats, logging: no state that anything depends on. The
  builders of a message that only fill a field (`Header`, `TTL`, `Time`, `JSON`,
  `Reply`): nothing in `src/` reads the field again.
* The header helpers of `utils.go`: pure functions that no code in `src/` calls.
* The AMQP handshake and the heartbeat inside the client library: dialling
  succeeds or fails, a loss is noticed some time.
* Keys, certificates and RSA in `certs.go`: they are the standard library's, and
  a signature is the text it signs. Loading a key panics or not before a sink or
  writer exists.
* The broker, the client library, os/exec and the kernel's pipe are external:
  they are modelled as the code in `src/` uses them. A message that is routed to
  several queues is modelled in the one that the sink reads.

Done: MessageQueue, Server, Publisher, Transact, Rpc, Exec, in this order (the
queue and the server carry all others), then Envelope and Delivery; each with
the proofs of all its safety properties.

Proved besides: what the liveness properties rest on (section 4), that every
module that steps the server or the queue does so as their abstract
specifications allow, and that `transact_stuck` is the only deadlock.

Open: the steps from "somebody can go on" to "it ends", which are liveness, and
stay with TLC.
