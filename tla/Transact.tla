------------------------------ MODULE Transact ------------------------------
(***************************************************************************)
(* sink.go and requeuer.go: a sink with a TransactFunc handler, the        *)
(* requeue that gives its failed messages back with a delay, and the       *)
(* broker that holds the messages meanwhile.  Both are handlers of one     *)
(* Server, which appears as the Lifecycle it is shown to implement: they   *)
(* are given their channels by it and it waits for both to return.         *)
(*                                                                         *)
(* The broker is external: what it does with a message is what the AMQP    *)
(* methods the code calls ask of it.  It keeps copies of the messages; an  *)
(* unacknowledged copy goes back to its queue with its channel, a copy in  *)
(* the requeue queue goes back when its TTL expires, with its x-death      *)
(* count incremented.                                                      *)
(*                                                                         *)
(* Definitions named X_... are faulty variants of X, used to see that the  *)
(* properties reject them; they are not part of the specification.         *)
(***************************************************************************)
EXTENDS Integers, FiniteSets

CONSTANTS Origins,         \* messages that arrive in the queue of the sink
          Copies, NoCopy,  \* bound of the model: copies the broker can hold
          Setups,          \* is SinkConfig.Requeue called: FALSE, TRUE or both
          Limit,           \* SinkConfig.retries, negative for no limit
          ExpiredHandler,  \* is OnExpired set
          Threshold,       \* of OnTooMuchRetries, negative if it is not set
          Filtering,       \* may a middleware (a validator) refuse a message
          Faults,          \* may connections be lost, and channels refused
          Restarts,        \* may the broker restart
          Others           \* has the server other handlers, which may return

ASSUME TransactAssumption ==
    /\ NoCopy \notin Copies
    /\ Limit \in Int /\ Threshold \in Int
    /\ Setups \subseteq BOOLEAN
    /\ {ExpiredHandler, Filtering, Faults, Restarts, Others} \subseteq BOOLEAN

Handlers == {"sink", "requeue"}

\* No comparison of the code tells counts above the limits apart.
MaxCount ==
    LET above == (IF Limit >= 0 THEN Limit + 1 ELSE 0)
        at    == (IF Threshold >= 0 THEN Threshold ELSE 0)
    IN  IF above >= at THEN above ELSE at

VARIABLES srv, open,   \* the server: its state, and whose ChannelReady runs
          started,     \* handlers that were given a channel on this connection
          gctx, ctx,   \* contexts of the broker and of the connection
          link,        \* none, up, silent (lost, not noticed) or broken
          copy,        \* what the broker holds
          arrived,     \* origins that have been published to the queue
          handled,     \* origins whose handler has returned nil
          refused,     \* origins refused: dead letters, if there is a queue for them
          sink,        \* where the goroutine of the sink is
          cur,         \* the delivery it works on, and the copy it is
          reqset,      \* requeue: never, absent, registered, set in the config
          rq,          \* where the goroutine of the requeue is
          box,         \* s.messages, a channel of capacity 1
          taken,       \* the request the requeue is publishing
          answer,      \* what the done channel of the sink's request holds
          path,        \* how the sink settles the message in hand
          calm         \* nothing has failed or been cancelled so far

connVars   == <<srv, open, started, gctx, ctx, link, calm>>
brokerVars == <<copy, arrived, refused>>
sinkVars   == <<sink, cur, path, handled>>
rqVars     == <<reqset, rq, box, taken, answer>>
vars == <<connVars, brokerVars, sinkVars, rqVars>>

Life == INSTANCE Lifecycle WITH state <- srv, channels <- open

Free == [at |-> "none", origin |-> NoCopy, count |-> 0, durable |-> FALSE]
NoRequest == [origin |-> NoCopy, count |-> 0, awaited |-> FALSE]
NoDelivery == [copy |-> NoCopy, origin |-> NoCopy, count |-> 0]

Init ==
    /\ Life!Init /\ started = {}
    /\ gctx = "live" /\ ctx = "done" /\ link = "none" /\ calm = TRUE
    /\ copy = [c \in Copies |-> Free]
    /\ arrived = {} /\ handled = {} /\ refused = {}
    /\ sink = "off" /\ cur = NoDelivery /\ path = "none"
    /\ \E requeue \in Setups : reqset = IF requeue THEN "absent" ELSE "never"
    /\ rq = "off"
    /\ box = NoRequest /\ taken = NoRequest /\ answer = "none"

-----------------------------------------------------------------------------
\* The broker.

Held(c) == copy[c].at # "none"

Put(c, place) == copy' = [copy EXCEPT ![c].at = place]
Forget(c)     == copy' = [copy EXCEPT ![c] = Free]

\* What is left of the copies when the channels of the connection are gone.
Returned == [c \in Copies |->
    IF copy[c].at = "unacked" THEN [copy[c] EXCEPT !.at = "ready"] ELSE copy[c]]

Arrive(o) ==
    /\ o \notin arrived
    /\ \E c \in Copies :
         /\ ~Held(c)
         /\ copy' = [copy EXCEPT ![c] =
              [at |-> "ready", origin |-> o, count |-> 0, durable |-> TRUE]]
    /\ arrived' = arrived \union {o}
    /\ UNCHANGED <<connVars, refused, sinkVars, rqVars>>

DelayExpires(c) ==
    /\ copy[c].at = "delayed"
    /\ copy' = [copy EXCEPT ![c].at = "ready",
                            ![c].count = IF @ < MaxCount THEN @ + 1 ELSE @]
    /\ UNCHANGED <<connVars, arrived, refused, sinkVars, rqVars>>

\* A restart keeps what was published persistent.
Restart ==
    /\ Restarts
    /\ copy' = [c \in Copies |-> IF copy[c].durable THEN Returned[c] ELSE Free]
    /\ link' = IF link = "up" THEN "silent" ELSE link
    /\ calm' = FALSE
    /\ UNCHANGED <<srv, open, started, gctx, ctx, arrived, refused, sinkVars, rqVars>>

-----------------------------------------------------------------------------
\* The server and the connection.

Quiet == UNCHANGED <<brokerVars, sinkVars, rqVars>>

Connect ==
    /\ gctx = "live" /\ Life!Connect
    /\ ctx' = "live" /\ link' = "up" /\ started' = {}
    /\ UNCHANGED <<gctx, calm>> /\ Quiet

DialFails ==
    /\ Faults \/ gctx = "done"
    /\ Life!DialFailed
    /\ calm' = FALSE
    /\ UNCHANGED <<started, gctx, ctx, link>> /\ Quiet

StopStreaming ==
    /\ ctx = "done" /\ Life!StopCreating
    /\ UNCHANGED <<started, gctx, ctx, link, calm>> /\ Quiet

Disconnect ==
    /\ Life!Disconnect
    /\ ctx' = "done" /\ link' = "none"
    /\ copy' = Returned
    /\ UNCHANGED <<started, gctx, calm, arrived, refused, sinkVars, rqVars>>

Pause ==
    /\ Life!Rest \/ Life!Retry \/ (gctx = "done" /\ Life!Finish)
    /\ UNCHANGED <<started, gctx, ctx, link, calm>> /\ Quiet

\* conn.Channel, ch.Qos or a declaration of ChannelReady fails: the goroutine
\* closes the child context.
CreateFails(h) ==
    /\ Life!Connected /\ h \notin started
    /\ link = "broken" \/ (link = "up" /\ Faults)
    /\ h = "sink" \/ reqset \in {"registered", "set"}
    /\ started' = started \union {h} /\ ctx' = "done" /\ calm' = FALSE
    /\ UNCHANGED <<srv, open, gctx, link>> /\ Quiet

LoseConnection ==
    /\ Faults /\ link = "up"
    /\ link' = "silent" /\ calm' = FALSE
    /\ copy' = Returned
    /\ UNCHANGED <<srv, open, started, gctx, ctx, arrived, refused, sinkVars, rqVars>>

\* The heartbeat fails, or a read or write on the socket does.
NoticeLoss ==
    /\ link = "silent"
    /\ link' = "broken"
    /\ UNCHANGED <<srv, open, started, gctx, ctx, calm>> /\ Quiet

\* ChannelReady of another handler (a publisher, say) has returned.
OtherReturns ==
    /\ Others /\ Life!Connected /\ ctx = "live"
    /\ ctx' = "done" /\ calm' = FALSE
    /\ UNCHANGED <<srv, open, started, gctx, link>> /\ Quiet

Shutdown ==
    /\ gctx = "live"
    /\ gctx' = "done" /\ ctx' = "done" /\ calm' = FALSE
    /\ UNCHANGED <<srv, open, started, link>> /\ Quiet

-----------------------------------------------------------------------------
\* SinkConfig.HandlerFunc: the sink is registered, then the requeue, and only
\* then does the handler find it in the configuration.

RegisterRequeue ==
    /\ reqset = "absent"
    /\ reqset' = "registered"
    /\ UNCHANGED <<connVars, brokerVars, sinkVars, rq, box, taken, answer>>

SetRequeue ==
    /\ reqset = "registered"
    /\ reqset' = "set"
    /\ UNCHANGED <<connVars, brokerVars, sinkVars, rq, box, taken, answer>>

-----------------------------------------------------------------------------
\* The sink.

\* Its declarations, Consume and the ready callbacks succeed.
StartSink ==
    /\ link = "up" /\ "sink" \notin started /\ Life!ChannelCreated("sink")
    /\ started' = started \union {"sink"}
    /\ sink' = "select"
    /\ UNCHANGED <<gctx, ctx, link, calm, brokerVars, cur, path, handled, rqVars>>

\* ChannelReady returns: its channel is closed, and the child context.
SinkLeaves ==
    /\ Life!ChannelClosed("sink")
    /\ sink' = "off" /\ cur' = NoDelivery /\ ctx' = "done"
    /\ copy' = Returned
    /\ UNCHANGED <<started, gctx, link, calm, arrived, refused, path, handled, rqVars>>

\* A loop that does not look at the second result of the receive.
StreamClosed_Ignored ==
    sink = "select" /\ link = "broken" /\ ctx = "done" /\ SinkLeaves

StreamClosed == sink = "select" /\ link = "broken" /\ SinkLeaves
SinkCancelled == sink = "select" /\ ctx = "done" /\ SinkLeaves

SinkGoto(label) == sink' = label /\ UNCHANGED <<cur, handled>>

\* getRedelivery: the count of the newest x-death entry, or zero.
Delivery(c) == [copy |-> c, origin |-> copy[c].origin, count |-> copy[c].count]

Deliver(c) ==
    /\ sink = "select" /\ link = "up" /\ copy[c].at = "ready"
    /\ Put(c, "unacked")
    /\ cur' = Delivery(c)
    /\ sink' = "decide" /\ path' = "none"
    /\ UNCHANGED <<connVars, arrived, refused, handled, rqVars>>

\* A limit of zero that is taken for "no limit".
Expired_ZeroIsNone == Limit > 0 /\ cur.count > Limit

Expired == Limit >= 0 /\ cur.count > Limit
TooMuch == Threshold >= 0 /\ cur.count >= Threshold

\* Handlers that are set may answer either way.
MayKeep   == ~Expired \/ ExpiredHandler
MayRefuse == Expired \/ TooMuch \/ Filtering

Keep ==
    /\ sink = "decide" /\ MayKeep
    /\ SinkGoto("handle")
    /\ UNCHANGED <<connVars, brokerVars, path, rqVars>>

\* The delivery is let go before it is settled.
Refuse_LetGo ==
    /\ sink = "decide" /\ MayRefuse
    /\ sink' = "refuse" /\ cur' = NoDelivery
    /\ UNCHANGED <<connVars, brokerVars, path, handled, rqVars>>

Refuse ==
    /\ sink = "decide" /\ MayRefuse
    /\ SinkGoto("refuse")
    /\ UNCHANGED <<connVars, brokerVars, path, rqVars>>

\* msg.Nack(false, false): the broker drops the message or moves it to the
\* dead letter queue.
RefuseDone ==
    /\ sink = "refuse" /\ link # "broken"
    /\ SinkGoto("select")
    /\ IF link = "up"
         THEN Forget(cur.copy) /\ refused' = refused \union {cur.origin}
         ELSE UNCHANGED <<copy, refused>>
    /\ UNCHANGED <<connVars, arrived, path, rqVars>>

RefuseFails == sink = "refuse" /\ link = "broken" /\ SinkLeaves

\* The user's function returns nil, or an error.
HandleSucceeds ==
    /\ sink = "handle"
    /\ sink' = "ack" /\ path' = "handled"
    /\ handled' = handled \union {cur.origin}
    /\ UNCHANGED <<connVars, brokerVars, cur, rqVars>>

HandleFails ==
    /\ sink = "handle"
    /\ IF reqset = "set"
         THEN sink' = "offer" /\ UNCHANGED path
         ELSE sink' = "nack" /\ path' = "failed"
    /\ UNCHANGED <<connVars, brokerVars, cur, handled, rqVars>>

\* Requeue that does not wait for the answer.
Offer_Forget ==
    /\ sink = "offer" /\ box = NoRequest
    /\ box' = [origin |-> cur.origin, count |-> cur.count, awaited |-> TRUE]
    /\ answer' = "none"
    /\ sink' = "ack" /\ path' = "requeued"
    /\ UNCHANGED <<connVars, brokerVars, cur, handled, reqset, rq, taken>>

\* Requeue: both of its selects watch the context of the broker only.
Offer ==
    /\ sink = "offer" /\ box = NoRequest
    /\ box' = [origin |-> cur.origin, count |-> cur.count, awaited |-> TRUE]
    /\ answer' = "none"
    /\ SinkGoto("await")
    /\ UNCHANGED <<connVars, brokerVars, path, reqset, rq, taken>>

\* Requeue that acknowledges whatever answer there is.
Answered_Any ==
    /\ sink = "await" /\ answer # "none"
    /\ sink' = "ack" /\ path' = "requeued"
    /\ UNCHANGED <<connVars, brokerVars, cur, handled, rqVars>>

\* The branches of the answer swapped.
Answered_Swapped ==
    /\ sink = "await" /\ answer # "none"
    /\ IF answer = "ok"
         THEN sink' = "nack" /\ path' = "failed"
         ELSE sink' = "ack" /\ path' = "requeued"
    /\ UNCHANGED <<connVars, brokerVars, cur, handled, rqVars>>

Answered ==
    /\ sink = "await" /\ answer # "none"
    /\ IF answer = "ok"
         THEN sink' = "ack" /\ path' = "requeued"
         ELSE sink' = "nack" /\ path' = "failed"
    /\ UNCHANGED <<connVars, brokerVars, cur, handled, rqVars>>

\* Only the first select of Requeue watches the context.
RequeueAborted_OfferOnly ==
    /\ sink = "offer" /\ gctx = "done"
    /\ sink' = "nack" /\ path' = "failed"
    /\ box' = [box EXCEPT !.awaited = FALSE]
    /\ taken' = [taken EXCEPT !.awaited = FALSE]
    /\ UNCHANGED <<connVars, brokerVars, cur, handled, reqset, rq, answer>>

RequeueAborted ==
    /\ sink \in {"offer", "await"} /\ gctx = "done"
    /\ sink' = "nack" /\ path' = "failed"
    /\ box' = [box EXCEPT !.awaited = FALSE]
    /\ taken' = [taken EXCEPT !.awaited = FALSE]
    /\ UNCHANGED <<connVars, brokerVars, cur, handled, reqset, rq, answer>>

\* msg.Ack(false) and msg.Nack(false, true); a failure is only logged.
Ack ==
    /\ sink = "ack"
    /\ IF link = "up" THEN Forget(cur.copy) ELSE UNCHANGED copy
    /\ SinkGoto("select")
    /\ UNCHANGED <<connVars, arrived, refused, path, rqVars>>

Nack ==
    /\ sink = "nack"
    /\ IF link = "up" THEN Put(cur.copy, "ready") ELSE UNCHANGED copy
    /\ SinkGoto("select")
    /\ UNCHANGED <<connVars, arrived, refused, path, rqVars>>

-----------------------------------------------------------------------------
\* The requeue.

StartRequeue ==
    /\ reqset \in {"registered", "set"} /\ link = "up"
    /\ "requeue" \notin started /\ Life!ChannelCreated("requeue")
    /\ started' = started \union {"requeue"}
    /\ rq' = "select"
    /\ UNCHANGED <<gctx, ctx, link, calm, brokerVars, sinkVars, reqset, box, taken, answer>>

RequeueLeaves ==
    /\ Life!ChannelClosed("requeue")
    /\ rq' = "off" /\ ctx' = "done"
    /\ UNCHANGED <<started, gctx, link, brokerVars, sinkVars, reqset, box>>

RequeueCancelled ==
    /\ rq = "select" /\ ctx = "done" /\ RequeueLeaves
    /\ UNCHANGED <<calm, taken, answer>>

Take ==
    /\ rq = "select" /\ box # NoRequest
    /\ taken' = box /\ box' = NoRequest
    /\ rq' = "publish"
    /\ UNCHANGED <<connVars, brokerVars, sinkVars, reqset, answer>>

Tell(result) == answer' = IF taken.awaited THEN result ELSE answer

\* The copy is published without the delivery mode of the original.
Delayed == [at |-> "delayed", origin |-> taken.origin, count |-> taken.count,
            durable |-> FALSE]

\* Bound of the model: with no copy left, one more of a message that waits
\* already is taken for the one that waits.
Merged == /\ \A c \in Copies : Held(c)
          /\ \E c \in Copies : copy[c].at \in {"ready", "delayed"}
                                /\ copy[c].origin = taken.origin

Republish ==
    /\ rq = "publish" /\ link # "broken"
    /\ Tell("ok") /\ taken' = NoRequest /\ rq' = "select"
    /\ \/ link = "up" /\ \E c \in Copies :
                           ~Held(c) /\ copy' = [copy EXCEPT ![c] = Delayed]
       \/ (link = "silent" \/ (link = "up" /\ Merged)) /\ UNCHANGED copy
    /\ UNCHANGED <<connVars, arrived, refused, sinkVars, reqset, box>>

\* The connection is lost, or the channel of the requeue was closed.
RepublishFails ==
    /\ rq = "publish" /\ (link = "broken" \/ (link = "up" /\ Faults))
    /\ Tell("error") /\ taken' = NoRequest /\ calm' = FALSE
    /\ RequeueLeaves

-----------------------------------------------------------------------------
Broker == \E c \in Copies : DelayExpires(c)
Environment ==
    \/ \E o \in Origins : Arrive(o)
    \/ Restart \/ LoseConnection \/ OtherReturns \/ Shutdown
Serve == Connect \/ DialFails \/ StopStreaming \/ Disconnect \/ Pause
Registering == RegisterRequeue \/ SetRequeue
RequeueCall == Offer \/ Answered \/ RequeueAborted
Transaction == HandleSucceeds \/ HandleFails \/ RequeueCall \/ Ack \/ Nack
SinkStep ==
    \/ StartSink \/ StreamClosed \/ SinkCancelled
    \/ \E c \in Copies : Deliver(c)
    \/ Keep \/ Refuse \/ RefuseDone \/ RefuseFails
    \/ Transaction
RequeueStep ==
    StartRequeue \/ RequeueCancelled \/ Take \/ Republish \/ RepublishFails

Next ==
    \/ Broker \/ Environment \/ Serve \/ NoticeLoss \/ Registering
    \/ \E h \in Handlers : CreateFails(h)
    \/ SinkStep \/ RequeueStep

SafeSpec == Init /\ [][Next]_vars

(***************************************************************************)
(* Goroutines that can run do run, handlers of the user return, the broker *)
(* delivers and lets delays expire, and a lost connection is noticed (the  *)
(* heartbeat of 10 s).  A select whose context stays closed chooses that   *)
(* case some time, hence the strong fairness.                              *)
(***************************************************************************)
Spec ==
    /\ SafeSpec
    /\ WF_vars(Broker) /\ WF_vars(NoticeLoss) /\ WF_vars(Registering)
    /\ WF_vars(Serve) /\ SF_vars(gctx = "done" /\ Life!Finish /\ Pause)
    /\ WF_vars(SinkStep) /\ SF_vars(SinkCancelled)
    /\ WF_vars(RequeueStep) /\ SF_vars(RequeueCancelled)
    /\ WF_vars(\E h \in Handlers : CreateFails(h) /\ link = "broken")

-----------------------------------------------------------------------------
Places == {"none", "ready", "unacked", "delayed"}

TypeOK ==
    /\ srv \in Life!States /\ open \subseteq Handlers /\ started \subseteq Handlers
    /\ gctx \in {"live", "done"} /\ ctx \in {"live", "done"}
    /\ link \in {"none", "up", "silent", "broken"} /\ calm \in BOOLEAN
    /\ copy \in [Copies -> [at : Places, origin : Origins \union {NoCopy},
                            count : 0..MaxCount, durable : BOOLEAN]]
    /\ arrived \subseteq Origins /\ handled \subseteq Origins
    /\ refused \subseteq Origins
    /\ sink \in {"off", "select", "decide", "refuse", "handle", "offer", "await",
                 "ack", "nack"}
    /\ cur \in [copy : Copies \union {NoCopy}, origin : Origins \union {NoCopy},
                count : 0..MaxCount]
    /\ reqset \in {"never", "absent", "registered", "set"}
    /\ rq \in {"off", "select", "publish"}
    /\ {box, taken} \subseteq [origin : Origins \union {NoCopy},
                               count : 0..MaxCount, awaited : BOOLEAN]
    /\ answer \in {"none", "ok", "error"}
    /\ path \in {"none", "handled", "requeued", "failed"}

(***************************************************************************)
(* TransactFunc acknowledges a message only when it is handled or when its *)
(* copy is safe, and whatever is lost in between is given back: a message  *)
(* that has arrived is in the broker until it is handled or refused.       *)
(***************************************************************************)
NothingLost ==
    \A o \in arrived : \/ o \in handled \union refused
                       \/ \E c \in Copies : Held(c) /\ copy[c].origin = o

(***************************************************************************)
(* The answer that lets the sink acknowledge is the one to this request,   *)
(* not to an older one that was given up: when the ack can reach the       *)
(* broker, the copy is there.                                              *)
(***************************************************************************)
CopyBeforeAck ==
    sink = "ack" /\ path = "requeued" /\ link = "up" =>
        \E c \in Copies : c # cur.copy /\ copy[c].at \in {"delayed", "ready"}
                          /\ copy[c].origin = cur.origin

(***************************************************************************)
(* Retrying duplicates nothing as long as nothing is lost: but for the     *)
(* moment between the copy and the ack there is one copy of each message.  *)
(***************************************************************************)
NoDuplicates ==
    calm => \A c, d \in Copies :
        c # d /\ Held(c) /\ Held(d) /\ copy[c].origin = copy[d].origin =>
            /\ cur.copy \in {c, d}
            /\ \/ sink = "await" /\ answer = "ok"
               \/ sink = "ack" /\ path = "requeued"

(***************************************************************************)
(* Liveness.  The shutdown goes through, even out of the middle of a       *)
(* Requeue.  With a retry limit and a requeue every message is handled or  *)
(* refused some day, however often its handler fails, as long as nothing   *)
(* else does.                                                              *)
(***************************************************************************)
ShutdownCompletes == gctx = "done" ~> srv = "finished"

EventuallySettled ==
    \A o \in Origins :
        o \in arrived /\ reqset # "never" ~> o \in handled \union refused \/ ~calm

(***************************************************************************)
(* README.md:17 "Reconnectiong.  Will restore all defined infrastructure": *)
(* a connection that is lost or given up is replaced, once the broker can  *)
(* be reached.  Without a requeue this is so; with one, the sink may wait  *)
(* in Requeue for a goroutine that has left.                               *)
(***************************************************************************)
Replaced == (ctx = "live" /\ link = "up") \/ gctx = "done"

Recovers ==
    <>[][~DialFails]_vars => (ctx = "done" \/ link = "broken" ~> Replaced)

PlainSinkRecovers ==
    <>[][~DialFails]_vars =>
        ((ctx = "done" \/ link = "broken") /\ reqset = "never" ~> Replaced)
==============================================================================
