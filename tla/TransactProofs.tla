---------------------------- MODULE TransactProofs ----------------------------
(***************************************************************************)
(* Proofs about Transact, for any messages, copies, limits, handlers and   *)
(* faults: IInv is inductive, Invariance states it of SafeSpec, and the    *)
(* theorems rest on it.  Each step of an argument is one group of Steps.   *)
(*                                                                         *)
(* StuckUntilShutdown is the converse of a promise: it shows that what     *)
(* the run transact_stuck finds is no matter of its small instance.        *)
(*                                                                         *)
(* NoOtherDeadlock is the other half: as long as the context is live every *)
(* request is awaited by the sink that has asked (AskOK), so only a        *)
(* requeue that has left leaves its sink waiting.                          *)
(***************************************************************************)
EXTENDS Transact, TLAPS

USE DEF Handlers

LEMMA MaxCountType == MaxCount \in Nat
BY TransactAssumption DEF MaxCount

\* The steps of Next, by what they leave alone.
ServerStep ==
    \/ Connect \/ DialFails \/ StopStreaming \/ Pause \/ NoticeLoss
    \/ OtherReturns \/ Shutdown \/ \E h \in Handlers : CreateFails(h)
LossStep  == Restart \/ LoseConnection \/ Disconnect
CopyStep  == (\E o \in Origins : Arrive(o)) \/ (\E c \in Copies : DelayExpires(c))
LeaveStep == StreamClosed \/ SinkCancelled \/ RefuseFails
ThinkStep == Keep \/ Refuse \/ HandleSucceeds \/ HandleFails \/ Answered

LEMMA Steps ==
    Next => \/ ServerStep \/ LossStep \/ CopyStep \/ Registering
            \/ StartSink \/ LeaveStep \/ (\E c \in Copies : Deliver(c)) \/ ThinkStep
            \/ Offer \/ RequeueAborted \/ RefuseDone \/ Ack \/ Nack
            \/ RequeueStep
BY DEF Next, Broker, Environment, Serve, SinkStep, Transaction, RequeueCall,
   ServerStep, LossStep, CopyStep, LeaveStep, ThinkStep

-----------------------------------------------------------------------------
LEMMA InitType == Init => TypeOK
BY MaxCountType DEF Init, TypeOK, Life!Init, Life!States, Free, NoRequest, NoDelivery, Places

LEMMA ReturnedType ==
    ASSUME TypeOK
    PROVE  /\ Returned \in [Copies -> [at : Places, origin : Origins \union {NoCopy},
                                       count : 0..MaxCount, durable : BOOLEAN]]
           /\ \A c \in Copies :
                /\ Returned[c].at = IF copy[c].at = "unacked" THEN "ready" ELSE copy[c].at
                /\ Returned[c].origin = copy[c].origin
                /\ Returned[c].durable = copy[c].durable
BY DEF TypeOK, Returned, Places

LEMMA ServerType == ASSUME TypeOK, ServerStep PROVE TypeOK'
<1>1. UNCHANGED <<brokerVars, sinkVars, rqVars>> /\ open' = open
    BY DEF ServerStep, Connect, DialFails, StopStreaming, Pause, NoticeLoss, OtherReturns,
       Shutdown, CreateFails, Quiet, Life!Connect, Life!DialFailed, Life!StopCreating,
       Life!Rest, Life!Retry, Life!Finish, Life!Move
<1>2. srv' \in Life!States
    BY DEF ServerStep, Connect, DialFails, StopStreaming, Pause, NoticeLoss, OtherReturns,
       Shutdown, CreateFails, Life!Connect, Life!DialFailed, Life!StopCreating,
       Life!Rest, Life!Retry, Life!Finish, Life!Move, Life!States, TypeOK
<1>3. /\ started' \subseteq Handlers /\ gctx' \in {"live", "done"} /\ ctx' \in {"live", "done"}
      /\ link' \in {"none", "up", "silent", "broken"} /\ calm' \in BOOLEAN
    BY DEF ServerStep, Connect, DialFails, StopStreaming, Pause, NoticeLoss, OtherReturns,
       Shutdown, CreateFails, TypeOK
<1>4. QED
    BY <1>1, <1>2, <1>3 DEF TypeOK, brokerVars, sinkVars, rqVars

LEMMA LossType == ASSUME TypeOK, LossStep PROVE TypeOK'
<1>1. copy' \in [Copies -> [at : Places, origin : Origins \union {NoCopy},
                            count : 0..MaxCount, durable : BOOLEAN]]
    <2>1. CASE Restart
        <3>1. Free \in [at : Places, origin : Origins \union {NoCopy},
                        count : 0..MaxCount, durable : BOOLEAN]
            BY MaxCountType DEF Free, Places
        <3>2. QED
            BY <2>1, <3>1, ReturnedType DEF Restart
    <2>2. CASE LoseConnection \/ Disconnect
        BY <2>2, ReturnedType DEF LoseConnection, Disconnect
    <2>3. QED
        BY <2>1, <2>2 DEF LossStep
<1>2. /\ UNCHANGED <<sinkVars, rqVars, arrived, refused, open, started, gctx>>
      /\ srv' \in Life!States /\ ctx' \in {"live", "done"} /\ calm' \in BOOLEAN
      /\ link' \in {"none", "up", "silent", "broken"}
    BY DEF LossStep, Restart, LoseConnection, Disconnect, Life!Disconnect, Life!Move,
       Life!States, TypeOK
<1>3. QED
    BY <1>1, <1>2 DEF TypeOK, sinkVars, rqVars

LEMMA CopyType == ASSUME TypeOK, CopyStep PROVE TypeOK'
<1>1. CASE \E o \in Origins : Arrive(o)
    <2>1. PICK o \in Origins : Arrive(o)
        BY <1>1
    <2>2. PICK c \in Copies : copy' = [copy EXCEPT ![c] =
              [at |-> "ready", origin |-> o, count |-> 0, durable |-> TRUE]]
        BY <2>1 DEF Arrive
    <2>3. [at |-> "ready", origin |-> o, count |-> 0, durable |-> TRUE]
              \in [at : Places, origin : Origins \union {NoCopy},
                   count : 0..MaxCount, durable : BOOLEAN]
        BY MaxCountType DEF Places
    <2>4. QED
        BY <2>1, <2>2, <2>3 DEF TypeOK, Arrive, connVars, sinkVars, rqVars
<1>2. CASE \E c \in Copies : DelayExpires(c)
    <2>1. PICK c \in Copies : DelayExpires(c)
        BY <1>2
    <2>2. copy' \in [Copies -> [at : Places, origin : Origins \union {NoCopy},
                                count : 0..MaxCount, durable : BOOLEAN]]
        <3>1. copy[c] \in [at : Places, origin : Origins \union {NoCopy},
                           count : 0..MaxCount, durable : BOOLEAN]
            BY DEF TypeOK
        <3>2. (IF copy[c].count < MaxCount THEN copy[c].count + 1 ELSE copy[c].count)
                  \in 0..MaxCount
            BY <3>1, MaxCountType
        <3> DEFINE n == IF copy[c].count < MaxCount THEN copy[c].count + 1 ELSE copy[c].count
        <3>3. copy' = [copy EXCEPT ![c].at = "ready", ![c].count = n]
            BY <2>1 DEF DelayExpires, TypeOK
        <3> HIDE DEF n
        <3>4. n \in 0..MaxCount
            BY <3>2 DEF n
        <3>5. QED
            BY <3>1, <3>3, <3>4 DEF TypeOK, Places
    <2>3. QED
        BY <2>1, <2>2 DEF TypeOK, DelayExpires, connVars, sinkVars, rqVars
<1>3. QED
    BY <1>1, <1>2 DEF CopyStep

-----------------------------------------------------------------------------
\* What the broker holds, and what the sink asks of the requeue.
CopyRecord == [at : Places, origin : Origins \union {NoCopy},
               count : 0..MaxCount, durable : BOOLEAN]
Request == [origin : Origins \union {NoCopy}, count : 0..MaxCount, awaited : BOOLEAN]

LEMMA NoneTypes ==
    /\ Free \in CopyRecord /\ NoRequest \in Request
    /\ NoDelivery \in [copy : Copies \union {NoCopy}, origin : Origins \union {NoCopy},
                       count : 0..MaxCount]
BY MaxCountType DEF Free, NoRequest, NoDelivery, CopyRecord, Request, Places

LEMMA LeavesType == ASSUME TypeOK, SinkLeaves PROVE TypeOK'
<1>1. /\ open' = open \ {"sink"} /\ srv' = srv /\ sink' = "off" /\ cur' = NoDelivery
      /\ ctx' = "done" /\ copy' = Returned
      /\ UNCHANGED <<started, gctx, link, calm, arrived, refused, path, handled, rqVars>>
    BY DEF SinkLeaves, Life!ChannelClosed
<1>2. QED
    BY <1>1, ReturnedType, NoneTypes DEF TypeOK, rqVars

(***************************************************************************)
(* The delivery in work is of a message that has arrived, and its copy is  *)
(* the sink's as long as the connection is there.                          *)
(***************************************************************************)
Working == sink \notin {"off", "select"}

HandOK ==
    Working => /\ cur.copy \in Copies /\ cur.origin \in arrived
               /\ link = "up" => copy[cur.copy].at = "unacked"
                                 /\ copy[cur.copy].origin = cur.origin

LEMMA SinkType ==
    ASSUME TypeOK, HandOK, StartSink \/ LeaveStep \/ ThinkStep \/ \E c \in Copies : Deliver(c)
    PROVE  TypeOK'
<1>1. CASE StartSink
    BY <1>1 DEF StartSink, Life!ChannelCreated, TypeOK, brokerVars, rqVars
<1>2. CASE LeaveStep
    BY <1>2, LeavesType DEF LeaveStep, StreamClosed, SinkCancelled, RefuseFails
<1>3. CASE ThinkStep
    <2>1. UNCHANGED <<connVars, brokerVars, cur, rqVars>>
        BY <1>3 DEF ThinkStep, Keep, Refuse, HandleSucceeds, HandleFails, Answered, SinkGoto
    <2>2. /\ sink' \in {"refuse", "handle", "offer", "ack", "nack"}
          /\ path' \in {"none", "handled", "requeued", "failed"}
        BY <1>3 DEF ThinkStep, Keep, Refuse, HandleSucceeds, HandleFails, Answered, SinkGoto,
           TypeOK
    <2>3. handled' \subseteq Origins
        BY <1>3 DEF ThinkStep, Keep, Refuse, HandleSucceeds, HandleFails, Answered, SinkGoto,
           TypeOK, HandOK, Working
    <2>4. QED
        BY <2>1, <2>2, <2>3 DEF TypeOK, connVars, brokerVars, rqVars
<1>4. CASE \E c \in Copies : Deliver(c)
    <2>1. PICK c \in Copies : Deliver(c)
        BY <1>4
    <2>2. copy' = [copy EXCEPT ![c].at = "unacked"] /\ cur' = Delivery(c)
        BY <2>1 DEF Deliver, Put
    <2>3. /\ copy' \in [Copies -> CopyRecord]
          /\ cur' \in [copy : Copies \union {NoCopy}, origin : Origins \union {NoCopy},
                       count : 0..MaxCount]
        BY <2>2 DEF Delivery, TypeOK, CopyRecord, Places
    <2>4. QED
        BY <2>1, <2>3 DEF TypeOK, Deliver, connVars, rqVars, CopyRecord
<1>5. QED
    BY <1>1, <1>2, <1>3, <1>4

LEMMA SettleType ==
    ASSUME TypeOK, HandOK, Offer \/ RequeueAborted \/ RefuseDone \/ Ack \/ Nack
    PROVE  TypeOK'
<1>1. cur.copy \in Copies /\ cur.origin \in Origins
    BY DEF HandOK, Working, TypeOK, Offer, RequeueAborted, RefuseDone, Ack, Nack
<1>2. CASE Offer
    <2>1. box' \in Request
        BY <1>1, <1>2 DEF Offer, TypeOK, Request
    <2>2. QED
        BY <1>2, <2>1 DEF Offer, SinkGoto, TypeOK, connVars, brokerVars, Request
<1>3. CASE RequeueAborted
    <2>1. box' \in Request /\ taken' \in Request
        BY <1>3 DEF RequeueAborted, TypeOK, Request
    <2>2. QED
        BY <1>3, <2>1 DEF RequeueAborted, TypeOK, connVars, brokerVars, Request
<1>4. CASE RefuseDone \/ Ack \/ Nack
    <2>1. copy' \in [Copies -> CopyRecord]
        BY <1>1, <1>4, NoneTypes DEF RefuseDone, Ack, Nack, Forget, Put, TypeOK, CopyRecord, Places
    <2>2. /\ UNCHANGED <<connVars, arrived, cur, path, handled, rqVars>>
          /\ sink' = "select" /\ refused' \subseteq Origins
        BY <1>1, <1>4 DEF RefuseDone, Ack, Nack, SinkGoto, TypeOK
    <2>3. QED
        BY <2>1, <2>2 DEF TypeOK, CopyRecord, connVars, rqVars
<1>5. QED
    BY <1>2, <1>3, <1>4

LEMMA RequeueType ==
    ASSUME TypeOK, rq = "publish" => taken.origin \in Origins, Registering \/ RequeueStep
    PROVE  TypeOK'
<1>1. CASE Registering
    <2>1. /\ UNCHANGED <<connVars, brokerVars, sinkVars, rq, box, taken, answer>>
          /\ reqset' \in {"never", "absent", "registered", "set"}
        BY <1>1 DEF Registering, RegisterRequeue, SetRequeue
    <2>2. QED
        BY <2>1 DEF TypeOK, connVars, brokerVars, sinkVars
<1>2. CASE StartRequeue \/ RequeueCancelled
    <2>1. /\ UNCHANGED <<srv, gctx, link, calm, brokerVars, sinkVars, reqset, box, taken,
                         answer>>
          /\ open' \subseteq Handlers /\ started' \subseteq Handlers
          /\ rq' \in {"off", "select"} /\ ctx' \in {"live", "done"}
        BY <1>2 DEF StartRequeue, RequeueCancelled, RequeueLeaves, Life!ChannelCreated,
           Life!ChannelClosed, TypeOK
    <2>2. QED
        BY <2>1 DEF TypeOK, brokerVars, sinkVars
<1>3. CASE Take
    BY <1>3, NoneTypes DEF Take, TypeOK, Request, connVars, brokerVars, sinkVars
<1>4. CASE Republish
    <2>1. Delayed \in CopyRecord
        BY <1>4 DEF Republish, Delayed, CopyRecord, TypeOK, Places
    <2>2. copy' \in [Copies -> CopyRecord]
        BY <1>4, <2>1 DEF Republish, TypeOK, CopyRecord
    <2>3. answer' \in {"none", "ok", "error"}
        BY <1>4 DEF Republish, Tell, TypeOK
    <2>4. QED
        BY <1>4, <2>2, <2>3, NoneTypes
        DEF Republish, TypeOK, CopyRecord, Request, connVars, sinkVars
<1>5. CASE RepublishFails
    <2>1. /\ UNCHANGED <<srv, started, gctx, link, brokerVars, sinkVars, reqset, box>>
          /\ open' = open \ {"requeue"} /\ ctx' = "done" /\ rq' = "off"
          /\ taken' = NoRequest /\ answer' \in {answer, "error"}
        BY <1>5 DEF RepublishFails, RequeueLeaves, Tell, Life!ChannelClosed
    <2>2. calm' \in BOOLEAN
        BY <1>5 DEF RepublishFails
    <2>3. QED
        BY <2>1, <2>2, NoneTypes DEF TypeOK, Request, brokerVars, sinkVars
<1>6. QED
    BY <1>1, <1>2, <1>3, <1>4, <1>5 DEF RequeueStep

(***************************************************************************)
(* Goroutines run only while there is a connection, so a connection that   *)
(* is new finds the sink and the requeue gone.                             *)
(***************************************************************************)
ConnOK ==
    /\ sink # "off" <=> "sink" \in open
    /\ rq # "off" <=> "requeue" \in open
    /\ ~Life!Connected => open = {}
    /\ link = "none" <=> ~Life!Connected

LEMMA ServerConn ==
    ASSUME ConnOK, TypeOK, ServerStep
    PROVE  /\ ConnOK'
           /\ UNCHANGED <<brokerVars, sinkVars, rqVars>> /\ open' = open
           /\ link' = "up" => link = "up" \/ (sink = "off" /\ rq = "off")
<1>1. CASE Connect
    <2>1. /\ srv' = "connection_established" /\ link' = "up" /\ open' = open
          /\ srv = "ready" /\ UNCHANGED <<brokerVars, sinkVars, rqVars>>
        BY <1>1 DEF Connect, Quiet, Life!Connect, Life!Move
    <2>2. open = {} /\ sink = "off" /\ rq = "off"
        BY <2>1 DEF ConnOK, Life!Connected
    <2>3. QED
        BY <2>1, <2>2 DEF ConnOK, Life!Connected, sinkVars, rqVars
<1>2. CASE DialFails \/ Pause
    <2>1. /\ UNCHANGED <<open, link, brokerVars, sinkVars, rqVars>>
          /\ ~Life!Connected /\ srv' \in {"idle", "ready", "finished"}
        BY <1>2 DEF DialFails, Pause, Quiet, Life!DialFailed, Life!Rest, Life!Retry,
           Life!Finish, Life!Move, Life!Connected
    <2>2. QED
        BY <2>1 DEF ConnOK, Life!Connected, sinkVars, rqVars
<1>3. CASE StopStreaming
    <2>1. /\ UNCHANGED <<open, link, brokerVars, sinkVars, rqVars>>
          /\ srv = "connection_established" /\ srv' = "channels_created"
        BY <1>3 DEF StopStreaming, Quiet, Life!StopCreating, Life!Move
    <2>2. QED
        BY <2>1 DEF ConnOK, Life!Connected, sinkVars, rqVars
<1>4. CASE NoticeLoss \/ OtherReturns \/ Shutdown \/ \E h \in Handlers : CreateFails(h)
    <2>1. /\ UNCHANGED <<srv, open, brokerVars, sinkVars, rqVars>>
          /\ link' = link \/ (link = "silent" /\ link' = "broken")
        BY <1>4 DEF NoticeLoss, OtherReturns, Shutdown, CreateFails, Quiet
    <2>2. QED
        BY <2>1 DEF ConnOK, Life!Connected, sinkVars, rqVars
<1>5. QED
    BY <1>1, <1>2, <1>3, <1>4 DEF ServerStep

LEMMA LossConn ==
    ASSUME ConnOK, TypeOK, LossStep
    PROVE  /\ ConnOK' /\ link' # "up"
           /\ UNCHANGED <<sinkVars, rqVars, arrived, refused>>
<1>1. CASE Restart \/ LoseConnection
    <2>1. /\ UNCHANGED <<srv, open, sinkVars, rqVars, arrived, refused>>
          /\ link' # "up" /\ (link' = "none" <=> link = "none")
        BY <1>1 DEF Restart, LoseConnection
    <2>2. QED
        BY <2>1 DEF ConnOK, Life!Connected, sinkVars, rqVars
<1>2. CASE Disconnect
    <2>1. /\ UNCHANGED <<open, sinkVars, rqVars, arrived, refused>> /\ open = {}
          /\ link' = "none" /\ srv' = "disconnected"
        BY <1>2 DEF Disconnect, Life!Disconnect, Life!Move
    <2>2. QED
        BY <2>1 DEF ConnOK, Life!Connected, sinkVars, rqVars
<1>3. QED
    BY <1>1, <1>2 DEF LossStep

LEMMA WorkConn ==
    ASSUME ConnOK, TypeOK,
           \/ CopyStep \/ Registering \/ StartSink \/ LeaveStep
           \/ (\E c \in Copies : Deliver(c)) \/ ThinkStep
           \/ Offer \/ RequeueAborted \/ RefuseDone \/ Ack \/ Nack \/ RequeueStep
    PROVE  ConnOK' /\ UNCHANGED <<srv, link, gctx>>
<1>1. CASE CopyStep \/ Registering
    <2>1. UNCHANGED <<srv, open, link, gctx, sink, rq>>
        BY <1>1 DEF CopyStep, Arrive, DelayExpires, Registering, RegisterRequeue, SetRequeue,
           connVars, sinkVars, rqVars
    <2>2. QED
        BY <2>1 DEF ConnOK, Life!Connected
<1>2. CASE StartSink
    <2>1. /\ open' = open \union {"sink"} /\ sink' = "select" /\ Life!Connected
          /\ UNCHANGED <<srv, link, gctx, rq>>
        BY <1>2 DEF StartSink, Life!ChannelCreated, rqVars
    <2>2. QED
        BY <2>1 DEF ConnOK, Life!Connected
<1>3. CASE LeaveStep
    <2>1. /\ open' = open \ {"sink"} /\ sink' = "off" /\ Life!Connected
          /\ UNCHANGED <<srv, link, gctx, rq>>
        BY <1>3 DEF LeaveStep, StreamClosed, SinkCancelled, RefuseFails, SinkLeaves,
           Life!ChannelClosed, rqVars
    <2>2. QED
        BY <2>1 DEF ConnOK, Life!Connected
<1>4. CASE \/ (\E c \in Copies : Deliver(c)) \/ ThinkStep
           \/ Offer \/ RequeueAborted \/ RefuseDone \/ Ack \/ Nack
    <2>1. /\ UNCHANGED <<srv, open, link, gctx, rq>> /\ sink # "off" /\ sink' # "off"
        BY <1>4 DEF Deliver, ThinkStep, Keep, Refuse, HandleSucceeds, HandleFails, Answered,
           Offer, RequeueAborted, RefuseDone, Ack, Nack, SinkGoto, connVars, rqVars
    <2>2. QED
        BY <2>1 DEF ConnOK, Life!Connected
<1>5. CASE RequeueStep
    <2>1. CASE StartRequeue
        <3>1. /\ open' = open \union {"requeue"} /\ rq' = "select" /\ Life!Connected
              /\ UNCHANGED <<srv, link, gctx, sink>>
            BY <2>1 DEF StartRequeue, Life!ChannelCreated, sinkVars
        <3>2. QED
            BY <3>1 DEF ConnOK, Life!Connected
    <2>2. CASE RequeueCancelled \/ RepublishFails
        <3>1. /\ open' = open \ {"requeue"} /\ rq' = "off" /\ Life!Connected
              /\ UNCHANGED <<srv, link, gctx, sink>>
            BY <2>2 DEF RequeueCancelled, RepublishFails, RequeueLeaves, Life!ChannelClosed,
               sinkVars
        <3>2. QED
            BY <3>1 DEF ConnOK, Life!Connected
    <2>3. CASE Take \/ Republish
        <3>1. /\ UNCHANGED <<srv, open, link, gctx, sink>> /\ rq # "off" /\ rq' # "off"
            BY <2>3 DEF Take, Republish, connVars, sinkVars
        <3>2. QED
            BY <3>1 DEF ConnOK, Life!Connected
    <2>4. QED
        BY <1>5, <2>1, <2>2, <2>3 DEF RequeueStep
<1>6. QED
    BY <1>1, <1>2, <1>3, <1>4, <1>5

(***************************************************************************)
(* Whatever is held, offered or published is of a message that arrived.  A *)
(* request that is awaited is of the delivery in hand, and is answered at  *)
(* most once; an answer "ok" to it means that the copy is there.           *)
(***************************************************************************)
OriginsOK ==
    /\ \A c \in Copies : Held(c) => copy[c].origin \in arrived
    /\ box # NoRequest => box.origin \in arrived
    /\ rq = "publish" => taken.origin \in arrived

RequestOK ==
    /\ box.awaited => /\ sink = "await" /\ answer = "none" /\ ~taken.awaited
                      /\ box.origin = cur.origin
    /\ taken.awaited => /\ sink = "await" /\ answer = "none" /\ rq = "publish"
                        /\ taken.origin = cur.origin

SafeCopy == \E c \in Copies : c # cur.copy /\ copy[c].at \in {"delayed", "ready"}
                              /\ copy[c].origin = cur.origin

AnswerOK ==
    /\ sink = "await" /\ answer = "ok" /\ link = "up" => SafeCopy
    /\ CopyBeforeAck
    /\ sink = "ack" => path = "requeued" \/ (path = "handled" /\ cur.origin \in handled)

IInv == TypeOK /\ ConnOK /\ HandOK /\ OriginsOK /\ RequestOK /\ AnswerOK

LEMMA InitInv == Init => IInv
<1> SUFFICES ASSUME Init PROVE IInv
    OBVIOUS
<1>1. TypeOK
    BY InitType
<1>2. ConnOK
    BY DEF Init, Life!Init, ConnOK, Life!Connected
<1>3. OriginsOK
    BY DEF Init, OriginsOK, Held, Free
<1>4. RequestOK /\ HandOK /\ AnswerOK
    BY DEF Init, RequestOK, NoRequest, HandOK, Working, AnswerOK, CopyBeforeAck
<1>5. QED
    BY <1>1, <1>2, <1>3, <1>4 DEF IInv

LEMMA ServerInv == ASSUME IInv, ServerStep PROVE IInv'
<1>1. TypeOK' /\ ConnOK'
    BY ServerType, ServerConn DEF IInv
<1>2. /\ UNCHANGED <<copy, arrived, sink, cur, path, handled, rq, box, taken, answer>>
      /\ link' = "up" => link = "up" \/ sink = "off"
    BY ServerConn DEF IInv, brokerVars, sinkVars, rqVars
<1>3. HandOK' /\ OriginsOK' /\ RequestOK'
    BY <1>2 DEF IInv, HandOK, Working, OriginsOK, Held, RequestOK
<1>4. AnswerOK'
    BY <1>2 DEF IInv, AnswerOK, SafeCopy, CopyBeforeAck
<1>5. QED
    BY <1>1, <1>3, <1>4 DEF IInv

LEMMA LossInv == ASSUME IInv, LossStep PROVE IInv'
<1>1. TypeOK' /\ ConnOK'
    BY LossType, LossConn DEF IInv
<1>2. /\ UNCHANGED <<arrived, sink, cur, path, handled, rq, box, taken, answer>>
      /\ link' # "up"
    BY LossConn DEF IInv, sinkVars, rqVars
<1>3. \A c \in Copies :
        copy'[c].at # "none" => copy[c].at # "none" /\ copy'[c].origin = copy[c].origin
    <2>1. \A c \in Copies : copy'[c] = Returned[c] \/ copy'[c] = Free
        BY DEF LossStep, Restart, LoseConnection, Disconnect
    <2>2. QED
        BY <2>1, ReturnedType DEF IInv, Free
<1>4. HandOK' /\ OriginsOK' /\ RequestOK'
    BY <1>2, <1>3 DEF IInv, HandOK, Working, OriginsOK, Held, RequestOK
<1>5. AnswerOK'
    BY <1>2 DEF IInv, AnswerOK, CopyBeforeAck
<1>6. QED
    BY <1>1, <1>4, <1>5 DEF IInv

LEMMA CopyInv == ASSUME IInv, CopyStep PROVE IInv'
<1>1. TypeOK' /\ ConnOK' /\ link' = link
    BY CopyType, WorkConn DEF IInv
<1>2. UNCHANGED <<sink, cur, path, handled, rq, box, taken, answer>>
    BY DEF CopyStep, Arrive, DelayExpires, sinkVars, rqVars
<1>3. PICK c \in Copies :
        /\ copy[c].at \in {"none", "delayed"} /\ copy'[c].at = "ready"
        /\ copy'[c].origin \in arrived' /\ arrived \subseteq arrived'
        /\ copy[c].at = "delayed" => copy'[c].origin = copy[c].origin
        /\ \A d \in Copies \ {c} : copy'[d] = copy[d]
    <2>1. CASE \E o \in Origins : Arrive(o)
        <3>1. PICK o \in Origins : Arrive(o)
            BY <2>1
        <3>2. PICK c \in Copies : ~Held(c) /\ copy' = [copy EXCEPT ![c] =
                [at |-> "ready", origin |-> o, count |-> 0, durable |-> TRUE]]
            BY <3>1 DEF Arrive
        <3>3. arrived' = arrived \union {o}
            BY <3>1 DEF Arrive
        <3>4. QED
            BY <3>2, <3>3 DEF IInv, TypeOK, Held
    <2>2. CASE \E c \in Copies : DelayExpires(c)
        <3>1. PICK c \in Copies : DelayExpires(c)
            BY <2>2
        <3>2. /\ copy[c].at = "delayed" /\ copy'[c].at = "ready" /\ arrived' = arrived
              /\ copy'[c].origin = copy[c].origin
              /\ \A d \in Copies \ {c} : copy'[d] = copy[d]
            BY <3>1 DEF DelayExpires, IInv, TypeOK
        <3>3. QED
            BY <3>2 DEF IInv, OriginsOK, Held
    <2>3. QED
        BY <2>1, <2>2 DEF CopyStep
<1>4. HandOK'
    BY <1>1, <1>2, <1>3 DEF IInv, HandOK, Working
<1>5. OriginsOK' /\ RequestOK'
    BY <1>2, <1>3 DEF IInv, OriginsOK, Held, RequestOK
<1>6. SafeCopy => SafeCopy'
    BY <1>2, <1>3 DEF SafeCopy
<1>7. AnswerOK'
    BY <1>1, <1>2, <1>6 DEF IInv, AnswerOK, SafeCopy, CopyBeforeAck
<1>8. QED
    BY <1>1, <1>4, <1>5, <1>7 DEF IInv

LEMMA StartInv ==
    ASSUME IInv, StartSink \/ LeaveStep \/ \E c \in Copies : Deliver(c) PROVE IInv'
<1>1. TypeOK' /\ ConnOK' /\ link' = link
    BY SinkType, WorkConn DEF IInv
<1>2. CASE StartSink
    <2>1. /\ UNCHANGED <<copy, arrived, cur, path, handled, rq, box, taken, answer>>
          /\ sink = "off" /\ sink' = "select"
        BY <1>2 DEF StartSink, Life!ChannelCreated, IInv, ConnOK, brokerVars, rqVars
    <2>2. HandOK' /\ OriginsOK' /\ RequestOK' /\ AnswerOK'
        BY <2>1 DEF IInv, HandOK, Working, OriginsOK, Held, RequestOK, AnswerOK, CopyBeforeAck
    <2>3. QED
        BY <1>1, <2>2 DEF IInv
<1>3. CASE LeaveStep
    <2>1. /\ UNCHANGED <<arrived, path, handled, rq, box, taken, answer>>
          /\ sink \in {"select", "refuse"} /\ sink' = "off" /\ copy' = Returned
        BY <1>3 DEF LeaveStep, StreamClosed, SinkCancelled, RefuseFails, SinkLeaves, rqVars
    <2>2. OriginsOK'
        BY <2>1, ReturnedType DEF IInv, OriginsOK, Held
    <2>3. HandOK' /\ RequestOK' /\ AnswerOK'
        BY <2>1 DEF IInv, HandOK, Working, RequestOK, AnswerOK, CopyBeforeAck
    <2>4. QED
        BY <1>1, <2>2, <2>3 DEF IInv
<1>4. CASE \E c \in Copies : Deliver(c)
    <2>1. PICK c \in Copies : Deliver(c)
        BY <1>4
    <2>2. /\ UNCHANGED <<arrived, rq, box, taken, answer>>
          /\ sink = "select" /\ sink' = "decide"
          /\ cur'.copy = c /\ cur'.origin = copy[c].origin /\ copy[c].at = "ready"
          /\ copy'[c].at = "unacked" /\ copy'[c].origin = copy[c].origin
          /\ \A d \in Copies \ {c} : copy'[d] = copy[d]
        BY <2>1 DEF Deliver, Delivery, Put, IInv, TypeOK, rqVars
    <2>3. HandOK' /\ OriginsOK'
        BY <2>2 DEF IInv, HandOK, Working, OriginsOK, Held
    <2>4. RequestOK' /\ AnswerOK'
        BY <2>2 DEF IInv, RequestOK, AnswerOK, CopyBeforeAck
    <2>5. QED
        BY <1>1, <2>3, <2>4 DEF IInv
<1>5. QED
    BY <1>2, <1>3, <1>4

\* The sink thinks, or waits for the requeue.
LEMMA ThinkInv ==
    ASSUME IInv, ThinkStep \/ Offer \/ RequeueAborted PROVE IInv'
<1>1. TypeOK' /\ ConnOK' /\ link' = link
    BY SinkType, SettleType, WorkConn DEF IInv
<1>2. UNCHANGED <<copy, arrived, cur, rq>> /\ Working /\ Working'
    BY DEF ThinkStep, Keep, Refuse, HandleSucceeds, HandleFails, Answered, Offer,
       RequeueAborted, SinkGoto, Working, brokerVars, rqVars
<1>3. HandOK'
    BY <1>1, <1>2 DEF IInv, HandOK
<1>4. CASE ThinkStep
    <2>1. UNCHANGED <<box, taken, answer>>
        BY <1>4 DEF ThinkStep, Keep, Refuse, HandleSucceeds, HandleFails, Answered, rqVars
    <2>2. sink' # "await" /\ ~box.awaited /\ ~taken.awaited
        BY <1>4 DEF ThinkStep, Keep, Refuse, HandleSucceeds, HandleFails, Answered, SinkGoto,
           IInv, RequestOK
    <2>3. OriginsOK' /\ RequestOK'
        BY <1>2, <2>1, <2>2 DEF IInv, OriginsOK, Held, RequestOK
    <2>4. ASSUME HandleSucceeds PROVE AnswerOK'
        <3>1. path' = "handled" /\ cur.origin \in handled'
            BY <2>4 DEF HandleSucceeds
        <3>2. QED
            BY <1>2, <2>2, <3>1 DEF AnswerOK, CopyBeforeAck
    <2>5. ASSUME Answered PROVE AnswerOK'
        <3>1. sink' = "ack" => answer = "ok" /\ path' = "requeued" /\ sink = "await"
            BY <2>5 DEF Answered
        <3>2. sink' = "ack" /\ link' = "up" => SafeCopy'
            BY <1>1, <1>2, <3>1 DEF IInv, AnswerOK, SafeCopy
        <3>3. QED
            BY <2>2, <3>1, <3>2 DEF AnswerOK, CopyBeforeAck, SafeCopy
    <2>6. ASSUME Keep \/ Refuse \/ HandleFails PROVE AnswerOK'
        BY <2>2, <2>6 DEF Keep, Refuse, HandleFails, SinkGoto, AnswerOK, CopyBeforeAck
    <2>7. AnswerOK'
        BY <1>4, <2>4, <2>5, <2>6 DEF ThinkStep
    <2>8. QED
        BY <1>1, <1>3, <2>3, <2>7 DEF IInv
<1>5. CASE Offer
    <2>1. /\ sink = "offer" /\ sink' = "await" /\ box = NoRequest /\ answer' = "none"
          /\ box'.origin = cur.origin /\ taken' = taken
        BY <1>5 DEF Offer, SinkGoto
    <2>2. ~taken.awaited
        BY <2>1 DEF IInv, RequestOK
    <2>3. OriginsOK' /\ RequestOK'
        BY <1>2, <2>1, <2>2 DEF IInv, HandOK, OriginsOK, Held, RequestOK
    <2>4. AnswerOK'
        BY <2>1 DEF AnswerOK, CopyBeforeAck
    <2>5. QED
        BY <1>1, <1>3, <2>3, <2>4 DEF IInv
<1>6. CASE RequeueAborted
    <2>1. /\ sink' = "nack" /\ ~box'.awaited /\ ~taken'.awaited
          /\ box'.origin = box.origin /\ taken'.origin = taken.origin
          /\ box = NoRequest => box' = NoRequest
        <3>1. /\ box \in Request /\ taken \in Request
              /\ box' = [box EXCEPT !.awaited = FALSE]
              /\ taken' = [taken EXCEPT !.awaited = FALSE] /\ sink' = "nack"
            BY <1>6 DEF RequeueAborted, IInv, TypeOK, Request
        <3>2. box = NoRequest => box' = NoRequest
            <4>1. ASSUME box.awaited = FALSE PROVE box' = box
                BY <3>1, <4>1 DEF Request
            <4>2. QED
                BY <4>1 DEF NoRequest
        <3>3. QED
            BY <3>1, <3>2 DEF Request
    <2>2. OriginsOK' /\ RequestOK' /\ AnswerOK'
        BY <1>2, <2>1 DEF IInv, OriginsOK, Held, RequestOK, AnswerOK, CopyBeforeAck
    <2>3. QED
        BY <1>1, <1>3, <2>2 DEF IInv
<1>7. QED
    BY <1>4, <1>5, <1>6

LEMMA SettleInv == ASSUME IInv, RefuseDone \/ Ack \/ Nack PROVE IInv'
<1>1. TypeOK' /\ ConnOK'
    BY SettleType, WorkConn DEF IInv
<1>2. /\ UNCHANGED <<arrived, rq, box, taken, answer>> /\ sink' = "select"
      /\ sink \in {"refuse", "ack", "nack"}
    BY DEF RefuseDone, Ack, Nack, SinkGoto, rqVars
<1>3. \A c \in Copies :
        copy'[c].at # "none" => copy[c].at # "none" /\ copy'[c].origin = copy[c].origin
    <2>1. cur.copy \in Copies /\ (link = "up" => copy[cur.copy].at = "unacked")
        BY <1>2 DEF IInv, HandOK, Working
    <2>2. QED
        BY <2>1 DEF RefuseDone, Ack, Nack, Forget, Put, Free, IInv, TypeOK
<1>4. HandOK' /\ OriginsOK' /\ RequestOK' /\ AnswerOK'
    BY <1>2, <1>3 DEF IInv, HandOK, Working, OriginsOK, Held, RequestOK, AnswerOK, CopyBeforeAck
<1>5. QED
    BY <1>1, <1>4 DEF IInv


LEMMA RequeueInv == ASSUME IInv, Registering \/ RequeueStep PROVE IInv'
<1>1. TypeOK' /\ ConnOK' /\ link' = link
    <2>1. rq = "publish" => taken.origin \in Origins
        BY DEF IInv, OriginsOK, TypeOK
    <2>2. QED
        BY <2>1, RequeueType, WorkConn DEF IInv
<1>2. UNCHANGED <<arrived, sink, cur, path, handled>>
    BY DEF Registering, RegisterRequeue, SetRequeue, RequeueStep, StartRequeue,
       RequeueCancelled, Take, Republish, RepublishFails, RequeueLeaves, brokerVars, sinkVars
<1>3. CASE Registering \/ StartRequeue \/ RequeueCancelled
    <2>1. /\ UNCHANGED <<copy, box, taken, answer>>
          /\ rq' = rq \/ (rq # "publish" /\ rq' # "publish")
        BY <1>3 DEF Registering, RegisterRequeue, SetRequeue, StartRequeue, RequeueCancelled,
           RequeueLeaves, Life!ChannelCreated, IInv, ConnOK, brokerVars
    <2>2. HandOK' /\ OriginsOK' /\ RequestOK' /\ AnswerOK'
        BY <1>1, <1>2, <2>1 DEF IInv, HandOK, Working, OriginsOK, Held, RequestOK, AnswerOK,
           SafeCopy, CopyBeforeAck
    <2>3. QED
        BY <1>1, <2>2 DEF IInv
<1>4. CASE Take
    <2>1. /\ copy' = copy /\ answer' = answer /\ taken' = box /\ box # NoRequest
          /\ box' = NoRequest /\ ~box'.awaited /\ rq' = "publish"
        BY <1>4 DEF Take, brokerVars, NoRequest
    <2>2. HandOK' /\ OriginsOK' /\ RequestOK' /\ AnswerOK'
        BY <1>1, <1>2, <2>1 DEF IInv, HandOK, Working, OriginsOK, Held, RequestOK, AnswerOK,
           SafeCopy, CopyBeforeAck
    <2>3. QED
        BY <1>1, <2>2 DEF IInv
<1>5. CASE Republish
    <2>1. /\ answer' = (IF taken.awaited THEN "ok" ELSE answer) /\ box' = box
          /\ ~taken'.awaited /\ rq = "publish" /\ rq' = "select"
        BY <1>5 DEF Republish, Tell, NoRequest
    <2>2. \/ copy' = copy /\ (link = "up" => Merged)
          \/ \E c \in Copies : ~Held(c) /\ copy' = [copy EXCEPT ![c] = Delayed]
        BY <1>5 DEF Republish
    <2>3. \A c \in Copies : \/ copy'[c] = copy[c]
                            \/ ~Held(c) /\ copy'[c].at = "delayed"
                                        /\ copy'[c].origin = taken.origin
        BY <2>2 DEF IInv, TypeOK, Delayed
    <2>4. HandOK' /\ OriginsOK' /\ RequestOK'
        BY <1>1, <1>2, <2>1, <2>3 DEF IInv, HandOK, Working, OriginsOK, Held, RequestOK
    <2>5. SafeCopy => SafeCopy'
        BY <1>2, <2>3 DEF SafeCopy, Held
    <2>6. ASSUME taken.awaited, link = "up" PROVE SafeCopy'
        <3>1. /\ sink = "await" /\ taken.origin = cur.origin /\ cur.copy \in Copies
              /\ copy[cur.copy].at = "unacked"
            BY <2>6 DEF IInv, RequestOK, HandOK, Working
        <3>2. PICK c \in Copies : c # cur.copy /\ copy'[c].origin = taken.origin
                                  /\ copy'[c].at \in {"delayed", "ready"}
            <4>1. CASE copy' = copy /\ Merged
                BY <3>1, <4>1 DEF Merged
            <4>2. CASE \E c \in Copies : ~Held(c) /\ copy' = [copy EXCEPT ![c] = Delayed]
                BY <3>1, <4>2 DEF Held, IInv, TypeOK, Delayed
            <4>3. QED
                BY <2>2, <2>6, <4>1, <4>2
        <3>3. QED
            BY <1>2, <3>1, <3>2 DEF SafeCopy
    <2>7. AnswerOK'
        <3>1. sink' = "ack" => ~taken.awaited
            BY <1>2 DEF IInv, RequestOK
        <3>2. sink' = "await" /\ answer' = "ok" /\ link' = "up" => SafeCopy'
            BY <1>1, <1>2, <2>1, <2>5, <2>6 DEF IInv, AnswerOK
        <3>3. CopyBeforeAck <=> (sink = "ack" /\ path = "requeued" /\ link = "up" => SafeCopy)
            BY DEF CopyBeforeAck, SafeCopy
        <3>4. CopyBeforeAck'
            BY <1>1, <1>2, <2>5, <3>3 DEF IInv, AnswerOK, CopyBeforeAck, SafeCopy
        <3>5. QED
            BY <1>2, <3>2, <3>4 DEF IInv, AnswerOK
    <2>8. QED
        BY <1>1, <2>4, <2>7 DEF IInv
<1>6. CASE RepublishFails
    <2>1. /\ UNCHANGED <<copy, box>> /\ rq = "publish" /\ rq' = "off" /\ ~taken'.awaited
          /\ answer' = (IF taken.awaited THEN "error" ELSE answer)
        BY <1>6 DEF RepublishFails, RequeueLeaves, Tell, NoRequest, brokerVars
    <2>2. HandOK' /\ OriginsOK' /\ RequestOK' /\ AnswerOK'
        BY <1>1, <1>2, <2>1 DEF IInv, HandOK, Working, OriginsOK, Held, RequestOK, AnswerOK,
           SafeCopy, CopyBeforeAck
    <2>3. QED
        BY <1>1, <2>2 DEF IInv
<1>7. QED
    BY <1>3, <1>4, <1>5, <1>6 DEF RequeueStep

LEMMA StepInv == ASSUME IInv, [Next]_vars PROVE IInv'
<1>1. CASE Next
    BY <1>1, Steps, ServerInv, LossInv, CopyInv, StartInv, ThinkInv, SettleInv, RequeueInv
<1>2. CASE UNCHANGED vars
    <2>1. TypeOK' /\ ConnOK' /\ HandOK'
        BY <1>2 DEF IInv, vars, connVars, brokerVars, sinkVars, rqVars, TypeOK, ConnOK,
           Life!Connected, HandOK, Working
    <2>2. OriginsOK' /\ RequestOK' /\ AnswerOK'
        BY <1>2 DEF IInv, vars, connVars, brokerVars, sinkVars, rqVars, OriginsOK, Held,
           RequestOK, AnswerOK, SafeCopy, CopyBeforeAck
    <2>3. QED
        BY <2>1, <2>2 DEF IInv
<1>3. QED
    BY <1>1, <1>2

LEMMA Invariance == SafeSpec => []IInv
BY InitInv, StepInv, PTL DEF SafeSpec

(***************************************************************************)
(* Every variable keeps its type: in particular the delivery in work and   *)
(* the requests are records of messages that have arrived, however the     *)
(* goroutines of sink.go and requeuer.go interleave.                       *)
(***************************************************************************)
THEOREM TypeCorrect == SafeSpec => []TypeOK
<1>1. IInv => TypeOK
    BY DEF IInv
<1>2. QED
    BY <1>1, Invariance, PTL

(***************************************************************************)
(* TransactFunc (sink.go) acknowledges a delivery whose handler failed     *)
(* only when the copy Requeue was asked for is with the broker: an answer  *)
(* to an older request, given up by the shutdown, is never taken for it.   *)
(***************************************************************************)
THEOREM RequeuedBeforeAck == SafeSpec => []CopyBeforeAck
<1>1. IInv => CopyBeforeAck
    BY DEF IInv, AnswerOK
<1>2. QED
    BY <1>1, Invariance, PTL

-----------------------------------------------------------------------------
\* What a step does to a message that the broker holds.
Stays(c) == copy'[c].at # "none" /\ copy'[c].origin = copy[c].origin
Elsewhere(c) == \E d \in Copies : d # c /\ Held(d) /\ Stays(d) /\ copy[d].origin = copy[c].origin
Settled(c) == copy[c].origin \in handled' \union refused'

LEMMA HeldSteps ==
    ASSUME IInv, ~Restart, Next
    PROVE  \A c \in Copies : Held(c) => Stays(c) \/ Elsewhere(c) \/ Settled(c)
<1>1. CASE ServerStep \/ Registering \/ StartSink \/ ThinkStep \/ Offer \/ RequeueAborted
    <2>1. copy' = copy
        BY <1>1, ServerConn DEF IInv, brokerVars, Registering, RegisterRequeue, SetRequeue,
           StartSink, ThinkStep, Keep, Refuse, HandleSucceeds, HandleFails, Answered, Offer,
           RequeueAborted
    <2>2. QED
        BY <2>1 DEF Stays, Held
<1>2. CASE LossStep \/ LeaveStep
    <2>1. copy' = Returned
        BY <1>2 DEF LossStep, Restart, LoseConnection, Disconnect, LeaveStep, StreamClosed,
           SinkCancelled, RefuseFails, SinkLeaves
    <2>2. QED
        BY <2>1, ReturnedType DEF IInv, Stays, Held
<1>3. CASE \E o \in Origins : Arrive(o)
    <2>1. PICK d \in Copies : ~Held(d) /\ \A c \in Copies : c # d => copy'[c] = copy[c]
        BY <1>3 DEF Arrive, IInv, TypeOK
    <2>2. QED
        BY <2>1 DEF Stays, Held
<1>4. CASE \E d \in Copies : DelayExpires(d)
    BY <1>4 DEF DelayExpires, IInv, TypeOK, Stays, Held
<1>5. CASE (\E d \in Copies : Deliver(d)) \/ Nack
    BY <1>5 DEF Deliver, Nack, Put, IInv, TypeOK, Stays, Held
<1>6. CASE RefuseDone \/ Ack
    <2>1. CASE link = "up"
        <3>1. /\ copy' = [copy EXCEPT ![cur.copy] = Free] /\ cur.copy \in Copies
              /\ copy[cur.copy].origin = cur.origin
            BY <1>6, <2>1 DEF RefuseDone, Ack, Forget, IInv, HandOK, Working
        <3>2. \A d \in Copies : d # cur.copy => copy'[d] = copy[d]
            BY <3>1 DEF IInv, TypeOK
        <3>3. Settled(cur.copy) \/ Elsewhere(cur.copy)
            <4>1. CASE RefuseDone
                BY <2>1, <3>1, <4>1 DEF RefuseDone, Settled
            <4>2. CASE Ack /\ path = "requeued"
                <5>1. PICK d \in Copies : d # cur.copy /\ copy[d].at \in {"delayed", "ready"}
                                          /\ copy[d].origin = cur.origin
                    BY <2>1, <4>2 DEF Ack, IInv, AnswerOK, CopyBeforeAck
                <5>2. QED
                    BY <3>1, <3>2, <5>1 DEF Elsewhere, Stays, Held
            <4>3. CASE Ack /\ path # "requeued"
                BY <3>1, <4>3 DEF Ack, SinkGoto, IInv, AnswerOK, Settled
            <4>4. QED
                BY <1>6, <4>1, <4>2, <4>3
        <3>4. QED
            BY <3>2, <3>3 DEF Stays, Held
    <2>2. CASE link # "up"
        BY <1>6, <2>2 DEF RefuseDone, Ack, Stays, Held
    <2>3. QED
        BY <2>1, <2>2
<1>7. CASE RequeueStep
    <2>1. \/ copy' = copy
          \/ \E d \in Copies : ~Held(d) /\ copy' = [copy EXCEPT ![d] = Delayed]
        BY <1>7 DEF RequeueStep, StartRequeue, RequeueCancelled, Take, Republish,
           RepublishFails, RequeueLeaves, brokerVars
    <2>2. QED
        BY <2>1 DEF IInv, TypeOK, Stays, Held
<1>8. QED
    BY <1>1, <1>2, <1>3, <1>4, <1>5, <1>6, <1>7, Steps DEF CopyStep

LEMMA SettledGrows ==
    ASSUME IInv, Next
    PROVE  /\ handled \subseteq handled' /\ refused \subseteq refused'
           /\ \A o \in arrived' : o \in arrived
                                  \/ \E c \in Copies : Held(c)' /\ copy'[c].origin = o
<1>1. CASE ServerStep \/ LossStep
    BY <1>1, ServerConn, LossConn DEF IInv, brokerVars, sinkVars
<1>2. CASE \E o \in Origins : Arrive(o)
    <2>1. PICK o \in Origins : Arrive(o)
        BY <1>2
    <2>2. PICK c \in Copies : copy' = [copy EXCEPT ![c] =
              [at |-> "ready", origin |-> o, count |-> 0, durable |-> TRUE]]
        BY <2>1 DEF Arrive
    <2>3. Held(c)' /\ copy'[c].origin = o
        BY <2>2 DEF IInv, TypeOK, Held
    <2>4. QED
        BY <2>1, <2>3 DEF Arrive, sinkVars
<1>3. CASE (\E c \in Copies : DelayExpires(c)) \/ Registering \/ RequeueStep
    BY <1>3 DEF DelayExpires, Registering, RegisterRequeue, SetRequeue, RequeueStep,
       StartRequeue, RequeueCancelled, Take, Republish, RepublishFails, RequeueLeaves,
       brokerVars, sinkVars
<1>4. CASE \/ StartSink \/ LeaveStep \/ (\E c \in Copies : Deliver(c)) \/ ThinkStep
           \/ Offer \/ RequeueAborted \/ RefuseDone \/ Ack \/ Nack
    BY <1>4 DEF StartSink, LeaveStep, StreamClosed, SinkCancelled, RefuseFails, SinkLeaves,
       Deliver, ThinkStep, Keep, Refuse, HandleSucceeds, HandleFails, Answered, Offer,
       RequeueAborted, RefuseDone, Ack, Nack, SinkGoto, brokerVars
<1>5. QED
    BY <1>1, <1>2, <1>3, <1>4, Steps DEF CopyStep

LEMMA KeptStep ==
    ASSUME IInv, NothingLost, Next,
           \A c \in Copies : Held(c) => Stays(c) \/ Elsewhere(c) \/ Settled(c)
    PROVE  NothingLost'
<1> SUFFICES ASSUME NEW o \in arrived', o \notin handled' \union refused'
             PROVE  \E c \in Copies : Held(c)' /\ copy'[c].origin = o
    BY DEF NothingLost
<1>1. CASE o \notin arrived
    BY <1>1, SettledGrows
<1>2. CASE o \in arrived
    <2>1. PICK c \in Copies : Held(c) /\ copy[c].origin = o
        BY <1>2, SettledGrows DEF NothingLost
    <2>2. Stays(c) \/ Elsewhere(c)
        BY <2>1 DEF Settled
    <2>3. QED
        BY <2>1, <2>2 DEF Stays, Elsewhere, Held
<1>3. QED
    BY <1>1, <1>2

LEMMA NothingLostIdle == ASSUME NothingLost, UNCHANGED vars PROVE NothingLost'
BY DEF NothingLost, Held, vars, brokerVars, sinkVars

(***************************************************************************)
(* A message that reached the queue of the sink is with the broker until   *)
(* its handler returned nil or a check refused it, whatever connections    *)
(* are lost and whatever the requeue fails to publish.  The broker is      *)
(* assumed not to restart: the copy the requeue publishes is not           *)
(* persistent (requeuer.go leaves the delivery mode out).                  *)
(***************************************************************************)
THEOREM MessagesAreKept == ASSUME ~Restarts PROVE SafeSpec => []NothingLost
<1>1. Init => NothingLost
    BY DEF Init, NothingLost
<1>2. IInv /\ NothingLost /\ [Next]_vars => NothingLost'
    <2>1. ~Restart
        BY DEF Restart
    <2>2. QED
        BY <2>1, HeldSteps, KeptStep, NothingLostIdle
<1>3. QED
    BY <1>1, <1>2, Invariance, PTL DEF SafeSpec

-----------------------------------------------------------------------------
(***************************************************************************)
(* While nothing has failed or been cancelled, a request is given up by    *)
(* nobody: it is awaited for as long as the requeue has it.                *)
(***************************************************************************)
CalmOK ==
    calm => /\ gctx = "live" /\ link \in {"none", "up"}
            /\ link = "up" => ctx = "live"
            /\ box # NoRequest => box.awaited
            /\ rq = "publish" => taken.awaited

\* No goroutine leaves, and a working one has its connection.
LEMMA CalmStays ==
    ASSUME IInv, CalmOK, calm
    PROVE  /\ sink # "off" \/ rq # "off" => link = "up" /\ ctx = "live"
           /\ ~LeaveStep /\ ~RequeueCancelled /\ ~RequeueAborted /\ ~NoticeLoss
<1>1. sink # "off" \/ rq # "off" => link = "up" /\ ctx = "live"
    BY DEF IInv, ConnOK, CalmOK
<1>2. QED
    BY <1>1 DEF CalmOK, LeaveStep, StreamClosed, SinkCancelled, RefuseFails,
       RequeueCancelled, RequeueAborted, NoticeLoss

LEMMA CalmStep == ASSUME Next, calm' PROVE calm
BY DEF Next, Broker, Environment, Serve, Registering, SinkStep, Transaction, RequeueCall,
   RequeueStep, DelayExpires, Arrive, Restart, LoseConnection, OtherReturns, Shutdown,
   Connect, DialFails, StopStreaming, Disconnect, Pause, NoticeLoss, RegisterRequeue,
   SetRequeue, CreateFails, StartSink, StreamClosed, SinkCancelled, SinkLeaves, Deliver,
   Keep, Refuse, RefuseDone, RefuseFails, HandleSucceeds, HandleFails, Offer, Answered,
   RequeueAborted, Ack, Nack, StartRequeue, RequeueCancelled, RequeueLeaves, Take,
   Republish, RepublishFails, connVars

LEMMA CalmInv == ASSUME IInv, CalmOK, Next PROVE CalmOK'
<1> SUFFICES ASSUME calm' PROVE CalmOK'
    BY DEF CalmOK
<1>1. calm
    BY CalmStep
<1>2. CASE ServerStep
    <2>1. UNCHANGED <<box, rq, taken>>
        BY <1>2, ServerConn DEF IInv, rqVars
    <2>2. Connect \/ StopStreaming \/ Pause
        BY <1>1, <1>2, CalmStays DEF ServerStep, DialFails, OtherReturns, Shutdown, CreateFails
    <2>3. /\ gctx' = gctx
          /\ (link' = "up" /\ ctx' = "live") \/ (link' = link /\ ctx' = ctx)
        BY <2>2 DEF Connect, StopStreaming, Pause
    <2>4. QED
        BY <1>1, <2>1, <2>3 DEF CalmOK
<1>3. CASE LossStep
    <2>1. Disconnect
        BY <1>3 DEF LossStep, Restart, LoseConnection
    <2>2. link' = "none" /\ UNCHANGED <<gctx, box, rq, taken>>
        BY <2>1 DEF Disconnect, rqVars
    <2>3. QED
        BY <1>1, <2>2 DEF CalmOK
<1>4. CASE \/ CopyStep \/ StartSink \/ (\E c \in Copies : Deliver(c)) \/ ThinkStep
           \/ Registering \/ RefuseDone \/ Ack \/ Nack
    <2>1. UNCHANGED <<gctx, ctx, link, box, rq, taken>>
        BY <1>4 DEF CopyStep, Arrive, DelayExpires, StartSink, Deliver, ThinkStep, Keep,
           Refuse, HandleSucceeds, HandleFails, Answered, Registering, RegisterRequeue,
           SetRequeue, RefuseDone, Ack, Nack, connVars, rqVars
    <2>2. QED
        BY <1>1, <2>1 DEF CalmOK
<1>5. CASE Offer
    <2>1. UNCHANGED <<gctx, ctx, link, rq, taken>> /\ box'.awaited
        BY <1>5 DEF Offer, connVars
    <2>2. QED
        BY <1>1, <2>1 DEF CalmOK
<1>6. CASE RequeueStep
    <2>1. StartRequeue \/ Take \/ Republish
        BY <1>1, <1>6, CalmStays DEF RequeueStep, RepublishFails
    <2>2. UNCHANGED <<gctx, ctx, link>>
        BY <2>1 DEF StartRequeue, Take, Republish, connVars
    <2>3. (box' = box \/ box' = NoRequest) /\ (rq' = "select" \/ (taken' = box /\ box # NoRequest))
        BY <2>1 DEF StartRequeue, Take, Republish
    <2>4. QED
        BY <1>1, <2>2, <2>3 DEF CalmOK
<1>7. QED
    BY <1>1, <1>2, <1>3, <1>4, <1>5, <1>6, CalmStays, Steps

-----------------------------------------------------------------------------
\* Two copies of one message, and when there may be two.
Twins(c, d) == c # d /\ Held(c) /\ Held(d) /\ copy[c].origin = copy[d].origin
TwinsMoment == \/ sink = "await" /\ answer = "ok"
               \/ sink = "ack" /\ path = "requeued"

LEMMA TwinsOnly ==
    NoDuplicates <=>
        (calm => \A c, d \in Copies : Twins(c, d) => cur.copy \in {c, d} /\ TwinsMoment)
BY DEF NoDuplicates, Twins, TwinsMoment

LEMMA TwinsInv == ASSUME IInv, CalmOK, NoDuplicates, Next PROVE NoDuplicates'
<1> SUFFICES ASSUME calm', NEW c \in Copies, NEW d \in Copies, Twins(c, d)'
             PROVE  (cur.copy)' \in {c, d} /\ TwinsMoment'
    BY DEF NoDuplicates, Twins, TwinsMoment
<1>1. /\ calm
      /\ \A a, b \in Copies : Twins(a, b) => cur.copy \in {a, b} /\ TwinsMoment
    BY CalmStep, TwinsOnly
<1>2. CASE ServerStep \/ Registering \/ StartSink \/ StartRequeue \/ Take
    <2>1. UNCHANGED <<copy, cur, answer, path>> /\ (sink' = sink \/ sink = "off")
        BY <1>2, ServerConn DEF IInv, ConnOK, Registering, RegisterRequeue, SetRequeue,
           StartSink, Life!ChannelCreated, StartRequeue, Take, brokerVars, sinkVars, rqVars
    <2>2. QED
        BY <1>1, <2>1 DEF Twins, Held, TwinsMoment
<1>3. CASE LossStep
    <2>1. Disconnect
        BY <1>3 DEF LossStep, Restart, LoseConnection
    <2>2. copy' = Returned /\ UNCHANGED <<cur, answer, path, sink>>
        BY <2>1 DEF Disconnect, sinkVars, rqVars
    <2>3. QED
        BY <1>1, <2>2, ReturnedType DEF IInv, Twins, Held, TwinsMoment
<1>4. CASE CopyStep
    <2>1. UNCHANGED <<cur, answer, path, sink>>
        BY <1>4 DEF CopyStep, Arrive, DelayExpires, sinkVars, rqVars
    <2>2. CASE \E o \in Origins : Arrive(o)
        <3>1. PICK o \in Origins : Arrive(o)
            BY <2>2
        <3>2. PICK e \in Copies : copy' = [copy EXCEPT ![e] =
                  [at |-> "ready", origin |-> o, count |-> 0, durable |-> TRUE]]
            BY <3>1 DEF Arrive
        <3>3. copy'[e].origin = o /\ \A a \in Copies : a # e => copy'[a] = copy[a]
            BY <3>2 DEF IInv, TypeOK
        <3>4. \A a \in Copies : Held(a) => copy[a].origin # o
            BY <3>1 DEF Arrive, IInv, OriginsOK
        <3>5. c # e /\ d # e
            BY <3>3, <3>4 DEF Twins, Held
        <3>6. QED
            BY <1>1, <2>1, <3>3, <3>5 DEF Twins, Held, TwinsMoment
    <2>3. CASE \E e \in Copies : DelayExpires(e)
        <3>1. \A a \in Copies : (Held(a)' <=> Held(a)) /\ copy'[a].origin = copy[a].origin
            BY <2>3 DEF DelayExpires, Held, IInv, TypeOK
        <3>2. QED
            BY <1>1, <2>1, <3>1 DEF Twins, TwinsMoment
    <2>4. QED
        BY <1>4, <2>2, <2>3 DEF CopyStep
<1>5. CASE \E e \in Copies : Deliver(e)
    <2>1. \A a \in Copies : (Held(a)' <=> Held(a)) /\ copy'[a].origin = copy[a].origin
        BY <1>5 DEF Deliver, Put, Held, IInv, TypeOK
    <2>2. sink = "select"
        BY <1>5 DEF Deliver
    <2>3. QED
        BY <1>1, <2>1, <2>2 DEF Twins, TwinsMoment
<1>6. CASE ThinkStep \/ Offer
    <2>1. UNCHANGED <<copy, cur>>
        BY <1>6 DEF ThinkStep, Keep, Refuse, HandleSucceeds, HandleFails, Answered, Offer,
           SinkGoto, brokerVars
    <2>2. TwinsMoment
        BY <1>1, <2>1 DEF Twins, Held
    <2>3. Answered /\ answer = "ok"
        BY <1>6, <2>2 DEF ThinkStep, Keep, Refuse, HandleSucceeds, HandleFails, Answered,
           Offer, TwinsMoment
    <2>4. QED
        BY <1>1, <2>1, <2>3 DEF Answered, Twins, Held, TwinsMoment
<1>7. CASE RefuseDone \/ Ack
    <2>1. /\ link = "up" /\ cur.copy \in Copies
        BY <1>1, <1>7, CalmStays DEF RefuseDone, Ack, IInv, HandOK, Working
    <2>2. copy' = [copy EXCEPT ![cur.copy] = Free]
        BY <1>7, <2>1 DEF RefuseDone, Ack, Forget
    <2>3. copy'[cur.copy].at = "none" /\ \A a \in Copies : a # cur.copy => copy'[a] = copy[a]
        BY <2>1, <2>2 DEF Held, Free, IInv, TypeOK
    <2>4. cur.copy \notin {c, d} /\ Twins(c, d)
        BY <2>3 DEF Twins, Held
    <2>5. QED
        BY <1>1, <2>4
<1>8. CASE Nack
    <2>1. \A a \in Copies : Held(a)' => Held(a) /\ copy'[a].origin = copy[a].origin
        BY <1>1, <1>8, CalmStays DEF Nack, Put, Held, IInv, TypeOK, HandOK, Working
    <2>2. ~TwinsMoment
        BY <1>8 DEF Nack, TwinsMoment
    <2>3. QED
        BY <1>1, <2>1, <2>2 DEF Twins
<1>9. CASE Republish
    <2>1. /\ taken.awaited /\ answer' = "ok" /\ cur' = cur /\ sink' = sink
        BY <1>1, <1>9 DEF Republish, Tell, CalmOK, sinkVars
    <2>2. /\ sink = "await" /\ answer = "none" /\ taken.origin = cur.origin
          /\ link = "up" /\ cur.copy \in Copies /\ copy[cur.copy].origin = cur.origin
          /\ copy[cur.copy].at = "unacked"
        BY <1>1, <2>1, CalmStays DEF IInv, RequestOK, HandOK, Working
    <2>3. \A a, b \in Copies : ~Twins(a, b)
        BY <1>1, <2>2 DEF TwinsMoment
    <2>4. PICK e \in Copies : ~Held(e) /\ copy' = [copy EXCEPT ![e] = Delayed]
        BY <1>9, <2>3 DEF Republish, Twins, Held
    <2>5. /\ copy'[e].origin = cur.origin /\ e # cur.copy
          /\ \A a \in Copies : a # e => copy'[a] = copy[a]
        BY <2>2, <2>4 DEF IInv, TypeOK, Delayed, Held
    <2>6. e \in {c, d}
        BY <2>3, <2>5 DEF Twins, Held
    <2>7. cur.copy \in {c, d}
        <3>1. PICK a \in {c, d} : a # e /\ Held(a) /\ copy[a].origin = cur.origin
            BY <2>5, <2>6 DEF Twins, Held
        <3>2. a = cur.copy
            BY <2>2, <2>3, <3>1 DEF Twins, Held
        <3>3. QED
            BY <3>1, <3>2
    <2>8. QED
        BY <2>1, <2>2, <2>7 DEF TwinsMoment
<1>10. QED
    BY <1>1, <1>2, <1>3, <1>4, <1>5, <1>6, <1>7, <1>8, <1>9, CalmStays, Steps
    DEF RequeueStep, RepublishFails

(***************************************************************************)
(* Retrying through the requeue duplicates no message while nothing fails  *)
(* or is cancelled: of the two copies there are between the publishing of  *)
(* requeuer.go and the Ack of sink.go one is the delivery in hand.         *)
(***************************************************************************)
THEOREM RetriesDuplicateNothing == SafeSpec => []NoDuplicates
<1>1. Init => CalmOK /\ NoDuplicates
    BY DEF Init, CalmOK, NoDuplicates, Held, Free
<1>2. IInv /\ CalmOK /\ NoDuplicates /\ [Next]_vars => CalmOK' /\ NoDuplicates'
    <2> SUFFICES ASSUME IInv, CalmOK, NoDuplicates, [Next]_vars
                 PROVE  CalmOK' /\ NoDuplicates'
        OBVIOUS
    <2>1. CASE Next
        BY <2>1, CalmInv, TwinsInv
    <2>2. CASE UNCHANGED vars
        BY <2>2 DEF CalmOK, NoDuplicates, Held, vars, connVars, brokerVars, sinkVars, rqVars
    <2>3. QED
        BY <2>1, <2>2
<1>3. QED
    BY <1>1, <1>2, Invariance, PTL DEF SafeSpec

-----------------------------------------------------------------------------
(***************************************************************************)
(* The finding of transact_stuck, for every instance.  A sink that waits   *)
(* in Requeue for a goroutine that has left (requeuer.go) is answered by   *)
(* nobody, and the connection it holds open is not replaced, so nothing    *)
(* but the context of the broker lets it go.                               *)
(***************************************************************************)
Stuck == /\ sink = "await" /\ answer = "none"
         /\ rq = "off" /\ "requeue" \in started

(* requeuer.go: a sink that is stuck so stays stuck, through every step of the
   server, the broker and the senders, while the context is live. *)
THEOREM StuckUntilShutdown ==
    SafeSpec => [][gctx = "live" /\ Stuck => Stuck']_vars
<1>1. ASSUME IInv, [Next]_vars, gctx = "live", Stuck PROVE Stuck'
    <2> USE <1>1 DEF Stuck
    <2>1. CASE ServerStep
        <3>1. UNCHANGED <<sink, rq, answer>>
            BY <2>1, ServerConn DEF IInv, sinkVars, rqVars
        <3>2. ~Connect
            BY DEF IInv, ConnOK, Life!Connected, Connect, Life!Connect, Life!Move
        <3>3. started \subseteq started'
            BY <2>1, <3>2 DEF ServerStep, DialFails, StopStreaming, Pause, NoticeLoss,
               OtherReturns, Shutdown, CreateFails
        <3>4. QED
            BY <3>1, <3>3
    <2>2. CASE LossStep \/ CopyStep \/ Registering
        BY <2>2 DEF LossStep, Restart, LoseConnection, Disconnect, CopyStep, Arrive,
           DelayExpires, Registering, RegisterRequeue, SetRequeue, connVars, sinkVars, rqVars
    <2>3. ~StartSink
        BY DEF IInv, ConnOK, StartSink, Life!ChannelCreated
    <2>4. /\ ~LeaveStep /\ ~ThinkStep /\ ~Offer /\ ~RequeueAborted
          /\ ~RefuseDone /\ ~Ack /\ ~Nack /\ ~RequeueStep /\ ~\E c \in Copies : Deliver(c)
        BY DEF LeaveStep, StreamClosed, SinkCancelled, RefuseFails, ThinkStep, Keep, Refuse,
           HandleSucceeds, HandleFails, Answered, Offer, RequeueAborted, RefuseDone, Ack,
           Nack, RequeueStep, StartRequeue, RequeueCancelled, Take, Republish,
           RepublishFails, Deliver
    <2>5. CASE UNCHANGED vars
        BY <2>5 DEF vars, connVars, sinkVars, rqVars
    <2>6. QED
        BY <2>1, <2>2, <2>3, <2>4, <2>5, Steps
<1>2. QED
    BY <1>1, Invariance, PTL DEF SafeSpec

-----------------------------------------------------------------------------
(***************************************************************************)
(* Without SinkConfig.Requeue restarts are harmless: all a restart takes   *)
(* are the copies that the requeue has published, so a message is with the *)
(* broker until it is handled or refused.                                  *)
(***************************************************************************)
NoRequeue == /\ reqset = "never" /\ rq = "off" /\ sink \notin {"offer", "await"}
             /\ ~(sink = "ack" /\ path = "requeued")
             /\ \A c \in Copies : Held(c) => copy[c].durable

LEMMA NoRequeueStep == ASSUME IInv, NoRequeue, Next PROVE NoRequeue'
<1> USE DEF NoRequeue
<1>1. CASE ServerStep
    BY <1>1, ServerConn DEF IInv, Held, brokerVars, sinkVars, rqVars
<1>2. CASE LossStep
    <2>1. UNCHANGED <<sink, path, reqset, rq>>
        BY <1>2, LossConn DEF IInv, sinkVars, rqVars
    <2>2. \A c \in Copies : copy'[c] = Returned[c] \/ copy'[c] = Free
        BY <1>2 DEF LossStep, Restart, LoseConnection, Disconnect
    <2>3. QED
        BY <2>1, <2>2, ReturnedType DEF IInv, Held, Free
<1>3. CASE CopyStep
    <2>1. UNCHANGED <<sink, path, reqset, rq>>
        BY <1>3 DEF CopyStep, Arrive, DelayExpires, sinkVars, rqVars
    <2>2. CASE \E o \in Origins : Arrive(o)
        BY <2>1, <2>2 DEF Arrive, Held, IInv, TypeOK
    <2>3. CASE \E c \in Copies : DelayExpires(c)
        BY <2>1, <2>3 DEF DelayExpires, Held, IInv, TypeOK
    <2>4. QED
        BY <1>3, <2>2, <2>3 DEF CopyStep
<1>4. CASE StartSink \/ ThinkStep
    BY <1>4 DEF StartSink, ThinkStep, Keep, Refuse, HandleSucceeds, HandleFails, Answered,
       SinkGoto, Held, brokerVars, rqVars
<1>5. CASE LeaveStep
    BY <1>5, ReturnedType DEF LeaveStep, StreamClosed, SinkCancelled, RefuseFails, SinkLeaves,
       Held, IInv, rqVars
<1>6. CASE \E c \in Copies : Deliver(c)
    BY <1>6 DEF Deliver, Put, Held, IInv, TypeOK, rqVars
<1>7. CASE RefuseDone \/ Ack \/ Nack
    <2>1. sink' = "select" /\ UNCHANGED <<reqset, rq>>
        BY <1>7 DEF RefuseDone, Ack, Nack, SinkGoto, rqVars
    <2>2. \A c \in Copies : copy'[c].at = "none"
                            \/ (Held(c) /\ copy'[c].durable = copy[c].durable)
        <3>1. cur.copy \in Copies /\ (link = "up" => Held(cur.copy))
            BY <1>7 DEF IInv, HandOK, Working, RefuseDone, Ack, Nack, Held
        <3>2. \A c \in Copies : ~Held(c) => copy[c].at = "none"
            BY DEF Held
        <3>3. QED
            BY <1>7, <3>1, <3>2 DEF RefuseDone, Ack, Nack, Forget, Put, Free, IInv, TypeOK
    <2>3. QED
        BY <2>1, <2>2 DEF Held
<1>8. ~Offer /\ ~RequeueAborted /\ ~Registering /\ ~RequeueStep
    BY DEF Offer, RequeueAborted, Registering, RegisterRequeue, SetRequeue, RequeueStep,
       StartRequeue, RequeueCancelled, Take, Republish, RepublishFails
<1>9. QED
    BY <1>1, <1>2, <1>3, <1>4, <1>5, <1>6, <1>7, <1>8, Steps

LEMMA DurableSteps ==
    ASSUME IInv, NoRequeue, Next
    PROVE  \A c \in Copies : Held(c) => Stays(c) \/ Elsewhere(c) \/ Settled(c)
<1>1. CASE Restart
    <2>1. \A c \in Copies : Held(c) => copy'[c] = Returned[c]
        BY <1>1 DEF Restart, NoRequeue
    <2>2. QED
        BY <2>1, ReturnedType DEF IInv, Stays, Held
<1>2. CASE ~Restart
    BY <1>2, HeldSteps
<1>3. QED
    BY <1>1, <1>2

(* sink.go: a restart of the broker loses nothing of a sink without requeue, in
   whose name no transient copy is made. *)
THEOREM RestartsAreHarmless == ASSUME TRUE \notin Setups PROVE SafeSpec => []NothingLost
<1>1. Init => NoRequeue /\ NothingLost
    <2> SUFFICES ASSUME Init PROVE NoRequeue /\ NothingLost
        OBVIOUS
    <2>1. \A requeue \in Setups : requeue = FALSE
        BY Zenon, TransactAssumption
    <2>2. reqset = "never"
        BY <2>1 DEF Init
    <2>3. QED
        BY <2>2 DEF Init, NoRequeue, NothingLost, Held, Free
<1>2. IInv /\ NoRequeue /\ NothingLost /\ [Next]_vars => NoRequeue' /\ NothingLost'
    <2>1. ASSUME NoRequeue, UNCHANGED vars PROVE NoRequeue'
        BY <2>1 DEF NoRequeue, Held, vars, brokerVars, sinkVars, rqVars
    <2>2. QED
        BY <2>1, NoRequeueStep, DurableSteps, KeptStep, NothingLostIdle
<1>3. QED
    BY <1>1, <1>2, Invariance, PTL DEF SafeSpec

-----------------------------------------------------------------------------
(***************************************************************************)
(* The sink and the requeue use the server only as Lifecycle allows, which *)
(* is what Server is shown to implement.                                   *)
(***************************************************************************)
THEOREM TransactFollowsLifecycle == SafeSpec => Life!Spec
<1> USE DEF Life!lifecycleVars
<1>1. Init => Life!Init
    BY DEF Init
<1>2. [Next]_vars => [Life!Next]_<<srv, open>>
    <2> SUFFICES ASSUME [Next]_vars PROVE Life!Next \/ UNCHANGED <<srv, open>>
        OBVIOUS
    <2>1. CASE Serve
        BY <2>1 DEF Serve, Connect, DialFails, StopStreaming, Disconnect, Pause, Life!Next
    <2>2. CASE StartSink \/ LeaveStep \/ RequeueStep
        <3>1. \/ UNCHANGED <<srv, open>>
              \/ Life!ChannelCreated("sink") \/ Life!ChannelClosed("sink")
              \/ Life!ChannelCreated("requeue") \/ Life!ChannelClosed("requeue")
            BY <2>2 DEF StartSink, LeaveStep, StreamClosed, SinkCancelled, RefuseFails,
               SinkLeaves, RequeueStep, StartRequeue, RequeueCancelled, Take, Republish,
               RepublishFails, RequeueLeaves, connVars
        <3>2. QED
            BY <3>1 DEF Life!Next
    <2>3. CASE \/ NoticeLoss \/ OtherReturns \/ Shutdown \/ (\E h \in Handlers : CreateFails(h))
               \/ Restart \/ LoseConnection \/ CopyStep
        BY <2>3 DEF NoticeLoss, OtherReturns, Shutdown, CreateFails, Restart, LoseConnection,
           CopyStep, Arrive, DelayExpires, connVars
    <2>4. CASE \/ Registering \/ (\E c \in Copies : Deliver(c)) \/ ThinkStep
               \/ Offer \/ RequeueAborted \/ RefuseDone \/ Ack \/ Nack
        BY <2>4 DEF Registering, RegisterRequeue, SetRequeue, Deliver, ThinkStep, Keep, Refuse,
           HandleSucceeds, HandleFails, Answered, Offer, RequeueAborted, RefuseDone, Ack,
           Nack, connVars
    <2>5. CASE UNCHANGED vars
        BY <2>5 DEF vars, connVars
    <2>6. QED
        BY <2>1, <2>2, <2>3, <2>4, <2>5, Steps DEF ServerStep, LossStep, Serve
<1>3. QED
    BY <1>1, <1>2, PTL DEF SafeSpec, Life!Spec

-----------------------------------------------------------------------------
(***************************************************************************)
(* Stuck is the only way in which the sink, the requeue and the server     *)
(* wait for each other: the guards of their steps.                         *)
(***************************************************************************)
SinkReady ==
    \/ sink = "select" /\ (ctx = "done" \/ link = "broken")
    \/ sink \in {"decide", "refuse", "handle", "ack", "nack"}
    \/ sink = "offer" /\ (box = NoRequest \/ gctx = "done")
    \/ sink = "await" /\ (answer # "none" \/ gctx = "done")

\* A goroutine that is about to be given its channel counts as ready.
RequeueReady ==
    \/ rq = "publish"
    \/ rq = "select" /\ (box # NoRequest \/ ctx = "done")
    \/ rq = "off" /\ reqset = "set" /\ "requeue" \notin started /\ Life!Connected

ServerReady ==
    \/ srv \in {"ready", "disconnected", "idle"}
    \/ srv = "connection_established" /\ ctx = "done"
    \/ srv = "channels_created" /\ open = {}

OnlyStuck ==
    sink \notin {"off", "select"} => SinkReady \/ RequeueReady \/ Stuck

RoomInBox == gctx = "live" /\ sink = "offer" => box = NoRequest

ShutdownNotHeld ==
    gctx = "done" => srv = "finished" \/ ServerReady \/ SinkReady \/ RequeueReady

\* While the broker's context is live no request is given up: each one is
\* awaited, until it is answered.
AskOK ==
    /\ sink = "await" /\ answer = "none" => box.awaited \/ taken.awaited
    /\ sink \in {"offer", "await"} => reqset = "set"
    /\ gctx = "live" => /\ box # NoRequest => box.awaited
                        /\ rq = "publish" => taken.awaited
    /\ gctx = "done" => ctx = "done"

LEMMA AskInv == ASSUME IInv, AskOK, [Next]_vars PROVE AskOK'
<1> USE DEF AskOK
<1>1. CASE ServerStep
    <2>1. UNCHANGED <<sinkVars, rqVars>>
        BY <1>1, ServerConn DEF IInv
    <2>2. /\ gctx' = "live" => gctx = "live"
          /\ gctx' = "done" => ctx' = "done"
        BY <1>1 DEF ServerStep, Connect, DialFails, StopStreaming, Pause, NoticeLoss,
           OtherReturns, Shutdown, CreateFails, IInv, TypeOK
    <2>3. QED
        BY <2>1, <2>2 DEF sinkVars, rqVars
<1>2. CASE LossStep \/ CopyStep
    <2>1. UNCHANGED <<gctx, sinkVars, rqVars>> /\ ctx' \in {ctx, "done"}
        BY <1>2 DEF LossStep, Restart, LoseConnection, Disconnect, CopyStep, Arrive,
           DelayExpires, connVars
    <2>2. QED
        BY <2>1 DEF sinkVars, rqVars
<1>3. CASE Registering
    BY <1>3 DEF Registering, RegisterRequeue, SetRequeue, connVars, sinkVars
<1>4. CASE StartSink \/ LeaveStep \/ (\E c \in Copies : Deliver(c)) \/ RefuseDone \/ Ack \/ Nack
    <2>1. /\ UNCHANGED <<gctx, rqVars>> /\ ctx' \in {ctx, "done"}
          /\ sink' \in {"select", "off", "decide"}
        BY <1>4 DEF StartSink, LeaveStep, StreamClosed, SinkCancelled, RefuseFails,
           SinkLeaves, Deliver, RefuseDone, Ack, Nack, SinkGoto, connVars
    <2>2. QED
        BY <2>1 DEF rqVars
<1>5. CASE ThinkStep
    <2>1. /\ UNCHANGED <<connVars, rqVars>> /\ sink' # "await"
          /\ sink' = "offer" => reqset = "set"
        BY <1>5 DEF ThinkStep, Keep, Refuse, HandleSucceeds, HandleFails, Answered, SinkGoto
    <2>2. QED
        BY <2>1 DEF connVars, rqVars
<1>6. CASE Offer
    BY <1>6 DEF Offer, SinkGoto, connVars
<1>7. CASE RequeueAborted
    BY <1>7 DEF RequeueAborted, connVars
<1>8. CASE RequeueStep
    <2>1. UNCHANGED <<gctx, sinkVars, reqset>> /\ ctx' \in {ctx, "done"}
        BY <1>8 DEF RequeueStep, StartRequeue, RequeueCancelled, Take, Republish,
           RepublishFails, RequeueLeaves, connVars
    <2>2. CASE StartRequeue \/ RequeueCancelled
        BY <2>1, <2>2 DEF StartRequeue, RequeueCancelled, RequeueLeaves, sinkVars
    <2>3. CASE Take
        BY <2>1, <2>3 DEF Take, IInv, RequestOK, sinkVars
    <2>4. CASE Republish \/ RepublishFails
        <3>1. /\ box' = box /\ rq' # "publish"
              /\ answer' = "none" => ~taken.awaited /\ answer = "none"
            BY <2>4 DEF Republish, RepublishFails, RequeueLeaves, Tell
        <3>2. QED
            BY <2>1, <3>1 DEF sinkVars
    <2>5. QED
        BY <1>8, <2>2, <2>3, <2>4 DEF RequeueStep
<1>9. CASE UNCHANGED vars
    BY <1>9 DEF vars, connVars, sinkVars, rqVars
<1>10. QED
    BY <1>1, <1>2, <1>3, <1>4, <1>5, <1>6, <1>7, <1>8, <1>9, Steps

LEMMA Asked == SafeSpec => []AskOK
<1>1. Init => AskOK
    BY DEF Init, AskOK
<1>2. QED
    BY <1>1, AskInv, Invariance, PTL DEF SafeSpec

(* requeuer.go and sink.go: a transaction of the sink can go on, or the requeue
   works for it, or it is Stuck; and the request channel, of capacity 1, has
   room whenever Requeue sends on it. *)
THEOREM NoOtherDeadlock == SafeSpec => [](OnlyStuck /\ RoomInBox)
<1>1. ASSUME IInv, AskOK PROVE OnlyStuck
    <2> SUFFICES ASSUME sink \notin {"off", "select"}, ~SinkReady, ~Stuck
                 PROVE  RequeueReady
        BY DEF OnlyStuck
    <2>1. gctx = "live" /\ (sink = "await" => answer = "none")
        BY <1>1 DEF SinkReady, IInv, TypeOK
    <2>2. sink \in {"offer", "await"} /\ (sink = "offer" => box # NoRequest)
        BY <1>1 DEF SinkReady, IInv, TypeOK
    <2>3. sink = "await"
        BY <1>1, <2>1, <2>2 DEF AskOK, IInv, RequestOK
    <2>4. reqset = "set" /\ (box.awaited \/ rq = "publish")
        BY <1>1, <2>1, <2>3 DEF AskOK, IInv, RequestOK
    <2>5. box.awaited => box # NoRequest
        BY DEF NoRequest
    <2>6. Life!Connected
        BY <1>1, <2>3 DEF IInv, ConnOK
    <2>7. QED
        BY <1>1, <2>1, <2>3, <2>4, <2>5, <2>6 DEF RequeueReady, Stuck, IInv, TypeOK
<1>2. ASSUME IInv, AskOK PROVE RoomInBox
    BY <1>2 DEF RoomInBox, AskOK, IInv, RequestOK
<1>3. QED
    BY <1>1, <1>2, Asked, Invariance, PTL

(* amqp.go, sink.go and requeuer.go: once the broker's context is closed one of
   the goroutines can take a step until the server has finished; a transaction
   or a request that nobody answers does not hold it. *)
THEOREM ShutdownIsNotHeld == SafeSpec => []ShutdownNotHeld
<1>1. ASSUME IInv, AskOK PROVE ShutdownNotHeld
    <2> SUFFICES ASSUME gctx = "done", srv # "finished", ~ServerReady, ~SinkReady
                 PROVE  RequeueReady
        BY DEF ShutdownNotHeld
    <2>1. ctx = "done"
        BY <1>1 DEF AskOK
    <2>2. sink = "off"
        BY <1>1, <2>1 DEF SinkReady, IInv, TypeOK
    <2>3. srv = "channels_created" /\ open # {}
        BY <1>1, <2>1 DEF ServerReady, IInv, TypeOK, Life!States
    <2>4. rq # "off"
        BY <1>1, <2>2, <2>3 DEF IInv, ConnOK, TypeOK
    <2>5. QED
        BY <1>1, <2>1, <2>4 DEF RequeueReady, IInv, TypeOK
<1>2. QED
    BY <1>1, Asked, Invariance, PTL
===============================================================================
