-------------------------------- MODULE Rpc --------------------------------
(***************************************************************************)
(* rpc.go: calls over a broker.  A caller registers the reply channel of   *)
(* its call under a fresh correlation id, publishes the request and waits; *)
(* the handler of the reply sink (onMessage) finds the channel, sends the  *)
(* reply and closes it; a goroutine of its own closes what is left once    *)
(* the broker has finished.  The writer and the sink are handlers of one   *)
(* Server, which appears as the Lifecycle it is shown to implement.        *)
(*                                                                         *)
(* A member of Calls is one call with its correlation id.  What becomes of *)
(* a written request is external: it may be answered, answered twice, or   *)
(* never, and replies get lost.                                            *)
(*                                                                         *)
(* Definitions named X_... are faulty variants of X, used to see that the  *)
(* properties reject them; they are not part of the specification.         *)
(***************************************************************************)
EXTENDS Naturals

CONSTANTS Calls,      \* calls, each with an id of its own
          NoCall,     \* "no reply in hand"
          MaxReplies  \* bound of the model: replies to one request

ASSUME RpcAssumption == NoCall \notin Calls /\ MaxReplies \in Nat

Handlers == {"writer", "sink"}

VARIABLES srv, open,    \* the server, and whose ChannelReady runs
          started,      \* handlers that were given a channel on this connection
          gctx,         \* the context of the broker
          call,         \* where the caller of each call is
          correlation,  \* rpc.correlation: the calls with an entry
          buffered,     \* calls whose reply channel (capacity 1) holds a reply
          closed,       \* calls whose reply channel is closed
          backlog,      \* requests the writer has still to publish
          written,      \* requests it has published: their Done is closed
          answers,      \* replies ever sent to each call
          replies,      \* replies in the queue of the sink
          sink, cur,    \* where onMessage is, and the call of its message
          seen,         \* calls a reply of which onMessage has looked up
          release       \* the goroutine of BuildRPC: waiting or done

lifeVars  == <<srv, open, started, gctx>>
callVars  == <<call, correlation, buffered, closed>>
wireVars  == <<backlog, written, answers, replies>>
sinkVars  == <<sink, cur, seen>>
vars == <<lifeVars, callVars, wireVars, sinkVars, release>>

Life == INSTANCE Lifecycle WITH state <- srv, channels <- open

Init ==
    /\ Life!Init /\ started = {} /\ gctx = "live"
    /\ call = [c \in Calls |-> "idle"]
    /\ correlation = {} /\ buffered = {} /\ closed = {}
    /\ backlog = {} /\ written = {}
    /\ answers = [c \in Calls |-> 0] /\ replies = [c \in Calls |-> 0]
    /\ sink = "off" /\ cur = NoCall /\ seen = {}
    /\ release = "waiting"

Goto(c, label) == call' = [call EXCEPT ![c] = label]

-----------------------------------------------------------------------------
\* Raw: the entry of the call, then "<-ms.Send()".

Register(c) ==
    /\ call[c] = "idle"
    /\ Goto(c, "registered")
    /\ correlation' = correlation \union {c}
    /\ UNCHANGED <<lifeVars, buffered, closed, wireVars, sinkVars, release>>

Send(c) ==
    /\ call[c] = "registered"
    /\ Goto(c, "sending")
    /\ backlog' = backlog \union {c}
    /\ UNCHANGED <<lifeVars, correlation, buffered, closed, written, answers,
                   replies, sinkVars, release>>

\* Raw that removes the entry when it returns.
Sent_Forget(c) ==
    /\ call[c] = "sending" /\ c \in written
    /\ Goto(c, "reading")
    /\ correlation' = correlation \ {c}
    /\ UNCHANGED <<lifeVars, buffered, closed, wireVars, sinkVars, release>>

Sent(c) ==
    /\ call[c] = "sending" /\ c \in written
    /\ Goto(c, "reading")
    /\ UNCHANGED <<lifeVars, correlation, buffered, closed, wireVars, sinkVars, release>>

\* Reply.JSON and Reply.Bytes: a reply, or "closed channel".
Receive(c) ==
    /\ call[c] = "reading" /\ c \in buffered
    /\ Goto(c, "answered")
    /\ buffered' = buffered \ {c}
    /\ UNCHANGED <<lifeVars, correlation, closed, wireVars, sinkVars, release>>

ReceiveClosed(c) ==
    /\ call[c] = "reading" /\ c \in closed \ buffered
    /\ Goto(c, "released")
    /\ UNCHANGED <<lifeVars, correlation, buffered, closed, wireVars, sinkVars, release>>

-----------------------------------------------------------------------------
\* onMessage, in the goroutine of the sink.

Deliver(c) ==
    /\ sink = "select" /\ replies[c] > 0
    /\ replies' = [replies EXCEPT ![c] = @ - 1]
    /\ sink' = "lookup" /\ cur' = c
    /\ UNCHANGED <<lifeVars, callVars, backlog, written, answers, seen, release>>

\* The entry stays for a second reply.
Lookup_Keep ==
    /\ sink = "lookup"
    /\ sink' = IF cur \in correlation THEN "send" ELSE "select"
    /\ seen' = seen \union {cur}
    /\ UNCHANGED <<lifeVars, callVars, wireVars, cur, release>>

Lookup ==
    /\ sink = "lookup"
    /\ correlation' = correlation \ {cur}
    /\ sink' = IF cur \in correlation THEN "send" ELSE "select"
    /\ seen' = seen \union {cur}
    /\ UNCHANGED <<lifeVars, call, buffered, closed, wireVars, cur, release>>

SendReply ==
    /\ sink = "send" /\ cur \notin buffered
    /\ buffered' = buffered \union {cur}
    /\ sink' = "close"
    /\ UNCHANGED <<lifeVars, call, correlation, closed, wireVars, cur, seen, release>>

\* The message is let go before its channel is closed.
CloseReply_LetGo ==
    /\ sink = "close"
    /\ cur' = NoCall /\ closed' = closed \union {NoCall}
    /\ sink' = "select"
    /\ UNCHANGED <<lifeVars, call, correlation, buffered, wireVars, seen, release>>

CloseReply ==
    /\ sink = "close"
    /\ closed' = closed \union {cur}
    /\ sink' = "select"
    /\ UNCHANGED <<lifeVars, call, correlation, buffered, wireVars, cur, seen, release>>

-----------------------------------------------------------------------------
\* "release all reasources", after WaitToFinish.

\* The entries are deleted, their channels left open.
Release_DeleteOnly ==
    /\ release = "waiting" /\ srv = "finished"
    /\ correlation' = {}
    /\ release' = "done"
    /\ UNCHANGED <<lifeVars, call, buffered, closed, wireVars, sinkVars>>

Release ==
    /\ release = "waiting" /\ srv = "finished"
    /\ closed' = closed \union correlation
    /\ release' = "done"
    /\ UNCHANGED <<lifeVars, call, correlation, buffered, wireVars, sinkVars>>

-----------------------------------------------------------------------------
\* The writer, the peer that answers, and the queue of the replies.

Write(c) ==
    /\ "writer" \in open /\ c \in backlog
    /\ backlog' = backlog \ {c} /\ written' = written \union {c}
    /\ UNCHANGED <<lifeVars, callVars, answers, replies, sinkVars, release>>

Answer(c) ==
    /\ c \in written /\ answers[c] < MaxReplies
    /\ answers' = [answers EXCEPT ![c] = @ + 1]
    /\ replies' = [replies EXCEPT ![c] = @ + 1]
    /\ UNCHANGED <<lifeVars, callVars, backlog, written, sinkVars, release>>

LoseReply(c) ==
    /\ replies[c] > 0
    /\ replies' = [replies EXCEPT ![c] = @ - 1]
    /\ UNCHANGED <<lifeVars, callVars, backlog, written, answers, sinkVars, release>>

-----------------------------------------------------------------------------
\* The server.  A handler leaves when its connection is lost or its context
\* is closed, the sink between two messages only.

Rest == UNCHANGED <<gctx, callVars, wireVars, sinkVars, release>>

Connect == gctx = "live" /\ Life!Connect /\ started' = {} /\ Rest
Finish  == gctx = "done" /\ Life!Finish /\ UNCHANGED started /\ Rest
Pass    ==
    /\ \/ Life!Retry \/ Life!DialFailed \/ Life!StopCreating
       \/ Life!Disconnect \/ Life!Rest
    /\ UNCHANGED started /\ Rest

Start(h) ==
    /\ h \notin started /\ Life!ChannelCreated(h)
    /\ started' = started \union {h}
    /\ UNCHANGED <<gctx, callVars, wireVars, cur, seen, release>>

WriterStarts == Start("writer") /\ UNCHANGED sink
SinkStarts   == Start("sink") /\ sink' = "select"

WriterLeaves == Life!ChannelClosed("writer") /\ UNCHANGED started /\ Rest

SinkLeaves ==
    /\ sink = "select" /\ Life!ChannelClosed("sink")
    /\ sink' = "off"
    /\ UNCHANGED <<started, gctx, callVars, wireVars, cur, seen, release>>

Shutdown ==
    /\ gctx = "live"
    /\ gctx' = "done"
    /\ UNCHANGED <<srv, open, started, callVars, wireVars, sinkVars, release>>

-----------------------------------------------------------------------------
Caller(c) == Register(c) \/ Send(c) \/ Sent(c) \/ Receive(c) \/ ReceiveClosed(c)
OnMessage == Lookup \/ SendReply \/ CloseReply
Serve     == Connect \/ Pass \/ Finish

Next ==
    \/ \E c \in Calls :
         Caller(c) \/ Deliver(c) \/ Write(c) \/ Answer(c) \/ LoseReply(c)
    \/ OnMessage \/ Release
    \/ Serve \/ WriterStarts \/ SinkStarts \/ WriterLeaves \/ SinkLeaves \/ Shutdown

SafeSpec == Init /\ [][Next]_vars

(***************************************************************************)
(* Goroutines that can run do run, and a server that is shut down finishes *)
(* (Server, ShutdownCompletes).  Nobody has to start a call or answer one. *)
(***************************************************************************)
Spec ==
    /\ SafeSpec
    /\ \A c \in Calls :
         WF_vars(Send(c) \/ Sent(c) \/ Receive(c) \/ ReceiveClosed(c))
    /\ WF_vars(OnMessage) /\ WF_vars(Release)
    /\ WF_vars(gctx = "done" /\ Serve) /\ SF_vars(Finish)
    /\ WF_vars(gctx = "done" /\ WriterLeaves)
    /\ SF_vars(gctx = "done" /\ SinkLeaves)

-----------------------------------------------------------------------------
TypeOK ==
    /\ srv \in Life!States /\ open \subseteq Handlers /\ started \subseteq Handlers
    /\ gctx \in {"live", "done"}
    /\ call \in [Calls -> {"idle", "registered", "sending", "reading",
                           "answered", "released"}]
    /\ correlation \subseteq Calls
    /\ buffered \subseteq Calls /\ closed \subseteq Calls
    /\ backlog \subseteq Calls /\ written \subseteq Calls
    /\ answers \in [Calls -> 0..MaxReplies]
    /\ replies \in [Calls -> 0..MaxReplies]
    /\ sink \in {"off", "select", "lookup", "send", "close"}
    /\ cur \in Calls \union {NoCall} /\ seen \subseteq Calls
    /\ release \in {"waiting", "done"}

(***************************************************************************)
(* onMessage and the release goroutine use the reply channels outside of   *)
(* the lock or long after each other: still neither ever sends on a closed *)
(* channel, closes one twice, or waits for room in one.                    *)
(***************************************************************************)
ChannelsUsedOnce ==
    /\ sink \in {"send", "close"} => cur \notin closed
    /\ sink = "send" => cur \notin buffered
    /\ release = "waiting" => correlation \intersect closed = {}

(***************************************************************************)
(* The entry is there before the request is, and stays until the reply is: *)
(* a reply that onMessage has looked up is, or will be, the result of its  *)
(* call, and no such call is told that its channel is closed.              *)
(***************************************************************************)
FirstReplyArrives ==
    \A c \in seen : \/ c \in buffered \/ call[c] = "answered"
                    \/ sink = "send" /\ cur = c

(***************************************************************************)
(* Liveness.  After the shutdown whoever reads a Reply is answered or      *)
(* released.  Whoever is still inside Raw, waiting for its request to be   *)
(* published, is not: no publisher closes Done any more.                   *)
(***************************************************************************)
ReadersReleased ==
    \A c \in Calls :
        gctx = "done" /\ call[c] = "reading" ~> call[c] \in {"answered", "released"}
==============================================================================
