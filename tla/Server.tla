------------------------------- MODULE Server -------------------------------
(***************************************************************************)
(* amqp.go: the reconnecting server.  One goroutine runs start() and walks *)
(* through the states READY, CONNECTION_ESTABLISHED, ..., IDLE; on every   *)
(* connection a streamer goroutine (streamHandlers) offers the registered  *)
(* handlers one by one, and each gets a goroutine of its own that opens a  *)
(* channel and runs ChannelReady on it.  Handlers may be registered by the *)
(* application at any moment.                                              *)
(*                                                                         *)
(* ChannelReady itself is only what the server sees of it: it may return   *)
(* at any time, and must once its context is closed.  The handlers in      *)
(* Watchers (sinks) also return when the connection is lost, because their *)
(* delivery stream closes; publishers and requeuers do not watch it.  But  *)
(* a sink that is inside Requeue looks only at the context of the          *)
(* application, and is back at its select when the requeue has answered.   *)
(*                                                                         *)
(* Definitions named X_... are faulty variants of X, used to see that the  *)
(* properties reject them; they are not part of the specification.         *)
(***************************************************************************)
EXTENDS Naturals, Sequences

CONSTANTS Handlers,    \* the StateHandlers the application registers
          Watchers,    \* those that notice a lost connection by themselves
          Retriers,    \* sinks among them that have a requeue
          Nil,         \* an element of the slice that is not written yet
          NumUrls,     \* how many broker URLs are configured
          RacyAppend,  \* may the streamer see the slice grow before its element
          MaxConns     \* bound of the model: connections ever established

ASSUME ServerAssumption ==
    /\ Retriers \subseteq Watchers /\ Watchers \subseteq Handlers
    /\ Nil \notin Handlers
    /\ NumUrls \in Nat \ {0}
    /\ RacyAppend \in BOOLEAN
    /\ MaxConns \in Nat

Slots == Handlers \union {Nil}

VARIABLES gctx,      \* brk.config.ctx: live or done
          cctx,      \* the child context of the connection: live or done
          srv,       \* where start() is
          url,       \* the URL being dialled
          conn,      \* the AMQP connection: none, up or lost
          conns,     \* connections established so far
          handlers,  \* brk.handlers
          reg,       \* progress of each handler's call of handle()
          refresh,   \* tokens buffered in refreshHandlers (capacity 1)
          streamer,  \* where the streamHandlers goroutine is
          sent,      \* handlers streamed on this connection (num, i)
          target,    \* targetNum: the length it is streaming up to
          offered,   \* the value its select offers
          creating, running, leaving,
                     \* per handler, its goroutines that are in createChannel,
                     \* in ChannelReady, and past closer() but not wg.Done()
          asking     \* the sinks whose ChannelReady is inside Requeue

appVars    == <<handlers, reg>>
streamVars == <<streamer, sent, target, offered>>
taskVars   == <<creating, running, leaving, asking>>
mainVars   == <<srv, url, conn, conns>>
vars == <<gctx, cctx, mainVars, appVars, refresh, streamVars, taskVars>>

None == [h \in Slots |-> 0]

Init ==
    /\ gctx = "live" /\ cctx = "done"
    /\ srv = "ready" /\ url = 1 /\ conn = "none" /\ conns = 0
    /\ handlers = <<>> /\ reg = [h \in Handlers |-> "new"]
    /\ refresh = 0
    /\ streamer = "none" /\ sent = 0 /\ target = 0 /\ offered = Nil
    /\ creating = None /\ running = None /\ leaving = None /\ asking = {}

\* The child context is closed by its closer or with its parent.
Cancelled == cctx = "done" \/ gctx = "done"

Add(f, h) == [f EXCEPT ![h] = @ + 1]
Sub(f, h) == [f EXCEPT ![h] = @ - 1]

-----------------------------------------------------------------------------
\* handle(): append under handlersLock, then a send that never blocks.  The
\* streamer reads the slice without the lock: append stores the new length
\* before the new element.

Append_(h) ==
    /\ reg[h] = "new"
    /\ \A g \in Handlers : reg[g] # "storing"
    /\ IF RacyAppend
         THEN /\ handlers' = Append(handlers, Nil)
              /\ reg' = [reg EXCEPT ![h] = "storing"]
         ELSE /\ handlers' = Append(handlers, h)
              /\ reg' = [reg EXCEPT ![h] = "signal"]
    /\ UNCHANGED <<gctx, cctx, mainVars, refresh, streamVars, taskVars>>

StoreElement(h) ==
    /\ reg[h] = "storing"
    /\ handlers' = [handlers EXCEPT ![Len(handlers)] = h]
    /\ reg' = [reg EXCEPT ![h] = "signal"]
    /\ UNCHANGED <<gctx, cctx, mainVars, refresh, streamVars, taskVars>>

\* refreshHandlers without its buffer: the send needs a receiver in select.
Refresh_Unbuffered(h) ==
    /\ reg[h] = "signal"
    /\ refresh' = IF streamer = "wait" THEN 1 ELSE refresh
    /\ reg' = [reg EXCEPT ![h] = "registered"]
    /\ UNCHANGED <<gctx, cctx, mainVars, handlers, streamVars, taskVars>>

\* A send on refreshHandlers that is counted, whatever its capacity is.
Refresh_Uncapped(h) ==
    /\ reg[h] = "signal"
    /\ refresh' = refresh + 1
    /\ reg' = [reg EXCEPT ![h] = "registered"]
    /\ UNCHANGED <<gctx, cctx, mainVars, handlers, streamVars, taskVars>>

Refresh(h) ==
    /\ reg[h] = "signal"
    /\ refresh' = 1
    /\ reg' = [reg EXCEPT ![h] = "registered"]
    /\ UNCHANGED <<gctx, cctx, mainVars, handlers, streamVars, taskVars>>

-----------------------------------------------------------------------------
\* start(), onReady(), dialToFirstReachable(), onIdle()

DialSucceeds ==
    /\ srv = "ready" /\ gctx = "live" /\ conns < MaxConns
    /\ srv' = "established"
    /\ conn' = "up" /\ conns' = conns + 1
    /\ cctx' = "live"
    /\ streamer' = "scan" /\ sent' = 0 /\ target' = 0 /\ offered' = Nil
    /\ UNCHANGED <<gctx, url, appVars, refresh, taskVars>>

DialFails ==
    /\ srv = "ready"
    /\ IF gctx = "live" /\ url < NumUrls
         THEN url' = url + 1 /\ UNCHANGED srv
         ELSE srv' = "idle" /\ UNCHANGED url
    /\ UNCHANGED <<gctx, cctx, conn, conns, appVars, refresh, streamVars, taskVars>>

\* The range over streamHandlers ends when the streamer closes its channel.
RangeEnds ==
    /\ srv = "established" /\ streamer = "closed"
    /\ srv' = "draining"
    /\ UNCHANGED <<gctx, cctx, url, conn, conns, appVars, refresh, streamVars, taskVars>>

\* onConnectionEstablished without wg.Wait()
Disconnect_NoWait ==
    /\ srv = "draining"
    /\ srv' = "disconnected"
    /\ cctx' = "done" /\ conn' = "none"
    /\ streamer' = "none"
    /\ UNCHANGED <<gctx, url, conns, appVars, refresh, sent, target, offered, taskVars>>

\* wg.Wait(), the deferred closer(), conn.Close(), onDisconnected()
Disconnect ==
    /\ srv = "draining"
    /\ creating = None /\ running = None /\ leaving = None
    /\ srv' = "disconnected"
    /\ cctx' = "done" /\ conn' = "none"
    /\ streamer' = "none"
    /\ UNCHANGED <<gctx, url, conns, appVars, refresh, sent, target, offered, taskVars>>

GoIdle ==
    /\ srv = "disconnected"
    /\ srv' = "idle"
    /\ UNCHANGED <<gctx, cctx, url, conn, conns, appVars, refresh, streamVars, taskVars>>

IdleTimer ==
    /\ srv = "idle"
    /\ srv' = "ready" /\ url' = 1
    /\ UNCHANGED <<gctx, cctx, conn, conns, appVars, refresh, streamVars, taskVars>>

\* onIdle that looks at the context only when the server starts
IdleAborted_Never ==
    /\ srv = "idle" /\ gctx = "done" /\ conns = 0
    /\ srv' = "finished"
    /\ UNCHANGED <<gctx, cctx, url, conn, conns, appVars, refresh, streamVars, taskVars>>

IdleAborted ==
    /\ srv = "idle" /\ gctx = "done"
    /\ srv' = "finished"
    /\ UNCHANGED <<gctx, cctx, url, conn, conns, appVars, refresh, streamVars, taskVars>>

-----------------------------------------------------------------------------
\* streamHandlers(): read the length, offer the new handlers, wait.

\* What the streamer does when k handlers are streamed and n are to be.
Offering(k, n) ==
    /\ sent' = k /\ target' = n
    /\ IF k < n
         THEN streamer' = "offer" /\ offered' = handlers[k + 1]
         ELSE streamer' = "wait" /\ UNCHANGED offered

\* Every refresh streams the whole slice again.
Scan_FromStart ==
    /\ streamer = "scan"
    /\ Offering(0, Len(handlers))
    /\ UNCHANGED <<gctx, cctx, mainVars, appVars, refresh, taskVars>>

Scan ==
    /\ streamer = "scan"
    /\ Offering(sent, Len(handlers))
    /\ UNCHANGED <<gctx, cctx, mainVars, appVars, refresh, taskVars>>

\* The rendezvous of the offer with the range loop: wg.Add(1), go func.
Spawn ==
    /\ streamer = "offer" /\ srv = "established"
    /\ creating' = Add(creating, offered)
    /\ Offering(sent + 1, target)
    /\ UNCHANGED <<gctx, cctx, mainVars, appVars, refresh, running, leaving, asking>>

Refreshed ==
    /\ streamer = "wait" /\ refresh = 1
    /\ refresh' = 0
    /\ streamer' = "scan"
    /\ UNCHANGED <<gctx, cctx, mainVars, appVars, sent, target, offered, taskVars>>

StopStreaming ==
    /\ streamer \in {"offer", "wait"} /\ Cancelled
    /\ streamer' = "closed"
    /\ UNCHANGED <<gctx, cctx, mainVars, appVars, refresh, sent, target, offered, taskVars>>

-----------------------------------------------------------------------------
\* The goroutine of one handler.

CreateSucceeds(h) ==
    /\ creating[h] > 0 /\ conn = "up"
    /\ creating' = Sub(creating, h) /\ running' = Add(running, h)
    /\ UNCHANGED <<gctx, cctx, mainVars, appVars, refresh, streamVars, leaving, asking>>

CreateFails(h) ==
    /\ creating[h] > 0
    /\ creating' = Sub(creating, h) /\ leaving' = Add(leaving, h)
    /\ cctx' = "done"
    /\ UNCHANGED <<gctx, mainVars, appVars, refresh, streamVars, running, asking>>

\* ChannelReady returns; channel.Close() and closer() are deferred.
HandlerReturns(h) ==
    /\ running[h] > 0 /\ h \notin asking
    /\ running' = Sub(running, h) /\ leaving' = Add(leaving, h)
    /\ cctx' = "done"
    /\ UNCHANGED <<gctx, mainVars, appVars, refresh, streamVars, creating, asking>>

WgDone(h) ==
    /\ leaving[h] > 0
    /\ leaving' = Sub(leaving, h)
    /\ UNCHANGED <<gctx, cctx, mainVars, appVars, refresh, streamVars, creating, running,
                   asking>>

\* The handler of a sink has failed, and waits in Requeue.
AskRequeue(h) ==
    /\ running[h] > 0 /\ h \notin asking
    /\ asking' = asking \union {h}
    /\ UNCHANGED <<gctx, cctx, mainVars, appVars, refresh, streamVars, creating, running,
                   leaving>>

\* The requeue answers, or Requeue sees the context of the application closed:
\* the sink acknowledges or gives back, and goes on.
RequeueAnswers(h) ==
    /\ h \in asking
    /\ asking' = asking \ {h}
    /\ UNCHANGED <<gctx, cctx, mainVars, appVars, refresh, streamVars, creating, running,
                   leaving>>

-----------------------------------------------------------------------------
\* The world outside: the network and the application's context.

LoseConnection ==
    /\ conn = "up"
    /\ conn' = "lost"
    /\ UNCHANGED <<gctx, cctx, srv, url, conns, appVars, refresh, streamVars, taskVars>>

Shutdown ==
    /\ gctx = "live"
    /\ gctx' = "done"
    /\ UNCHANGED <<cctx, mainVars, appVars, refresh, streamVars, taskVars>>

-----------------------------------------------------------------------------
Main == DialSucceeds \/ DialFails \/ RangeEnds \/ Disconnect \/ GoIdle
        \/ IdleTimer \/ IdleAborted
Streamer == Scan \/ Spawn \/ Refreshed \/ StopStreaming
Register(h) == Append_(h) \/ StoreElement(h) \/ Refresh(h)
Task(h) == CreateSucceeds(h) \/ CreateFails(h) \/ HandlerReturns(h) \/ WgDone(h)
Retrying(h) == AskRequeue(h) \/ RequeueAnswers(h)

\* ChannelReady called on a nil element panics, which ends the process.
Panicked == running[Nil] > 0

Next ==
    /\ ~Panicked
    /\ \/ Main \/ Streamer
       \/ \E h \in Handlers : Register(h)
       \/ \E h \in Slots : Task(h)
       \/ \E h \in Retriers : Retrying(h)
       \/ LoseConnection \/ Shutdown

SafeSpec == Init /\ [][Next]_vars

\* A sink that does not see its delivery stream being closed.
MustReturn_IgnoreLoss(h) == h \notin asking /\ Cancelled

\* When ChannelReady has to return.
MustReturn(h) == h \notin asking /\ (Cancelled \/ (h \in Watchers /\ conn = "lost"))

(***************************************************************************)
(* Goroutines that can run do run.  The select of onIdle is taken with a   *)
(* closed context again and again until it chooses that case, and those of *)
(* the streamer and of a sink likewise: strong fairness.  A requeue need   *)
(* not answer (Transact), so a sink leaves Requeue for certain only when   *)
(* the application ends.  Registrations, losses and the shutdown need not  *)
(* happen.  A publisher looks at its context only when its queue is empty; *)
(* that it returns assumes that its writers let it run empty some time.    *)
(***************************************************************************)
Spec ==
    /\ SafeSpec
    /\ WF_vars(Main) /\ SF_vars(IdleAborted)
    /\ WF_vars(Streamer) /\ SF_vars(StopStreaming)
    /\ \A h \in Handlers : WF_vars(StoreElement(h) \/ Refresh(h))
    /\ \A h \in Slots :
         /\ WF_vars(CreateSucceeds(h) \/ CreateFails(h))
         /\ SF_vars(HandlerReturns(h) /\ MustReturn(h))
         /\ WF_vars(WgDone(h))
    /\ \A h \in Retriers : WF_vars(RequeueAnswers(h) /\ gctx = "done")

-----------------------------------------------------------------------------
TypeOK ==
    /\ gctx \in {"live", "done"} /\ cctx \in {"live", "done"}
    /\ srv \in {"ready", "established", "draining", "disconnected", "idle", "finished"}
    /\ url \in 1..NumUrls
    /\ conn \in {"none", "up", "lost"} /\ conns \in 0..MaxConns
    /\ handlers \in Seq(Slots)
    /\ reg \in [Handlers -> {"new", "storing", "signal", "registered"}]
    /\ refresh \in 0..1
    /\ streamer \in {"none", "scan", "offer", "wait", "closed"}
    /\ sent \in Nat /\ target \in Nat /\ offered \in Slots
    /\ creating \in [Slots -> Nat] /\ running \in [Slots -> Nat]
    /\ leaving \in [Slots -> Nat] /\ asking \subseteq Retriers

Goroutines(h) == creating[h] + running[h] + leaving[h]

(***************************************************************************)
(* wg.Wait in onConnectionEstablished: outside of an established           *)
(* connection no goroutine of any handler is left, so none ever works on a *)
(* connection that conn.Close has closed, and WaitToFinish really blocks   *)
(* until everything is freed.                                              *)
(***************************************************************************)
NothingOutlivesConnection ==
    srv \notin {"established", "draining"} =>
        conn = "none" /\ \A h \in Slots : Goroutines(h) = 0

(***************************************************************************)
(* A handler never has two goroutines: not by being streamed twice on one  *)
(* connection after a refresh, not by overlapping with the goroutine of an *)
(* older connection.  publisher and sink keep unlocked state in            *)
(* ChannelReady and rely on it, and MessageQueue on its only consumer.     *)
(***************************************************************************)
OneGoroutinePerHandler == \A h \in Handlers : Goroutines(h) <= 1

(***************************************************************************)
(* No registration is missed (handle's send with a default, against the    *)
(* streamer's receive): when the streamer sleeps and the slice is longer   *)
(* than what it has streamed, a token is pending or about to be sent.      *)
(***************************************************************************)
NoMissedHandler ==
    streamer = "wait" /\ sent < Len(handlers) =>
        refresh = 1 \/ \E h \in Handlers : reg[h] \in {"storing", "signal"}

(***************************************************************************)
(* amqp.go:106 "create connections for each handlers (could be added       *)
(* dynamically)": what gets a channel is a handler, never an element of    *)
(* the slice that handle() has not written yet.                            *)
(***************************************************************************)
OnlyHandlersRun == running[Nil] = 0

\* The states and channels a user sees are those that amqp.go documents.
LifecycleState ==
    CASE srv = "established" -> "connection_established"
      [] srv = "draining"    -> "channels_created"
      [] OTHER               -> srv

OpenChannels == {h \in Handlers : running[h] > 0}

Life == INSTANCE Lifecycle WITH state <- LifecycleState, channels <- OpenChannels

ImplementsLifecycle == Life!Spec

(***************************************************************************)
(* Liveness.  A closed context of the application ends the server, with    *)
(* the sinks that wait in Requeue.  The first goroutine that ends takes    *)
(* its connection with it, and a lost connection is left behind when some  *)
(* handler watches it; only a sink that stays in Requeue for ever, which   *)
(* sees neither, can prevent that.  A handler registered while connected   *)
(* gets a channel, or the connection ends.  (Or the process has panicked.) *)
(***************************************************************************)
ShutdownCompletes == gctx = "done" ~> srv = "finished" \/ Panicked

EndsAreNoticed ==
    (\A r \in Retriers : []<>(r \notin asking)) =>
        /\ \A h \in Handlers : leaving[h] > 0 ~> srv = "disconnected" \/ Panicked
        /\ \A w \in Watchers :
             conn = "lost" /\ running[w] > 0 ~> srv = "disconnected" \/ Panicked

RegisteredGetsChannel ==
    \A h \in Handlers :
        reg[h] = "registered" /\ srv = "established" ~>
            running[h] > 0 \/ Cancelled \/ Panicked
==============================================================================
