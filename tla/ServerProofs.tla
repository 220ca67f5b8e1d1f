---------------------------- MODULE ServerProofs ----------------------------
(***************************************************************************)
(* Proofs about Server, for any handlers, any number of URLs and of        *)
(* connections, and whether or not the streamer races with handle().       *)
(*                                                                         *)
(* NeverWedged follows the waits of start(), of the streamer and of the    *)
(* goroutines: each ends in somebody who can go on, in a connection that   *)
(* is up with nothing to do (AtRest), or in sinks that wait in Requeue     *)
(* (Held); and the shutdown ends the last two.                             *)
(***************************************************************************)
EXTENDS Server, SequenceTheorems, TLAPS

\* What the streamer has passed is in the slice; what it offers is the next
\* element, or was not written yet when it read it.
StreamerBounds ==
    /\ sent <= target \/ streamer = "none"
    /\ target <= Len(handlers) \/ streamer = "none"
    /\ sent <= Len(handlers) \/ streamer = "none"
    /\ streamer = "offer" => sent < target /\ offered \in {Nil, handlers[sent + 1]}
    /\ streamer = "wait" => sent = target

\* The slice names a handler once, and only after its registration has
\* stored it; the element being stored is the last one.
SliceOK ==
    /\ \A i, j \in 1..Len(handlers) :
         handlers[i] = handlers[j] /\ handlers[i] # Nil => i = j
    /\ \A h \in Handlers : reg[h] \in {"new", "storing"} =>
         \A i \in 1..Len(handlers) : handlers[i] # h
    /\ \A h \in Handlers : reg[h] = "storing" =>
         Len(handlers) > 0 /\ handlers[Len(handlers)] = Nil
    /\ \A g, h \in Handlers : reg[g] = "storing" /\ reg[h] = "storing" => g = h

\* The goroutines of a connection are those of handlers it has streamed.
OnlyStreamedRun ==
    \A h \in Handlers : Goroutines(h) > 0 => \E i \in 1..sent : handlers[i] = h

\* Where the streamer and the connection can be in each state of start().
Phases ==
    /\ srv = "established" => streamer # "none" /\ conn # "none"
    /\ srv = "draining" => streamer = "closed" /\ conn # "none"
    /\ srv \notin {"established", "draining"} =>
         /\ streamer = "none" /\ conn = "none"
         /\ \A h \in Slots : creating[h] = 0 /\ running[h] = 0 /\ leaving[h] = 0

\* The token is owed as soon as the slice outgrows the length being streamed.
TokenOwed ==
    streamer \in {"offer", "wait"} /\ target < Len(handlers) =>
        refresh = 1 \/ \E h \in Handlers : reg[h] \in {"storing", "signal"}

IInv == /\ TypeOK /\ StreamerBounds /\ SliceOK
        /\ OnlyStreamedRun /\ OneGoroutinePerHandler /\ Phases /\ TokenOwed

LEMMA InitInv == Init => IInv
BY ServerAssumption, EmptySeq
   DEF Init, IInv, TypeOK, StreamerBounds, SliceOK, OnlyStreamedRun,
       OneGoroutinePerHandler, Phases, TokenOwed, Goroutines, None, Slots

\* Where a goroutine of some handler is left, the connection still exists.
LEMMA GoroutineNeedsConnection ==
    ASSUME TypeOK, Phases, NEW h \in Slots,
           creating[h] > 0 \/ running[h] > 0 \/ leaving[h] > 0
    PROVE  srv \in {"established", "draining"} /\ conn # "none"
BY DEF TypeOK, Phases

-----------------------------------------------------------------------------
\* One lemma per part of the invariant, one step per action that can disturb it.

\* A sink in Requeue concerns nobody else.
OnlyAsking == UNCHANGED <<gctx, cctx, mainVars, appVars, refresh, streamVars,
                          creating, running, leaving>>

LEMMA RetryingStep == (\E h \in Retriers : Retrying(h)) \/ UNCHANGED vars => OnlyAsking
BY DEF Retrying, AskRequeue, RequeueAnswers, OnlyAsking, vars, taskVars

\* The slice only grows, and only an unwritten element ever changes.
LEMMA SliceGrows ==
    ASSUME TypeOK, SliceOK, NEW h \in Handlers, Append_(h) \/ StoreElement(h)
    PROVE  /\ handlers' \in Seq(Slots) /\ Len(handlers') >= Len(handlers)
           /\ Len(handlers') \in Nat /\ Len(handlers) \in Nat
           /\ \A i \in 1..Len(handlers) :
                handlers[i] # Nil => handlers'[i] = handlers[i]
           /\ \A i \in 1..Len(handlers) : handlers'[i] \in {Nil, h, handlers[i]}
           /\ reg'[h] \in {"storing", "signal"}
<1> USE ServerAssumption
<1>1. CASE Append_(h)
    <2>1. PICK e \in {Nil, h} : handlers' = Append(handlers, e)
        BY <1>1 DEF Append_
    <2>2. reg'[h] \in {"storing", "signal"}
        BY <1>1 DEF Append_, TypeOK
    <2>3. QED
        BY <2>1, <2>2, AppendProperties DEF TypeOK, Slots
<1>2. CASE StoreElement(h)
    <2>1. /\ Len(handlers) \in 1..Len(handlers) /\ handlers[Len(handlers)] = Nil
          /\ handlers' = [handlers EXCEPT ![Len(handlers)] = h]
        BY <1>2 DEF StoreElement, SliceOK, TypeOK
    <2>2. reg'[h] \in {"storing", "signal"}
        BY <1>2 DEF StoreElement, TypeOK
    <2>3. QED
        BY <2>1, <2>2, ExceptSeq DEF TypeOK, Slots
<1>3. QED
    BY <1>1, <1>2

\* The counters stay counters: one is only taken from what is there.
LEMMA Counters ==
    ASSUME NEW f \in [Slots -> Nat], NEW h \in Slots
    PROVE  /\ Add(f, h) \in [Slots -> Nat]
           /\ f[h] > 0 => Sub(f, h) \in [Slots -> Nat]
BY DEF Add, Sub

LEMMA TypeStep == IInv /\ [Next]_vars => TypeOK'
<1> SUFFICES ASSUME TypeOK, StreamerBounds, SliceOK, [Next]_vars PROVE TypeOK'
    BY DEF IInv
<1> USE ServerAssumption DEF Slots, mainVars, appVars, streamVars, taskVars
<1>1. ASSUME NEW h \in Handlers, Append_(h) \/ StoreElement(h) PROVE TypeOK'
    <2>1. handlers' \in Seq(Slots)
        BY <1>1, SliceGrows
    <2>2. reg' \in [Handlers -> {"new", "storing", "signal", "registered"}]
        BY <1>1 DEF TypeOK, Append_, StoreElement
    <2>3. UNCHANGED <<gctx, cctx, mainVars, refresh, streamVars, taskVars>>
        BY <1>1 DEF Append_, StoreElement
    <2>4. QED
        BY <2>1, <2>2, <2>3 DEF TypeOK
<1>2. ASSUME NEW h \in Handlers, Refresh(h) PROVE TypeOK'
    BY <1>2 DEF TypeOK, Refresh
<1>3. ASSUME Main PROVE TypeOK'
    <2>1. CASE DialSucceeds
        BY <2>1 DEF TypeOK, DialSucceeds
    <2>2. CASE DialFails
        BY <2>2 DEF TypeOK, DialFails
    <2>3. CASE RangeEnds \/ Disconnect \/ GoIdle
        BY <2>3 DEF TypeOK, RangeEnds, Disconnect, GoIdle
    <2>4. CASE IdleTimer
        <3>1. 1 \in 1..NumUrls
            OBVIOUS
        <3>2. QED
            BY <2>4, <3>1 DEF TypeOK, IdleTimer
    <2>5. CASE IdleAborted
        BY <2>5 DEF TypeOK, IdleAborted
    <2>6. QED
        BY <1>3, <2>1, <2>2, <2>3, <2>4, <2>5 DEF Main
<1>4. ASSUME Scan \/ Spawn PROVE TypeOK'
    <2>1. Len(handlers) \in Nat /\ \A i \in 1..Len(handlers) : handlers[i] \in Slots
        BY DEF TypeOK
    <2>2. CASE Scan
        BY <2>1, <2>2 DEF TypeOK, StreamerBounds, Scan, Offering
    <2>3. CASE Spawn
        <3>1. creating' \in [Slots -> Nat]
            BY <2>3 DEF TypeOK, Spawn, Add
        <3>2. QED
            BY <2>1, <2>3, <3>1 DEF TypeOK, StreamerBounds, Spawn, Offering
    <2>4. QED
        BY <1>4, <2>2, <2>3
<1>5. ASSUME Refreshed \/ StopStreaming PROVE TypeOK'
    <2>1. CASE Refreshed
        BY <2>1 DEF TypeOK, Refreshed
    <2>2. CASE StopStreaming
        BY <2>2 DEF TypeOK, StopStreaming
    <2>3. QED
        BY <1>5, <2>1, <2>2
<1>6. ASSUME NEW h \in Slots, Task(h) PROVE TypeOK'
    <2>1. /\ creating' \in [Slots -> Nat] /\ running' \in [Slots -> Nat]
          /\ leaving' \in [Slots -> Nat]
        <3>1. /\ creating \in [Slots -> Nat] /\ running \in [Slots -> Nat]
              /\ leaving \in [Slots -> Nat]
            BY DEF TypeOK
        <3>2. \A f \in [Slots -> Nat] :
                 /\ Add(f, h) \in [Slots -> Nat]
                 /\ f[h] > 0 => Sub(f, h) \in [Slots -> Nat]
            BY Counters
        <3>3. QED
            BY <1>6, <3>1, <3>2 DEF Task, CreateSucceeds, CreateFails,
                                    HandlerReturns, WgDone
    <2>2. cctx' \in {"live", "done"}
        BY <1>6 DEF TypeOK, Task, CreateSucceeds, CreateFails, HandlerReturns, WgDone
    <2>3. UNCHANGED <<gctx, mainVars, appVars, refresh, streamVars, asking>>
        BY <1>6 DEF Task, CreateSucceeds, CreateFails, HandlerReturns, WgDone
    <2>4. QED
        BY <2>1, <2>2, <2>3 DEF TypeOK
<1>7. ASSUME NEW h \in Retriers, Retrying(h) PROVE TypeOK'
    <2>1. asking' \subseteq Retriers
        BY <1>7 DEF TypeOK, Retrying, AskRequeue, RequeueAnswers
    <2>2. QED
        BY <1>7, <2>1, RetryingStep DEF TypeOK, OnlyAsking
<1>8. ASSUME LoseConnection \/ Shutdown \/ UNCHANGED vars PROVE TypeOK'
    <2>1. CASE LoseConnection
        BY <2>1 DEF TypeOK, LoseConnection
    <2>2. CASE Shutdown
        BY <2>2 DEF TypeOK, Shutdown
    <2>3. CASE UNCHANGED vars
        BY <2>3 DEF TypeOK, vars
    <2>4. QED
        BY <1>8, <2>1, <2>2, <2>3
<1>9. QED
    BY <1>1, <1>2, <1>3, <1>4, <1>5, <1>6, <1>7, <1>8 DEF Next, Streamer, Register

LEMMA BoundsStep == IInv /\ [Next]_vars => StreamerBounds'
<1> SUFFICES ASSUME TypeOK, StreamerBounds, SliceOK, [Next]_vars PROVE StreamerBounds'
    BY DEF IInv
<1> USE ServerAssumption DEF Slots, mainVars, appVars, streamVars, taskVars
<1>0. Len(handlers) \in Nat /\ sent \in Nat /\ target \in Nat
    BY DEF TypeOK
<1>1. ASSUME NEW h \in Handlers, Append_(h) \/ StoreElement(h) PROVE StreamerBounds'
    <2>1. UNCHANGED streamVars
        BY <1>1 DEF Append_, StoreElement
    <2>2. Len(handlers') >= Len(handlers) /\ Len(handlers') \in Nat
        BY <1>1, SliceGrows
    <2>3. streamer = "offer" => offered \in {Nil, handlers'[sent + 1]}
        <3>1. CASE streamer = "offer" /\ offered # Nil
            <4>1. sent + 1 \in 1..Len(handlers) /\ handlers[sent + 1] = offered
                BY <1>0, <3>1 DEF StreamerBounds
            <4>2. QED
                BY <1>1, <3>1, <4>1, SliceGrows
        <3>2. QED
            BY <3>1
    <2>4. QED
        BY <1>0, <2>1, <2>2, <2>3 DEF StreamerBounds
<1>2. ASSUME NEW h \in Handlers, Refresh(h) PROVE StreamerBounds'
    BY <1>2 DEF StreamerBounds, Refresh
<1>3. ASSUME Main PROVE StreamerBounds'
    <2>1. CASE DialSucceeds
        BY <1>0, <2>1 DEF StreamerBounds, DialSucceeds
    <2>2. CASE RangeEnds \/ Disconnect \/ GoIdle
        BY <1>0, <2>2 DEF StreamerBounds, RangeEnds, Disconnect, GoIdle
    <2>3. CASE DialFails \/ IdleTimer \/ IdleAborted
        BY <1>0, <2>3 DEF StreamerBounds, DialFails, IdleTimer, IdleAborted
    <2>4. QED
        BY <1>3, <2>1, <2>2, <2>3 DEF Main
<1>4. ASSUME Streamer PROVE StreamerBounds'
    BY <1>0, <1>4 DEF StreamerBounds, Streamer, Scan, Spawn, Offering, Refreshed,
                StopStreaming
<1>5. ASSUME NEW h \in Slots, Task(h) PROVE StreamerBounds'
    BY <1>5 DEF StreamerBounds, Task, CreateSucceeds, CreateFails, HandlerReturns,
                WgDone
<1>6. ASSUME LoseConnection \/ Shutdown \/ OnlyAsking PROVE StreamerBounds'
    BY <1>6 DEF StreamerBounds, LoseConnection, Shutdown, OnlyAsking
<1>7. QED
    BY <1>1, <1>2, <1>3, <1>4, <1>5, <1>6, RetryingStep DEF Next, Register

LEMMA SliceStep == IInv /\ [Next]_vars => SliceOK'
<1> SUFFICES ASSUME IInv, [Next]_vars PROVE SliceOK'
    OBVIOUS
<1> USE ServerAssumption DEF IInv, Slots, mainVars, appVars, streamVars, taskVars
<1>0. Len(handlers) \in Nat /\ reg \in [Handlers -> {"new", "storing", "signal", "registered"}]
    BY DEF TypeOK
<1>1. ASSUME NEW h \in Handlers, Append_(h) PROVE SliceOK'
    <2>1. PICK e \in {Nil, h} :
             /\ handlers' = Append(handlers, e)
             /\ reg' = [reg EXCEPT ![h] = IF e = Nil THEN "storing" ELSE "signal"]
        BY <1>1 DEF Append_
    <2>2. /\ Len(handlers') = Len(handlers) + 1 /\ handlers'[Len(handlers) + 1] = e
          /\ \A i \in 1..Len(handlers) : handlers'[i] = handlers[i]
        BY <2>1, AppendProperties DEF TypeOK
    <2>3. \A i \in 1..Len(handlers) : handlers[i] # h
        BY <1>1 DEF Append_, SliceOK
    <2>4. \A g \in Handlers : reg[g] # "storing"
        BY <1>1 DEF Append_
    <2>5. QED
        BY <1>0, <2>1, <2>2, <2>3, <2>4 DEF SliceOK
<1>2. ASSUME NEW h \in Handlers, StoreElement(h) PROVE SliceOK'
    <2>1. /\ Len(handlers) \in 1..Len(handlers) /\ handlers[Len(handlers)] = Nil
          /\ handlers' = [handlers EXCEPT ![Len(handlers)] = h]
          /\ reg[h] = "storing" /\ reg' = [reg EXCEPT ![h] = "signal"]
        BY <1>0, <1>2 DEF StoreElement, SliceOK
    <2>2. /\ Len(handlers') = Len(handlers) /\ handlers'[Len(handlers)] = h
          /\ \A i \in 1..Len(handlers) : i # Len(handlers) => handlers'[i] = handlers[i]
        BY <2>1, ExceptSeq DEF TypeOK
    <2>3. \A i \in 1..Len(handlers) : handlers[i] # h
        BY <2>1 DEF SliceOK
    <2>4. \A g \in Handlers : reg[g] = "storing" => g = h
        BY <2>1 DEF SliceOK
    <2>5. \A g \in Handlers : reg'[g] # "storing"
        BY <1>0, <2>1, <2>4
    <2>6. \A g \in Handlers : reg'[g] = "new" => reg[g] = "new" /\ g # h
        BY <1>0, <2>1
    <2>7. \A g \in Handlers : reg'[g] = "new" =>
             \A i \in 1..Len(handlers') : handlers'[i] # g
        BY <2>2, <2>6 DEF SliceOK
    <2>8. \A i, j \in 1..Len(handlers') :
             handlers'[i] = handlers'[j] /\ handlers'[i] # Nil => i = j
        <3>1. \A i, j \in 1..Len(handlers) :
                 i # Len(handlers) /\ j # Len(handlers)
                 /\ handlers'[i] = handlers'[j] /\ handlers'[i] # Nil => i = j
            BY <2>2 DEF SliceOK
        <3>2. QED
            BY <2>2, <2>3, <3>1
    <2>9. QED
        BY <2>5, <2>7, <2>8 DEF SliceOK
<1>3. ASSUME NEW h \in Handlers, Refresh(h) PROVE SliceOK'
    BY <1>0, <1>3 DEF SliceOK, Refresh
<1>4. ASSUME UNCHANGED appVars PROVE SliceOK'
    BY <1>4 DEF SliceOK
<1>5. QED
    BY <1>1, <1>2, <1>3, <1>4, RetryingStep
       DEF Next, Register, Main, DialSucceeds, DialFails, RangeEnds, Disconnect,
           GoIdle, IdleTimer, IdleAborted, Streamer, Scan, Spawn, Refreshed,
           StopStreaming, Task, CreateSucceeds, CreateFails, HandlerReturns, WgDone,
           LoseConnection, Shutdown, OnlyAsking

LEMMA PhasesStep == IInv /\ [Next]_vars => Phases'
<1> SUFFICES ASSUME IInv, [Next]_vars PROVE Phases'
    OBVIOUS
<1> USE ServerAssumption DEF IInv, mainVars, appVars, streamVars, taskVars
<1>1. ASSUME NEW h \in Handlers, Register(h) PROVE Phases'
    BY <1>1 DEF Phases, Register, Append_, StoreElement, Refresh
<1>2. ASSUME DialSucceeds \/ DialFails \/ RangeEnds PROVE Phases'
    BY <1>2 DEF Phases, DialSucceeds, DialFails, RangeEnds
<1>3. ASSUME Disconnect PROVE Phases'
    <2>1. \A h \in Slots : creating[h] = 0 /\ running[h] = 0 /\ leaving[h] = 0
        BY <1>3 DEF Disconnect, None
    <2>2. QED
        BY <1>3, <2>1 DEF Phases, Disconnect
<1>4. ASSUME GoIdle \/ IdleTimer \/ IdleAborted PROVE Phases'
    BY <1>4 DEF Phases, GoIdle, IdleTimer, IdleAborted
<1>5. ASSUME Scan \/ Refreshed \/ StopStreaming PROVE Phases'
    BY <1>5 DEF Phases, Scan, Offering, Refreshed, StopStreaming
<1>6. ASSUME Spawn PROVE Phases'
    BY <1>6 DEF Phases, Spawn, Offering
<1>7. ASSUME NEW h \in Slots, Task(h) PROVE Phases'
    <2>1. srv \in {"established", "draining"} /\ UNCHANGED <<srv, conn, streamer>>
        BY <1>7, GoroutineNeedsConnection
           DEF Task, CreateSucceeds, CreateFails, HandlerReturns, WgDone
    <2>2. QED
        BY <2>1 DEF Phases
<1>8. ASSUME LoseConnection \/ Shutdown \/ OnlyAsking PROVE Phases'
    BY <1>8 DEF Phases, LoseConnection, Shutdown, OnlyAsking
<1>9. QED
    BY <1>1, <1>2, <1>3, <1>4, <1>5, <1>6, <1>7, <1>8, RetryingStep DEF Next, Main, Streamer

LEMMA TokenStep == IInv /\ [Next]_vars => TokenOwed'
<1> SUFFICES ASSUME IInv, [Next]_vars PROVE TokenOwed'
    OBVIOUS
<1> USE ServerAssumption DEF IInv, mainVars, appVars, streamVars, taskVars
<1>1. ASSUME NEW h \in Handlers, Append_(h) \/ StoreElement(h) PROVE TokenOwed'
    BY <1>1, SliceGrows DEF TokenOwed
<1>2. ASSUME NEW h \in Handlers, Refresh(h) PROVE TokenOwed'
    BY <1>2 DEF TokenOwed, Refresh
<1>3. ASSUME Scan \/ Refreshed \/ StopStreaming PROVE TokenOwed'
    BY <1>3 DEF TokenOwed, TypeOK, Scan, Offering, Refreshed, StopStreaming
<1>4. ASSUME Spawn PROVE TokenOwed'
    BY <1>4 DEF TokenOwed, Spawn, Offering
<1>5. ASSUME Main \/ (\E h \in Slots : Task(h)) \/ LoseConnection \/ Shutdown \/ OnlyAsking
      PROVE  TokenOwed'
    BY <1>5 DEF TokenOwed, Main, DialSucceeds, DialFails, RangeEnds, Disconnect,
                GoIdle, IdleTimer, IdleAborted, Task, CreateSucceeds, CreateFails,
                HandlerReturns, WgDone, LoseConnection, Shutdown, OnlyAsking
<1>6. QED
    BY <1>1, <1>2, <1>3, <1>4, <1>5, RetryingStep DEF Next, Streamer, Register

\* The two facts about goroutines need each other.
GoroutinesOK == OnlyStreamedRun /\ OneGoroutinePerHandler

\* A goroutine that moves on to its next stage is still the same goroutine.
LEMMA TaskCounts ==
    ASSUME TypeOK, NEW h \in Slots, Task(h)
    PROVE  \A g \in Handlers : Goroutines(g)' <= Goroutines(g) /\ Goroutines(g)' \in Nat
<1> SUFFICES ASSUME NEW g \in Handlers
             PROVE  Goroutines(g)' <= Goroutines(g) /\ Goroutines(g)' \in Nat
    OBVIOUS
<1>1. /\ g \in Slots /\ creating \in [Slots -> Nat]
      /\ running \in [Slots -> Nat] /\ leaving \in [Slots -> Nat]
    BY DEF Slots, TypeOK
<1>2. /\ creating[g] \in Nat /\ running[g] \in Nat /\ leaving[g] \in Nat
      /\ creating[h] \in Nat /\ running[h] \in Nat /\ leaving[h] \in Nat
    BY <1>1
<1>3. CASE CreateSucceeds(h)
    <2>1. /\ creating[h] > 0 /\ UNCHANGED leaving
          /\ creating' = Sub(creating, h) /\ running' = Add(running, h)
        BY <1>3 DEF CreateSucceeds
    <2>2. /\ creating'[g] = IF g = h THEN creating[g] - 1 ELSE creating[g]
          /\ running'[g] = IF g = h THEN running[g] + 1 ELSE running[g]
        BY <1>1, <2>1 DEF Add, Sub
    <2>3. QED
        BY <1>2, <2>1, <2>2 DEF Goroutines
<1>4. CASE CreateFails(h)
    <2>1. /\ creating[h] > 0 /\ UNCHANGED running
          /\ creating' = Sub(creating, h) /\ leaving' = Add(leaving, h)
        BY <1>4 DEF CreateFails
    <2>2. /\ creating'[g] = IF g = h THEN creating[g] - 1 ELSE creating[g]
          /\ leaving'[g] = IF g = h THEN leaving[g] + 1 ELSE leaving[g]
        BY <1>1, <2>1 DEF Add, Sub
    <2>3. QED
        BY <1>2, <2>1, <2>2 DEF Goroutines
<1>5. CASE HandlerReturns(h)
    <2>1. /\ running[h] > 0 /\ UNCHANGED creating
          /\ running' = Sub(running, h) /\ leaving' = Add(leaving, h)
        BY <1>5 DEF HandlerReturns
    <2>2. /\ running'[g] = IF g = h THEN running[g] - 1 ELSE running[g]
          /\ leaving'[g] = IF g = h THEN leaving[g] + 1 ELSE leaving[g]
        BY <1>1, <2>1 DEF Add, Sub
    <2>3. QED
        BY <1>2, <2>1, <2>2 DEF Goroutines
<1>6. CASE WgDone(h)
    <2>1. /\ leaving[h] > 0 /\ UNCHANGED <<creating, running>>
          /\ leaving' = Sub(leaving, h)
        BY <1>6 DEF WgDone
    <2>2. leaving'[g] = IF g = h THEN leaving[g] - 1 ELSE leaving[g]
        BY <1>1, <2>1 DEF Sub
    <2>3. QED
        BY <1>2, <2>1, <2>2 DEF Goroutines
<1>7. QED
    BY <1>3, <1>4, <1>5, <1>6 DEF Task

LEMMA GoroutinesStep == IInv /\ [Next]_vars => GoroutinesOK'
<1> SUFFICES ASSUME IInv, [Next]_vars PROVE GoroutinesOK'
    OBVIOUS
<1> USE ServerAssumption DEF IInv, mainVars, appVars, streamVars, taskVars
<1>0. /\ Len(handlers) \in Nat /\ sent \in Nat /\ target \in Nat
      /\ \A h \in Handlers : Goroutines(h) \in Nat
    BY DEF TypeOK, Goroutines, Slots
<1>1. ASSUME NEW h \in Handlers, Append_(h) \/ StoreElement(h) PROVE GoroutinesOK'
    <2>1. UNCHANGED <<taskVars, sent, streamer>>
        BY <1>1 DEF Append_, StoreElement
    <2>2. \A g \in Handlers : Goroutines(g)' = Goroutines(g)
        BY <2>1 DEF Goroutines
    <2>3. ASSUME NEW g \in Handlers, Goroutines(g) > 0
          PROVE  \E i \in 1..sent : handlers'[i] = g
        <3>1. PICK i \in 1..sent : handlers[i] = g
            BY <2>3 DEF OnlyStreamedRun
        <3>2. streamer # "none"
            BY <2>3, <1>0 DEF Phases, TypeOK, Goroutines, Slots
        <3>3. i \in 1..Len(handlers) /\ handlers[i] # Nil
            BY <1>0, <3>1, <3>2 DEF StreamerBounds
        <3>4. QED
            BY <1>1, <3>1, <3>3, SliceGrows
    <2>4. QED
        BY <2>1, <2>2, <2>3 DEF GoroutinesOK, OnlyStreamedRun, OneGoroutinePerHandler
<1>2. ASSUME DialSucceeds PROVE GoroutinesOK'
    <2>1. \A h \in Handlers : Goroutines(h)' = 0
        BY <1>2 DEF DialSucceeds, Phases, Goroutines, Slots
    <2>2. QED
        BY <2>1 DEF GoroutinesOK, OnlyStreamedRun, OneGoroutinePerHandler
<1>3. ASSUME Spawn PROVE GoroutinesOK'
    <2>1. /\ sent + 1 \in 1..Len(handlers) /\ sent' = sent + 1
          /\ offered \in {Nil, handlers[sent + 1]} /\ UNCHANGED <<handlers, running, leaving>>
          /\ creating' = [creating EXCEPT ![offered] = @ + 1]
        BY <1>0, <1>3 DEF Spawn, Offering, Add, StreamerBounds
    <2>2. ASSUME NEW h \in Handlers, h # offered PROVE Goroutines(h)' = Goroutines(h)
        BY <2>1, <2>2 DEF Goroutines, TypeOK
    <2>3. ASSUME NEW h \in Handlers, h = offered
          PROVE  Goroutines(h) = 0 /\ Goroutines(h)' = 1 /\ handlers'[sent + 1] = h
        <3>1. handlers[sent + 1] = h /\ h # Nil
            BY <2>1, <2>3
        <3>2. \A i \in 1..sent : handlers[i] # h
            BY <1>0, <2>1, <3>1 DEF SliceOK
        <3>3. Goroutines(h) = 0
            BY <1>0, <3>2 DEF OnlyStreamedRun
        <3>4. QED
            BY <2>1, <2>3, <3>1, <3>3 DEF Goroutines, TypeOK, Slots
    <2>4. QED
        BY <1>0, <2>1, <2>2, <2>3 DEF GoroutinesOK, OnlyStreamedRun, OneGoroutinePerHandler
<1>4. ASSUME Scan PROVE GoroutinesOK'
    BY <1>4 DEF GoroutinesOK, OnlyStreamedRun, OneGoroutinePerHandler, Goroutines,
                Scan, Offering
<1>5. ASSUME NEW h \in Slots, Task(h) PROVE GoroutinesOK'
    <2>1. UNCHANGED <<handlers, sent>>
        BY <1>5 DEF Task, CreateSucceeds, CreateFails, HandlerReturns, WgDone
    <2>2. QED
        BY <1>0, <1>5, <2>1, TaskCounts
           DEF GoroutinesOK, OnlyStreamedRun, OneGoroutinePerHandler
<1>6. ASSUME UNCHANGED <<handlers, sent, creating, running, leaving>> PROVE GoroutinesOK'
    BY <1>6 DEF GoroutinesOK, OnlyStreamedRun, OneGoroutinePerHandler, Goroutines
<1>7. QED
    BY <1>1, <1>2, <1>3, <1>4, <1>5, <1>6, RetryingStep
       DEF Next, Register, Refresh, Main, DialFails, RangeEnds, Disconnect,
           GoIdle, IdleTimer, IdleAborted, Streamer, Refreshed, StopStreaming,
           LoseConnection, Shutdown, OnlyAsking

LEMMA StepInv == IInv /\ [Next]_vars => IInv'
BY TypeStep, BoundsStep, SliceStep, PhasesStep, TokenStep, GoroutinesStep
   DEF IInv, GoroutinesOK

THEOREM Invariance == SafeSpec => []IInv
<1>1. QED
    BY InitInv, StepInv, PTL DEF SafeSpec

-----------------------------------------------------------------------------
(* The variables of the server keep their types in every run. *)
THEOREM TypeCorrect == SafeSpec => []TypeOK
<1>1. IInv => TypeOK
    BY DEF IInv
<1>2. QED
    BY <1>1, Invariance, PTL

(* wg.Wait: no goroutine of a handler outlives the connection it works on, so
   none is left when WaitToFinish returns. *)
THEOREM WaitGroupHolds == SafeSpec => []NothingOutlivesConnection
<1>1. IInv => NothingOutlivesConnection
    BY DEF IInv, Phases, NothingOutlivesConnection, Goroutines
<1>2. QED
    BY <1>1, Invariance, PTL

(* ChannelReady of one handler never runs twice at the same time, across
   refreshes and reconnections. *)
THEOREM NoOverlap == SafeSpec => []OneGoroutinePerHandler
<1>1. IInv => OneGoroutinePerHandler
    BY DEF IInv
<1>2. QED
    BY <1>1, Invariance, PTL

(* A handler registered while the streamer is busy or asleep is always
   announced by a token. *)
THEOREM NoRegistrationLost == SafeSpec => []NoMissedHandler
<1>1. IInv => NoMissedHandler
    BY DEF IInv, TokenOwed, StreamerBounds, NoMissedHandler
<1>2. QED
    BY <1>1, Invariance, PTL

-----------------------------------------------------------------------------
\* Without the race there is no unwritten element anywhere.
NoHoles ==
    /\ \A i \in 1..Len(handlers) : handlers[i] # Nil
    /\ \A h \in Handlers : reg[h] # "storing"
    /\ streamer = "offer" => offered # Nil
    /\ creating[Nil] = 0 /\ running[Nil] = 0

LEMMA NoHolesStep ==
    ASSUME ~RacyAppend, IInv, NoHoles, [Next]_vars
    PROVE  NoHoles'
<1> USE ServerAssumption DEF mainVars, appVars, streamVars, taskVars
<1>1. /\ Len(handlers) \in Nat /\ sent \in Nat /\ target \in Nat
      /\ creating \in [Slots -> Nat] /\ running \in [Slots -> Nat] /\ Nil \in Slots
    BY DEF IInv, TypeOK, Slots
<1>2. ASSUME NEW h \in Handlers, Register(h) PROVE NoHoles'
    <2>1. CASE Append_(h)
        <3>1. handlers' = Append(handlers, h) /\ reg' = [reg EXCEPT ![h] = "signal"]
            BY <2>1 DEF Append_
        <3>2. \A i \in 1..Len(handlers') : handlers'[i] # Nil
            BY <1>1, <3>1, AppendProperties DEF NoHoles, IInv, TypeOK, Slots
        <3>3. QED
            BY <2>1, <3>1, <3>2 DEF NoHoles, Append_, IInv, TypeOK
    <2>2. CASE StoreElement(h)
        BY <2>2 DEF NoHoles, StoreElement
    <2>3. CASE Refresh(h)
        BY <2>3 DEF NoHoles, Refresh, IInv, TypeOK
    <2>4. QED
        BY <1>2, <2>1, <2>2, <2>3 DEF Register
<1>3. ASSUME Main \/ LoseConnection \/ Shutdown \/ OnlyAsking PROVE NoHoles'
    BY <1>3 DEF NoHoles, Main, DialSucceeds, DialFails, RangeEnds, Disconnect, GoIdle,
                IdleTimer, IdleAborted, LoseConnection, Shutdown, OnlyAsking
<1>4. CASE Scan
    BY <1>1, <1>4 DEF NoHoles, Scan, Offering, IInv, StreamerBounds
<1>5. CASE Spawn
    <2>1. creating'[Nil] = 0
        BY <1>1, <1>5 DEF NoHoles, Spawn, Add
    <2>2. sent < target /\ target <= Len(handlers)
        BY <1>5 DEF Spawn, IInv, StreamerBounds
    <2>3. QED
        BY <1>1, <1>5, <2>1, <2>2 DEF NoHoles, Spawn, Offering
<1>6. CASE Refreshed \/ StopStreaming
    BY <1>6 DEF NoHoles, Refreshed, StopStreaming
<1>7. ASSUME NEW h \in Slots, Task(h) PROVE NoHoles'
    <2>1. UNCHANGED <<handlers, reg, streamer, offered>>
        BY <1>7 DEF Task, CreateSucceeds, CreateFails, HandlerReturns, WgDone
    <2>2. creating'[Nil] = 0 /\ running'[Nil] = 0
        BY <1>1, <1>7 DEF NoHoles, Task, CreateSucceeds, CreateFails,
                          HandlerReturns, WgDone, Add, Sub
    <2>3. QED
        BY <2>1, <2>2 DEF NoHoles
<1>8. QED
    BY <1>2, <1>3, <1>4, <1>5, <1>6, <1>7, RetryingStep DEF Next, Streamer

(* If the streamer read the slice under handlersLock, no goroutine would ever
   be started for an element that handle() has not stored yet. *)
THEOREM LockedReadSuffices == ~RacyAppend /\ SafeSpec => []OnlyHandlersRun
<1> SUFFICES ASSUME ~RacyAppend PROVE SafeSpec => []OnlyHandlersRun
    OBVIOUS
<1>1. Init => NoHoles
    BY ServerAssumption DEF Init, NoHoles, None, Slots
<1>2. IInv /\ NoHoles /\ [Next]_vars => NoHoles'
    BY NoHolesStep
<1>3. NoHoles => OnlyHandlersRun
    BY DEF NoHoles, OnlyHandlersRun
<1>4. QED
    BY <1>1, <1>2, <1>3, Invariance, PTL DEF SafeSpec

-----------------------------------------------------------------------------
(* All those goroutines together show the user the documented states, with a
   handler's channel opened at most once and closed before DISCONNECTED. *)
THEOREM ServerRefinesLifecycle == SafeSpec => ImplementsLifecycle
<1> USE DEF Life!lifecycleVars, LifecycleState, OpenChannels
<1>1. Init => Life!Init
    BY ServerAssumption DEF Init, Life!Init, None, Slots
<1>2. IInv /\ [Next]_vars => [Life!Next]_(Life!lifecycleVars)
    <2> SUFFICES ASSUME IInv, [Next]_vars
                 PROVE  [Life!Next]_(Life!lifecycleVars)
        OBVIOUS
    <2> USE DEF mainVars, appVars, streamVars, taskVars
    <2>0. /\ creating \in [Slots -> Nat] /\ running \in [Slots -> Nat]
          /\ leaving \in [Slots -> Nat] /\ Handlers \subseteq Slots
        BY DEF IInv, TypeOK, Slots
    <2>1. ASSUME NEW h \in Handlers, Register(h) PROVE UNCHANGED Life!lifecycleVars
        BY <2>1 DEF Register, Append_, StoreElement, Refresh
    <2>2. ASSUME Streamer \/ LoseConnection \/ Shutdown \/ OnlyAsking
          PROVE  UNCHANGED Life!lifecycleVars
        BY <2>2 DEF Streamer, Scan, Spawn, Refreshed, StopStreaming,
                    LoseConnection, Shutdown, OnlyAsking
    <2>3. CASE DialSucceeds \/ DialFails \/ RangeEnds
        BY <2>3 DEF DialSucceeds, DialFails, RangeEnds, Life!Next, Life!Connect,
                    Life!DialFailed, Life!StopCreating, Life!Move
    <2>4. CASE Disconnect
        <3>1. OpenChannels = {}
            BY <2>0, <2>4 DEF Disconnect, None
        <3>2. QED
            BY <2>4, <3>1 DEF Disconnect, Life!Next, Life!Disconnect, Life!Move
    <2>5. CASE GoIdle \/ IdleTimer \/ IdleAborted
        BY <2>5 DEF GoIdle, IdleTimer, IdleAborted, Life!Next, Life!Rest, Life!Retry,
                    Life!Finish, Life!Move
    <2>6. ASSUME NEW h \in Slots, CreateFails(h) \/ WgDone(h)
           PROVE  UNCHANGED Life!lifecycleVars
        BY <2>6 DEF CreateFails, WgDone
    <2>7. ASSUME NEW h \in Slots, CreateSucceeds(h) \/ HandlerReturns(h)
           PROVE  [Life!Next]_(Life!lifecycleVars)
        <3>1. srv \in {"established", "draining"} /\ UNCHANGED srv
            BY <2>7, GoroutineNeedsConnection
               DEF CreateSucceeds, HandlerReturns, IInv
        <3>2. CASE h = Nil
            <4>1. \A g \in Handlers : running'[g] = running[g]
                BY <2>0, <2>7, <3>2, ServerAssumption
                   DEF CreateSucceeds, HandlerReturns, Add, Sub
            <4>2. QED
                BY <3>1, <4>1
        <3>3. CASE h \in Handlers
            <4>1. Goroutines(h) <= 1 /\ Goroutines(h) \in Nat
                BY <2>0, <3>3 DEF IInv, OneGoroutinePerHandler, Goroutines
            <4>2. CASE CreateSucceeds(h)
                <5>1. running[h] = 0 /\ running'[h] = 1
                    BY <2>0, <4>1, <4>2 DEF CreateSucceeds, Goroutines, Add
                <5>2. \A g \in Handlers : g # h => running'[g] = running[g]
                    BY <2>0, <4>2 DEF CreateSucceeds, Add
                <5>3. h \notin OpenChannels /\ OpenChannels' = OpenChannels \union {h}
                    BY <3>3, <5>1, <5>2
                <5>4. QED
                    BY <3>1, <3>3, <5>3
                       DEF Life!Next, Life!ChannelCreated, Life!Connected
            <4>3. CASE HandlerReturns(h)
                <5>1. running[h] = 1 /\ running'[h] = 0
                    BY <2>0, <4>1, <4>3 DEF HandlerReturns, Goroutines, Sub
                <5>2. \A g \in Handlers : g # h => running'[g] = running[g]
                    BY <2>0, <4>3 DEF HandlerReturns, Sub
                <5>3. h \in OpenChannels /\ OpenChannels' = OpenChannels \ {h}
                    BY <3>3, <5>1, <5>2
                <5>4. QED
                    BY <3>1, <3>3, <5>3
                       DEF Life!Next, Life!ChannelClosed, Life!Connected
            <4>4. QED
                BY <2>7, <4>2, <4>3
        <3>4. QED
            BY <3>2, <3>3 DEF Slots
    <2>8. CASE Main
        BY <2>3, <2>4, <2>5, <2>8 DEF Main
    <2>9. QED
        BY <2>1, <2>2, <2>6, <2>7, <2>8, RetryingStep DEF Next, Task
<1>3. QED
    BY <1>1, <1>2, Invariance, PTL DEF SafeSpec, ImplementsLifecycle, Life!Spec

-----------------------------------------------------------------------------
(***************************************************************************)
(* What ShutdownCompletes and EndsAreNoticed rest on, without their        *)
(* fairness: the guards of start(), of the streamer, and of the goroutine  *)
(* of a handler, which returns when it must, and leaves Requeue when the   *)
(* application ends.  (That the requeue answers is not among them.)        *)
(***************************************************************************)
MainReady ==
    \/ srv \in {"ready", "disconnected", "idle"}
    \/ srv = "established" /\ streamer = "closed"
    \/ srv = "draining" /\ \A h \in Slots : Goroutines(h) = 0

StreamerReady ==
    \/ streamer = "scan"
    \/ streamer = "offer" /\ (srv = "established" \/ Cancelled)
    \/ streamer = "wait" /\ (refresh = 1 \/ Cancelled)

TaskReady(h) ==
    \/ creating[h] > 0 \/ leaving[h] > 0
    \/ running[h] > 0 /\ MustReturn(h)
    \/ h \in asking /\ gctx = "done"

\* A connection that nobody has ended, with all handlers streamed but those
\* whose registration is still to send its token.
AtRest ==
    /\ srv = "established" /\ streamer = "wait" /\ ~Cancelled
    /\ sent = Len(handlers) \/ \E h \in Handlers : reg[h] \in {"storing", "signal"}

\* A connection that has ended but for its sinks in Requeue.
Held ==
    /\ srv = "draining"
    /\ \E h \in Slots : Goroutines(h) > 0
    /\ \A h \in Slots : Goroutines(h) > 0 => h \in asking

NoDeadEnd ==
    \/ srv = "finished" \/ Panicked
    \/ gctx = "live" /\ (AtRest \/ Held)
    \/ MainReady \/ StreamerReady \/ \E h \in Slots : TaskReady(h)

\* The streamer gives up only what is cancelled, and that stays so.
ClosedIsCancelled == streamer = "closed" => Cancelled

LEMMA ClosedStep == ClosedIsCancelled /\ [Next]_vars => ClosedIsCancelled'
<1> SUFFICES ASSUME ClosedIsCancelled, [Next]_vars, streamer' = "closed" PROVE Cancelled'
    BY DEF ClosedIsCancelled
<1> USE DEF ClosedIsCancelled, Cancelled, mainVars, streamVars
<1>1. CASE Main
    BY <1>1 DEF Main, DialSucceeds, DialFails, RangeEnds, Disconnect, GoIdle,
               IdleTimer, IdleAborted
<1>2. CASE Streamer
    BY <1>2 DEF Streamer, Scan, Spawn, Refreshed, StopStreaming, Offering
<1>3. CASE \/ LoseConnection \/ Shutdown \/ OnlyAsking
           \/ \E h \in Handlers : Register(h)
    BY <1>3 DEF LoseConnection, Shutdown, OnlyAsking, Register, Append_, StoreElement, Refresh
<1>4. CASE \E h \in Slots : Task(h)
    BY <1>4 DEF Task, CreateSucceeds, CreateFails, HandlerReturns, WgDone
<1>5. QED
    BY <1>1, <1>2, <1>3, <1>4, RetryingStep DEF Next

(* amqp.go: start() waits for the streamer and for the goroutines, the streamer
   for start(), a registration or the contexts, the goroutines for the contexts:
   these waits never close a circle.  As long as the application goes on, nobody
   need move on a connection at rest, and on one that has ended but for its
   sinks in Requeue, which wait for a requeue that may have left (Transact).
   After the shutdown somebody can always step until the server has finished. *)
THEOREM NeverWedged == SafeSpec => []NoDeadEnd
<1>1. Init => ClosedIsCancelled
    BY DEF Init, ClosedIsCancelled
<1>2. IInv /\ ClosedIsCancelled => NoDeadEnd
    <2> SUFFICES ASSUME IInv, ClosedIsCancelled, srv # "finished", ~MainReady,
                        ~StreamerReady, \A h \in Slots : ~TaskReady(h)
                 PROVE  gctx = "live" /\ (AtRest \/ Held)
        BY DEF NoDeadEnd
    <2>1. \A h \in Slots : /\ creating[h] = 0 /\ leaving[h] = 0 /\ running[h] \in Nat
                           /\ running[h] > 0 => h \in asking \/ ~Cancelled
        BY DEF IInv, TypeOK, TaskReady, MustReturn
    <2>2. ASSUME srv = "draining" PROVE gctx = "live" /\ Held
        <3>1. Cancelled
            BY <2>2 DEF IInv, Phases, ClosedIsCancelled
        <3>2. \A h \in Slots : Goroutines(h) = running[h]
            BY <2>1 DEF Goroutines
        <3>3. PICK h \in Slots : Goroutines(h) # 0
            BY <2>2 DEF MainReady
        <3>4. Goroutines(h) > 0 /\ h \in asking
            BY <2>1, <3>1, <3>2, <3>3
        <3>5. gctx = "live"
            BY <3>4 DEF TaskReady, IInv, TypeOK
        <3>6. QED
            BY <2>1, <2>2, <3>1, <3>2, <3>4, <3>5 DEF Held
    <2>3. ASSUME srv # "draining" PROVE gctx = "live" /\ AtRest
        <3>1. srv = "established" /\ streamer = "wait" /\ refresh = 0 /\ ~Cancelled
            BY <2>3 DEF MainReady, StreamerReady, IInv, TypeOK, Phases
        <3>2. sent = target /\ target <= Len(handlers) /\ target \in Nat /\ Len(handlers) \in Nat
            BY <3>1, LenProperties DEF IInv, StreamerBounds, TypeOK
        <3>3. target < Len(handlers) => \E h \in Handlers : reg[h] \in {"storing", "signal"}
            BY <3>1 DEF IInv, TokenOwed
        <3>4. gctx = "live"
            BY <3>1 DEF Cancelled, IInv, TypeOK
        <3>5. QED
            BY <3>1, <3>2, <3>3, <3>4 DEF AtRest
    <2>4. QED
        BY <2>2, <2>3
<1>3. QED
    BY <1>1, <1>2, ClosedStep, Invariance, PTL DEF SafeSpec
==============================================================================
