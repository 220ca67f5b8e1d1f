----------------------------- MODULE RpcProofs -----------------------------
(***************************************************************************)
(* Proofs of the safety of Rpc, for any number of calls and of replies to  *)
(* each.                                                                   *)
(*                                                                         *)
(* The reply channel of a call is used by onMessage and by the release     *)
(* goroutine.  That they do not meet is a fact about the server: the sink  *)
(* has its channel while onMessage runs (Life), and no handler has one     *)
(* when the server has finished.  That onMessage does not meet itself is a *)
(* fact about the map: an entry is taken out once, by the first reply      *)
(* (Table), and put in before there can be one (Wire).                     *)
(*                                                                         *)
(* When the release goroutine is done it has emptied the map, and what was *)
(* taken out before has been answered; so a reader has an end (EndInv).    *)
(*                                                                         *)
(* Table also says whom a reader waits for while the broker is running     *)
(* (ReadersAreServed), and that only a call without a reply is released    *)
(* (ClosedMeansUnanswered).                                                *)
(***************************************************************************)
EXTENDS Rpc, TLAPS

Begun(c)  == call[c] # "idle"
Busy      == sink \in {"lookup", "send", "close"}

\* The server finishes last, and without the sink.
Phases ==
    /\ open # {} => Life!Connected
    /\ sink # "off" => "sink" \in open
    /\ release = "done" => srv = "finished"

\* Requests follow their calls, replies follow their requests and answers.
Wire ==
    /\ \A c \in backlog \union written : call[c] \notin {"idle", "registered"}
    /\ \A c \in Calls : replies[c] > 0 => c \in written
    /\ \A c \in Calls : replies[c] <= answers[c]
    /\ Busy => cur \in written
    /\ seen \subseteq written

\* What has an entry has not been replied to, and the other way round.
Table ==
    /\ \A c \in Calls : Begun(c) => c \in correlation \union seen
    /\ correlation \intersect seen = {}
    /\ buffered \subseteq seen
    /\ release = "waiting" => closed \subseteq seen
    /\ sink \in {"send", "close"} => cur \in seen \ closed
    /\ sink = "send" => cur \notin buffered

IInv == TypeOK /\ Phases /\ Wire /\ Table /\ FirstReplyArrives

-----------------------------------------------------------------------------
LEMMA InitInv == Init => IInv
BY RpcAssumption DEF Init, IInv, TypeOK, Phases, Wire, Table, FirstReplyArrives,
       Begun, Busy, Handlers, Life!Init, Life!States, Life!Connected

USE RpcAssumption DEF Handlers, Life!States

LEMMA TypeStep == TypeOK /\ Wire /\ [Next]_vars => TypeOK'
<1> SUFFICES ASSUME TypeOK, Wire, [Next]_vars PROVE TypeOK'
    OBVIOUS
<1> USE DEF TypeOK, lifeVars, callVars, wireVars, sinkVars
<1>1. ASSUME NEW c \in Calls, Caller(c) PROVE TypeOK'
    <2>1. CASE Register(c) \/ Send(c)
        BY <2>1 DEF Register, Send, Goto
    <2>2. CASE Sent(c)
        BY <2>2 DEF Sent, Goto
    <2>3. CASE Receive(c) \/ ReceiveClosed(c)
        BY <2>3 DEF Receive, ReceiveClosed, Goto
    <2>4. QED
        BY <1>1, <2>1, <2>2, <2>3 DEF Caller
<1>2. ASSUME NEW c \in Calls, Deliver(c) \/ Write(c) \/ Answer(c) \/ LoseReply(c)
      PROVE  TypeOK'
    <2>1. CASE Deliver(c)
        BY <2>1 DEF Deliver
    <2>2. CASE Write(c)
        BY <2>2 DEF Write
    <2>3. CASE Answer(c)
        <3>1. replies[c] + 1 \in 0..MaxReplies /\ answers[c] + 1 \in 0..MaxReplies
            BY <2>3 DEF Answer, Wire
        <3>2. QED
            BY <2>3, <3>1 DEF Answer
    <2>4. CASE LoseReply(c)
        BY <2>4 DEF LoseReply
    <2>5. QED
        BY <1>2, <2>1, <2>2, <2>3, <2>4
<1>3. CASE OnMessage \/ Release
    <2>1. Busy => cur \in Calls
        BY DEF Wire
    <2>2. QED
        BY <1>3, <2>1 DEF Busy, OnMessage, Lookup, SendReply, CloseReply, Release
<1>4. CASE Serve \/ WriterStarts \/ SinkStarts \/ WriterLeaves \/ SinkLeaves \/ Shutdown
    <2>1. CASE Serve
        BY <2>1 DEF Serve, Connect, Pass, Finish, Rest, Life!Connect, Life!Retry,
               Life!DialFailed, Life!StopCreating, Life!Disconnect, Life!Rest,
               Life!Finish, Life!Move
    <2>2. CASE WriterStarts \/ SinkStarts
        BY <2>2 DEF WriterStarts, SinkStarts, Start, Life!ChannelCreated
    <2>3. CASE WriterLeaves \/ SinkLeaves
        BY <2>3 DEF WriterLeaves, SinkLeaves, Rest, Life!ChannelClosed
    <2>4. CASE Shutdown
        BY <2>4 DEF Shutdown
    <2>5. QED
        BY <1>4, <2>1, <2>2, <2>3, <2>4
<1>5. CASE UNCHANGED vars
    BY <1>5 DEF vars
<1>6. QED
    BY <1>1, <1>2, <1>3, <1>4, <1>5 DEF Next

\* The steps of the server, for the parts of the invariant that they disturb.
LEMMA PhasesStep == TypeOK /\ Phases /\ [Next]_vars => Phases'
<1> SUFFICES ASSUME TypeOK, Phases, [Next]_vars PROVE Phases'
    OBVIOUS
<1> USE DEF Phases, Life!Connected, lifeVars, callVars, wireVars, sinkVars
<1>1. ASSUME NEW c \in Calls, Caller(c) PROVE Phases'
    BY <1>1 DEF Caller, Register, Send, Sent, Receive, ReceiveClosed
<1>2. ASSUME NEW c \in Calls, Deliver(c) \/ Write(c) \/ Answer(c) \/ LoseReply(c)
      PROVE  Phases'
    BY <1>2 DEF Deliver, Write, Answer, LoseReply
<1>3. CASE OnMessage \/ Release
    BY <1>3 DEF OnMessage, Lookup, SendReply, CloseReply, Release
<1>4. CASE Serve
    BY <1>4 DEF Serve, Connect, Pass, Finish, Rest, Life!Connect, Life!Retry,
           Life!DialFailed, Life!StopCreating, Life!Disconnect, Life!Rest,
           Life!Finish, Life!Move
<1>5. CASE WriterStarts \/ SinkStarts \/ WriterLeaves \/ SinkLeaves \/ Shutdown
    BY <1>5 DEF WriterStarts, SinkStarts, Start, WriterLeaves, SinkLeaves, Rest,
           Shutdown, Life!ChannelCreated, Life!ChannelClosed
<1>6. CASE UNCHANGED vars
    BY <1>6 DEF vars
<1>7. QED
    BY <1>1, <1>2, <1>3, <1>4, <1>5, <1>6 DEF Next

LEMMA WireStep == TypeOK /\ Wire /\ [Next]_vars => Wire'
<1> SUFFICES ASSUME TypeOK, Wire, [Next]_vars PROVE Wire'
    OBVIOUS
<1> USE DEF TypeOK, Wire, Busy, lifeVars, callVars, wireVars, sinkVars
<1>1. ASSUME NEW c \in Calls, Caller(c) PROVE Wire'
    BY <1>1 DEF Caller, Register, Send, Sent, Receive, ReceiveClosed, Goto
<1>2. ASSUME NEW c \in Calls, Deliver(c) PROVE Wire'
    BY <1>2 DEF Deliver
<1>3. ASSUME NEW c \in Calls, Write(c) PROVE Wire'
    BY <1>3 DEF Write
<1>4. ASSUME NEW c \in Calls, Answer(c) PROVE Wire'
    BY <1>4 DEF Answer
<1>5. ASSUME NEW c \in Calls, LoseReply(c) PROVE Wire'
    BY <1>5 DEF LoseReply
<1>6. CASE OnMessage \/ Release
    BY <1>6 DEF OnMessage, Lookup, SendReply, CloseReply, Release
<1>7. CASE Serve \/ WriterStarts \/ SinkStarts \/ WriterLeaves \/ SinkLeaves \/ Shutdown
    BY <1>7 DEF Serve, Connect, Pass, Finish, Rest, WriterStarts, SinkStarts, Start,
           WriterLeaves, SinkLeaves, Shutdown
<1>8. CASE UNCHANGED vars
    BY <1>8 DEF vars
<1>9. QED
    BY <1>1, <1>2, <1>3, <1>4, <1>5, <1>6, <1>7, <1>8 DEF Next

\* A call is not seen before it is registered, and onMessage does not run when
\* the release does.
LEMMA TableStep ==
    TypeOK /\ Phases /\ Wire /\ Table /\ FirstReplyArrives /\ [Next]_vars
        => Table' /\ FirstReplyArrives'
<1> SUFFICES ASSUME TypeOK, Phases, Wire, Table, FirstReplyArrives, [Next]_vars
             PROVE  Table' /\ FirstReplyArrives'
    OBVIOUS
<1> USE DEF Table, FirstReplyArrives, Begun, lifeVars, callVars, wireVars, sinkVars
<1>1. ASSUME NEW c \in Calls, Register(c) PROVE Table' /\ FirstReplyArrives'
    <2>1. c \notin seen
        BY <1>1 DEF Wire, Register
    <2>2. QED
        BY <1>1, <2>1 DEF Register, Goto, TypeOK
<1>2. ASSUME NEW c \in Calls, Send(c) \/ Sent(c) PROVE Table' /\ FirstReplyArrives'
    BY <1>2 DEF Send, Sent, Goto, TypeOK
<1>3. ASSUME NEW c \in Calls, Receive(c) PROVE Table' /\ FirstReplyArrives'
    BY <1>3 DEF Receive, Goto, TypeOK
<1>4. ASSUME NEW c \in Calls, ReceiveClosed(c) PROVE Table' /\ FirstReplyArrives'
    BY <1>4 DEF ReceiveClosed, Goto, TypeOK
<1>5. ASSUME NEW c \in Calls, Deliver(c) \/ Write(c) \/ Answer(c) \/ LoseReply(c)
      PROVE  Table' /\ FirstReplyArrives'
    BY <1>5 DEF Deliver, Write, Answer, LoseReply
<1>6. CASE Lookup
    <2>1. release = "waiting"
        BY <1>6 DEF Lookup, Phases, TypeOK, Life!Connected
    <2>2. cur \in Calls /\ cur \in written
        BY <1>6 DEF Lookup, Wire, Busy, TypeOK
    <2>3. CASE cur \in correlation
        BY <1>6, <2>1, <2>2, <2>3 DEF Lookup, TypeOK
    <2>4. CASE cur \notin correlation
        <3>1. cur \in seen
            BY <2>2, <2>4 DEF Wire
        <3>2. QED
            BY <1>6, <2>4, <3>1 DEF Lookup, TypeOK
    <2>5. QED
        BY <2>3, <2>4
<1>7. CASE SendReply
    BY <1>7 DEF SendReply
<1>8. CASE CloseReply
    BY <1>8 DEF CloseReply
<1>9. CASE Release
    <2>1. sink = "off"
        BY <1>9 DEF Release, Phases, Life!Connected
    <2>2. QED
        BY <1>9, <2>1 DEF Release
<1>10. CASE Serve \/ WriterStarts \/ WriterLeaves \/ SinkLeaves \/ Shutdown
    BY <1>10 DEF Serve, Connect, Pass, Finish, Rest, WriterStarts, Start,
           WriterLeaves, SinkLeaves, Shutdown
<1>11. CASE SinkStarts
    <2>1. sink = "off"
        BY <1>11 DEF SinkStarts, Start, Life!ChannelCreated, Phases
    <2>2. QED
        BY <1>11, <2>1 DEF SinkStarts, Start
<1>12. CASE UNCHANGED vars
    BY <1>12 DEF vars
<1>13. QED
    BY <1>1, <1>2, <1>3, <1>4, <1>5, <1>6, <1>7, <1>8, <1>9, <1>10, <1>11, <1>12
    DEF Next, Caller, OnMessage

THEOREM Invariance == SafeSpec => []IInv
<1>1. IInv /\ [Next]_vars => IInv'
    BY TypeStep, PhasesStep, WireStep, TableStep DEF IInv
<1>2. QED
    BY InitInv, <1>1, PTL DEF SafeSpec

-----------------------------------------------------------------------------
(* The variables of the calls keep their types in every run. *)
THEOREM TypeCorrect == SafeSpec => []TypeOK
<1>1. IInv => TypeOK
    BY DEF IInv
<1>2. QED
    BY <1>1, Invariance, PTL

(* A reply channel is sent to once, closed once, and never sent to when it is
   closed, although onMessage uses it outside of the lock. *)
THEOREM ChannelsSafe == SafeSpec => []ChannelsUsedOnce
<1>1. IInv => ChannelsUsedOnce
    BY DEF IInv, Table, ChannelsUsedOnce, TypeOK
<1>2. QED
    BY <1>1, Invariance, PTL

(* A reply that onMessage has looked up is the result of its call. *)
THEOREM RepliesArrive == SafeSpec => []FirstReplyArrives
<1>1. IInv => FirstReplyArrives
    BY DEF IInv
<1>2. QED
    BY <1>1, Invariance, PTL

-----------------------------------------------------------------------------
(***************************************************************************)
(* After the release.  A request that was written has an end: its entry    *)
(* was there for a reply or for the release, and none is written later.    *)
(***************************************************************************)
EndInv ==
    /\ \A c \in Calls : call[c] \in {"reading", "answered", "released"} => c \in written
    /\ release = "done" => written \subseteq seen \union closed

ReaderHasEnd ==
    release = "done" => \A c \in Calls : call[c] = "reading" => c \in buffered \union closed

LEMMA Finished == IInv /\ srv = "finished" => open = {} /\ sink = "off"
BY DEF IInv, Phases, Life!Connected

LEMMA FinishedStays == IInv /\ srv = "finished" /\ [Next]_vars => srv' = "finished"
<1> SUFFICES ASSUME IInv, srv = "finished", [Next]_vars PROVE srv' = srv
    OBVIOUS
<1>1. ASSUME NEW c \in Calls,
             Caller(c) \/ Deliver(c) \/ Write(c) \/ Answer(c) \/ LoseReply(c)
      PROVE  srv' = srv
    BY <1>1 DEF Caller, Register, Send, Sent, Receive, ReceiveClosed, Deliver, Write, Answer,
       LoseReply, lifeVars
<1>2. CASE OnMessage \/ Release \/ Shutdown
    BY <1>2 DEF OnMessage, Lookup, SendReply, CloseReply, Release, Shutdown, lifeVars
<1>3. ~Serve
    BY DEF Serve, Connect, Pass, Finish, Life!Connect, Life!Retry, Life!DialFailed,
       Life!StopCreating, Life!Disconnect, Life!Rest, Life!Finish, Life!Move
<1>4. ~(WriterStarts \/ SinkStarts \/ WriterLeaves \/ SinkLeaves)
    BY DEF WriterStarts, SinkStarts, Start, WriterLeaves, SinkLeaves, Life!ChannelCreated,
       Life!ChannelClosed, Life!Connected
<1>5. CASE UNCHANGED vars
    BY <1>5 DEF vars, lifeVars
<1>6. QED
    BY <1>1, <1>2, <1>3, <1>4, <1>5 DEF Next

LEMMA EndStep == IInv /\ EndInv /\ [Next]_vars => EndInv'
<1> SUFFICES ASSUME IInv, EndInv, [Next]_vars PROVE EndInv'
    OBVIOUS
<1> USE DEF EndInv, lifeVars, callVars, wireVars, sinkVars
<1>1. ASSUME NEW c \in Calls, Caller(c) PROVE EndInv'
    BY <1>1 DEF Caller, Register, Send, Sent, Receive, ReceiveClosed, Goto, IInv, TypeOK
<1>2. ASSUME NEW c \in Calls, Deliver(c) \/ Answer(c) \/ LoseReply(c) PROVE EndInv'
    BY <1>2 DEF Deliver, Answer, LoseReply
<1>3. ASSUME NEW c \in Calls, Write(c) PROVE EndInv'
    <2>1. release # "done"
        BY <1>3 DEF Write, IInv, Phases, Life!Connected
    <2>2. QED
        BY <1>3, <2>1 DEF Write
<1>4. CASE OnMessage
    BY <1>4 DEF OnMessage, Lookup, SendReply, CloseReply
<1>5. CASE Release
    <2>1. \A c \in written : c \in correlation \union seen
        BY DEF IInv, TypeOK, Wire, Table, Begun
    <2>2. QED
        BY <1>5, <2>1 DEF Release
<1>6. CASE Serve \/ WriterStarts \/ SinkStarts \/ WriterLeaves \/ SinkLeaves \/ Shutdown
    BY <1>6 DEF Serve, Connect, Pass, Finish, Rest, WriterStarts, SinkStarts, Start,
       WriterLeaves, SinkLeaves, Shutdown
<1>7. CASE UNCHANGED vars
    BY <1>7 DEF vars
<1>8. QED
    BY <1>1, <1>2, <1>3, <1>4, <1>5, <1>6, <1>7 DEF Next

(* Once the goroutine of BuildRPC has released its resources, whoever reads a
   Reply finds a reply or a closed channel: nobody is forgotten, although
   calls go on registering and onMessage was using the channels meanwhile. *)
THEOREM NoReaderForgotten == SafeSpec => []ReaderHasEnd
<1>1. Init => EndInv
    BY DEF Init, EndInv
<1>2. IInv /\ EndInv => ReaderHasEnd
    <2> SUFFICES ASSUME IInv, EndInv, release = "done", NEW c \in Calls, call[c] = "reading"
                 PROVE  c \in buffered \union closed
        BY DEF ReaderHasEnd
    <2>1. sink = "off"
        BY Finished DEF IInv, Phases
    <2>2. c \in seen \union closed
        BY DEF EndInv
    <2>3. QED
        BY <2>1, <2>2 DEF IInv, FirstReplyArrives
<1>3. QED
    BY <1>1, <1>2, EndStep, Invariance, PTL DEF SafeSpec

(* A caller that is still inside Raw when the server has finished, with its
   request not published, stays there: nothing releases it. *)
Abandoned(c) == srv = "finished" /\ call[c] = "sending" /\ c \notin written

(* rpc.go: once abandoned a call stays so; Raw waits for the Done channel of a
   message that no publisher will take, and the release goroutine closes reply
   channels only. *)
THEOREM RawIsNotReleased ==
    ASSUME NEW c \in Calls PROVE SafeSpec => [][Abandoned(c) => Abandoned(c)']_vars
<1>1. IInv /\ [Next]_vars => (Abandoned(c) => Abandoned(c)')
    <2> SUFFICES ASSUME IInv, [Next]_vars, Abandoned(c)
                 PROVE  call'[c] = "sending" /\ c \notin written'
        BY FinishedStays DEF Abandoned
    <2>1. open = {}
        BY Finished DEF Abandoned
    <2> USE DEF Abandoned, lifeVars, callVars, wireVars, sinkVars
    <2>2. ASSUME NEW d \in Calls, Caller(d) PROVE call'[c] = "sending" /\ c \notin written'
        BY <2>2 DEF Caller, Register, Send, Sent, Receive, ReceiveClosed, Goto, IInv, TypeOK
    <2>3. ASSUME NEW d \in Calls, Deliver(d) \/ Write(d) \/ Answer(d) \/ LoseReply(d)
          PROVE  call'[c] = "sending" /\ c \notin written'
        BY <2>1, <2>3 DEF Deliver, Write, Answer, LoseReply
    <2>4. CASE OnMessage \/ Release
        BY <2>4 DEF OnMessage, Lookup, SendReply, CloseReply, Release
    <2>5. CASE Serve \/ WriterStarts \/ SinkStarts \/ WriterLeaves \/ SinkLeaves \/ Shutdown
        BY <2>5 DEF Serve, Connect, Pass, Finish, Rest, WriterStarts, SinkStarts, Start,
           WriterLeaves, SinkLeaves, Shutdown
    <2>6. CASE UNCHANGED vars
        BY <2>6 DEF vars
    <2>7. QED
        BY <2>2, <2>3, <2>4, <2>5, <2>6 DEF Next
<1>2. QED
    BY <1>1, Invariance, PTL DEF SafeSpec

-----------------------------------------------------------------------------
(* The writer and the sink of rpc.go use the server only as Lifecycle allows,
   which is what Server is shown to implement. *)
THEOREM RpcFollowsLifecycle == SafeSpec => Life!Spec
<1> USE DEF lifeVars, Life!lifecycleVars
<1>1. Init => Life!Init
    BY DEF Init
<1>2. [Next]_vars => [Life!Next]_<<srv, open>>
    <2> SUFFICES ASSUME [Next]_vars PROVE Life!Next \/ UNCHANGED <<srv, open>>
        OBVIOUS
    <2>1. ASSUME NEW c \in Calls,
                 Caller(c) \/ Deliver(c) \/ Write(c) \/ Answer(c) \/ LoseReply(c)
          PROVE  UNCHANGED <<srv, open>>
        BY <2>1 DEF Caller, Register, Send, Sent, Receive, ReceiveClosed, Deliver, Write,
           Answer, LoseReply
    <2>2. CASE OnMessage \/ Release \/ Shutdown \/ UNCHANGED vars
        BY <2>2 DEF OnMessage, Lookup, SendReply, CloseReply, Release, Shutdown, vars
    <2>3. CASE Serve
        BY <2>3 DEF Serve, Connect, Pass, Finish, Life!Next
    <2>4. CASE WriterStarts \/ SinkStarts \/ WriterLeaves \/ SinkLeaves
        BY <2>4 DEF WriterStarts, SinkStarts, Start, WriterLeaves, SinkLeaves, Life!Next
    <2>5. QED
        BY <2>1, <2>2, <2>3, <2>4 DEF Next
<1>3. QED
    BY <1>1, <1>2, PTL DEF SafeSpec, Life!Spec

-----------------------------------------------------------------------------
(***************************************************************************)
(* What a Reply can be told, at any time.                                  *)
(***************************************************************************)

\* A reader has an entry that the release goroutine will find, or a reply or
\* the end of its channel is there, or onMessage holds its reply.
ReaderIsServed ==
    \A c \in Calls : call[c] = "reading" =>
        \/ c \in correlation \union buffered \union closed
        \/ sink = "send" /\ cur = c

(* rpc.go: from the registration on, no step of onMessage, of a late reply or of
   the release leaves a reader without somebody who will end its wait. *)
THEOREM ReadersAreServed == SafeSpec => []ReaderIsServed
<1>1. ASSUME IInv, NEW c \in Calls, call[c] = "reading"
      PROVE  \/ c \in correlation \union buffered \union closed
             \/ sink = "send" /\ cur = c
    <2>1. c \in correlation \union seen
        BY <1>1 DEF IInv, Table, Begun
    <2>2. QED
        BY <1>1, <2>1 DEF IInv, FirstReplyArrives
<1>2. IInv => ReaderIsServed
    BY <1>1 DEF ReaderIsServed
<1>3. QED
    BY <1>2, Invariance, PTL

\* "closed channel" is said only of a call that no reply was ever found for.
ReleasedUnanswered ==
    \A c \in Calls : call[c] = "released" => c \notin seen /\ release = "done"

LEMMA ReleasedStep ==
    IInv /\ ReleasedUnanswered /\ [Next]_vars => ReleasedUnanswered'
<1> SUFFICES ASSUME IInv, ReleasedUnanswered, [Next]_vars PROVE ReleasedUnanswered'
    OBVIOUS
<1> USE DEF ReleasedUnanswered, lifeVars, callVars, wireVars, sinkVars
<1>1. ASSUME NEW c \in Calls, ReceiveClosed(c) PROVE ReleasedUnanswered'
    <2>1. c \in closed \ buffered /\ call[c] = "reading"
        BY <1>1 DEF ReceiveClosed
    <2>2. c \notin seen
        BY <2>1 DEF IInv, Table, FirstReplyArrives
    <2>3. release = "done"
        BY <2>1, <2>2 DEF IInv, Table, TypeOK
    <2>4. QED
        BY <1>1, <2>2, <2>3 DEF ReceiveClosed, Goto, IInv, TypeOK
<1>2. ASSUME NEW c \in Calls, Register(c) \/ Send(c) \/ Sent(c) \/ Receive(c)
      PROVE  ReleasedUnanswered'
    BY <1>2 DEF Register, Send, Sent, Receive, Goto, IInv, TypeOK
<1>3. CASE Lookup
    <2>1. release # "done"
        BY <1>3, Finished DEF Lookup, IInv, Phases
    <2>2. QED
        BY <1>3, <2>1 DEF Lookup
<1>4. ASSUME \/ SendReply \/ CloseReply \/ Release \/ UNCHANGED vars
             \/ \E c \in Calls : Deliver(c) \/ Write(c) \/ Answer(c) \/ LoseReply(c)
      PROVE  ReleasedUnanswered'
    BY <1>4 DEF SendReply, CloseReply, Release, Deliver, Write, Answer, LoseReply, vars
<1>5. CASE Serve \/ WriterStarts \/ SinkStarts \/ WriterLeaves \/ SinkLeaves \/ Shutdown
    BY <1>5 DEF Serve, Connect, Pass, Finish, Rest, WriterStarts, SinkStarts, Start,
       WriterLeaves, SinkLeaves, Shutdown
<1>6. QED
    BY <1>1, <1>2, <1>3, <1>4, <1>5 DEF Next, Caller, OnMessage

(* rpc.go, Reply.JSON and Reply.Bytes: the error of a closed channel means that
   the broker has finished and that onMessage has seen no reply to the call; a
   reply that was delivered is never turned into it. *)
THEOREM ClosedMeansUnanswered == SafeSpec => []ReleasedUnanswered
<1>1. Init => ReleasedUnanswered
    BY DEF Init, ReleasedUnanswered
<1>2. QED
    BY <1>1, ReleasedStep, Invariance, PTL DEF SafeSpec
==============================================================================
