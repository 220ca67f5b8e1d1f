---------------------------- MODULE DeliveryProofs ----------------------------
(***************************************************************************)
(* Proofs about Delivery, for any messages and any configuration of the    *)
(* sink that can work.                                                     *)
(*                                                                         *)
(* SettlesOnce: as long as its channel is there the delivery in work is    *)
(* unacknowledged (HeldByUs), and nothing but the sink itself ends that.   *)
(* NothingIsLost: what a copy may be routed to is declared before there is *)
(* a delivery, and goes away only with all copies (NamedInv).              *)
(* NotHandledAgain: what was handled never comes back (OnceInv).           *)
(* SignaturesSurvive: every copy and every delivery has the signature that *)
(* its message was sent with (SignedInv).                                  *)
(***************************************************************************)
EXTENDS Delivery, SequenceTheorems, TLAPS

InWork == sink \in {"decide", "filter", "refuse", "ack", "nack", "requeue"}

(***************************************************************************)
(* A delivery is settled once.                                             *)
(***************************************************************************)

\* Copies are records, whatever their envelopes.
Shape(c) == c = [state |-> c.state, queue |-> c.queue, msg |-> c.msg]
CopiesOK == /\ copy = [m \in Messages |-> copy[m]]
            /\ \A m \in Messages : Shape(copy[m])

LinkOK == /\ link \in {"none", "up", "broken"}
          /\ link = "none" <=> sink = "off"

HeldByUs ==
    InWork => /\ cur \in Messages
              /\ ~setup.auto /\ link = "up" => copy[cur].state = "unacked"

IInv == CopiesOK /\ LinkOK /\ HeldByUs /\ NoChannelError

-----------------------------------------------------------------------------
LEMMA RoutedShape ==
    ASSUME NEW msg, NEW exchange, NEW key, NEW otherwise
    PROVE  /\ Shape(Routed(msg, exchange, key, otherwise))
           /\ Shape(Settled(otherwise, msg))
           /\ Shape(DeadLettered(msg))
BY DEF Shape, Routed, Settled, DeadLettered

LEMMA ReturnedShape == ASSUME NEW c, Shape(c) PROVE Shape(Returned(c))
BY DEF Shape, Returned, Settled

\* A copy replaced by another: the others stay.
LEMMA CopyChange ==
    ASSUME CopiesOK, NEW m \in Messages, NEW c, Shape(c), copy' = [copy EXCEPT ![m] = c]
    PROVE  CopiesOK' /\ copy'[m] = c /\ \A n \in Messages \ {m} : copy'[n] = copy[n]
<1>1. copy'[m] = c /\ \A n \in Messages \ {m} : copy'[n] = copy[n]
    BY DEF CopiesOK
<1>2. copy' = [n \in Messages |-> copy'[n]]
    BY DEF CopiesOK
<1>3. QED
    BY <1>1, <1>2 DEF CopiesOK

LEMMA StateChange ==
    ASSUME CopiesOK, NEW m \in Messages, NEW st, copy' = [copy EXCEPT ![m].state = st]
    PROVE  /\ CopiesOK' /\ copy'[m].state = st
           /\ \A n \in Messages \ {m} : copy'[n] = copy[n]
<1> DEFINE c == [copy[m] EXCEPT !.state = st]
<1>1. Shape(copy[m])
    BY DEF CopiesOK
<1>2. Shape(c) /\ c.state = st
    BY <1>1 DEF Shape
<1>3. copy' = [copy EXCEPT ![m] = c]
    BY DEF CopiesOK
<1> HIDE DEF c
<1>4. QED
    BY <1>2, <1>3, CopyChange

LEMMA EndedCopies == ASSUME CopiesOK, Ended PROVE CopiesOK'
BY ReturnedShape DEF CopiesOK, Ended

LEMMA InitInv == Init => IInv
BY DEF Init, IInv, CopiesOK, Shape, Settled, LinkOK, HeldByUs, InWork, NoChannelError

-----------------------------------------------------------------------------
\* The sender and the broker touch only copies that nobody has in hand.
LEMMA OutsideInv ==
    ASSUME IInv, NEW m \in Messages, Send(m) \/ DelayExpires(m) \/ Push(m)
    PROVE  IInv'
<1> USE DEF IInv
<1>1. UNCHANGED <<setup, link, sinkVars, misused>>
    BY DEF Send, DelayExpires, Push, connVars, history
<1>2. /\ CopiesOK'
      /\ \A n \in Messages \ {m} : copy'[n] = copy[n]
      /\ copy[m].state # "unacked" \/ setup.auto
    <2>1. CASE Send(m)
        <3>1. PICK c : Shape(c) /\ copy' = [copy EXCEPT ![m] = c]
            <4>1. PICK sign \in MaySign :
                    LET msg == IF sign THEN Signed(NewMessage(m)) ELSE NewMessage(m)
                    IN  copy' = [copy EXCEPT ![m] =
                          IF setup.keys = <<>> THEN Routed(msg, <<>>, QueueName, "unrouted")
                          ELSE Routed(msg, setup.exchange, setup.keys[1], "unrouted")]
                BY <2>1 DEF Send
            <4>2. QED
                BY <4>1, RoutedShape
        <3>2. QED
            BY <2>1, <3>1, CopyChange DEF Send
    <2>2. CASE DelayExpires(m)
        BY <2>2, RoutedShape, CopyChange DEF DelayExpires, Waiting
    <2>3. CASE Push(m)
        BY <2>3, StateChange DEF Push, Here
    <2>4. QED
        BY <2>1, <2>2, <2>3
<1>3. HeldByUs'
    BY <1>1, <1>2 DEF HeldByUs, InWork, sinkVars
<1>4. QED
    BY <1>1, <1>2, <1>3 DEF LinkOK, NoChannelError, sinkVars

\* The end of a connection, of the sink, of the program or of the broker.
LEMMA LeaveInv ==
    ASSUME IInv, Leave, misused' = misused PROVE IInv'
BY EndedCopies DEF IInv, Leave, LinkOK, HeldByUs, InWork, NoChannelError

LEMMA FaultInv ==
    ASSUME IInv, Faults \/ Program PROVE IInv'
<1> USE DEF IInv
<1>1. CASE SetupFails \/ Kill
    BY <1>1, LeaveInv DEF SetupFails, Kill, Fails
<1>2. CASE LoseConnection
    BY <1>2, EndedCopies DEF LoseConnection, Fails, LinkOK, HeldByUs, InWork,
       NoChannelError, sinkVars
<1>3. CASE Restart
    <2>1. CopiesOK'
        BY <1>3, ReturnedShape, RoutedShape DEF Restart, CopiesOK
    <2>2. QED
        BY <1>3, <2>1 DEF Restart, LinkOK, HeldByUs, InWork, NoChannelError, sinkVars
<1>4. CASE Wipe
    <2>1. CopiesOK'
        BY <1>4, RoutedShape DEF Wipe, CopiesOK
    <2>2. QED
        BY <1>4, <2>1 DEF Wipe, Fails, LinkOK, HeldByUs, InWork, NoChannelError,
           sinkVars, connVars
<1>5. CASE RequeueLeaves \/ Interrupt
    <2>1. UNCHANGED <<setup, copy, link, sink, cur, misused>>
        BY <1>5 DEF RequeueLeaves, Interrupt, Fails, sinkVars
    <2>2. QED
        BY <2>1 DEF CopiesOK, LinkOK, HeldByUs, InWork, NoChannelError
<1>6. CASE RepublishFails
    <2>1. InWork /\ sink' = "nack" /\ UNCHANGED <<setup, copy, link, cur, misused>>
        BY <1>6 DEF RepublishFails, Fails, Goto, InWork
    <2>2. QED
        BY <2>1 DEF CopiesOK, LinkOK, HeldByUs, InWork, NoChannelError
<1>7. CASE Program
    BY <1>7 DEF Program, NextRun, Connect, StartRequeue, SetRequeue, CopiesOK, LinkOK,
       HeldByUs, InWork, NoChannelError, history, sinkVars
<1>8. QED
    BY <1>1, <1>2, <1>3, <1>4, <1>5, <1>6, <1>7 DEF Faults

-----------------------------------------------------------------------------
\* Steps of the sink that settle nothing.
LEMMA WorkInv ==
    ASSUME IInv,
           \/ Declare \/ DeclareRefused \/ Consume \/ Broken \/ Cancelled
           \/ \E m \in Messages : Receive(m)
           \/ Decide \/ Filter \/ Handler \/ RequeueFails \/ RequeueAborted
    PROVE  IInv'
<1> USE DEF IInv
<1>1. CASE DeclareRefused \/ Broken \/ Cancelled
    BY <1>1, LeaveInv DEF DeclareRefused, Broken, Cancelled, LeaveQuietly, history
<1>2. CASE Declare \/ Consume
    BY <1>2 DEF Declare, Consume, Goto, CopiesOK, LinkOK, HeldByUs, InWork,
       NoChannelError, connVars, history
<1>3. ASSUME NEW m \in Messages, Receive(m) PROVE IInv'
    <2>1. CopiesOK' /\ (~setup.auto => copy'[m].state = "unacked")
        BY <1>3, StateChange DEF Receive
    <2>2. QED
        BY <1>3, <2>1 DEF Receive, LinkOK, HeldByUs, InWork, NoChannelError,
           connVars, history
<1>4. CASE Decide \/ Filter \/ RequeueFails \/ RequeueAborted
    <2>1. /\ InWork /\ InWork' /\ UNCHANGED <<setup, copy, link, cur, misused>>
        BY <1>4 DEF Decide, Filter, RequeueFails, RequeueAborted, Goto, InWork, connVars,
           history
    <2>2. QED
        BY <2>1 DEF CopiesOK, LinkOK, HeldByUs, InWork, NoChannelError
<1>5. CASE Handler
    <2>1. /\ InWork /\ sink' # "off"
          /\ UNCHANGED <<setup, copy, link, cur, misused>>
        BY <1>5 DEF Handler, HandlePlain, HandleSucceeds, HandleFails, Filtered, Goto,
           InWork, connVars, history
    <2>2. QED
        BY <2>1 DEF CopiesOK, LinkOK, HeldByUs, InWork, NoChannelError
<1>6. QED
    BY <1>1, <1>2, <1>3, <1>4, <1>5

\* A delivery that is settled was ours to settle.
LEMMA SettleOnce ==
    ASSUME IInv, InWork, NEW outcome, Shape(outcome), Settle(outcome),
           sink' = "select", setup' = setup
    PROVE  IInv'
<1> USE DEF IInv
<1>1. CASE link = "up" /\ copy[cur].state = "unacked"
    <2>1. cur \in Messages
        BY DEF HeldByUs
    <2>2. copy' = [copy EXCEPT ![cur] = outcome] /\ UNCHANGED <<link, misused>>
        BY <1>1 DEF Settle
    <2>3. CopiesOK'
        BY <2>1, <2>2, CopyChange
    <2>4. QED
        BY <2>2, <2>3 DEF LinkOK, HeldByUs, InWork, NoChannelError
<1>2. CASE ~(link = "up" /\ copy[cur].state = "unacked")
    <2>1. link = "up" => setup.auto
        BY <1>2 DEF HeldByUs
    <2>2. CopiesOK'
        BY <1>2, EndedCopies DEF Settle, CopiesOK
    <2>3. LinkOK'
        BY <1>2 DEF Settle, LinkOK, InWork
    <2>4. NoChannelError'
        BY <1>2, <2>1 DEF Settle, NoChannelError
    <2>5. HeldByUs'
        BY DEF HeldByUs, InWork
    <2>6. QED
        BY <2>2, <2>3, <2>4, <2>5
<1>3. QED
    BY <1>1, <1>2

LEMMA SettlingInv == ASSUME IInv, Settling PROVE IInv'
<1>1. CASE Refuse
    <2>1. CASE link = "broken"
        BY <1>1, <2>1, LeaveInv DEF Refuse, LeaveQuietly, history
    <2>2. CASE link # "broken"
        BY <1>1, <2>2, SettleOnce, RoutedShape DEF Refuse, Goto, InWork
    <2>3. QED
        BY <2>1, <2>2
<1>2. CASE Ack
    BY <1>2, SettleOnce, RoutedShape DEF Ack, Goto, InWork
<1>3. CASE Nack
    <2>1. cur \in Messages /\ Shape(copy[cur])
        BY <1>3 DEF IInv, HeldByUs, InWork, Nack, CopiesOK
    <2>2. Shape([copy[cur] EXCEPT !.state = "ready"])
        BY <2>1 DEF Shape
    <2>3. QED
        BY <1>3, <2>2, SettleOnce DEF Nack, Goto, InWork
<1>4. CASE GiveToRequeue
    BY <1>4, SettleOnce, RoutedShape DEF GiveToRequeue, Goto, InWork
<1>5. QED
    BY <1>1, <1>2, <1>3, <1>4 DEF Settling

LEMMA StepInv == IInv /\ [Next]_vars => IInv'
<1> SUFFICES ASSUME IInv, [Next]_vars PROVE IInv'
    OBVIOUS
<1>1. CASE UNCHANGED vars
    BY <1>1 DEF IInv, CopiesOK, LinkOK, HeldByUs, InWork, NoChannelError,
       vars, connVars, sinkVars, history
<1>2. CASE Next
    BY <1>2, OutsideInv, FaultInv, WorkInv, SettlingInv
    DEF Next, Broker, SinkStep
<1>3. QED
    BY <1>1, <1>2

-----------------------------------------------------------------------------
(* sink.go settles each delivery once: with any middlewares, limits and
   dead letters, and whatever fails, the broker never closes the channel of a
   sink that acknowledges. *)
THEOREM SettlesOnce == Spec => []NoChannelError
<1>1. IInv => NoChannelError
    BY DEF IInv
<1>2. QED
    BY <1>1, InitInv, StepInv, PTL DEF Spec, SafeSpec
-----------------------------------------------------------------------------
(***************************************************************************)
(* What is declared.                                                       *)
(***************************************************************************)
Elements(s) == {s[i] : i \in DOMAIN s}
AnyName == Names \union {<<"amq.gen">>}
AnyDeclaration == [kind : {"exchange", "queue", "binding"},
                   name : AnyName, key : AnyName, to : AnyName]

LEMMA ConcatElements ==
    ASSUME NEW S, NEW s \in Seq(S), NEW t \in Seq(S)
    PROVE  s \o t \in Seq(S) /\ Elements(s \o t) = Elements(s) \union Elements(t)
<1>1. /\ s \o t \in Seq(S) /\ Len(s \o t) = Len(s) + Len(t)
      /\ Len(s) \in Nat /\ Len(t) \in Nat
      /\ DOMAIN s = 1 .. Len(s) /\ DOMAIN t = 1 .. Len(t)
      /\ DOMAIN (s \o t) = 1 .. (Len(s) + Len(t))
    OBVIOUS
<1>2. \A i \in 1 .. (Len(s) + Len(t)) :
        (s \o t)[i] = IF i <= Len(s) THEN s[i] ELSE t[i - Len(s)]
    OBVIOUS
<1>3. \A i \in DOMAIN (s \o t) : (s \o t)[i] \in Elements(s) \union Elements(t)
    <2>1. TAKE i \in DOMAIN (s \o t)
    <2>2. CASE i <= Len(s)
        BY <1>1, <1>2, <2>2 DEF Elements
    <2>3. CASE ~(i <= Len(s))
        <3>1. i - Len(s) \in DOMAIN t /\ (s \o t)[i] = t[i - Len(s)]
            BY <1>1, <1>2, <2>3
        <3>2. QED
            BY <3>1 DEF Elements
    <2>4. QED
        BY <2>2, <2>3
<1>4. \A i \in DOMAIN s : s[i] \in Elements(s \o t)
    <2>1. TAKE i \in DOMAIN s
    <2>2. i \in DOMAIN (s \o t) /\ (s \o t)[i] = s[i]
        BY <1>1, <1>2
    <2>3. QED
        BY <2>2 DEF Elements
<1>5. \A i \in DOMAIN t : t[i] \in Elements(s \o t)
    <2>1. TAKE i \in DOMAIN t
    <2>2. i + Len(s) \in DOMAIN (s \o t) /\ (s \o t)[i + Len(s)] = t[i]
        BY <1>1, <1>2
    <2>3. QED
        BY <2>2 DEF Elements
<1>6. QED
    BY <1>1, <1>3, <1>4, <1>5 DEF Elements

LEMMA WhenElements ==
    ASSUME NEW S, NEW d \in S, NEW condition \in BOOLEAN
    PROVE  /\ When(condition, d) \in Seq(S)
           /\ Elements(When(condition, d)) = IF condition THEN {d} ELSE {}
<1>1. CASE condition
    BY <1>1 DEF When, Elements
<1>2. CASE ~condition
    BY <1>2 DEF When, Elements
<1>3. QED
    BY <1>1, <1>2

LEMMA HeadTailElements ==
    ASSUME NEW S, NEW s \in Seq(S), s # <<>>
    PROVE  /\ Tail(s) \in Seq(S)
           /\ Elements(s) = {Head(s)} \union Elements(Tail(s))
<1>1. /\ Tail(s) \in Seq(S) /\ Len(s) \in Nat \ {0} /\ Head(s) = s[1]
      /\ DOMAIN s = 1 .. Len(s) /\ DOMAIN Tail(s) = 1 .. (Len(s) - 1)
      /\ \A i \in 1 .. (Len(s) - 1) : Tail(s)[i] = s[i + 1]
    OBVIOUS
<1>2. \A i \in DOMAIN s : s[i] \in {Head(s)} \union Elements(Tail(s))
    <2>1. TAKE i \in DOMAIN s
    <2>2. CASE i = 1
        BY <1>1, <2>2
    <2>3. CASE i # 1
        <3>1. i - 1 \in DOMAIN Tail(s) /\ Tail(s)[i - 1] = s[i]
            BY <1>1, <2>3
        <3>2. QED
            BY <3>1 DEF Elements
    <2>4. QED
        BY <2>2, <2>3
<1>3. Head(s) \in Elements(s) /\ \A i \in DOMAIN Tail(s) : Tail(s)[i] \in Elements(s)
    <2>1. 1 \in DOMAIN s /\ \A i \in DOMAIN Tail(s) : i + 1 \in DOMAIN s
        BY <1>1
    <2>2. QED
        BY <1>1, <2>1 DEF Elements
<1>4. QED
    BY <1>1, <1>2, <1>3 DEF Elements

\* The declarations of a configuration that can work: the queue, the dead letter
\* queue with its binding, and no binding to the requeue's queue.
FromSetup(d, s, queue) ==
    \/ d.kind = "exchange"
    \/ d \in {Queue(queue), Queue(s.deadQueue)}
    \/ s.deadExchange # <<>> /\ d = Binding(s.deadExchange, s.deadQueue, s.deadQueue)
    \/ \E i \in DOMAIN s.keys : d = Binding(s.exchange, s.keys[i], queue)

DeadBound(s, known) ==
    s.deadExchange # <<>> =>
        {Queue(s.deadQueue), Binding(s.deadExchange, s.deadQueue, s.deadQueue)} \subseteq known

LEMMA DeclarationsElements ==
    ASSUME NEW s, WellConfigured(s), NEW queue \in AnyName
    PROVE  /\ Declarations(s, queue) \in Seq(AnyDeclaration)
           /\ Queue(queue) \in Elements(Declarations(s, queue))
           /\ DeadBound(s, Elements(Declarations(s, queue)))
           /\ \A d \in Elements(Declarations(s, queue)) : FromSetup(d, s, queue)
<1> DEFINE D == AnyDeclaration
           p1 == When(s.deadExchange # <<>>, Exchange(s.deadExchange))
           p2 == When(s.deadQueue # <<>>, Queue(s.deadQueue))
           p3 == When(s.deadExchange # <<>> /\ s.deadQueue # <<>>,
                      Binding(s.deadExchange, s.deadQueue, s.deadQueue))
           p4 == <<Queue(queue)>>
           p5 == When(s.exchange # <<>>, Exchange(s.exchange))
           p6 == [i \in DOMAIN s.keys |-> Binding(s.exchange, s.keys[i], queue)]
           p12 == p1 \o p2
           p13 == p12 \o p3
           p14 == p13 \o p4
           p15 == p14 \o p5
<1>1. /\ s.deadExchange \in AnyName /\ s.deadQueue \in AnyName /\ s.exchange \in AnyName
      /\ <<>> \in AnyName /\ s.keys \in Seq(Names)
    BY DEF WellConfigured, Names, AnyName
<1>2. /\ \A name \in AnyName : Exchange(name) \in D /\ Queue(name) \in D
      /\ \A exc \in AnyName, key \in AnyName, to \in AnyName : Binding(exc, key, to) \in D
    <2>1. \A name \in AnyName, key \in AnyName, to \in AnyName,
               kind \in {"exchange", "queue", "binding"} :
            [kind |-> kind, name |-> name, key |-> key, to |-> to] \in AnyDeclaration
        BY DEF AnyDeclaration
    <2>2. QED
        BY <1>1, <2>1 DEF Exchange, Queue, Binding
<1>3. p1 \in Seq(D) /\ Elements(p1) = IF s.deadExchange # <<>>
                                        THEN {Exchange(s.deadExchange)} ELSE {}
    BY <1>1, <1>2, WhenElements
<1>4. p2 \in Seq(D) /\ Elements(p2) = IF s.deadQueue # <<>> THEN {Queue(s.deadQueue)} ELSE {}
    BY <1>1, <1>2, WhenElements
<1>5. p3 \in Seq(D) /\ Elements(p3) =
        IF s.deadExchange # <<>> /\ s.deadQueue # <<>>
          THEN {Binding(s.deadExchange, s.deadQueue, s.deadQueue)} ELSE {}
    BY <1>1, <1>2, WhenElements
<1>6. p4 \in Seq(D) /\ Elements(p4) = {Queue(queue)}
    BY <1>2 DEF Elements
<1>7. p5 \in Seq(D) /\ Elements(p5) = IF s.exchange # <<>> THEN {Exchange(s.exchange)} ELSE {}
    BY <1>1, <1>2, WhenElements
<1>8. p6 \in Seq(D) /\ \A d \in Elements(p6) :
                           \E i \in DOMAIN s.keys : d = Binding(s.exchange, s.keys[i], queue)
    <2>1. /\ Len(s.keys) \in Nat /\ DOMAIN s.keys = 1 .. Len(s.keys)
          /\ \A i \in DOMAIN s.keys : s.keys[i] \in AnyName
        BY <1>1 DEF AnyName
    <2>2. p6 \in [1 .. Len(s.keys) -> D]
        BY <1>1, <1>2, <2>1
    <2>3. p6 \in Seq(D)
        BY <2>1, <2>2, SeqDef
    <2>4. QED
        BY <2>3 DEF Elements
<1> HIDE DEF D, p1, p2, p3, p4, p5, p6
<1>9. p12 \in Seq(D) /\ Elements(p12) = Elements(p1) \union Elements(p2)
    BY <1>3, <1>4, ConcatElements
<1> HIDE DEF p12
<1>10. p13 \in Seq(D) /\ Elements(p13) = Elements(p12) \union Elements(p3)
    BY <1>9, <1>5, ConcatElements
<1> HIDE DEF p13
<1>11. p14 \in Seq(D) /\ Elements(p14) = Elements(p13) \union Elements(p4)
    BY <1>10, <1>6, ConcatElements
<1> HIDE DEF p14
<1>12. p15 \in Seq(D) /\ Elements(p15) = Elements(p14) \union Elements(p5)
    BY <1>11, <1>7, ConcatElements
<1> HIDE DEF p15
<1>13. p15 \o p6 \in Seq(D) /\ Elements(p15 \o p6) = Elements(p15) \union Elements(p6)
    BY <1>12, <1>8, ConcatElements
<1>14. Declarations(s, queue) = p15 \o p6
    BY DEF Declarations, p1, p2, p3, p4, p5, p6, p12, p13, p14, p15
<1>15. Elements(Declarations(s, queue)) =
          Elements(p1) \union Elements(p2) \union Elements(p3) \union {Queue(queue)}
          \union Elements(p5) \union Elements(p6)
    BY <1>6, <1>9, <1>10, <1>11, <1>12, <1>13, <1>14
<1>16. DeadBound(s, Elements(Declarations(s, queue)))
    BY <1>4, <1>5, <1>15 DEF DeadBound, WellConfigured
<1>17. ASSUME NEW d \in Elements(Declarations(s, queue)) PROVE FromSetup(d, s, queue)
    <2>1. CASE d \in Elements(p1) \union Elements(p5)
        <3>1. PICK name : d = Exchange(name)
            BY <1>3, <1>7, <2>1
        <3>2. QED
            BY <3>1 DEF Exchange, FromSetup
    <2>2. CASE d \in Elements(p2) \union Elements(p3) \union {Queue(queue)} \union Elements(p6)
        BY <1>4, <1>5, <1>8, <2>2 DEF FromSetup
    <2>3. QED
        BY <1>15, <2>1, <2>2
<1>18. QED
    BY <1>13, <1>14, <1>15, <1>16, <1>17 DEF D

LEMMA InfrastructureFrom ==
    ASSUME setup \in Setups
    PROVE  /\ WellConfigured(setup) /\ QueueName # RequeueName
           /\ Declarations(setup, QueueName) \in Seq(AnyDeclaration)
           /\ Infrastructure = Elements(Declarations(setup, QueueName))
           /\ Queue(QueueName) \in Infrastructure
           /\ DeadBound(setup, Infrastructure)
           /\ \A d \in Infrastructure : FromSetup(d, setup, QueueName)
<1>1. /\ WellConfigured(setup) /\ setup.queue \in Names /\ QueueName \in AnyName
      /\ QueueName = IF setup.queue = <<>> THEN <<"amq.gen">> ELSE setup.queue
    BY SetupsAssumption DEF QueueName, WellConfigured, AnyName
<1>2. QueueName # RequeueName
    <2> DEFINE Part == STRING \union {"/requeue"}
    <2>1. setup.queue \in Seq(Part)
        BY <1>1, SeqMonotonic DEF Names
    <2> HIDE DEF Part
    <2>2. \A x \in Part : <<x>> \in Seq(Part) /\ Len(<<x>>) = 1
        OBVIOUS
    <2>3. "/requeue" \in Part
        BY DEF Part
    <2>4. Len(setup.queue \o <<"/requeue">>) = Len(setup.queue) + 1 /\ Len(setup.queue) \in Nat
        BY <2>1, <2>2, <2>3, ConcatProperties, LenProperties
    <2>5. CASE setup.queue = <<>>
        <3>1. setup.queue \o <<"/requeue">> = <<"/requeue">>
            BY <2>2, <2>3, <2>5, ConcatEmptySeq
        <3>2. <<"/requeue">> # <<"amq.gen">>
            OBVIOUS
        <3>3. QED
            BY <1>1, <2>5, <3>1, <3>2 DEF RequeueName
    <2>6. QED
        BY <1>1, <2>4, <2>5 DEF RequeueName
<1>3. Infrastructure = Elements(Declarations(setup, QueueName))
    BY DEF Infrastructure, Elements
<1>4. QED
    BY <1>1, <1>2, <1>3, DeclarationsElements

LEMMA InfrastructureOK ==
    ASSUME setup \in Setups, ~Temporary
    PROVE  /\ Declarations(setup, QueueName) \in Seq(AnyDeclaration)
           /\ Infrastructure = Elements(Declarations(setup, QueueName))
           /\ QueueName = setup.queue /\ QueueName # RequeueName
           /\ Queue(QueueName) \in Infrastructure
           /\ DeadBound(setup, Infrastructure)
           /\ \A d \in Infrastructure : d.kind = "binding" => d.to # RequeueName
<1>1. QueueName = setup.queue
    BY DEF QueueName, Temporary
<1>2. setup.deadExchange # <<>> => setup.deadQueue # RequeueName
    BY InfrastructureFrom DEF WellConfigured, RequeueName
<1>3. ASSUME NEW d \in Infrastructure, d.kind = "binding" PROVE d.to # RequeueName
    BY <1>2, <1>3, InfrastructureFrom DEF FromSetup, Queue, Binding
<1>4. QED
    BY <1>1, <1>3, InfrastructureFrom

-----------------------------------------------------------------------------
(***************************************************************************)
(* A sink that acknowledges and whose queue has a name.  What it has       *)
(* declared stays declared until the broker is replaced, and then there is *)
(* nothing in it; so a copy always has somewhere to go.  Only what a       *)
(* requeue has copied is not persistent.                                   *)
(***************************************************************************)
Named == ~Temporary /\ ~setup.auto

DeclaredOK ==
    /\ todo \in Seq(AnyDeclaration)
    /\ declared \union Elements(todo) \subseteq Infrastructure \union {Queue(RequeueName)}
    /\ sink = "declare" => Infrastructure \subseteq declared \union Elements(todo)
    /\ sink \notin {"off", "declare"} => Infrastructure \subseteq declared
    /\ rq = "on" => link # "none" /\ Queue(RequeueName) \in declared

IsMessage(msg) ==
    msg = [id |-> msg.id, body |-> msg.body, key |-> msg.key, signature |-> msg.signature,
           deaths |-> msg.deaths, persistent |-> msg.persistent]

Persists(c) == setup.requeue \/ c.msg.persistent

Kept(c) ==
    /\ IsMessage(c.msg)
    /\ c.state # "client"
    /\ c.state = "unacked" => link = "up"
    /\ c.state \in {"ready", "unacked"} /\ c.queue = RequeueName => Queue(QueueName) \in declared
    /\ Persists(c)
    /\ c.state # "lost" /\ (c.state = "gone" => setup.requeue)

NamedInv ==
    /\ setup \in Setups /\ Named
    /\ DeclaredOK
    /\ \A m \in Messages : Kept(copy[m])
    /\ IsMessage(seen)
    /\ reqset \/ sink = "requeue" => setup.requeue

KeptInv == setup \in Setups /\ (Named => NamedInv)

\* The names that depend on the configuration alone.
LEMMA SameNames ==
    ASSUME setup' = setup
    PROVE  /\ QueueName' = QueueName /\ RequeueName' = RequeueName
           /\ Temporary' = Temporary /\ Infrastructure' = Infrastructure /\ Named' = Named
BY DEF QueueName, RequeueName, Temporary, Infrastructure, Named

LEMMA RoutedWhere ==
    ASSUME NEW msg, IsMessage(msg), NEW exchange, NEW key, NEW otherwise
    PROVE  LET c == Routed(msg, exchange, key, otherwise)
           IN  /\ IsMessage(c.msg) /\ c.msg.persistent = msg.persistent
               /\ \/ Targets(exchange, key) = {} /\ c.state = otherwise
                  \/ c.state = "ready" /\ c.queue \in Targets(exchange, key)
<1> DEFINE sent == [msg EXCEPT !.key = key]
<1>1. IsMessage(sent) /\ sent.persistent = msg.persistent
    BY DEF IsMessage
<1> HIDE DEF sent
<1>2. CASE Targets(exchange, key) = {}
    BY <1>2 DEF Routed, Settled
<1>3. CASE Targets(exchange, key) # {}
    <2>1. Routed(msg, exchange, key, otherwise) =
            [state |-> "ready", queue |-> CHOOSE q \in Targets(exchange, key) : TRUE,
             msg |-> sent]
        BY <1>3 DEF Routed, sent
    <2>2. (CHOOSE q \in Targets(exchange, key) : TRUE) \in Targets(exchange, key)
        BY <1>3
    <2>3. QED
        BY <1>1, <2>1, <2>2
<1>4. QED
    BY <1>2, <1>3

LEMMA DiedMessage ==
    ASSUME NEW msg, IsMessage(msg), NEW queue, NEW why
    PROVE  IsMessage(Died(msg, queue, why)) /\ Died(msg, queue, why).persistent = msg.persistent
<1>1. \A deaths : /\ IsMessage([msg EXCEPT !.deaths = deaths])
                  /\ [msg EXCEPT !.deaths = deaths].persistent = msg.persistent
    BY DEF IsMessage
<1>2. QED
    BY <1>1 DEF Died

\* Nothing but the broker's bindings can name the requeue's queue.
LEMMA NotToRequeue ==
    ASSUME NamedInv, NEW exchange, NEW key, exchange # <<>> \/ key = QueueName
    PROVE  RequeueName \notin Targets(exchange, key)
<1>1. /\ setup \in Setups /\ ~Temporary
      /\ declared \subseteq Infrastructure \union {Queue(RequeueName)}
    BY DEF NamedInv, Named, DeclaredOK
<1>2. CASE exchange = <<>>
    BY <1>1, <1>2, InfrastructureOK DEF Targets
<1>3. CASE exchange # <<>>
    <2>1. \A d \in declared : d.kind = "binding" => d.to # RequeueName
        BY <1>1, InfrastructureOK DEF Queue
    <2>2. RequeueName \notin Bound(exchange, key)
        BY <2>1 DEF Bound
    <2>3. QED
        BY <1>3, <2>2 DEF Targets
<1>4. QED
    BY <1>2, <1>3

\* A copy stays kept as long as its queue and its channel do.
LEMMA KeptStays ==
    ASSUME NamedInv, setup' = setup, declared \subseteq declared', link' = link,
           NEW m \in Messages, copy'[m] = copy[m]
    PROVE  Kept(copy[m])'
BY SameNames DEF NamedInv, Kept, Persists

LEMMA ReturnedKept ==
    ASSUME IInv, NamedInv, setup' = setup, declared' = declared,
           NEW m \in Messages, copy'[m] = Returned(copy[m])
    PROVE  Kept(copy[m])' /\ copy'[m].state # "unacked"
<1>1. Kept(copy[m]) /\ Shape(copy[m]) /\ ~Temporary
    BY DEF IInv, CopiesOK, NamedInv, Named
<1>2. CASE copy[m].state = "unacked"
    <2>1. /\ copy'[m].state = "ready" /\ copy'[m].queue = copy[m].queue
          /\ copy'[m].msg = copy[m].msg
        BY <1>1, <1>2 DEF Returned, Shape
    <2>2. QED
        BY <1>1, <1>2, <2>1, SameNames DEF Kept, Persists
<1>3. CASE copy[m].state # "unacked"
    <2>1. copy'[m] = copy[m]
        BY <1>1, <1>3 DEF Returned, Kept
    <2>2. QED
        BY <1>1, <1>3, <2>1, SameNames DEF Kept, Persists
<1>4. QED
    BY <1>2, <1>3

LEMMA EndedKept ==
    ASSUME IInv, NamedInv, setup' = setup, Ended
    PROVE  declared' = declared /\ \A m \in Messages : Kept(copy[m])'
<1>1. declared' = declared
    BY DEF Ended, NamedInv, Named
<1>2. \A m \in Messages : copy'[m] = Returned(copy[m])
    BY DEF Ended
<1>3. QED
    BY <1>1, <1>2, ReturnedKept

LEMMA LeaveKept ==
    ASSUME IInv, NamedInv, Leave, reqset' => reqset
    PROVE  NamedInv'
<1>1. setup' = setup /\ declared' = declared /\ \A m \in Messages : Kept(copy[m])'
    BY EndedKept DEF Leave
<1>2. DeclaredOK'
    <2>1. todo' = <<>> /\ <<>> \in Seq(AnyDeclaration) /\ Elements(<<>>) = {}
        BY DEF Leave, Elements
    <2>2. QED
        BY <1>1, <2>1, SameNames DEF Leave, NamedInv, DeclaredOK
<1>3. IsMessage(seen)' /\ sink' # "requeue"
    BY DEF Leave, NoDelivery, IsMessage, NewMessage
<1>4. QED
    BY <1>1, <1>2, <1>3, SameNames DEF NamedInv

LEMMA OutsideKept ==
    ASSUME IInv, NamedInv, NEW m \in Messages, Send(m) \/ DelayExpires(m) \/ Push(m)
    PROVE  NamedInv'
<1>1. UNCHANGED <<setup, declared, link, rq, reqset, sink, todo, seen>>
    BY DEF Send, DelayExpires, Push, connVars, sinkVars, history
<1>2. \A n \in Messages \ {m} : copy'[n] = copy[n]
    BY DEF Send, DelayExpires, Push, IInv, CopiesOK
<1>3. Kept(copy[m])'
    <2>1. CASE Send(m)
        <3>1. PICK msg, exchange, key :
                /\ IsMessage(msg) /\ msg.persistent
                /\ exchange # <<>> \/ key = QueueName
                /\ copy'[m] = Routed(msg, exchange, key, "unrouted")
            <4>1. PICK sign \in MaySign :
                    LET msg == IF sign THEN Signed(NewMessage(m)) ELSE NewMessage(m)
                    IN  copy' = [copy EXCEPT ![m] =
                          IF setup.keys = <<>> THEN Routed(msg, <<>>, QueueName, "unrouted")
                          ELSE Routed(msg, setup.exchange, setup.keys[1], "unrouted")]
                BY <2>1 DEF Send
            <4> DEFINE msg == IF sign THEN Signed(NewMessage(m)) ELSE NewMessage(m)
            <4>2. IsMessage(msg) /\ msg.persistent
                BY DEF IsMessage, Signed, NewMessage
            <4> HIDE DEF msg
            <4>3. copy'[m] = IF setup.keys = <<>> THEN Routed(msg, <<>>, QueueName, "unrouted")
                             ELSE Routed(msg, setup.exchange, setup.keys[1], "unrouted")
                BY <4>1 DEF msg, IInv, CopiesOK
            <4>4. setup.keys # <<>> => setup.exchange # <<>>
                BY SetupsAssumption DEF NamedInv, WellConfigured
            <4>5. QED
                BY <4>2, <4>3, <4>4
        <3>2. /\ copy'[m].state \in {"ready", "unrouted"}
              /\ copy'[m].state = "ready" => copy'[m].queue # RequeueName
              /\ IsMessage(copy'[m].msg) /\ copy'[m].msg.persistent
            BY <3>1, RoutedWhere, NotToRequeue
        <3>3. QED
            BY <1>1, <3>2, SameNames DEF Kept, Persists
    <2>2. CASE DelayExpires(m)
        <3>1. Kept(copy[m]) /\ setup \in Setups /\ ~Temporary
            BY DEF NamedInv, Named
        <3>2. Targets(<<>>, setup.queue) = {QueueName} /\ QueueName # RequeueName
            BY <2>2, <3>1, InfrastructureOK DEF DelayExpires, Waiting, Kept, Targets
        <3> DEFINE died == Died(copy[m].msg, RequeueName, "expired")
        <3>3. IsMessage(died) /\ died.persistent = copy[m].msg.persistent
            BY <3>1, DiedMessage DEF Kept
        <3>4. copy'[m] = Routed(died, <<>>, setup.queue, "lost")
            BY <2>2 DEF DelayExpires, IInv, CopiesOK
        <3> HIDE DEF died
        <3>5. /\ copy'[m].state = "ready" /\ copy'[m].queue = QueueName
              /\ IsMessage(copy'[m].msg) /\ copy'[m].msg.persistent = copy[m].msg.persistent
            BY <3>2, <3>3, <3>4, RoutedWhere
        <3>6. QED
            BY <1>1, <3>1, <3>2, <3>3, <3>5, SameNames DEF Kept, Persists
    <2>3. CASE Push(m)
        BY <2>3 DEF Push, NamedInv, Named
    <2>4. QED
        BY <2>1, <2>2, <2>3
<1>4. \A n \in Messages : Kept(copy[n])'
    BY <1>1, <1>2, <1>3, KeptStays
<1>5. QED
    BY <1>1, <1>4, SameNames DEF NamedInv, DeclaredOK

LEMMA FaultKept ==
    ASSUME IInv, NamedInv, Faults \/ Program
    PROVE  NamedInv'
<1>1. CASE SetupFails \/ Kill
    BY <1>1, LeaveKept DEF SetupFails, Kill, Fails
<1>2. CASE LoseConnection
    <2>1. declared' = declared /\ \A m \in Messages : Kept(copy[m])'
        BY <1>2, EndedKept DEF LoseConnection, Fails
    <2>2. QED
        BY <1>2, <2>1, SameNames DEF LoseConnection, sinkVars, NamedInv, DeclaredOK
<1>3. CASE Restart
    <2>1. setup' = setup /\ ~Temporary
        BY <1>3 DEF Restart, NamedInv, Named
    <2>2. declared' = declared
        BY <1>3, <2>1 DEF Restart
    <2>3. ASSUME NEW m \in Messages PROVE Kept(copy[m])'
        <3>1. CASE ~copy[m].msg.persistent /\ copy[m].state \in {"ready", "unacked"}
            <4>1. copy'[m] = Settled("gone", copy[m].msg)
                BY <1>3, <3>1 DEF Restart
            <4>2. setup.requeue /\ IsMessage(copy[m].msg)
                BY <3>1 DEF NamedInv, Kept, Persists
            <4>3. QED
                BY <2>1, <4>1, <4>2 DEF Settled, Kept, Persists
        <3>2. CASE ~(~copy[m].msg.persistent /\ copy[m].state \in {"ready", "unacked"})
            <4>1. copy'[m] = Returned(copy[m])
                BY <1>3, <3>2 DEF Restart
            <4>2. QED
                BY <2>1, <2>2, <4>1, ReturnedKept
        <3>3. QED
            BY <3>1, <3>2
    <2>4. QED
        BY <1>3, <2>1, <2>2, <2>3, SameNames DEF Restart, sinkVars, NamedInv, DeclaredOK
<1>4. CASE Wipe
    <2>1. /\ sink = "off" /\ link = "none" /\ rq # "on"
          /\ UNCHANGED <<setup, link, rq, reqset, sink, todo, seen>>
        BY <1>4 DEF Wipe, Fails, connVars, sinkVars, IInv, LinkOK, NamedInv, DeclaredOK
    <2>2. ASSUME NEW m \in Messages PROVE Kept(copy[m])'
        <3>1. Kept(copy[m]) /\ copy[m].state # "unacked"
            BY <2>1 DEF NamedInv, Kept
        <3>2. CASE copy[m].state = "ready"
            <4>1. copy'[m] = Settled("wiped", copy[m].msg)
                BY <1>4, <3>2 DEF Wipe
            <4>2. QED
                BY <2>1, <3>1, <4>1, SameNames DEF Settled, Kept, Persists
        <3>3. CASE copy[m].state # "ready"
            <4>1. copy'[m] = copy[m]
                BY <1>4, <3>3 DEF Wipe
            <4>2. QED
                BY <2>1, <3>1, <3>3, <4>1, SameNames DEF Kept, Persists
        <3>4. QED
            BY <3>2, <3>3
    <2>3. declared' = {}
        BY <1>4 DEF Wipe
    <2>4. QED
        BY <2>1, <2>2, <2>3, SameNames DEF NamedInv, DeclaredOK
<1>5. CASE NextRun \/ SetRequeue \/ Interrupt \/ RequeueLeaves \/ RepublishFails
    <2>1. /\ UNCHANGED <<setup, declared, copy, link, todo, seen>>
          /\ rq' = rq \/ rq' = "left"
          /\ reqset' => reqset \/ setup.requeue
          /\ sink' = sink \/ (sink = "requeue" /\ sink' = "nack")
        BY <1>5 DEF NextRun, SetRequeue, Interrupt, RequeueLeaves, RepublishFails, Fails,
           Goto, sinkVars, history
    <2>2. QED
        BY <2>1, KeptStays, SameNames DEF NamedInv, DeclaredOK
<1>6. CASE Connect
    <2>1. /\ UNCHANGED <<setup, declared, copy, rq, reqset, seen>>
          /\ link = "none" /\ link' = "up" /\ sink' = "declare"
          /\ todo' = Declarations(setup, QueueName)
        BY <1>6 DEF Connect, history
    <2>2. \A m \in Messages : Kept(copy[m])'
        BY <2>1, SameNames DEF NamedInv, Kept, Persists
    <2>3. todo' \in Seq(AnyDeclaration) /\ Elements(todo') = Infrastructure
        BY <2>1, InfrastructureOK DEF NamedInv, Named
    <2>4. DeclaredOK'
        BY <2>1, <2>3, SameNames DEF NamedInv, DeclaredOK
    <2>5. QED
        BY <2>1, <2>2, <2>4, SameNames DEF NamedInv
<1>7. CASE StartRequeue
    <2>1. /\ UNCHANGED <<setup, copy, link, reqset, sink, todo, seen>>
          /\ link = "up" /\ declared' = declared \union {Queue(RequeueName)}
        BY <1>7 DEF StartRequeue, sinkVars, history
    <2>2. \A m \in Messages : Kept(copy[m])'
        BY <2>1, KeptStays
    <2>3. QED
        BY <2>1, <2>2, SameNames DEF NamedInv, DeclaredOK
<1>8. QED
    BY <1>1, <1>2, <1>3, <1>4, <1>5, <1>6, <1>7 DEF Faults, Program

\* Steps of the sink that settle nothing.
LEMMA WorkKept ==
    ASSUME IInv, NamedInv,
           \/ Declare \/ DeclareRefused \/ Consume \/ Broken \/ Cancelled
           \/ \E m \in Messages : Receive(m)
           \/ Decide \/ Filter \/ Handler \/ RequeueFails \/ RequeueAborted
    PROVE  NamedInv'
<1>1. CASE DeclareRefused \/ Broken \/ Cancelled
    BY <1>1, LeaveKept DEF DeclareRefused, Broken, Cancelled, LeaveQuietly, history
<1>2. CASE Declare
    <2>1. /\ UNCHANGED <<setup, copy, link, rq, reqset, sink, seen>>
          /\ sink = "declare" /\ todo # <<>> /\ todo' = Tail(todo)
          /\ declared' = declared \union {Head(todo)}
        BY <1>2 DEF Declare, connVars, history
    <2>2. /\ todo' \in Seq(AnyDeclaration)
          /\ Elements(todo) = {Head(todo)} \union Elements(todo')
        BY <2>1, HeadTailElements DEF NamedInv, DeclaredOK
    <2>3. DeclaredOK'
        BY <2>1, <2>2, SameNames DEF NamedInv, DeclaredOK
    <2>4. \A m \in Messages : Kept(copy[m])'
        BY <2>1, KeptStays
    <2>5. QED
        BY <2>1, <2>3, <2>4, SameNames DEF NamedInv
<1>3. CASE Consume
    <2>1. /\ UNCHANGED <<setup, declared, copy, link, rq, reqset, todo, seen>>
          /\ sink = "declare" /\ todo = <<>> /\ sink' = "select"
        BY <1>3 DEF Consume, Goto, connVars, history
    <2>2. Elements(todo) = {}
        BY <2>1 DEF Elements
    <2>3. QED
        BY <2>1, <2>2, KeptStays, SameNames DEF NamedInv, DeclaredOK
<1>4. ASSUME NEW m \in Messages, Receive(m) PROVE NamedInv'
    <2>1. /\ UNCHANGED <<setup, declared, link, rq, reqset, todo>>
          /\ sink = "select" /\ sink' = "decide" /\ link = "up" /\ copy[m].queue = QueueName
          /\ seen' = copy[m].msg /\ copy' = [copy EXCEPT ![m].state = "unacked"]
        BY <1>4 DEF Receive, Here, connVars, history, NamedInv, Named
    <2>2. \A n \in Messages \ {m} : copy'[n] = copy[n]
        BY <2>1, StateChange DEF IInv
    <2>3. /\ copy'[m].state = "unacked" /\ copy'[m].queue = copy[m].queue
          /\ copy'[m].msg = copy[m].msg
        BY <2>1 DEF IInv, CopiesOK, Shape
    <2>4. Kept(copy[m]) /\ QueueName # RequeueName
        BY InfrastructureOK DEF NamedInv, Named
    <2>5. Kept(copy[m])'
        BY <2>1, <2>3, <2>4, SameNames DEF Kept, Persists
    <2>6. \A n \in Messages : Kept(copy[n])'
        BY <2>1, <2>2, <2>5, KeptStays
    <2>7. IsMessage(seen)'
        BY <2>1, <2>4 DEF Kept
    <2>8. QED
        BY <2>1, <2>6, <2>7, SameNames DEF NamedInv, DeclaredOK
<1>5. CASE Decide \/ Filter \/ Handler \/ RequeueFails \/ RequeueAborted
    <2>1. /\ UNCHANGED <<setup, declared, copy, link, reqset, todo>>
          /\ rq' = rq \/ rq' = "left"
          /\ sink \notin {"off", "declare"} /\ sink' \notin {"off", "declare"}
          /\ sink' = "requeue" => reqset
        BY <1>5 DEF Decide, Filter, Handler, RequeueFails, RequeueAborted, HandlePlain,
           HandleSucceeds, HandleFails, Filtered, Goto, connVars, history
    <2>2. IsMessage(seen)'
        <3>1. CASE seen' = seen
            BY <3>1 DEF NamedInv
        <3>2. CASE seen' = [seen EXCEPT !.key = RestoredKey(seen)]
            BY <3>2 DEF NamedInv, IsMessage
        <3>3. QED
            BY <1>5, <3>1, <3>2 DEF Decide, Filter, Handler, RequeueFails, RequeueAborted,
               HandlePlain, HandleSucceeds, HandleFails, Goto
    <2>3. QED
        BY <2>1, <2>2, KeptStays, SameNames DEF NamedInv, DeclaredOK
<1>6. QED
    BY <1>1, <1>2, <1>3, <1>4, <1>5

\* What is settled has somewhere to go.
LEMMA SettleKept ==
    ASSUME IInv, NamedInv, InWork, NEW outcome, Kept(outcome), Settle(outcome),
           sink' = "select", UNCHANGED <<setup, reqset, todo, seen>>
    PROVE  NamedInv'
<1>1. UNCHANGED <<declared, link, rq>>
    BY DEF Settle, IInv, HeldByUs, NamedInv, Named
<1>2. \A m \in Messages : Kept(copy[m])'
    <2>1. CASE link = "up" /\ copy[cur].state = "unacked"
        <3>1. PICK m \in Messages : copy' = [copy EXCEPT ![m] = outcome]
            BY <2>1 DEF Settle, IInv, HeldByUs, NamedInv, Named
        <3>2. copy'[m] = outcome /\ \A n \in Messages \ {m} : copy'[n] = copy[n]
            BY <3>1 DEF IInv, CopiesOK
        <3>3. Kept(copy[m])'
            BY <1>1, <3>2, SameNames DEF Kept, Persists
        <3>4. QED
            BY <1>1, <3>2, <3>3, KeptStays
    <2>2. CASE ~(link = "up" /\ copy[cur].state = "unacked")
        <3>1. copy' = copy
            BY <2>2 DEF Settle, IInv, HeldByUs, NamedInv, Named
        <3>2. QED
            BY <1>1, <3>1, KeptStays
    <2>3. QED
        BY <2>1, <2>2
<1>3. sink \notin {"off", "declare"}
    BY DEF InWork
<1>4. QED
    BY <1>1, <1>2, <1>3, SameNames DEF NamedInv, DeclaredOK

LEMMA SettlingKept == ASSUME IInv, NamedInv, Settling PROVE NamedInv'
<1>1. /\ InWork /\ cur \in Messages /\ Kept(copy[cur]) /\ Shape(copy[cur])
      /\ Infrastructure \subseteq declared
    BY DEF Settling, Refuse, Ack, Nack, GiveToRequeue, InWork, IInv, HeldByUs, CopiesOK,
       NamedInv, DeclaredOK
<1>2. /\ setup \in Setups /\ ~Temporary /\ QueueName = setup.queue
      /\ Queue(QueueName) \in declared /\ DeadBound(setup, declared)
    BY <1>1, InfrastructureOK DEF NamedInv, Named, DeadBound
<1>3. CASE Refuse
    <2>1. CASE link = "broken"
        BY <1>3, <2>1, LeaveKept DEF Refuse, LeaveQuietly, history
    <2>2. CASE link # "broken"
        <3> DEFINE outcome == DeadLettered(copy[cur].msg)
        <3>1. IsMessage(copy[cur].msg) /\ Persists(copy[cur])
            BY <1>1 DEF Kept
        <3>2. CASE setup.deadExchange = <<>>
            <4>1. outcome = Settled("refused", copy[cur].msg)
                BY <3>2 DEF DeadLettered
            <4>2. Kept(outcome)
                BY <3>1, <4>1 DEF Settled, Kept, Persists
            <4>3. QED
                BY <1>1, <1>3, <2>2, <4>2, SettleKept DEF Refuse, Goto
        <3>3. CASE setup.deadExchange # <<>>
            <4> DEFINE died == Died(copy[cur].msg, QueueName, "rejected")
            <4>1. IsMessage(died) /\ died.persistent = copy[cur].msg.persistent
                BY <3>1, DiedMessage
            <4>2. setup.deadQueue # <<>>
                BY <1>2, <3>3, SetupsAssumption DEF WellConfigured
            <4>3. outcome = Routed(died, setup.deadExchange, setup.deadQueue, "lost")
                BY <3>3, <4>2 DEF DeadLettered
            <4> HIDE DEF died, outcome
            <4>4. setup.deadQueue \in Targets(setup.deadExchange, setup.deadQueue)
                BY <1>2, <3>3 DEF DeadBound, Targets, Bound, Binding
            <4>5. /\ outcome.state = "ready"
                  /\ IsMessage(outcome.msg) /\ outcome.msg.persistent = died.persistent
                BY <4>1, <4>3, <4>4, RoutedWhere
            <4>6. Kept(outcome)
                BY <1>2, <3>1, <4>1, <4>5 DEF Kept, Persists
            <4>7. QED
                BY <1>1, <1>3, <2>2, <4>6, SettleKept DEF Refuse, Goto, outcome
        <3>4. QED
            BY <3>2, <3>3
    <2>3. QED
        BY <2>1, <2>2
<1>4. CASE Ack
    <2>1. Kept(Settled("acked", copy[cur].msg))
        BY <1>1 DEF Settled, Kept, Persists
    <2>2. QED
        BY <1>1, <1>4, <2>1, SettleKept DEF Ack, Goto
<1>5. CASE Nack
    <2>1. Kept([copy[cur] EXCEPT !.state = "ready"])
        BY <1>1, <1>2 DEF Shape, Kept, Persists
    <2>2. QED
        BY <1>1, <1>5, <2>1, SettleKept DEF Nack, Goto
<1>6. CASE GiveToRequeue
    <2> DEFINE outcome == Routed(Requeued(seen), <<>>, RequeueName, "lost")
    <2>1. IsMessage(Requeued(seen))
        <3>1. ASSUME NEW msg, IsMessage(msg), NEW flag
              PROVE  IsMessage([msg EXCEPT !.persistent = flag])
            BY <3>1 DEF IsMessage
        <3>2. QED
            BY <3>1 DEF NamedInv, Requeued
    <2>2. Targets(<<>>, RequeueName) = {RequeueName}
        BY <1>6 DEF GiveToRequeue, NamedInv, DeclaredOK, Targets
    <2>3. outcome.state = "ready" /\ IsMessage(outcome.msg)
        BY <2>1, <2>2, RoutedWhere
    <2>4. setup.requeue
        BY <1>6 DEF GiveToRequeue, NamedInv
    <2> HIDE DEF outcome
    <2>5. Kept(outcome)
        BY <1>2, <2>3, <2>4 DEF Kept, Persists
    <2>6. QED
        BY <1>1, <1>6, <2>5, SettleKept DEF GiveToRequeue, Goto, outcome
<1>7. QED
    BY <1>3, <1>4, <1>5, <1>6 DEF Settling

LEMMA SetupStays == Next => setup' = setup
<1> SUFFICES ASSUME Next PROVE setup' = setup
    OBVIOUS
<1>1. CASE \E m \in Messages : Send(m) \/ DelayExpires(m) \/ Push(m) \/ Receive(m)
    BY <1>1 DEF Send, DelayExpires, Push, Receive
<1>2. CASE Faults \/ Program
    BY <1>2 DEF Faults, LoseConnection, SetupFails, Restart, Wipe, RequeueLeaves,
       RepublishFails, Interrupt, Kill, Leave, Program, Connect, NextRun, StartRequeue,
       SetRequeue
<1>3. CASE Declare \/ DeclareRefused \/ Consume \/ Broken \/ Cancelled \/ Decide
    BY <1>3 DEF Declare, DeclareRefused, Consume, Broken, Cancelled, LeaveQuietly,
       Leave, Decide
<1>4. CASE Filter \/ Handler \/ RequeueFails \/ RequeueAborted
    BY <1>4 DEF Filter, Handler, HandlePlain, HandleSucceeds, HandleFails, RequeueFails,
       RequeueAborted
<1>5. CASE Settling
    BY <1>5 DEF Settling, Refuse, LeaveQuietly, Leave, Ack, Nack, GiveToRequeue
<1>6. QED
    BY <1>1, <1>2, <1>3, <1>4, <1>5 DEF Next, Broker, SinkStep

LEMMA InitKept == Init => KeptInv
<1> SUFFICES ASSUME Init, Named PROVE NamedInv /\ setup \in Setups
    BY DEF Init, KeptInv
<1>1. DeclaredOK
    <2>1. todo = <<>> /\ <<>> \in Seq(AnyDeclaration) /\ Elements(<<>>) = {}
        BY DEF Init, Elements
    <2>2. QED
        BY <2>1 DEF Init, DeclaredOK
<1>2. ASSUME NEW m \in Messages PROVE Kept(copy[m])
    BY DEF Init, Settled, NewMessage, Kept, Persists, IsMessage
<1>3. QED
    BY <1>1, <1>2 DEF Init, NamedInv, NewMessage, IsMessage

LEMMA StepKept == IInv /\ KeptInv /\ [Next]_vars => KeptInv'
<1> SUFFICES ASSUME IInv, KeptInv, [Next]_vars PROVE KeptInv'
    OBVIOUS
<1>1. setup' = setup /\ setup \in Setups
    BY SetupStays DEF vars, KeptInv
<1>2. ASSUME Named PROVE NamedInv'
    <2>1. NamedInv
        BY <1>2 DEF KeptInv
    <2>2. CASE UNCHANGED vars
        <3>1. UNCHANGED <<setup, declared, copy, link, rq, reqset, sink, todo, seen>>
            BY <2>2 DEF vars, connVars, sinkVars, history
        <3>2. QED
            BY <2>1, <3>1, KeptStays, SameNames DEF NamedInv, DeclaredOK
    <2>3. CASE Next
        BY <2>1, <2>3, OutsideKept, FaultKept, WorkKept, SettlingKept
        DEF Next, Broker, SinkStep
    <2>4. QED
        BY <2>2, <2>3
<1>3. QED
    BY <1>1, <1>2, SameNames DEF KeptInv

-----------------------------------------------------------------------------
(* README.md, "queue name should be defined if persistent required": a sink
   with a name and acknowledgements loses nothing that has reached its queue,
   for any messages and any configuration that can work, but what is in a
   requeue when the broker restarts.  sink.go, requeuer.go. *)
THEOREM NothingIsLost == Spec => []NamedQueueLosesNothing
<1>1. KeptInv => NamedQueueLosesNothing
    BY DEF KeptInv, NamedInv, Named, Kept, NamedQueueLosesNothing
<1>2. QED
    BY <1>1, InitInv, StepInv, InitKept, StepKept, PTL DEF Spec, SafeSpec

-----------------------------------------------------------------------------
(***************************************************************************)
(* A message that was handled is on its way out: it is never delivered     *)
(* again, unless something fails between the handler and the ack.          *)
(***************************************************************************)
Final == {"taken", "acked", "refused", "unrouted", "lost", "gone", "wiped"}

Leaving(m) ==
    \/ copy[m].state \in Final /\ (setup.auto => ~(sink \in {"decide", "filter"} /\ cur = m))
    \/ ~setup.auto /\ copy[m].state = "unacked" /\ sink = "ack" /\ cur = m

OnceInv ==
    /\ handled \in [Messages -> Nat]
    /\ calm /\ ~setup.auto => link # "broken"
    /\ setup.auto /\ sink \in {"decide", "filter"} => copy[cur].state \in Final
    /\ calm \/ setup.auto =>
         \A m \in Messages : handled[m] # 0 => handled[m] = 1 /\ Leaving(m)

\* There is no way back from where a message has ended.
LEMMA SettleFinal ==
    ASSUME IInv, InWork, NEW outcome, Settle(outcome), NEW m \in Messages,
           copy[m].state \in Final
    PROVE  copy'[m].state \in Final
<1>1. CASE link = "up" /\ copy[cur].state = "unacked"
    <2>1. copy' = [copy EXCEPT ![cur] = outcome] /\ cur # m
        BY <1>1 DEF Settle, Final
    <2>2. copy'[m] = copy[m]
        BY <2>1 DEF IInv, CopiesOK
    <2>3. QED
        BY <2>2
<1>2. CASE ~(link = "up" /\ copy[cur].state = "unacked")
    <2>1. copy'[m] = copy[m] \/ copy'[m] = Returned(copy[m])
        BY <1>2 DEF Settle, Ended
    <2>2. QED
        BY <2>1 DEF Returned, Settled, Final
<1>3. QED
    BY <1>1, <1>2

LEMMA FinalStays ==
    ASSUME IInv, Next, NEW m \in Messages, copy[m].state \in Final
    PROVE  copy'[m].state \in Final
<1>1. copy'[m] = Returned(copy[m]) => copy'[m].state \in Final
    BY DEF Returned, Settled, Final
<1>2. CASE \E n \in Messages : Send(n) \/ DelayExpires(n) \/ Push(n)
    <2>1. PICK n \in Messages : Send(n) \/ DelayExpires(n) \/ Push(n)
        BY <1>2
    <2>2. n # m /\ copy'[m] = copy[m]
        BY <2>1 DEF Send, DelayExpires, Waiting, Push, Here, Final, IInv, CopiesOK
    <2>3. QED
        BY <2>2
<1>3. CASE Faults
    <2>1. CASE LoseConnection \/ SetupFails \/ Kill
        BY <1>1, <2>1 DEF LoseConnection, SetupFails, Kill, Leave, Ended
    <2>2. CASE Restart
        BY <1>1, <2>2 DEF Restart, Settled, Final
    <2>3. CASE Wipe
        BY <2>3 DEF Wipe, Settled, Final
    <2>4. CASE RequeueLeaves \/ RepublishFails \/ Interrupt
        BY <2>4 DEF RequeueLeaves, RepublishFails, Interrupt
    <2>5. QED
        BY <1>3, <2>1, <2>2, <2>3, <2>4 DEF Faults
<1>4. CASE \/ Program \/ Declare \/ Consume \/ Decide \/ Filter \/ Handler
           \/ RequeueFails \/ RequeueAborted
    BY <1>4 DEF Program, Connect, NextRun, StartRequeue, SetRequeue, Declare, Consume,
       Decide, Filter, Handler, HandlePlain, HandleSucceeds, HandleFails, RequeueFails,
       RequeueAborted
<1>5. CASE DeclareRefused \/ Broken \/ Cancelled
    BY <1>1, <1>5 DEF DeclareRefused, Broken, Cancelled, LeaveQuietly, Leave, Ended
<1>6. CASE \E n \in Messages : Receive(n)
    <2>1. PICK n \in Messages : Receive(n)
        BY <1>6
    <2>2. n # m /\ copy'[m] = copy[m]
        BY <2>1 DEF Receive, Here, Final, IInv, CopiesOK
    <2>3. QED
        BY <2>2
<1>7. CASE Settling
    <2>1. CASE Refuse /\ link = "broken"
        BY <1>1, <2>1 DEF Refuse, LeaveQuietly, Leave, Ended
    <2>2. CASE ~(Refuse /\ link = "broken")
        <3>1. InWork /\ \E outcome : Settle(outcome)
            BY <1>7, <2>2 DEF Settling, Refuse, Ack, Nack, GiveToRequeue, InWork
        <3>2. QED
            BY <3>1, SettleFinal
    <2>3. QED
        BY <2>1, <2>2
<1>8. QED
    BY <1>2, <1>3, <1>4, <1>5, <1>6, <1>7 DEF Next, Broker, SinkStep

LEMMA CalmStays == Next => (calm' => calm)
<1> SUFFICES ASSUME Next, ~Faults PROVE calm' = calm
    BY DEF Faults, LoseConnection, SetupFails, Restart, Wipe, RequeueLeaves,
       RepublishFails, Interrupt, Kill, Fails
<1>1. CASE \E m \in Messages : Send(m) \/ DelayExpires(m) \/ Push(m) \/ Receive(m)
    BY <1>1 DEF Send, DelayExpires, Push, Receive, history
<1>2. CASE \/ Program \/ Declare \/ Consume \/ Decide \/ Filter \/ Handler
           \/ RequeueFails \/ RequeueAborted
    BY <1>2 DEF Program, Connect, NextRun, StartRequeue, SetRequeue, Declare, Consume,
       Decide, Filter, Handler, HandlePlain, HandleSucceeds, HandleFails, RequeueFails,
       RequeueAborted, history
<1>3. CASE DeclareRefused \/ Broken \/ Cancelled
    BY <1>3 DEF DeclareRefused, Broken, Cancelled, LeaveQuietly, history
<1>4. CASE Settling
    BY <1>4 DEF Settling, Refuse, LeaveQuietly, Ack, Nack, GiveToRequeue, history
<1>5. QED
    BY <1>1, <1>2, <1>3, <1>4 DEF Next, Broker, SinkStep

\* A sink that acknowledges has the delivery until its ack has arrived.
LEMMA AckKeeps ==
    ASSUME IInv, Next, calm', link # "broken", ~setup.auto,
           NEW m \in Messages, copy[m].state = "unacked", sink = "ack", cur = m
    PROVE  \/ copy'[m].state \in Final
           \/ copy'[m].state = "unacked" /\ sink' = "ack" /\ cur' = m
<1>1. link = "up" /\ ~Faults
    BY CalmStays DEF IInv, LinkOK, Faults, LoseConnection, SetupFails, Restart, Wipe,
       RequeueLeaves, RepublishFails, Interrupt, Kill, Fails
<1>2. CASE Ack
    <2>1. copy' = [copy EXCEPT ![m] = Settled("acked", copy[m].msg)]
        BY <1>1, <1>2 DEF Ack, Settle
    <2>2. QED
        BY <2>1 DEF IInv, CopiesOK, Settled, Final
<1>3. CASE \E n \in Messages : Send(n) \/ DelayExpires(n) \/ Push(n)
    <2>1. PICK n \in Messages : Send(n) \/ DelayExpires(n) \/ Push(n)
        BY <1>3
    <2>2. n # m /\ copy'[m] = copy[m] /\ UNCHANGED <<sink, cur>>
        BY <2>1 DEF Send, DelayExpires, Waiting, Push, Here, IInv, CopiesOK, sinkVars
    <2>3. QED
        BY <2>2
<1>4. CASE StartRequeue \/ SetRequeue
    BY <1>4 DEF StartRequeue, SetRequeue, sinkVars
<1>5. ~(Connect \/ NextRun \/ RequeueFails)
    BY <1>1 DEF Connect, NextRun, RequeueFails
<1>6. SinkStep => Ack
    BY DEF SinkStep, Declare, DeclareRefused, Consume, Broken, Cancelled, Receive,
       Decide, Filter, Handler, HandlePlain, HandleSucceeds, HandleFails, Filtered,
       Settling, Refuse, Nack, GiveToRequeue, RequeueAborted
<1>7. QED
    BY <1>1, <1>2, <1>3, <1>4, <1>5, <1>6 DEF Next, Broker, Program

\* A sink that acknowledges loses its channel by a fault only.
LEMMA CalmLink ==
    ASSUME IInv, Next, ~setup.auto, calm', link # "broken"
    PROVE  link' # "broken"
<1>1. ~Faults
    BY DEF Faults, LoseConnection, SetupFails, Restart, Wipe, RequeueLeaves,
       RepublishFails, Interrupt, Kill, Fails
<1>2. CASE \E m \in Messages : Send(m) \/ DelayExpires(m) \/ Push(m) \/ Receive(m)
    BY <1>2 DEF Send, DelayExpires, Push, Receive, connVars
<1>3. CASE \/ Program \/ Declare \/ Consume \/ Decide \/ Filter \/ Handler
           \/ RequeueFails \/ RequeueAborted
    BY <1>3 DEF Program, Connect, NextRun, StartRequeue, SetRequeue, Declare, Consume,
       Decide, Filter, Handler, HandlePlain, HandleSucceeds, HandleFails, RequeueFails,
       RequeueAborted, connVars
<1>4. CASE DeclareRefused \/ Broken \/ Cancelled
    BY <1>4 DEF DeclareRefused, Broken, Cancelled, LeaveQuietly, Leave
<1>5. CASE Settling
    <2>1. InWork /\ \E outcome : Settle(outcome)
        BY <1>5 DEF Settling, Refuse, Ack, Nack, GiveToRequeue, InWork
    <2>2. QED
        BY <2>1 DEF Settle, IInv, HeldByUs
<1>6. QED
    BY <1>1, <1>2, <1>3, <1>4, <1>5 DEF Next, Broker, SinkStep

\* What the sink has in work it has received.
LEMMA InWorkFrom ==
    ASSUME Next, sink' \in {"decide", "filter"}
    PROVE  \/ sink \in {"decide", "filter"} /\ cur' = cur
           \/ \E n \in Messages : Receive(n)
<1>1. CASE \E m \in Messages : Send(m) \/ DelayExpires(m) \/ Push(m)
    BY <1>1 DEF Send, DelayExpires, Push, sinkVars
<1>2. CASE Faults \/ Program
    BY <1>2 DEF Faults, LoseConnection, SetupFails, Restart, Wipe, RequeueLeaves,
       RepublishFails, Interrupt, Kill, Leave, Goto, Program, Connect, NextRun,
       StartRequeue, SetRequeue, sinkVars
<1>3. CASE Declare \/ DeclareRefused \/ Consume \/ Broken \/ Cancelled \/ Decide
    BY <1>3 DEF Declare, DeclareRefused, Consume, Broken, Cancelled, LeaveQuietly, Leave,
       Decide, Goto
<1>4. CASE Filter \/ Handler \/ RequeueFails \/ RequeueAborted
    BY <1>4 DEF Filter, Handler, HandlePlain, HandleSucceeds, HandleFails, RequeueFails,
       RequeueAborted, Goto
<1>5. CASE Settling
    BY <1>5 DEF Settling, Refuse, LeaveQuietly, Leave, Ack, Nack, GiveToRequeue, Goto
<1>6. QED
    BY <1>1, <1>2, <1>3, <1>4, <1>5 DEF Next, Broker, SinkStep

LEMMA LeavingStays ==
    ASSUME IInv, OnceInv, Next, setup' = setup, calm' \/ setup.auto,
           NEW m \in Messages, Leaving(m)
    PROVE  Leaving(m)'
<1>1. CASE copy[m].state \in Final
    <2>1. copy'[m].state \in Final
        BY <1>1, FinalStays
    <2>2. ASSUME setup.auto, sink' \in {"decide", "filter"} PROVE cur' # m
        <3>1. CASE sink \in {"decide", "filter"} /\ cur' = cur
            BY <1>1, <2>2, <3>1 DEF Leaving
        <3>2. CASE \E n \in Messages : Receive(n)
            BY <1>1, <2>2, <3>2 DEF Receive, Final
        <3>3. QED
            BY <2>2, <3>1, <3>2, InWorkFrom
    <2>3. QED
        BY <2>1, <2>2 DEF Leaving
<1>2. CASE ~setup.auto /\ copy[m].state = "unacked" /\ sink = "ack" /\ cur = m
    BY <1>2, AckKeeps, CalmStays DEF OnceInv, Leaving
<1>3. QED
    BY <1>1, <1>2 DEF Leaving

LEMMA InitOnce == Init => OnceInv
BY DEF Init, OnceInv

LEMMA StepOnce == IInv /\ OnceInv /\ [Next]_vars => OnceInv'
<1> SUFFICES ASSUME IInv, OnceInv, [Next]_vars PROVE OnceInv'
    OBVIOUS
<1>1. CASE UNCHANGED vars
    BY <1>1 DEF vars, connVars, sinkVars, history, OnceInv, Leaving
<1>2. CASE Next
    <2>1. setup' = setup /\ (calm' => calm)
        BY <1>2, SetupStays, CalmStays
    <2>2. calm' /\ ~setup.auto => link' # "broken"
        BY <1>2, <2>1, CalmLink DEF OnceInv
    <2>3. ASSUME setup.auto, sink' \in {"decide", "filter"} PROVE (copy[cur].state \in Final)'
        <3>1. CASE sink \in {"decide", "filter"} /\ cur' = cur
            <4>1. cur \in Messages /\ copy[cur].state \in Final
                BY <2>3, <3>1 DEF OnceInv, IInv, HeldByUs, InWork
            <4>2. PICK m \in Messages : m = cur
                BY <4>1
            <4>3. copy'[m].state \in Final
                BY <1>2, <4>1, <4>2, FinalStays
            <4>4. QED
                BY <3>1, <4>2, <4>3
        <3>2. CASE \E n \in Messages : Receive(n)
            <4>1. PICK n \in Messages : Receive(n)
                BY <3>2
            <4>2. copy' = [copy EXCEPT ![n].state = "taken"] /\ cur' = n
                BY <2>3, <4>1 DEF Receive
            <4>3. copy'[n].state = "taken"
                BY <4>2, StateChange DEF IInv
            <4>4. QED
                BY <4>2, <4>3 DEF Final
        <3>3. QED
            BY <1>2, <2>3, <3>1, <3>2, InWorkFrom
    <2>4. CASE handled' = handled
        <3>1. ASSUME calm' \/ setup.auto, NEW m \in Messages, handled[m] # 0
              PROVE  handled[m] = 1 /\ Leaving(m)'
            BY <1>2, <2>1, <3>1, LeavingStays DEF OnceInv
        <3>2. QED
            BY <2>1, <2>2, <2>3, <2>4, <3>1 DEF OnceInv
    <2>5. CASE HandlePlain \/ HandleSucceeds
        <3>1. /\ sink = "filter" /\ UNCHANGED <<copy, link, cur>> /\ cur \in Messages
              /\ IF setup.auto THEN sink' = "select" ELSE sink' = "ack"
            BY <2>5 DEF HandlePlain, HandleSucceeds, Filtered, Goto, connVars, IInv,
               HeldByUs, InWork
        <3>2. handled' = [handled EXCEPT ![cur] =
                  IF calm \/ setup.auto THEN Again(handled[cur], 2)
                  ELSE IF setup.once THEN 1 ELSE 0]
            BY <2>5 DEF HandlePlain, HandleSucceeds, HandledAgain
        <3>3. handled' \in [Messages -> Nat]
            BY <3>1, <3>2 DEF OnceInv, Again
        <3>4. ASSUME calm \/ setup.auto PROVE handled[cur] = 0 /\ Leaving(cur)'
            <4>1. CASE setup.auto
                BY <2>1, <3>1, <4>1 DEF OnceInv, Leaving
            <4>2. CASE ~setup.auto
                <5>1. copy[cur].state = "unacked"
                    BY <3>1, <3>4, <4>2 DEF OnceInv, IInv, HeldByUs, InWork, LinkOK
                <5>2. QED
                    BY <2>1, <3>1, <3>4, <4>2, <5>1 DEF OnceInv, Leaving, Final
            <4>3. QED
                BY <4>1, <4>2
        <3>5. ASSUME calm' \/ setup.auto, NEW m \in Messages, handled'[m] # 0
              PROVE  handled'[m] = 1 /\ Leaving(m)'
            <4>1. CASE m = cur
                <5>1. handled'[m] = Again(0, 2)
                    BY <2>1, <3>1, <3>2, <3>4, <3>5, <4>1 DEF OnceInv
                <5>2. Leaving(m)'
                    BY <2>1, <3>1, <3>4, <3>5, <4>1 DEF Leaving
                <5>3. QED
                    BY <5>1, <5>2 DEF Again
            <4>2. CASE m # cur
                <5>1. handled'[m] = handled[m]
                    BY <3>2, <4>2 DEF OnceInv
                <5>2. QED
                    BY <1>2, <2>1, <3>5, <5>1, LeavingStays DEF OnceInv
            <4>3. QED
                BY <4>1, <4>2
        <3>6. QED
            BY <2>1, <2>2, <2>3, <3>3, <3>5 DEF OnceInv
    <2>6. CASE handled' = [m \in Messages |-> 0]
        BY <2>1, <2>2, <2>3, <2>6 DEF OnceInv
    <2>7. \/ handled' = handled \/ handled' = [m \in Messages |-> 0]
          \/ HandlePlain \/ HandleSucceeds
        <3>1. CASE \E m \in Messages : Send(m) \/ DelayExpires(m) \/ Push(m) \/ Receive(m)
            BY <3>1 DEF Send, DelayExpires, Push, Receive, history
        <3>2. CASE Faults \/ Program
            BY <3>2 DEF Faults, LoseConnection, SetupFails, Restart, Wipe,
               RequeueLeaves, RepublishFails, Interrupt, Kill, Fails, CountEnds,
               Program, Connect, NextRun, StartRequeue, SetRequeue, history
        <3>3. CASE Declare \/ DeclareRefused \/ Consume \/ Broken \/ Cancelled \/ Decide
            BY <3>3 DEF Declare, DeclareRefused, Consume, Broken, Cancelled, LeaveQuietly,
               Decide, history
        <3>4. CASE Filter \/ Handler \/ RequeueFails \/ RequeueAborted
            BY <3>4 DEF Filter, Handler, HandleFails, RequeueFails, RequeueAborted, history
        <3>5. CASE Settling
            BY <3>5 DEF Settling, Refuse, LeaveQuietly, Ack, Nack, GiveToRequeue, history
        <3>6. QED
            BY <1>2, <3>1, <3>2, <3>3, <3>4, <3>5 DEF Next, Broker, SinkStep
    <2>8. QED
        BY <2>4, <2>5, <2>6, <2>7
<1>3. QED
    BY <1>1, <1>2

(* Without a failure or an interruption no message is handled twice, though
   amqp-recv cancels its program before it acknowledges and is started again;
   one that is acknowledged automatically never is.  sink.go and
   cmd/amqp-recv/main.go, for any messages and configuration. *)
THEOREM NotHandledAgain == Spec => []HandledOnce
<1>1. OnceInv => HandledOnce
    <2>1. SUFFICES ASSUME OnceInv, calm \/ setup.auto, NEW m \in Messages PROVE handled[m] <= 1
        BY DEF HandledOnce
    <2>2. handled[m] = 0 \/ handled[m] = 1
        BY <2>1 DEF OnceInv
    <2>3. QED
        BY <2>2
<1>2. QED
    BY <1>1, InitInv, StepInv, InitOnce, StepOnce, PTL DEF Spec, SafeSpec

-----------------------------------------------------------------------------
(***************************************************************************)
(* Wherever a copy is, it carries what was signed when it was sent.        *)
(***************************************************************************)
Genuine(msg, m) ==
    /\ IsMessage(msg)
    /\ msg.id = <<m>> /\ msg.body = <<m>>
    /\ msg.signature = IF m \in signed THEN <<m>> \o <<m>> ELSE <<>>

IsValidator(i) == i \in DOMAIN setup.middleware /\ setup.middleware[i] = "validator"

SignedInv ==
    /\ \A m \in Messages :
         /\ Genuine(copy[m].msg, m)
         /\ copy[m].state = "new" => m \notin signed
    /\ InWork => Genuine(seen, cur) /\ copy[cur].state # "new"
    /\ sink = "decide" => passed = 0
    /\ sink = "filter" =>
         /\ passed \in Nat
         /\ \A i : IsValidator(i) /\ i <= passed => cur \in signed

LEMMA GenuineValid ==
    ASSUME NEW msg, NEW m, Genuine(msg, m) PROVE Valid(msg) <=> m \in signed
<1>1. <<m>> \in Seq({m}) /\ Len(<<m>>) = 1
    OBVIOUS
<1>2. Len(<<m>> \o <<m>>) = 2
    BY <1>1, ConcatProperties
<1>3. <<m>> \o <<m>> # <<>>
    BY <1>2
<1>4. QED
    BY <1>3 DEF Genuine, Valid, Digest

LEMMA GenuineSent ==
    ASSUME NEW m
    PROVE  LET sent == Signed(NewMessage(m))
           IN  /\ IsMessage(sent) /\ sent.id = <<m>> /\ sent.body = <<m>>
               /\ sent.signature = <<m>> \o <<m>>
<1> DEFINE new == NewMessage(m)
<1>1. IsMessage(new) /\ new.id = <<m>> /\ new.body = <<m>>
    BY DEF NewMessage, IsMessage
<1> HIDE DEF new
<1>2. ASSUME NEW signature
      PROVE  /\ IsMessage([new EXCEPT !.signature = signature])
             /\ [new EXCEPT !.signature = signature].id = <<m>>
             /\ [new EXCEPT !.signature = signature].body = <<m>>
             /\ [new EXCEPT !.signature = signature].signature = signature
    BY <1>1 DEF IsMessage
<1>3. Digest(new) = <<m>> \o <<m>>
    BY <1>1 DEF Digest
<1>4. Signed(new) = [new EXCEPT !.signature = <<m>> \o <<m>>]
    BY <1>3 DEF Signed
<1>5. /\ IsMessage(Signed(new)) /\ Signed(new).id = <<m>> /\ Signed(new).body = <<m>>
      /\ Signed(new).signature = <<m>> \o <<m>>
    BY <1>2, <1>4
<1>6. QED
    BY <1>5 DEF new

\* Nothing on the way of a message touches what was signed.
LEMMA GenuineChanges ==
    ASSUME NEW msg, NEW m, Genuine(msg, m)
    PROVE  /\ \A key : Genuine([msg EXCEPT !.key = key], m)
           /\ \A deaths : Genuine([msg EXCEPT !.deaths = deaths], m)
           /\ Genuine(Requeued(msg), m)
<1>1. ASSUME NEW key PROVE Genuine([msg EXCEPT !.key = key], m)
    BY DEF Genuine, IsMessage
<1>2. ASSUME NEW deaths PROVE Genuine([msg EXCEPT !.deaths = deaths], m)
    BY DEF Genuine, IsMessage
<1>3. ASSUME NEW flag PROVE Genuine([msg EXCEPT !.persistent = flag], m)
    BY DEF Genuine, IsMessage
<1>4. QED
    BY <1>1, <1>2, <1>3 DEF Requeued

LEMMA GenuineRouted ==
    ASSUME NEW msg, NEW m, Genuine(msg, m), NEW exchange, NEW key, NEW otherwise,
           otherwise # "new"
    PROVE  LET c == Routed(msg, exchange, key, otherwise)
           IN  Genuine(c.msg, m) /\ c.state # "new"
<1>1. CASE Targets(exchange, key) = {}
    BY <1>1 DEF Routed, Settled
<1>2. CASE Targets(exchange, key) # {}
    <2> DEFINE sent == [msg EXCEPT !.key = key]
    <2>1. Genuine(sent, m)
        BY GenuineChanges
    <2> HIDE DEF sent
    <2>2. Routed(msg, exchange, key, otherwise) =
            [state |-> "ready", queue |-> CHOOSE q \in Targets(exchange, key) : TRUE,
             msg |-> sent]
        BY <1>2 DEF Routed, sent
    <2>3. QED
        BY <2>1, <2>2
<1>3. QED
    BY <1>1, <1>2

LEMMA GenuineDied ==
    ASSUME NEW msg, NEW m, Genuine(msg, m), NEW queue, NEW why
    PROVE  Genuine(Died(msg, queue, why), m)
BY GenuineChanges DEF Died

OnItsWay(c, m) == Genuine(c.msg, m) /\ c.state # "new"

LEMMA SettleGenuine ==
    ASSUME IInv, SignedInv, InWork, NEW outcome, Settle(outcome), OnItsWay(outcome, cur),
           NEW m \in Messages
    PROVE  copy'[m] = copy[m] \/ copy'[m] = Returned(copy[m]) \/ OnItsWay(copy'[m], m)
<1>1. CASE link = "up" /\ copy[cur].state = "unacked"
    <2>1. copy' = [copy EXCEPT ![cur] = outcome]
        BY <1>1 DEF Settle
    <2>2. QED
        BY <2>1 DEF IInv, CopiesOK
<1>2. CASE ~(link = "up" /\ copy[cur].state = "unacked")
    BY <1>2 DEF Settle, Ended
<1>3. QED
    BY <1>1, <1>2

LEMMA SettlingGenuine ==
    ASSUME IInv, SignedInv, Settling, NEW m \in Messages
    PROVE  copy'[m] = copy[m] \/ copy'[m] = Returned(copy[m]) \/ OnItsWay(copy'[m], m)
<1>1. InWork /\ cur \in Messages
    BY DEF Settling, Refuse, Ack, Nack, GiveToRequeue, InWork, IInv, HeldByUs
<1>2. /\ Genuine(copy[cur].msg, cur) /\ Genuine(seen, cur) /\ Shape(copy[cur])
      /\ copy[cur].state # "new"
    BY <1>1 DEF SignedInv, IInv, CopiesOK
<1>3. CASE Refuse
    <2>1. CASE link = "broken"
        BY <1>3, <2>1 DEF Refuse, LeaveQuietly, Leave, Ended
    <2>2. CASE link # "broken"
        <3>1. OnItsWay(DeadLettered(copy[cur].msg), cur)
            BY <1>2, GenuineDied, GenuineRouted DEF DeadLettered, Settled, OnItsWay
        <3>2. QED
            BY <1>1, <1>3, <2>2, <3>1, SettleGenuine DEF Refuse
    <2>3. QED
        BY <2>1, <2>2
<1>4. CASE Ack
    <2>1. OnItsWay(Settled("acked", copy[cur].msg), cur)
        BY <1>2 DEF Settled, OnItsWay
    <2>2. QED
        BY <1>1, <1>4, <2>1, SettleGenuine DEF Ack
<1>5. CASE Nack
    <2>1. OnItsWay([copy[cur] EXCEPT !.state = "ready"], cur)
        BY <1>2 DEF Shape, OnItsWay
    <2>2. QED
        BY <1>1, <1>5, <2>1, SettleGenuine DEF Nack
<1>6. CASE GiveToRequeue
    <2>1. OnItsWay(Routed(Requeued(seen), <<>>, RequeueName, "lost"), cur)
        BY <1>2, GenuineChanges, GenuineRouted DEF OnItsWay
    <2>2. QED
        BY <1>1, <1>6, <2>1, SettleGenuine DEF GiveToRequeue
<1>7. QED
    BY <1>3, <1>4, <1>5, <1>6 DEF Settling

\* Whatever moves a copy, it is the copy of the message that was sent.
LEMMA CopiesGenuine ==
    ASSUME IInv, SignedInv, Next, NEW m \in Messages, ~Send(m)
    PROVE  copy'[m] = copy[m] \/ OnItsWay(copy'[m], m) \/ copy'[m] = Returned(copy[m])
<1>1. Genuine(copy[m].msg, m) /\ Shape(copy[m])
    BY DEF SignedInv, IInv, CopiesOK
<1>2. \A state : state # "new" => OnItsWay([copy[m] EXCEPT !.state = state], m)
    BY <1>1 DEF Shape, OnItsWay
<1>3. CASE \E n \in Messages : Send(n) \/ DelayExpires(n) \/ Push(n)
    <2>1. PICK n \in Messages : Send(n) \/ DelayExpires(n) \/ Push(n)
        BY <1>3
    <2>2. CASE n # m
        BY <2>1, <2>2 DEF Send, DelayExpires, Push, IInv, CopiesOK
    <2>3. CASE n = m /\ DelayExpires(m)
        BY <1>1, <2>3, GenuineDied, GenuineRouted DEF DelayExpires, OnItsWay, IInv, CopiesOK
    <2>4. CASE n = m /\ Push(m)
        <3>1. copy'[m] = [copy[m] EXCEPT !.state = "client"]
            BY <2>4 DEF Push, IInv, CopiesOK
        <3>2. QED
            BY <1>2, <3>1
    <2>5. QED
        BY <2>1, <2>2, <2>3, <2>4
<1>4. CASE Faults
    <2>1. CASE LoseConnection \/ SetupFails \/ Kill
        BY <2>1 DEF LoseConnection, SetupFails, Kill, Leave, Ended
    <2>2. CASE Restart
        BY <1>1, <2>2 DEF Restart, Settled, OnItsWay
    <2>3. CASE Wipe
        BY <1>1, <2>3 DEF Wipe, Settled, OnItsWay
    <2>4. CASE RequeueLeaves \/ RepublishFails \/ Interrupt
        BY <2>4 DEF RequeueLeaves, RepublishFails, Interrupt
    <2>5. QED
        BY <1>4, <2>1, <2>2, <2>3, <2>4 DEF Faults
<1>5. CASE \/ Program \/ Declare \/ Consume \/ Decide \/ Filter \/ Handler
           \/ RequeueFails \/ RequeueAborted
    BY <1>5 DEF Program, Connect, NextRun, StartRequeue, SetRequeue, Declare, Consume,
       Decide, Filter, Handler, HandlePlain, HandleSucceeds, HandleFails, RequeueFails,
       RequeueAborted
<1>6. CASE DeclareRefused \/ Broken \/ Cancelled
    BY <1>6 DEF DeclareRefused, Broken, Cancelled, LeaveQuietly, Leave, Ended
<1>7. CASE \E n \in Messages : Receive(n)
    <2>1. PICK n \in Messages : Receive(n)
        BY <1>7
    <2>2. CASE n # m
        BY <2>1, <2>2 DEF Receive, IInv, CopiesOK
    <2>3. CASE n = m
        <3>1. PICK state : state # "new" /\ copy'[m] = [copy[m] EXCEPT !.state = state]
            BY <2>1, <2>3 DEF Receive, IInv, CopiesOK
        <3>2. QED
            BY <1>2, <3>1
    <2>4. QED
        BY <2>2, <2>3
<1>8. CASE Settling
    BY <1>8, SettlingGenuine
<1>9. QED
    BY <1>3, <1>4, <1>5, <1>6, <1>7, <1>8 DEF Next, Broker, SinkStep

LEMMA ReturnedGenuine ==
    ASSUME IInv, SignedInv, NEW m \in Messages
    PROVE  /\ Genuine(Returned(copy[m]).msg, m)
           /\ Returned(copy[m]).state = "new" => copy[m].state = "new"
<1>1. Genuine(copy[m].msg, m) /\ Shape(copy[m])
    BY DEF SignedInv, IInv, CopiesOK
<1>2. QED
    BY <1>1 DEF Shape, Returned, Settled

\* Where the delivery in work comes from.
LEMMA WorkFrom ==
    ASSUME Next, InWork'
    PROVE  \/ \E n \in Messages : Receive(n)
           \/ /\ InWork /\ cur' = cur
              /\ seen' = seen \/ seen' = [seen EXCEPT !.key = RestoredKey(seen)]
              /\ \/ sink' = sink /\ passed' = passed
                 \/ sink' \notin {"decide", "filter"}
                 \/ Decide \/ Filter
<1>1. CASE \E m \in Messages : Send(m) \/ DelayExpires(m) \/ Push(m)
    BY <1>1 DEF Send, DelayExpires, Push, sinkVars, InWork
<1>2. CASE Faults
    BY <1>2 DEF Faults, LoseConnection, SetupFails, Restart, Wipe, RequeueLeaves,
       RepublishFails, Interrupt, Kill, Leave, Goto, sinkVars, InWork
<1>3. CASE Program
    BY <1>3 DEF Program, Connect, NextRun, StartRequeue, SetRequeue, sinkVars, InWork
<1>4. CASE Declare \/ DeclareRefused \/ Consume \/ Broken \/ Cancelled
    BY <1>4 DEF Declare, DeclareRefused, Consume, Broken, Cancelled, LeaveQuietly, Leave,
       Goto, InWork
<1>5. CASE Decide \/ Filter
    BY <1>5 DEF Decide, Filter, Goto, InWork
<1>6. CASE Handler \/ RequeueFails \/ RequeueAborted
    BY <1>6 DEF Handler, HandlePlain, HandleSucceeds, HandleFails, Filtered,
       RequeueFails, RequeueAborted, Goto, InWork
<1>7. CASE Settling
    BY <1>7 DEF Settling, Refuse, LeaveQuietly, Leave, Ack, Nack, GiveToRequeue, Goto,
       InWork
<1>8. QED
    BY <1>1, <1>2, <1>3, <1>4, <1>5, <1>6, <1>7 DEF Next, Broker, SinkStep

\* Who is signed.
LEMMA SignedFrom ==
    ASSUME Next, NEW m \in Messages, ~Send(m) PROVE m \in signed' <=> m \in signed
<1>1. CASE \E n \in Messages : Send(n) \/ DelayExpires(n) \/ Push(n) \/ Receive(n)
    BY <1>1 DEF Send, DelayExpires, Push, Receive, history
<1>2. CASE Faults \/ Program
    BY <1>2 DEF Faults, LoseConnection, SetupFails, Restart, Wipe, RequeueLeaves,
       RepublishFails, Interrupt, Kill, Fails, Program, Connect, NextRun, StartRequeue,
       SetRequeue, history
<1>3. CASE Declare \/ DeclareRefused \/ Consume \/ Broken \/ Cancelled \/ Decide
    BY <1>3 DEF Declare, DeclareRefused, Consume, Broken, Cancelled, LeaveQuietly, Decide,
       history
<1>4. CASE Filter \/ Handler \/ RequeueFails \/ RequeueAborted
    BY <1>4 DEF Filter, Handler, HandlePlain, HandleSucceeds, HandleFails, RequeueFails,
       RequeueAborted, history
<1>5. CASE Settling
    BY <1>5 DEF Settling, Refuse, LeaveQuietly, Ack, Nack, GiveToRequeue, history
<1>6. QED
    BY <1>1, <1>2, <1>3, <1>4, <1>5 DEF Next, Broker, SinkStep

LEMMA SendGenuine ==
    ASSUME IInv, SignedInv, NEW m \in Messages, Send(m)
    PROVE  /\ Genuine(copy[m].msg, m)' /\ copy'[m].state # "new"
           /\ copy[m].state = "new" /\ m \notin signed
           /\ signed \subseteq signed'
<1>1. copy[m].state = "new" /\ m \notin signed /\ signed \subseteq signed'
    BY DEF Send, SignedInv
<1>2. PICK sign \in MaySign :
        /\ LET msg == IF sign THEN Signed(NewMessage(m)) ELSE NewMessage(m)
           IN  copy' = [copy EXCEPT ![m] =
                 IF setup.keys = <<>> THEN Routed(msg, <<>>, QueueName, "unrouted")
                 ELSE Routed(msg, setup.exchange, setup.keys[1], "unrouted")]
        /\ signed' = IF sign THEN signed \union {m} ELSE signed
    BY DEF Send
<1> DEFINE msg == IF sign THEN Signed(NewMessage(m)) ELSE NewMessage(m)
<1>3. /\ IsMessage(msg) /\ msg.id = <<m>> /\ msg.body = <<m>>
      /\ msg.signature = IF m \in signed' THEN <<m>> \o <<m>> ELSE <<>>
    <2>1. CASE sign
        BY <1>2, <2>1, GenuineSent
    <2>2. CASE ~sign
        BY <1>1, <1>2, <2>2 DEF NewMessage, IsMessage
    <2>3. QED
        BY <2>1, <2>2
<1>4. copy'[m] = IF setup.keys = <<>> THEN Routed(msg, <<>>, QueueName, "unrouted")
                 ELSE Routed(msg, setup.exchange, setup.keys[1], "unrouted")
    BY <1>2 DEF IInv, CopiesOK
<1> HIDE DEF msg
<1>5. \A exchange, key :
        LET c == Routed(msg, exchange, key, "unrouted")
        IN  /\ IsMessage(c.msg) /\ c.msg.id = msg.id /\ c.msg.body = msg.body
            /\ c.msg.signature = msg.signature /\ c.state # "new"
    <2>1. \A key : LET sent == [msg EXCEPT !.key = key]
                   IN  /\ IsMessage(sent) /\ sent.id = msg.id /\ sent.body = msg.body
                       /\ sent.signature = msg.signature
        BY <1>3 DEF IsMessage
    <2>2. QED
        BY <1>3, <2>1 DEF Routed, Settled
<1>6. QED
    BY <1>1, <1>3, <1>4, <1>5 DEF Genuine

LEMMA CopySigned ==
    ASSUME IInv, SignedInv, Next, NEW m \in Messages
    PROVE  /\ Genuine(copy[m].msg, m)'
           /\ copy'[m].state = "new" => copy[m].state = "new" /\ m \notin signed'
           /\ m \in signed => m \in signed'
<1>1. CASE Send(m)
    BY <1>1, SendGenuine
<1>2. CASE ~Send(m)
    <2>1. m \in signed' <=> m \in signed
        BY <1>2, SignedFrom
    <2>2. Genuine(copy'[m].msg, m) /\ (copy'[m].state = "new" => copy[m].state = "new")
        <3>1. CASE copy'[m] = copy[m]
            BY <3>1 DEF SignedInv
        <3>2. CASE OnItsWay(copy'[m], m)
            BY <3>2 DEF OnItsWay
        <3>3. CASE copy'[m] = Returned(copy[m])
            BY <3>3, ReturnedGenuine
        <3>4. QED
            BY <1>2, <3>1, <3>2, <3>3, CopiesGenuine
    <2>3. QED
        BY <2>1, <2>2 DEF Genuine, SignedInv
<1>3. QED
    BY <1>1, <1>2

\* The delivery in work is one that was sent, and its envelope is that of the copy.
LEMMA WorkSigned ==
    ASSUME IInv, SignedInv, Next, InWork'
    PROVE  Genuine(seen, cur)' /\ copy'[cur'].state # "new"
<1>1. CASE \E n \in Messages : Receive(n)
    <2>1. PICK n \in Messages : Receive(n)
        BY <1>1
    <2>2. /\ cur' = n /\ seen' = copy[n].msg /\ signed' = signed
          /\ copy[n].state # "new"
        BY <2>1 DEF Receive, Here, history
    <2>3. copy'[n].state # "new" /\ Genuine(copy[n].msg, n)
        BY <2>2, CopySigned DEF SignedInv
    <2>4. Genuine(seen, n)'
        BY <2>2, <2>3 DEF Genuine
    <2>5. QED
        BY <2>2, <2>3, <2>4
<1>2. CASE ~\E n \in Messages : Receive(n)
    <2>1. /\ InWork /\ cur' = cur
          /\ seen' = seen \/ seen' = [seen EXCEPT !.key = RestoredKey(seen)]
        BY <1>2, WorkFrom
    <2>2. PICK m \in Messages : m = cur
        BY <2>1 DEF IInv, HeldByUs
    <2>3. Genuine(seen, m) /\ copy[m].state # "new"
        BY <2>1, <2>2 DEF SignedInv
    <2>4. copy'[m].state # "new" /\ Genuine(seen', m)
        BY <2>1, <2>3, CopySigned, GenuineChanges
    <2>5. ~Send(m)
        BY <2>3, SendGenuine
    <2>6. m \in signed' <=> m \in signed
        BY <2>5, SignedFrom
    <2>7. QED
        BY <2>1, <2>2, <2>4, <2>6 DEF Genuine
<1>3. QED
    BY <1>1, <1>2

\* What has passed a validator was signed.
LEMMA PassedSigned ==
    ASSUME IInv, SignedInv, KeptInv, Next, setup' = setup
    PROVE  /\ sink' = "decide" => passed' = 0
           /\ sink' = "filter" =>
                /\ passed' \in Nat
                /\ \A i : IsValidator(i) /\ i <= passed' => cur' \in signed'
<1> SUFFICES ASSUME sink' \in {"decide", "filter"}
             PROVE  /\ sink' = "decide" => passed' = 0
                    /\ sink' = "filter" =>
                         /\ passed' \in Nat
                         /\ \A i : IsValidator(i) /\ i <= passed' => cur' \in signed'
    OBVIOUS
<1>1. CASE \E n \in Messages : Receive(n)
    BY <1>1 DEF Receive
<1>2. CASE ~\E n \in Messages : Receive(n)
    <2>1. /\ InWork /\ cur' = cur /\ cur \in Messages
          /\ (sink' = sink /\ passed' = passed) \/ Decide \/ Filter
        BY <1>2, WorkFrom DEF InWork, IInv, HeldByUs
    <2>2. cur \in signed => cur' \in signed'
        BY <2>1, CopySigned
    <2>3. CASE sink' = sink /\ passed' = passed
        BY <2>1, <2>2, <2>3 DEF SignedInv
    <2>4. CASE Decide
        <3>1. sink' = "filter" /\ passed' = 0
            BY <2>4 DEF Decide, Goto, SignedInv
        <3>2. \A i : IsValidator(i) => i \in Nat \ {0}
            BY SetupsAssumption DEF IsValidator, KeptInv, WellConfigured
        <3>3. QED
            BY <3>1, <3>2
    <2>5. CASE Filter
        <3>1. /\ sink = "filter" /\ sink' = "filter" /\ passed' = passed + 1 /\ passed \in Nat
              /\ TRUE \in Accepts(setup.middleware[passed + 1])
            BY <2>5 DEF Filter, Goto, SignedInv
        <3>2. ASSUME NEW i, IsValidator(i), i <= passed' PROVE cur \in signed
            <4>1. i \in Nat \ {0}
                BY <3>2, SetupsAssumption DEF IsValidator, KeptInv, WellConfigured
            <4>2. CASE i <= passed
                BY <3>1, <3>2, <4>2 DEF SignedInv
            <4>3. CASE i = passed + 1
                <5>1. Valid(seen) /\ Genuine(seen, cur)
                    BY <2>1, <3>1, <3>2, <4>3 DEF Accepts, IsValidator, SignedInv
                <5>2. QED
                    BY <5>1, GenuineValid
            <4>4. QED
                BY <3>1, <3>2, <4>1, <4>2, <4>3
        <3>3. QED
            BY <2>2, <3>1, <3>2
    <2>6. QED
        BY <2>1, <2>3, <2>4, <2>5
<1>3. QED
    BY <1>1, <1>2

LEMMA StepSigned == IInv /\ KeptInv /\ SignedInv /\ [Next]_vars => SignedInv'
<1> SUFFICES ASSUME IInv, KeptInv, SignedInv, [Next]_vars PROVE SignedInv'
    OBVIOUS
<1>1. CASE UNCHANGED vars
    BY <1>1 DEF vars, connVars, sinkVars, history, SignedInv, Genuine, IsValidator, InWork
<1>2. CASE Next
    <2>1. setup' = setup
        BY <1>2, SetupStays
    <2>2. ASSUME NEW m \in Messages
          PROVE  /\ Genuine(copy[m].msg, m)'
                 /\ copy'[m].state = "new" => m \notin signed'
        BY <1>2, CopySigned
    <2>3. InWork' => Genuine(seen, cur)' /\ copy'[cur'].state # "new"
        BY <1>2, WorkSigned
    <2>4. /\ sink' = "decide" => passed' = 0
          /\ sink' = "filter" =>
               /\ passed' \in Nat
               /\ \A i : IsValidator(i) /\ i <= passed' => cur' \in signed'
        BY <1>2, <2>1, PassedSigned
    <2>5. QED
        BY <2>1, <2>2, <2>3, <2>4 DEF SignedInv, IsValidator
<1>3. QED
    BY <1>1, <1>2

LEMMA InitSigned == Init => SignedInv
<1> SUFFICES ASSUME Init PROVE SignedInv
    OBVIOUS
<1>1. ASSUME NEW m \in Messages
      PROVE  Genuine(copy[m].msg, m) /\ m \notin signed
    BY DEF Init, Settled, NewMessage, Genuine, IsMessage
<1>2. QED
    BY <1>1 DEF Init, SignedInv, InWork

(* certs.go, sink.go, requeuer.go: the validator finds the signature of a message
   valid exactly if it was signed, however often the message has come back from a
   requeue, a dead letter or a lost connection, and nothing else gets past it. *)
THEOREM SignaturesSurvive == Spec => []SignatureSurvives
<1>1. KeptInv /\ SignedInv => SignatureSurvives
    <2> SUFFICES ASSUME KeptInv, SignedInv PROVE SignatureSurvives
        OBVIOUS
    <2>1. sink = "filter" => (Valid(seen) <=> cur \in signed)
        BY GenuineValid DEF SignedInv, InWork
    <2>2. ASSUME NEW i \in DOMAIN setup.middleware, setup.middleware[i] = "validator", Filtered
          PROVE  cur \in signed
        <3>1. IsValidator(i) /\ i <= passed
            BY <2>2, SetupsAssumption DEF IsValidator, KeptInv, WellConfigured, Filtered
        <3>2. QED
            BY <2>2, <3>1 DEF SignedInv, Filtered
    <2>3. QED
        BY <2>1, <2>2 DEF SignatureSurvives
<1>2. QED
    BY <1>1, InitInv, StepInv, InitKept, StepKept, InitSigned, StepSigned, PTL
    DEF Spec, SafeSpec
===============================================================================
