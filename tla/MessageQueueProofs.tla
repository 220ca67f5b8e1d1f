------------------------- MODULE MessageQueueProofs -------------------------
(***************************************************************************)
(* The queue's invariants, and its refinement of Mailbox, for any number   *)
(* of producers and of messages.                                           *)
(***************************************************************************)
EXTENDS MessageQueue, SequenceTheorems, TLAPS

\* Nobody is past initOnce before the list exists, and before it exists
\* nothing was put, counted or handed out.
CreatedBeforeUse ==
    /\ \A t \in Threads : pc[t] \in {"body", "signal", "wait"} => created
    /\ ~created => messages = <<>> /\ hand = NoMsg /\ seen = 0

\* Where the consumer can be, and what it has in hand, in each method.
ConsumerProtocol ==
    /\ pc[Consumer] # "signal"
    /\ pc[Consumer] = "wait" => op = "Peek"
    /\ pc[Consumer] # "out" => (op = "Commit" <=> hand # NoMsg)

\* A producer inside Put has a message left to push.
PutInFlight ==
    \A p \in Producers : pc[p] \in {"check", "create", "body"} => puts[p] < MaxPuts

IInv ==
    /\ TypeOK
    /\ PutInFlight
    /\ CreatedBeforeUse
    /\ ConsumerProtocol
    /\ NoLostWakeup
    /\ PeekedIsFront
    /\ LenIsLowerBound

-----------------------------------------------------------------------------
\* The consumer is none of the producers, and no message is NoMsg.
LEMMA Distinct ==
    /\ Consumer \in Threads /\ Producers \subseteq Threads
    /\ \A p \in Producers : p # Consumer
    /\ NoMsg \notin Message
BY QueueAssumption DEF Threads, Message

LEMMA InitInv == Init => IInv
<1> SUFFICES ASSUME Init PROVE IInv
    OBVIOUS
<1> USE DEF Init
<1>1. TypeOK
    <2>1. created \in BOOLEAN
        OBVIOUS
    <2>2. QED
        BY <2>1, QueueAssumption DEF TypeOK, Threads, Message
<1>2. CreatedBeforeUse /\ ConsumerProtocol
    BY Distinct DEF CreatedBeforeUse, ConsumerProtocol
<1>3. PutInFlight
    BY Distinct DEF PutInFlight
<1>4. NoLostWakeup /\ PeekedIsFront /\ LenIsLowerBound
    BY DEF NoLostWakeup, PeekedIsFront, LenIsLowerBound
<1>5. QED
    BY <1>1, <1>2, <1>3, <1>4 DEF IInv

\* Every step preserves the inductive invariant.
LEMMA StepInv == IInv /\ [Next]_vars => IInv'
<1> SUFFICES ASSUME IInv, [Next]_vars PROVE IInv'
    OBVIOUS
<1> USE Distinct DEF IInv, TypeOK, PutInFlight, CreatedBeforeUse, ConsumerProtocol,
        NoLostWakeup, PeekedIsFront, LenIsLowerBound, Goto
<1>1. ASSUME NEW t \in Threads, CheckOnce(t) PROVE IInv'
    BY <1>1 DEF CheckOnce
<1>2. ASSUME NEW t \in Threads, CreateOnce(t) PROVE IInv'
    <2>1. CASE created
        BY <1>2, <2>1 DEF CreateOnce
    <2>2. CASE ~created
        <3>1. created' \in BOOLEAN /\ created'
            BY <1>2, <2>2 DEF CreateOnce
        <3>2. QED
            BY <1>2, <2>2, <3>1 DEF CreateOnce
    <2>3. QED
        BY <2>1, <2>2
<1>3. ASSUME NEW p \in Producers, CallPut(p) PROVE IInv'
    BY <1>3 DEF CallPut
<1>4. ASSUME NEW p \in Producers, PushBack(p) PROVE IInv'
    <2>1. puts[p] + 1 \in 1..MaxPuts /\ <<p, puts[p] + 1>> \in Message
        BY <1>4, QueueAssumption DEF PushBack, Message
    <2>2. QED
        BY <1>4, <2>1, AppendProperties, HeadTailAppend DEF PushBack
<1>5. ASSUME NEW p \in Producers, Signal(p) PROVE IInv'
    BY <1>5 DEF Signal
<1>6. ASSUME NEW method \in {"Len", "Peek", "Commit"}, Call(method) PROVE IInv'
    BY <1>6 DEF Call
<1>7. CASE Length
    BY <1>7 DEF Length
<1>8. CASE PeekFront
    BY <1>8 DEF PeekFront
<1>9. CASE PeekNotified
    BY <1>9 DEF PeekNotified
<1>10. CASE PeekCancelled
    BY <1>10 DEF PeekCancelled
<1>11. CASE RemoveFront
    BY <1>11, HeadTailProperties DEF RemoveFront
<1>12. CASE GiveUp
    BY <1>12 DEF GiveUp
<1>13. CASE CloseContext
    BY <1>13 DEF CloseContext
<1>14. CASE NewContext
    BY <1>14 DEF NewContext
<1>15. CASE UNCHANGED vars
    BY <1>15 DEF vars
<1>16. QED
    BY <1>1, <1>2, <1>3, <1>4, <1>5, <1>6, <1>7, <1>8, <1>9, <1>10, <1>11,
       <1>12, <1>13, <1>14, <1>15 DEF Next, ProducerStep, ConsumerStep, InitOnce

THEOREM Invariance == Spec => []IInv
<1>1. QED
    BY InitInv, StepInv, PTL DEF Spec, SafeSpec

-----------------------------------------------------------------------------
(* The variables keep their types in every run of the queue. *)
THEOREM TypeCorrect == Spec => []TypeOK
<1>1. IInv => TypeOK
    BY DEF IInv
<1>2. QED
    BY <1>1, Invariance, PTL

(* Peek never sleeps on a non-empty list without a token or a signal to come,
   however many producers call Put at once. *)
THEOREM LostWakeupFree == Spec => []NoLostWakeup
<1>1. IInv => NoLostWakeup
    BY DEF IInv
<1>2. QED
    BY <1>1, Invariance, PTL

(* Commit removes the very message that Peek returned. *)
THEOREM CommitRemovesPeeked == Spec => []PeekedIsFront
<1>1. IInv => PeekedIsFront
    BY DEF IInv
<1>2. QED
    BY <1>1, Invariance, PTL

(* The length the publisher compares with its overflow limit is never more
   than what the list holds. *)
THEOREM LenNeverOverstates == Spec => []LenIsLowerBound
<1>1. IInv => LenIsLowerBound
    BY DEF IInv
<1>2. QED
    BY <1>1, Invariance, PTL

-----------------------------------------------------------------------------
(* Locks, double-checked initialisation and notifications together are the
   mailbox: initially, and step by step. *)
THEOREM QueueRefinesMailbox == Spec => Box!SafeSpec
<1>1. Init => Box!Init
    BY Distinct DEF Init, Box!Init, PeekPending
<1>2. IInv /\ [Next]_vars => [Box!Next]_(Box!mailboxVars)
    <2> SUFFICES ASSUME IInv, [Next]_vars
                 PROVE  [Box!Next]_(Box!mailboxVars)
        OBVIOUS
    <2> USE Distinct DEF IInv, TypeOK, CreatedBeforeUse, ConsumerProtocol,
            PeekPending, Goto, Box!mailboxVars
    <2>1. ASSUME NEW t \in Threads, InitOnce(t) PROVE UNCHANGED Box!mailboxVars
        <3>1. CASE CheckOnce(t)
            BY <3>1 DEF CheckOnce
        <3>2. CASE CreateOnce(t)
            BY <3>2 DEF CreateOnce
        <3>3. QED
            BY <2>1, <3>1, <3>2 DEF InitOnce
    <2>2. ASSUME NEW p \in Producers, CallPut(p) \/ Signal(p)
          PROVE  UNCHANGED Box!mailboxVars
        BY <2>2 DEF CallPut, Signal
    <2>3. ASSUME NEW p \in Producers, PushBack(p)
          PROVE  Box!Put(<<p, puts[p] + 1>>) /\ <<p, puts[p] + 1>> \in Message
        BY <2>3, QueueAssumption DEF PushBack, Message, PutInFlight, Box!Put
    <2>4. ASSUME NEW method \in {"Len", "Peek", "Commit"}, Call(method)
          PROVE  Box!Ask \/ UNCHANGED Box!mailboxVars
        BY <2>4 DEF Call, Box!Ask
    <2>5. CASE Length \/ PeekNotified \/ UNCHANGED vars
        BY <2>5 DEF Length, PeekNotified, vars
    <2>6. CASE PeekFront \/ PeekCancelled
        BY <2>6 DEF PeekFront, PeekCancelled, Box!Next, Box!Deliver, Box!GiveUp
    <2>7. CASE RemoveFront \/ GiveUp
        BY <2>7 DEF RemoveFront, GiveUp, PeekedIsFront, Box!Next, Box!Commit, Box!Release
    <2>8. CASE CloseContext \/ NewContext
        BY <2>8 DEF CloseContext, NewContext, Box!Next, Box!Close, Box!Reopen
    <2>9. ASSUME NEW p \in Producers, CallPut(p) \/ ProducerStep(p)
          PROVE  Box!Next \/ UNCHANGED Box!mailboxVars
        BY <2>1, <2>2, <2>3, <2>9 DEF ProducerStep, Threads, Box!Next
    <2>10. CASE ConsumerStep
        BY <2>1, <2>5, <2>6, <2>7, <2>10 DEF ConsumerStep, Threads
    <2>11. QED
        BY <2>4, <2>5, <2>7, <2>8, <2>9, <2>10 DEF Next, Box!Next
<1>3. QED
    BY <1>1, <1>2, Invariance, PTL DEF Spec, SafeSpec, Box!SafeSpec
==============================================================================
