---------------------------- MODULE MessageQueue ----------------------------
(***************************************************************************)
(* internal/message_queue.go: the unbounded cache of outgoing messages     *)
(* between the goroutines that publish and the one publisher goroutine     *)
(* that owns the AMQP channel.                                             *)
(*                                                                         *)
(* Every stretch of code that runs under q.lock touches only the list and  *)
(* never blocks, so it is one step; the reads and channel operations       *)
(* outside the lock (the first test of initOnce, the send on notify after  *)
(* Put has unlocked, the select of Peek) are steps of their own, and any   *)
(* other goroutine may run between two of them.                            *)
(*                                                                         *)
(* Definitions named X_... are faulty variants of X, used to see that the   *)
(* properties reject them; they are not part of the specification.         *)
(*                                                                         *)
(* A method runs  check [-> create] -> body  (initOnce, then the critical  *)
(* section); Put goes on to  signal, Peek may go on to  wait  and back.    *)
(***************************************************************************)
EXTENDS Naturals, Sequences

CONSTANTS Producers,  \* goroutines that call Put
          Consumer,   \* the publisher goroutine: Len, Peek and Commit
          NoMsg,      \* "no message in hand"
          MaxPuts     \* bound of the model: messages put by each producer

ASSUME QueueAssumption ==
    /\ Consumer \notin Producers
    /\ MaxPuts \in Nat
    /\ NoMsg \notin Producers \X (1..MaxPuts)

Threads == Producers \union {Consumer}
Message == Producers \X (1..MaxPuts)

VARIABLES messages,   \* q.messages, front first; <<>> also before it exists
          created,    \* initOnce has run: q.notify # nil and q.messages # nil
          notify,     \* tokens buffered in q.notify, a channel of capacity 1
          ctx,        \* the context given to Peek
          pc,         \* where each goroutine is inside its method
          op,         \* the method the consumer is running, or ran last
          puts,       \* how many messages each producer has pushed
          hand,       \* what Peek returned and is not committed or given up
          seen        \* result of the last Len since the last Commit

vars == <<messages, created, notify, ctx, pc, op, puts, hand, seen>>

Goto(t, label) == pc' = [pc EXCEPT ![t] = label]

Init ==
    /\ messages = <<>>
    /\ created = FALSE
    /\ notify = 0
    /\ ctx = "live"
    /\ pc = [t \in Threads |-> "out"]
    /\ op = "Len"
    /\ puts = [p \in Producers |-> 0]
    /\ hand = NoMsg
    /\ seen = 0

-----------------------------------------------------------------------------
\* initOnce: a test without the lock, then the same test under the lock.

CheckOnce(t) ==
    /\ pc[t] = "check"
    /\ Goto(t, IF created THEN "body" ELSE "create")
    /\ UNCHANGED <<messages, created, notify, ctx, op, puts, hand, seen>>

CreateOnce_Unchecked(t) ==
    /\ pc[t] = "create"
    /\ created' = TRUE /\ notify' = 0 /\ messages' = <<>>
    /\ Goto(t, "body")
    /\ UNCHANGED <<ctx, op, puts, hand, seen>>

CreateOnce(t) ==
    /\ pc[t] = "create"
    /\ IF created
         THEN UNCHANGED <<created, notify, messages>>
         ELSE created' = TRUE /\ notify' = 0 /\ messages' = <<>>
    /\ Goto(t, "body")
    /\ UNCHANGED <<ctx, op, puts, hand, seen>>

-----------------------------------------------------------------------------
\* Put: push under the lock, unlock, then a send on notify that never blocks.

CallPut(p) ==
    /\ pc[p] = "out" /\ puts[p] < MaxPuts
    /\ Goto(p, "check")
    /\ UNCHANGED <<messages, created, notify, ctx, op, puts, hand, seen>>

PushBack(p) ==
    /\ pc[p] = "body"
    /\ puts' = [puts EXCEPT ![p] = @ + 1]
    /\ messages' = Append(messages, <<p, puts[p] + 1>>)
    /\ Goto(p, "signal")
    /\ UNCHANGED <<created, notify, ctx, op, hand, seen>>

\* The send of a blocking "q.notify <- struct{}{}" without a capacity limit.
Signal_Uncapped(p) ==
    /\ pc[p] = "signal"
    /\ notify' = notify + 1
    /\ Goto(p, "out")
    /\ UNCHANGED <<messages, created, ctx, op, puts, hand, seen>>

\* An unbuffered notify: the send is dropped unless the consumer is in select.
Signal_Unbuffered(p) ==
    /\ pc[p] = "signal"
    /\ notify' \in IF pc[Consumer] = "wait" THEN {notify, 1} ELSE {notify}
    /\ Goto(p, "out")
    /\ UNCHANGED <<messages, created, ctx, op, puts, hand, seen>>

Signal(p) ==
    /\ pc[p] = "signal"
    /\ notify' = 1
    /\ Goto(p, "out")
    /\ UNCHANGED <<messages, created, ctx, op, puts, hand, seen>>

-----------------------------------------------------------------------------
\* The consumer.  Nothing is in hand when it calls Len or Peek; it commits
\* what it has in hand, or gives it up when publishing it has failed.

Call(method) ==
    /\ pc[Consumer] = "out"
    /\ IF method = "Commit" THEN hand # NoMsg ELSE hand = NoMsg
    /\ op' = method
    /\ Goto(Consumer, "check")
    /\ UNCHANGED <<messages, created, notify, ctx, puts, hand, seen>>

Length ==
    /\ pc[Consumer] = "body" /\ op = "Len"
    /\ seen' = Len(messages)
    /\ Goto(Consumer, "out")
    /\ UNCHANGED <<messages, created, notify, ctx, op, puts, hand>>

PeekFront ==
    /\ pc[Consumer] = "body" /\ op = "Peek"
    /\ IF messages # <<>>
         THEN hand' = Head(messages) /\ Goto(Consumer, "out")
         ELSE Goto(Consumer, "wait") /\ UNCHANGED hand
    /\ UNCHANGED <<messages, created, notify, ctx, op, puts, seen>>

PeekNotified ==
    /\ pc[Consumer] = "wait" /\ notify = 1
    /\ notify' = 0
    /\ Goto(Consumer, "body")
    /\ UNCHANGED <<messages, created, ctx, op, puts, hand, seen>>

PeekCancelled ==
    /\ pc[Consumer] = "wait" /\ ctx = "done"
    /\ Goto(Consumer, "out")
    /\ UNCHANGED <<messages, created, notify, ctx, op, puts, hand, seen>>

RemoveFront ==
    /\ pc[Consumer] = "body" /\ op = "Commit"
    /\ messages' = IF messages = <<>> THEN messages ELSE Tail(messages)
    /\ hand' = NoMsg
    /\ seen' = 0
    /\ Goto(Consumer, "out")
    /\ UNCHANGED <<created, notify, ctx, op, puts>>

GiveUp ==
    /\ pc[Consumer] = "out" /\ hand # NoMsg
    /\ hand' = NoMsg
    /\ UNCHANGED <<messages, created, notify, ctx, pc, op, puts, seen>>

-----------------------------------------------------------------------------
\* The context of one connection is closed at any time; the next connection
\* gives the publisher a fresh one.

CloseContext ==
    /\ ctx = "live"
    /\ ctx' = "done"
    /\ UNCHANGED <<messages, created, notify, pc, op, puts, hand, seen>>

NewContext ==
    /\ ctx = "done" /\ pc[Consumer] = "out" /\ hand = NoMsg
    /\ ctx' = "live"
    /\ UNCHANGED <<messages, created, notify, pc, op, puts, hand, seen>>

-----------------------------------------------------------------------------
InitOnce(t) == CheckOnce(t) \/ CreateOnce(t)

ProducerStep(p) == InitOnce(p) \/ PushBack(p) \/ Signal(p)

ConsumerStep ==
    \/ InitOnce(Consumer)
    \/ Length \/ PeekFront \/ PeekNotified \/ PeekCancelled \/ RemoveFront

Next ==
    \/ \E p \in Producers : CallPut(p) \/ ProducerStep(p)
    \/ \E method \in {"Len", "Peek", "Commit"} : Call(method)
    \/ ConsumerStep \/ GiveUp
    \/ CloseContext \/ NewContext

SafeSpec == Init /\ [][Next]_vars

\* A goroutine inside a method is scheduled until the method returns; nobody
\* has to call one, and no context has to be closed.
Spec ==
    /\ SafeSpec
    /\ \A p \in Producers : WF_vars(ProducerStep(p))
    /\ WF_vars(ConsumerStep)

-----------------------------------------------------------------------------
TypeOK ==
    /\ messages \in Seq(Message)
    /\ created \in BOOLEAN
    /\ notify \in 0..1
    /\ ctx \in {"live", "done"}
    /\ pc \in [Threads -> {"out", "check", "create", "body", "signal", "wait"}]
    /\ op \in {"Len", "Peek", "Commit"}
    /\ puts \in [Producers -> 0..MaxPuts]
    /\ hand \in Message \union {NoMsg}
    /\ seen \in Nat

(***************************************************************************)
(* No lost wakeup (Peek's select against Put's send with a default): when  *)
(* the consumer is parked and the list is not empty, a token is waiting in *)
(* notify or a producer that has pushed is still about to send one.        *)
(***************************************************************************)
NoLostWakeup ==
    pc[Consumer] = "wait" /\ messages # <<>> =>
        notify = 1 \/ \E p \in Producers : pc[p] = "signal"

(***************************************************************************)
(* Commit takes no argument: it removes whatever is in front.  What makes  *)
(* it remove the message that Peek returned is that the message in hand    *)
(* stays in front, whatever producers do and however initOnce is raced.    *)
(***************************************************************************)
PeekedIsFront ==
    hand # NoMsg => messages # <<>> /\ hand = Head(messages)

(***************************************************************************)
(* Len is read before Peek and used after the lock is released: until the  *)
(* next Commit the number it returned is a lower bound of the list, so an  *)
(* overflow report of the publisher is never about messages that are gone. *)
(***************************************************************************)
LenIsLowerBound == seen <= Len(messages)

(***************************************************************************)
(* The queue implements the mailbox: puts take effect at PushBack, Peek    *)
(* asks when it is called and is answered by PeekFront or PeekCancelled.   *)
(***************************************************************************)
PeekPending == op = "Peek" /\ pc[Consumer] # "out"

Box == INSTANCE Mailbox
         WITH buffer <- messages, asking <- PeekPending

ImplementsMailbox == Box!Spec
==============================================================================
