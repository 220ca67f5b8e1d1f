-------------------------- MODULE PublisherProofs --------------------------
(***************************************************************************)
(* Proofs of the safety of Publisher, for any number of messages, any      *)
(* limit, and with or without an overflow handler.                         *)
(*                                                                         *)
(* The argument rests on one picture: the messages in the queue are        *)
(* distinct, the one in hand is in front, and nothing at all has become of *)
(* a message that is in the backlog of the outbox (Untouched).             *)
(*                                                                         *)
(* NoCallerForgotten is what CallersReturn rests on: a call that has not   *)
(* returned has a message in the queue until its own signal (SignalFirst). *)
(* PublisherUsesMailbox shows that the queue is used as Mailbox allows.    *)
(***************************************************************************)
EXTENDS Publisher, SequenceTheorems, TLAPS

Elems(q)     == {q[i] : i \in DOMAIN q}
NoRepeats(q) == \A i, j \in DOMAIN q : q[i] = q[j] => i = j

Settling == pub \in {"answer", "close", "commit"}

\* What Peek returned is in front until Commit removes it.
HandIsFront ==
    /\ NoRepeats(queue)
    /\ pub \in {"publish", "answer", "close", "commit"} =>
           queue # <<>> /\ hand = Head(queue)

Untouched ==
    \A m \in Messages : m \in Queued =>
        /\ kind[m] # "rejected"
        /\ ~(Settling /\ m = hand) =>
              /\ m \notin closed \union written \union refused
              /\ answer[m] = "none" /\ verdict[m] \notin {"ok", "error"}

\* The signals of a message follow its fate.
SignalsAreTrue ==
    /\ \A m \in Messages :
         /\ m \in closed /\ kind[m] # "rejected" => m \in written
         /\ answer[m] = "ok" => m \in written
         /\ answer[m] = "error" => m \in refused /\ m \notin written
    /\ pub = "close" => hand \in written
    /\ pub = "answer" => IF failed THEN hand \in refused /\ hand \notin written
                                   ELSE hand \in written

MeasuredIsThere == pub = "check" => size <= Len(queue)

IInv ==
    /\ TypeOK
    /\ HandIsFront /\ Untouched /\ SignalsAreTrue
    /\ VerdictIsTrue /\ SettledOnce
    /\ MeasuredIsThere /\ BacklogReported

-----------------------------------------------------------------------------
\* Put and Commit, on sequences without repetitions.
LEMMA AppendElems ==
    ASSUME NEW S, NEW q \in Seq(S), NEW m \in S
    PROVE  /\ Append(q, m) \in Seq(S) /\ Append(q, m) # <<>>
           /\ Len(Append(q, m)) = Len(q) + 1
           /\ Elems(Append(q, m)) = Elems(q) \union {m}
           /\ NoRepeats(q) /\ m \notin Elems(q) => NoRepeats(Append(q, m))
           /\ q # <<>> => /\ Head(Append(q, m)) = Head(q)
                          /\ Tail(Append(q, m)) = Append(Tail(q), m)
<1>1. /\ Append(q, m) \in Seq(S) /\ Append(q, m) # <<>>
      /\ Len(Append(q, m)) = Len(q) + 1
      /\ \A i \in 1..Len(q) : Append(q, m)[i] = q[i]
      /\ Append(q, m)[Len(q) + 1] = m
    BY AppendProperties
<1>2. DOMAIN q = 1..Len(q) /\ DOMAIN Append(q, m) = 1..(Len(q) + 1) /\ Len(q) \in Nat
    BY <1>1, LenProperties
<1>3. Elems(Append(q, m)) = Elems(q) \union {m}
    BY <1>1, <1>2 DEF Elems
<1>4. NoRepeats(q) /\ m \notin Elems(q) => NoRepeats(Append(q, m))
    BY <1>1, <1>2 DEF Elems, NoRepeats
<1>5. q # <<>> => Head(Append(q, m)) = Head(q) /\ Tail(Append(q, m)) = Append(Tail(q), m)
    OBVIOUS
<1>6. QED
    BY <1>1, <1>3, <1>4, <1>5

LEMMA TailElems ==
    ASSUME NEW S, NEW q \in Seq(S), q # <<>>
    PROVE  /\ Head(q) \in S /\ Tail(q) \in Seq(S)
           /\ Head(q) \in Elems(q)
           /\ Elems(q) = Elems(Tail(q)) \union {Head(q)}
           /\ NoRepeats(q) => NoRepeats(Tail(q)) /\ Head(q) \notin Elems(Tail(q))
<1>1. /\ Len(q) \in Nat /\ Len(q) # 0 /\ DOMAIN q = 1..Len(q)
      /\ Head(q) = q[1] /\ Head(q) \in S
      /\ Tail(q) \in Seq(S) /\ DOMAIN Tail(q) = 1..(Len(q) - 1)
      /\ \A i \in 1..(Len(q) - 1) : Tail(q)[i] = q[i + 1]
    BY LenProperties, EmptySeq, HeadTailProperties
<1>2. ASSUME NEW e \in Elems(q) PROVE e = Head(q) \/ e \in Elems(Tail(q))
    <2>1. PICK i \in 1..Len(q) : e = q[i]
        BY <1>1 DEF Elems
    <2>2. CASE i = 1
        BY <1>1, <2>1, <2>2
    <2>3. CASE i # 1
        <3>1. i - 1 \in 1..(Len(q) - 1) /\ (i - 1) + 1 = i
            BY <1>1, <2>3
        <3>2. e = Tail(q)[i - 1] /\ i - 1 \in DOMAIN Tail(q)
            BY <1>1, <2>1, <3>1
        <3>3. QED
            BY <3>2 DEF Elems
    <2>4. QED
        BY <2>2, <2>3
<1>3. ASSUME NEW e \in Elems(Tail(q)) PROVE e \in Elems(q)
    <2>1. PICK i \in 1..(Len(q) - 1) : e = Tail(q)[i]
        BY <1>1, <1>3 DEF Elems
    <2>2. e = q[i + 1] /\ i + 1 \in DOMAIN q
        BY <1>1, <2>1
    <2>3. QED
        BY <2>2 DEF Elems
<1>4. Head(q) \in Elems(q) /\ Elems(q) = Elems(Tail(q)) \union {Head(q)}
    <2>1. Head(q) \in Elems(q)
        BY <1>1 DEF Elems
    <2>2. QED
        BY <1>2, <1>3, <2>1
<1>5. NoRepeats(q) => NoRepeats(Tail(q)) /\ Head(q) \notin Elems(Tail(q))
    <2>1. SUFFICES ASSUME NoRepeats(q)
                   PROVE  /\ NoRepeats(Tail(q))
                          /\ \A i \in DOMAIN Tail(q) : Head(q) # Tail(q)[i]
        BY DEF Elems
    <2>2. \A i \in DOMAIN Tail(q) : i \in Nat /\ i + 1 \in DOMAIN q /\ Tail(q)[i] = q[i + 1]
        BY <1>1
    <2>3. NoRepeats(Tail(q))
        BY <2>1, <2>2 DEF NoRepeats
    <2>4. ASSUME NEW i \in DOMAIN Tail(q), Head(q) = Tail(q)[i] PROVE FALSE
        <3>1. q[1] = q[i + 1] /\ 1 \in DOMAIN q /\ i + 1 \in DOMAIN q
            BY <1>1, <2>2, <2>4
        <3>2. i + 1 = 1 /\ i \in 1..(Len(q) - 1)
            BY <1>1, <2>1, <3>1 DEF NoRepeats
        <3>3. QED
            BY <1>1, <3>2
    <2>5. QED
        BY <2>3, <2>4
<1>6. QED
    BY <1>1, <1>4, <1>5

LEMMA QueuedElems == Queued = Elems(queue)
BY DEF Queued, Elems

LEMMA InitInv == Init => IInv
<1> SUFFICES ASSUME Init PROVE IInv
    OBVIOUS
<1> USE PublisherAssumption DEF Init
<1>1. TypeOK
    <2>1. failed \in BOOLEAN /\ overflow \in BOOLEAN
        OBVIOUS
    <2>2. queue \in Seq(Messages)
        BY EmptySeq
    <2>3. QED
        BY <2>1, <2>2 DEF TypeOK
<1>2. HandIsFront /\ Untouched
    BY DEF HandIsFront, NoRepeats, Untouched, Queued
<1>3. SignalsAreTrue /\ VerdictIsTrue /\ SettledOnce
    BY DEF SignalsAreTrue, VerdictIsTrue, SettledOnce
<1>4. MeasuredIsThere /\ BacklogReported
    BY DEF MeasuredIsThere, BacklogReported
<1>5. QED
    BY <1>1, <1>2, <1>3, <1>4 DEF IInv

USE PublisherAssumption

\* A message that is sent joins the end of the queue.
LEMMA AcceptInv ==
    ASSUME IInv, NEW m \in Messages, Publish(m) \/ PublishWait(m) \/ TrySend(m)
    PROVE  IInv'
<1> USE DEF IInv
<1>1. /\ m \notin Queued /\ queue' = Append(queue, m)
      /\ \E k \in {"send", "wait", "try"} : kind' = [kind EXCEPT ![m] = k]
      /\ verdict' = [verdict EXCEPT ![m] = "none"]
      /\ answer' = [answer EXCEPT ![m] = "none"]
      /\ written' = written \ {m} /\ refused' = refused \ {m} /\ closed' = closed \ {m}
      /\ call' \in [Messages -> {"idle", "waiting", "trying"}]
      /\ poison' \subseteq Messages
      /\ UNCHANGED <<netVars, pub, loopVars>>
    BY DEF Publish, PublishWait, TrySend, Fresh, TypeOK
<1>2. /\ queue' \in Seq(Messages) /\ queue' # <<>> /\ Len(queue') = Len(queue) + 1
      /\ Queued' = Queued \union {m}
      /\ queue # <<>> => Head(queue') = Head(queue)
    <2>1. queue' = Append(queue, m) /\ queue \in Seq(Messages)
        BY <1>1 DEF TypeOK
    <2>2. Queued' = Elems(queue')
        BY DEF Queued, Elems
    <2>3. QED
        BY <2>1, <2>2, AppendElems, QueuedElems
<1>3. TypeOK'
    BY <1>1, <1>2 DEF TypeOK, netVars, loopVars
<1>4. HandIsFront'
    BY <1>1, <1>2, AppendElems, QueuedElems DEF HandIsFront, TypeOK, loopVars
<1>5. Settling \/ pub = "publish" => hand \in Queued
    BY TailElems, QueuedElems DEF Settling, HandIsFront, TypeOK
<1>6. Untouched'
    BY <1>1, <1>2 DEF Untouched, Settling, TypeOK, loopVars
<1>7. SignalsAreTrue'
    BY <1>1, <1>5 DEF SignalsAreTrue, Settling, TypeOK, loopVars
<1>8. VerdictIsTrue' /\ SettledOnce'
    BY <1>1, <1>5 DEF VerdictIsTrue, SettledOnce, Settling, TypeOK, loopVars
<1>9. MeasuredIsThere' /\ BacklogReported'
    BY <1>1, <1>2, LenProperties DEF MeasuredIsThere, BacklogReported, TypeOK, loopVars
<1>10. QED
    BY <1>3, <1>4, <1>6, <1>7, <1>8, <1>9

LEMMA RejectInv == ASSUME IInv, NEW m \in Messages, Reject(m) PROVE IInv'
<1> USE DEF IInv
<1>1. PICK v \in {"error", "ok"} :
        /\ m \notin Queued /\ kind' = [kind EXCEPT ![m] = "rejected"]
        /\ verdict' = [verdict EXCEPT ![m] = v]
        /\ answer' = [answer EXCEPT ![m] = "none"]
        /\ written' = written \ {m} /\ refused' = refused \ {m}
        /\ closed' = closed \union {m} /\ poison' \subseteq Messages
        /\ UNCHANGED <<netVars, queue, call, pub, loopVars>>
    BY DEF Reject, Fresh, TypeOK
<1>2. Settling \/ pub = "publish" => hand \in Queued
    BY TailElems, QueuedElems DEF Settling, HandIsFront, TypeOK
<1>3. TypeOK'
    BY <1>1 DEF TypeOK, netVars, loopVars
<1>4. HandIsFront' /\ MeasuredIsThere' /\ BacklogReported'
    BY <1>1 DEF HandIsFront, MeasuredIsThere, BacklogReported, loopVars
<1>5. Untouched'
    BY <1>1 DEF Untouched, Settling, Queued, TypeOK, loopVars
<1>6. SignalsAreTrue'
    BY <1>1, <1>2 DEF SignalsAreTrue, Settling, TypeOK, loopVars
<1>7. VerdictIsTrue' /\ SettledOnce'
    BY <1>1, <1>2 DEF VerdictIsTrue, SettledOnce, Settling, TypeOK, loopVars
<1>8. QED
    BY <1>3, <1>4, <1>5, <1>6, <1>7

\* A call returns with what its channels tell, or with the error of a context.
LEMMA CallerInv ==
    ASSUME IInv, NEW m \in Messages, Caller(m) \/ WaitExpires(m) PROVE IInv'
<1> USE DEF IInv
<1>1. PICK v \in {"ok", "error", "expired"} :
        /\ Return(m, v)
        /\ v = "ok" => m \in closed \/ answer[m] = "ok"
        /\ v = "error" => answer[m] = "error"
    BY DEF Caller, WaitExpires, WaitDone, TryAnswered, TryAborted, TypeOK
<1> USE DEF Return, netVars, signalVars, loopVars, fateVars
<1>2. TypeOK'
    BY <1>1 DEF TypeOK
<1>3. HandIsFront' /\ MeasuredIsThere' /\ BacklogReported' /\ SettledOnce'
    BY <1>1 DEF HandIsFront, MeasuredIsThere, BacklogReported, SettledOnce
<1>4. SignalsAreTrue'
    BY <1>1 DEF SignalsAreTrue
<1>5. VerdictIsTrue'
    BY <1>1 DEF SignalsAreTrue, VerdictIsTrue, TypeOK
<1>6. Untouched'
    <2>1. m \in Queued /\ ~(Settling /\ m = hand) => v = "expired"
        BY <1>1 DEF Untouched
    <2>2. QED
        BY <1>1, <2>1 DEF Untouched, Settling, Queued, TypeOK
<1>7. QED
    BY <1>2, <1>3, <1>4, <1>5, <1>6

-----------------------------------------------------------------------------
\* The steps of ChannelReady that leave messages and signals alone.
LEMMA QuietInv ==
    ASSUME IInv,
           \/ Connect \/ DeclareSucceeds \/ DeclareFails \/ Measure \/ BelowLimit
           \/ ReportOverflow \/ NothingToReport \/ Park \/ Wake \/ PeekCancelled
           \/ PublishFails \/ BreakLink \/ CancelChild \/ Shutdown \/ UNCHANGED vars
    PROVE  IInv'
<1> USE DEF IInv, Leave, netVars, callVars, signalVars, loopVars, fateVars, vars
<1>1. /\ UNCHANGED <<queue, kind, call, verdict, closed, answer, written, refused>>
      /\ \/ pub' = pub /\ hand' = hand /\ failed' = failed
         \/ pub' \notin {"publish", "answer", "close", "commit"} /\ ~Settling
    <2>1. CASE Connect \/ DeclareSucceeds \/ DeclareFails \/ Measure \/ BelowLimit
        BY <2>1 DEF Connect, DeclareSucceeds, DeclareFails, Measure, BelowLimit, Settling
    <2>2. CASE ReportOverflow \/ NothingToReport \/ Park \/ Wake
        BY <2>2 DEF ReportOverflow, NothingToReport, Park, Wake, Settling
    <2>3. CASE PeekCancelled \/ PublishFails
        BY <2>3 DEF PeekCancelled, PublishFails, Settling
    <2>4. CASE BreakLink \/ CancelChild \/ Shutdown \/ UNCHANGED vars
        <3>1. UNCHANGED <<queue, callVars, signalVars, pub, loopVars, fateVars>>
            BY <2>4 DEF BreakLink, CancelChild, Shutdown
        <3>2. QED
            BY <3>1
    <2>5. QED
        BY <2>1, <2>2, <2>3, <2>4
<1>2. Len(queue) \in Nat
    BY LenProperties DEF TypeOK
<1>3. TypeOK'
    <2> USE DEF TypeOK
    <2>1. CASE Connect \/ DeclareSucceeds \/ DeclareFails \/ Measure
        BY <1>2, <2>1 DEF Connect, DeclareSucceeds, DeclareFails, Measure
    <2>2. CASE BelowLimit \/ ReportOverflow \/ NothingToReport
        BY <2>2 DEF BelowLimit, ReportOverflow, NothingToReport
    <2>3. CASE Park \/ Wake \/ PeekCancelled \/ PublishFails
        BY <2>3 DEF Park, Wake, PeekCancelled, PublishFails
    <2>4. CASE BreakLink \/ CancelChild \/ Shutdown
        <3>1. UNCHANGED <<queue, callVars, signalVars, pub, loopVars, fateVars>>
            BY <2>4 DEF BreakLink, CancelChild, Shutdown
        <3>2. /\ gctx' \in {"live", "done"} /\ ctx' \in {"live", "done"}
              /\ link' \in {"none", "up", "broken"}
            BY <2>4 DEF BreakLink, CancelChild, Shutdown
        <3>3. QED
            BY <3>1, <3>2
    <2>5. CASE UNCHANGED vars
        BY <2>5
    <2>6. QED
        BY <2>1, <2>2, <2>3, <2>4, <2>5
<1>4. HandIsFront'
    BY <1>1 DEF HandIsFront
<1>5. Untouched'
    BY <1>1 DEF Untouched, Settling, Queued
<1>6. SignalsAreTrue' /\ VerdictIsTrue' /\ SettledOnce'
    BY <1>1 DEF SignalsAreTrue, VerdictIsTrue, SettledOnce
<1>7. MeasuredIsThere'
    BY <1>2 DEF MeasuredIsThere, Connect, DeclareSucceeds, DeclareFails, Measure,
           BelowLimit, ReportOverflow, NothingToReport, Park, Wake, PeekCancelled,
           PublishFails, BreakLink, CancelChild, Shutdown
<1>8. BacklogReported'
    BY <1>2 DEF TypeOK, BacklogReported, Connect, DeclareSucceeds, DeclareFails, Measure,
           BelowLimit, ReportOverflow, NothingToReport, Park, Wake, PeekCancelled,
           PublishFails, BreakLink, CancelChild, Shutdown
<1>9. QED
    BY <1>3, <1>4, <1>5, <1>6, <1>7, <1>8

LEMMA PeekInv == ASSUME IInv, PeekFront PROVE IInv'
<1>1. Head(queue) \in Messages
    BY TailElems DEF IInv, TypeOK, PeekFront
<1>2. QED
    BY <1>1 DEF IInv, PeekFront, TypeOK, HandIsFront, Untouched, Settling, Queued,
           SignalsAreTrue, VerdictIsTrue, SettledOnce, MeasuredIsThere,
           BacklogReported, netVars, callVars, signalVars, fateVars

\* Publishing, and telling whoever waits.
LEMMA FateInv ==
    ASSUME IInv, PublishSucceeds \/ TryFails \/ Answer \/ CloseDone
    PROVE  IInv'
<1> USE DEF IInv, netVars, callVars, signalVars, loopVars, fateVars
<1>1. hand \in Messages /\ hand \in Queued
    BY TailElems, QueuedElems
    DEF PublishSucceeds, TryFails, Answer, CloseDone, HandIsFront, TypeOK
<1>2. UNCHANGED <<netVars, queue, callVars, hand, size, overflow>>
    BY DEF PublishSucceeds, TryFails, Answer, CloseDone
<1>3. HandIsFront' /\ MeasuredIsThere' /\ BacklogReported'
    BY <1>2 DEF PublishSucceeds, TryFails, Answer, CloseDone,
           HandIsFront, MeasuredIsThere, BacklogReported
<1>4. CASE PublishSucceeds \/ TryFails
    <2>1. /\ hand \notin closed \union written \union refused
          /\ answer[hand] = "none" /\ verdict[hand] \notin {"ok", "error"}
        BY <1>1, <1>4 DEF Untouched, Settling, PublishSucceeds, TryFails
    <2>2. TypeOK'
        BY <1>1, <1>4 DEF TypeOK, PublishSucceeds, TryFails
    <2>3. Untouched'
        BY <1>2, <1>4 DEF Untouched, Settling, Queued, PublishSucceeds, TryFails
    <2>4. SignalsAreTrue' /\ VerdictIsTrue' /\ SettledOnce'
        BY <1>1, <1>4, <2>1
        DEF SignalsAreTrue, VerdictIsTrue, SettledOnce, PublishSucceeds, TryFails
    <2>5. QED
        BY <1>3, <2>2, <2>3, <2>4
<1>5. CASE Answer \/ CloseDone
    <2>1. TypeOK'
        BY <1>1, <1>5 DEF TypeOK, Answer, CloseDone
    <2>2. Untouched'
        BY <1>2, <1>5 DEF Untouched, Settling, Queued, TypeOK, Answer, CloseDone
    <2>3. SignalsAreTrue' /\ VerdictIsTrue' /\ SettledOnce'
        BY <1>1, <1>5
        DEF SignalsAreTrue, VerdictIsTrue, SettledOnce, TypeOK, Answer, CloseDone
    <2>4. QED
        BY <1>3, <2>1, <2>2, <2>3
<1>6. QED
    BY <1>4, <1>5

LEMMA CommitInv == ASSUME IInv, Commit PROVE IInv'
<1> USE DEF IInv, netVars, callVars, signalVars, fateVars, Leave
<1>1. /\ Tail(queue) \in Seq(Messages) /\ NoRepeats(Tail(queue))
      /\ \A m \in Elems(Tail(queue)) : m \in Queued /\ m # hand
    BY TailElems, QueuedElems DEF Commit, HandIsFront, TypeOK
<1>2. Queued' = Elems(Tail(queue))
    BY DEF Commit, Queued, Elems
<1>3. TypeOK'
    BY <1>1 DEF Commit, TypeOK
<1>4. HandIsFront'
    BY <1>1 DEF Commit, HandIsFront
<1>5. Untouched'
    BY <1>1, <1>2 DEF Commit, Untouched, Settling
<1>6. SignalsAreTrue' /\ VerdictIsTrue' /\ SettledOnce'
    BY DEF Commit, SignalsAreTrue, VerdictIsTrue, SettledOnce
<1>7. MeasuredIsThere' /\ BacklogReported'
    BY DEF Commit, MeasuredIsThere, BacklogReported
<1>8. QED
    BY <1>3, <1>4, <1>5, <1>6, <1>7

LEMMA StepInv == IInv /\ [Next]_vars => IInv'
BY AcceptInv, RejectInv, CallerInv, QuietInv, PeekInv, FateInv, CommitInv
DEF Next, Send, Loop

THEOREM Invariance == Spec => []IInv
<1>1. QED
    BY InitInv, StepInv, PTL DEF Spec, SafeSpec

-----------------------------------------------------------------------------
(* The variables keep their types in every run of the publisher. *)
THEOREM TypeCorrect == Spec => []TypeOK
<1>1. IInv => TypeOK
    BY DEF IInv
<1>2. QED
    BY <1>1, Invariance, PTL

(* What Publish, PublishWait and TrySend return is what became of the message. *)
THEOREM VerdictsTrue == Spec => []VerdictIsTrue
<1>1. IInv => VerdictIsTrue
    BY DEF IInv
<1>2. QED
    BY <1>1, Invariance, PTL

(* Done is closed once and Try answered once: no panic, no blocked publisher. *)
THEOREM SettlesOnce == Spec => []SettledOnce
<1>1. IInv => SettledOnce
    BY DEF IInv
<1>2. QED
    BY <1>1, Invariance, PTL

(* The overflow flag is never stale when a message is handed to the broker. *)
THEOREM OverflowKnown == Spec => []BacklogReported
<1>1. IInv => BacklogReported
    BY DEF IInv
<1>2. QED
    BY <1>1, Invariance, PTL

(* What the handler is told of is still in the queue. *)
THEOREM ReportsTrue == Spec => OverflowReportsAreTrue
<1>1. IInv /\ [Next]_vars => [ReportNeverStale]_vars
    <2> SUFFICES ASSUME IInv, [Next]_vars, overflow', ~overflow
                 PROVE  Len(queue) >= MaxSize
        BY DEF ReportNeverStale
    <2>1. ReportOverflow
        BY DEF Next, Send, Publish, PublishWait, TrySend, Reject, Caller, WaitDone,
           TryAnswered, TryAborted, WaitExpires, Return, Connect, Loop,
           DeclareSucceeds, DeclareFails, Measure, BelowLimit, NothingToReport,
           PeekFront, Park, Wake, PeekCancelled, PublishSucceeds, TryFails,
           PublishFails, Answer, CloseDone, Commit, BreakLink, CancelChild,
           Shutdown, loopVars, vars
    <2>2. size <= Len(queue) /\ size >= MaxSize /\ size \in Nat /\ Len(queue) \in Nat
        BY <2>1, LenProperties DEF IInv, MeasuredIsThere, TypeOK, ReportOverflow
    <2>3. QED
        BY <2>2
<1>2. QED
    BY <1>1, Invariance, PTL DEF Spec, SafeSpec, OverflowReportsAreTrue

-----------------------------------------------------------------------------
(* However connections come and go, the publisher is an outbox: in order, once
   each, and only TrySend is ever refused. *)
THEOREM PublisherRefinesOutbox == Spec => ImplementsOutbox
<1> DEFINE tries == {m \in Messages : kind[m] = "try"}
<1>1. Init => Out!Init
    BY DEF Init, Out!Init, Backlog
<1>2. IInv /\ [Next]_vars => [Out!Next]_(Out!outboxVars)
    <2> SUFFICES ASSUME IInv, [Next]_vars PROVE [Out!Next]_(Out!outboxVars)
        OBVIOUS
    <2> USE DEF IInv, Out!outboxVars, netVars, callVars, signalVars, loopVars, fateVars
    <2>1. Out!Pending \subseteq Queued
        <3>1. Settling => queue # <<>>
            BY DEF Settling, HandIsFront
        <3>2. CASE Settling
            BY <3>1, <3>2, TailElems, QueuedElems
            DEF Out!Pending, Backlog, Settling, Elems, TypeOK
        <3>3. CASE ~Settling
            BY <3>3 DEF Out!Pending, Backlog, Settling, Queued
        <3>4. QED
            BY <3>2, <3>3
    <2>2. ASSUME NEW m \in Messages, Publish(m) \/ PublishWait(m) \/ TrySend(m)
          PROVE  Out!Accept(m)
        <3>1. /\ m \notin Queued /\ queue' = Append(queue, m) /\ pub' = pub
              /\ \E k \in {"send", "wait", "try"} : kind' = [kind EXCEPT ![m] = k]
              /\ written' = written \ {m} /\ refused' = refused \ {m}
            BY <2>2 DEF Publish, PublishWait, TrySend, Fresh
        <3>2. Backlog' = Append(Backlog, m)
            BY <3>1, AppendElems DEF Backlog, HandIsFront, TypeOK
        <3>3. tries' \in {tries \union {m}, tries \ {m}}
            BY <3>1 DEF TypeOK
        <3>4. QED
            BY <2>1, <3>1, <3>2, <3>3 DEF Out!Accept
    <2>3. ASSUME NEW m \in Messages, Reject(m) PROVE Out!Decline(m)
        <3>1. /\ m \notin Queued /\ UNCHANGED <<queue, pub>>
              /\ kind' = [kind EXCEPT ![m] = "rejected"]
              /\ written' = written \ {m} /\ refused' = refused \ {m}
            BY <2>3 DEF Reject, Fresh
        <3>2. tries' = tries \ {m}
            BY <3>1 DEF TypeOK
        <3>3. QED
            BY <2>1, <3>1, <3>2 DEF Out!Decline, Backlog
    <2>4. CASE PublishSucceeds \/ TryFails
        <3>1. /\ hand \in Messages /\ hand \in Queued
              /\ queue # <<>> /\ hand = Head(queue) /\ pub = "publish"
            BY <2>4, TailElems, QueuedElems
            DEF PublishSucceeds, TryFails, HandIsFront, TypeOK
        <3>2. hand \notin written \union refused
            BY <3>1 DEF Untouched, Settling
        <3>3. Backlog = queue /\ Backlog' = Tail(queue)
            BY <2>4, <3>1 DEF PublishSucceeds, TryFails, Backlog
        <3>4. Out!Write(hand) \/ Out!Refuse(hand)
            BY <2>4, <3>1, <3>2, <3>3
            DEF PublishSucceeds, TryFails, Out!Write, Out!Refuse
        <3>5. QED
            BY <3>1, <3>4 DEF Out!Next
    <2>5. ASSUME NEW m \in Messages, Caller(m) \/ WaitExpires(m)
          PROVE  UNCHANGED Out!outboxVars
        BY <2>5 DEF Caller, WaitExpires, WaitDone, TryAnswered, TryAborted, Return,
               Backlog
    <2>6. CASE \/ Connect \/ DeclareSucceeds \/ DeclareFails \/ Measure \/ BelowLimit
               \/ ReportOverflow \/ NothingToReport \/ PeekFront \/ Park \/ Wake
               \/ PeekCancelled \/ PublishFails \/ Answer \/ CloseDone \/ Commit
               \/ BreakLink \/ CancelChild \/ Shutdown \/ UNCHANGED vars
        BY <2>6 DEF Connect, DeclareSucceeds, DeclareFails, Measure, BelowLimit,
               ReportOverflow, NothingToReport, PeekFront, Park, Wake, PeekCancelled,
               PublishFails, Answer, CloseDone, Commit, BreakLink, CancelChild,
               Shutdown, Leave, Backlog, vars
    <2>7. QED
        BY <2>2, <2>3, <2>4, <2>5, <2>6 DEF Next, Send, Loop, Out!Next
<1>3. QED
    BY <1>1, <1>2, Invariance, PTL DEF Spec, SafeSpec, ImplementsOutbox, Out!Spec

-----------------------------------------------------------------------------
\* Without a connection its context is closed; a message is in hand only from
\* Peek to Commit.
ConsumerTidy ==
    /\ pub = "off" => ctx = "done"
    /\ pub \notin {"publish", "answer", "close", "commit"} => hand = NoMsg

LEMMA ConsumerTidyInv == ConsumerTidy /\ [Next]_vars => ConsumerTidy'
<1> SUFFICES ASSUME ConsumerTidy, [Next]_vars PROVE ConsumerTidy'
    OBVIOUS
<1> USE DEF ConsumerTidy, netVars, callVars, signalVars, loopVars, fateVars
<1>1. ASSUME NEW m \in Messages, Send(m) \/ Caller(m) \/ WaitExpires(m)
      PROVE  ConsumerTidy'
    <2>1. UNCHANGED <<netVars, pub, loopVars>>
        BY <1>1 DEF Send, Publish, PublishWait, TrySend, Reject, Caller, WaitDone,
               WaitExpires, TryAnswered, TryAborted, Return
    <2>2. QED
        BY <2>1
<1>2. CASE \/ Connect \/ DeclareSucceeds \/ DeclareFails \/ Measure \/ BelowLimit
           \/ ReportOverflow \/ NothingToReport \/ Park \/ Wake \/ PeekCancelled
    BY <1>2 DEF Connect, DeclareSucceeds, DeclareFails, Measure, BelowLimit,
           ReportOverflow, NothingToReport, Park, Wake, PeekCancelled, Leave
<1>3. CASE \/ PeekFront \/ PublishSucceeds \/ TryFails \/ PublishFails \/ Answer
           \/ CloseDone \/ Commit
    BY <1>3 DEF PeekFront, PublishSucceeds, TryFails, PublishFails, Answer,
           CloseDone, Commit, Leave
<1>4. CASE BreakLink \/ CancelChild \/ Shutdown \/ UNCHANGED vars
    BY <1>4 DEF BreakLink, CancelChild, Shutdown, vars
<1>5. QED
    BY <1>1, <1>2, <1>3, <1>4 DEF Next, Loop

(* writer.go, ChannelReady: it puts, peeks, commits and gives up as the mailbox
   allows, and asks for nothing the mailbox does not promise; MessageQueue
   implements that mailbox, so the two modules fit together. *)
THEOREM PublisherUsesMailbox == Spec => Box!SafeSpec
<1>1. Init => ConsumerTidy /\ Box!Init
    BY DEF Init, ConsumerTidy, Box!Init
<1>2. IInv /\ ConsumerTidy /\ [Next]_vars => [Box!Next]_(Box!mailboxVars)
    <2> SUFFICES ASSUME IInv, ConsumerTidy, [Next]_vars
                 PROVE  Box!Next \/ UNCHANGED Box!mailboxVars
        OBVIOUS
    <2> USE PublisherAssumption DEF ConsumerTidy, Box!mailboxVars,
            netVars, callVars, signalVars, loopVars, fateVars
    <2>1. hand = NoMsg \/ (hand \in Messages /\ hand # NoMsg)
        BY DEF IInv, TypeOK
    <2>2. ASSUME NEW m \in Messages, Send(m)
          PROVE  Box!Put(m) \/ UNCHANGED Box!mailboxVars
        BY <2>2 DEF Send, Publish, PublishWait, TrySend, Reject, Box!Put
    <2>3. ASSUME NEW m \in Messages, Caller(m) \/ WaitExpires(m)
          PROVE  UNCHANGED Box!mailboxVars
        BY <2>3 DEF Caller, WaitDone, WaitExpires, TryAnswered, TryAborted, Return
    <2>4. CASE Connect
        BY <2>4 DEF Connect, Box!Next, Box!Reopen
    <2>5. CASE BelowLimit \/ ReportOverflow \/ NothingToReport
        BY <2>5 DEF BelowLimit, ReportOverflow, NothingToReport, Box!Next, Box!Ask
    <2>6. CASE PeekFront \/ PeekCancelled
        BY <2>6 DEF PeekFront, PeekCancelled, Leave, Box!Next, Box!Deliver, Box!GiveUp
    <2>7. CASE PublishFails \/ Commit
        <3>1. hand # NoMsg
            <4>1. queue # <<>> /\ hand = Head(queue) /\ queue \in Seq(Messages)
                BY <2>7 DEF IInv, HandIsFront, TypeOK, PublishFails, Commit
            <4>2. QED
                BY <4>1, TailElems
        <3>2. QED
            BY <2>7, <3>1 DEF PublishFails, Commit, Leave, Box!Next, Box!Release, Box!Commit
    <2>8. CASE DeclareFails \/ CancelChild \/ Shutdown
        <3>1. ctx \in {"live", "done"}
            BY DEF IInv, TypeOK
        <3>2. ctx' = "done" /\ UNCHANGED <<queue, hand>>
              /\ (pub' \in {"peek", "parked"}) = (pub \in {"peek", "parked"})
            BY <2>8 DEF DeclareFails, CancelChild, Shutdown, Leave
        <3>3. QED
            BY <3>1, <3>2 DEF Box!Next, Box!Close
    <2>9. CASE \/ DeclareSucceeds \/ Measure \/ Park \/ Wake \/ PublishSucceeds
               \/ TryFails \/ Answer \/ CloseDone \/ BreakLink \/ UNCHANGED vars
        BY <2>9 DEF DeclareSucceeds, Measure, Park, Wake, PublishSucceeds, TryFails,
               Answer, CloseDone, BreakLink, vars
    <2>10. CASE Loop
        BY <2>5, <2>6, <2>7, <2>8, <2>9, <2>10 DEF Loop
    <2>11. QED
        BY <2>2, <2>3, <2>4, <2>8, <2>9, <2>10 DEF Next, Box!Next
<1>3. QED
    BY <1>1, <1>2, ConsumerTidyInv, Invariance, PTL DEF Spec, SafeSpec, Box!SafeSpec

-----------------------------------------------------------------------------
(***************************************************************************)
(* What CallersReturn rests on, without its fairness: the steps by which a *)
(* call ends are possible when they are needed.                            *)
(***************************************************************************)
MayReturn(m) ==
    \/ call[m] = "waiting" /\ m \in closed
    \/ call[m] = "trying" /\ (answer[m] # "none" \/ gctx = "done")

\* The guards of Loop: where ChannelReady is, it can go on.
LoopReady ==
    \/ pub \in {"declare", "len", "check", "peek", "answer", "close", "commit"}
    \/ pub = "parked" /\ (queue # <<>> \/ ctx = "done")
    \/ pub = "publish" /\ (CannotPublish \/ link = "up")

NobodyForgotten ==
    \A m \in Messages : call[m] # "idle" =>
        MayReturn(m) \/ (m \in Queued /\ (pub = "off" \/ LoopReady))

\* Why: the message of a call is queued until its own signal was given.
SignalFirst ==
    /\ \A m \in Messages :
         /\ call[m] = "waiting" => kind[m] = "wait" /\ (m \in Queued \/ m \in closed)
         /\ call[m] = "trying"
                => kind[m] = "try" /\ (m \in Queued \/ answer[m] # "none")
    /\ pub = "answer" => kind[hand] = "try"
    /\ pub = "close" => kind[hand] # "try"
    /\ pub = "commit" => IF kind[hand] = "try" THEN answer[hand] # "none"
                                               ELSE hand \in closed
    /\ pub # "off" => link # "none"

LEMMA SignalFirstInv == IInv /\ SignalFirst /\ [Next]_vars => SignalFirst'
<1> SUFFICES ASSUME IInv, SignalFirst, [Next]_vars PROVE SignalFirst'
    OBVIOUS
<1> USE DEF SignalFirst, netVars, callVars, signalVars, loopVars, fateVars
<1>1. pub \in {"publish", "answer", "close", "commit"} =>
          /\ queue # <<>> /\ hand = Head(queue) /\ hand \in Messages
          /\ hand \in Queued
    BY TailElems, QueuedElems DEF IInv, TypeOK, HandIsFront
<1>2. /\ kind \in [Messages -> {"send", "wait", "try", "rejected"}]
      /\ call \in [Messages -> {"idle", "waiting", "trying"}]
      /\ answer \in [Messages -> {"none", "ok", "error"}]
      /\ queue \in Seq(Messages)
    BY DEF IInv, TypeOK
<1>3. ASSUME NEW m \in Messages, Publish(m) \/ PublishWait(m) \/ TrySend(m)
      PROVE  SignalFirst'
    <2>1. /\ call[m] = "idle" /\ m \notin Queued
          /\ queue' = Append(queue, m)
          /\ closed' = closed \ {m} /\ answer' = [answer EXCEPT ![m] = "none"]
          /\ UNCHANGED <<netVars, pub, loopVars>>
        BY <1>3 DEF Publish, PublishWait, TrySend, Fresh
    <2>2. \/ kind' = [kind EXCEPT ![m] = "send"] /\ call' = call
          \/ kind' = [kind EXCEPT ![m] = "wait"] /\ call' = [call EXCEPT ![m] = "waiting"]
          \/ kind' = [kind EXCEPT ![m] = "try"] /\ call' = [call EXCEPT ![m] = "trying"]
        BY <1>3 DEF Publish, PublishWait, TrySend, Fresh
    <2>3. Queued' = Queued \union {m}
        <3>1. Queued' = Elems(queue')
            BY DEF Queued, Elems
        <3>2. QED
            BY <1>2, <2>1, <3>1, AppendElems, QueuedElems
    <2>4. QED
        BY <1>1, <1>2, <2>1, <2>2, <2>3
<1>4. ASSUME NEW m \in Messages, Reject(m) PROVE SignalFirst'
    <2>1. /\ call[m] = "idle" /\ m \notin Queued /\ UNCHANGED <<queue, call>>
          /\ kind' = [kind EXCEPT ![m] = "rejected"]
          /\ closed' = closed \union {m} /\ answer' = [answer EXCEPT ![m] = "none"]
          /\ UNCHANGED <<netVars, pub, loopVars>>
        BY <1>4 DEF Reject, Fresh
    <2>2. QED
        BY <1>1, <1>2, <2>1 DEF Queued
<1>5. ASSUME NEW m \in Messages, Caller(m) \/ WaitExpires(m) PROVE SignalFirst'
    <2>1. /\ call' = [call EXCEPT ![m] = "idle"]
          /\ UNCHANGED <<netVars, queue, kind, signalVars, pub, loopVars>>
        BY <1>5 DEF Caller, WaitDone, WaitExpires, TryAnswered, TryAborted, Return
    <2>2. QED
        BY <1>2, <2>1 DEF Queued
<1>6. CASE \/ Connect \/ DeclareSucceeds \/ DeclareFails \/ Measure \/ BelowLimit
           \/ ReportOverflow \/ NothingToReport \/ PeekFront \/ Park \/ Wake
           \/ PeekCancelled \/ PublishFails
    <2>1. UNCHANGED <<queue, callVars, signalVars>>
        BY <1>6 DEF Connect, DeclareSucceeds, DeclareFails, Measure, BelowLimit,
               ReportOverflow, NothingToReport, PeekFront, Park, Wake, PeekCancelled,
               PublishFails
    <2>2. /\ pub' \notin {"answer", "close", "commit"}
          /\ pub' = "off" \/ link' = "up" \/ (pub # "off" /\ link' = link)
        BY <1>6 DEF Connect, DeclareSucceeds, DeclareFails, Measure, BelowLimit,
               ReportOverflow, NothingToReport, PeekFront, Park, Wake, PeekCancelled,
               PublishFails, Leave
    <2>3. QED
        BY <2>1, <2>2 DEF Queued
<1>7. CASE PublishSucceeds \/ TryFails \/ Answer \/ CloseDone
    BY <1>1, <1>2, <1>7
    DEF PublishSucceeds, TryFails, Answer, CloseDone, Queued
<1>8. CASE Commit
    <2>1. /\ UNCHANGED <<callVars, signalVars>> /\ pub' \in {"len", "off"}
          /\ pub' = "off" \/ link' = link
        BY <1>8 DEF Commit, Leave
    <2>2. Queued \subseteq Queued' \union {hand}
        <3>1. Queued' = Elems(Tail(queue))
            BY <1>8 DEF Commit, Queued, Elems
        <3>2. QED
            BY <1>1, <1>2, <1>8, <3>1, TailElems, QueuedElems DEF Commit
    <2>3. QED
        BY <1>8, <2>1, <2>2 DEF Commit
<1>9. CASE BreakLink \/ CancelChild \/ Shutdown \/ UNCHANGED vars
    <2>1. /\ UNCHANGED <<queue, callVars, signalVars, pub, loopVars>>
          /\ link' = link \/ link' = "broken"
        BY <1>9 DEF BreakLink, CancelChild, Shutdown, vars
    <2>2. QED
        BY <2>1 DEF Queued
<1>10. QED
    BY <1>3, <1>4, <1>5, <1>6, <1>7, <1>8, <1>9 DEF Next, Send, Loop

(* writer.go, PublishWait and TrySend: whoever is inside one can return, or its
   message is queued and the publisher, if there is one, can take a step. *)
THEOREM NoCallerForgotten == Spec => []NobodyForgotten
<1>1. Init => SignalFirst
    BY DEF Init, SignalFirst
<1>2. IInv /\ SignalFirst => NobodyForgotten
    <2> SUFFICES ASSUME IInv, SignalFirst, NEW m \in Messages, call[m] # "idle", ~MayReturn(m)
                 PROVE  m \in Queued /\ (pub = "off" \/ LoopReady)
        BY DEF NobodyForgotten
    <2>1. call[m] \in {"waiting", "trying"} /\ link \in {"none", "up", "broken"}
        BY DEF IInv, TypeOK
    <2>2. m \in Queued
        BY <2>1 DEF SignalFirst, MayReturn
    <2>3. queue # <<>>
        BY <2>2 DEF Queued
    <2>4. pub = "publish" => CannotPublish \/ link = "up"
        BY <2>1 DEF SignalFirst, CannotPublish
    <2>5. QED
        BY <2>2, <2>3, <2>4 DEF IInv, TypeOK, LoopReady
<1>3. QED
    BY <1>1, <1>2, SignalFirstInv, Invariance, PTL DEF Spec, SafeSpec
==============================================================================
