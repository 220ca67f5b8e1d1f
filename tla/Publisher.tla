------------------------------ MODULE Publisher ------------------------------
(***************************************************************************)
(* writer.go: the goroutines that publish messages, the publisher that     *)
(* owns the channel of the current connection and hands them to ch.Publish *)
(* one by one, and what the connection does meanwhile.  The queue between  *)
(* them is used through what MessageQueue is shown to implement (Mailbox). *)
(*                                                                         *)
(* A member of Messages stands for a message and the call that sends it,   *)
(* and is used again once the message has left the queue and the call has  *)
(* returned: sends, losses and reconnections go on for ever.               *)
(*                                                                         *)
(* A message is written when ch.Publish has returned nil: the library asks *)
(* the broker for no confirmation, and link stays up until the client      *)
(* library has noticed that the connection is lost.                        *)
(*                                                                         *)
(* Definitions named X_... are faulty variants of X, used to see that the  *)
(* properties reject them; they are not part of the specification.         *)
(***************************************************************************)
EXTENDS Naturals, Sequences

CONSTANTS Messages,    \* messages that may be outstanding at the same time
          NoMsg,       \* "no message in hand"
          MaxSize,     \* overflow.MaxSize
          HasHandler   \* is overflow.Handler set

ASSUME PublisherAssumption ==
    /\ NoMsg \notin Messages
    /\ MaxSize \in Nat
    /\ HasHandler \in BOOLEAN

VARIABLES gctx,     \* the context of the broker, and of TrySend
          ctx,      \* the context of the connection, given to ChannelReady
          link,     \* the channel: none, up or broken
          queue,    \* pub.stream, front first
          kind,     \* how each message was last sent
          poison,   \* messages that the client library cannot encode
          call,     \* what the caller is doing: idle, waiting, trying
          verdict,  \* what the call returned, none while it has not
          closed,   \* messages whose Done channel is closed
          answer,   \* what is buffered in the Try channel of each message
          pub,      \* where ChannelReady is, off if it is not running
          hand,     \* the message that Peek returned
          failed,   \* err of the last ch.Publish is not nil
          size,     \* n, the last length read
          overflow, \* the local flag of ChannelReady
          written, refused \* messages written, refused since last accepted

netVars    == <<gctx, ctx, link>>
callVars   == <<kind, poison, call, verdict>>
signalVars == <<closed, answer>>
loopVars   == <<hand, failed, size, overflow>>
fateVars   == <<written, refused>>
vars == <<netVars, queue, callVars, signalVars, pub, loopVars, fateVars>>

Queued == {queue[i] : i \in DOMAIN queue}

Init ==
    /\ gctx = "live" /\ ctx = "done" /\ link = "none"
    /\ queue = <<>>
    /\ kind = [m \in Messages |-> "send"]
    /\ poison = {}
    /\ call = [m \in Messages |-> "idle"]
    /\ verdict = [m \in Messages |-> "none"]
    /\ closed = {} /\ answer = [m \in Messages |-> "none"]
    /\ pub = "off" /\ hand = NoMsg /\ failed = FALSE
    /\ size = 0 /\ overflow = FALSE
    /\ written = {} /\ refused = {}

-----------------------------------------------------------------------------
\* Publish, PublishWait and TrySend.

\* A fresh message: its channels, and nothing known about it yet.
Fresh(m, k, v) ==
    /\ call[m] = "idle" /\ m \notin Queued
    /\ kind' = [kind EXCEPT ![m] = k]
    /\ poison' \in {poison \union {m}, poison \ {m}}
    /\ verdict' = [verdict EXCEPT ![m] = v]
    /\ answer' = [answer EXCEPT ![m] = "none"]
    /\ written' = written \ {m} /\ refused' = refused \ {m}

Publish(m) ==
    /\ Fresh(m, "send", "none")
    /\ closed' = closed \ {m}
    /\ queue' = Append(queue, m)
    /\ UNCHANGED <<netVars, call, pub, loopVars>>

PublishWait(m) ==
    /\ Fresh(m, "wait", "none")
    /\ closed' = closed \ {m}
    /\ queue' = Append(queue, m)
    /\ call' = [call EXCEPT ![m] = "waiting"]
    /\ UNCHANGED <<netVars, pub, loopVars>>

TrySend(m) ==
    /\ Fresh(m, "try", "none")
    /\ closed' = closed \ {m}
    /\ queue' = Append(queue, m)
    /\ call' = [call EXCEPT ![m] = "trying"]
    /\ UNCHANGED <<netVars, pub, loopVars>>

\* processMessage is false: Publish closes Done and returns an error,
\* TrySend returns nil.
Reject(m) ==
    /\ \E v \in {"error", "ok"} : Fresh(m, "rejected", v)
    /\ closed' = closed \union {m}
    /\ UNCHANGED <<netVars, queue, call, pub, loopVars>>

Return(m, v) ==
    /\ call' = [call EXCEPT ![m] = "idle"]
    /\ verdict' = [verdict EXCEPT ![m] = v]
    /\ UNCHANGED <<netVars, queue, kind, poison, signalVars, pub, loopVars, fateVars>>

WaitDone(m)    == call[m] = "waiting" /\ m \in closed /\ Return(m, "ok")
WaitExpires(m) == call[m] = "waiting" /\ Return(m, "expired")

TryAnswered(m) ==
    call[m] = "trying" /\ answer[m] # "none" /\ Return(m, answer[m])

TryAborted(m)  == call[m] = "trying" /\ gctx = "done" /\ Return(m, "expired")

-----------------------------------------------------------------------------
\* ChannelReady.  Leaving it closes the channel and the child context.

Leave ==
    /\ pub' = "off" /\ hand' = NoMsg
    /\ link' = "none" /\ ctx' = "done"

Connect ==
    /\ pub = "off" /\ gctx = "live"
    /\ pub' = "declare" /\ link' = "up" /\ ctx' = "live"
    /\ UNCHANGED <<gctx, queue, callVars, signalVars, loopVars, fateVars>>

DeclareSucceeds ==
    /\ pub = "declare" /\ link = "up"
    /\ pub' = "len" /\ overflow' = FALSE
    /\ UNCHANGED <<netVars, queue, callVars, signalVars, hand, failed, size, fateVars>>

DeclareFails ==
    /\ pub = "declare" /\ Leave
    /\ UNCHANGED <<gctx, queue, callVars, signalVars, failed, size, overflow, fateVars>>

Measure ==
    /\ pub = "len"
    /\ size' = Len(queue)
    /\ pub' = "check"
    /\ UNCHANGED <<netVars, queue, callVars, signalVars, hand, failed, overflow, fateVars>>

\* The limit itself still counts as below the limit.
BelowLimit_OffByOne ==
    /\ pub = "check" /\ size <= MaxSize
    /\ overflow' = FALSE
    /\ pub' = "peek"
    /\ UNCHANGED <<netVars, queue, callVars, signalVars, hand, failed, size, fateVars>>

BelowLimit ==
    /\ pub = "check" /\ size < MaxSize
    /\ overflow' = FALSE
    /\ pub' = "peek"
    /\ UNCHANGED <<netVars, queue, callVars, signalVars, hand, failed, size, fateVars>>

\* The test of the length is the wrong way round, and the flag is not looked at.
ReportOverflow_Inverted ==
    /\ pub = "check" /\ size < MaxSize /\ HasHandler
    /\ overflow' = TRUE
    /\ pub' = "peek"
    /\ UNCHANGED <<netVars, queue, callVars, signalVars, hand, failed, size, fateVars>>

ReportOverflow ==
    /\ pub = "check" /\ size >= MaxSize /\ ~overflow /\ HasHandler
    /\ overflow' = TRUE
    /\ pub' = "peek"
    /\ UNCHANGED <<netVars, queue, callVars, signalVars, hand, failed, size, fateVars>>

NothingToReport ==
    /\ pub = "check" /\ size >= MaxSize /\ (overflow \/ ~HasHandler)
    /\ pub' = "peek"
    /\ UNCHANGED <<netVars, queue, callVars, signalVars, loopVars, fateVars>>

\* Peek looks at the context only when there is nothing to return.
PeekFront ==
    /\ pub = "peek" /\ queue # <<>>
    /\ hand' = Head(queue)
    /\ pub' = "publish"
    /\ UNCHANGED <<netVars, queue, callVars, signalVars, failed, size, overflow, fateVars>>

Park ==
    /\ pub = "peek" /\ queue = <<>>
    /\ pub' = "parked"
    /\ UNCHANGED <<netVars, queue, callVars, signalVars, loopVars, fateVars>>

Wake ==
    /\ pub = "parked" /\ queue # <<>>
    /\ pub' = "peek"
    /\ UNCHANGED <<netVars, queue, callVars, signalVars, loopVars, fateVars>>

PeekCancelled ==
    /\ pub = "parked" /\ ctx = "done" /\ Leave
    /\ UNCHANGED <<gctx, queue, callVars, signalVars, failed, size, overflow, fateVars>>

\* A message that cannot be encoded fails with it, whatever the channel.
CannotPublish == link = "broken" \/ hand \in poison

PublishSucceeds ==
    /\ pub = "publish" /\ link = "up" /\ hand \notin poison
    /\ failed' = FALSE
    /\ written' = written \union {hand}
    /\ pub' = IF kind[hand] = "try" THEN "answer" ELSE "close"
    /\ UNCHANGED <<netVars, queue, callVars, signalVars, hand, size, overflow, refused>>

TryFails ==
    /\ pub = "publish" /\ CannotPublish /\ kind[hand] = "try"
    /\ failed' = TRUE
    /\ refused' = refused \union {hand}
    /\ pub' = "answer"
    /\ UNCHANGED <<netVars, queue, callVars, signalVars, hand, size, overflow, written>>

\* Commit before the error is looked at.
PublishFails_Drop ==
    /\ pub = "publish" /\ CannotPublish /\ kind[hand] # "try"
    /\ failed' = TRUE /\ Leave
    /\ queue' = Tail(queue)
    /\ UNCHANGED <<gctx, callVars, signalVars, size, overflow, fateVars>>

\* "return err" leaves the message in front of the queue.
PublishFails ==
    /\ pub = "publish" /\ CannotPublish /\ kind[hand] # "try"
    /\ failed' = TRUE /\ Leave
    /\ UNCHANGED <<gctx, queue, callVars, signalVars, size, overflow, fateVars>>

Answer_Optimistic ==
    /\ pub = "answer"
    /\ answer' = [answer EXCEPT ![hand] = "ok"]
    /\ pub' = "commit"
    /\ UNCHANGED <<netVars, queue, callVars, closed, loopVars, fateVars>>

Answer ==
    /\ pub = "answer"
    /\ answer' = [answer EXCEPT ![hand] = IF failed THEN "error" ELSE "ok"]
    /\ pub' = "commit"
    /\ UNCHANGED <<netVars, queue, callVars, closed, loopVars, fateVars>>

CloseDone_Forgotten ==
    /\ pub = "close"
    /\ pub' = "commit"
    /\ UNCHANGED <<netVars, queue, callVars, signalVars, loopVars, fateVars>>

\* The message is let go before it is settled.
CloseDone_LetGo ==
    /\ pub = "close"
    /\ hand' = NoMsg /\ closed' = closed \union {NoMsg}
    /\ pub' = "commit"
    /\ UNCHANGED <<netVars, queue, callVars, answer, failed, size, overflow, fateVars>>

CloseDone ==
    /\ pub = "close"
    /\ closed' = closed \union {hand}
    /\ pub' = "commit"
    /\ UNCHANGED <<netVars, queue, callVars, answer, loopVars, fateVars>>

\* Commit only what was published: a failed TrySend would be tried again.
Commit_KeepFailed ==
    /\ pub = "commit"
    /\ queue' = IF failed THEN queue ELSE Tail(queue)
    /\ IF failed
         THEN Leave /\ UNCHANGED gctx
         ELSE pub' = "len" /\ hand' = NoMsg /\ UNCHANGED netVars
    /\ UNCHANGED <<callVars, signalVars, failed, size, overflow, fateVars>>

Commit ==
    /\ pub = "commit"
    /\ queue' = Tail(queue)
    /\ IF failed
         THEN Leave /\ UNCHANGED gctx
         ELSE pub' = "len" /\ hand' = NoMsg /\ UNCHANGED netVars
    /\ UNCHANGED <<callVars, signalVars, failed, size, overflow, fateVars>>

-----------------------------------------------------------------------------
\* The connection, the other handlers and the application.

BreakLink ==
    /\ link = "up"
    /\ link' = "broken"
    /\ UNCHANGED <<gctx, ctx, queue, callVars, signalVars, pub, loopVars, fateVars>>

CancelChild ==
    /\ ctx = "live"
    /\ ctx' = "done"
    /\ UNCHANGED <<gctx, link, queue, callVars, signalVars, pub, loopVars, fateVars>>

Shutdown ==
    /\ gctx = "live"
    /\ gctx' = "done" /\ ctx' = "done"
    /\ UNCHANGED <<link, queue, callVars, signalVars, pub, loopVars, fateVars>>

-----------------------------------------------------------------------------
Send(m) == Publish(m) \/ PublishWait(m) \/ TrySend(m) \/ Reject(m)

Caller(m) == WaitDone(m) \/ TryAnswered(m) \/ TryAborted(m)

Loop ==
    \/ DeclareSucceeds \/ DeclareFails
    \/ Measure \/ BelowLimit \/ ReportOverflow \/ NothingToReport
    \/ PeekFront \/ Park \/ Wake \/ PeekCancelled
    \/ PublishSucceeds \/ TryFails \/ PublishFails
    \/ Answer \/ CloseDone \/ Commit

Next ==
    \/ \E m \in Messages : Send(m) \/ Caller(m) \/ WaitExpires(m)
    \/ Connect \/ Loop
    \/ BreakLink \/ CancelChild \/ Shutdown

SafeSpec == Init /\ [][Next]_vars

(***************************************************************************)
(* Goroutines that can run do run, and the server reconnects while its     *)
(* context is live.  Callers need not call, nor contexts be closed.        *)
(***************************************************************************)
Spec ==
    /\ SafeSpec
    /\ WF_vars(Connect) /\ WF_vars(Loop)
    /\ \A m \in Messages : WF_vars(Caller(m))

-----------------------------------------------------------------------------
TypeOK ==
    /\ gctx \in {"live", "done"} /\ ctx \in {"live", "done"}
    /\ link \in {"none", "up", "broken"}
    /\ queue \in Seq(Messages)
    /\ kind \in [Messages -> {"send", "wait", "try", "rejected"}]
    /\ poison \subseteq Messages
    /\ call \in [Messages -> {"idle", "waiting", "trying"}]
    /\ verdict \in [Messages -> {"none", "ok", "error", "expired"}]
    /\ closed \subseteq Messages
    /\ answer \in [Messages -> {"none", "ok", "error"}]
    /\ pub \in {"off", "declare", "len", "check", "peek", "parked", "publish",
                "answer", "close", "commit"}
    /\ hand \in Messages \union {NoMsg}
    /\ failed \in BOOLEAN
    /\ size \in Nat /\ overflow \in BOOLEAN
    /\ written \subseteq Messages /\ refused \subseteq Messages

(***************************************************************************)
(* What a call returns is true of the message, in whatever order the       *)
(* publisher, the caller and the loss of the connection take their steps:  *)
(* nil means that ch.Publish took it, an error of TrySend that it never    *)
(* did and never will.  (TrySend also returns nil for a message that its   *)
(* own middleware rejected.)                                               *)
(***************************************************************************)
VerdictIsTrue ==
    \A m \in Messages : kind[m] # "rejected" =>
        /\ verdict[m] = "ok" => m \in written
        /\ verdict[m] = "error" => m \in refused /\ m \notin written

(***************************************************************************)
(* close(msg.Done) would panic and msg.Try <- err would block for ever if  *)
(* a message that was settled could be peeked again.                       *)
(***************************************************************************)
SettledOnce ==
    /\ pub = "close" => hand \notin closed
    /\ pub = "answer" => answer[hand] = "none"

(***************************************************************************)
(* The length is read before it is compared and reported, and writers go   *)
(* on meanwhile: the handler is still never told of a backlog that is no   *)
(* longer there.                                                           *)
(***************************************************************************)
ReportNeverStale == overflow' /\ ~overflow => Len(queue) >= MaxSize
OverflowReportsAreTrue == [][ReportNeverStale]_vars

(***************************************************************************)
(* The flag survives passes and is reset in two places: still nothing is   *)
(* taken out of a backlog that was measured at the limit before the        *)
(* handler was told of it, on this connection and since it was last below. *)
(***************************************************************************)
BacklogReported ==
    HasHandler /\ pub \in {"peek", "parked", "publish", "answer", "close", "commit"}
        => (overflow <=> size >= MaxSize)

(***************************************************************************)
(* Once per message and in order, across any number of connections: the    *)
(* publisher implements the outbox.  A message leaves the abstract backlog *)
(* when ch.Publish takes it (or TrySend gives it up), not at Commit.       *)
(***************************************************************************)
Backlog == IF pub \in {"answer", "close", "commit"} THEN Tail(queue) ELSE queue

Out == INSTANCE Outbox
         WITH backlog <- Backlog, tryOnly <- {m \in Messages : kind[m] = "try"}

ImplementsOutbox == Out!Spec

\* The queue, as the publisher sees it: it asks when it calls Peek.
Box == INSTANCE Mailbox
         WITH Message <- Messages, buffer <- queue, asking <- pub \in {"peek", "parked"}

(***************************************************************************)
(* Liveness, once connections are no longer lost and declarations no       *)
(* longer refused: a caller waits for ever only if the broker is in use    *)
(* and a message that cannot be published, and that nobody sent with       *)
(* TrySend, is in the queue: it is never given up, and nothing passes it.  *)
(* PublishWait of a context that never ends also waits when the broker is  *)
(* shut down, TrySend does not.                                            *)
(***************************************************************************)
NetworkSettles == <>[][~BreakLink /\ ~DeclareFails]_vars

Clogged == \E m \in Queued \cap poison : kind[m] # "try"

CallersReturn ==
    NetworkSettles => \A m \in Messages :
        /\ call[m] = "waiting" ~> call[m] = "idle" \/ gctx = "done" \/ Clogged
        /\ call[m] = "trying" ~> call[m] = "idle" \/ (gctx = "live" /\ Clogged)
==============================================================================
