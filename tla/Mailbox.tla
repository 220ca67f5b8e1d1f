------------------------------- MODULE Mailbox -------------------------------
(***************************************************************************)
(* What internal.MessageQueue promises to the rest of the library, with no *)
(* lock, no channel and no initialisation in sight: an unbounded FIFO      *)
(* buffer whose only consumer looks at the oldest message, keeps it in     *)
(* hand while it tries to publish it, and removes it only once it is done. *)
(* A consumer that asks is answered as long as there is something to give, *)
(* and a consumer whose context is closed is never left waiting.           *)
(*                                                                         *)
(* The queue implements it (MessageQueue, ImplementsMailbox), and the      *)
(* publisher takes no step that it forbids (PublisherProofs): what is      *)
(* shown of the publisher with this queue holds of it with that one.       *)
(***************************************************************************)
EXTENDS Naturals, Sequences

CONSTANTS Message,  \* everything that may be put into the buffer
          NoMsg     \* "no message in hand", not a message

VARIABLES buffer,   \* the messages put and not yet committed, oldest first
          hand,     \* the message the consumer was given, or NoMsg
          asking,   \* the consumer is inside Peek
          ctx       \* the context the consumer passes to Peek: live or done

mailboxVars == <<buffer, hand, asking, ctx>>

Init ==
    /\ buffer = <<>>
    /\ hand = NoMsg
    /\ asking = FALSE
    /\ ctx \in {"live", "done"}

Put(m) ==
    /\ buffer' = Append(buffer, m)
    /\ UNCHANGED <<hand, asking, ctx>>

Ask ==
    /\ ~asking /\ hand = NoMsg
    /\ asking' = TRUE
    /\ UNCHANGED <<buffer, hand, ctx>>

Deliver ==
    /\ asking /\ buffer # <<>>
    /\ hand' = Head(buffer)
    /\ asking' = FALSE
    /\ UNCHANGED <<buffer, ctx>>

\* The context is closed: Peek returns its error instead of a message.
GiveUp ==
    /\ asking /\ ctx = "done"
    /\ asking' = FALSE
    /\ UNCHANGED <<buffer, hand, ctx>>

\* A consumer that lets go of its message may close its context by leaving.
Commit ==
    /\ hand # NoMsg
    /\ buffer' = Tail(buffer)
    /\ hand' = NoMsg
    /\ ctx' \in {ctx, "done"}
    /\ UNCHANGED asking

\* Publishing failed: the message stays in the buffer for the next connection.
Release ==
    /\ hand # NoMsg
    /\ hand' = NoMsg
    /\ ctx' \in {ctx, "done"}
    /\ UNCHANGED <<buffer, asking>>

Close ==
    /\ ctx = "live"
    /\ ctx' = "done"
    /\ UNCHANGED <<buffer, hand, asking>>

Reopen ==
    /\ ctx = "done" /\ ~asking /\ hand = NoMsg
    /\ ctx' = "live"
    /\ UNCHANGED <<buffer, hand, asking>>

Next ==
    \/ \E m \in Message : Put(m)
    \/ Ask \/ Deliver \/ GiveUp
    \/ Commit \/ Release
    \/ Close \/ Reopen

SafeSpec == Init /\ [][Next]_mailboxVars

Spec == SafeSpec /\ WF_mailboxVars(Deliver \/ GiveUp)
==============================================================================
