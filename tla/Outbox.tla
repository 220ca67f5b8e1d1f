------------------------------- MODULE Outbox -------------------------------
(***************************************************************************)
(* What a Writer promises to the goroutines that publish through it, with  *)
(* no connection in sight: messages are written to the broker in the order *)
(* in which they were accepted, each exactly once; only a message sent     *)
(* with TrySend may be refused instead, when its turn comes, and a refused *)
(* message is never written.                                               *)
(***************************************************************************)
EXTENDS Sequences

CONSTANT Messages

VARIABLES backlog,  \* messages accepted and not yet settled, oldest first
          tryOnly,  \* those that may be refused
          written,  \* messages written since they were last accepted
          refused   \* messages refused since they were last accepted

outboxVars == <<backlog, tryOnly, written, refused>>

Pending == {backlog[i] : i \in DOMAIN backlog}

Init ==
    /\ backlog = <<>> /\ tryOnly = {}
    /\ written = {} /\ refused = {}

Accept(m) ==
    /\ m \notin Pending
    /\ backlog' = Append(backlog, m)
    /\ tryOnly' \in {tryOnly \union {m}, tryOnly \ {m}}
    /\ written' = written \ {m} /\ refused' = refused \ {m}

\* A message turned down before it is accepted leaves no trace.
Decline(m) ==
    /\ m \notin Pending
    /\ tryOnly' = tryOnly \ {m}
    /\ written' = written \ {m} /\ refused' = refused \ {m}
    /\ UNCHANGED backlog

Write(m) ==
    /\ backlog # <<>> /\ m = Head(backlog)
    /\ m \notin written \union refused
    /\ backlog' = Tail(backlog)
    /\ written' = written \union {m}
    /\ UNCHANGED <<tryOnly, refused>>

Refuse(m) ==
    /\ backlog # <<>> /\ m = Head(backlog)
    /\ m \in tryOnly /\ m \notin written \union refused
    /\ backlog' = Tail(backlog)
    /\ refused' = refused \union {m}
    /\ UNCHANGED <<tryOnly, written>>

Next == \E m \in Messages : Accept(m) \/ Decline(m) \/ Write(m) \/ Refuse(m)

Spec == Init /\ [][Next]_outboxVars
==============================================================================
