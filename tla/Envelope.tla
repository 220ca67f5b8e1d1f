------------------------------- MODULE Envelope -------------------------------
(***************************************************************************)
(* What a message carries, as far as fluent-amqp or the broker looks at    *)
(* it, and what is done to it on its way: writer.go builds it, certs.go    *)
(* signs and validates it, requeuer.go copies it, the broker records in    *)
(* x-death why it has left a queue, and sink.go reads that record.         *)
(*                                                                         *)
(* A name of a queue, an exchange or a routing key is a sequence of its    *)
(* parts: <<>> is "", <<"work", "/requeue">> is work/requeue.  An id and a *)
(* body are sequences of bytes.                                            *)
(*                                                                         *)
(* Definitions named X_... are faulty variants of X, used to see that the  *)
(* properties reject them.                                                 *)
(***************************************************************************)
EXTENDS Integers, Sequences

CONSTANT MaxCount  \* bound of the model: x-death counts stop here

ASSUME EnvelopeAssumption == MaxCount \in Nat \ {0}

Counted(n) == IF n < MaxCount THEN n + 1 ELSE n

\* x-death has at most one entry of a queue and a reason.  sink.go looks at the
\* newest only, so the order of the others is left out.
NoDeath  == [queue |-> <<>>, why |-> "none", key |-> <<>>, count |-> 0]
NoDeaths == [entries |-> {}, newest |-> NoDeath]

\* Message.Bytes and ID on top of Writer.Prepare: persistent, no headers yet.
NewMessage(m) ==
    [id |-> <<m>>, body |-> <<m>>, key |-> <<>>, signature |-> <<>>, deaths |-> NoDeaths,
     persistent |-> TRUE]

\* messageSigner and messageValidator: the signature is of the bytes of the id
\* followed by those of the body.
Digest(msg) == msg.id \o msg.body
Signed(msg) == [msg EXCEPT !.signature = Digest(msg)]
Valid(msg)  == msg.signature = Digest(msg)

\* Requeue that takes x-death for the broker's own and leaves it out.
Requeued_NoDeaths(msg) == [msg EXCEPT !.deaths = NoDeaths, !.persistent = FALSE]

\* Requeue without its message id.
Requeued_NoId(msg) == [msg EXCEPT !.id = <<>>, !.persistent = FALSE]

\* requeue.Requeue copies field by field; the signature and x-death are headers.
\* DeliveryMode is not among the fields.
Requeued(msg) == [msg EXCEPT !.persistent = FALSE]

\* The broker dead-letters a message out of a queue: the x-death entry of this
\* queue and reason is counted and becomes the newest.
Entries(deaths, queue, why) == {d \in deaths.entries : d.queue = queue /\ d.why = why}
Count(deaths, queue, why) ==
    LET same == Entries(deaths, queue, why)
    IN  IF same = {} THEN 0 ELSE (CHOOSE d \in same : TRUE).count

Died(msg, queue, why) ==
    LET entry  == [queue |-> queue, why |-> why, key |-> msg.key,
                   count |-> Counted(Count(msg.deaths, queue, why))]
        others == msg.deaths.entries \ Entries(msg.deaths, queue, why)
    IN  [msg EXCEPT !.deaths = [entries |-> others \union {entry}, newest |-> entry]]

\* getRedelivery and restoreRoutingKey look at the newest entry only.
Redelivered(msg) == msg.deaths.newest.count
RestoredKey(msg) == IF msg.deaths = NoDeaths THEN msg.key ELSE msg.deaths.newest.key
===============================================================================
