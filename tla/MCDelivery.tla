------------------------------ MODULE MCDelivery ------------------------------
EXTENDS Delivery

Work == <<"work">>
MCSetups == {
    ExecSink(Work, 1, <<>>, <<>>),
    ExecSink(<<>>, 0, <<"events">>, << <<"key">> >>),
    TestSink(Work),
    Use(ManualAck(Bind(Retries(KeepDead(Validate(NewSink(Work))), -1), <<"events">>,
                       << <<"key">> >>)), "user"),
    SampleSink(Work),
    RecvSink(Work), RecvSink(<<>>),
    Validate(NewSink(Work)) }

\* A TransactFunc that has no requeue.
PlainSetups == {ManualAck(NewSink(Work))}
===============================================================================
