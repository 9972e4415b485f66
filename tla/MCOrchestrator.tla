--------------------------- MODULE MCOrchestrator ---------------------------
(* Small instances of Orchestrator: the sheets and the operator's commands. *)
EXTENDS Orchestrator

Plain(kind)     == [kind |-> kind, prefix |-> <<>>, len |-> 0]
On(kind, p)     == [kind |-> kind, prefix |-> p, len |-> 0]
Split(i, n)     == [kind |-> "InjectSplit", prefix |-> <<i>>, len |-> n]

StopRequests    == {Plain("Pause"), Plain("Resume"), Plain("Abort"),
                    On("CancelStep", <<1>>)}
PlainRequests   == StopRequests \cup {Plain("RerunVerifiers")}
ShelveRequests  == StopRequests \cup {On("ResumeStep", <<>>), Split(2, 1)}

FirstVerified   == {<<1>>}
SomeVerified    == {<<1>>, <<1, 1>>}
=============================================================================
