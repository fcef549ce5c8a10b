--------------------------- MODULE MCTraceControl ---------------------------
EXTENDS TraceControl, TLC

CONSTANTS f1, f2, c1, c2, c3

TwoFuncs == <<f1, f2>>

start(names) == [op |-> "start", names |-> names]
stop(names) == [op |-> "stop", names |-> names]

\* What one command starts the others stop; one of them gives up at a conflict.
Commands == (c1 :> start({f1, f2})) @@ (c2 :> stop({f1})) @@ (c3 :> stop({f2}))
FewTries == (c1 :> 1) @@ (c2 :> 2) @@ (c3 :> 1)
=============================================================================
