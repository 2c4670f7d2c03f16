--------------------------- MODULE MCStreamOutput ---------------------------
(* StreamOutput for TLC: one session is stopped at any moment, the other is *)
(* left to its retries.  Threads are named by the order of their creation,  *)
(* so the bounds on starts and lost connections bound them too; a run ends  *)
(* where the frontend has used up its calls and every thread is blocked.    *)
EXTENDS StreamOutput

MCSessions == {
    [stopWhen |-> "any", earlyBreak |-> TRUE, startMayFail |-> TRUE,
     starts |-> 1, stops |-> 1, breaks |-> 1],
    [stopWhen |-> "never", earlyBreak |-> FALSE, startMayFail |-> FALSE,
     starts |-> 2, stops |-> 0, breaks |-> 2]}
=============================================================================
