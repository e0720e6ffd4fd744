----------------------------- MODULE WorkerPool -----------------------------
(***************************************************************************)
(* What the queues of IconCache and Gw2Api are promised of their workers,  *)
(* with no flag but _stop and no wait, join or time-out in sight: a pool   *)
(* of threads that serve a queue.                                          *)
(*                                                                         *)
(* A thread serves until it sees stop.  Unload() raises stop and leaves at *)
(* once, whoever is still serving; a Load() after it adds one thread to    *)
(* those, and they may all go on.  The end of the process takes them all,  *)
(* and the next process begins with one.                                   *)
(***************************************************************************)
CONSTANT Thread

VARIABLES
  loaded,   \* the addon is loaded
  stop,     \* those who look are told to leave
  serving   \* the threads that will look at the queue again

vars == <<loaded, stop, serving>>

NewProcess(threads) == \E t \in Thread : threads = {t}

Init ==
  /\ loaded = FALSE
  /\ stop = FALSE
  /\ NewProcess(serving)

Load ==
  /\ ~loaded
  /\ loaded' = TRUE
  /\ stop' = FALSE
  /\ IF stop
       THEN \E t \in Thread \ serving : serving' = serving \cup {t}
       ELSE UNCHANGED serving

Unload ==
  /\ loaded
  /\ loaded' = FALSE
  /\ stop' = TRUE
  /\ UNCHANGED serving

Leave(t) ==
  /\ stop
  /\ t \in serving
  /\ serving' = serving \ {t}
  /\ UNCHANGED <<loaded, stop>>

EndOfProcess ==
  /\ loaded' = FALSE
  /\ stop' = FALSE
  /\ NewProcess(serving')

Next == Load \/ Unload \/ (\E t \in Thread : Leave(t)) \/ EndOfProcess

Spec == Init /\ [][Next]_vars

-----------------------------------------------------------------------------

\* While the addon is loaded nobody is told to leave, and somebody serves: what
\* is queued in this Load() is in no danger of waiting for the next one.
Served ==
  /\ loaded => ~stop
  /\ ~stop => serving # {}

=============================================================================
