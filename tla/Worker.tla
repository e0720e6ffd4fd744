------------------------------- MODULE Worker -------------------------------
(***************************************************************************)
(* The worker thread of Gw2Api and of IconCache, which have the same       *)
(* Start() and Stop() and nearly the same loop.  Stop() waits two seconds  *)
(* for the worker and then lets go of it, so a worker stuck in a request   *)
(* can outlive the Unload() that stopped it and meet the worker, and the   *)
(* flags, of the next Load().                                              *)
(*                                                                         *)
(* What is fetched is left out: there are ids pending or there are none,   *)
(* and a request ends when it ends.                                        *)
(***************************************************************************)
EXTENDS FiniteSets

CONSTANTS
  Thread,  \* bound: as many threads as can be alive at once
  None     \* no thread, a null pointer

ASSUME NoneAssumption == None \notin Thread

VARIABLES
  kind,       \* "Gw2Api" or "IconCache": whose worker it is
  loaded,     \* the addon is loaded
  caller,     \* where the thread that runs Stop() is
  stop,       \* _stop
  finished,   \* _workerFinished
  worker,     \* _worker, None when it is not joinable
  pc,         \* where each thread is in WorkerLoop()
  flag,       \* _activeCancelFlag, as the thread whose request it is of
  cancelled,  \* the requests whose cancel flag is set
  dropped,    \* history: an exception has ended the request that flag is of
  pending,    \* the queue is not empty
  outlived    \* history: the threads that were alive when worker was started

vars == <<kind, loaded, caller, stop, finished, worker, pc, flag, cancelled, dropped, pending,
          outlived>>

InRequest == {"request", "answered"}
Ended     == {"unborn", "exited"}
PC        == {"loop", "waiting", "fetch", "exiting"} \cup InRequest \cup Ended

Alive == {t \in Thread : pc[t] \notin Ended}

TypeOK ==
  /\ kind \in {"Gw2Api", "IconCache"}
  /\ loaded \in BOOLEAN
  /\ caller \in {"free", "cancel", "poll", "join"}
  /\ stop \in BOOLEAN
  /\ finished \in BOOLEAN
  /\ worker \in Thread \cup {None}
  /\ loaded => caller = "free" /\ worker # None
  /\ caller \in {"poll", "join"} => worker # None
  /\ pc \in [Thread -> PC]
  /\ flag \in Thread \cup {None}
  /\ cancelled \subseteq Thread
  /\ dropped \in BOOLEAN
  /\ pending \in BOOLEAN
  /\ outlived \subseteq Thread

\* Gw2Api's loop is preceded by FetchCurrencies(), which does not look at _stop.
FirstPC == IF kind = "Gw2Api" THEN "fetch" ELSE "loop"

\* The constructor has started the first worker; Load() is still to come.
Init ==
  \E t \in Thread :
    /\ kind \in {"Gw2Api", "IconCache"}
    /\ loaded = FALSE
    /\ caller = "free"
    /\ stop = FALSE
    /\ finished = FALSE
    /\ worker = t
    /\ pc = [u \in Thread |-> IF u = t THEN FirstPC ELSE "unborn"]
    /\ flag = None
    /\ cancelled = {}
    /\ dropped = FALSE
    /\ pending = FALSE
    /\ outlived = {}

-----------------------------------------------------------------------------
(* Start(), from Load(), and the queue. *)

\* Slip: _workerFinished is left as the last worker set it.
StartThreadFinished(t) ==
  /\ stop' = FALSE
  /\ worker' = t
  /\ pc' = [pc EXCEPT ![t] = FirstPC]
  /\ outlived' = Alive
  /\ UNCHANGED finished

\* Slip: _stop is left as Stop() set it.
StartThreadStopped(t) ==
  /\ finished' = FALSE
  /\ worker' = t
  /\ pc' = [pc EXCEPT ![t] = FirstPC]
  /\ outlived' = Alive
  /\ UNCHANGED stop

StartThread(t) ==
  /\ stop' = FALSE
  /\ finished' = FALSE
  /\ worker' = t
  /\ pc' = [pc EXCEPT ![t] = FirstPC]
  /\ outlived' = Alive

\* _worker.joinable()
AlreadyRunning == worker # None

\* The bound on threads is in the guard: one of them has to be there.
Start ==
  /\ caller = "free"
  /\ ~loaded
  /\ loaded' = TRUE
  /\ IF AlreadyRunning
       THEN UNCHANGED <<stop, finished, worker, pc, outlived>>
       ELSE \E t \in Thread \ Alive : StartThread(t)
  /\ UNCHANGED <<kind, caller, flag, cancelled, dropped, pending>>

\* EnsureItemsRequested() or RequestDownload(), from a frame.
Request ==
  /\ caller = "free"
  /\ loaded
  /\ pending' = TRUE
  /\ UNCHANGED <<kind, loaded, caller, stop, finished, worker, pc, flag, cancelled, dropped,
                 outlived>>

-----------------------------------------------------------------------------
(* Stop(), from Unload(). *)

StopRaise ==
  /\ caller = "free"
  /\ loaded
  /\ loaded' = FALSE
  /\ stop' = TRUE
  /\ caller' = "cancel"
  /\ UNCHANGED <<kind, finished, worker, pc, flag, cancelled, dropped, pending, outlived>>

\* Which requests a store through the pointer cancels: that whose flag it is.  If
\* its arguments are freed, what lies there now: a request's, or something else.
Hit ==
  IF flag = None THEN {{}}
  ELSE IF pc[flag] \in InRequest THEN {{flag}}
  ELSE {{}} \cup {{t} : t \in {u \in Thread : pc[u] \in InRequest}}

\* Under _activeCancelMutex; then the waiting worker is notified.
StopCancel ==
  /\ caller = "cancel"
  /\ \E ts \in Hit : cancelled' = cancelled \cup ts
  /\ caller' = IF worker = None THEN "free" ELSE "poll"
  /\ UNCHANGED <<kind, loaded, stop, finished, worker, pc, flag, dropped, pending, outlived>>

StopJoin ==
  /\ caller = "poll"
  /\ finished
  /\ caller' = "join"
  /\ UNCHANGED <<kind, loaded, stop, finished, worker, pc, flag, cancelled, dropped, pending,
                 outlived>>

\* join() returns.
StopJoined ==
  /\ caller = "join"
  /\ pc[worker] \in Ended
  /\ worker' = None
  /\ caller' = "free"
  /\ UNCHANGED <<kind, loaded, stop, finished, pc, flag, cancelled, dropped, pending, outlived>>

\* The two seconds are over.
StopDetach ==
  /\ caller = "poll"
  /\ ~finished
  /\ worker' = None
  /\ caller' = "free"
  /\ UNCHANGED <<kind, loaded, stop, finished, pc, flag, cancelled, dropped, pending, outlived>>

-----------------------------------------------------------------------------
(* WorkerLoop(). *)

Goto(t, to) == pc' = [pc EXCEPT ![t] = to]

\* The loop's condition.
Loop(t) ==
  /\ pc[t] = "loop"
  /\ Goto(t, IF stop THEN "exiting" ELSE "waiting")
  /\ UNCHANGED <<kind, loaded, caller, stop, finished, worker, flag, cancelled, dropped, pending,
                 outlived>>

\* _stop seen once awake: IconCache breaks out of the loop, to mark itself
\* finished; Gw2Api returns.
StopSeen == IF kind = "IconCache" THEN "exiting" ELSE "exited"

\* wait_for() returns: notified, or its own two seconds are over, so that a
\* notification that comes before the wait is not missed for good.
WakeStopped(t) ==
  /\ pc[t] = "waiting"
  /\ stop
  /\ Goto(t, StopSeen)
  /\ UNCHANGED <<kind, loaded, caller, stop, finished, worker, flag, cancelled, dropped, pending,
                 outlived>>

WakeToNothing(t) ==
  /\ pc[t] = "waiting"
  /\ ~stop
  /\ ~pending
  /\ Goto(t, "loop")
  /\ UNCHANGED <<kind, loaded, caller, stop, finished, worker, flag, cancelled, dropped, pending,
                 outlived>>

\* Up to 200 ids, or one URL; some may stay behind.
TakeBatch(t) ==
  /\ pc[t] = "waiting"
  /\ ~stop
  /\ pending
  /\ pending' \in BOOLEAN
  /\ Goto(t, "fetch")
  /\ UNCHANGED <<kind, loaded, caller, stop, finished, worker, flag, cancelled, dropped, outlived>>

\* DownloadToCache() finds the file there, or no place to put it.
NothingToFetch(t) ==
  /\ kind = "IconCache"
  /\ pc[t] = "fetch"
  /\ Goto(t, "loop")
  /\ UNCHANGED <<kind, loaded, caller, stop, finished, worker, flag, cancelled, dropped, pending,
                 outlived>>

\* New request arguments are made known to Stop().
BeginRequest(t) ==
  /\ pc[t] = "fetch"
  /\ flag' = t
  /\ dropped' = FALSE
  /\ Goto(t, "request")
  /\ UNCHANGED <<kind, loaded, caller, stop, finished, worker, cancelled, pending, outlived>>

\* http.get() returns: an answer, an error, a time-out or the cancellation.
\* (FetchItemBatch makes two such calls with one cancel flag.)
Answer(t) ==
  /\ pc[t] = "request"
  /\ Goto(t, "answered")
  /\ UNCHANGED <<kind, loaded, caller, stop, finished, worker, flag, cancelled, dropped, pending,
                 outlived>>

\* An exception before the request, out of http.get(), or in FetchItemBatch out
\* of what is done between its two calls: the loop's catch goes on with the next
\* round.  The arguments are freed, and the line that clears the pointer to them
\* is skipped.
Abandon(t) ==
  /\ pc[t] \in {"fetch", "request"}
  /\ dropped' = (dropped \/ (pc[t] = "request" /\ flag = t))
  /\ cancelled' = cancelled \ {t}
  /\ Goto(t, "loop")
  /\ UNCHANGED <<kind, loaded, caller, stop, finished, worker, flag, pending, outlived>>

\* Slip: the pointer is cleared only by a request that was not cancelled.
ClearedFlagUncancelled(t) == IF t \in cancelled THEN flag ELSE None

\* Whosever request it is of.
ClearedFlag(t) == None

\* Slip: a request that failed is made again at once.
EndRequestRetries(t) ==
  /\ pc[t] = "answered"
  /\ flag' = ClearedFlag(t)
  /\ dropped' = FALSE
  /\ cancelled' = cancelled \ {t}
  /\ Goto(t, "fetch") \/ Goto(t, "loop")
  /\ UNCHANGED <<kind, loaded, caller, stop, finished, worker, pending, outlived>>

EndRequest(t) ==
  /\ pc[t] = "answered"
  /\ flag' = ClearedFlag(t)
  /\ dropped' = FALSE
  /\ cancelled' = cancelled \ {t}
  /\ Goto(t, "loop")
  /\ UNCHANGED <<kind, loaded, caller, stop, finished, worker, pending, outlived>>

\* _workerFinished = true, whichever worker this is.
MarkFinished(t) ==
  /\ pc[t] = "exiting"
  /\ finished' = TRUE
  /\ Goto(t, "exited")
  /\ UNCHANGED <<kind, loaded, caller, stop, worker, flag, cancelled, dropped, pending, outlived>>

-----------------------------------------------------------------------------

StopStep == StopCancel \/ StopJoin \/ StopJoined \/ StopDetach

WorkerStep(t) ==
  \/ Loop(t)
  \/ WakeStopped(t)
  \/ WakeToNothing(t)
  \/ TakeBatch(t)
  \/ NothingToFetch(t)
  \/ BeginRequest(t)
  \/ Answer(t)
  \/ EndRequest(t)
  \/ Abandon(t)
  \/ MarkFinished(t)

Next ==
  \/ Start
  \/ Request
  \/ StopRaise
  \/ StopStep
  \/ \E t \in Thread : WorkerStep(t)

\* Threads are scheduled, and every request ends: its connect and transfer
\* time-outs see to that, or an exception.
Spec ==
  /\ Init
  /\ [][Next]_vars
  /\ WF_vars(StopStep)
  /\ \A t \in Thread : WF_vars(WorkerStep(t))

-----------------------------------------------------------------------------
(* Safety. *)

\* The pointer is to the cancel flag of a request that is under way, unless an
\* exception has ended that request, and then it is not.
FlagIsLive == flag # None => (dropped <=> pc[flag] \notin InRequest)

\* In a Load() that no worker of before has outlived its Stop() into, the
\* pointer is to that of every request under way, whatever exceptions ended
\* requests before it.
RequestIsCancellable ==
  outlived = {} => \A t \in Thread : pc[t] \in InRequest => flag = t

\* However the workers of several Loads overlap and clear one another's pointer,
\* none leaves it at a request that has returned: an exception does, and from
\* then on, until the next request or for good, Stop() would write into freed
\* arguments.  And Stop() reaches the request under way as long as there is one
\* worker; with two workers it reaches the one or the other, or none
\* (_activeCancelFlag).
StopReachesRequest == FlagIsLive /\ RequestIsCancellable

\* Stop() joins a worker that has ended, so that the join returns at once,
\* unless a worker that outlived an earlier Stop() has ended meanwhile and set
\* _workerFinished in its place (Stop, WorkerLoop).
JoinsAnEndedWorker ==
  caller = "join" =>
    \/ pc[worker] = "exited"
    \/ \E t \in outlived : pc[t] = "exited"

\* The step is Stop() letting go of its worker.
GivesUp == caller = "poll" /\ caller' = "free"

\* A worker that Stop() gives up on is still running, "genuinely stuck".  Not
\* so for Gw2Api: a worker that sees _stop in its wait returns without a word,
\* and Stop() waits its two seconds for a thread that has gone.
DetachesOnlyTheStuck == [][GivesUp => pc[worker] \notin Ended]_vars

-----------------------------------------------------------------------------
(* Liveness. *)

\* While the addon stays loaded, what is queued is taken up, after any number
\* of reloads (Start after Stop).
QueueIsServed ==
  (loaded /\ pending) ~> (~loaded \/ \E t \in Thread : pc[t] = "fetch")

\* Once the addon is unloaded for good, no worker is left, those that Stop()
\* gave up on included (WorkerLoop).
WorkersEnd == <>[](~loaded /\ stop /\ caller = "free") => <>[](Alive = {})

-----------------------------------------------------------------------------
(* The pool this implements.                                                *)

\* The threads that will look at _stop, or at the queue, once more.
Serving == {t \in Alive : pc[t] # "exiting"}

Pool == INSTANCE WorkerPool WITH serving <- Serving

\* Start(), Stop() with its wait, join and detach, and the loop together are
\* the pool that IconFiles and PriceCache take them for: Stop() takes no thread
\* away and Start() adds one exactly after a Stop().
RefinesPool == Pool!Spec

=============================================================================
