------------------------------ MODULE IconFiles ------------------------------
(***************************************************************************)
(* The icons on disk (IconCache).  A frame asks for the icons of its       *)
(* visible rows; a worker downloads what is queued and writes one file per *)
(* URL; a failed download cools down before the next attempt.  A worker    *)
(* that outlived its Stop() goes on next to the one of the next Load(),    *)
(* with the same queue and the same files (Worker has that protocol).      *)
(*                                                                         *)
(* An icon is its URL, whose file name is taken to be its own: the hash it *)
(* is made of is taken to tell URLs apart.  A file is there or not, whole  *)
(* or short.                                                               *)
(***************************************************************************)
EXTENDS FiniteSets

CONSTANTS
  Url,      \* the icons asked for
  Thread,   \* bound: as many threads as can be alive at once
  None      \* no URL

ASSUME NoneAssumption == None \notin Url

VARIABLES
  loaded,     \* the addon is loaded
  stop,       \* _stop
  asking,     \* the URL a frame is in RequestDownload() for
  pending,    \* _pendingUrls
  inFlight,   \* _inFlightUrls
  cooling,    \* the URLs whose _nextRetryAt is still to come
  confirmed,  \* _confirmedCachedUrls
  file,       \* the file of each URL
  pc,         \* where each thread is in WorkerLoop() and DownloadToCache()
  url,        \* the URL each thread is at
  body,       \* what each thread was answered last
  cut         \* history: the files a crash or a failing write left short

vars == <<loaded, stop, asking, pending, inFlight, cooling, confirmed, file, pc, url, body, cut>>
lists == <<pending, inFlight, cooling>>

Downloading == {"look", "request", "open", "write", "succeeded", "failed"}

\* What http.get() brings: the icon, a body cut off by a time-out or by the
\* cancel flag, or no icon at all.
Response == {"icon", "cutOff", "error"}

Alive == {t \in Thread : pc[t] # "off"}

TypeOK ==
  /\ loaded \in BOOLEAN
  /\ stop \in BOOLEAN
  /\ asking \in Url \cup {None}
  /\ pending \subseteq Url
  /\ inFlight \subseteq Url
  /\ cooling \subseteq Url
  /\ confirmed \subseteq Url
  /\ file \in [Url -> {"none", "short", "whole"}]
  /\ pc \in [Thread -> Downloading \cup {"off", "idle"}]
  /\ url \in [Thread -> Url \cup {None}]
  /\ \A t \in Thread : (url[t] = None) <=> (pc[t] \notin Downloading)
  /\ body \in [Thread -> Response]
  /\ cut \subseteq Url

\* The threads of a process that has begun: the constructor has started the
\* first worker.
FirstWorker(threads) ==
  \E t \in Thread : threads = [u \in Thread |-> IF u = t THEN "idle" ELSE "off"]

Init ==
  /\ loaded = FALSE
  /\ stop = FALSE
  /\ asking = None
  /\ pending = {}
  /\ inFlight = {}
  /\ cooling = {}
  /\ confirmed = {}
  /\ file = [u \in Url |-> "none"]
  /\ FirstWorker(pc)
  /\ url = [t \in Thread |-> None]
  /\ body = [t \in Thread |-> "error"]
  /\ cut = {}

-----------------------------------------------------------------------------
(* Frames. *)

OnDisk(u) == file[u] # "none"

\* IsCached(), memo and file system.
IsCached(u) == u \in confirmed \/ OnDisk(u)

\* A visible row's icon is there, or the frame goes on to RequestDownload(),
\* which looks again: this is the last look.
LookForIcon(u) ==
  /\ loaded
  /\ asking = None
  /\ IF IsCached(u)
       THEN /\ confirmed' = confirmed \cup {u}
            /\ UNCHANGED asking
       ELSE /\ asking' = u
            /\ UNCHANGED confirmed
  /\ UNCHANGED <<loaded, stop, lists, file, pc, url, body, cut>>

\* Slip: a URL that is being downloaded is queued again.
MayQueueInFlight(u) == u \notin cooling

\* Not yet queued or downloading, and not cooling down (queueing it again
\* would change nothing).
MayQueue(u) == u \notin inFlight /\ u \notin cooling

\* The rest of RequestDownload(), under _pendingMutex.  A worker may have
\* written the file since IsCached().
QueueDownload ==
  /\ asking # None
  /\ asking' = None
  /\ pending' = IF MayQueue(asking) THEN pending \cup {asking} ELSE pending
  /\ UNCHANGED <<loaded, stop, inFlight, cooling, confirmed, file, pc, url, body, cut>>

-----------------------------------------------------------------------------
(* Load(), Unload() and the end of the process. *)

\* Start(): the worker of the constructor, or a new one after a Stop().
Load ==
  /\ ~loaded
  /\ loaded' = TRUE
  /\ stop' = FALSE
  /\ IF stop
       THEN \E t \in Thread \ Alive : pc' = [pc EXCEPT ![t] = "idle"]
       ELSE UNCHANGED pc
  /\ UNCHANGED <<asking, lists, confirmed, file, url, body, cut>>

\* Stop(), which may let go of a worker that is still busy.  Unload() and
\* frames exclude one another.
Unload ==
  /\ loaded
  /\ asking = None
  /\ loaded' = FALSE
  /\ stop' = TRUE
  /\ UNCHANGED <<asking, lists, confirmed, file, pc, url, body, cut>>

\* The end of the process at any step.  The files stay as they are.
Crash ==
  /\ loaded' = FALSE
  /\ stop' = FALSE
  /\ asking' = None
  /\ pending' = {}
  /\ inFlight' = {}
  /\ cooling' = {}
  /\ confirmed' = {}
  /\ FirstWorker(pc')
  /\ url' = [t \in Thread |-> None]
  /\ body' = [t \in Thread |-> "error"]
  /\ cut' = cut \cup {url[t] : t \in {t \in Thread : pc[t] = "write"}}
  /\ UNCHANGED file

\* ICON_RETRY_COOLDOWN is over.
CooldownOver(u) ==
  /\ u \in cooling
  /\ cooling' = cooling \ {u}
  /\ UNCHANGED <<loaded, stop, asking, pending, inFlight, confirmed, file, pc, url, body, cut>>

-----------------------------------------------------------------------------
(* The worker. *)

Goto(t, to) == pc' = [pc EXCEPT ![t] = to]

\* _stop is seen at the head of the loop or in the wait.
Exit(t) ==
  /\ pc[t] = "idle"
  /\ stop
  /\ Goto(t, "off")
  /\ UNCHANGED <<loaded, stop, asking, lists, confirmed, file, url, body, cut>>

\* Any URL of the queue, which is not in order.
Take(t) ==
  /\ pc[t] = "idle"
  /\ ~stop
  /\ \E u \in pending :
       /\ pending' = pending \ {u}
       /\ inFlight' = inFlight \cup {u}
       /\ url' = [url EXCEPT ![t] = u]
  /\ Goto(t, "look")
  /\ UNCHANGED <<loaded, stop, asking, cooling, confirmed, file, body, cut>>

\* Slip: the file is not looked for.
AfterLookAnyway(u) == "request"

AfterLook(u) == IF OnDisk(u) THEN "succeeded" ELSE "request"

\* DownloadToCache() first looks whether the file has come to be.
LookForFile(t) ==
  /\ pc[t] = "look"
  /\ Goto(t, AfterLook(url[t]))
  /\ UNCHANGED <<loaded, stop, asking, lists, confirmed, file, url, body, cut>>

\* Slip: the status is looked at, the error code is not.
AcceptedByStatus(r) == r # "error"

\* errorCode == Ok and statusCode == 200
Accepted(r) == r = "icon"

\* http.get() returns; an exception on the way there counts as an error.
Respond(t) ==
  /\ pc[t] = "request"
  /\ \E r \in Response :
       /\ body' = [body EXCEPT ![t] = r]
       /\ Goto(t, IF Accepted(r) THEN "open" ELSE "failed")
  /\ UNCHANGED <<loaded, stop, asking, lists, confirmed, file, url, cut>>

\* The file is opened and truncated.
Open(t) ==
  /\ pc[t] = "open"
  /\ file' = [file EXCEPT ![url[t]] = "short"]
  /\ Goto(t, "write")
  /\ UNCHANGED <<loaded, stop, asking, lists, confirmed, url, body, cut>>

\* It cannot be opened.
OpenFails(t) ==
  /\ pc[t] = "open"
  /\ Goto(t, "failed")
  /\ UNCHANGED <<loaded, stop, asking, lists, confirmed, file, url, body, cut>>

\* The body is written and the file closed.
Write(t) ==
  /\ pc[t] = "write"
  /\ file' = [file EXCEPT ![url[t]] = IF body[t] = "icon" THEN "whole" ELSE "short"]
  /\ Goto(t, "succeeded")
  /\ UNCHANGED <<loaded, stop, asking, lists, confirmed, url, body, cut>>

\* The disk is full, which nothing looks at.
WriteFails(t) ==
  /\ pc[t] = "write"
  /\ cut' = cut \cup {url[t]}
  /\ Goto(t, "succeeded")
  /\ UNCHANGED <<loaded, stop, asking, lists, confirmed, file, url, body>>

\* Slip: a failed download is left in flight.
NoLongerInFlightOnSuccess(t) == IF pc[t] = "failed" THEN inFlight ELSE inFlight \ {url[t]}

NoLongerInFlight(t) == inFlight \ {url[t]}

\* The end of an iteration, under _pendingMutex.
Finish(t) ==
  /\ pc[t] \in {"succeeded", "failed"}
  /\ inFlight' = NoLongerInFlight(t)
  /\ cooling' = IF pc[t] = "failed" THEN cooling \cup {url[t]} ELSE cooling \ {url[t]}
  /\ url' = [url EXCEPT ![t] = None]
  /\ body' = [body EXCEPT ![t] = "error"]
  /\ Goto(t, "idle")
  /\ UNCHANGED <<loaded, stop, asking, pending, confirmed, file, cut>>

-----------------------------------------------------------------------------

WorkerStep(t) ==
  \/ Exit(t)
  \/ Take(t)
  \/ LookForFile(t)
  \/ Respond(t)
  \/ Open(t)
  \/ OpenFails(t)
  \/ Write(t)
  \/ WriteFails(t)
  \/ Finish(t)

Next ==
  \/ \E u \in Url : LookForIcon(u)
  \/ QueueDownload
  \/ Load
  \/ Unload
  \/ Crash
  \/ \E u \in Url : CooldownOver(u)
  \/ \E t \in Thread : WorkerStep(t)

\* Every frame asks for every visible icon, a cooldown passes, threads are
\* scheduled and requests end by their time-outs.
Spec ==
  /\ Init
  /\ [][Next]_vars
  /\ WF_vars(QueueDownload)
  /\ \A u \in Url : SF_vars(LookForIcon(u)) /\ WF_vars(CooldownOver(u))
  /\ \A t \in Thread : WF_vars(WorkerStep(t))

-----------------------------------------------------------------------------
(* Safety. *)

\* A URL is downloaded by one worker at a time, whatever workers of before
\* are still about, and whoever downloads has it marked as in flight; what is
\* in flight is not queued again (_inFlightUrls).
OneDownloadPerUrl ==
  /\ \A t \in Thread : url[t] # None => url[t] \in inFlight
  /\ \A t, s \in Thread : url[t] = url[s] /\ url[t] # None => t = s
  /\ pending \cap inFlight = {}

\* A file is short exactly while it is being written, and for good once a crash
\* or a full disk has cut the write short: what was cut off on the way is never
\* written, and what is short on disk is never fetched again (DownloadToCache).
ShortWhenCut ==
  \A u \in Url :
    file[u] = "short" <=> u \in cut \/ \E t \in Thread : pc[t] = "write" /\ url[t] = u

\* A file that is whole is never opened for writing again, even when a frame
\* found it missing before it was written and queued it after
\* (RequestDownload, DownloadToCache).
WholeStaysWhole ==
  [][\A u \in Url : file[u] = "whole" => file'[u] = "whole"]_vars

\* A URL that has failed is not tried again before its cooldown is over
\* (ICON_RETRY_COOLDOWN).
NoRetryWhileCooling ==
  [][\A u \in Url : u \in inFlight' \ inFlight => u \notin cooling]_vars

\* What IsCached() has told once is a whole icon: it "can never become
\* un-cached".  Not so: a short file is taken for one, for good when a write
\* was cut short.
ConfirmedIsWhole == \A u \in confirmed : file[u] = "whole"

(* Liveness. *)

\* While an icon is missing the worker does not rest: some download is under
\* way again and again, so that no URL is "stuck forever after one transient
\* failure" (RequestDownload, WorkerLoop).  Which one is the queue's choice.
MissingKeepsWorkerBusy ==
  \A u \in Url :
    <>[](loaded /\ ~OnDisk(u)) => []<>(\E t \in Thread : pc[t] \in Downloading)

-----------------------------------------------------------------------------
(* The workers this takes for granted. *)

Pool == INSTANCE WorkerPool WITH serving <- Alive

\* The workers of this module behave as those of Worker do, as far as the queue
\* can tell (Start, Stop, WorkerLoop).
RefinesPool == Pool!Spec

-----------------------------------------------------------------------------
(* The attempts this implements. *)

Attempt ==
  [u \in Url |-> IF u \in pending THEN "queued"
                 ELSE IF u \in inFlight THEN "made"
                 ELSE IF u \in cooling THEN "pause" ELSE "none"]

Disk ==
  [u \in Url |-> IF \E t \in Thread : pc[t] = "write" /\ url[t] = u THEN "writing" ELSE file[u]]

Attempts == INSTANCE IconAttempts WITH attempt <- Attempt, disk <- Disk

\* To each icon all of this looks like one attempt after another, with a pause
\* after each that brought no file, and a file that is written once: which
\* threads there are, what frames ask for meanwhile and how often the addon is
\* reloaded does not show (RequestDownload, WorkerLoop, DownloadToCache).
RefinesAttempts == Attempts!Spec

=============================================================================
