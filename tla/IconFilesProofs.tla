--------------------------- MODULE IconFilesProofs ---------------------------
(***************************************************************************)
(* Proofs, for every set of icons and every number of workers alive at     *)
(* once, of the safety properties of IconFiles.                            *)
(***************************************************************************)
EXTENDS IconFiles, TLAPS

\* Whoever is past looking has found no file, and nobody else writes it.
Clear == \A t \in Thread : pc[t] \in {"request", "open"} => file[url[t]] = "none"

\* Whoever writes has truncated the file.
Truncated == \A t \in Thread : pc[t] = "write" => file[url[t]] = "short"

\* Nobody writes a file that was cut short before.
NotRewritten == \A t \in Thread : pc[t] = "write" => url[t] \notin cut

\* What is written is an icon.
Fetched == \A t \in Thread : pc[t] \in {"open", "write"} => body[t] = "icon"

\* What cools down is not queued.
NotQueued == pending \cap cooling = {}

IInv ==
  /\ TypeOK
  /\ OneDownloadPerUrl
  /\ Clear
  /\ Truncated
  /\ Fetched
  /\ NotQueued
  /\ NotRewritten
  /\ ShortWhenCut

\* The steps that move no worker and touch no file.
FrameStep == (\E u \in Url : LookForIcon(u) \/ CooldownOver(u)) \/ QueueDownload \/ Load \/ Unload

\* It holds of a process that has begun with no file: no worker is at a URL.
LEMMA InitIInv == Init => IInv
<1> SUFFICES ASSUME Init PROVE IInv
  OBVIOUS
<1>1. pc \in [Thread -> {"off", "idle"}]
  BY DEF Init, FirstWorker
<1>2. \A t \in Thread : pc[t] \in {"off", "idle"} /\ url[t] = None
  BY <1>1 DEF Init
<1>3. TypeOK
  BY <1>1, <1>2 DEF Init, TypeOK, Downloading, Response
<1>4. Clear /\ Truncated /\ Fetched /\ NotRewritten
  BY <1>2 DEF Clear, Truncated, Fetched, NotRewritten
<1>5. OneDownloadPerUrl /\ NotQueued
  BY <1>2 DEF Init, OneDownloadPerUrl, NotQueued
<1>6. ShortWhenCut
  BY <1>2 DEF Init, ShortWhenCut
<1> QED BY <1>3, <1>4, <1>5, <1>6 DEF IInv

-----------------------------------------------------------------------------

\* A step of t changes nothing of another thread.
LEMMA WorkerFrame ==
  ASSUME TypeOK, NEW t \in Thread, WorkerStep(t)
  PROVE  /\ \A s \in Thread : s # t => pc'[s] = pc[s] /\ url'[s] = url[s] /\ body'[s] = body[s]
         /\ UNCHANGED <<loaded, stop, asking, confirmed>>
  BY DEF TypeOK, WorkerStep, Exit, Take, LookForFile, Respond, Open, OpenFails, Write,
     WriteFails, Finish, Goto, lists

\* Every step keeps every variable in its type.
LEMMA TypeStep == TypeOK /\ [Next]_vars => TypeOK'
<1> SUFFICES ASSUME TypeOK, [Next]_vars PROVE TypeOK'
  OBVIOUS
<1> USE NoneAssumption DEF TypeOK
<1>1. CASE FrameStep
  BY <1>1 DEF FrameStep, LookForIcon, CooldownOver, QueueDownload, Load, Unload, lists,
     Downloading, Alive
<1>2. CASE Crash
  <2>1. cut' \subseteq Url
    BY <1>2 DEF Crash, Downloading
  <2>2. /\ pc' \in [Thread -> Downloading \cup {"off", "idle"}]
        /\ \A t \in Thread : pc'[t] \notin Downloading
    BY <1>2 DEF Crash, FirstWorker, Downloading
  <2> QED BY <1>2, <2>1, <2>2 DEF Crash, Response
<1>3. ASSUME NEW t \in Thread, WorkerStep(t) PROVE TypeOK'
  <2>1. CASE Exit(t)
    BY <2>1 DEF Exit, Goto, Downloading, lists
  <2>2. CASE Take(t)
    BY <2>2 DEF Take, Goto, Downloading
  <2>3. CASE LookForFile(t)
    BY <2>3 DEF LookForFile, AfterLook, Goto, Downloading, lists
  <2>4. CASE Respond(t)
    BY <2>4 DEF Respond, Goto, Downloading, Response, lists
  <2>5. CASE Open(t) \/ OpenFails(t)
    BY <2>5 DEF Open, OpenFails, Goto, Downloading, lists
  <2>6. CASE Write(t) \/ WriteFails(t)
    BY <2>6 DEF Write, WriteFails, Goto, Downloading, lists
  <2>7. CASE Finish(t)
    BY <2>7 DEF Finish, NoLongerInFlight, Goto, Downloading, Response
  <2> QED BY <1>3, <2>1, <2>2, <2>3, <2>4, <2>5, <2>6, <2>7 DEF WorkerStep
<1>4. CASE UNCHANGED vars
  BY <1>4 DEF vars, lists
<1> QED BY <1>1, <1>2, <1>3, <1>4 DEF Next, FrameStep

\* What is queued, in flight or cooling down: a worker takes what is queued
\* and nobody is at, and what it ends with is nobody else's.
LEMMA QueueStep ==
  TypeOK /\ OneDownloadPerUrl /\ NotQueued /\ [Next]_vars
    => OneDownloadPerUrl' /\ NotQueued'
<1> SUFFICES ASSUME TypeOK, OneDownloadPerUrl, NotQueued, [Next]_vars
             PROVE  OneDownloadPerUrl' /\ NotQueued'
  OBVIOUS
<1> USE DEF OneDownloadPerUrl, NotQueued
<1>1. CASE FrameStep
  BY <1>1 DEF FrameStep, LookForIcon, CooldownOver, QueueDownload, MayQueue, Load, Unload, lists
<1>2. CASE Crash
  BY <1>2 DEF Crash
<1>3. ASSUME NEW t \in Thread, WorkerStep(t) PROVE OneDownloadPerUrl' /\ NotQueued'
  <2>1. CASE Take(t)
    BY <2>1 DEF Take, TypeOK
  <2>2. CASE Finish(t)
    BY <2>2 DEF Finish, NoLongerInFlight, Downloading, TypeOK
  <2>3. CASE ~Take(t) /\ ~Finish(t)
    BY <1>3, <2>3 DEF WorkerStep, Exit, LookForFile, Respond, Open, OpenFails, Write,
       WriteFails, lists
  <2> QED BY <2>1, <2>2, <2>3
<1>4. CASE UNCHANGED vars
  BY <1>4 DEF vars, lists
<1> QED BY <1>1, <1>2, <1>3, <1>4 DEF Next, FrameStep

\* The files: since one worker at most is at a URL, what it has found of the
\* file stays true until it writes.
LEMMA FileStep == IInv /\ [Next]_vars => Clear' /\ Truncated' /\ Fetched'
<1> SUFFICES ASSUME IInv, [Next]_vars PROVE Clear' /\ Truncated' /\ Fetched'
  OBVIOUS
<1> USE DEF IInv, Clear, Truncated, Fetched
<1>1. CASE FrameStep
  BY <1>1 DEF FrameStep, LookForIcon, CooldownOver, QueueDownload, Load, Unload, lists, TypeOK, Alive
<1>2. CASE Crash
  <2>1. \A t \in Thread : pc'[t] \in {"off", "idle"}
    BY <1>2 DEF Crash, FirstWorker
  <2> QED BY <2>1
<1>3. ASSUME NEW t \in Thread, WorkerStep(t) PROVE Clear' /\ Truncated' /\ Fetched'
  <2>1. \A s \in Thread : s # t => pc'[s] = pc[s] /\ url'[s] = url[s] /\ body'[s] = body[s]
    BY <1>3, WorkerFrame
  <2>2. CASE Exit(t) \/ Take(t) \/ Finish(t)
    BY <2>1, <2>2 DEF Exit, Take, Finish, Goto, TypeOK, lists
  <2>3. CASE LookForFile(t)
    BY <2>1, <2>3 DEF LookForFile, AfterLook, OnDisk, Goto, TypeOK, lists
  <2>4. CASE Respond(t)
    BY <2>1, <2>4 DEF Respond, Accepted, Goto, TypeOK, lists
  <2>5. CASE Open(t) \/ OpenFails(t)
    BY <2>1, <2>5 DEF Open, OpenFails, Goto, OneDownloadPerUrl, Downloading, TypeOK, lists
  <2>6. CASE Write(t) \/ WriteFails(t)
    BY <2>1, <2>6 DEF Write, WriteFails, Goto, OneDownloadPerUrl, Downloading, TypeOK, lists
  <2> QED BY <1>3, <2>2, <2>3, <2>4, <2>5, <2>6 DEF WorkerStep
<1>4. CASE UNCHANGED vars
  BY <1>4 DEF vars, lists
<1> QED BY <1>1, <1>2, <1>3, <1>4 DEF Next, FrameStep

\* The files that are short: a worker that opens one has found none, so that it
\* never was cut short, and a worker that ends a write leaves it whole or cut.
LEMMA ShortStep == IInv /\ [Next]_vars => NotRewritten' /\ ShortWhenCut'
<1> SUFFICES ASSUME IInv, [Next]_vars PROVE NotRewritten' /\ ShortWhenCut'
  OBVIOUS
<1> USE DEF IInv, NotRewritten, ShortWhenCut
<1>1. CASE FrameStep
  BY <1>1 DEF FrameStep, LookForIcon, CooldownOver, QueueDownload, Load, Unload, lists, TypeOK, Alive
<1>2. CASE Crash
  <2>1. \A t \in Thread : pc'[t] \in {"off", "idle"}
    BY <1>2 DEF Crash, FirstWorker
  <2>2. /\ UNCHANGED file
        /\ \A u \in Url : u \in cut' <=> u \in cut \/ \E t \in Thread : pc[t] = "write" /\ url[t] = u
    BY <1>2 DEF Crash
  <2> QED BY <2>1, <2>2
<1>3. ASSUME NEW t \in Thread, WorkerStep(t) PROVE NotRewritten' /\ ShortWhenCut'
  <2>1. \A s \in Thread : s # t => pc'[s] = pc[s] /\ url'[s] = url[s]
    BY <1>3, WorkerFrame
  <2>2. CASE UNCHANGED <<file, cut>> /\ pc[t] # "write" /\ pc'[t] # "write"
    BY <2>1, <2>2
  <2>3. CASE Open(t)
    <3>1. /\ pc[t] = "open" /\ pc'[t] = "write" /\ UNCHANGED <<cut, url>>
          /\ url[t] \in Url
          /\ \A u \in Url : file'[u] = IF u = url[t] THEN "short" ELSE file[u]
      BY <2>3 DEF Open, Goto, TypeOK, Downloading
    <3>2. url[t] \notin cut
      BY <3>1 DEF Clear
    <3> QED BY <2>1, <3>1, <3>2
  <2>4. CASE Write(t) \/ WriteFails(t)
    <3>1. /\ pc[t] = "write" /\ pc'[t] # "write" /\ UNCHANGED url
          /\ url[t] \in Url /\ body[t] = "icon" /\ url[t] \notin cut
      BY <2>4 DEF Write, WriteFails, Goto, TypeOK, Downloading, Fetched
    <3>2. \A s \in Thread : s # t => url[s] # url[t]
      BY <3>1, NoneAssumption DEF OneDownloadPerUrl
    <3>3. \/ /\ UNCHANGED cut
             /\ \A u \in Url : file'[u] = IF u = url[t] THEN "whole" ELSE file[u]
          \/ cut' = cut \cup {url[t]} /\ UNCHANGED file
      BY <2>4, <3>1 DEF Write, WriteFails, TypeOK
    <3> QED BY <2>1, <3>1, <3>2, <3>3
  <2> QED BY <1>3, <2>2, <2>3, <2>4 DEF WorkerStep, Exit, Take, LookForFile, AfterLook, Respond,
             OpenFails, Finish, Goto, TypeOK
<1>4. CASE UNCHANGED vars
  BY <1>4 DEF vars, lists
<1> QED BY <1>1, <1>2, <1>3, <1>4 DEF Next, FrameStep

\* The invariant that the rest follows from.
LEMMA Invariance == Spec => []IInv
<1>1. IInv /\ [Next]_vars => IInv'
  BY TypeStep, QueueStep, FileStep, ShortStep DEF IInv
<1> QED BY InitIInv, <1>1, PTL DEF Spec

-----------------------------------------------------------------------------

\* Every variable keeps its type; a thread is at a URL exactly while it
\* downloads one (WorkerLoop, DownloadToCache).
THEOREM TypeCorrect == Spec => []TypeOK
<1>1. IInv => TypeOK
  BY DEF IInv
<1> QED BY <1>1, Invariance, PTL

\* One worker at a time downloads a URL, however many Stop() has let go of
\* (_inFlightUrls).
THEOREM OneDownload == Spec => []OneDownloadPerUrl
<1>1. IInv => OneDownloadPerUrl
  BY DEF IInv
<1> QED BY <1>1, Invariance, PTL

\* Nothing but a crash or a full disk leaves a file short, and what they leave
\* short stays so for good (DownloadToCache).
THEOREM ShortFilesWereCut == Spec => []ShortWhenCut
<1>1. IInv => ShortWhenCut
  BY DEF IInv
<1> QED BY <1>1, Invariance, PTL

\* A whole icon is never truncated again: the worker that opens a file has
\* found none, and nobody has written it since (DownloadToCache).
THEOREM WholeIconsStay == Spec => WholeStaysWhole
<1>1. IInv /\ [Next]_vars => [\A u \in Url : file[u] = "whole" => file'[u] = "whole"]_vars
  <2> SUFFICES ASSUME IInv, Next, NEW u \in Url, file[u] = "whole" PROVE file'[u] = "whole"
    OBVIOUS
  <2>1. CASE FrameStep \/ Crash
    BY <2>1 DEF FrameStep, LookForIcon, CooldownOver, QueueDownload, Load, Unload, Crash
  <2>2. ASSUME NEW t \in Thread, WorkerStep(t) PROVE file'[u] = "whole"
    <3>1. CASE Open(t) \/ Write(t)
      BY <3>1 DEF Open, Write, IInv, Clear, Truncated, TypeOK
    <3>2. CASE ~Open(t) /\ ~Write(t)
      BY <2>2, <3>2 DEF WorkerStep, Exit, Take, LookForFile, Respond, OpenFails, WriteFails, Finish
    <3> QED BY <3>1, <3>2
  <2> QED BY <2>1, <2>2 DEF Next, FrameStep
<1> QED BY <1>1, Invariance, PTL DEF Spec, WholeStaysWhole

\* No URL is taken up again while it cools down (RequestDownload, WorkerLoop).
THEOREM CooldownIsKept == Spec => NoRetryWhileCooling
<1>1. IInv /\ [Next]_vars => [\A u \in Url : u \in inFlight' \ inFlight => u \notin cooling]_vars
  <2> SUFFICES ASSUME IInv, Next, NEW u \in Url, u \in inFlight' \ inFlight
               PROVE  u \notin cooling
    OBVIOUS
  <2>1. CASE FrameStep \/ Crash
    BY <2>1 DEF FrameStep, LookForIcon, CooldownOver, QueueDownload, Load, Unload, Crash, lists
  <2>2. ASSUME NEW t \in Thread, WorkerStep(t) PROVE u \notin cooling
    <3>1. CASE Take(t)
      BY <3>1 DEF Take, IInv, NotQueued
    <3>2. CASE ~Take(t)
      BY <2>2, <3>2 DEF WorkerStep, Exit, LookForFile, Respond, Open, OpenFails, Write,
         WriteFails, Finish, NoLongerInFlight, lists
    <3> QED BY <3>1, <3>2
  <2> QED BY <2>1, <2>2 DEF Next, FrameStep
<1> QED BY <1>1, Invariance, PTL DEF Spec, NoRetryWhileCooling

-----------------------------------------------------------------------------
(* The pool. *)

\* The workers of the icons are those of Worker, as far as the queue can tell
\* (Start, Stop, WorkerLoop).
THEOREM ImplementsPool == Spec => RefinesPool
<1>1. Init => Pool!Init
  BY DEF Init, FirstWorker, Pool!Init, Pool!NewProcess, Alive
<1>2. TypeOK /\ [Next]_vars => [Pool!Next]_Pool!vars
  <2> SUFFICES ASSUME TypeOK, [Next]_vars PROVE [Pool!Next]_Pool!vars
    OBVIOUS
  <2>1. CASE Load
    <3>1. ASSUME NEW t \in Thread \ Alive, pc' = [pc EXCEPT ![t] = "idle"]
          PROVE  Alive' = Alive \cup {t}
      BY <3>1 DEF Alive, TypeOK
    <3> QED BY <2>1, <3>1 DEF Load, Pool!Load, Pool!Next, Alive
  <2>2. CASE Unload
    BY <2>2 DEF Unload, Pool!Unload, Pool!Next, Alive
  <2>3. CASE Crash
    BY <2>3 DEF Crash, FirstWorker, Alive, Pool!EndOfProcess, Pool!NewProcess, Pool!Next
  <2>4. CASE QueueDownload \/ UNCHANGED vars \/ \E u \in Url : LookForIcon(u) \/ CooldownOver(u)
    BY <2>4 DEF QueueDownload, LookForIcon, CooldownOver, vars, Alive, Pool!vars
  <2>5. ASSUME NEW t \in Thread, WorkerStep(t) PROVE [Pool!Next]_Pool!vars
    <3>1. UNCHANGED <<loaded, stop>> /\ \A s \in Thread : s # t => pc'[s] = pc[s]
      BY <2>5, WorkerFrame
    <3>2. CASE Exit(t)
      BY <3>1, <3>2 DEF Exit, Goto, Alive, TypeOK, Pool!Leave, Pool!Next
    <3>3. CASE pc[t] # "off" /\ pc'[t] # "off"
      BY <3>1, <3>3 DEF Alive, Pool!vars
    <3> QED BY <2>5, <3>2, <3>3 DEF WorkerStep, Take, LookForFile, AfterLook, Respond, Open,
               OpenFails, Write, WriteFails, Finish, Goto, TypeOK
  <2> QED BY <2>1, <2>2, <2>3, <2>4, <2>5 DEF Next
<1> QED BY <1>1, <1>2, TypeCorrect, PTL DEF Spec, RefinesPool, Pool!Spec

-----------------------------------------------------------------------------
(* The attempts. *)

\* Who is done with a URL has left a file there if it succeeded, and only then.
Outcome ==
  \A t \in Thread : /\ pc[t] = "failed" => file[url[t]] = "none"
                    /\ pc[t] = "succeeded" => file[url[t]] # "none"

\* What is in flight is with some thread, and does not cool down.
HasThread ==
  \A u \in inFlight : u \notin cooling /\ \E t \in Thread : url[t] = u

AInv == IInv /\ Outcome /\ HasThread

LEMMA OutcomeStep == IInv /\ Outcome /\ [Next]_vars => Outcome'
<1> SUFFICES ASSUME IInv, Outcome, [Next]_vars PROVE Outcome'
  OBVIOUS
<1> USE DEF IInv, Outcome
<1>1. CASE FrameStep
  BY <1>1 DEF FrameStep, LookForIcon, CooldownOver, QueueDownload, Load, Unload, lists, TypeOK, Alive
<1>2. CASE Crash
  BY <1>2 DEF Crash, FirstWorker
<1>3. ASSUME NEW t \in Thread, WorkerStep(t) PROVE Outcome'
  <2>1. \A s \in Thread : s # t => pc'[s] = pc[s] /\ url'[s] = url[s]
    BY <1>3, WorkerFrame
  <2>2. \A s \in Thread : s # t /\ pc[s] \in Downloading => url[s] # url[t]
    BY NoneAssumption DEF OneDownloadPerUrl, TypeOK
  <2>3. CASE Exit(t) \/ Take(t) \/ Finish(t)
    BY <2>1, <2>3 DEF Exit, Take, Finish, Goto, TypeOK, lists
  <2>4. CASE LookForFile(t)
    BY <2>1, <2>4 DEF LookForFile, AfterLook, OnDisk, Goto, TypeOK, lists
  <2>5. CASE Respond(t) \/ OpenFails(t)
    BY <2>1, <2>5 DEF Respond, OpenFails, Clear, Goto, TypeOK, lists
  <2>6. CASE Open(t)
    BY <2>1, <2>2, <2>6 DEF Open, Downloading, Goto, TypeOK, lists
  <2>7. CASE Write(t) \/ WriteFails(t)
    BY <2>1, <2>2, <2>7 DEF Write, WriteFails, Truncated, Downloading, Goto, TypeOK, lists
  <2> QED BY <1>3, <2>3, <2>4, <2>5, <2>6, <2>7 DEF WorkerStep
<1>4. CASE UNCHANGED vars
  BY <1>4 DEF vars, lists
<1> QED BY <1>1, <1>2, <1>3, <1>4 DEF Next, FrameStep

LEMMA HasThreadStep == IInv /\ HasThread /\ [Next]_vars => HasThread'
<1> SUFFICES ASSUME IInv, HasThread, [Next]_vars PROVE HasThread'
  OBVIOUS
<1> USE DEF IInv, HasThread
<1>1. CASE FrameStep
  BY <1>1 DEF FrameStep, LookForIcon, CooldownOver, QueueDownload, Load, Unload, lists
<1>2. CASE Crash
  BY <1>2 DEF Crash
<1>3. ASSUME NEW t \in Thread, WorkerStep(t) PROVE HasThread'
  <2>1. \A s \in Thread : s # t => url'[s] = url[s]
    BY <1>3, WorkerFrame
  <2>2. CASE Take(t)
    <3>1. url[t] = None /\ url'[t] \in pending /\ inFlight' = inFlight \cup {url'[t]}
          /\ UNCHANGED cooling
      BY <2>2 DEF Take, TypeOK, Downloading
    <3> QED BY <2>1, <3>1, NoneAssumption DEF NotQueued, TypeOK
  <2>3. CASE Finish(t)
    <3>1. inFlight' = inFlight \ {url[t]} /\ cooling' \subseteq cooling \cup {url[t]}
      BY <2>3 DEF Finish, NoLongerInFlight
    <3> QED BY <2>1, <3>1
  <2>4. CASE ~Take(t) /\ ~Finish(t)
    BY <1>3, <2>4 DEF WorkerStep, Exit, LookForFile, Respond, Open, OpenFails, Write,
       WriteFails, lists
  <2> QED BY <2>2, <2>3, <2>4
<1>4. CASE UNCHANGED vars
  BY <1>4 DEF vars, lists
<1> QED BY <1>1, <1>2, <1>3, <1>4 DEF Next, FrameStep

LEMMA AttemptsInvariance == Spec => []AInv
<1>1. Init => AInv
  <2> SUFFICES ASSUME Init PROVE AInv
    OBVIOUS
  <2>1. \A t \in Thread : pc[t] \in {"off", "idle"}
    BY DEF Init, FirstWorker
  <2> QED BY <2>1, InitIInv DEF AInv, Outcome, HasThread, Init
<1>2. AInv /\ [Next]_vars => AInv'
  BY TypeStep, QueueStep, FileStep, ShortStep, OutcomeStep, HasThreadStep DEF AInv, IInv
<1> QED BY <1>1, <1>2, PTL DEF Spec

\* Where a thread that is at a URL has it.
LEMMA MadeBy ==
  ASSUME IInv, NEW t \in Thread, url[t] # None
  PROVE  url[t] \in Url /\ Attempt[url[t]] = "made"
  BY DEF IInv, TypeOK, OneDownloadPerUrl, Attempt

\* The files, seen through the threads: a thread that writes tells of its own.
LEMMA DiskTells ==
  ASSUME IInv, NEW t \in Thread, url[t] # None
  PROVE  Disk[url[t]] = IF pc[t] = "write" THEN "writing" ELSE file[url[t]]
  BY DEF IInv, TypeOK, OneDownloadPerUrl, Disk

\* A step that writes no file, and moves nobody who does, leaves the files.
LEMMA DiskStays ==
  ASSUME UNCHANGED file,
         \A t \in Thread : \/ pc'[t] = pc[t] /\ url'[t] = url[t]
                           \/ pc[t] # "write" /\ pc'[t] # "write"
  PROVE  UNCHANGED Disk
<1>1. \A u \in Url : (\E t \in Thread : pc'[t] = "write" /\ url'[t] = u)
                     <=> \E t \in Thread : pc[t] = "write" /\ url[t] = u
  OBVIOUS
<1> QED BY <1>1 DEF Disk

\* The steps of frames, of Load() and Unload() and of the clock.
LEMMA FrameAttempts ==
  ASSUME AInv, FrameStep PROVE [Attempts!Next]_Attempts!vars
<1>1. UNCHANGED Disk
  <2>1. CASE Load
    BY <2>1, DiskStays DEF Load, Alive, AInv, IInv, TypeOK
  <2>2. CASE ~Load
    <3>1. UNCHANGED <<file, pc, url>>
      BY <2>2 DEF FrameStep, LookForIcon, CooldownOver, QueueDownload, Unload
    <3> QED BY <3>1, DiskStays
  <2> QED BY <2>1, <2>2
<1>2. CASE UNCHANGED lists
  <2>1. UNCHANGED Attempt
    BY <1>2 DEF lists, Attempt
  <2> QED BY <1>1, <2>1 DEF Attempts!vars
<1>3. ASSUME NEW u \in Url, CooldownOver(u) PROVE Attempts!Next
  <2>1. u \notin pending /\ u \notin inFlight /\ u \in cooling
    BY <1>3 DEF CooldownOver, AInv, IInv, NotQueued, HasThread
  <2>2. Attempt[u] = "pause" /\ Attempt' = [Attempt EXCEPT ![u] = "none"]
    BY <1>3, <2>1 DEF CooldownOver, Attempt
  <2> QED BY <1>1, <2>2 DEF Attempts!PauseOver, Attempts!Next
<1>4. CASE QueueDownload /\ pending' # pending
  <2>1. /\ asking \in Url \ (pending \cup inFlight \cup cooling)
        /\ pending' = pending \cup {asking} /\ UNCHANGED <<inFlight, cooling>>
    BY <1>4 DEF QueueDownload, MayQueue, AInv, IInv, TypeOK
  <2>2. Attempt[asking] = "none" /\ Attempt' = [Attempt EXCEPT ![asking] = "queued"]
    BY <2>1 DEF Attempt
  <2> QED BY <1>1, <2>1, <2>2 DEF Attempts!Ask, Attempts!Next
<1> QED BY <1>2, <1>3, <1>4 DEF FrameStep, LookForIcon, QueueDownload, Load, Unload, lists

LEMMA CrashAttempts ==
  ASSUME AInv, Crash PROVE Attempts!EndOfProcess
<1>1. Attempt' = [u \in Url |-> "none"]
  BY DEF Crash, Attempt
<1>2. \A t \in Thread : pc'[t] # "write"
  BY DEF Crash, FirstWorker
<1>3. \A u \in Url : /\ Disk'[u] = file[u]
                     /\ Disk[u] = "writing" => file[u] = "short"
                     /\ Disk[u] # "writing" => file[u] = Disk[u]
  <2>1. \A u \in Url : Disk'[u] = file[u]
    BY <1>2 DEF Disk, Crash
  <2>2. \A u \in Url : file[u] # "writing"
    BY DEF AInv, IInv, TypeOK
  <2> QED BY <2>1, <2>2 DEF Disk, AInv, IInv, Truncated
<1>4. Disk' = [u \in Url |-> IF Disk[u] = "writing" THEN "short" ELSE Disk[u]]
  BY <1>3 DEF Disk
<1> QED BY <1>1, <1>4 DEF Attempts!EndOfProcess

\* The steps of a worker: it begins an attempt, opens and closes the file, and
\* ends the attempt.
LEMMA WorkerAttempts ==
  ASSUME AInv, NEW t \in Thread, WorkerStep(t) PROVE [Attempts!Next]_Attempts!vars
<1>1. \A s \in Thread : s # t => pc'[s] = pc[s] /\ url'[s] = url[s]
  BY WorkerFrame DEF AInv, IInv
<1>2. AInv /\ TypeOK
  BY DEF AInv, IInv
<1>3. CASE Take(t)
  <2>1. PICK u \in pending : /\ pending' = pending \ {u} /\ inFlight' = inFlight \cup {u}
                             /\ UNCHANGED <<cooling, file>>
    BY <1>3 DEF Take
  <2>2. UNCHANGED Disk
    BY <1>1, <1>2, <1>3, DiskStays DEF Take, Goto, TypeOK
  <2>3. u \in Url /\ Attempt[u] = "queued" /\ Attempt' = [Attempt EXCEPT ![u] = "made"]
    BY <1>2, <2>1 DEF TypeOK, Attempt
  <2> QED BY <2>2, <2>3 DEF Attempts!Begin, Attempts!Next
<1>4. CASE Finish(t)
  <2>1. /\ pc[t] \in {"succeeded", "failed"} /\ url[t] # None
        /\ inFlight' = inFlight \ {url[t]} /\ UNCHANGED <<pending, file>>
        /\ cooling' = IF pc[t] = "failed" THEN cooling \cup {url[t]} ELSE cooling \ {url[t]}
        /\ pc'[t] = "idle"
    BY <1>2, <1>4 DEF Finish, NoLongerInFlight, Goto, TypeOK, Downloading
  <2>2. UNCHANGED Disk
    BY <1>1, <2>1, DiskStays
  <2>3. url[t] \in Url /\ url[t] \notin pending
    BY <1>2, <2>1 DEF IInv, AInv, OneDownloadPerUrl, TypeOK
  <2>4. Attempt' = [Attempt EXCEPT ![url[t]] = IF pc[t] = "failed" THEN "pause" ELSE "none"]
    BY <2>1, <2>3 DEF Attempt
  <2>5. Disk[url[t]] = file[url[t]] /\ Attempt[url[t]] = "made" /\ Disk[url[t]] # "writing"
    BY <1>2, <2>1, <2>3, DiskTells, MadeBy DEF AInv, TypeOK
  <2>6. pc[t] = "failed" <=> Disk[url[t]] = "none"
    BY <2>1, <2>5 DEF AInv, Outcome
  <2> QED BY <2>2, <2>3, <2>4, <2>5, <2>6 DEF Attempts!End, Attempts!Next
<1>5. CASE Open(t)
  <2>1. /\ pc[t] = "open" /\ url[t] # None /\ url[t] \in Url /\ pc'[t] = "write"
        /\ UNCHANGED <<url, lists>>
        /\ \A u \in Url : u # url[t] => file'[u] = file[u]
    BY <1>2, <1>5 DEF Open, Goto, TypeOK, Downloading
  <2>2. UNCHANGED Attempt
    BY <2>1 DEF Attempt, lists
  <2>3. Disk' = [Disk EXCEPT ![url[t]] = "writing"]
    BY <1>1, <2>1 DEF Disk
  <2>4. Disk[url[t]] = "none" /\ Attempt[url[t]] = "made"
    BY <1>2, <2>1, DiskTells, MadeBy DEF AInv, IInv, Clear
  <2> QED BY <2>1, <2>2, <2>3, <2>4 DEF Attempts!Open, Attempts!Next
<1>6. CASE Write(t) \/ WriteFails(t)
  <2>1. /\ pc[t] = "write" /\ url[t] # None /\ url[t] \in Url /\ pc'[t] = "succeeded"
        /\ UNCHANGED <<url, lists>>
        /\ \A u \in Url : u # url[t] => file'[u] = file[u]
        /\ file'[url[t]] \in {"whole", "short"}
    BY <1>2, <1>6 DEF Write, WriteFails, Goto, TypeOK, Downloading, AInv, IInv, Truncated
  <2>2. UNCHANGED Attempt
    BY <2>1 DEF Attempt, lists
  <2>3. \A s \in Thread : s # t => url[s] # url[t]
    BY <1>2, <2>1 DEF AInv, IInv, OneDownloadPerUrl
  <2>4. Disk' = [Disk EXCEPT ![url[t]] = file'[url[t]]]
    BY <1>1, <2>1, <2>3 DEF Disk
  <2>5. Disk[url[t]] = "writing" /\ Attempt[url[t]] = "made"
    BY <1>2, <2>1, DiskTells, MadeBy DEF AInv
  <2> QED BY <2>1, <2>2, <2>4, <2>5 DEF Attempts!Close, Attempts!Next
<1>7. CASE Exit(t) \/ LookForFile(t) \/ Respond(t) \/ OpenFails(t)
  <2>1. UNCHANGED <<file, lists>> /\ pc[t] # "write" /\ pc'[t] # "write"
    BY <1>2, <1>7 DEF Exit, LookForFile, AfterLook, Respond, OpenFails, Goto, TypeOK
  <2>2. UNCHANGED Disk /\ UNCHANGED Attempt
    BY <1>1, <2>1, DiskStays DEF Attempt, lists
  <2> QED BY <2>2 DEF Attempts!vars
<1> QED BY <1>3, <1>4, <1>5, <1>6, <1>7 DEF WorkerStep

\* To each icon the frames, the queue, the workers and the reloads look like
\* one attempt after another, with a pause after one that brought no file, and
\* its file is written once (RequestDownload, WorkerLoop, DownloadToCache).
THEOREM ImplementsAttempts == Spec => RefinesAttempts
<1>1. Init => Attempts!Init
  <2> SUFFICES ASSUME Init PROVE Attempts!Init
    OBVIOUS
  <2>1. \A t \in Thread : pc[t] # "write"
    BY DEF Init, FirstWorker
  <2> QED BY <2>1 DEF Init, Attempt, Disk, Attempts!Init
<1>2. AInv /\ [Next]_vars => [Attempts!Next]_Attempts!vars
  <2> SUFFICES ASSUME AInv, [Next]_vars PROVE [Attempts!Next]_Attempts!vars
    OBVIOUS
  <2>1. CASE UNCHANGED vars
    BY <2>1 DEF vars, lists, Attempt, Disk, Attempts!vars
  <2> QED BY <2>1, FrameAttempts, CrashAttempts, WorkerAttempts DEF Next, FrameStep, Attempts!Next
<1> QED BY <1>1, <1>2, AttemptsInvariance, PTL DEF Spec, RefinesAttempts, Attempts!Spec

-----------------------------------------------------------------------------

\* Nothing is in flight but what a thread is downloading at this moment, and what
\* cools down neither waits nor is in flight: so a URL that can be neither queued
\* nor retried by the clock is in the hands of a worker, and once it lets go of
\* it none is "stuck forever".
NoneIsStuck ==
  /\ inFlight = {url[t] : t \in Thread} \ {None}
  /\ cooling \cap (pending \cup inFlight) = {}

\* The in-flight set never outgrows the downloads under way, over failures,
\* exceptions, crashes and reloads (RequestDownload, WorkerLoop).
THEOREM InFlightIsDownloaded == Spec => []NoneIsStuck
<1>1. AInv => NoneIsStuck
  <2> SUFFICES ASSUME AInv PROVE NoneIsStuck
    OBVIOUS
  <2>1. \A u \in inFlight : u # None /\ u \notin cooling /\ \E t \in Thread : url[t] = u
    BY NoneAssumption DEF AInv, HasThread, IInv, TypeOK
  <2>2. \A t \in Thread : url[t] # None => url[t] \in inFlight
    BY DEF AInv, IInv, OneDownloadPerUrl
  <2>3. pending \cap cooling = {}
    BY DEF AInv, IInv, NotQueued
  <2>4. inFlight = {url[t] : t \in Thread} \ {None}
    BY <2>1, <2>2
  <2>5. cooling \cap (pending \cup inFlight) = {}
    BY <2>1, <2>3
  <2> QED BY <2>4, <2>5 DEF NoneIsStuck
<1> QED BY <1>1, AttemptsInvariance, PTL

-----------------------------------------------------------------------------

\* What IsCached() has told once has a file.
ConfirmedExists == \A u \in confirmed : file[u] # "none"

LEMMA ConfirmedStep == TypeOK /\ ConfirmedExists /\ [Next]_vars => ConfirmedExists'
<1> SUFFICES ASSUME TypeOK, ConfirmedExists, [Next]_vars PROVE ConfirmedExists'
  OBVIOUS
<1> USE DEF ConfirmedExists
<1>1. ASSUME NEW u \in Url, LookForIcon(u) PROVE ConfirmedExists'
  BY <1>1 DEF LookForIcon, IsCached, OnDisk
<1>2. CASE (\E u \in Url : CooldownOver(u)) \/ QueueDownload \/ Load \/ Unload
  BY <1>2 DEF CooldownOver, QueueDownload, Load, Unload
<1>3. CASE Crash
  BY <1>3 DEF Crash
<1>4. ASSUME NEW t \in Thread, WorkerStep(t) PROVE ConfirmedExists'
  <2>1. UNCHANGED confirmed
    BY <1>4, WorkerFrame
  <2>2. CASE UNCHANGED file
    BY <2>1, <2>2
  <2>3. CASE Open(t) \/ Write(t)
    BY <2>1, <2>3 DEF Open, Write, TypeOK
  <2> QED
    BY <1>4, <2>2, <2>3 DEF WorkerStep, Exit, Take, LookForFile, Respond, OpenFails, WriteFails,
                            Finish
<1>5. CASE UNCHANGED vars
  BY <1>5 DEF vars
<1> QED BY <1>1, <1>2, <1>3, <1>4, <1>5 DEF Next

\* ConfirmedIsWhole, short of the two ways it fails.
ConfirmedUnlessCut ==
  \A u \in confirmed :
    file[u] = "whole" \/ u \in cut \/ \E t \in Thread : pc[t] = "write" /\ url[t] = u

\* What is true of the claim that an icon "can never become un-cached": what
\* IsCached() has told once is whole, unless it is being written at this moment
\* or its write was cut short (IsCached, DownloadToCache).
THEOREM ConfirmedFailsTwoWays == Spec => []ConfirmedUnlessCut
<1>1. Init => ConfirmedExists
  BY DEF Init, ConfirmedExists
<1>2. IInv /\ ConfirmedExists => ConfirmedUnlessCut
  BY DEF IInv, ConfirmedExists, ConfirmedUnlessCut, ShortWhenCut, TypeOK
<1>3. Spec => []TypeOK
  BY TypeCorrect
<1> QED BY <1>1, <1>2, <1>3, ConfirmedStep, Invariance, PTL DEF Spec

=============================================================================
