---------------------------- MODULE SessionStore ----------------------------
(***************************************************************************)
(* The farming session: drops received from DRF, the running totals of     *)
(* SessionTracker, and session.json.                                       *)
(*                                                                         *)
(* Three threads meet here.                                                *)
(*   - the websocket thread queues drops (DrfClient::_pendingDrops);       *)
(*   - whoever holds g_lifecycleMutex ("main": a frame of AddonRender, the *)
(*     options panel, Load() or Unload()) drains the queue, applies the    *)
(*     drops, resets, loads and saves;                                     *)
(*   - the autosave thread saves every 30 seconds.                         *)
(* SaveSessionState() takes no lock of its own, so the two savers          *)
(* interleave at every step: the two locked reads of the totals, the       *)
(* truncating open and the write.                                          *)
(*                                                                         *)
(* Data is abstracted to what the properties tell apart.  A drop is a      *)
(* number, in order of arrival; a totals map is, for every drop, how many  *)
(* times its deltas have been added.  Every drop carries item deltas and   *)
(* currency deltas.                                                        *)
(***************************************************************************)
EXTENDS Naturals, Sequences

CONSTANT MaxDrops  \* bound: how many drops DRF sends in a behaviour

ASSUME MaxDropsAssumption == MaxDrops \in Nat

Drop   == 1 .. MaxDrops
Totals == [Drop -> Nat]
Zero   == [d \in Drop |-> 0]

\* The two threads that run SaveSessionState().
Saver == {"main", "autosave"}

\* A part of session.json: which saver wrote it, and the map it holds.  An
\* absent part is a file that is missing, empty or cut before that part.
Absent == [by |-> "nobody", map |-> Zero]
Part   == [by : Saver, map : Totals] \cup {Absent}

\* Where a saver is inside SaveSessionState().
SavePC == {"idle", "start", "gotItems", "ready", "opened", "half"}
Idle   == [pc |-> "idle", items |-> Zero, currencies |-> Zero]

\* Where the holder of g_lifecycleMutex is, and what follows each of its saves.
AfterSave == [checkSave  |-> "ui",        uiSave     |-> "free",
              loadSave   |-> "loadStart", unloadSave |-> "unloadStop"]
Saving    == DOMAIN AfterSave
MainPC    == Saving \cup {"free", "apply", "check", "ui", "load", "loadCheck",
                          "loadStart", "unloadJoin", "unloadStop"}

VARIABLES
  delivered,   \* how many drops DRF has sent so far
  receiving,   \* the websocket is started
  pending,     \* DrfClient::_pendingDrops
  drained,     \* what DrainDrops() returned and the frame has yet to apply
  items,       \* SessionTracker::_itemTotals
  currencies,  \* SessionTracker::_currencyTotals
  loaded,      \* g_loaded
  main,        \* where the holder of g_lifecycleMutex is
  stop,        \* g_autosaveStop
  autosave,    \* the autosave thread
  save,        \* the SaveSessionState() each saver is in
  saved,       \* the latest save by main in this process wrote the whole file
  file         \* session.json, its parts in the order they are written

tracker == <<items, currencies>>
feed    == <<delivered, receiving, pending>>
vars    == <<delivered, receiving, pending, drained, items, currencies, loaded,
             main, stop, autosave, save, saved, file>>

TypeOK ==
  /\ delivered \in 0 .. MaxDrops
  /\ receiving \in BOOLEAN
  /\ pending \in Seq(Drop)
  /\ drained \in Seq(Drop)
  /\ main # "apply" => drained = <<>>
  /\ items \in Totals
  /\ currencies \in Totals
  /\ loaded \in BOOLEAN
  /\ main \in MainPC
  /\ stop \in BOOLEAN
  /\ autosave \in {"none", "waiting", "saving", "exited"}
  /\ save \in [Saver -> [pc : SavePC, items : Totals, currencies : Totals]]
  /\ saved \in BOOLEAN
  /\ file \in [currencies : Part, items : Part]

Init ==
  /\ delivered = 0
  /\ receiving = FALSE
  /\ pending = <<>>
  /\ drained = <<>>
  /\ items = Zero
  /\ currencies = Zero
  /\ loaded = FALSE
  /\ main = "free"
  /\ stop = FALSE
  /\ autosave = "none"
  /\ save = [s \in Saver |-> Idle]
  /\ saved = FALSE
  /\ file = [currencies |-> Absent, items |-> Absent]

-----------------------------------------------------------------------------
(* The websocket thread. *)

\* OnMessageImpl: a data message that passes the filters is queued.
ReceiveDrop ==
  /\ receiving
  /\ delivered < MaxDrops
  /\ delivered' = delivered + 1
  /\ pending' = Append(pending, delivered + 1)
  /\ UNCHANGED <<receiving, drained, tracker, loaded, main, stop, autosave,
                 save, saved, file>>

-----------------------------------------------------------------------------
(* SaveSessionState(), by either saver. *)

\* The record a saver starts from: its call has begun and read nothing yet.
Started == [Idle EXCEPT !.pc = "start"]

\* The saver returns from SaveSessionState(); whole tells if it wrote it all.
Finish(s, whole) ==
  /\ save' = [save EXCEPT ![s] = Idle]
  /\ IF s = "main"
       THEN /\ main' = AfterSave[main]
            /\ saved' = whole
            /\ UNCHANGED autosave
       ELSE /\ autosave' = "waiting"
            /\ UNCHANGED <<main, saved>>

\* Slip: the currencies are read first, then the items.
SaveReadSwapped(s) ==
  /\ \/ /\ save[s].pc = "start"
        /\ save' = [save EXCEPT ![s].pc = "gotItems", ![s].currencies = currencies]
     \/ /\ save[s].pc = "gotItems"
        /\ save' = [save EXCEPT ![s].pc = "ready", ![s].items = items]
  /\ UNCHANGED <<feed, drained, tracker, loaded, main, stop, autosave, saved, file>>

\* GetItemTotals() copies one map under the tracker's lock ...
SaveReadItems(s) ==
  /\ save[s].pc = "start"
  /\ save' = [save EXCEPT ![s].pc = "gotItems", ![s].items = items]
  /\ UNCHANGED <<feed, drained, tracker, loaded, main, stop, autosave, saved, file>>

\* ... and GetCurrencyTotals() the other, under the lock taken again.
SaveReadCurrencies(s) ==
  /\ save[s].pc = "gotItems"
  /\ save' = [save EXCEPT ![s].pc = "ready", ![s].currencies = currencies]
  /\ UNCHANGED <<feed, drained, tracker, loaded, main, stop, autosave, saved, file>>

\* std::ofstream(path, trunc): from here the old contents are gone.
SaveOpen(s) ==
  /\ save[s].pc = "ready"
  /\ save' = [save EXCEPT ![s].pc = "opened"]
  /\ file' = [currencies |-> Absent, items |-> Absent]
  /\ UNCHANGED <<feed, drained, tracker, loaded, main, stop, autosave, saved>>

\* file << doc.dump(2), which reaches the disk piecemeal.  The json library
\* orders keys, so the currencies come first.
SaveWriteCurrencies(s) ==
  /\ save[s].pc = "opened"
  /\ save' = [save EXCEPT ![s].pc = "half"]
  /\ file' = [file EXCEPT !.currencies = [by |-> s, map |-> save[s].currencies]]
  /\ UNCHANGED <<feed, drained, tracker, loaded, main, stop, autosave, saved>>

SaveWriteItems(s) ==
  /\ save[s].pc = "half"
  /\ file' = [file EXCEPT !.items = [by |-> s, map |-> save[s].items]]
  /\ Finish(s, TRUE)
  /\ UNCHANGED <<feed, drained, tracker, loaded, stop>>

\* The file cannot be opened, or the stream fails in the middle of the write:
\* the code looks at neither result again and returns.
SaveFails(s) ==
  /\ save[s].pc \in {"ready", "opened", "half"}
  /\ Finish(s, FALSE)
  /\ UNCHANGED <<feed, drained, tracker, loaded, stop, file>>

SaveStep(s) ==
  \/ SaveReadItems(s)
  \/ SaveReadCurrencies(s)
  \/ SaveOpen(s)
  \/ SaveWriteCurrencies(s)
  \/ SaveWriteItems(s)

-----------------------------------------------------------------------------
(* A frame of AddonRender. *)

\* Slip: the queue is copied and not emptied.
BeginFrameKeepsQueue ==
  /\ main = "free"
  /\ loaded
  /\ drained' = pending
  /\ main' = "apply"
  /\ UNCHANGED <<feed, tracker, loaded, stop, autosave, save, saved, file>>

\* Slip: a frame with the window hidden returns before it drains the queue.
BeginFrameIfVisible ==
  /\ main = "free"
  /\ loaded
  /\ \/ drained' = pending /\ pending' = <<>> /\ main' = "apply"
     \/ UNCHANGED <<drained, pending>> /\ main' = "check"
  /\ UNCHANGED <<delivered, receiving, tracker, loaded, stop, autosave, save,
                 saved, file>>

\* DrainDrops(): the queue is moved out and left empty, under its lock.
BeginFrame ==
  /\ main = "free"
  /\ loaded
  /\ drained' = pending
  /\ pending' = <<>>
  /\ main' = "apply"
  /\ UNCHANGED <<delivered, receiving, tracker, loaded, stop, autosave, save,
                 saved, file>>

\* m with the deltas of drop d added.
Plus(m, d) == [m EXCEPT ![d] = @ + 1]

\* Slip: one lock for the items, then another for the currencies.
ApplyDropUnderTwoLocks ==
  /\ main = "apply"
  /\ drained # <<>>
  /\ \/ /\ items[Head(drained)] = currencies[Head(drained)]
        /\ items' = Plus(items, Head(drained))
        /\ UNCHANGED <<currencies, drained>>
     \/ /\ items[Head(drained)] > currencies[Head(drained)]
        /\ currencies' = Plus(currencies, Head(drained))
        /\ drained' = Tail(drained)
        /\ UNCHANGED items
  /\ UNCHANGED <<feed, loaded, main, stop, autosave, save, saved, file>>

\* SessionTracker::ApplyDrop(): both maps under one lock.
ApplyDrop ==
  /\ main = "apply"
  /\ drained # <<>>
  /\ items' = Plus(items, Head(drained))
  /\ currencies' = Plus(currencies, Head(drained))
  /\ drained' = Tail(drained)
  /\ UNCHANGED <<feed, loaded, main, stop, autosave, save, saved, file>>

\* The loop over the drained drops is over.
AllApplied == drained = <<>>

EndApply ==
  /\ main = "apply"
  /\ AllApplied
  /\ main' = "check"
  /\ UNCHANGED <<feed, drained, tracker, loaded, stop, autosave, save, saved, file>>

\* Slip: the session is saved before it is reset, so the save is of the old one.
ResetAfterSave(pc) ==
  /\ items' = Zero
  /\ currencies' = Zero
  /\ save' = [save EXCEPT !["main"] = [pc |-> "ready", items |-> items,
                                       currencies |-> currencies]]
  /\ main' = pc
  /\ UNCHANGED <<feed, drained, loaded, stop, autosave, saved, file>>

\* SessionTracker::Reset() and the save that follows it; from CheckAndApply-
\* AutomaticReset() in a frame and in Load(), or from the Reset button.
ResetAndSave(pc) ==
  /\ items' = Zero
  /\ currencies' = Zero
  /\ save' = [save EXCEPT !["main"] = Started]
  /\ main' = pc
  /\ UNCHANGED <<feed, drained, loaded, stop, autosave, saved, file>>

\* No reset is due, or the check is not: on to the next part of the call.
Skip(pc) ==
  /\ main' = pc
  /\ UNCHANGED <<feed, drained, tracker, loaded, stop, autosave, save, saved, file>>

AutomaticResetCheck == main = "check" /\ (ResetAndSave("checkSave") \/ Skip("ui"))

\* The window: the Reset Session button, or nothing that concerns the session.
ResetButton == main = "ui" /\ (ResetAndSave("uiSave") \/ Skip("free"))

\* The options panel: Save && Connect, with a token or with none.
Connect ==
  /\ main = "free"
  /\ loaded
  /\ receiving' \in BOOLEAN
  /\ UNCHANGED <<delivered, pending, drained, tracker, loaded, main, stop,
                 autosave, save, saved, file>>

-----------------------------------------------------------------------------
(* Load() and Unload(). *)

BeginLoad ==
  /\ main = "free"
  /\ ~loaded
  /\ loaded' = TRUE
  /\ main' = "load"
  /\ UNCHANGED <<feed, drained, tracker, stop, autosave, save, saved, file>>

\* Whether session.json is a document, or may be one: a file cut short is not,
\* and what two savers wrote over one another may or may not be.
Complete == file.currencies # Absent /\ file.items # Absent
Mixed    == file.currencies.by # file.items.by

\* SessionTracker::LoadPersisted() replaces both maps.
LoadPersisted(i, c) == items' = i /\ currencies' = c

\* LoadSessionState(): no file, or one that does not parse, leaves the totals
\* as they are.
LoadSession ==
  /\ main = "load"
  /\ \/ Complete /\ LoadPersisted(file.items.map, file.currencies.map)
     \/ (~Complete \/ Mixed) /\ UNCHANGED tracker
  /\ main' = "loadCheck"
  /\ UNCHANGED <<feed, drained, loaded, stop, autosave, save, saved, file>>

LoadResetCheck == main = "loadCheck" /\ (ResetAndSave("loadSave") \/ Skip("loadStart"))

\* Slip: the flag the last Unload() raised is left raised.
StartAutosaveStopped ==
  IF autosave = "none"
    THEN UNCHANGED stop /\ autosave' = "waiting"
    ELSE UNCHANGED <<stop, autosave>>

\* StartAutosaveThread(): a no-op while the thread object is joinable.
StartAutosaveThread ==
  IF autosave = "none"
    THEN stop' = FALSE /\ autosave' = "waiting"
    ELSE UNCHANGED <<stop, autosave>>

\* The rest of Load(): the feed starts if there is a token, then the threads.
StartThreads ==
  /\ main = "loadStart"
  /\ receiving' \in BOOLEAN
  /\ StartAutosaveThread
  /\ main' = "free"
  /\ UNCHANGED <<delivered, pending, drained, tracker, loaded, save, saved, file>>

\* Unload() up to the join: StopAutosaveThread() raises the flag.
BeginUnload ==
  /\ main = "free"
  /\ loaded
  /\ loaded' = FALSE
  /\ stop' = TRUE
  /\ main' = "unloadJoin"
  /\ UNCHANGED <<feed, drained, tracker, autosave, save, saved, file>>

\* Slip: Unload() goes on without waiting for the thread.
JoinedAtOnce == TRUE

\* g_autosaveThread.join() returns once the loop has.
Joined == autosave \in {"none", "exited"}

JoinAutosave ==
  /\ main = "unloadJoin"
  /\ Joined
  /\ autosave' = "none"
  /\ save' = [save EXCEPT !["main"] = Started]
  /\ main' = "unloadSave"
  /\ UNCHANGED <<feed, drained, tracker, loaded, stop, saved, file>>

\* DrfClient::Stop(), after the final save: drops still arrive until here.
StopFeed ==
  /\ main = "unloadStop"
  /\ receiving' = FALSE
  /\ main' = "free"
  /\ UNCHANGED <<delivered, pending, drained, tracker, loaded, stop, autosave,
                 save, saved, file>>

-----------------------------------------------------------------------------
(* The autosave thread. *)

\* Slip: the loop's condition is the time-out alone.
MayTickAnyway == autosave = "waiting"

\* wait_for() timed out and the predicate read the flag as clear.
MayTick == autosave = "waiting" /\ ~stop

AutosaveTick ==
  /\ MayTick
  /\ autosave' = "saving"
  /\ save' = [save EXCEPT !["autosave"] = Started]
  /\ UNCHANGED <<feed, drained, tracker, loaded, main, stop, saved, file>>

AutosaveExit ==
  /\ autosave = "waiting"
  /\ stop
  /\ autosave' = "exited"
  /\ UNCHANGED <<feed, drained, tracker, loaded, main, stop, save, saved, file>>

-----------------------------------------------------------------------------
(* The end of the process, at any point of any thread: a crash of the game, *)
(* its exit, or the DLL being freed after Unload().  Only the disk is left.  *)

Crash ==
  /\ receiving' = FALSE
  /\ pending' = <<>>
  /\ drained' = <<>>
  /\ items' = Zero
  /\ currencies' = Zero
  /\ loaded' = FALSE
  /\ main' = "free"
  /\ stop' = FALSE
  /\ autosave' = "none"
  /\ save' = [s \in Saver |-> Idle]
  /\ saved' = FALSE
  /\ UNCHANGED <<delivered, file>>

-----------------------------------------------------------------------------

\* What a frame, a Load() and an Unload() do once they have begun.
MainStep ==
  \/ ApplyDrop
  \/ EndApply
  \/ AutomaticResetCheck
  \/ ResetButton
  \/ LoadSession
  \/ LoadResetCheck
  \/ StartThreads
  \/ JoinAutosave
  \/ StopFeed

\* A call into the addon by Nexus on the user's behalf.
UserStep == Connect \/ BeginLoad \/ BeginUnload

Next ==
  \/ ReceiveDrop
  \/ BeginFrame
  \/ MainStep
  \/ UserStep
  \/ AutosaveTick
  \/ AutosaveExit
  \/ \E s \in Saver : SaveStep(s) \/ SaveFails(s)
  \/ Crash

\* Nexus renders frame after frame, a call that has begun runs on, the autosave
\* timer expires and its thread is scheduled.  Nothing is assumed of DRF, of
\* the user, of failing writes or of crashes.
Fairness ==
  /\ WF_vars(BeginFrame)
  /\ WF_vars(MainStep)
  /\ WF_vars(AutosaveTick)
  /\ WF_vars(AutosaveExit)
  /\ \A s \in Saver : WF_vars(SaveStep(s))

Spec == Init /\ [][Next]_vars /\ Fairness

-----------------------------------------------------------------------------
(* Safety. *)

InSeq(d, q) == \E i \in DOMAIN q : q[i] = d

\* Received, and not yet applied to the totals.
Waiting(d) == InSeq(d, pending) \/ InSeq(d, drained)

\* Received, and waiting no longer.
Settled(d) == d <= delivered /\ ~Waiting(d)

\* A totals map in which every drop counts once at most, and none counts that
\* has not arrived or is still waiting to be applied.
CountsOnce(m) == \A d \in Drop : m[d] <= 1 /\ (m[d] > 0 => Settled(d))

\* No drop is counted twice, in memory, in a save under way or on disk, over
\* any sequence of reloads, crashes and racing saves; and nothing on disk is
\* still in the queue, where the next frame would count it once more
\* (DrainDrops, ApplyDrop, LoadPersisted).
NoDoubleCount ==
  /\ CountsOnce(items)
  /\ CountsOnce(currencies)
  /\ \A s \in Saver : CountsOnce(save[s].items) /\ CountsOnce(save[s].currencies)
  /\ CountsOnce(file.items.map)
  /\ CountsOnce(file.currencies.map)

\* The two totals are copied under two locks, so a save may mix two moments:
\* since the items are read first, a save that has a drop's items and not its
\* currencies is of a drop whose currencies the session no longer counts.  A
\* live drop is never saved without its currencies (SaveSessionState).
TornSaveIsOfADroppedDrop ==
  \A s \in Saver, d \in Drop :
    /\ save[s].pc \in {"ready", "opened", "half"}
    /\ save[s].items[d] > 0
    /\ save[s].currencies[d] = 0
    => currencies[d] = 0

\* An Unload() whose save went through leaves on disk exactly the session in
\* memory, whatever the autosave thread was doing when it began: this is what
\* joining that thread before the final save is for (StopAutosaveThread).
CleanUnloadExact ==
  ~loaded /\ main = "free" /\ saved =>
    file = [currencies |-> [by |-> "main", map |-> currencies],
            items      |-> [by |-> "main", map |-> items]]

\* A reset is on disk once the save that follows it is over: what main's own
\* save left in session.json holds no drop that a reset has since dropped.
\* Only an autosave that began before the reset can bring one back.
ResetReachesDisk ==
  saved /\ main \notin Saving =>
    \A d \in Drop :
      /\ file.items.by = "main" => file.items.map[d] <= items[d]
      /\ file.currencies.by = "main" => file.currencies.map[d] <= currencies[d]

-----------------------------------------------------------------------------
(* Action properties. *)

\* The step resets the session.
ResetStep == main # main' /\ main' \in {"checkSave", "uiSave", "loadSave"}

\* The step ends the process: nothing else takes the threads away with it.
EndOfProcess == Crash

\* A drop received stays in the queue, or with the frame that took it, until it
\* is counted, and stays counted until a reset; an Unload() and Load() between
\* lose none, unless the save in between failed.  Only the end of the process
\* takes anything else away.
NoDropLost ==
  [][\A d \in Drop :
       /\ Waiting(d) => Waiting(d)' \/ items'[d] > 0 \/ EndOfProcess
       /\ items[d] > 0 /\ items'[d] = 0 =>
            ResetStep \/ EndOfProcess \/ (main = "load" /\ ~saved)]_vars

-----------------------------------------------------------------------------
(* Liveness. *)

\* While the addon stays loaded, every drop received is eventually counted.
DropsAreCounted ==
  \A d \in Drop : (loaded /\ Waiting(d)) ~> (items[d] > 0 \/ ~loaded)

\* An Unload() that has begun ends: the autosave thread sees the flag, however
\* its ticks and its writes fall (StopAutosaveThread's blind join).
UnloadEnds == (main = "unloadJoin") ~> (main = "free")

\* The file holds the session in memory, as a save by the autosave thread.
Persisted ==
  file = [currencies |-> [by |-> "autosave", map |-> currencies],
          items      |-> [by |-> "autosave", map |-> items]]

\* Whatever two racing saves have done to the file, the autosave makes it good:
\* if from some time on the addon stays loaded, nothing is reset and no write
\* fails, the file holds the session again and again ("a missed tick isn't
\* fatal, the next one catches up").
AutosaveCatchesUp ==
  /\ <>[](loaded /\ main \notin Saving)
  /\ <>[][~ \E s \in Saver : SaveFails(s)]_vars
  => []<>Persisted

-----------------------------------------------------------------------------
(* The ledger this implements. *)

\* The drops a totals map counts, each exactly once.
Counted(m) == {d \in Drop : m[d] = 1}

KeptItems == {Counted(save[s].items) : s \in Saver} \cup {Counted(file.items.map)}
KeptCurrencies ==
  {Counted(save[s].currencies) : s \in Saver} \cup {Counted(file.currencies.map)}

L == INSTANCE Ledger WITH
       arrived <- delivered,
       queue <- drained \o pending,
       items <- Counted(items),
       currencies <- Counted(currencies),
       keptItems <- KeptItems,
       keptCurrencies <- KeptCurrencies

\* Threads, frames, locks and the file together are a ledger: each drop entered
\* once, in order, in both columns at once; cleared by a reset and by the end of
\* the process only; and restored to what it once was (ApplyDrop, DrainDrops,
\* Reset, LoadPersisted and SaveSessionState).
RefinesLedger == L!Spec

=============================================================================
