---------------------------- MODULE SessionClock ----------------------------
(***************************************************************************)
(* How long the session has lasted, which the window shows and divides the *)
(* profit by: SessionTracker's _sessionStart and _priorElapsedSeconds, and *)
(* elapsed_seconds in session.json.  Its steady_clock starts anew with     *)
(* each process, so the time is carried over in the file, in whole         *)
(* seconds.                                                                *)
(*                                                                         *)
(* SessionStore has the totals that are saved with it.  Here only matters  *)
(* whether the totals in a save are those of the session it timed.         *)
(***************************************************************************)
EXTENDS Integers

CONSTANTS
  Second,     \* ticks of steady_clock in a second
  MaxTime,    \* bound: when the clock stops
  MaxLoads,   \* bound: how often a session is loaded
  NoDocument  \* session.json is missing, or does not parse

\* A clock's life: for how many ticks the addon has been loaded since the reset
\* it goes back to, how often it was restored since, whether time with the
\* addon unloaded was counted, and whether the totals are of another session.
Life == [played : Nat, loads : Nat, idled : BOOLEAN, torn : BOOLEAN]

Document == [elapsed : Nat, life : Life]

ASSUME SecondAssumption == Second \in Nat \ {0}
ASSUME BoundsAssumption == MaxTime \in Nat /\ MaxLoads \in Nat
ASSUME NoDocumentAssumption == NoDocument \notin Document

Saver == {"main", "autosave"}

VARIABLES
  now,     \* steady_clock::now()
  phase,   \* the addon is loaded, or where the call in progress is
  start,   \* _sessionStart
  prior,   \* _priorElapsedSeconds
  save,    \* the SaveSessionState() each saver is in, and what it has read
  file,    \* session.json
  life,    \* history: the life of the clock in memory
  mishap   \* history: since the last reset a process or a save by main has failed

tracker == <<start, prior, life>>
vars    == <<now, phase, tracker, save, file, mishap>>

NewLife == [played |-> 0, loads |-> 0, idled |-> FALSE, torn |-> FALSE]
Idle    == [pc |-> "idle", elapsed |-> 0, life |-> NewLife]

\* The phases in which main saves, and where each continues.
AfterSave == [loadSave |-> "idle", resetSave |-> "idle", unloadSave |-> "unloaded"]
Saving    == DOMAIN AfterSave

TypeOK ==
  /\ now \in Nat
  /\ phase \in {"unloaded", "load", "idle"} \cup Saving
  /\ start \in 0 .. now
  /\ prior \in Nat
  /\ save \in [Saver -> [pc : {"idle", "start", "timed", "ready", "opened"},
                         elapsed : Nat, life : Life]]
  /\ file \in Document \cup {NoDocument}
  /\ life \in Life
  /\ mishap \in BOOLEAN

Init ==
  /\ now = 0
  /\ phase = "unloaded"
  /\ start = 0
  /\ prior = 0
  /\ save = [s \in Saver |-> Idle]
  /\ file = NoDocument
  /\ life = NewLife
  /\ mishap = FALSE

-----------------------------------------------------------------------------

Tick ==
  /\ now < MaxTime
  /\ now' = now + 1
  /\ life' = IF phase = "unloaded" THEN [life EXCEPT !.idled = TRUE]
                                   ELSE [life EXCEPT !.played = @ + 1]
  /\ UNCHANGED <<phase, start, prior, save, file, mishap>>

\* GetElapsedSeconds(): duration_cast cuts the fraction off.
Elapsed == prior + (now - start) \div Second

\* The end of the process: the next one's tracker is new.
Crash ==
  /\ phase' = "unloaded"
  /\ start' = now
  /\ prior' = 0
  /\ save' = [s \in Saver |-> Idle]
  /\ life' = NewLife
  /\ mishap' = (mishap \/ phase # "unloaded")
  /\ UNCHANGED <<now, file>>

-----------------------------------------------------------------------------
(* SaveSessionState(), by either saver. *)

Step(s, pc) == save' = [save EXCEPT ![s].pc = pc]

\* The call returns; whole tells if it wrote all of the file.
Return(s, whole) ==
  /\ save' = [save EXCEPT ![s] = Idle]
  /\ IF s = "main"
       THEN phase' = AfterSave[phase] /\ mishap' = (mishap \/ ~whole)
       ELSE UNCHANGED <<phase, mishap>>

\* GetElapsedSeconds(), under the tracker's lock ...
ReadClock(s) ==
  /\ save[s].pc = "start"
  /\ save' = [save EXCEPT ![s] = [pc |-> "timed", elapsed |-> Elapsed, life |-> life]]
  /\ UNCHANGED <<now, phase, tracker, file, mishap>>

\* ... and the totals, under the lock taken again.
ReadTotals(s) ==
  /\ save[s].pc = "timed"
  /\ Step(s, "ready")
  /\ UNCHANGED <<now, phase, tracker, file, mishap>>

\* The truncating open, or one that fails.
Open(s) ==
  /\ save[s].pc = "ready"
  /\ \/ Step(s, "opened") /\ file' = NoDocument /\ UNCHANGED <<phase, mishap>>
     \/ Return(s, FALSE) /\ UNCHANGED file
  /\ UNCHANGED <<now, tracker>>

\* The document is written; or not all of it, or over another saver's.
Write(s) ==
  /\ save[s].pc = "opened"
  /\ \/ file' = [elapsed |-> save[s].elapsed, life |-> save[s].life] /\ Return(s, TRUE)
     \/ file' = NoDocument /\ Return(s, FALSE)
  /\ UNCHANGED <<now, tracker>>

\* AutosaveWorkerLoop(): the thread runs from the end of Load() to the join.
AutosaveTick ==
  /\ phase \in {"idle", "resetSave"}
  /\ save["autosave"].pc = "idle"
  /\ Step("autosave", "start")
  /\ UNCHANGED <<now, phase, tracker, file, mishap>>

-----------------------------------------------------------------------------
(* Load(), Unload() and the resets. *)

\* Slip: the start of the session stays the one of before.
LoadPersistedKeepsStart ==
  /\ prior' = file.elapsed
  /\ life' = [file.life EXCEPT !.loads = @ + 1]
  /\ UNCHANGED start

\* SessionTracker::LoadPersisted().
LoadPersisted ==
  /\ prior' = file.elapsed
  /\ start' = now
  /\ life' = [file.life EXCEPT !.loads = @ + 1]

\* LoadSessionState(): without a document the tracker is left as it is.
Load ==
  /\ phase = "unloaded"
  /\ phase' = "load"
  /\ IF file = NoDocument
       THEN UNCHANGED tracker
       ELSE file.life.loads < MaxLoads /\ LoadPersisted
  /\ UNCHANGED <<now, save, file, mishap>>

\* SessionTracker::Reset() and the save that follows.  A save that has read the
\* clock and not yet the totals will have the totals of the new session.
ResetAndSave(to) ==
  /\ start' = now
  /\ prior' = 0
  /\ life' = NewLife
  /\ mishap' = FALSE
  /\ phase' = to
  /\ save' = [s \in Saver |->
       IF s = "main" THEN [Idle EXCEPT !.pc = "start"]
       ELSE IF save[s].pc = "timed" THEN [save[s] EXCEPT !.life.torn = TRUE]
       ELSE save[s]]
  /\ UNCHANGED <<now, file>>

LoadCheck ==
  /\ phase = "load"
  /\ \/ ResetAndSave("loadSave")
     \/ phase' = "idle" /\ UNCHANGED <<now, tracker, save, file, mishap>>

\* The automatic reset of a frame, or the Reset button.
Reset ==
  /\ phase = "idle"
  /\ ResetAndSave("resetSave")

\* Slip: Unload() goes on without waiting for the thread.
JoinedAtOnce == TRUE

\* g_autosaveThread.join() has returned.
Joined == save["autosave"].pc = "idle"

Unload ==
  /\ phase = "idle"
  /\ Joined
  /\ phase' = "unloadSave"
  /\ save' = [save EXCEPT !["main"].pc = "start"]
  /\ UNCHANGED <<now, tracker, file, mishap>>

-----------------------------------------------------------------------------

Next ==
  \/ Tick
  \/ Crash
  \/ \E s \in Saver : ReadClock(s) \/ ReadTotals(s) \/ Open(s) \/ Write(s)
  \/ AutosaveTick
  \/ Load
  \/ LoadCheck
  \/ Reset
  \/ Unload

Spec == Init /\ [][Next]_vars

-----------------------------------------------------------------------------

\* A time that is shown or saved is the time the addon was loaded in the life it
\* counts, and never more: each load, and the session's first, costs less than
\* a second.
Tells(elapsed, l) ==
  ~l.idled => /\ Second * elapsed <= l.played
              /\ l.played <= Second * elapsed + (l.loads + 1) * (Second - 1)

\* The session's time counts neither the time the addon was unloaded nor any time
\* twice, over resets, reloads, crashes, failing and overtaken saves: the clock
\* restarts wherever the carried time is set (LoadPersisted, Reset,
\* GetElapsedSeconds).  Only a session that goes on, or begins, in memory because
\* there is no document counts time away.
ClockIsTimeLoaded ==
  /\ Tells(Elapsed, life)
  /\ file # NoDocument => Tells(file.elapsed, file.life)

\* The clock is of the session whose totals are shown, so that the profit per
\* hour is of one session: an autosave in which a reset came between its two
\* reads is always written over by the save of Unload(), which joins that
\* thread first, unless that save or the process fails (SaveSessionState,
\* StopAutosaveThread).
ClockOfItsTotals == ~mishap => ~life.torn
=============================================================================
