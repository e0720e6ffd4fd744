------------------------------ MODULE AutoReset ------------------------------
(***************************************************************************)
(* Automatic resets over time: the schedule in settings.json, the session  *)
(* in session.json, and the addon being loaded, unloaded and killed.       *)
(*                                                                         *)
(* A session is abstracted to the time since when it counts; a reset sets  *)
(* that to now.  A save of either file is one step here (SessionStore has  *)
(* the steps inside); an autosave is two, since a reset can fall between   *)
(* its read of the totals and its write.  Time passes at any point.        *)
(***************************************************************************)
EXTENDS ResetSchedule

CONSTANTS
  Minutes,  \* minutesUntilResetAfterUnload, in units
  Start,    \* when a behaviour's clock starts
  MaxTime   \* bound: when it stops

ASSUME MinutesAssumption == Minutes \in Nat \ {0}
ASSUME TimeAssumption    == Start \in Nat /\ MaxTime \in Nat /\ Start <= MaxTime

NoCopy == -1

VARIABLES
  now,          \* system_clock
  at,           \* where the thread that runs the addon's calls is
  loading,      \* that call is Load(), so isAddonLoad is TRUE
  settings,     \* g_settings: mode, next reset; and since when (see Armed)
  settingsFile, \* settings.json
  session,      \* since when the totals in memory count
  sessionFile,  \* since when those in session.json do
  copy,         \* the same of the autosave thread's copy, or NoCopy
  lastCheck,    \* when the schedule was last checked to the end
  lastUnload,   \* when the addon was last unloaded
  overtaken     \* since the last reset, an autosave it overtook was written

files == <<settingsFile, sessionFile>>
ghost == <<lastCheck, lastUnload, overtaken>>
vars  == <<now, at, loading, settings, session, files, copy, ghost>>

Calls   == {"check", "saveReset", "rearm", "unload", "saveUnload"}
Running == Calls \cup {"idle"}
Loaded  == {"idle", "check", "saveReset", "rearm"}

Time == Start .. MaxTime

\* settings.json; armedAt and resetAt record when next was computed, and the
\* automatic reset it was computed after.
Settings == [mode : Modes, next : Nat, armedAt : Time, resetAt : Time]

TypeOK ==
  /\ now \in Time
  /\ at \in Running \cup {"none", "unloaded"}
  /\ loading \in BOOLEAN
  /\ settings \in Settings
  /\ settingsFile \in Settings
  /\ session \in Time
  /\ sessionFile \in Time
  /\ copy \in Time \cup {NoCopy}
  /\ copy # NoCopy => at \in Loaded /\ ~loading
  /\ lastCheck \in Time
  /\ lastUnload \in Time
  /\ overtaken \in BOOLEAN

\* A settings.json with any schedule selected and no target yet.
Init ==
  /\ now = Start
  /\ at = "none"
  /\ loading = FALSE
  /\ settingsFile \in [mode : Modes, next : {NotApplicable}, armedAt : {Start}, resetAt : {Start}]
  /\ settings = settingsFile
  /\ session = Start
  /\ sessionFile = Start
  /\ copy = NoCopy
  /\ lastCheck = Start
  /\ lastUnload = Start
  /\ overtaken = FALSE

Tick ==
  /\ now < MaxTime
  /\ now' = now + 1
  /\ UNCHANGED <<at, loading, settings, session, files, copy, ghost>>

\* RecomputeNextResetDateTime().
Armed(s) == [s EXCEPT !.next = ComputeNextReset(now, s.mode, Minutes), !.armedAt = now]

-----------------------------------------------------------------------------
(* CheckAndApplyAutomaticReset(). *)

BeginLoad ==
  /\ at \in {"none", "unloaded"}
  /\ at' = "check"
  /\ loading' = TRUE
  /\ settings' = settingsFile
  /\ session' = sessionFile
  /\ UNCHANGED <<now, files, copy, ghost>>

\* The render loop, every 30 seconds.
BeginFrameCheck ==
  /\ at = "idle"
  /\ at' = "check"
  /\ UNCHANGED <<now, loading, settings, session, files, copy, ghost>>

\* The call returns, and with it Load() if it was the one that checked.
EndCheck == at' = "idle" /\ loading' = FALSE

Uninitialized ==
  settings.next = NotApplicable /\ settings.mode \notin {"never", "on_addon_load"}

\* Slip: a boundary counts at a Load() only.
DueAtLoad ==
  CASE settings.mode = "never" -> FALSE
    [] settings.mode = "on_addon_load" -> loading
    [] OTHER -> loading /\ now >= settings.next

Due ==
  CASE settings.mode = "never" -> FALSE
    [] settings.mode = "on_addon_load" -> loading
    [] settings.mode = "minutes_after_unload" -> loading /\ now >= settings.next
    [] OTHER -> now >= settings.next

\* A schedule without a target gets one, and nothing is reset.
InitializeSchedule ==
  /\ at = "check"
  /\ Uninitialized
  /\ settings' = Armed(settings)
  /\ settingsFile' = settings'
  /\ lastCheck' = now
  /\ EndCheck
  /\ UNCHANGED <<now, session, sessionFile, copy, lastUnload, overtaken>>

NotDue ==
  /\ at = "check"
  /\ ~Uninitialized
  /\ ~Due
  /\ lastCheck' = now
  /\ EndCheck
  /\ UNCHANGED <<now, settings, session, files, copy, lastUnload, overtaken>>

\* SessionTracker::Reset() ...
AutomaticReset ==
  /\ at = "check"
  /\ ~Uninitialized
  /\ Due
  /\ session' = now
  /\ lastCheck' = now
  /\ at' = "saveReset"
  /\ UNCHANGED <<now, loading, settings, files, copy, lastUnload, overtaken>>

\* Slip: the settings are saved before the session.
SaveResetLast ==
  /\ \/ /\ at = "saveReset"
        /\ settings' = [Armed(settings) EXCEPT !.resetAt = session]
        /\ settingsFile' = settings'
        /\ at' = "rearm"
        /\ UNCHANGED <<sessionFile, loading>>
     \/ /\ at = "rearm"
        /\ sessionFile' = session
        /\ EndCheck
        /\ UNCHANGED <<settings, settingsFile>>
  /\ UNCHANGED <<now, session, copy, ghost>>

\* ... SaveSessionState() ...
SaveReset ==
  /\ at = "saveReset"
  /\ sessionFile' = session
  /\ overtaken' = FALSE
  /\ at' = "rearm"
  /\ UNCHANGED <<now, loading, settings, settingsFile, session, copy, lastCheck, lastUnload>>

\* ... RecomputeNextResetDateTime() and SaveSettings().
Rearm ==
  /\ at = "rearm"
  /\ settings' = [Armed(settings) EXCEPT !.resetAt = session]
  /\ settingsFile' = settings'
  /\ EndCheck
  /\ UNCHANGED <<now, session, sessionFile, copy, ghost>>

-----------------------------------------------------------------------------
(* The user: another schedule in the options panel, the Reset button. *)

\* Slip: the mode changes and the target does not.
SelectModeOnly(m) ==
  /\ at = "idle"
  /\ settings' = [settings EXCEPT !.mode = m]
  /\ settingsFile' = settings'
  /\ UNCHANGED <<now, at, loading, session, sessionFile, copy, ghost>>

SelectMode(m) ==
  /\ at = "idle"
  /\ settings' = Armed([settings EXCEPT !.mode = m])
  /\ settingsFile' = settings'
  /\ UNCHANGED <<now, at, loading, session, sessionFile, copy, ghost>>

ResetButton ==
  /\ at = "idle"
  /\ session' = now
  /\ sessionFile' = now
  /\ overtaken' = FALSE
  /\ UNCHANGED <<now, at, loading, settings, settingsFile, copy, lastCheck, lastUnload>>

-----------------------------------------------------------------------------
(* The autosave thread, alive from the end of Load() to the join in Unload(). *)

AutosaveRead ==
  /\ at \in Loaded
  /\ ~loading
  /\ copy = NoCopy
  /\ copy' = session
  /\ UNCHANGED <<now, at, loading, settings, session, files, ghost>>

AutosaveWrite ==
  /\ copy # NoCopy
  /\ sessionFile' = copy
  /\ overtaken' = (overtaken \/ copy < session)
  /\ copy' = NoCopy
  /\ UNCHANGED <<now, at, loading, settings, settingsFile, session, lastCheck, lastUnload>>

-----------------------------------------------------------------------------
(* Unload(), once the autosave thread has been joined, and the end of the    *)
(* process.                                                                  *)

\* StopAutosaveThread() returns.
Joined == copy = NoCopy

BeginUnload ==
  /\ at = "idle"
  /\ Joined
  /\ at' = "unload"
  /\ UNCHANGED <<now, loading, settings, session, files, copy, ghost>>

\* Slip: the countdown is left as it was.
UnloadSettingsAsIs == settings

\* The countdown of "minutes after unload" starts.
UnloadSettings ==
  IF settings.mode = "minutes_after_unload" THEN Armed(settings) ELSE settings

UnloadSaveSettings ==
  /\ at = "unload"
  /\ settings' = UnloadSettings
  /\ settingsFile' = settings'
  /\ lastUnload' = now
  /\ at' = "saveUnload"
  /\ UNCHANGED <<now, loading, session, sessionFile, copy, lastCheck, overtaken>>

UnloadSaveSession ==
  /\ at = "saveUnload"
  /\ sessionFile' = session
  /\ at' = "unloaded"
  /\ UNCHANGED <<now, loading, settings, settingsFile, session, copy, ghost>>

EndOfProcess ==
  /\ at # "none"
  /\ at' = "none"
  /\ loading' = FALSE
  /\ copy' = NoCopy
  /\ UNCHANGED <<now, settings, session, files, lastCheck, lastUnload, overtaken>>

-----------------------------------------------------------------------------

CheckStep ==
  \/ InitializeSchedule
  \/ NotDue
  \/ AutomaticReset
  \/ SaveReset
  \/ Rearm

Next ==
  \/ Tick
  \/ BeginLoad
  \/ BeginFrameCheck
  \/ CheckStep
  \/ \E m \in Modes : SelectMode(m)
  \/ ResetButton
  \/ AutosaveRead
  \/ AutosaveWrite
  \/ BeginUnload
  \/ UnloadSaveSettings
  \/ UnloadSaveSession
  \/ EndOfProcess

\* Frames go on and a check that has begun ends.  Nothing is assumed of the
\* user, of the clock or of the end of the process.
Spec == Init /\ [][Next]_vars /\ WF_vars(BeginFrameCheck) /\ WF_vars(CheckStep)

-----------------------------------------------------------------------------

Boundary(m, t) ==
  \/ m = "on_daily_reset" /\ DailyBoundary(t)
  \/ m = "on_weekly_reset" /\ WeeklyBoundary(t)

\* No reset boundary goes by: once a check is over, none lies between the
\* moment the schedule was computed and the check, over reloads, changes of the
\* schedule, time away and the end of the process at any step.
NoBoundaryMissed ==
  at = "idle" =>
    ~ \E t \in settings.armedAt + 1 .. lastCheck : Boundary(settings.mode, t)

\* Once settings.json records an automatic reset as done, by the target after
\* it, the session never comes back from before that reset, also when the
\* process ends between the two saves; but for an autosave that a reset
\* overtook, and whose copy went to disk after the reset's own save.
ResetSticks ==
  /\ at = "idle" /\ ~overtaken => session >= settings.resetAt
  /\ ~overtaken => sessionFile >= settingsFile.resetAt

\* The step is an automatic reset.
ResetStep == at = "check" /\ at' = "saveReset"

\* No reset comes before its time, and none comes twice: by "minutes after
\* unload" never sooner than Minutes from the last Unload() ("armed on Unload() -
\* only ever due right after the following Load()"; when the process ends without
\* an Unload() the target stays the one of the Unload() before), by a calendar
\* schedule only when a boundary lies between the last reset that settings.json
\* records and now, and never at a check of the render loop for the modes that
\* reset at Load().
ResetsAreDue ==
  [][ResetStep =>
       \/ settings.mode = "on_addon_load" /\ loading
       \/ settings.mode = "minutes_after_unload" /\ loading /\ now >= lastUnload + Minutes
       \/ \E t \in settings.resetAt + 1 .. now : Boundary(settings.mode, t)]_vars

\* A boundary that passes while the addon is loaded resets the session, or is
\* put off by the user's choice of another schedule or by an Unload() (the check
\* of AddonRender, every 30 seconds).
DueResetHappens ==
  \A m \in {"on_daily_reset", "on_weekly_reset"} :
    (at = "idle" /\ settings.mode = m /\ now >= settings.next)
      ~> (\/ settings.mode # m
          \/ now < settings.next
          \/ session >= settings.next
          \/ at \notin Loaded)

=============================================================================
