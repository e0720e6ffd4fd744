------------------------- MODULE SessionClockProofs -------------------------
(***************************************************************************)
(* The session's clock tells the time the addon was loaded, for every      *)
(* length of a second and however long it runs.                            *)
(***************************************************************************)
EXTENDS SessionClock, TLAPS

\* Whole seconds lose less than one.
LEMMA WholeSeconds ==
  ASSUME NEW ticks \in Nat
  PROVE  /\ ticks \div Second \in Nat
         /\ Second * (ticks \div Second) <= ticks
         /\ ticks <= Second * (ticks \div Second) + (Second - 1)
  BY SecondAssumption

\* The carried time and the ticks since make up the life of the clock: what was
\* carried has lost less than a second per load, and nothing else is missing.
Carried ==
  ~life.idled =>
    /\ Second * prior + (now - start) <= life.played
    /\ life.played <= Second * prior + (now - start) + life.loads * (Second - 1)

\* The same of what a save has read, or has written.
Kept ==
  /\ \A s \in Saver : save[s].pc \notin {"idle", "start"} => Tells(save[s].elapsed, save[s].life)
  /\ file # NoDocument => Tells(file.elapsed, file.life)

\* A saver is in SaveSessionState() exactly when its thread says so, and no
\* autosave is left when main is in Unload() or has not got past the Load().
Threads ==
  /\ (save["main"].pc # "idle") <=> (phase \in Saving)
  /\ phase \in {"unloaded", "load", "loadSave", "unloadSave"} => save["autosave"].pc = "idle"

\* While nothing has failed only an autosave can be torn, and the file through
\* it, until main's last save.
Sound ==
  ~mishap =>
    /\ ~life.torn
    /\ ~save["main"].life.torn
    /\ phase = "unloaded" /\ file # NoDocument => ~file.life.torn

Inv ==
  /\ TypeOK
  /\ Carried
  /\ Kept
  /\ Threads
  /\ Sound

-----------------------------------------------------------------------------
(* Arithmetic. *)

LEMMA Nothing == Second * 0 = 0 /\ 0 * (Second - 1) = 0
  BY SecondAssumption

LEMMA Products ==
  ASSUME NEW a \in Nat, NEW b \in Nat
  PROVE  /\ Second * (a + b) = Second * a + Second * b
         /\ (a + 1) * (Second - 1) = a * (Second - 1) + (Second - 1)
         /\ a * (Second - 1) \in Nat
         /\ Second * a \in Nat
  BY SecondAssumption

\* What the clock shows is what was carried and the whole seconds since.
LEMMA CarriedTells == TypeOK /\ Carried => Tells(Elapsed, life) /\ Elapsed \in Nat
<1> SUFFICES ASSUME TypeOK, Carried
             PROVE  Tells(Elapsed, life) /\ Elapsed \in Nat
  OBVIOUS
<1> DEFINE ticks == now - start
           seconds == ticks \div Second
<1>1. ticks \in Nat /\ prior \in Nat /\ life.played \in Nat /\ life.loads \in Nat
  BY DEF TypeOK, Life
<1>2. /\ seconds \in Nat
      /\ Second * seconds <= ticks
      /\ ticks <= Second * seconds + (Second - 1)
  BY <1>1, WholeSeconds
<1>3. Elapsed = prior + seconds
  BY DEF Elapsed
<1>4. ~life.idled => /\ Second * prior + ticks <= life.played
                     /\ life.played <= Second * prior + ticks + life.loads * (Second - 1)
  BY DEF Carried
<1> HIDE DEF ticks, seconds
<1>5. Second * (prior + seconds) = Second * prior + Second * seconds
  BY <1>1, <1>2, Products
<1>6. (life.loads + 1) * (Second - 1) = life.loads * (Second - 1) + (Second - 1)
  BY <1>1, Products
<1>7. /\ Second * prior \in Nat /\ Second * seconds \in Nat
      /\ life.loads * (Second - 1) \in Nat /\ Second - 1 \in Nat
  BY <1>1, <1>2, Products, SecondAssumption
<1> QED BY <1>1, <1>2, <1>3, <1>4, <1>5, <1>6, <1>7 DEF Tells

\* A new life has told nothing yet.
LEMMA NewFacts ==
  /\ NewLife \in Life
  /\ NewLife.played = 0 /\ NewLife.loads = 0 /\ ~NewLife.idled /\ ~NewLife.torn
  /\ Idle.pc = "idle" /\ Idle.elapsed = 0 /\ Idle.life = NewLife
  BY DEF NewLife, Life, Idle

-----------------------------------------------------------------------------
(* The invariant is inductive. *)

SaveRecord == [pc : {"idle", "start", "timed", "ready", "opened"}, elapsed : Nat, life : Life]

LEMMA IdleIsRecord == Idle \in SaveRecord
  BY NewFacts DEF Idle, SaveRecord

LEMMA InitInv == Init => Inv
<1> SUFFICES ASSUME Init PROVE Inv
  OBVIOUS
<1>1. save \in [Saver -> SaveRecord]
  BY IdleIsRecord DEF Init
<1>2. TypeOK
  <2>1. start \in 0 .. now /\ now \in Nat /\ prior \in Nat
    BY DEF Init
  <2>3. mishap \in BOOLEAN
    BY DEF Init
  <2>2. /\ life \in Life /\ file \in Document \cup {NoDocument}
        /\ phase \in {"unloaded", "load", "idle"} \cup Saving
    BY NewFacts DEF Init
  <2> QED BY <1>1, <2>1, <2>2, <2>3, Zenon DEF TypeOK, SaveRecord
<1>3. Carried
  BY NewFacts, Nothing DEF Init, Carried
<1>4. Kept /\ Threads /\ Sound
  BY NewFacts DEF Init, Kept, Threads, Sound, Saver, Saving, AfterSave
<1> QED BY <1>2, <1>3, <1>4 DEF Inv

LEMMA PhaseFacts ==
  /\ Saving = {"loadSave", "resetSave", "unloadSave"}
  /\ AfterSave["loadSave"] = "idle" /\ AfterSave["resetSave"] = "idle"
  /\ AfterSave["unloadSave"] = "unloaded"
  BY DEF Saving, AfterSave

\* Every step keeps the types.
LEMMA TypeStep == Inv /\ [Next]_vars => TypeOK'
<1> SUFFICES ASSUME Inv, [Next]_vars PROVE TypeOK'
  OBVIOUS
<1>0. TypeOK /\ Carried /\ Threads
  BY DEF Inv
<1> USE <1>0, NewFacts, PhaseFacts DEF TypeOK, tracker
<1>1. CASE Tick
  <2>1. life' \in Life
    <3>1. [life EXCEPT !.idled = TRUE] \in Life
      BY DEF Life
    <3>2. [life EXCEPT !.played = @ + 1] \in Life
      BY DEF Life
    <3> QED BY <1>1, <3>1, <3>2 DEF Tick
  <2> QED BY <1>1, <2>1 DEF Tick
<1>2. CASE Crash
  <2>1. mishap' \in BOOLEAN /\ save' \in [Saver -> SaveRecord]
    BY <1>2, IdleIsRecord DEF Crash
  <2> QED BY <1>2, <2>1 DEF Crash, SaveRecord
<1>3. ASSUME NEW s \in Saver, ReadClock(s) PROVE TypeOK'
  BY <1>3, CarriedTells DEF ReadClock
<1>4. ASSUME NEW s \in Saver, ReadTotals(s) PROVE TypeOK'
  BY <1>4 DEF ReadTotals, Step
<1>5. ASSUME NEW s \in Saver, save[s].pc # "idle",
             Return(s, TRUE) \/ Return(s, FALSE)
      PROVE  /\ phase' \in {"unloaded", "load", "idle"} \cup Saving
             /\ mishap' \in BOOLEAN
             /\ save' \in [Saver -> SaveRecord]
  <2>1. save' \in [Saver -> SaveRecord]
    <3>1. save' = [save EXCEPT ![s] = Idle]
      BY <1>5 DEF Return
    <3> QED BY <3>1, IdleIsRecord DEF SaveRecord
  <2>2. phase' \in {"unloaded", "load", "idle"} \cup Saving
    BY <1>5 DEF Return, Threads
  <2>3. mishap' \in BOOLEAN
    <3>1. \/ mishap' = (mishap \/ ~TRUE) \/ mishap' = (mishap \/ ~FALSE) \/ mishap' = mishap
      BY <1>5 DEF Return
    <3> QED BY <3>1
  <2> QED BY <2>1, <2>2, <2>3
<1>6. ASSUME NEW s \in Saver, Open(s) PROVE TypeOK'
  BY <1>5, <1>6 DEF Open, Step, SaveRecord
<1>7. ASSUME NEW s \in Saver, Write(s) PROVE TypeOK'
  <2>1. file' \in Document \cup {NoDocument}
    <3>1. save[s].elapsed \in Nat /\ save[s].life \in Life
      OBVIOUS
    <3>2. [elapsed |-> save[s].elapsed, life |-> save[s].life] \in Document
      BY <3>1 DEF Document
    <3> QED BY <1>7, <3>2 DEF Write
  <2> QED BY <1>5, <1>7, <2>1 DEF Write, SaveRecord
<1>8. CASE AutosaveTick
  BY <1>8 DEF AutosaveTick, Step
<1>9. CASE Load
  BY <1>9 DEF Load, LoadPersisted, Document, Life
<1>10. ASSUME NEW to \in Saving, ResetAndSave(to) PROVE TypeOK'
  <2>1. save' \in [Saver -> SaveRecord]
    <3>1. [Idle EXCEPT !.pc = "start"] \in SaveRecord
      BY IdleIsRecord DEF SaveRecord
    <3>2. ASSUME NEW s \in Saver PROVE [save[s] EXCEPT !.life.torn = TRUE] \in SaveRecord
      <4>1. save[s] \in SaveRecord /\ save[s].life \in Life
        BY DEF SaveRecord
      <4>2. [save[s].life EXCEPT !.torn = TRUE] \in Life
        BY <4>1 DEF Life
      <4> QED BY <4>1, <4>2 DEF SaveRecord
    <3>3. \A s \in Saver : save[s] \in SaveRecord
      BY DEF SaveRecord
    <3> DEFINE next(s) == IF s = "main" THEN [Idle EXCEPT !.pc = "start"]
                          ELSE IF save[s].pc = "timed" THEN [save[s] EXCEPT !.life.torn = TRUE]
                          ELSE save[s]
    <3>4. save' = [s \in Saver |-> next(s)]
      BY <1>10 DEF ResetAndSave
    <3>5. \A s \in Saver : next(s) \in SaveRecord
      BY <3>1, <3>2, <3>3, Zenon
    <3> HIDE <1>0 DEF next
    <3> QED BY <3>4, <3>5
  <2>2. /\ start' = now /\ prior' = 0 /\ life' = NewLife /\ mishap' = FALSE
        /\ phase' = to /\ now' = now /\ file' = file
    BY <1>10 DEF ResetAndSave
  <2>3. mishap' \in BOOLEAN /\ phase' \in {"unloaded", "load", "idle"} \cup Saving
    BY <1>10, <2>2
  <2> QED BY <2>1, <2>2, <2>3 DEF SaveRecord
<1>11. CASE LoadCheck
  BY <1>10, <1>11 DEF LoadCheck
<1>12. CASE Reset
  BY <1>10, <1>12 DEF Reset
<1>13. CASE Unload
  BY <1>13 DEF Unload, Saver
<1>14. CASE UNCHANGED vars
  BY <1>14 DEF vars
<1> QED BY <1>1, <1>2, <1>3, <1>4, <1>6, <1>7, <1>8, <1>9, <1>11, <1>12, <1>13, <1>14 DEF Next

\* The clock goes on with the time the addon is loaded, and restarts wherever
\* the carried time is set.
LEMMA CarriedStep == Inv /\ [Next]_vars => Carried'
<1> SUFFICES ASSUME Inv, [Next]_vars PROVE Carried'
  OBVIOUS
<1>0. TypeOK /\ Carried /\ Kept
  BY DEF Inv
<1>1. ASSUME UNCHANGED <<now, tracker>> PROVE Carried'
  BY <1>0, <1>1 DEF Carried, tracker
<1>2. ASSUME start' = now, now' = now, prior' = 0, life' = NewLife PROVE Carried'
  BY <1>0, <1>2, NewFacts, Nothing DEF Carried, TypeOK
<1>3. CASE Tick
  <2>1. CASE phase = "unloaded"
    BY <1>0, <1>3, <2>1 DEF Tick, Carried, TypeOK, Life
  <2>2. CASE phase # "unloaded"
    <3>1. /\ life' = [life EXCEPT !.played = life.played + 1]
          /\ now' = now + 1 /\ prior' = prior /\ start' = start
      BY <1>3, <2>2 DEF Tick
    <3>2. life'.played = life.played + 1 /\ life'.loads = life.loads /\ life'.idled = life.idled
      BY <1>0, <3>1 DEF TypeOK, Life
    <3>3. /\ Second * prior \in Nat /\ life.loads * (Second - 1) \in Nat
          /\ life.played \in Nat /\ now - start \in Nat /\ now \in Int /\ start \in Int
      <4>1. /\ prior \in Nat /\ life.loads \in Nat /\ life.played \in Nat
            /\ now - start \in Nat /\ now \in Int /\ start \in Int
        BY <1>0 DEF TypeOK, Life
      <4> QED BY <4>1, Products
    <3> QED BY <1>0, <3>1, <3>2, <3>3 DEF Carried
  <2> QED BY <2>1, <2>2
<1>4. CASE Load
  <2>1. CASE file = NoDocument
    BY <1>1, <1>4, <2>1 DEF Load
  <2>2. CASE file # NoDocument
    <3>1. /\ prior' = file.elapsed /\ start' = now /\ now' = now
          /\ life' = [file.life EXCEPT !.loads = file.life.loads + 1]
      BY <1>4, <2>2 DEF Load, LoadPersisted
    <3>2. file \in Document /\ file.life \in Life /\ file.elapsed \in Nat
      BY <1>0, <2>2 DEF TypeOK, Document
    <3>3. /\ life'.played = file.life.played /\ life'.loads = file.life.loads + 1
          /\ life'.idled = file.life.idled
      BY <3>1, <3>2 DEF Life
    <3>4. Tells(file.elapsed, file.life)
      BY <1>0, <2>2 DEF Kept
    <3>5. Second * file.elapsed \in Nat /\ now' - start' = 0
      BY <1>0, <3>1, <3>2, Products DEF TypeOK
    <3> QED BY <3>1, <3>3, <3>4, <3>5 DEF Carried, Tells
  <2> QED BY <2>1, <2>2
<1>5. CASE Crash
  BY <1>2, <1>5 DEF Crash
<1>6. CASE LoadCheck \/ Reset
  BY <1>1, <1>2, <1>6 DEF LoadCheck, Reset, ResetAndSave
<1>7. CASE AutosaveTick \/ Unload
  BY <1>1, <1>7 DEF AutosaveTick, Unload
<1>8. CASE \E s \in Saver : ReadClock(s) \/ ReadTotals(s) \/ Open(s) \/ Write(s)
  BY <1>1, <1>8 DEF ReadClock, ReadTotals, Open, Write
<1>9. CASE UNCHANGED vars
  BY <1>1, <1>9 DEF vars
<1> QED BY <1>3, <1>4, <1>5, <1>6, <1>7, <1>8, <1>9 DEF Next

\* What a saver has read, and writes, is what the clock told.
LEMMA KeptStep == Inv /\ [Next]_vars => Kept'
<1> SUFFICES ASSUME Inv, [Next]_vars PROVE Kept'
  OBVIOUS
<1>0. TypeOK /\ Carried /\ Kept
  BY DEF Inv
<1> USE <1>0, NewFacts DEF Kept
<1>1. ASSUME UNCHANGED file,
             \A s \in Saver : \/ save'[s].pc \in {"idle", "start"}
                              \/ /\ save[s].pc \notin {"idle", "start"}
                                 /\ save'[s].elapsed = save[s].elapsed
                                 /\ save'[s].life.idled = save[s].life.idled
                                 /\ save'[s].life.played = save[s].life.played
                                 /\ save'[s].life.loads = save[s].life.loads
      PROVE  Kept'
  BY <1>1 DEF Tells
<1>2. CASE Tick \/ Load
  BY <1>2 DEF Tick, Load
<1>3. CASE Crash
  BY <1>1, <1>3 DEF Crash
<1>4. ASSUME NEW s \in Saver, ReadClock(s) PROVE Kept'
  BY <1>4, CarriedTells DEF ReadClock, TypeOK
<1>5. ASSUME NEW s \in Saver, ReadTotals(s) PROVE Kept'
  BY <1>1, <1>5 DEF ReadTotals, Step, TypeOK
<1>6. ASSUME NEW s \in Saver, Open(s) PROVE Kept'
  BY <1>6 DEF Open, Step, Return, TypeOK
<1>7. ASSUME NEW s \in Saver, Write(s) PROVE Kept'
  <2>1. Tells(save[s].elapsed, save[s].life)
    BY <1>7 DEF Write
  <2>2. file' # NoDocument => Tells(file'.elapsed, file'.life)
    <3>1. \/ file' = [elapsed |-> save[s].elapsed, life |-> save[s].life]
          \/ file' = NoDocument
      BY <1>7 DEF Write
    <3>2. file' # NoDocument => file'.elapsed = save[s].elapsed /\ file'.life = save[s].life
      BY <3>1
    <3> QED BY <2>1, <3>2 DEF Tells
  <2> QED BY <1>7, <2>2 DEF Write, Return, TypeOK
<1>8. CASE AutosaveTick \/ Unload
  BY <1>8 DEF AutosaveTick, Unload, Step, TypeOK
<1>9. ASSUME NEW to, ResetAndSave(to) PROVE Kept'
  BY <1>1, <1>9 DEF ResetAndSave, TypeOK, Life
<1>10. CASE LoadCheck \/ Reset
  BY <1>9, <1>10 DEF LoadCheck, Reset
<1>11. CASE UNCHANGED vars
  BY <1>11 DEF vars
<1> QED BY <1>2, <1>3, <1>4, <1>5, <1>6, <1>7, <1>8, <1>10, <1>11 DEF Next

\* The threads take their turns.
LEMMA ThreadsStep == Inv /\ [Next]_vars => Threads'
<1> SUFFICES ASSUME Inv, [Next]_vars PROVE Threads'
  OBVIOUS
<1>0. /\ save \in [Saver -> SaveRecord] /\ Threads
      /\ phase \in {"unloaded", "load", "idle"} \cup Saving
  BY DEF Inv, TypeOK, SaveRecord
<1> USE <1>0, NewFacts, PhaseFacts DEF Threads, Saver, SaveRecord
<1>1. CASE Tick \/ AutosaveTick \/ Load \/ Unload
  BY <1>1 DEF Tick, AutosaveTick, Step, Load, Unload, Joined
<1>2. CASE Crash
  BY <1>2 DEF Crash
<1>3. ASSUME NEW s \in Saver, save[s].pc # "idle",
             Return(s, TRUE) \/ Return(s, FALSE)
      PROVE  Threads'
  BY <1>3 DEF Return
<1>4. ASSUME NEW s \in Saver, ReadClock(s) \/ ReadTotals(s) \/ Open(s) \/ Write(s)
      PROVE  Threads'
  <2>1. CASE ReadClock(s) \/ ReadTotals(s)
    BY <2>1 DEF ReadClock, ReadTotals, Step
  <2>2. CASE Open(s) /\ Step(s, "opened") /\ UNCHANGED phase
    BY <2>2 DEF Open, Step
  <2>3. CASE (Open(s) \/ Write(s)) /\ (Return(s, TRUE) \/ Return(s, FALSE))
    BY <1>3, <2>3 DEF Open, Write
  <2> QED BY <1>4, <2>1, <2>2, <2>3 DEF Open, Write
<1>5. ASSUME NEW to \in {"loadSave", "resetSave"}, ResetAndSave(to),
             to = "loadSave" => phase = "load"
      PROVE  Threads'
  <2>1. save'["main"].pc = "start" /\ phase' = to
    <3>1. save'["main"] = [Idle EXCEPT !.pc = "start"] /\ phase' = to
      BY <1>5 DEF ResetAndSave
    <3> QED BY <3>1 DEF Idle
  <2>2. save["autosave"].pc = "idle" => save'["autosave"].pc = "idle"
    BY <1>5 DEF ResetAndSave
  <2> QED BY <1>5, <2>1, <2>2
<1>6. CASE LoadCheck \/ Reset
  BY <1>5, <1>6 DEF LoadCheck, Reset
<1>7. CASE UNCHANGED vars
  BY <1>7 DEF vars
<1> QED BY <1>1, <1>2, <1>4, <1>6, <1>7 DEF Next

\* A tear stays with the autosave that caused it, and with what it wrote.
LEMMA SoundStep == Inv /\ [Next]_vars => Sound'
<1> SUFFICES ASSUME Inv, [Next]_vars PROVE Sound'
  OBVIOUS
<1>0. /\ save \in [Saver -> SaveRecord] /\ Threads /\ Sound
      /\ phase \in {"unloaded", "load", "idle"} \cup Saving
      /\ life \in Life /\ file \in Document \cup {NoDocument}
  BY DEF Inv, TypeOK, SaveRecord
<1> USE <1>0, NewFacts, PhaseFacts, NoDocumentAssumption DEF Sound, Saver, SaveRecord, tracker
<1>1. CASE Tick
  <2>1. life'.torn = life.torn
    BY <1>1 DEF Tick, Life
  <2> QED BY <1>1, <2>1 DEF Tick
<1>2. CASE Crash
  BY <1>2 DEF Crash
<1>3. ASSUME NEW s \in Saver, ReadClock(s) \/ ReadTotals(s) PROVE Sound'
  BY <1>3 DEF ReadClock, ReadTotals, Step
<1>4. CASE Open("main") \/ Write("main")
  <2>1. CASE Return("main", FALSE)
    BY <2>1 DEF Return
  <2>2. CASE Open("main") /\ UNCHANGED <<phase, mishap>>
    BY <2>2 DEF Open, Step, Return, Threads
  <2>3. CASE Write("main") /\ ~Return("main", FALSE)
    <3>1. /\ file'.life = save["main"].life
          /\ save' = [save EXCEPT !["main"] = Idle]
          /\ mishap' = (mishap \/ ~TRUE)
          /\ UNCHANGED tracker
      BY <2>3 DEF Write, Return
    <3> QED BY <3>1
  <2> QED BY <1>4, <2>1, <2>2, <2>3 DEF Open
<1>5. CASE Open("autosave") \/ Write("autosave")
  <2>1. phase \notin {"unloaded", "load", "loadSave", "unloadSave"}
    BY <1>5 DEF Threads, Open, Write
  <2>2. /\ UNCHANGED <<phase, mishap, tracker>>
        /\ save'["main"] = save["main"]
    BY <1>5 DEF Open, Write, Return, Step
  <2> QED BY <2>1, <2>2
<1>6. CASE AutosaveTick \/ Unload
  BY <1>6 DEF AutosaveTick, Unload, Step
<1>7. CASE Load
  <2>1. file # NoDocument => life'.torn = file.life.torn
    BY <1>7 DEF Load, LoadPersisted, Document, Life
  <2> QED BY <1>7, <2>1 DEF Load
<1>8. ASSUME NEW to \in {"loadSave", "resetSave"}, ResetAndSave(to) PROVE Sound'
  <2>1. save'["main"] = [Idle EXCEPT !.pc = "start"]
    BY <1>8 DEF ResetAndSave
  <2>2. save'["main"].life = NewLife
    BY <2>1 DEF Idle
  <2> QED BY <1>8, <2>2 DEF ResetAndSave
<1>9. CASE LoadCheck \/ Reset
  BY <1>8, <1>9 DEF LoadCheck, Reset
<1>10. CASE UNCHANGED vars
  BY <1>10 DEF vars
<1> QED BY <1>1, <1>2, <1>3, <1>4, <1>5, <1>6, <1>7, <1>9, <1>10 DEF Next

LEMMA AlwaysInv == Spec => []Inv
<1>1. Inv /\ [Next]_vars => Inv'
  BY TypeStep, CarriedStep, KeptStep, ThreadsStep, SoundStep DEF Inv
<1> QED BY InitInv, <1>1, PTL DEF Spec

-----------------------------------------------------------------------------

\* Every variable keeps its type; the clock's start is never ahead of the clock.
THEOREM TypesHold == Spec => []TypeOK
<1>1. Inv => TypeOK
  BY DEF Inv
<1> QED BY AlwaysInv, <1>1, PTL

\* The session's time is the time the addon was loaded, but for less than a
\* second per load, whatever was reset, reloaded, saved and lost before.
THEOREM ClockTells == Spec => []ClockIsTimeLoaded
<1>1. Inv => ClockIsTimeLoaded
  BY CarriedTells DEF Inv, Kept, ClockIsTimeLoaded
<1> QED BY AlwaysInv, <1>1, PTL

\* Short of a failure the clock is of the session whose totals are shown.
THEOREM ClockFitsTotals == Spec => []ClockOfItsTotals
<1>1. Inv => ClockOfItsTotals
  BY DEF Inv, Sound, ClockOfItsTotals
<1> QED BY AlwaysInv, <1>1, PTL
=============================================================================
