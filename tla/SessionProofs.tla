---------------------------- MODULE SessionProofs ----------------------------
(***************************************************************************)
(* Proofs, for every number of drops: the type invariant of SessionStore,  *)
(* its invariants and NoDropLost; that SessionStore implements Ledger;     *)
(* that what has been on disk is lost only by a write that was cut short;  *)
(* that drops count in the order of their arrival; and that calls wind     *)
(* down.                                                                   *)
(***************************************************************************)
EXTENDS SessionDurability, SequenceTheorems, TLAPS


\* The pcs of main that belong to a save, and where each continues.
LEMMA AfterSaveFacts ==
  /\ Saving = {"checkSave", "uiSave", "loadSave", "unloadSave"}
  /\ AfterSave["checkSave"] = "ui"
  /\ AfterSave["uiSave"] = "free"
  /\ AfterSave["loadSave"] = "loadStart"
  /\ AfterSave["unloadSave"] = "unloadStop"
  BY DEF Saving, AfterSave

\* What pushing a drop on the queue adds to it.
LEMMA InSeqAppend ==
  ASSUME NEW S, NEW q \in Seq(S), NEW x \in S, NEW d
  PROVE  InSeq(d, Append(q, x)) <=> InSeq(d, q) \/ d = x
<1>1. InSeq(d, Append(q, x)) => InSeq(d, q) \/ d = x
  BY DEF InSeq
<1>2. InSeq(d, q) => InSeq(d, Append(q, x))
  <2> SUFFICES ASSUME NEW i \in DOMAIN q, q[i] = d
               PROVE  InSeq(d, Append(q, x))
    BY DEF InSeq
  <2>1. i \in DOMAIN Append(q, x) /\ Append(q, x)[i] = d
    OBVIOUS
  <2> QED BY <2>1 DEF InSeq
<1>3. d = x => InSeq(d, Append(q, x))
  <2>1. Len(q) + 1 \in DOMAIN Append(q, x) /\ Append(q, x)[Len(q) + 1] = x
    OBVIOUS
  <2> QED BY <2>1 DEF InSeq
<1> QED BY <1>1, <1>2, <1>3

\* What taking the first drop leaves.
LEMMA InSeqTail ==
  ASSUME NEW S, NEW q \in Seq(S), q # <<>>, NEW d
  PROVE  InSeq(d, q) <=> d = Head(q) \/ InSeq(d, Tail(q))
<1>1. InSeq(d, q) => d = Head(q) \/ InSeq(d, Tail(q))
  <2> SUFFICES ASSUME NEW i \in DOMAIN q, q[i] = d, i # 1
               PROVE  InSeq(d, Tail(q))
    BY DEF InSeq
  <2>1. i - 1 \in DOMAIN Tail(q) /\ Tail(q)[i - 1] = d
    OBVIOUS
  <2> QED BY <2>1 DEF InSeq
<1>2. d = Head(q) => InSeq(d, q)
  BY DEF InSeq
<1>3. InSeq(d, Tail(q)) => InSeq(d, q)
  <2> SUFFICES ASSUME NEW i \in DOMAIN Tail(q), Tail(q)[i] = d
               PROVE  InSeq(d, q)
    BY DEF InSeq
  <2>1. i + 1 \in DOMAIN q /\ q[i + 1] = d
    OBVIOUS
  <2> QED BY <2>1 DEF InSeq
<1> QED BY <1>1, <1>2, <1>3

\* No drop stands twice in q.
Distinct(q) == \A i, j \in DOMAIN q : q[i] = q[j] => i = j

\* A queue stays free of repetitions when a new drop is pushed ...
LEMMA DistinctAppend ==
  ASSUME NEW S, NEW q \in Seq(S), NEW x \in S, Distinct(q), ~InSeq(x, q)
  PROVE  Distinct(Append(q, x))
  BY DEF Distinct, InSeq

\* ... and when its first is taken, which is then gone from it.
LEMMA DistinctTail ==
  ASSUME NEW S, NEW q \in Seq(S), q # <<>>, Distinct(q)
  PROVE  Distinct(Tail(q)) /\ ~InSeq(Head(q), Tail(q))
  BY DEF Distinct, InSeq

\* A saver is inside SaveSessionState() exactly when its thread says so.
Agree ==
  /\ (save["main"].pc = "idle") <=> (main \notin Saving)
  /\ (save["autosave"].pc = "idle") <=> (autosave # "saving")

TypeInv == TypeOK /\ Agree

SaveRecord == [pc : SavePC, items : Totals, currencies : Totals]

\* The empty totals.
LEMMA ZeroFacts ==
  /\ Zero \in Totals
  /\ \A d \in Drop : Zero[d] = 0
  BY DEF Zero, Totals

\* The two records a save starts and ends with.
LEMMA IdleFacts ==
  /\ Idle \in SaveRecord /\ Idle.pc = "idle"
  /\ Idle.items = Zero /\ Idle.currencies = Zero
  /\ Started \in SaveRecord /\ Started.pc = "start"
  /\ Started.items = Zero /\ Started.currencies = Zero
  BY ZeroFacts DEF Idle, Started, SaveRecord, SavePC

\* Applying a drop adds one to its own count and nothing to another's.
LEMMA PlusFacts ==
  ASSUME NEW m \in Totals, NEW d \in Drop
  PROVE  /\ Plus(m, d) \in Totals
         /\ Plus(m, d)[d] = m[d] + 1
         /\ \A e \in Drop : e # d => Plus(m, d)[e] = m[e]
  BY DEF Plus, Totals

\* So a drop not counted yet is counted once.
LEMMA PlusOfZero ==
  ASSUME NEW m \in Totals, NEW d \in Drop, m[d] = 0
  PROVE  /\ Plus(m, d)[d] = 1
         /\ \A e \in Drop : e # d => Plus(m, d)[e] = m[e]
  BY PlusFacts

\* The addon starts in a state of its type.
LEMMA InitTypeInv == Init => TypeInv
<1> SUFFICES ASSUME Init PROVE TypeInv
  OBVIOUS
<1>1. Absent \in Part
  BY DEF Part
<1>2. save \in [Saver -> SaveRecord]
  BY IdleFacts DEF Init
<1>3. delivered \in 0 .. MaxDrops /\ pending \in Seq(Drop) /\ drained \in Seq(Drop)
  BY MaxDropsAssumption DEF Init
<1>4. Agree
  BY AfterSaveFacts, IdleFacts DEF Init, Agree, Saver
<1> QED
  BY ZeroFacts, <1>1, <1>2, <1>3, <1>4, Zenon DEF Init, TypeInv, TypeOK, MainPC, SaveRecord

\* Every step of every thread keeps the types, and each saver's pc in agreement
\* with its thread's.
LEMMA TypeStep == TypeInv /\ [Next]_vars => TypeInv'
<1> SUFFICES ASSUME TypeInv, [Next]_vars PROVE TypeInv'
  OBVIOUS
<1> USE AfterSaveFacts DEF TypeInv, TypeOK, Agree, tracker, feed, SaveRecord
<1>1. CASE ReceiveDrop
  BY <1>1, MaxDropsAssumption DEF ReceiveDrop, Drop
<1>2. CASE BeginFrame
  BY <1>2 DEF BeginFrame, MainPC
<1>3. CASE ApplyDrop
  <2>1. Head(drained) \in Drop /\ Tail(drained) \in Seq(Drop)
    BY <1>3 DEF ApplyDrop
  <2>2. items' \in Totals /\ currencies' \in Totals
    BY <1>3, <2>1, PlusFacts DEF ApplyDrop
  <2> QED BY <1>3, <2>1, <2>2 DEF ApplyDrop
<1>4. CASE EndApply
  BY <1>4 DEF EndApply, AllApplied, MainPC
<1>5. ASSUME NEW pc \in {"checkSave", "uiSave", "loadSave"}, ResetAndSave(pc),
             main \in {"check", "ui", "loadCheck"}
      PROVE  TypeInv'
  BY <1>5, ZeroFacts, IdleFacts DEF ResetAndSave, MainPC, Saver
<1>6. ASSUME NEW pc \in {"ui", "free", "loadStart"}, Skip(pc),
             main \in {"check", "ui", "loadCheck"}
      PROVE  TypeInv'
  BY <1>6 DEF Skip, MainPC
<1>7. CASE AutomaticResetCheck
  BY <1>5, <1>6, <1>7 DEF AutomaticResetCheck
<1>8. CASE ResetButton
  BY <1>5, <1>6, <1>8 DEF ResetButton
<1>9. CASE LoadResetCheck
  BY <1>5, <1>6, <1>9 DEF LoadResetCheck
<1>10. CASE LoadSession
  BY <1>10 DEF LoadSession, LoadPersisted, MainPC, Complete, Part
<1>11. CASE StartThreads
  BY <1>11 DEF StartThreads, StartAutosaveThread, MainPC
<1>12. CASE JoinAutosave
  BY <1>12, IdleFacts DEF JoinAutosave, Joined, MainPC, Saver
<1>13. CASE StopFeed
  BY <1>13 DEF StopFeed, MainPC
<1>14. CASE Connect
  BY <1>14 DEF Connect
<1>15. CASE BeginLoad
  BY <1>15 DEF BeginLoad, MainPC
<1>16. CASE BeginUnload
  BY <1>16 DEF BeginUnload, MainPC
<1>17. CASE AutosaveTick
  BY <1>17, IdleFacts DEF AutosaveTick, MayTick, Saver
<1>18. CASE AutosaveExit
  BY <1>18 DEF AutosaveExit
<1>19. ASSUME NEW s \in Saver, SaveStep(s) PROVE TypeInv'
  <2>1. CASE SaveReadItems(s)
    BY <2>1 DEF SaveReadItems, Saver, SavePC
  <2>2. CASE SaveReadCurrencies(s)
    BY <2>2 DEF SaveReadCurrencies, Saver, SavePC
  <2>3. CASE SaveOpen(s)
    BY <2>3 DEF SaveOpen, Saver, SavePC, Part
  <2>4. CASE SaveWriteCurrencies(s)
    BY <2>4 DEF SaveWriteCurrencies, Saver, SavePC, Part
  <2>5. CASE SaveWriteItems(s)
    BY <2>5, IdleFacts DEF SaveWriteItems, Finish, Saver, Part, MainPC
  <2> QED BY <1>19, <2>1, <2>2, <2>3, <2>4, <2>5 DEF SaveStep
<1>20. ASSUME NEW s \in Saver, SaveFails(s) PROVE TypeInv'
  BY <1>20, IdleFacts DEF SaveFails, Finish, Saver, MainPC
<1>21. CASE Crash
  <2>1. save' \in [Saver -> SaveRecord] /\ Agree'
    BY <1>21, IdleFacts DEF Crash, Saver
  <2>2. pending' \in Seq(Drop) /\ drained' \in Seq(Drop) /\ drained' = <<>>
    BY <1>21 DEF Crash
  <2> QED BY <1>21, <2>1, <2>2, ZeroFacts DEF Crash, MainPC
<1>22. CASE UNCHANGED vars
  BY <1>22 DEF vars
<1> QED
  BY <1>1, <1>2, <1>3, <1>4, <1>7, <1>8, <1>9, <1>10, <1>11, <1>12, <1>13, <1>14,
     <1>15, <1>16, <1>17, <1>18, <1>19, <1>20, <1>21, <1>22 DEF Next, MainStep, UserStep

\* Every variable keeps its type, and no drop is left drained and unapplied once
\* the frame's loop is over (AddonRenderImpl).
THEOREM TypeCorrect == Spec => []TypeOK
<1>1. TypeInv => TypeOK
  BY DEF TypeInv
<1> QED BY <1>1, InitTypeInv, TypeStep, PTL DEF Spec

-----------------------------------------------------------------------------

\* What a step of a save leaves alone, whichever step it is.
LEMMA SaveFrame ==
  ASSUME NEW s \in Saver, SaveStep(s) \/ SaveFails(s)
  PROVE  /\ UNCHANGED <<feed, drained, tracker, loaded, stop>>
         /\ \/ UNCHANGED <<main, autosave, saved>>
            \/ Finish(s, TRUE) /\ SaveWriteItems(s)
            \/ Finish(s, FALSE) /\ SaveFails(s)
  BY DEF SaveStep, SaveFails, SaveReadItems, SaveReadCurrencies, SaveOpen,
         SaveWriteCurrencies, SaveWriteItems

\* Which threads live in which phase of Load() and Unload(): from the join in
\* Unload() to the end of the next Load() there is no autosave thread.
Threads ==
  /\ main # "free" => (loaded <=> main \notin {"unloadJoin", "unloadSave", "unloadStop"})
  /\ main \in {"load", "loadCheck", "loadSave", "loadStart", "unloadSave", "unloadStop"}
       => autosave = "none"
  /\ main = "free" /\ ~loaded => autosave = "none"

\* Every step keeps the phases and the threads in agreement.
LEMMA ThreadsStep == TypeInv /\ Threads /\ [Next]_vars => Threads'
<1> SUFFICES ASSUME TypeInv, Threads, [Next]_vars PROVE Threads'
  OBVIOUS
<1> USE AfterSaveFacts DEF TypeInv, TypeOK, Agree, Threads, tracker, feed
<1>1. CASE ReceiveDrop \/ BeginFrame \/ ApplyDrop \/ EndApply
  BY <1>1 DEF ReceiveDrop, BeginFrame, ApplyDrop, EndApply
<1>2. CASE AutomaticResetCheck \/ ResetButton \/ LoadResetCheck
  BY <1>2 DEF AutomaticResetCheck, ResetButton, LoadResetCheck, ResetAndSave, Skip
<1>3. CASE LoadSession \/ StartThreads \/ JoinAutosave \/ StopFeed
  BY <1>3 DEF LoadSession, StartThreads, StartAutosaveThread, JoinAutosave, StopFeed
<1>4. CASE UserStep
  BY <1>4 DEF UserStep, Connect, BeginLoad, BeginUnload
<1>5. CASE AutosaveTick \/ AutosaveExit
  BY <1>5 DEF AutosaveTick, MayTick, AutosaveExit
<1>6. ASSUME NEW s \in Saver, SaveStep(s) \/ SaveFails(s) PROVE Threads'
  <2>1. CASE UNCHANGED <<main, autosave, saved>>
    BY <1>6, <2>1, SaveFrame
  <2>2. ASSUME NEW w \in BOOLEAN, Finish(s, w), save[s].pc # "idle", loaded' = loaded
        PROVE  Threads'
    BY <2>2 DEF Finish, Saver
  <2> QED BY <1>6, <2>1, <2>2, SaveFrame DEF SaveWriteItems, SaveFails
<1>7. CASE Crash \/ UNCHANGED vars
  BY <1>7 DEF Crash, vars
<1> QED
  BY <1>1, <1>2, <1>3, <1>4, <1>5, <1>6, <1>7 DEF Next, MainStep

\* The totals stand still while main saves them, so its snapshot is the totals.
MainSave ==
  /\ save["main"].pc \in {"gotItems", "ready", "opened", "half"}
       => save["main"].items = items
  /\ save["main"].pc \in {"ready", "opened", "half"}
       => save["main"].currencies = currencies
  /\ save["main"].pc \in {"opened", "half"} =>
       /\ file.items.by = "main" => file.items.map = items
       /\ file.currencies.by = "main" => file.currencies.map = currencies
  /\ main = "unloadSave" /\ save["main"].pc = "half"
       => file.currencies = [by |-> "main", map |-> currencies]

\* Every step keeps main's snapshot equal to the totals it was taken of.
LEMMA MainSaveStep == TypeInv /\ Threads /\ MainSave /\ [Next]_vars => MainSave'
<1> SUFFICES ASSUME TypeInv, Threads, MainSave, [Next]_vars PROVE MainSave'
  OBVIOUS
<1> USE AfterSaveFacts DEF TypeInv, TypeOK, Agree, Threads, MainSave, tracker, feed
<1>1. CASE ReceiveDrop \/ BeginFrame \/ ApplyDrop \/ EndApply
  BY <1>1 DEF ReceiveDrop, BeginFrame, ApplyDrop, EndApply
<1>2. CASE AutomaticResetCheck \/ ResetButton \/ LoadResetCheck
  BY <1>2, IdleFacts DEF AutomaticResetCheck, ResetButton, LoadResetCheck, ResetAndSave, Skip, Saver
<1>3. CASE LoadSession \/ StartThreads \/ StopFeed
  BY <1>3 DEF LoadSession, StartThreads, StopFeed
<1>4. CASE JoinAutosave
  BY <1>4, IdleFacts DEF JoinAutosave, Saver
<1>5. CASE UserStep
  BY <1>5 DEF UserStep, Connect, BeginLoad, BeginUnload
<1>6. CASE AutosaveTick \/ AutosaveExit
  BY <1>6 DEF AutosaveTick, MayTick, AutosaveExit, Saver
<1>7. ASSUME NEW s \in Saver, SaveStep(s) \/ SaveFails(s) PROVE MainSave'
  <2>1. CASE SaveReadItems(s)
    BY <2>1 DEF SaveReadItems, Saver
  <2>2. CASE SaveReadCurrencies(s)
    BY <2>2 DEF SaveReadCurrencies, Saver
  <2>3. CASE SaveOpen(s)
    BY <2>3 DEF SaveOpen, Saver, Absent
  <2>4. CASE SaveWriteCurrencies(s)
    BY <2>4 DEF SaveWriteCurrencies, Saver
  <2>5. CASE SaveWriteItems(s)
    BY <2>5, IdleFacts DEF SaveWriteItems, Finish, Saver
  <2>6. CASE SaveFails(s)
    BY <2>6, IdleFacts DEF SaveFails, Finish, Saver
  <2> QED BY <1>7, <2>1, <2>2, <2>3, <2>4, <2>5, <2>6 DEF SaveStep
<1>8. CASE Crash \/ UNCHANGED vars
  BY <1>8, IdleFacts DEF Crash, vars, Saver
<1> QED
  BY <1>1, <1>2, <1>3, <1>4, <1>5, <1>6, <1>7, <1>8 DEF Next, MainStep

\* Between the final save of an Unload() and the read of the next Load().
Exact ==
  file = [currencies |-> [by |-> "main", map |-> currencies],
          items      |-> [by |-> "main", map |-> items]]

\* What CleanUnloadExact says, from the end of the save to the next read.
AfterUnload ==
  saved /\ (main \in {"unloadStop", "load"} \/ (main = "free" /\ ~loaded)) => Exact

\* Every step keeps the file exact between an Unload() and the next Load().
LEMMA AfterUnloadStep ==
  TypeInv /\ Threads /\ MainSave /\ AfterUnload /\ [Next]_vars => AfterUnload'
<1> SUFFICES ASSUME TypeInv, Threads, MainSave, AfterUnload, [Next]_vars
             PROVE  AfterUnload'
  OBVIOUS
<1> USE AfterSaveFacts DEF TypeInv, TypeOK, Agree, Threads, AfterUnload, Exact, tracker, feed
<1>1. CASE ReceiveDrop \/ BeginFrame \/ ApplyDrop \/ EndApply
  BY <1>1 DEF ReceiveDrop, BeginFrame, ApplyDrop, EndApply
<1>2. CASE AutomaticResetCheck \/ ResetButton \/ LoadResetCheck
  BY <1>2, IdleFacts DEF AutomaticResetCheck, ResetButton, LoadResetCheck, ResetAndSave, Skip
<1>3. CASE LoadSession \/ StartThreads \/ StopFeed
  BY <1>3 DEF LoadSession, StartThreads, StopFeed
<1>4. CASE JoinAutosave
  BY <1>4 DEF JoinAutosave
<1>5. CASE UserStep
  BY <1>5 DEF UserStep, Connect, BeginLoad, BeginUnload
<1>6. CASE AutosaveTick \/ AutosaveExit
  BY <1>6 DEF AutosaveTick, MayTick, AutosaveExit
<1>7. ASSUME NEW s \in Saver, SaveStep(s) \/ SaveFails(s) PROVE AfterUnload'
  <2>1. CASE SaveReadItems(s) \/ SaveReadCurrencies(s)
    BY <2>1 DEF SaveReadItems, SaveReadCurrencies
  <2>2. CASE SaveOpen(s)
    BY <2>2 DEF SaveOpen, Saver
  <2>3. CASE SaveWriteCurrencies(s)
    BY <2>3 DEF SaveWriteCurrencies, Saver
  <2>4. CASE SaveWriteItems(s) /\ s = "main"
    <3>1. CASE main = "unloadSave"
      BY <2>4, <3>1 DEF SaveWriteItems, Finish, MainSave
    <3>2. CASE main # "unloadSave"
      BY <2>4, <3>2 DEF SaveWriteItems, Finish
    <3> QED BY <3>1, <3>2
  <2>5. CASE SaveWriteItems(s) /\ s = "autosave"
    BY <2>5 DEF SaveWriteItems, Finish
  <2>6. CASE SaveFails(s)
    BY <2>6 DEF SaveFails, Finish, Saver
  <2> QED BY <1>7, <2>1, <2>2, <2>3, <2>4, <2>5, <2>6 DEF SaveStep, Saver
<1>8. CASE Crash \/ UNCHANGED vars
  BY <1>8 DEF Crash, vars
<1> QED
  BY <1>1, <1>2, <1>3, <1>4, <1>5, <1>6, <1>7, <1>8 DEF Next, MainStep

-----------------------------------------------------------------------------
(* The queue: a drop waits in one place, once. *)

Queue ==
  /\ Distinct(pending)
  /\ Distinct(drained)
  /\ \A d \in Drop : ~(InSeq(d, pending) /\ InSeq(d, drained))
  /\ \A d \in Drop : Waiting(d) => d <= delivered

\* Nothing stands in an empty queue.
LEMMA EmptyQueue == ASSUME NEW d PROVE ~InSeq(d, <<>>)
  BY DEF InSeq

\* Every step keeps the queue in order, and a drop that waits no longer never
\* waits again.
LEMMA QueueStep ==
  TypeInv /\ Queue /\ [Next]_vars =>
    /\ Queue'
    /\ \A d \in Drop : Settled(d) => Settled(d)'
<1> SUFFICES ASSUME TypeInv, Queue, [Next]_vars
             PROVE  Queue' /\ \A d \in Drop : Settled(d) => Settled(d)'
  OBVIOUS
<1>0. ASSUME UNCHANGED <<delivered, pending, drained>>
      PROVE  Queue' /\ \A d \in Drop : Settled(d) => Settled(d)'
  BY <1>0 DEF Queue, Settled, Waiting, InSeq, Distinct
<1>1. CASE ReceiveDrop
  <2> DEFINE n == delivered + 1
  <2>1. n \in Drop /\ pending \in Seq(Drop) /\ delivered \in Nat
    BY <1>1, MaxDropsAssumption DEF ReceiveDrop, TypeInv, TypeOK, Drop
  <2>2. pending' = Append(pending, n) /\ drained' = drained /\ delivered' = n
    BY <1>1 DEF ReceiveDrop
  <2>3. ~InSeq(n, pending) /\ ~InSeq(n, drained)
    BY <2>1 DEF Queue, Waiting
  <2> HIDE DEF n
  <2>4. Distinct(pending')
    BY <2>1, <2>2, <2>3, DistinctAppend DEF Queue
  <2>5. \A d : InSeq(d, pending') <=> InSeq(d, pending) \/ d = n
    BY <2>1, <2>2, InSeqAppend
  <2>6. \A d \in Drop : d <= delivered => d <= n /\ d # n
    BY <2>1 DEF n, Drop
  <2>7. n <= n
    BY <2>1 DEF Drop
  <2> QED
    BY <2>2, <2>3, <2>4, <2>5, <2>6, <2>7 DEF Queue, Settled, Waiting, InSeq, Distinct
<1>2. CASE BeginFrame
  <2>1. drained' = pending /\ pending' = <<>> /\ drained = <<>> /\ delivered' = delivered
    BY <1>2 DEF BeginFrame, TypeInv, TypeOK
  <2> QED BY <2>1, EmptyQueue DEF Queue, Settled, Waiting, InSeq, Distinct
<1>3. CASE ApplyDrop
  <2>1. /\ drained \in Seq(Drop) /\ drained # <<>>
        /\ drained' = Tail(drained) /\ pending' = pending /\ delivered' = delivered
    BY <1>3 DEF ApplyDrop, TypeInv, TypeOK, feed
  <2>2. Distinct(drained')
    BY <2>1, DistinctTail DEF Queue
  <2>3. \A d : InSeq(d, drained') => InSeq(d, drained)
    BY <2>1, InSeqTail
  <2> QED BY <2>1, <2>2, <2>3 DEF Queue, Settled, Waiting, InSeq, Distinct
<1>4. CASE Crash
  <2>1. drained' = <<>> /\ pending' = <<>> /\ delivered' = delivered
    BY <1>4 DEF Crash
  <2>2. Distinct(<<>>)
    BY DEF Distinct
  <2> QED BY <2>1, <2>2, EmptyQueue DEF Queue, Settled, Waiting
<1>5. CASE EndApply \/ AutomaticResetCheck \/ ResetButton \/ LoadResetCheck
  BY <1>0, <1>5 DEF EndApply, AutomaticResetCheck, ResetButton, LoadResetCheck,
     ResetAndSave, Skip, feed
<1>6. CASE LoadSession \/ StartThreads \/ JoinAutosave \/ StopFeed \/ UserStep
  BY <1>0, <1>6 DEF LoadSession, StartThreads, JoinAutosave, StopFeed, UserStep,
     Connect, BeginLoad, BeginUnload, feed
<1>7. CASE AutosaveTick \/ AutosaveExit \/ UNCHANGED vars
  BY <1>0, <1>7 DEF AutosaveTick, AutosaveExit, vars, feed
<1>8. CASE \E s \in Saver : SaveStep(s) \/ SaveFails(s)
  BY <1>0, <1>8, SaveFrame DEF feed
<1> QED
  BY <1>1, <1>2, <1>3, <1>4, <1>5, <1>6, <1>7, <1>8 DEF Next, MainStep

-----------------------------------------------------------------------------
(* No drop counts twice. *)

\* Empty totals count no drop twice.
LEMMA ZeroCountsOnce == CountsOnce(Zero)
  BY ZeroFacts DEF CountsOnce

\* Every step keeps NoDoubleCount: each map a step changes becomes empty, a copy
\* of another, or, by ApplyDrop, counts a drop that no map counted.
LEMMA NoDoubleCountStep ==
  TypeInv /\ Queue /\ NoDoubleCount /\ [Next]_vars => NoDoubleCount'
<1> SUFFICES ASSUME TypeInv, Queue, NoDoubleCount, [Next]_vars
             PROVE  NoDoubleCount'
  OBVIOUS
<1> DEFINE StillOnce(m) == \A d \in Drop : m[d] <= 1 /\ (m[d] > 0 => Settled(d)')
<1>0. /\ StillOnce(Zero)
      /\ CountsOnce(items) => StillOnce(items)
      /\ CountsOnce(currencies) => StillOnce(currencies)
      /\ \A s \in Saver : CountsOnce(save[s].items) => StillOnce(save[s].items)
      /\ \A s \in Saver : CountsOnce(save[s].currencies) => StillOnce(save[s].currencies)
      /\ CountsOnce(file.items.map) => StillOnce(file.items.map)
      /\ CountsOnce(file.currencies.map) => StillOnce(file.currencies.map)
  BY QueueStep, ZeroFacts DEF CountsOnce
<1>a. /\ StillOnce(Zero) /\ StillOnce(items) /\ StillOnce(currencies)
      /\ \A s \in Saver : StillOnce(save[s].items) /\ StillOnce(save[s].currencies)
      /\ StillOnce(file.items.map) /\ StillOnce(file.currencies.map)
  BY <1>0 DEF NoDoubleCount
<1> DEFINE InTotals == StillOnce(items') /\ StillOnce(currencies')
           InSaves  == \A s \in Saver : /\ StillOnce(save'[s].items)
                                        /\ StillOnce(save'[s].currencies)
           InFile   == StillOnce(file'.items.map) /\ StillOnce(file'.currencies.map)
<1>b. SUFFICES InTotals /\ InSaves /\ InFile
  BY DEF NoDoubleCount, CountsOnce
<1> HIDE DEF StillOnce
<1> USE <1>a DEF TypeInv, TypeOK, SaveRecord, tracker, feed
<1>1. CASE ReceiveDrop \/ BeginFrame \/ EndApply
  BY <1>1 DEF ReceiveDrop, BeginFrame, EndApply
<1>2. CASE ApplyDrop
  <2>0. PICK h \in Drop : h = Head(drained)
    BY <1>2 DEF ApplyDrop
  <2>1. /\ InSeq(h, drained) /\ ~InSeq(h, drained')
        /\ items' = Plus(items, h) /\ currencies' = Plus(currencies, h)
        /\ pending' = pending /\ delivered' = delivered
        /\ UNCHANGED <<save, file>>
    BY <1>2, <2>0, InSeqTail, DistinctTail DEF ApplyDrop, Queue
  <2>2. Settled(h)' /\ ~Settled(h)
    <3>1. h <= delivered /\ ~InSeq(h, pending)
      BY <2>1 DEF Queue, Waiting
    <3>2. ~InSeq(h, pending)'
      BY <2>1, <3>1 DEF InSeq
    <3>3. ~InSeq(h, drained)' /\ h <= delivered'
      BY <2>1, <3>1 DEF InSeq
    <3> QED BY <2>1, <3>2, <3>3 DEF Settled, Waiting
  <2>3. ASSUME NEW m \in Totals, CountsOnce(m), StillOnce(m) PROVE StillOnce(Plus(m, h))
    <3>1. m[h] = 0
      BY <2>1, <2>2, <2>3 DEF CountsOnce, Totals
    <3>2. Plus(m, h)[h] = 1 /\ \A e \in Drop : e # h => Plus(m, h)[e] = m[e]
      BY <3>1, PlusOfZero, Zenon
    <3>3. \A e \in Drop : e # h => m[e] <= 1 /\ (m[e] > 0 => Settled(e)')
      BY <2>3 DEF StillOnce
    <3>4. \A e \in Drop : e = h => Settled(e)'
      BY <2>2
    <3> QED BY <3>2, <3>3, <3>4 DEF StillOnce
  <2> QED BY <2>1, <2>3 DEF NoDoubleCount
<1>3. CASE AutomaticResetCheck \/ ResetButton \/ LoadResetCheck
  BY <1>3, IdleFacts DEF AutomaticResetCheck, ResetButton, LoadResetCheck,
     ResetAndSave, Skip, Saver
<1>4. CASE LoadSession
  BY <1>4 DEF LoadSession, LoadPersisted
<1>5. CASE JoinAutosave \/ AutosaveTick
  BY <1>5, IdleFacts DEF JoinAutosave, AutosaveTick, Saver
<1>6. CASE StartThreads \/ StopFeed \/ UserStep \/ AutosaveExit
  BY <1>6 DEF StartThreads, StopFeed, UserStep, Connect, BeginLoad, BeginUnload, AutosaveExit
<1>7. ASSUME NEW s \in Saver, SaveStep(s) \/ SaveFails(s)
      PROVE  InTotals /\ InSaves /\ InFile
  <2> SUFFICES InSaves /\ InFile
    BY <1>7, SaveFrame
  <2>1. CASE SaveReadItems(s)
    BY <2>1 DEF SaveReadItems
  <2>2. CASE SaveReadCurrencies(s)
    BY <2>2 DEF SaveReadCurrencies
  <2>3. CASE SaveOpen(s)
    BY <2>3 DEF SaveOpen, Absent
  <2>4. CASE SaveWriteCurrencies(s)
    BY <2>4 DEF SaveWriteCurrencies
  <2>5. CASE SaveWriteItems(s)
    BY <2>5, IdleFacts DEF SaveWriteItems, Finish
  <2>6. CASE SaveFails(s)
    BY <2>6, IdleFacts DEF SaveFails, Finish
  <2> QED BY <1>7, <2>1, <2>2, <2>3, <2>4, <2>5, <2>6 DEF SaveStep
<1>8. CASE Crash
  BY <1>8, IdleFacts DEF Crash
<1>9. CASE UNCHANGED vars
  BY <1>9 DEF vars
<1> QED
  BY <1>1, <1>2, <1>3, <1>4, <1>5, <1>6, <1>7, <1>8, <1>9 DEF Next, MainStep

-----------------------------------------------------------------------------
(* Torn saves, and resets that have reached the disk. *)

\* Every step keeps a live drop's currencies in every save that has its items.
LEMMA TornStep ==
  TypeInv /\ Threads /\ Queue /\ NoDoubleCount /\ TornSaveIsOfADroppedDrop /\ [Next]_vars
    => TornSaveIsOfADroppedDrop'
<1> SUFFICES ASSUME TypeInv, Threads, Queue, NoDoubleCount, TornSaveIsOfADroppedDrop,
                    [Next]_vars
             PROVE  TornSaveIsOfADroppedDrop'
  OBVIOUS
<1> USE AfterSaveFacts DEF TypeInv, TypeOK, Agree, TornSaveIsOfADroppedDrop, SaveRecord,
        tracker, feed
<1>1. CASE ReceiveDrop \/ BeginFrame \/ EndApply
  BY <1>1 DEF ReceiveDrop, BeginFrame, EndApply
<1>2. CASE ApplyDrop
  <2>0. PICK h \in Drop : h = Head(drained)
    BY <1>2 DEF ApplyDrop
  <2>1. ~Settled(h)
    BY <1>2, <2>0, InSeqTail DEF ApplyDrop, Settled, Waiting
  <2>2. \A s \in Saver : save[s].items[h] = 0
    BY <2>1 DEF NoDoubleCount, CountsOnce, Totals
  <2>3. \A d \in Drop : d # h => currencies'[d] = currencies[d]
    BY <1>2, <2>0, PlusFacts DEF ApplyDrop
  <2> QED BY <1>2, <2>2, <2>3 DEF ApplyDrop
<1>3. CASE AutomaticResetCheck \/ ResetButton \/ LoadResetCheck
  BY <1>3, IdleFacts, ZeroFacts DEF AutomaticResetCheck, ResetButton, LoadResetCheck,
     ResetAndSave, Skip, Saver
<1>4. CASE LoadSession
  BY <1>4 DEF LoadSession, Threads, Saver
<1>5. CASE JoinAutosave \/ AutosaveTick
  BY <1>5, IdleFacts DEF JoinAutosave, AutosaveTick, Saver
<1>6. CASE StartThreads \/ StopFeed \/ UserStep \/ AutosaveExit
  BY <1>6 DEF StartThreads, StopFeed, UserStep, Connect, BeginLoad, BeginUnload, AutosaveExit
<1>7. ASSUME NEW s \in Saver, SaveStep(s) \/ SaveFails(s)
      PROVE  TornSaveIsOfADroppedDrop'
  <2>1. CASE SaveReadItems(s)
    BY <2>1 DEF SaveReadItems
  <2>2. CASE SaveReadCurrencies(s)
    BY <2>2 DEF SaveReadCurrencies
  <2>3. CASE SaveOpen(s)
    BY <2>3 DEF SaveOpen
  <2>4. CASE SaveWriteCurrencies(s)
    BY <2>4 DEF SaveWriteCurrencies
  <2>5. CASE SaveWriteItems(s)
    BY <2>5, IdleFacts DEF SaveWriteItems, Finish
  <2>6. CASE SaveFails(s)
    BY <2>6, IdleFacts DEF SaveFails, Finish
  <2> QED BY <1>7, <2>1, <2>2, <2>3, <2>4, <2>5, <2>6 DEF SaveStep
<1>8. CASE Crash
  BY <1>8, IdleFacts DEF Crash
<1>9. CASE UNCHANGED vars
  BY <1>9 DEF vars
<1> QED
  BY <1>1, <1>2, <1>3, <1>4, <1>5, <1>6, <1>7, <1>8, <1>9 DEF Next, MainStep

\* A part of the file holds totals, also when it is absent.
LEMMA PartMaps ==
  TypeInv => file.items.map \in Totals /\ file.currencies.map \in Totals
  BY ZeroFacts DEF TypeInv, TypeOK, Part, Absent

\* Every step keeps ResetReachesDisk.
LEMMA ResetReachesDiskStep ==
  TypeInv /\ Threads /\ MainSave /\ AfterUnload /\ ResetReachesDisk /\ [Next]_vars
    => ResetReachesDisk'
<1> SUFFICES ASSUME TypeInv, Threads, MainSave, AfterUnload, ResetReachesDisk, [Next]_vars
             PROVE  ResetReachesDisk'
  OBVIOUS
<1> USE AfterSaveFacts DEF TypeInv, TypeOK, Agree, ResetReachesDisk, SaveRecord,
        tracker, feed
<1>1. CASE ReceiveDrop \/ BeginFrame \/ EndApply
  BY <1>1 DEF ReceiveDrop, BeginFrame, EndApply
<1>2. CASE ApplyDrop
  <2>0. PICK h \in Drop : h = Head(drained)
    BY <1>2 DEF ApplyDrop
  <2>1. /\ items' = Plus(items, h) /\ currencies' = Plus(currencies, h)
        /\ UNCHANGED <<file, saved, main>>
    BY <1>2, <2>0 DEF ApplyDrop
  <2>2. file.items.map \in Totals /\ file.currencies.map \in Totals
    BY PartMaps
  <2>3. ASSUME NEW m \in Totals, NEW t \in Totals, NEW d \in Drop, m[d] <= t[d]
        PROVE  m[d] <= Plus(t, h)[d]
    <3>1. m[d] \in Nat /\ t[d] \in Nat
      BY DEF Totals
    <3>2. Plus(t, h)[d] = t[d] \/ Plus(t, h)[d] = t[d] + 1
      BY PlusFacts
    <3> QED BY <2>3, <3>1, <3>2
  <2> QED BY <2>1, <2>2, <2>3
<1>3. CASE AutomaticResetCheck \/ ResetButton \/ LoadResetCheck
  BY <1>3 DEF AutomaticResetCheck, ResetButton, LoadResetCheck, ResetAndSave, Skip
<1>4. CASE LoadSession
  BY <1>4 DEF LoadSession, LoadPersisted, AfterUnload, Exact
<1>5. CASE JoinAutosave \/ AutosaveTick
  BY <1>5 DEF JoinAutosave, AutosaveTick
<1>6. CASE StartThreads \/ StopFeed \/ UserStep \/ AutosaveExit
  BY <1>6 DEF StartThreads, StopFeed, UserStep, Connect, BeginLoad, BeginUnload, AutosaveExit
<1>7. ASSUME NEW s \in Saver, SaveStep(s) \/ SaveFails(s)
      PROVE  ResetReachesDisk'
  <2>1. CASE SaveReadItems(s) \/ SaveReadCurrencies(s)
    BY <2>1 DEF SaveReadItems, SaveReadCurrencies
  <2>2. CASE SaveOpen(s)
    BY <2>2 DEF SaveOpen, Absent
  <2>3. CASE SaveWriteCurrencies(s)
    BY <2>3 DEF SaveWriteCurrencies, Saver
  <2>4. CASE SaveWriteItems(s) /\ s = "main"
    <3>1. /\ file'.items.map = items /\ items' = items /\ currencies' = currencies
          /\ file'.currencies = file.currencies
          /\ file.currencies.by = "main" => file.currencies.map = currencies
      BY <2>4 DEF SaveWriteItems, MainSave
    <3>2. \A d \in Drop : items[d] <= items[d] /\ currencies[d] <= currencies[d]
      BY DEF Totals
    <3> QED BY <3>1, <3>2
  <2>5. CASE SaveWriteItems(s) /\ s = "autosave"
    BY <2>5 DEF SaveWriteItems, Finish
  <2>6. CASE SaveFails(s)
    BY <2>6 DEF SaveFails, Finish, Saver
  <2> QED BY <1>7, <2>1, <2>2, <2>3, <2>4, <2>5, <2>6 DEF SaveStep, Saver
<1>8. CASE Crash
  BY <1>8 DEF Crash
<1>9. CASE UNCHANGED vars
  BY <1>9 DEF vars
<1> QED
  BY <1>1, <1>2, <1>3, <1>4, <1>5, <1>6, <1>7, <1>8, <1>9 DEF Next, MainStep

-----------------------------------------------------------------------------

\* The inductive invariant.  NoDoubleCount needs Queue (a drop applied was not
\* counted before); CleanUnloadExact and ResetReachesDisk need Threads and
\* MainSave (nothing moves the totals or the file under main's final save).
IInv ==
  /\ TypeInv
  /\ Threads
  /\ MainSave
  /\ AfterUnload
  /\ Queue
  /\ NoDoubleCount
  /\ TornSaveIsOfADroppedDrop
  /\ ResetReachesDisk

\* It holds when the addon is first loaded.
LEMMA InitIInv == Init => IInv
<1> SUFFICES ASSUME Init PROVE IInv
  OBVIOUS
<1>1. TypeInv
  BY InitTypeInv
<1>2. Threads /\ AfterUnload /\ MainSave /\ TornSaveIsOfADroppedDrop /\ ResetReachesDisk
  BY IdleFacts, AfterSaveFacts
     DEF Init, Threads, AfterUnload, MainSave, TornSaveIsOfADroppedDrop, ResetReachesDisk, Saver
<1>3. Distinct(<<>>)
  BY DEF Distinct
<1>4. Queue
  BY <1>3, EmptyQueue DEF Init, Queue, Waiting
<1>5. NoDoubleCount
  BY ZeroCountsOnce, IdleFacts DEF Init, NoDoubleCount, Absent
<1> QED BY <1>1, <1>2, <1>4, <1>5 DEF IInv

\* Every step keeps it.
LEMMA StepIInv == IInv /\ [Next]_vars => IInv'
  BY TypeStep, ThreadsStep, MainSaveStep, AfterUnloadStep, QueueStep, NoDoubleCountStep,
     TornStep, ResetReachesDiskStep DEF IInv

\* It holds throughout.
LEMMA Invariance == Spec => []IInv
  BY InitIInv, StepIInv, PTL DEF Spec

\* No drop is ever counted twice, in memory or on disk, however many drops
\* there are (DrainDrops, ApplyDrop, SaveSessionState, LoadSessionState).
THEOREM NoDoubleCountAlways == Spec => []NoDoubleCount
<1>1. IInv => NoDoubleCount
  BY DEF IInv
<1> QED BY <1>1, Invariance, PTL

\* An Unload() whose save went through leaves the session on disk exactly
\* (StopAutosaveThread before SaveSessionState).
THEOREM UnloadIsExact == Spec => []CleanUnloadExact
<1>1. IInv => CleanUnloadExact
  BY DEF IInv, AfterUnload, Exact, CleanUnloadExact
<1> QED BY <1>1, Invariance, PTL

\* A save that mixes two moments never has a live drop's items without its
\* currencies (GetItemTotals before GetCurrencyTotals in SaveSessionState).
THEOREM TornOneWay == Spec => []TornSaveIsOfADroppedDrop
<1>1. IInv => TornSaveIsOfADroppedDrop
  BY DEF IInv
<1> QED BY <1>1, Invariance, PTL

\* A reset is on disk once the save that follows it is over (ResetButton,
\* CheckAndApplyAutomaticReset).
THEOREM ResetIsOnDisk == Spec => []ResetReachesDisk
<1>1. IInv => ResetReachesDisk
  BY DEF IInv
<1> QED BY <1>1, Invariance, PTL

-----------------------------------------------------------------------------
(* No drop is lost short of the end of the process. *)

\* A waiting drop waits on or is counted, short of the end of the process.
LEMMA WaitingStep ==
  ASSUME TypeInv, [Next]_vars, NEW d \in Drop, Waiting(d)
  PROVE  Waiting(d)' \/ items'[d] > 0 \/ EndOfProcess
<1>0. ASSUME UNCHANGED <<pending, drained>> PROVE Waiting(d)'
  BY <1>0 DEF Waiting, InSeq
<1>1. CASE ReceiveDrop
  <2>1. delivered + 1 \in Drop /\ pending \in Seq(Drop)
    BY <1>1, MaxDropsAssumption DEF ReceiveDrop, TypeInv, TypeOK, Drop
  <2>2. InSeq(d, pending) => InSeq(d, pending')
    BY <1>1, <2>1, InSeqAppend DEF ReceiveDrop
  <2> QED BY <1>1, <2>2 DEF ReceiveDrop, Waiting, InSeq
<1>2. CASE BeginFrame
  <2>1. drained' = pending /\ drained = <<>>
    BY <1>2 DEF BeginFrame, TypeInv, TypeOK
  <2> QED BY <2>1, EmptyQueue DEF Waiting, InSeq
<1>3. CASE ApplyDrop
  <2>0. PICK h \in Drop : h = Head(drained)
    BY <1>3 DEF ApplyDrop, TypeInv, TypeOK
  <2>1. CASE d = h
    <3>1. items' = Plus(items, d) /\ items[d] \in Nat
      BY <1>3, <2>0, <2>1 DEF ApplyDrop, TypeInv, TypeOK, Totals
    <3>2. items'[d] = items[d] + 1
      BY <3>1, PlusFacts DEF TypeInv, TypeOK
    <3> QED BY <3>1, <3>2
  <2>2. CASE d # h
    <3>1. InSeq(d, drained) => InSeq(d, drained')
      BY <1>3, <2>0, <2>2, InSeqTail DEF ApplyDrop, TypeInv, TypeOK
    <3>2. InSeq(d, pending) => InSeq(d, pending')
      BY <1>3 DEF ApplyDrop, feed, InSeq
    <3>3. Waiting(d)' <=> InSeq(d, pending') \/ InSeq(d, drained')
      BY DEF Waiting, InSeq
    <3> QED BY <3>1, <3>2, <3>3 DEF Waiting
  <2> QED BY <2>1, <2>2
<1>4. CASE Crash
  BY <1>4 DEF EndOfProcess
<1>5. CASE EndApply \/ AutomaticResetCheck \/ ResetButton \/ LoadResetCheck
  BY <1>0, <1>5 DEF EndApply, AutomaticResetCheck, ResetButton, LoadResetCheck,
     ResetAndSave, Skip, feed
<1>6. CASE LoadSession \/ StartThreads \/ JoinAutosave \/ StopFeed \/ UserStep
  BY <1>0, <1>6 DEF LoadSession, StartThreads, JoinAutosave, StopFeed, UserStep,
     Connect, BeginLoad, BeginUnload, feed
<1>7. CASE AutosaveTick \/ AutosaveExit \/ UNCHANGED vars
  BY <1>0, <1>7 DEF AutosaveTick, AutosaveExit, vars, feed
<1>8. CASE \E s \in Saver : SaveStep(s) \/ SaveFails(s)
  BY <1>0, <1>8, SaveFrame DEF feed
<1> QED
  BY <1>1, <1>2, <1>3, <1>4, <1>5, <1>6, <1>7, <1>8 DEF Next, MainStep

\* A counted drop is dropped by a reset, the end of the process, or a Load()
\* after a failed save, and by nothing else.
LEMMA CountedStep ==
  ASSUME TypeInv, AfterUnload, [Next]_vars,
         NEW d \in Drop, items[d] > 0, items'[d] = 0
  PROVE  ResetStep \/ EndOfProcess \/ (main = "load" /\ ~saved)
<1>0. items' # items
  OBVIOUS
<1> USE <1>0 DEF tracker
<1>1. CASE ApplyDrop
  <2>0. PICK h \in Drop : h = Head(drained)
    BY <1>1 DEF ApplyDrop, TypeInv, TypeOK
  <2>1. items'[d] = items[d] \/ items'[d] = items[d] + 1
    BY <1>1, <2>0, PlusFacts DEF ApplyDrop, TypeInv, TypeOK
  <2>2. items[d] \in Nat
    BY DEF TypeInv, TypeOK, Totals
  <2> QED BY <2>1, <2>2
<1>2. CASE AutomaticResetCheck \/ ResetButton \/ LoadResetCheck
  BY <1>2 DEF AutomaticResetCheck, ResetButton, LoadResetCheck, ResetAndSave, Skip, ResetStep
<1>3. CASE LoadSession
  BY <1>3 DEF LoadSession, LoadPersisted, Mixed, Complete, Absent, AfterUnload, Exact
<1>4. CASE Crash
  BY <1>4 DEF EndOfProcess
<1>5. CASE ReceiveDrop \/ BeginFrame \/ EndApply \/ StartThreads \/ JoinAutosave
           \/ StopFeed \/ UserStep
  BY <1>5 DEF ReceiveDrop, BeginFrame, EndApply, StartThreads, JoinAutosave, StopFeed,
     UserStep, Connect, BeginLoad, BeginUnload
<1>6. CASE AutosaveTick \/ AutosaveExit \/ UNCHANGED vars
  BY <1>6 DEF AutosaveTick, AutosaveExit, vars
<1>7. CASE \E s \in Saver : SaveStep(s) \/ SaveFails(s)
  BY <1>7, SaveFrame
<1> QED
  BY <1>1, <1>2, <1>3, <1>4, <1>5, <1>6, <1>7 DEF Next, MainStep

\* No drop is lost between the websocket and the totals, nor over an Unload()
\* and Load() whose save went through.
THEOREM NoDropIsLost == Spec => NoDropLost
<1>1. IInv /\ [Next]_vars =>
        [\A d \in Drop :
           /\ Waiting(d) => Waiting(d)' \/ items'[d] > 0 \/ EndOfProcess
           /\ items[d] > 0 /\ items'[d] = 0 =>
                ResetStep \/ EndOfProcess \/ (main = "load" /\ ~saved)]_vars
  BY WaitingStep, CountedStep DEF IInv
<1> QED BY <1>1, Invariance, PTL DEF Spec, NoDropLost

-----------------------------------------------------------------------------
(* The ledger, and what has been on disk. *)

\* The empty totals count nothing, and applying a drop that was not counted
\* counts that one.
LEMMA CountedFacts ==
  /\ Counted(Zero) = {}
  /\ \A m \in Totals, d \in Drop : m[d] = 0 => Counted(Plus(m, d)) = Counted(m) \cup {d}
<1>1. Counted(Zero) = {}
  BY DEF Counted, Zero
<1>2. ASSUME NEW m \in Totals, NEW d \in Drop, m[d] = 0
      PROVE  Counted(Plus(m, d)) = Counted(m) \cup {d}
  <2>1. Plus(m, d)[d] = 1 /\ \A e \in Drop : e # d => Plus(m, d)[e] = m[e]
    BY <1>2, PlusFacts
  <2> QED BY <2>1 DEF Counted
<1> QED BY <1>1, <1>2

\* Copies that are as before, of the present totals, or empty.
Copied(item, currency) ==
  /\ Counted(item) \in KeptItems \cup {Counted(items), {}}
  /\ Counted(currency) \in KeptCurrencies \cup {Counted(currencies), {}}

\* A step of a saver, or one on the file, keeps a copy at most.
LEMMA KeepStep ==
  ASSUME /\ \A s \in Saver : Copied(save'[s].items, save'[s].currencies)
         /\ Copied(file'.items.map, file'.currencies.map),
         UNCHANGED <<delivered, pending, drained, items, currencies>>
  PROVE  L!Keep
<1>1. KeptItems' \subseteq KeptItems \cup {Counted(items), {}}
  <2>1. KeptItems' = {Counted(save'[s].items) : s \in Saver} \cup {Counted(file'.items.map)}
    BY DEF KeptItems, Counted
  <2> QED BY <2>1 DEF Copied
<1>2. KeptCurrencies' \subseteq KeptCurrencies \cup {Counted(currencies), {}}
  <2>1. KeptCurrencies' = {Counted(save'[s].currencies) : s \in Saver} \cup {Counted(file'.currencies.map)}
    BY DEF KeptCurrencies, Counted
  <2> QED BY <2>1 DEF Copied
<1> QED BY <1>1, <1>2 DEF L!Keep, L!columns, Counted

\* A step that touches none of what the ledger shows.
LEMMA Stutter ==
  ASSUME UNCHANGED <<delivered, items, currencies, save, file>>,
         (drained \o pending)' = drained \o pending
  PROVE  UNCHANGED L!vars
  BY DEF L!vars, L!columns, L!kept, KeptItems, KeptCurrencies, Counted

\* What the savers hold and the file does is kept already.
LEMMA KeptAlready ==
  /\ \A s \in Saver : Copied(save[s].items, save[s].currencies)
  /\ Copied(file.items.map, file.currencies.map)
  /\ Copied(Zero, Zero)
  BY CountedFacts DEF Copied, KeptItems, KeptCurrencies

\* A drop is sent: it arrives.
LEMMA ReceiveArrives == TypeInv /\ ReceiveDrop => L!Arrive
<1> SUFFICES ASSUME TypeInv, ReceiveDrop PROVE L!Arrive
  OBVIOUS
<1>1. delivered + 1 \in Drop
  BY MaxDropsAssumption DEF ReceiveDrop, TypeInv, TypeOK, Drop
<1>2. (drained \o pending)' = Append(drained \o pending, delivered + 1)
  BY <1>1 DEF ReceiveDrop, TypeInv, TypeOK
<1> QED BY <1>1, <1>2
        DEF ReceiveDrop, L!Arrive, L!columns, L!kept, tracker, KeptItems, KeptCurrencies,
            Counted

\* A drained drop is applied: it is entered, in both columns.
LEMMA ApplyEnters == IInv /\ ApplyDrop => L!Enter
<1> SUFFICES ASSUME IInv, ApplyDrop PROVE L!Enter
  OBVIOUS
<1> DEFINE d == Head(drained)
<1>1. d \in Drop /\ items \in Totals /\ currencies \in Totals
  BY DEF ApplyDrop, IInv, TypeInv, TypeOK
<1>2. items[d] = 0 /\ currencies[d] = 0
  <2>1. InSeq(d, drained)
    BY DEF InSeq, ApplyDrop, IInv, TypeInv, TypeOK
  <2>2. ~(items[d] > 0) /\ ~(currencies[d] > 0)
    BY <1>1, <2>1 DEF IInv, NoDoubleCount, CountsOnce, Settled, Waiting
  <2> QED BY <1>1, <2>2 DEF Totals
<1>3. /\ Counted(items)' = Counted(items) \cup {d}
      /\ Counted(currencies)' = Counted(currencies) \cup {d}
  <2>1. items' = Plus(items, d) /\ currencies' = Plus(currencies, d)
    BY DEF ApplyDrop
  <2> QED BY <1>1, <1>2, <2>1, CountedFacts DEF Counted
<1>4. /\ drained \o pending # <<>>
      /\ Head(drained \o pending) = d
      /\ (drained \o pending)' = Tail(drained \o pending)
  BY DEF ApplyDrop, feed, IInv, TypeInv, TypeOK
<1>5. d \notin Counted(items) \cup Counted(currencies)
  BY <1>2 DEF Counted
<1> QED BY <1>3, <1>4, <1>5
        DEF ApplyDrop, feed, L!Enter, L!kept, KeptItems, KeptCurrencies, Counted

\* A frame takes the queue: nothing moves in the ledger.
LEMMA BeginFrameStutters == TypeInv /\ BeginFrame => UNCHANGED L!vars
<1> SUFFICES ASSUME TypeInv, BeginFrame PROVE UNCHANGED L!vars
  OBVIOUS
<1>1. drained = <<>> /\ pending \in Seq(Drop)
  BY DEF TypeInv, TypeOK, BeginFrame
<1>2. (drained \o pending)' = drained \o pending
  BY <1>1 DEF BeginFrame
<1> QED BY <1>2, Stutter DEF BeginFrame, tracker

\* A reset clears both columns, and no copy but the empty one is new.
LEMMA ResetClears == ASSUME NEW pc, TypeInv, ResetAndSave(pc) PROVE L!Reset
<1>1. Counted(items)' = {} /\ Counted(currencies)' = {}
  BY CountedFacts DEF ResetAndSave, Counted
<1>2. KeptItems' \subseteq KeptItems \cup {{}}
  BY CountedFacts, IdleFacts
     DEF ResetAndSave, KeptItems, Counted, TypeInv, TypeOK, Saver
<1>3. KeptCurrencies' \subseteq KeptCurrencies \cup {{}}
  BY CountedFacts, IdleFacts
     DEF ResetAndSave, KeptCurrencies, Counted, TypeInv, TypeOK, Saver
<1> QED BY <1>1, <1>2, <1>3 DEF ResetAndSave, feed, L!Reset

\* session.json comes back, or nothing does.
LEMMA LoadRestores == LoadSession => L!Restore \/ UNCHANGED L!vars
<1> SUFFICES ASSUME LoadSession PROVE L!Restore \/ UNCHANGED L!vars
  OBVIOUS
<1>1. CASE LoadPersisted(file.items.map, file.currencies.map)
  <2>1. Counted(items)' \in KeptItems /\ Counted(currencies)' \in KeptCurrencies
    BY <1>1 DEF LoadPersisted, KeptItems, KeptCurrencies, Counted
  <2> QED BY <2>1
          DEF LoadSession, feed, L!Restore, L!kept, KeptItems, KeptCurrencies, Counted
<1>2. CASE UNCHANGED tracker
  BY <1>2, Stutter DEF LoadSession, feed, tracker
<1> QED BY <1>1, <1>2 DEF LoadSession

\* The process ends: only copies are left.
LEMMA CrashEnds == TypeInv /\ Crash => L!EndOfProcess
<1> SUFFICES ASSUME TypeInv, Crash PROVE L!EndOfProcess
  OBVIOUS
<1>1. Counted(items)' = {} /\ Counted(currencies)' = {}
  BY CountedFacts DEF Crash, Counted
<1>2. KeptItems' \subseteq KeptItems \cup {{}}
  BY CountedFacts, IdleFacts DEF Crash, KeptItems, Counted
<1>3. KeptCurrencies' \subseteq KeptCurrencies \cup {{}}
  BY CountedFacts, IdleFacts DEF Crash, KeptCurrencies, Counted
<1>4. (drained \o pending)' = <<>>
  BY DEF Crash
<1> QED BY <1>1, <1>2, <1>3, <1>4 DEF Crash, L!EndOfProcess

\* A saver reads, opens, writes or gives up: it keeps a copy at most.
LEMMA SaveKeeps ==
  ASSUME NEW s \in Saver, TypeInv, SaveStep(s) \/ SaveFails(s)
  PROVE  L!Keep
<1>0. save \in [Saver -> SaveRecord]
  BY DEF TypeInv, TypeOK, SaveRecord
<1>1. UNCHANGED <<delivered, pending, drained, items, currencies>>
  BY DEF SaveStep, SaveReadItems, SaveReadCurrencies, SaveOpen, SaveWriteCurrencies,
         SaveWriteItems, SaveFails, feed, tracker
<1>2. \A t \in Saver : Copied(save'[t].items, save'[t].currencies)
  <2>1. CASE SaveReadItems(s)
    BY <1>0, <2>1, KeptAlready DEF SaveReadItems, SaveRecord, Copied
  <2>2. CASE SaveReadCurrencies(s)
    BY <1>0, <2>2, KeptAlready DEF SaveReadCurrencies, SaveRecord, Copied
  <2>3. CASE SaveOpen(s) \/ SaveWriteCurrencies(s)
    BY <1>0, <2>3, KeptAlready DEF SaveOpen, SaveWriteCurrencies, SaveRecord
  <2>4. CASE SaveWriteItems(s) \/ SaveFails(s)
    BY <1>0, <2>4, KeptAlready, IdleFacts DEF SaveWriteItems, SaveFails, Finish, SaveRecord
  <2> QED BY <2>1, <2>2, <2>3, <2>4 DEF SaveStep
<1>3. Copied(file'.items.map, file'.currencies.map)
  <2>1. CASE SaveReadItems(s) \/ SaveReadCurrencies(s) \/ SaveFails(s)
    BY <2>1, KeptAlready DEF SaveReadItems, SaveReadCurrencies, SaveFails
  <2>2. CASE SaveOpen(s)
    BY <2>2, KeptAlready DEF SaveOpen, Absent
  <2>3. CASE SaveWriteCurrencies(s)
    BY <2>3, KeptAlready DEF SaveWriteCurrencies, TypeInv, TypeOK, Copied
  <2>4. CASE SaveWriteItems(s)
    BY <2>4, KeptAlready DEF SaveWriteItems, TypeInv, TypeOK, Copied
  <2> QED BY <2>1, <2>2, <2>3, <2>4 DEF SaveStep
<1> QED BY <1>1, <1>2, <1>3, KeepStep

\* A saver is started: its record is empty.
LEMMA StartKeeps ==
  ASSUME NEW s \in Saver, TypeInv, save' = [save EXCEPT ![s] = Started],
         UNCHANGED <<delivered, pending, drained, items, currencies, file>>
  PROVE  L!Keep
<1>1. \A t \in Saver : Copied(save'[t].items, save'[t].currencies)
  BY KeptAlready, IdleFacts DEF TypeInv, TypeOK
<1> QED BY <1>1, KeptAlready, KeepStep

-----------------------------------------------------------------------------

\* The first state is an empty ledger's.
LEMMA InitRefines == Init => L!Init
<1> SUFFICES ASSUME Init PROVE L!Init
  OBVIOUS
<1>1. KeptItems = {{}} /\ KeptCurrencies = {{}}
  BY CountedFacts, IdleFacts DEF Init, KeptItems, KeptCurrencies, Absent, Saver
<1>2. drained \o pending = <<>>
  BY DEF Init
<1> QED BY <1>1, <1>2, CountedFacts DEF Init, L!Init

\* Every step is a step of the ledger, or none.
LEMMA NextRefines == IInv /\ [Next]_vars => [L!Next]_(L!vars)
<1> SUFFICES ASSUME IInv, [Next]_vars PROVE [L!Next]_(L!vars)
  OBVIOUS
<1>0. TypeInv
  BY DEF IInv
<1> USE DEF L!Next
<1>1. CASE ReceiveDrop
  BY <1>0, <1>1, ReceiveArrives
<1>2. CASE BeginFrame
  BY <1>0, <1>2, BeginFrameStutters
<1>3. CASE ApplyDrop
  BY <1>3, ApplyEnters
<1>4. CASE EndApply \/ StartThreads \/ StopFeed
  BY <1>4, Stutter DEF EndApply, StartThreads, StopFeed, feed, tracker
<1>5. CASE AutomaticResetCheck \/ ResetButton \/ LoadResetCheck
  <2>1. PICK pc \in MainPC : ResetAndSave(pc) \/ Skip(pc)
    BY <1>5 DEF AutomaticResetCheck, ResetButton, LoadResetCheck, MainPC, Saving, AfterSave
  <2>2. CASE ResetAndSave(pc)
    BY <1>0, <2>2, ResetClears
  <2>3. CASE Skip(pc)
    BY <2>3, Stutter DEF Skip, feed, tracker
  <2> QED BY <2>1, <2>2, <2>3
<1>6. CASE LoadSession
  BY <1>6, LoadRestores
<1>7. CASE JoinAutosave
  BY <1>0, <1>7, StartKeeps DEF JoinAutosave, feed, tracker, Saver
<1>8. CASE UserStep
  BY <1>8, Stutter DEF UserStep, Connect, BeginLoad, BeginUnload, feed, tracker
<1>9. CASE AutosaveTick
  BY <1>0, <1>9, StartKeeps DEF AutosaveTick, feed, tracker, Saver
<1>10. CASE AutosaveExit
  BY <1>10, Stutter DEF AutosaveExit, feed, tracker
<1>11. CASE \E s \in Saver : SaveStep(s) \/ SaveFails(s)
  BY <1>0, <1>11, SaveKeeps
<1>12. CASE Crash
  BY <1>0, <1>12, CrashEnds
<1>13. CASE UNCHANGED vars
  BY <1>13, Stutter DEF vars
<1> QED BY <1>1, <1>2, <1>3, <1>4, <1>5, <1>6, <1>7, <1>8, <1>9, <1>10, <1>11, <1>12, <1>13
        DEF Next, MainStep

\* The threads, frames, locks and saves of the addon implement the ledger, for
\* any number of drops: each is entered once, in order, in both columns at once,
\* and what comes back after the end of the process is what was once there.
THEOREM ImplementsLedger == Spec => RefinesLedger
<1> QED BY InitRefines, NextRefines, Invariance, PTL
        DEF Spec, RefinesLedger, L!Spec

\* A queue of the latest of n drops, oldest first.
Lined(q, n) ==
  /\ q \in Seq(Nat)
  /\ Len(q) <= n
  /\ \A i \in 1 .. Len(q) : q[i] = n - Len(q) + i

\* One more drop joins at the end, and the first to leave is the oldest.
LEMMA LinedFacts ==
  ASSUME NEW n \in Nat, NEW q, Lined(q, n)
  PROVE  /\ Lined(Append(q, n + 1), n + 1) /\ Len(Append(q, n + 1)) = Len(q) + 1
         /\ q # <<>> => /\ Lined(Tail(q), n) /\ Len(Tail(q)) = Len(q) - 1
                        /\ Head(q) = n - Len(Tail(q))
<1>1. Lined(Append(q, n + 1), n + 1) /\ Len(Append(q, n + 1)) = Len(q) + 1
  BY DEF Lined
<1>2. ASSUME q # <<>>
      PROVE  /\ Lined(Tail(q), n) /\ Len(Tail(q)) = Len(q) - 1
             /\ Head(q) = n - Len(Tail(q))
  BY <1>2 DEF Lined
<1> QED BY <1>1, <1>2

\* The invariant of the ledger, with its types.
OrderInv ==
  /\ delivered \in Nat
  /\ Lined(drained \o pending, delivered)
  /\ \A S \in {Counted(items), Counted(currencies)} \cup KeptItems \cup KeptCurrencies :
       \A d \in S : d \in Nat /\ d <= delivered - Len(drained \o pending)

LEMMA OrderStep == OrderInv /\ [L!Next]_L!vars => OrderInv'
<1> DEFINE q == drained \o pending
           waiting == Len(q)
           In == Counted(items)
           Cn == Counted(currencies)
<1> SUFFICES ASSUME OrderInv, [L!Next]_L!vars PROVE OrderInv'
  OBVIOUS
<1>0. /\ delivered \in Nat /\ Lined(q, delivered) /\ waiting \in Nat
      /\ \A S \in {In, Cn} \cup KeptItems \cup KeptCurrencies :
           \A d \in S : d \in Nat /\ d <= delivered - waiting
  BY DEF OrderInv, Lined
<1>1. SUFFICES /\ delivered' \in Nat /\ Lined(q', delivered')
               /\ \A S \in {In', Cn'} \cup KeptItems' \cup KeptCurrencies' :
                    \A d \in S : d \in Nat /\ d <= delivered' - Len(q')
  BY DEF OrderInv
<1>2. CASE L!Arrive
  <2>1. /\ delivered' = delivered + 1 /\ q' = Append(q, delivered + 1)
        /\ In' = In /\ Cn' = Cn /\ KeptItems' = KeptItems /\ KeptCurrencies' = KeptCurrencies
    BY <1>2 DEF L!Arrive, L!columns, L!kept
  <2> HIDE DEF q, In, Cn
  <2> QED BY <1>0, <2>1, LinedFacts
<1>3. CASE L!Enter
  <2>1. /\ delivered' = delivered /\ q # <<>> /\ q' = Tail(q)
        /\ In' = In \cup {Head(q)} /\ Cn' = Cn \cup {Head(q)}
        /\ KeptItems' = KeptItems /\ KeptCurrencies' = KeptCurrencies
    BY <1>3 DEF L!Enter, L!kept
  <2> HIDE DEF q, In, Cn
  <2>2. /\ Lined(q', delivered) /\ Len(q') = waiting - 1 /\ Head(q) = delivered - Len(q')
        /\ Head(q) \in Nat
    BY <1>0, <2>1, LinedFacts DEF Lined
  <2>3. Len(q') \in Nat /\ delivered - Len(q') = delivered - waiting + 1
    BY <1>0, <2>2
  <2>4. ASSUME NEW S \in {In', Cn'} \cup KeptItems' \cup KeptCurrencies', NEW d \in S
        PROVE  d \in Nat /\ d <= delivered - Len(q')
    <3>1. CASE d = Head(q)
      BY <1>0, <2>2, <2>3, <3>1
    <3>2. CASE d # Head(q)
      <4>1. \E T \in {In, Cn} \cup KeptItems \cup KeptCurrencies : d \in T
        BY <2>1, <2>4, <3>2
      <4>2. d \in Nat /\ d <= delivered - waiting
        BY <1>0, <4>1
      <4> QED BY <1>0, <2>3, <4>2
    <3> QED BY <3>1, <3>2
  <2> QED BY <1>0, <2>1, <2>2, <2>4
<1>4. CASE L!Keep \/ L!Reset \/ L!Restore
  <2>1. /\ delivered' = delivered /\ q' = q
        /\ In' \in {In, {}} \cup KeptItems /\ Cn' \in {Cn, {}} \cup KeptCurrencies
        /\ KeptItems' \subseteq KeptItems \cup {In, {}}
        /\ KeptCurrencies' \subseteq KeptCurrencies \cup {Cn, {}}
    BY <1>4 DEF L!Keep, L!Reset, L!Restore, L!columns, L!kept
  <2> HIDE DEF q, In, Cn
  <2> QED BY <1>0, <2>1
<1>5. CASE L!EndOfProcess
  <2>1. /\ delivered' = delivered /\ q' = <<>> /\ In' = {} /\ Cn' = {}
        /\ KeptItems' \subseteq KeptItems \cup {{}}
        /\ KeptCurrencies' \subseteq KeptCurrencies \cup {{}}
    BY <1>5 DEF L!EndOfProcess
  <2>2. Lined(<<>>, delivered) /\ Len(<<>>) = 0
    BY <1>0 DEF Lined
  <2> HIDE DEF q, In, Cn
  <2>3. delivered - waiting <= delivered /\ delivered - 0 = delivered
    BY <1>0
  <2> QED BY <1>0, <2>1, <2>2, <2>3
<1>6. CASE UNCHANGED L!vars
  <2>1. /\ delivered' = delivered /\ q' = q /\ In' = In /\ Cn' = Cn
        /\ KeptItems' = KeptItems /\ KeptCurrencies' = KeptCurrencies
    BY <1>6 DEF L!vars, L!columns, L!kept
  <2> HIDE DEF q, In, Cn
  <2> QED BY <1>0, <2>1
<1> QED BY <1>2, <1>3, <1>4, <1>5, <1>6 DEF L!Next

\* First come, first counted: what frames hold and what is queued is the latest
\* drops in the order they arrived, and whatever counts, is being saved or is on
\* disk came before them, so that no restored session can be ahead of the queue
\* (OnMessageImpl, DrainDrops, ApplyDrop, LoadPersisted).
THEOREM CountedInOrder == Spec => []L!InOrder
<1>1. L!Init => OrderInv
  <2> SUFFICES ASSUME L!Init PROVE OrderInv
    OBVIOUS
  <2>1. /\ delivered = 0 /\ drained \o pending = <<>> /\ Counted(items) = {}
        /\ Counted(currencies) = {} /\ KeptItems = {{}} /\ KeptCurrencies = {{}}
    BY DEF L!Init
  <2> QED BY <2>1 DEF OrderInv, Lined
<1>2. ASSUME OrderInv PROVE L!InOrder
  <2> DEFINE q == drained \o pending
             K == {Counted(items), Counted(currencies)} \cup KeptItems \cup KeptCurrencies
  <2>1. /\ Len(q) <= delivered
        /\ \A n \in DOMAIN q : q[n] = delivered - Len(q) + n
    <3>1. Lined(q, delivered) /\ delivered \in Nat
      BY <1>2 DEF OrderInv
    <3> HIDE DEF q
    <3> QED BY <3>1 DEF Lined
  <2>2. \A S \in K : \A d \in S : d <= delivered - Len(q)
    BY <1>2 DEF OrderInv
  <2>3. ASSUME NEW d \in Counted(items) \cup Counted(currencies)
                            \cup UNION (KeptItems \cup KeptCurrencies)
        PROVE  \E S \in K : d \in S
    BY <2>3
  <2> QED BY <2>1, <2>2, <2>3 DEF L!InOrder
<1> QED BY <1>1, <1>2, OrderStep, ImplementsLedger, PTL DEF RefinesLedger, L!Spec


-----------------------------------------------------------------------------
(* How an Unload() comes to its end. *)

Unloading == main \in {"unloadJoin", "unloadSave", "unloadStop"}

\* The steps of a SaveSessionState() that are left, from each place in it.
StepsOfSave ==
  [idle |-> 0, half |-> 1, opened |-> 2, ready |-> 3, gotItems |-> 4, start |-> 5]

\* The steps of the autosave thread that are left once the flag is up: the save
\* it may be in, and the look at the flag after it.
AutosaveLeft ==
  (IF autosave \in {"waiting", "saving"} THEN 1 ELSE 0) + StepsOfSave[save["autosave"].pc]

\* The steps that are left of an Unload(): those of the thread it joins, the
\* join, the final save, and the stop of the feed.
UnloadLeft ==
  CASE main = "unloadJoin" -> 7 + AutosaveLeft
    [] main = "unloadSave" -> 1 + StepsOfSave[save["main"].pc]
    [] main = "unloadStop" -> 1
    [] ~Unloading          -> 0

\* The flag is up for as long as the autosave thread is waited for.
FlagIsUp == main = "unloadJoin" => stop

\* The one thread an Unload() waits for has gone, has only to see the flag, or
\* is in a save, which waits for nobody.
WaitsForSomebody ==
  main = "unloadJoin" =>
    \/ Joined
    \/ autosave = "waiting" /\ stop
    \/ save["autosave"].pc # "idle"

\* Every place in a save has a number of steps left, and each step has fewer.
LEMMA StepsOfSaveFacts ==
  /\ \A at \in SavePC : StepsOfSave[at] \in 0 .. 5
  /\ StepsOfSave["idle"] = 0 /\ StepsOfSave["half"] = 1 /\ StepsOfSave["opened"] = 2
  /\ StepsOfSave["ready"] = 3 /\ StepsOfSave["gotItems"] = 4 /\ StepsOfSave["start"] = 5
  BY DEF SavePC, StepsOfSave

\* A step of a save leaves fewer of them, and only the last returns from it.
LEMMA SaveStepsOn ==
  ASSUME TypeInv, NEW s \in Saver, SaveStep(s) \/ SaveFails(s)
  PROVE  /\ StepsOfSave[save[s].pc] \in 1 .. 5
         /\ StepsOfSave[save'[s].pc] \in 0 .. 4
         /\ StepsOfSave[save'[s].pc] < StepsOfSave[save[s].pc]
         /\ \A r \in Saver : r # s => save'[r] = save[r]
         /\ \/ UNCHANGED <<main, autosave>>
            \/ s = "main" /\ main' = AfterSave[main] /\ UNCHANGED autosave /\ save'[s].pc = "idle"
            \/ s = "autosave" /\ autosave' = "waiting" /\ UNCHANGED main /\ save'[s].pc = "idle"
<1> USE IdleFacts, StepsOfSaveFacts DEF TypeInv, TypeOK, Saver
<1>1. CASE SaveReadItems(s)
  BY <1>1 DEF SaveReadItems
<1>2. CASE SaveReadCurrencies(s)
  BY <1>2 DEF SaveReadCurrencies
<1>3. CASE SaveOpen(s)
  BY <1>3 DEF SaveOpen
<1>4. CASE SaveWriteCurrencies(s)
  BY <1>4 DEF SaveWriteCurrencies
<1>5. CASE SaveWriteItems(s)
  BY <1>5 DEF SaveWriteItems, Finish
<1>6. CASE SaveFails(s)
  BY <1>6 DEF SaveFails, Finish
<1> QED BY <1>1, <1>2, <1>3, <1>4, <1>5, <1>6 DEF SaveStep

\* The flag stays up: only StartAutosaveThread() and a new process lower it.
LEMMA FlagStep == TypeInv /\ FlagIsUp /\ [Next]_vars => FlagIsUp'
<1> SUFFICES ASSUME TypeInv, FlagIsUp, [Next]_vars PROVE FlagIsUp'
  OBVIOUS
<1> USE AfterSaveFacts DEF FlagIsUp, TypeInv, Agree
<1>1. CASE ReceiveDrop \/ BeginFrame \/ ApplyDrop \/ EndApply \/ AutosaveTick \/ AutosaveExit
  BY <1>1 DEF ReceiveDrop, BeginFrame, ApplyDrop, EndApply, AutosaveTick, AutosaveExit
<1>2. CASE AutomaticResetCheck \/ ResetButton \/ LoadResetCheck
  BY <1>2 DEF AutomaticResetCheck, ResetButton, LoadResetCheck, ResetAndSave, Skip
<1>3. CASE LoadSession \/ StartThreads \/ JoinAutosave \/ StopFeed
  BY <1>3 DEF LoadSession, StartThreads, JoinAutosave, StopFeed
<1>4. CASE UserStep
  BY <1>4 DEF UserStep, Connect, BeginLoad, BeginUnload
<1>5. ASSUME NEW s \in Saver, SaveStep(s) \/ SaveFails(s) PROVE FlagIsUp'
  <2>1. UNCHANGED stop
    BY <1>5, SaveFrame
  <2>2. main' = main \/ (main \in Saving /\ main' = AfterSave[main])
    <3>1. save[s].pc # "idle"
      BY <1>5 DEF SaveStep, SaveFails, SaveReadItems, SaveReadCurrencies, SaveOpen,
                  SaveWriteCurrencies, SaveWriteItems
    <3> QED BY <1>5, <3>1, SaveStepsOn
  <2> QED BY <2>1, <2>2
<1>6. CASE Crash \/ UNCHANGED vars
  BY <1>6 DEF Crash, vars
<1> QED
  BY <1>1, <1>2, <1>3, <1>4, <1>5, <1>6 DEF Next, MainStep

\* A step of a save brings an Unload() nearer to its end.
LEMMA SaveUnwinds ==
  ASSUME TypeInv, Threads, Unloading, NEW s \in Saver, SaveStep(s) \/ SaveFails(s)
  PROVE  UnloadLeft' < UnloadLeft
<1> DEFINE n == StepsOfSave[save[s].pc]
           m == StepsOfSave[save'[s].pc]
<1>1. /\ n \in 1 .. 5 /\ m \in 0 .. 4 /\ m < n
      /\ \A r \in Saver : r # s => save'[r] = save[r]
      /\ \/ UNCHANGED <<main, autosave>>
         \/ s = "main" /\ main' = AfterSave[main] /\ UNCHANGED autosave /\ save'[s].pc = "idle"
         \/ s = "autosave" /\ autosave' = "waiting" /\ UNCHANGED main /\ save'[s].pc = "idle"
  BY SaveStepsOn
<1>2. save[s].pc # "idle"
  BY <1>1, StepsOfSaveFacts
<1>3. CASE s = "main"
  <2>1. main = "unloadSave" /\ UnloadLeft = 1 + n
    BY <1>2, <1>3, AfterSaveFacts DEF TypeInv, Agree, Unloading, UnloadLeft
  <2>2. CASE main' = main
    BY <1>1, <1>3, <2>1, <2>2 DEF UnloadLeft
  <2>3. CASE main' = "unloadStop"
    BY <1>1, <2>1, <2>3 DEF UnloadLeft
  <2> QED BY <1>1, <1>3, <2>1, <2>2, <2>3, AfterSaveFacts
<1>4. CASE s = "autosave"
  <2>1. main = "unloadJoin" /\ autosave = "saving"
    BY <1>2, <1>4 DEF TypeInv, Agree, Unloading, Threads
  <2>2. UnloadLeft = 7 + (1 + n)
    BY <1>4, <2>1 DEF UnloadLeft, AutosaveLeft
  <2>3. main' = "unloadJoin" /\ autosave' \in {"saving", "waiting"}
    BY <1>1, <1>4, <2>1
  <2>4. UnloadLeft' = 7 + (1 + m)
    <3>1. AutosaveLeft' = 1 + m
      BY <1>4, <2>3 DEF AutosaveLeft
    <3> QED BY <1>1, <2>3, <3>1 DEF UnloadLeft, Unloading
  <2> QED BY <1>1, <2>2, <2>4
<1> QED BY <1>3, <1>4 DEF Saver

\* An Unload() that has begun has 13 steps left at most, of its own thread and
\* of the one it joins, and each brings it nearer to its end: until then nothing
\* but the arrival of a drop leaves it where it is, no tick of the autosave
\* among them.
UnloadGoesOn == [][Unloading => UnloadLeft' < UnloadLeft \/ ReceiveDrop]_vars

\* What UnloadEnds needs besides fair scheduling: the join is of a thread that
\* has gone or can go, and every step but the arrival of a drop brings the
\* Unload() nearer to its end (StopAutosaveThread, AddonUnload).
THEOREM UnloadsWindDown == Spec => []WaitsForSomebody /\ UnloadGoesOn
<1> DEFINE Inv  == TypeInv /\ Threads /\ FlagIsUp
           Step == Unloading => UnloadLeft' < UnloadLeft \/ ReceiveDrop
<1>1. Init => FlagIsUp
  BY DEF Init, FlagIsUp
<1>2. TypeInv /\ FlagIsUp => WaitsForSomebody
  BY DEF TypeInv, TypeOK, Agree, FlagIsUp, WaitsForSomebody, Joined
<1>3. ASSUME Inv, Next, Unloading, ~ReceiveDrop PROVE UnloadLeft' < UnloadLeft
  <2> USE <1>3, StepsOfSaveFacts DEF Unloading
  <2>0. AutosaveLeft \in Nat
    BY DEF AutosaveLeft, TypeInv, TypeOK, Saver
  <2>1. CASE JoinAutosave
    <3>1. main = "unloadJoin" /\ main' = "unloadSave" /\ save'["main"].pc = "start"
      BY <2>1, IdleFacts DEF JoinAutosave, TypeInv, TypeOK, Saver
    <3>2. UnloadLeft = 7 + AutosaveLeft
      BY <3>1 DEF UnloadLeft
    <3>3. UnloadLeft' = 6
      BY <3>1 DEF UnloadLeft
    <3> QED BY <2>0, <3>2, <3>3
  <2>2. CASE StopFeed
    BY <2>2 DEF StopFeed, UnloadLeft
  <2>3. CASE AutosaveExit
    <3>1. main = "unloadJoin" /\ main' = main
      BY <2>3 DEF AutosaveExit, Threads
    <3>2. AutosaveLeft = 1 /\ AutosaveLeft' = 0
      BY <2>3 DEF AutosaveExit, AutosaveLeft, TypeInv, Agree
    <3> QED BY <3>1, <3>2 DEF UnloadLeft
  <2>4. CASE Crash
    <3>1. UnloadLeft' = 0
      BY <2>4 DEF Crash, UnloadLeft
    <3>2. UnloadLeft > 0
      BY <2>0 DEF UnloadLeft, TypeInv, TypeOK, Saver
    <3> QED BY <3>1, <3>2
  <2>5. ASSUME NEW s \in Saver, SaveStep(s) \/ SaveFails(s) PROVE UnloadLeft' < UnloadLeft
    BY <2>5, SaveUnwinds
  <2>6. ~AutosaveTick
    BY DEF AutosaveTick, MayTick, FlagIsUp, Threads
  <2>7. ~(BeginFrame \/ ApplyDrop \/ EndApply \/ AutomaticResetCheck \/ ResetButton \/ LoadSession
          \/ LoadResetCheck \/ StartThreads \/ UserStep)
    BY DEF BeginFrame, ApplyDrop, EndApply, AutomaticResetCheck, ResetButton, LoadSession,
           LoadResetCheck, StartThreads, UserStep, Connect, BeginLoad, BeginUnload
  <2> QED BY <2>1, <2>2, <2>3, <2>4, <2>5, <2>6, <2>7 DEF Next, MainStep
<1>4. Inv /\ [Next]_vars => [Step]_vars
  BY <1>3
<1> QED
  BY <1>1, <1>2, <1>4, InitTypeInv, TypeStep, ThreadsStep, InitIInv, FlagStep, PTL
     DEF Spec, UnloadGoesOn, IInv

\* The saves that follow a reset.
ResetSaves == {"checkSave", "uiSave", "loadSave"}

\* The steps that are left of the call main is in: a frame with a save after
\* each of its two resets, a Load() with one, an Unload() with its own.
CallLeft ==
  LET saving == StepsOfSave[save["main"].pc]
  IN  CASE main = "free"                       -> 0
        [] main = "apply"                      -> 13 + Len(drained)
        [] main = "check"                      -> 12
        [] main = "checkSave"                  -> 6 + saving
        [] main = "ui"                         -> 6
        [] main = "uiSave"                     -> saving
        [] main = "load"                       -> 8
        [] main \in {"loadCheck", "unloadJoin"} -> 7
        [] main \in {"loadSave", "unloadSave"}  -> 1 + saving
        [] main \in {"loadStart", "unloadStop"} -> 1

\* A call has steps left until it is over.
LEMMA CallLeftFacts ==
  ASSUME TypeInv, main # "free"
  PROVE  CallLeft \in Nat /\ CallLeft > 0
<1>1. \A at \in SavePC : at # "idle" => StepsOfSave[at] \in 1 .. 5
  BY DEF SavePC, StepsOfSave
<1>2. main \in Saving => StepsOfSave[save["main"].pc] \in 1 .. 5
  BY <1>1 DEF TypeInv, TypeOK, Agree, Saver
<1>3. Len(drained) \in Nat
  BY DEF TypeInv, TypeOK
<1>4. CASE main \in Saving
  <2> DEFINE n == StepsOfSave[save["main"].pc]
  <2>1. CallLeft \in {6 + n, n, 1 + n}
    BY <1>4, AfterSaveFacts DEF CallLeft
  <2> HIDE DEF n
  <2>2. n \in 1 .. 5
    BY <1>2, <1>4 DEF n
  <2> QED BY <2>1, <2>2
<1>5. CASE main = "apply"
  BY <1>3, <1>5 DEF CallLeft
<1>6. CASE main \notin Saving \cup {"apply"}
  <2>1. main \in {"check", "ui", "load", "loadCheck", "loadStart", "unloadJoin", "unloadStop"}
    BY <1>6 DEF TypeInv, TypeOK, MainPC
  <2>2. CallLeft \in {12, 6, 8, 7, 1}
    BY <2>1 DEF CallLeft
  <2> QED BY <2>2
<1> QED BY <1>4, <1>5, <1>6

\* What main is at: its place in the call, in the loop of a frame, in a save.
Place == <<main, drained, save["main"]>>

\* A frame, a Load() or an Unload() that has begun never goes back: whatever is
\* done in it, resets and saves that fail included, brings it nearer to its end,
\* 13 steps away at most besides the drops that it drained.
CallsGoOn == [][main # "free" => CallLeft' < CallLeft \/ UNCHANGED Place]_vars

\* What DropsAreCounted and UnloadEnds need of the calls besides fair scheduling
\* (AddonRenderImpl, AddonLoad, AddonUnload).
THEOREM CallsWindDown == Spec => CallsGoOn
<1> DEFINE Step == main # "free" => CallLeft' < CallLeft \/ UNCHANGED Place
<1>1. ASSUME TypeInv, TypeInv', Next, main # "free" PROVE CallLeft' < CallLeft \/ UNCHANGED Place
  <2> USE <1>1
  <2>1. CASE ReceiveDrop \/ AutosaveTick \/ AutosaveExit
    BY <2>1 DEF ReceiveDrop, AutosaveTick, AutosaveExit, Place, TypeInv, TypeOK, Saver
  <2>2. CASE ApplyDrop
    <3>1. main = "apply" /\ main' = "apply" /\ Len(drained') = Len(drained) - 1 /\ Len(drained) \in Nat
      BY <2>2 DEF ApplyDrop, TypeInv, TypeOK
    <3>2. CallLeft = 13 + Len(drained) /\ CallLeft' = 13 + Len(drained')
      BY <3>1 DEF CallLeft
    <3> QED BY <3>1, <3>2
  <2>3. CASE EndApply
    <3>1. Len(drained) \in Nat
      BY DEF TypeInv, TypeOK
    <3> QED BY <2>3, <3>1 DEF EndApply, CallLeft
  <2>4. ASSUME NEW pc \in ResetSaves, ResetAndSave(pc)
        PROVE  CallLeft' = CASE pc = "checkSave" -> 11 [] pc = "uiSave" -> 5 [] pc = "loadSave" -> 6
    <3>1. main' = pc /\ save'["main"].pc = "start"
      BY <2>4, IdleFacts DEF ResetAndSave, TypeInv, TypeOK, Saver
    <3> QED BY <3>1, StepsOfSaveFacts DEF CallLeft, ResetSaves
  <2>5. CASE AutomaticResetCheck
    <3>1. main = "check" /\ CallLeft = 12
      BY <2>5 DEF AutomaticResetCheck, CallLeft
    <3>2. CallLeft' = 11 \/ main' = "ui"
      BY <2>4, <2>5 DEF AutomaticResetCheck, ResetSaves, Skip
    <3>3. main' = "ui" => CallLeft' = 6
      BY DEF CallLeft
    <3> QED BY <3>1, <3>2, <3>3
  <2>6. CASE ResetButton
    <3>1. main = "ui" /\ CallLeft = 6
      BY <2>6 DEF ResetButton, CallLeft
    <3>2. CallLeft' = 5 \/ main' = "free"
      BY <2>4, <2>6 DEF ResetButton, ResetSaves, Skip
    <3>3. main' = "free" => CallLeft' = 0
      BY DEF CallLeft
    <3> QED BY <3>1, <3>2, <3>3
  <2>7. CASE LoadResetCheck
    <3>1. main = "loadCheck" /\ CallLeft = 7
      BY <2>7 DEF LoadResetCheck, CallLeft
    <3>2. CallLeft' = 6 \/ main' = "loadStart"
      BY <2>4, <2>7 DEF LoadResetCheck, ResetSaves, Skip
    <3>3. main' = "loadStart" => CallLeft' = 1
      BY DEF CallLeft
    <3> QED BY <3>1, <3>2, <3>3
  <2>8. CASE LoadSession \/ StartThreads \/ StopFeed
    BY <2>8 DEF LoadSession, StartThreads, StopFeed, CallLeft
  <2>9. CASE JoinAutosave
    <3>1. main = "unloadJoin" /\ main' = "unloadSave" /\ save'["main"].pc = "start"
      BY <2>9, IdleFacts DEF JoinAutosave, TypeInv, TypeOK, Saver
    <3> QED BY <3>1, StepsOfSaveFacts DEF CallLeft
  <2>10. ASSUME NEW s \in Saver, SaveStep(s) \/ SaveFails(s)
         PROVE  CallLeft' < CallLeft \/ UNCHANGED Place
    <3>1. UNCHANGED drained
      BY <2>10, SaveFrame
    <3>2. CASE s = "autosave"
      BY <2>10, <3>1, <3>2, SaveStepsOn DEF Place, Saver
    <3>3. CASE s = "main"
      <4> DEFINE n == StepsOfSave[save["main"].pc]
                 m == StepsOfSave[save'["main"].pc]
      <4>1. /\ n \in 1 .. 5 /\ m \in 0 .. 4 /\ m < n
            /\ main' = main \/ main' = AfterSave[main]
        BY <2>10, <3>3, SaveStepsOn
      <4>2. main \in Saving
        BY <4>1, StepsOfSaveFacts DEF TypeInv, Agree
      <4>3. CallLeft = CASE main = "checkSave" -> 6 + n [] main = "uiSave" -> n
                         [] main \in {"loadSave", "unloadSave"} -> 1 + n
        BY <4>1, <4>2, AfterSaveFacts DEF CallLeft
      <4>4. CASE main' = main
        <5>1. CallLeft' = CASE main = "checkSave" -> 6 + m [] main = "uiSave" -> m
                            [] main \in {"loadSave", "unloadSave"} -> 1 + m
          BY <4>1, <4>2, <4>4, AfterSaveFacts DEF CallLeft
        <5> QED BY <4>1, <4>2, <4>3, <5>1, AfterSaveFacts
      <4>5. CASE main' = AfterSave[main]
        <5>1. CallLeft' = CASE main = "checkSave" -> 6 [] main = "uiSave" -> 0
                            [] main \in {"loadSave", "unloadSave"} -> 1
          BY <4>2, <4>5, AfterSaveFacts DEF CallLeft
        <5> QED BY <4>1, <4>2, <4>3, <5>1, AfterSaveFacts
      <4> QED BY <4>1, <4>4, <4>5
    <3> QED BY <3>2, <3>3 DEF Saver
  <2>11. CASE Crash
    <3>1. CallLeft' = 0
      BY <2>11 DEF Crash, CallLeft
    <3> QED BY <3>1, CallLeftFacts
  <2>12. ~BeginFrame /\ ~UserStep
    BY DEF BeginFrame, UserStep, Connect, BeginLoad, BeginUnload
  <2> QED
    BY <2>1, <2>2, <2>3, <2>5, <2>6, <2>7, <2>8, <2>9, <2>10, <2>11, <2>12 DEF Next, MainStep
<1>2. TypeInv /\ TypeInv' /\ [Next]_vars => [Step]_vars
  BY <1>1
<1> QED BY <1>2, InitTypeInv, TypeStep, PTL DEF Spec, CallsGoOn

-----------------------------------------------------------------------------
(* What the file is for. *)

HasItems(s)      == save[s].pc \in {"gotItems", "ready", "opened", "half"}
HasCurrencies(s) == save[s].pc \in {"ready", "opened", "half"}

\* A drop whose items count and whose currencies do not comes from a torn file,
\* and neither that file nor a save since has its currencies.
Paired ==
  \A d \in Drop : items[d] > 0 /\ currencies[d] = 0 =>
    /\ file.currencies.map[d] = 0
    /\ \A s \in Saver : HasCurrencies(s) => save[s].currencies[d] = 0

\* A saver in the write has yet to write its items.
ItemsLast == \A s \in Saver : InWrite(s) => file.items.by # s

\* The save after a reset is of a session without drops.
Cleared == main \in ResetSaves => items = Zero

\* These three hold whatever was persisted.
Sidelines == Paired /\ ItemsLast /\ Cleared

\* The drop that is applied is counted once more, in both columns, and no other.
LEMMA ApplyAdds ==
  ASSUME TypeInv, ApplyDrop, NEW d \in Drop
  PROVE  /\ items[d] \in Nat /\ currencies[d] \in Nat
         /\ \/ items'[d] = items[d] /\ currencies'[d] = currencies[d]
            \/ items'[d] = items[d] + 1 /\ currencies'[d] = currencies[d] + 1
<1>1. PICK h \in Drop : items' = Plus(items, h) /\ currencies' = Plus(currencies, h)
  BY DEF ApplyDrop, TypeInv, TypeOK
<1>2. items \in Totals /\ currencies \in Totals
  BY DEF TypeInv, TypeOK
<1>3. items[d] \in Nat /\ currencies[d] \in Nat
  BY <1>2 DEF Totals
<1> QED BY <1>1, <1>2, <1>3, PlusFacts

\* Every step keeps them.
LEMMA SidelinesStep == IInv /\ Sidelines /\ [Next]_vars => Sidelines'
<1> SUFFICES ASSUME IInv, Sidelines, [Next]_vars PROVE Sidelines'
  OBVIOUS
<1>0. TypeInv /\ Threads
  BY DEF IInv
<1> USE <1>0, AfterSaveFacts, ZeroFacts, IdleFacts
    DEF Sidelines, Paired, ItemsLast, Cleared, ResetSaves, InWrite, HasCurrencies,
        TypeInv, TypeOK, Agree, Threads, tracker, feed, Saver
<1>1. CASE ReceiveDrop \/ BeginFrame \/ EndApply \/ StartThreads \/ StopFeed \/ UserStep
  BY <1>1 DEF ReceiveDrop, BeginFrame, EndApply, StartThreads, StopFeed, UserStep, Connect,
              BeginLoad, BeginUnload
<1>2. CASE ApplyDrop
  BY <1>2, ApplyAdds DEF ApplyDrop
<1>3. ASSUME NEW pc \in ResetSaves, ResetAndSave(pc) PROVE Sidelines'
  BY <1>3 DEF ResetAndSave
<1>4. ASSUME NEW pc, pc \notin ResetSaves, Skip(pc) PROVE Sidelines'
  BY <1>4 DEF Skip
<1>5. CASE AutomaticResetCheck \/ ResetButton \/ LoadResetCheck
  BY <1>3, <1>4, <1>5 DEF AutomaticResetCheck, ResetButton, LoadResetCheck
<1>6. CASE LoadSession
  BY <1>6 DEF LoadSession, LoadPersisted
<1>7. CASE JoinAutosave \/ AutosaveTick \/ AutosaveExit
  BY <1>7 DEF JoinAutosave, AutosaveTick, MayTick, AutosaveExit
<1>8. ASSUME NEW s \in Saver, SaveStep(s) \/ SaveFails(s) PROVE Sidelines'
  <2>1. CASE SaveReadItems(s)
    BY <2>1 DEF SaveReadItems
  <2>2. CASE SaveReadCurrencies(s)
    BY <2>2 DEF SaveReadCurrencies
  <2>3. CASE SaveOpen(s)
    BY <2>3 DEF SaveOpen, Absent
  <2>4. CASE SaveWriteCurrencies(s)
    BY <2>4 DEF SaveWriteCurrencies
  <2>5. CASE SaveWriteItems(s)
    BY <2>5 DEF SaveWriteItems, Finish
  <2>6. CASE SaveFails(s)
    BY <2>6 DEF SaveFails, Finish
  <2> QED BY <1>8, <2>1, <2>2, <2>3, <2>4, <2>5, <2>6 DEF SaveStep
<1>9. CASE Crash
  BY <1>9 DEF Crash
<1>10. CASE UNCHANGED vars
  BY <1>10 DEF vars
<1> QED BY <1>1, <1>2, <1>5, <1>6, <1>7, <1>8, <1>9, <1>10 DEF Next, MainStep

\* Memory holds the session: not so from the start of a process, or a failed
\* save, to the read of the file.
InMemory == main # "load" /\ ~(main = "free" /\ ~loaded)

\* Wherever a persisted drop may be asked for, it is.
Safe(d) ==
  /\ InMemory => items[d] > 0 /\ currencies[d] > 0
  /\ \A s \in Saver :
       /\ HasItems(s) => save[s].items[d] > 0
       /\ HasCurrencies(s) => save[s].currencies[d] > 0
  /\ OnDisk(d) \/ \E s \in Saver : InWrite(s)

\* A saver half through the file is the one that wrote its first half.
OwnHalf ==
  \A s \in Saver : save[s].pc = "half" =>
    file.currencies = [by |-> s, map |-> save[s].currencies]

Persistence ==
  /\ persisted \subseteq Drop
  /\ \A d \in Drop : items[d] > 0 /\ OnDisk(d) => d \in persisted
  /\ ~cutShort =>
       /\ main \in ResetSaves => persisted = {}
       /\ persisted # {} => OwnHalf
       /\ \A d \in persisted : Safe(d)

DInv == IInv /\ Sidelines /\ Persistence

\* Outside the save after a reset one saver is at work at most.
LEMMA OneSaver ==
  ASSUME IInv, main \notin ResetSaves, NEW s \in Saver, NEW t \in Saver, s # t
  PROVE  save[s].pc = "idle" \/ save[t].pc = "idle"
  BY AfterSaveFacts DEF IInv, TypeInv, Agree, Threads, ResetSaves, Saver

\* At the read of the file none is.
LEMMA NoSaver ==
  ASSUME IInv, main = "load", NEW s \in Saver
  PROVE  save[s].pc = "idle"
  BY AfterSaveFacts DEF IInv, TypeInv, Agree, Threads, Saver

\* A saver at work finds the session in memory.
LEMMA SaverInMemory ==
  ASSUME IInv, NEW s \in Saver, save[s].pc # "idle"
  PROVE  InMemory
  BY AfterSaveFacts DEF IInv, TypeInv, Agree, Threads, Saver, InMemory

\* A drop is newly persisted by a save that ends, or found at the read of the
\* file.  No saver is at work afterwards.
LEMMA NewlyPersisted ==
  ASSUME DInv, Next, ~ResetStep, main \notin ResetSaves,
         NEW d \in Drop, d \notin persisted, items'[d] > 0, OnDisk(d)'
  PROVE  \A s \in Saver : save'[s].pc = "idle"
<1>0. /\ IInv /\ TypeInv /\ ItemsLast
      /\ ~(items[d] > 0 /\ OnDisk(d))
  BY DEF DInv, Sidelines, Persistence, IInv
<1>1. ~(items' = items /\ file' = file)
  BY <1>0 DEF OnDisk, Complete, Mixed
<1>2. CASE ApplyDrop
  <2>1. Head(drained) \in Drop /\ items \in Totals /\ items' = Plus(items, Head(drained))
        /\ file' = file
    BY <1>0, <1>2 DEF ApplyDrop, TypeInv, TypeOK
  <2>2. d = Head(drained)
    BY <1>0, <2>1, PlusFacts DEF OnDisk, Complete, Mixed
  <2>3. InSeq(d, drained)
    BY <1>0, <1>2, <2>2 DEF InSeq, ApplyDrop, TypeInv, TypeOK
  <2>4. ~(file.items.map[d] > 0)
    BY <1>0, <2>3 DEF IInv, NoDoubleCount, CountsOnce, Settled, Waiting
  <2> QED BY <2>1, <2>4 DEF OnDisk
<1>3. CASE LoadSession
  BY <1>0, <1>3, NoSaver DEF LoadSession
<1>4. CASE AutomaticResetCheck \/ ResetButton \/ LoadResetCheck
  BY <1>1, <1>4
     DEF AutomaticResetCheck, ResetButton, LoadResetCheck, ResetAndSave, Skip, ResetStep, tracker
<1>5. ASSUME NEW s \in Saver, SaveStep(s) \/ SaveFails(s)
      PROVE  \A t \in Saver : save'[t].pc = "idle"
  <2>1. CASE SaveReadItems(s) \/ SaveReadCurrencies(s) \/ SaveFails(s)
    BY <1>1, <2>1 DEF SaveReadItems, SaveReadCurrencies, SaveFails, tracker
  <2>2. CASE SaveOpen(s)
    BY <2>2 DEF SaveOpen, OnDisk, Complete
  <2>3. CASE SaveWriteCurrencies(s)
    <3>1. file'.currencies.by = s /\ file'.items = file.items
      BY <1>0, <2>3 DEF SaveWriteCurrencies, TypeInv, TypeOK
    <3>2. file.items.by # s
      BY <1>0, <2>3 DEF SaveWriteCurrencies, ItemsLast, InWrite
    <3> QED BY <3>1, <3>2 DEF OnDisk, Mixed
  <2>4. CASE SaveWriteItems(s)
    <3>1. save' = [save EXCEPT ![s] = Idle] /\ save[s].pc # "idle"
      BY <2>4 DEF SaveWriteItems, Finish
    <3>2. \A t \in Saver : t # s => save[t].pc = "idle"
      BY <1>0, <3>1, OneSaver
    <3> QED BY <1>0, <3>1, <3>2, IdleFacts DEF TypeInv, TypeOK
  <2> QED BY <1>5, <2>1, <2>2, <2>3, <2>4 DEF SaveStep
<1>6. CASE Crash
  BY <1>6, ZeroFacts DEF Crash
<1>7. CASE \/ ReceiveDrop \/ BeginFrame \/ EndApply \/ StartThreads \/ JoinAutosave
           \/ StopFeed \/ UserStep \/ AutosaveTick \/ AutosaveExit
  BY <1>1, <1>7 DEF ReceiveDrop, BeginFrame, EndApply, StartThreads, JoinAutosave, StopFeed,
     UserStep, Connect, BeginLoad, BeginUnload, AutosaveTick, AutosaveExit, tracker
<1> QED BY <1>2, <1>3, <1>4, <1>5, <1>6, <1>7 DEF Next, MainStep

\* Nothing takes a persisted drop away but a reset or a write cut short.
LEMMA StaysPersisted ==
  ASSUME DInv, Next, ~ResetStep, main \notin ResetSaves, OwnHalf,
         NEW d \in Drop, Safe(d),
         \A s \in Saver : InWrite(s) => ~SaveFails(s) /\ ~Crash
  PROVE  Safe(d)' /\ OwnHalf'
<1>0. IInv /\ TypeInv /\ Threads
  BY DEF DInv, IInv
<1> USE <1>0, AfterSaveFacts, IdleFacts
    DEF TypeInv, TypeOK, Agree, Threads, Safe, OwnHalf, InMemory, HasItems, HasCurrencies,
        InWrite, OnDisk, Complete, Mixed, tracker, feed, Saver
<1>1. CASE ReceiveDrop \/ BeginFrame \/ EndApply \/ StartThreads \/ StopFeed \/ UserStep
  BY <1>1 DEF ReceiveDrop, BeginFrame, EndApply, StartThreads, StopFeed, UserStep, Connect,
              BeginLoad, BeginUnload
<1>2. CASE JoinAutosave \/ AutosaveTick \/ AutosaveExit
  BY <1>2 DEF JoinAutosave, AutosaveTick, MayTick, AutosaveExit
<1>3. CASE ApplyDrop
  BY <1>3, ApplyAdds DEF ApplyDrop
<1>4. CASE AutomaticResetCheck \/ ResetButton \/ LoadResetCheck
  BY <1>4 DEF AutomaticResetCheck, ResetButton, LoadResetCheck, ResetAndSave, Skip, ResetStep
<1>5. CASE LoadSession
  <2>1. \A s \in Saver : save[s].pc = "idle"
    BY <1>5, NoSaver DEF LoadSession
  <2>2. OnDisk(d)
    BY <2>1
  <2> QED BY <1>5, <2>1, <2>2 DEF LoadSession, LoadPersisted
<1>6. ASSUME NEW s \in Saver, SaveStep(s) \/ SaveFails(s) PROVE Safe(d)' /\ OwnHalf'
  <2>0. /\ save[s].pc # "idle" /\ \A t \in Saver : t # s => save[t].pc = "idle"
        /\ InMemory
    <3>1. save[s].pc # "idle"
      BY <1>6 DEF SaveStep, SaveReadItems, SaveReadCurrencies, SaveOpen, SaveWriteCurrencies,
                  SaveWriteItems, SaveFails
    <3> QED BY <3>1, OneSaver, SaverInMemory
  <2>1. CASE SaveReadItems(s)
    BY <2>0, <2>1 DEF SaveReadItems
  <2>2. CASE SaveReadCurrencies(s)
    BY <2>0, <2>2 DEF SaveReadCurrencies
  <2>3. CASE SaveOpen(s)
    BY <2>0, <2>3 DEF SaveOpen
  <2>4. CASE SaveWriteCurrencies(s)
    BY <2>0, <2>4 DEF SaveWriteCurrencies
  <2>5. CASE SaveWriteItems(s)
    BY <2>0, <2>5 DEF SaveWriteItems, Finish, Absent
  <2>6. CASE SaveFails(s)
    BY <2>0, <2>6 DEF SaveFails, Finish
  <2> QED BY <1>6, <2>1, <2>2, <2>3, <2>4, <2>5, <2>6 DEF SaveStep
<1>7. CASE Crash
  BY <1>7 DEF Crash
<1> QED BY <1>1, <1>2, <1>3, <1>4, <1>5, <1>6, <1>7 DEF Next, MainStep

\* A reset leaves nothing counted.
LEMMA ResetStepClears ==
  ASSUME Next, ResetStep, IInv
  PROVE  items' = Zero
<1>1. CASE \E s \in Saver : SaveStep(s) \/ SaveFails(s)
  BY <1>1, AfterSaveFacts
     DEF SaveStep, SaveReadItems, SaveReadCurrencies, SaveOpen, SaveWriteCurrencies,
         SaveWriteItems, SaveFails, Finish, ResetStep, IInv, TypeInv, TypeOK, Agree, Saver
<1>2. CASE ReceiveDrop \/ BeginFrame \/ UserStep \/ AutosaveTick \/ AutosaveExit \/ Crash
  BY <1>2
     DEF ReceiveDrop, BeginFrame, UserStep, Connect, BeginLoad, BeginUnload, AutosaveTick,
         AutosaveExit, Crash, ResetStep
<1>3. CASE MainStep
  BY <1>3
     DEF MainStep, ApplyDrop, EndApply, AutomaticResetCheck, ResetButton, LoadSession,
         LoadResetCheck, StartThreads, JoinAutosave, StopFeed, ResetAndSave, Skip, ResetStep
<1> QED BY <1>1, <1>2, <1>3 DEF Next

\* While the save after a reset runs, nothing is counted.
LEMMA StaysCleared ==
  ASSUME IInv, Sidelines, Next, main \in ResetSaves
  PROVE  items' = Zero
<1>0. items = Zero
  BY DEF Sidelines, Cleared
<1>1. CASE \E s \in Saver : SaveStep(s) \/ SaveFails(s)
  BY <1>0, <1>1, SaveFrame DEF tracker
<1>2. CASE ReceiveDrop \/ BeginFrame \/ UserStep \/ AutosaveTick \/ AutosaveExit \/ Crash
  BY <1>0, <1>2
     DEF ReceiveDrop, BeginFrame, UserStep, Connect, BeginLoad, BeginUnload, AutosaveTick,
         AutosaveExit, Crash, tracker
<1>3. CASE MainStep
  BY <1>3 DEF MainStep, ApplyDrop, EndApply, AutomaticResetCheck, ResetButton, LoadSession,
     LoadResetCheck, StartThreads, JoinAutosave, StopFeed, ResetSaves
<1> QED BY <1>1, <1>2, <1>3 DEF Next

\* Every step keeps the persisted drops safe.
LEMMA PersistenceStep == DInv /\ [HNext]_historyVars => Persistence'
<1> SUFFICES ASSUME DInv, [HNext]_historyVars PROVE Persistence'
  OBVIOUS
<1>0. IInv /\ Sidelines /\ Persistence
  BY DEF DInv
<1>1. CASE UNCHANGED historyVars
  BY <1>0, <1>1
     DEF historyVars, vars, Persistence, OwnHalf, Safe, InMemory, HasItems, HasCurrencies,
         OnDisk, Complete, Mixed, InWrite
<1>2. CASE HNext
  <2> DEFINE found == {d \in Drop : items'[d] > 0 /\ OnDisk(d)'}
  <2>0. TypeInv' /\ Paired'
    BY <1>0, <1>2, StepIInv, SidelinesStep DEF HNext, IInv, Sidelines
  <2>1. Next /\ persisted' = IF ResetStep THEN {} ELSE persisted \cup found
    BY <1>2 DEF HNext
  <2>2. CASE ResetStep
    <3>1. items' = Zero
      BY <2>2, <1>0, <2>1, ResetStepClears
    <3>2. \A d \in Drop : ~(items'[d] > 0)
      BY <3>1, ZeroFacts
    <3> QED BY <2>1, <2>2, <3>2 DEF Persistence
  <2>3. CASE ~ResetStep /\ main \in ResetSaves
    <3>1. items' = Zero /\ persisted' = persisted \cup found
      BY <1>0, <2>1, <2>3, StaysCleared
    <3>2. \A d \in Drop : ~(items'[d] > 0)
      BY <3>1, ZeroFacts
    <3>3. ~cutShort' => ~cutShort
      BY <1>2 DEF HNext
    <3> QED BY <1>0, <2>3, <3>1, <3>2, <3>3 DEF Persistence
  <2>4. CASE ~ResetStep /\ main \notin ResetSaves
    <3>1. persisted' = persisted \cup found /\ persisted \subseteq Drop
      BY <1>0, <2>1, <2>4 DEF Persistence
    <3>2. ASSUME ~cutShort' 
          PROVE  (persisted' # {} => OwnHalf') /\ \A d \in persisted' : Safe(d)'
      <4>0. ~cutShort /\ \A s \in Saver : InWrite(s) => ~SaveFails(s) /\ ~Crash
        BY <1>2, <3>2 DEF HNext, EndOfProcess
      <4>1. ASSUME NEW d \in persisted PROVE OwnHalf' /\ Safe(d)'
        <5>1. d \in Drop /\ OwnHalf /\ Safe(d)
          BY <1>0, <3>1, <4>0, <4>1 DEF Persistence
        <5> QED BY <2>1, <2>4, <4>0, <5>1, StaysPersisted
      <4>2. ASSUME NEW d \in found \ persisted PROVE OwnHalf' /\ Safe(d)'
        <5>1. \A s \in Saver : save'[s].pc = "idle"
          BY <2>1, <2>4, <4>2, NewlyPersisted
        <5>2. items'[d] > 0 /\ OnDisk(d)' /\ file'.currencies.map[d] > 0
          BY <4>2 DEF OnDisk
        <5>3. currencies'[d] \in Nat
          BY <2>0, <4>2 DEF TypeInv, TypeOK, Totals
        <5>4. currencies'[d] > 0
          BY <2>0, <4>2, <5>2, <5>3 DEF Paired
        <5> QED BY <5>1, <5>2, <5>4 DEF OwnHalf, Safe, HasItems, HasCurrencies
      <4> QED BY <3>1, <4>1, <4>2
    <3>3. main' \notin ResetSaves
      BY <2>4 DEF ResetStep, ResetSaves
    <3>4. \A d \in Drop : items'[d] > 0 /\ OnDisk(d)' => d \in persisted'
      BY <3>1
    <3> QED BY <3>1, <3>2, <3>3, <3>4 DEF Persistence
  <2> QED BY <2>2, <2>3, <2>4
<1> QED BY <1>1, <1>2

\* The inductive invariant, to begin with and throughout.
LEMMA DurabilityInvariance == HSpec => []DInv
<1>1. HInit => DInv
  <2> SUFFICES ASSUME HInit PROVE DInv
    OBVIOUS
  <2>1. IInv
    BY InitIInv DEF HInit
  <2>2. Sidelines
    BY ZeroFacts, IdleFacts
       DEF HInit, Init, Sidelines, Paired, ItemsLast, Cleared, ResetSaves, InWrite, Saver
  <2>3. Persistence
    BY ZeroFacts DEF HInit, Init, Persistence, ResetSaves
  <2> QED BY <2>1, <2>2, <2>3 DEF DInv
<1>2. DInv /\ [HNext]_historyVars => DInv'
  <2> SUFFICES ASSUME DInv, [HNext]_historyVars PROVE DInv'
    OBVIOUS
  <2>1. [Next]_vars
    BY DEF HNext, historyVars
  <2> QED BY <2>1, StepIInv, SidelinesStep, PersistenceStep DEF DInv
<1> QED BY <1>1, <1>2, PTL DEF HSpec

\* What has been on disk comes back with the next Load(), however the two savers
\* raced and the process ended, unless a write was cut short: the truncating
\* open of SaveSessionState() is the one way to lose progress.
THEOREM OnlyTheWriteLoses == HSpec => []LostOnlyInTheWrite
<1>1. DInv => LostOnlyInTheWrite
  BY DEF DInv, Persistence, Safe, InMemory, LostOnlyInTheWrite, Restored
<1> QED BY <1>1, DurabilityInvariance, PTL
=============================================================================
