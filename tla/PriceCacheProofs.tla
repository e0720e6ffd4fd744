-------------------------- MODULE PriceCacheProofs --------------------------
(***************************************************************************)
(* What the cache of the items never loses, for every set of items and     *)
(* threads, every batch limit and every number of failures.                *)
(***************************************************************************)
EXTENDS PriceCache, FiniteSetTheorems, TLAPS

-----------------------------------------------------------------------------
(* Types. *)

LEMMA CountingFailures ==
  ASSUME failures \in 0..Trouble
  PROVE  Failed \in 0..Trouble /\ 0 \in 0..Trouble
BY TroubleAssumption DEF Failed

LEMMA NoFailures == 0 \in 0..Trouble
BY TroubleAssumption

LEMMA FirstWorkerIsTyped ==
  ASSUME NEW threads, FirstWorker(threads)
  PROVE  threads \in [Thread -> Requesting \cup {"off", "currencies", "idle"}]
BY DEF FirstWorker

LEMMA UnknownIsFacts == Unknown \in Facts /\ AllUnknown \in [Item -> Facts]
BY DEF Unknown, AllUnknown, Facts

\* Setting one of the two facts leaves the other alone.
LEMMA NamedSet ==
  ASSUME NEW f \in Facts
  PROVE  /\ [f EXCEPT !.named = TRUE] \in Facts
         /\ [f EXCEPT !.named = TRUE].named = TRUE
         /\ [f EXCEPT !.named = TRUE].priced = f.priced
BY DEF Facts

LEMMA PricedSet ==
  ASSUME NEW f \in Facts, NEW i, NEW priced
  PROVE  /\ [f EXCEPT !.priced = i \in priced] \in Facts
         /\ [f EXCEPT !.priced = i \in priced].priced = (i \in priced)
         /\ [f EXCEPT !.priced = i \in priced].named = f.named
<1>1. (i \in priced) \in BOOLEAN
  OBVIOUS
<1>2. ASSUME NEW b \in BOOLEAN
      PROVE  /\ [f EXCEPT !.priced = b] \in Facts
             /\ [f EXCEPT !.priced = b].priced = b
             /\ [f EXCEPT !.priced = b].named = f.named
  BY DEF Facts
<1>. QED  BY <1>1, <1>2

LEMMA SavingIsTyped ==
  ASSUME TypeOK, BeginSave
  PROVE  file' \in [Item -> Facts] /\ snapshot' \in [Item -> Facts] \cup {Nothing}
<1>1. [i \in Item |-> IF Saveable(i) THEN cache[i] ELSE Unknown] \in [Item -> Facts]
  BY UnknownIsFacts DEF TypeOK
<1>. QED  BY <1>1, UnknownIsFacts DEF BeginSave, TypeOK, disk

LEMMA TypeOKStep == TypeOK /\ [Next]_vars => TypeOK'
<1> SUFFICES ASSUME TypeOK, [Next]_vars PROVE TypeOK'
  OBVIOUS
<1> USE UnknownIsFacts
<1>1. ASSUME NEW ids \in SUBSET Item, Frame(ids) PROVE TypeOK'
  BY <1>1 DEF Frame, TypeOK, work, past, disk
<1>2. ASSUME NEW i \in Item, GrowOld(i) PROVE TypeOK'
  BY <1>2 DEF GrowOld, TypeOK, work, past, disk, Age
<1>3. CASE StayUp
  BY <1>3 DEF StayUp, TypeOK, work, past, disk
<1>4. CASE Load
  <2>1. Restored \in [Item -> Facts]
    BY DEF Restored, TypeOK
  <2>2. pc' \in [Thread -> Requesting \cup {"off", "currencies", "idle"}]
    BY <1>4 DEF Load, TypeOK
  <2>. QED  BY <1>4, <2>1, <2>2 DEF Load, TypeOK, disk, Age
<1>5. CASE Autosave
  BY <1>5, SavingIsTyped DEF Autosave, TypeOK, work, past
<1>6. CASE EndSave
  BY <1>6 DEF EndSave, TypeOK, work, past
<1>7. CASE SaveFails
  BY <1>7 DEF SaveFails, TypeOK, work, past
<1>8. CASE Unload
  BY <1>8, SavingIsTyped DEF Unload, TypeOK, work, past
<1>9. CASE Stop
  BY <1>9 DEF Stop, TypeOK, work, past, disk
<1>10. CASE Crash
  <2>1. pc' \in [Thread -> Requesting \cup {"off", "currencies", "idle"}]
    BY <1>10, FirstWorkerIsTyped DEF Crash
  <2>. QED  BY <1>10, <2>1, NoFailures DEF Crash, TypeOK, Age
<1>11. ASSUME NEW t \in Thread, FetchCurrencies(t) PROVE TypeOK'
  BY <1>11, CountingFailures DEF FetchCurrencies, Goto, TypeOK, past, disk
<1>12. ASSUME NEW t \in Thread, Exit(t) PROVE TypeOK'
  BY <1>12 DEF Exit, Goto, TypeOK, past, disk
<1>13. ASSUME NEW t \in Thread, Take(t) PROVE TypeOK'
  BY <1>13 DEF Take, Goto, TypeOK, past, disk, Requesting
<1>14. ASSUME NEW t \in Thread, Copy(t) PROVE TypeOK'
  BY <1>14 DEF Copy, Copied, Goto, TypeOK, past, disk, Requesting
<1>15. ASSUME NEW t \in Thread, ItemsAnswer(t) PROVE TypeOK'
  <2>1. copy' \in [Thread -> [Item -> Facts]]
    <3>1. CASE UNCHANGED copy
      BY <3>1 DEF TypeOK
    <3>2. ASSUME NEW known \in SUBSET batch[t],
                 copy' = [copy EXCEPT ![t] =
                   [i \in Item |-> IF i \in known THEN [@[i] EXCEPT !.named = TRUE] ELSE @[i]]]
          PROVE  copy' \in [Thread -> [Item -> Facts]]
      <4>1. \A i \in Item : copy[t][i] \in Facts /\ [copy[t][i] EXCEPT !.named = TRUE] \in Facts
        BY NamedSet DEF TypeOK
      <4>. QED  BY <3>2, <4>1 DEF TypeOK
    <3>. QED  BY <1>15, <3>1, <3>2 DEF ItemsAnswer
  <2>. QED  BY <1>15, <2>1, CountingFailures DEF ItemsAnswer, Goto, TypeOK, past, disk, Requesting
<1>16. ASSUME NEW t \in Thread, PricesAnswer(t) PROVE TypeOK'
  <2>1. copy' \in [Thread -> [Item -> Facts]]
    <3>1. CASE UNCHANGED copy
      BY <3>1 DEF TypeOK
    <3>2. ASSUME NEW priced \in SUBSET batch[t],
                 copy' = [copy EXCEPT ![t] =
                   [i \in Item |-> IF i \in batch[t] THEN [@[i] EXCEPT !.priced = i \in priced] ELSE @[i]]]
          PROVE  copy' \in [Thread -> [Item -> Facts]]
      <4>1. \A i \in Item : copy[t][i] \in Facts /\ [copy[t][i] EXCEPT !.priced = i \in priced] \in Facts
        <5>1. \A i \in Item : copy[t][i] \in Facts
          BY DEF TypeOK
        <5>. QED  BY <5>1, PricedSet, Zenon
      <4>. QED  BY <3>2, <4>1 DEF TypeOK
    <3>. QED  BY <1>16, <3>1, <3>2 DEF PricesAnswer
  <2>. QED  BY <1>16, <2>1, CountingFailures DEF PricesAnswer, Goto, TypeOK, past, disk, Requesting
<1>17. ASSUME NEW t \in Thread, Store(t) PROVE TypeOK'
  BY <1>17 DEF Store, Goto, TypeOK, past, disk, Age
<1>18. ASSUME NEW t \in Thread, Abandon(t) PROVE TypeOK'
  BY <1>18 DEF Abandon, Goto, TypeOK, past, disk
<1>19. CASE UNCHANGED vars
  BY <1>19 DEF vars, TypeOK, work, past, disk
<1>. QED
  BY <1>1, <1>2, <1>3, <1>4, <1>5, <1>6, <1>7, <1>8, <1>9, <1>10, <1>11, <1>12, <1>13, <1>14,
     <1>15, <1>16, <1>17, <1>18, <1>19 DEF Next, WorkerStep

\* Every variable keeps its type, for all the items, threads and limits
\* (Gw2Api, and item_cache.json in main.cpp).
THEOREM TypesHold == Spec => []TypeOK
<1>1. Init => TypeOK
  <2>1. Init => pc \in [Thread -> Requesting \cup {"off", "currencies", "idle"}]
    BY FirstWorkerIsTyped DEF Init
  <2>. QED  BY <2>1, UnknownIsFacts, NoFailures DEF Init, TypeOK, Age
<1>. QED  BY <1>1, TypeOKStep, PTL DEF Spec

-----------------------------------------------------------------------------
(* The cache and the file. *)

\* Where a thread's copy is a copy: from Copy() to Store().
Holding == {"items", "prices", "store"}

\* What has overtaken a thread is of its batch, and only a worker in its
\* requests has one.
BatchInv ==
  \A t \in Thread : /\ overtaken[t] \subseteq batch[t]
                    /\ pc[t] \notin Requesting => batch[t] = {}

\* Of what nothing has overtaken, a worker's copy knows all that the cache
\* knows, but for a price an answer has taken away.
CopyInv ==
  \A t \in Thread : pc[t] \in Holding =>
    \A i \in batch[t] \ overtaken[t] :
      /\ cache[i].named => copy[t][i].named
      /\ cache[i].priced => copy[t][i].priced \/ (pc[t] = "store" /\ priceAnswer[t])

\* Of what no such batch has been stored over, the cache knows every name the
\* file has, and every name that is being written to it.
FileInv ==
  /\ phase # "unloaded" => \A i \in Item \ spoiled : file[i].named => cache[i].named
  /\ snapshot # Nothing => /\ phase # "unloaded"
                           /\ \A i \in Item \ spoiled : snapshot[i].named => cache[i].named

Inv == TypeOK /\ BatchInv /\ CopyInv /\ FileInv /\ RefetchedOnce

LEMMA InitInv == Init => Inv
<1> SUFFICES ASSUME Init PROVE Inv
  OBVIOUS
<1>1. TypeOK
  BY UnknownIsFacts, NoFailures, FirstWorkerIsTyped DEF Init, TypeOK, Age
<1>2. PICK t \in Thread : pc = [u \in Thread |-> IF u = t THEN "currencies" ELSE "off"]
  BY DEF Init, FirstWorker
<1>3. BatchInv /\ RefetchedOnce
  BY DEF Init, BatchInv, RefetchedOnce
<1>4. CopyInv
  BY <1>2 DEF Init, CopyInv, Holding
<1>5. FileInv
  BY DEF Init, FileInv, AllUnknown, Unknown
<1>. QED  BY <1>1, <1>3, <1>4, <1>5 DEF Inv

\* What a worker does to the cache: only a batch that is stored changes it, and
\* it loses nothing but what has overtaken it.
LEMMA CacheKeepsNames ==
  ASSUME Inv, NEW t \in Thread, WorkerStep(t) \/ Abandon(t), NEW i \in Item
  PROVE  /\ cache[i].named /\ ~cache'[i].named => pc[t] = "store" /\ i \in overtaken[t]
         /\ cache[i].priced /\ ~cache'[i].priced =>
              pc[t] = "store" /\ i \in batch[t] /\ (priceAnswer[t] \/ i \in overtaken[t])
<1>1. CASE Store(t)
  <2>1. cache'[i] = IF i \in batch[t] THEN copy[t][i] ELSE cache[i]
    BY <1>1 DEF Store
  <2>2. pc[t] = "store"
    BY <1>1 DEF Store
  <2>. QED  BY <2>1, <2>2 DEF Inv, CopyInv, Holding
<1>2. CASE UNCHANGED cache
  BY <1>2
<1>. QED  BY <1>1, <1>2 DEF WorkerStep, FetchCurrencies, Exit, Take, Copy, ItemsAnswer,
                           PricesAnswer, Abandon

\* A step of t moves no other thread, and touches of another's batch only what
\* it stores itself.
LEMMA OthersStay ==
  ASSUME TypeOK, NEW t \in Thread, WorkerStep(t) \/ Abandon(t)
  PROVE  \A u \in Thread : u # t =>
           /\ pc'[u] = pc[u] /\ batch'[u] = batch[u] /\ copy'[u] = copy[u]
           /\ priceAnswer'[u] = priceAnswer[u]
           /\ Store(t) => overtaken'[u] = overtaken[u] \cup (batch[t] \cap batch[u])
           /\ ~Store(t) => overtaken'[u] = overtaken[u]
<1> USE DEF TypeOK, Goto
<1>1. CASE ~Store(t) /\ (FetchCurrencies(t) \/ Exit(t) \/ Take(t) \/ Abandon(t))
  BY <1>1 DEF FetchCurrencies, Exit, Take, Abandon, past
<1>2. CASE ~Store(t) /\ (Copy(t) \/ ItemsAnswer(t) \/ PricesAnswer(t))
  BY <1>2 DEF Copy, ItemsAnswer, PricesAnswer, past
<1>3. CASE Store(t)
  BY <1>3 DEF Store
<1>. QED  BY <1>1, <1>2, <1>3 DEF WorkerStep

LEMMA BatchInvStep == Inv /\ [Next]_vars => BatchInv'
<1> SUFFICES ASSUME Inv, [Next]_vars PROVE BatchInv'
  OBVIOUS
<1> USE DEF Inv, BatchInv, TypeOK
<1>1. CASE UNCHANGED <<pc, batch, overtaken>>
  BY <1>1
<1>2. CASE Load
  <2>1. UNCHANGED batch /\ \A t \in Thread : pc'[t] \in Requesting <=> pc[t] \in Requesting
    BY <1>2 DEF Load, Alive, Requesting
  <2>. QED  BY <1>2, <2>1 DEF Load
<1>3. CASE Crash
  BY <1>3 DEF Crash
<1>4. ASSUME NEW t \in Thread, WorkerStep(t) \/ Abandon(t) PROVE BatchInv'
  <2>1. \A u \in Thread : u # t => overtaken'[u] \subseteq batch'[u]
                                   /\ (pc'[u] \notin Requesting => batch'[u] = {})
    <3>1. ASSUME NEW u \in Thread, u # t
          PROVE  /\ pc'[u] = pc[u] /\ batch'[u] = batch[u]
                 /\ overtaken'[u] \subseteq overtaken[u] \cup batch[u]
      BY <1>4, <3>1, OthersStay
    <3>. QED  BY <3>1
  <2>2. overtaken'[t] \subseteq batch'[t] /\ (pc'[t] \notin Requesting => batch'[t] = {})
    <3>1. CASE FetchCurrencies(t) \/ Exit(t) \/ Abandon(t) \/ Store(t)
      BY <3>1 DEF FetchCurrencies, Exit, Abandon, Store, Goto, Requesting, past
    <3>2. CASE Take(t) \/ Copy(t) \/ ItemsAnswer(t) \/ PricesAnswer(t)
      BY <3>2 DEF Take, Copy, ItemsAnswer, PricesAnswer, Goto, Requesting, past
    <3>. QED  BY <1>4, <3>1, <3>2 DEF WorkerStep
  <2>. QED  BY <2>1, <2>2
<1>. QED  BY <1>1, <1>2, <1>3, <1>4 DEF Next, Frame, GrowOld, StayUp, Autosave, EndSave, SaveFails,
             Unload, Stop, vars, work, past

LEMMA CopyInvStep == Inv /\ [Next]_vars => CopyInv'
<1> SUFFICES ASSUME Inv, [Next]_vars PROVE CopyInv'
  OBVIOUS
<1> USE DEF Inv
<1>1. CASE UNCHANGED <<work, overtaken, cache>>
  BY <1>1 DEF CopyInv, work
<1>2. CASE Load
  <2>1. /\ UNCHANGED <<batch, copy, priceAnswer>>
        /\ \A t \in Thread : pc'[t] \in Holding => pc'[t] = pc[t]
    BY <1>2 DEF Load, Holding, TypeOK
  <2>2. \A t \in Thread : \A i \in batch[t] \ overtaken'[t] :
          i \notin overtaken[t] /\ cache'[i] = cache[i]
    BY <1>2 DEF Load, Restored, TypeOK
  <2>. QED  BY <2>1, <2>2 DEF CopyInv
<1>3. CASE Crash
  BY <1>3 DEF Crash, FirstWorker, CopyInv, Holding
<1>4. ASSUME NEW t \in Thread, WorkerStep(t) \/ Abandon(t) PROVE CopyInv'
  <2>1. ASSUME NEW u \in Thread, u # t, pc'[u] \in Holding, NEW i \in batch'[u] \ overtaken'[u]
        PROVE  /\ cache'[i].named => copy'[u][i].named
               /\ cache'[i].priced => copy'[u][i].priced \/ (pc'[u] = "store" /\ priceAnswer'[u])
    <3>1. /\ pc'[u] = pc[u] /\ batch'[u] = batch[u] /\ copy'[u] = copy[u]
          /\ priceAnswer'[u] = priceAnswer[u]
          /\ i \notin overtaken[u] /\ (Store(t) => i \notin batch[t])
      BY <1>4, <2>1, OthersStay
    <3>2. cache'[i] = cache[i]
      BY <1>4, <2>1, <3>1 DEF TypeOK, WorkerStep, FetchCurrencies, Exit, Take, Copy, ItemsAnswer,
         PricesAnswer, Store, Abandon
    <3>. QED  BY <2>1, <3>1, <3>2 DEF CopyInv
  <2> SUFFICES ASSUME pc'[t] \in Holding, NEW i \in batch'[t] \ overtaken'[t]
               PROVE  /\ cache'[i].named => copy'[t][i].named
                      /\ cache'[i].priced =>
                           copy'[t][i].priced \/ (pc'[t] = "store" /\ priceAnswer'[t])
    BY <2>1 DEF CopyInv
  <2>4. CASE Copy(t)
    <3>1. i \in batch[t] /\ i \in Item
      BY <2>4 DEF Copy, TypeOK
    <3>2. copy'[t][i] = cache[i]
      BY <2>4, <3>1 DEF Copy, Copied, TypeOK
    <3>. QED  BY <2>4, <3>2 DEF Copy
  <2>5. CASE ItemsAnswer(t)
    <3>1. /\ i \in batch[t] \ overtaken[t] /\ i \in Item /\ UNCHANGED cache /\ pc[t] = "items"
      BY <2>5 DEF ItemsAnswer, TypeOK, past
    <3>2. /\ cache[i].named => copy[t][i].named
          /\ cache[i].priced => copy[t][i].priced
      BY <1>4, <3>1 DEF CopyInv, Holding
    <3>3. copy[t] \in [Item -> Facts] /\ copy \in [Thread -> [Item -> Facts]] /\ copy[t][i] \in Facts
      BY <3>1 DEF TypeOK
    <3>4. copy'[t][i].priced = copy[t][i].priced /\ (copy[t][i].named => copy'[t][i].named)
      <4>1. CASE UNCHANGED copy
        BY <4>1
      <4>2. ASSUME NEW known \in SUBSET batch[t],
                   copy' = [copy EXCEPT ![t] =
                     [j \in Item |-> IF j \in known THEN [@[j] EXCEPT !.named = TRUE] ELSE @[j]]]
            PROVE  copy'[t][i].priced = copy[t][i].priced
                   /\ (copy[t][i].named => copy'[t][i].named)
        <5>1. copy'[t][i] = IF i \in known THEN [copy[t][i] EXCEPT !.named = TRUE] ELSE copy[t][i]
          BY <3>1, <3>3, <4>2
        <5>. QED  BY <3>3, <5>1, NamedSet
      <4>. QED  BY <2>5, <4>1, <4>2 DEF ItemsAnswer
    <3>. QED  BY <3>1, <3>2, <3>4
  <2>6. CASE PricesAnswer(t)
    <3>1. /\ i \in batch[t] \ overtaken[t] /\ i \in Item /\ UNCHANGED cache
          /\ pc[t] = "prices" /\ pc'[t] = "store"
      BY <2>6 DEF PricesAnswer, Goto, TypeOK, past
    <3>2. /\ cache[i].named => copy[t][i].named
          /\ cache[i].priced => copy[t][i].priced
      BY <1>4, <3>1 DEF CopyInv, Holding
    <3>3. copy[t] \in [Item -> Facts] /\ copy \in [Thread -> [Item -> Facts]] /\ copy[t][i] \in Facts
      BY <3>1 DEF TypeOK
    <3>4. CASE UNCHANGED copy
      BY <3>1, <3>2, <3>4
    <3>5. ASSUME NEW priced \in SUBSET batch[t],
                 priceAnswer' = [priceAnswer EXCEPT ![t] = TRUE],
                 copy' = [copy EXCEPT ![t] =
                   [j \in Item |-> IF j \in batch[t] THEN [@[j] EXCEPT !.priced = j \in priced]
                                                     ELSE @[j]]]
          PROVE  copy'[t][i].named = copy[t][i].named /\ priceAnswer'[t]
      <4>1. copy'[t][i] = [copy[t][i] EXCEPT !.priced = i \in priced]
        <5>1. copy'[t] = [j \in Item |-> IF j \in batch[t]
                                           THEN [copy[t][j] EXCEPT !.priced = j \in priced]
                                           ELSE copy[t][j]]
          BY <3>3, <3>5, Zenon
        <5>2. i \in Item /\ i \in batch[t]
          BY <3>1
        <5>. QED  BY <5>1, <5>2, Zenon
      <4>2. priceAnswer'[t]
        BY <3>5 DEF TypeOK
      <4>3. [copy[t][i] EXCEPT !.priced = i \in priced].named = copy[t][i].named
        <5>1. ASSUME NEW b \in BOOLEAN PROVE [copy[t][i] EXCEPT !.priced = b].named = copy[t][i].named
          BY <3>3 DEF Facts
        <5>2. (i \in priced) \in BOOLEAN
          OBVIOUS
        <5>. QED  BY <5>1, <5>2, Zenon
      <4>. QED  BY <4>1, <4>2, <4>3
    <3>. QED  BY <2>6, <3>1, <3>2, <3>4, <3>5 DEF PricesAnswer
  <2>. QED  BY <1>4, <2>4, <2>5, <2>6
       DEF WorkerStep, FetchCurrencies, Exit, Take, Store, Abandon, Goto, TypeOK, Holding
<1>. QED  BY <1>1, <1>2, <1>3, <1>4 DEF Next, Frame, GrowOld, StayUp, Autosave, EndSave, SaveFails,
             Unload, Stop, vars, work, past

LEMMA FileInvStep == Inv /\ [Next]_vars => FileInv'
<1> SUFFICES ASSUME Inv, [Next]_vars PROVE FileInv'
  OBVIOUS
<1> USE DEF Inv
<1>1. CASE UNCHANGED <<phase, cache, file, snapshot, spoiled>>
  BY <1>1 DEF FileInv
<1>2. CASE Load
  <2>1. snapshot = Nothing /\ UNCHANGED <<file, snapshot>>
    BY <1>2 DEF Load, FileInv, disk
  <2>2. \A i \in Item : file[i].named => cache'[i].named
    BY <1>2 DEF Load, Restored
  <2>. QED  BY <2>1, <2>2 DEF FileInv
<1>3. CASE Autosave \/ Unload
  <2>1. /\ phase = "loaded" /\ phase' # "unloaded" /\ UNCHANGED <<cache, spoiled>>
        /\ BeginSave
    BY <1>3 DEF Autosave, Unload, past
  <2>2. ASSUME NEW i \in Item \ spoiled, file'[i].named PROVE cache[i].named
    BY <2>1, <2>2 DEF BeginSave, FileInv, AllUnknown, Unknown, disk
  <2>3. ASSUME NEW i \in Item \ spoiled, snapshot' # Nothing, snapshot'[i].named
        PROVE  cache[i].named
    BY <2>1, <2>3 DEF BeginSave, FileInv, Saveable, Unknown, disk
  <2>. QED  BY <2>1, <2>2, <2>3 DEF FileInv
<1>4. CASE EndSave
  BY <1>4 DEF EndSave, FileInv, past
<1>5. CASE SaveFails
  BY <1>5 DEF SaveFails, FileInv, past
<1>6. CASE Stop
  BY <1>6 DEF Stop, FileInv, past, disk
<1>7. CASE Crash
  BY <1>7 DEF Crash, FileInv
<1>8. ASSUME NEW t \in Thread, WorkerStep(t) \/ Abandon(t) PROVE FileInv'
  <2>1. UNCHANGED <<phase, file, snapshot>>
    BY <1>8 DEF WorkerStep, FetchCurrencies, Exit, Take, Copy, ItemsAnswer, PricesAnswer, Store,
                Abandon, disk
  <2>2. spoiled \subseteq spoiled' /\ (UNCHANGED cache \/ overtaken[t] \subseteq spoiled')
    BY <1>8 DEF WorkerStep, FetchCurrencies, Exit, Take, Copy, ItemsAnswer, PricesAnswer, Store,
                Abandon, past
  <2>3. \A i \in Item \ spoiled' : cache[i].named => cache'[i].named
    BY <1>8, <2>2, CacheKeepsNames
  <2>. QED  BY <2>1, <2>2, <2>3 DEF FileInv
<1>. QED  BY <1>1, <1>2, <1>3, <1>4, <1>5, <1>6, <1>7, <1>8 DEF Next, Frame, GrowOld, StayUp, vars,
             past, disk

\* An item that has just been stored is due again only once it is old, so that
\* it is queued only by a frame from before.
LEMMA RefetchedOnceStep == Inv /\ [Next]_vars => RefetchedOnce'
<1> SUFFICES ASSUME Inv, [Next]_vars PROVE RefetchedOnce'
  OBVIOUS
<1> USE DEF Inv, RefetchedOnce, TypeOK
<1>1. ASSUME NEW ids \in SUBSET Item, Frame(ids) PROVE RefetchedOnce'
  BY <1>1 DEF Frame, Due, work, past
<1>2. ASSUME NEW i \in Item, GrowOld(i) PROVE RefetchedOnce'
  BY <1>2 DEF GrowOld, work, past
<1>3. CASE Load
  BY <1>3 DEF Load
<1>4. CASE Crash
  BY <1>4 DEF Crash
<1>5. ASSUME NEW t \in Thread, WorkerStep(t) \/ Abandon(t) PROVE RefetchedOnce'
  <2>1. ASSUME NEW u \in Thread, u # t, NEW i \in batch'[u] \ overtaken'[u], at'[i] = "fresh"
        PROVE  i \notin pending'
    <3>1. i \in batch[u] \ overtaken[u] /\ (Store(t) => i \notin batch[t])
      BY <1>5, <2>1, OthersStay
    <3>2. at'[i] = at[i] /\ pending' \subseteq pending
      BY <1>5, <2>1, <3>1 DEF WorkerStep, FetchCurrencies, Exit, Take, Copy, ItemsAnswer,
         PricesAnswer, Store, Abandon
    <3>. QED  BY <2>1, <3>1, <3>2
  <2>2. ASSUME NEW i \in batch'[t] \ overtaken'[t], at'[i] = "fresh"
        PROVE  i \notin pending'
    <3>1. CASE Take(t)
      BY <2>2, <3>1 DEF Take
    <3>2. CASE ~Take(t)
      BY <1>5, <2>2, <3>2 DEF BatchInv, WorkerStep, FetchCurrencies, Exit, Copy, ItemsAnswer,
         PricesAnswer, Store, Abandon, past
    <3>. QED  BY <3>1, <3>2
  <2>. QED  BY <2>1, <2>2
<1>6. CASE StayUp \/ Autosave \/ EndSave \/ SaveFails \/ Unload \/ Stop \/ UNCHANGED vars
  BY <1>6 DEF StayUp, Autosave, EndSave, SaveFails, Unload, Stop, vars, work, past
<1> QED BY <1>1, <1>2, <1>3, <1>4, <1>5, <1>6 DEF Next

LEMMA InvStep == Inv /\ [Next]_vars => Inv'
BY TypeOKStep, BatchInvStep, CopyInvStep, FileInvStep, RefetchedOnceStep DEF Inv

\* A network failure never costs a name that is known, nor a price, but of an
\* item that two workers had at once, of which the one stores what it took
\* before the other stored (FetchItemBatch).
THEOREM KnownIsReallyKept == Spec => KnownIsKept
<1>1. Inv /\ [Next]_vars =>
        [phase # "unloaded" /\ phase' # "unloaded" =>
           \A i \in Item :
             /\ cache[i].named /\ ~cache'[i].named =>
                  \E t \in Thread : pc[t] = "store" /\ i \in overtaken[t]
             /\ cache[i].priced /\ ~cache'[i].priced =>
                  \E t \in Thread : /\ pc[t] = "store" /\ i \in batch[t]
                                    /\ priceAnswer[t] \/ i \in overtaken[t]]_vars
  <2> SUFFICES ASSUME Inv, Next, phase # "unloaded", phase' # "unloaded", NEW i \in Item
               PROVE  /\ cache[i].named /\ ~cache'[i].named =>
                           \E t \in Thread : pc[t] = "store" /\ i \in overtaken[t]
                      /\ cache[i].priced /\ ~cache'[i].priced =>
                           \E t \in Thread : /\ pc[t] = "store" /\ i \in batch[t]
                                             /\ priceAnswer[t] \/ i \in overtaken[t]
    OBVIOUS
  <2>1. CASE \E t \in Thread : WorkerStep(t) \/ Abandon(t)
    BY <2>1, CacheKeepsNames
  <2>2. CASE UNCHANGED cache
    BY <2>2
  <2>. QED  BY <2>1, <2>2 DEF Next, Frame, GrowOld, StayUp, Load, Autosave, EndSave, SaveFails,
                              Unload, Stop, Crash
<1>. QED  BY <1>1, InitInv, InvStep, PTL DEF Spec, KnownIsKept

\* A save never leaves out a name the file would have restored, but of an item
\* that such a batch has been stored over (LoadItemCache, SaveItemCache, the
\* autosave and Unload()).
THEOREM SavesKeepNames == Spec => SaveKeepsNames
<1>1. Inv /\ [Next]_vars =>
        [snapshot = Nothing /\ snapshot' # Nothing =>
           \A i \in Item \ spoiled : file[i].named => snapshot'[i].named]_vars
  <2> SUFFICES ASSUME Inv, Next, snapshot = Nothing, snapshot' # Nothing,
                      NEW i \in Item \ spoiled, file[i].named
               PROVE  snapshot'[i].named
    OBVIOUS
  <2>1. phase = "loaded" /\ BeginSave
    BY DEF Next, Frame, GrowOld, StayUp, Load, Autosave, EndSave, SaveFails, Unload, Stop, Crash,
           WorkerStep, FetchCurrencies, Exit, Take, Copy, ItemsAnswer, PricesAnswer, Store,
           Abandon, disk
  <2>2. cache[i].named
    BY <2>1 DEF Inv, FileInv
  <2>. QED  BY <2>1, <2>2 DEF BeginSave, Saveable, disk
<1>. QED  BY <1>1, InitInv, InvStep, PTL DEF Spec, SaveKeepsNames

\* However often an item drops and its requests fail, it is fetched once too
\* often at most by a worker that no other overtakes (EnsureItemsRequested).
THEOREM NeverFetchedThrice == Spec => []RefetchedOnce
<1>1. Inv => RefetchedOnce
  BY DEF Inv
<1> QED BY <1>1, InitInv, InvStep, PTL DEF Spec

\* A request is for some ids, and for no more than the API takes at once; a
\* worker that makes none holds none.
BatchesFit ==
  \A t \in Thread :
    IF pc[t] \in Requesting THEN batch[t] # {} /\ Cardinality(batch[t]) <= MaxBatch
                            ELSE batch[t] = {}

\* A worker keeps the batch it took, or gives up all of it.
LEMMA BatchesFitStep ==
  ASSUME IsFiniteSet(Item)
  PROVE  TypeOK /\ BatchesFit /\ [Next]_vars => BatchesFit'
<1> SUFFICES ASSUME TypeOK, BatchesFit, [Next]_vars PROVE BatchesFit'
  OBVIOUS
<1> USE DEF BatchesFit, TypeOK, Requesting
<1>1. CASE UNCHANGED <<pc, batch>>
  BY <1>1
<1>2. CASE Load
  BY <1>2 DEF Load, Alive
<1>3. CASE Crash
  BY <1>3 DEF Crash, FirstWorker
<1>4. ASSUME NEW t \in Thread, WorkerStep(t) \/ Abandon(t) PROVE BatchesFit'
  <2>1. \A u \in Thread : u # t => pc'[u] = pc[u] /\ batch'[u] = batch[u]
    BY <1>4, OthersStay
  <2>2. CASE Take(t)
    <3>1. PICK ids \in SUBSET pending :
            /\ Cardinality(ids) = MaxBatch \/ (ids = pending /\ Cardinality(ids) < MaxBatch)
            /\ batch' = [batch EXCEPT ![t] = ids]
      BY <2>2 DEF Take
    <3>2. ids # {}
      BY <2>2, <3>1, FS_EmptySet, MaxBatchAssumption DEF Take
    <3>3. Cardinality(ids) <= MaxBatch
      <4>1. Cardinality(ids) \in Nat
        BY FS_Subset, FS_CardinalityType
      <4>. QED  BY <3>1, <4>1, MaxBatchAssumption
    <3>4. pc'[t] = "copy" /\ batch'[t] = ids
      BY <2>2, <3>1 DEF Take, Goto
    <3>. QED  BY <2>1, <3>2, <3>3, <3>4
  <2>3. CASE Copy(t) \/ ItemsAnswer(t) \/ PricesAnswer(t)
    <3>1. batch' = batch /\ pc[t] \in Requesting /\ pc'[t] \in Requesting
      BY <2>3 DEF Copy, ItemsAnswer, PricesAnswer, Goto
    <3>. QED  BY <2>1, <3>1
  <2>4. CASE FetchCurrencies(t) \/ Exit(t) \/ Store(t) \/ Abandon(t)
    <3>1. batch'[t] = {} /\ pc'[t] \notin Requesting
      BY <2>4 DEF FetchCurrencies, Exit, Store, Abandon, Goto
    <3>. QED  BY <2>1, <3>1
  <2>. QED  BY <1>4, <2>2, <2>3, <2>4 DEF WorkerStep
<1>. QED  BY <1>1, <1>2, <1>3, <1>4 DEF Next, Frame, GrowOld, StayUp, Autosave, EndSave, SaveFails,
             Unload, Stop, vars, work

\* A request never exceeds the "per-request id limit" of the API, whatever is
\* queued while it is made, and none is made for nothing, of finitely many items,
\* whose ids are 64 bits wide (MAX_IDS_PER_BATCH, WorkerLoop).
THEOREM BatchesAreWithinLimit ==
  ASSUME IsFiniteSet(Item)
  PROVE  Spec => []BatchesFit
<1>1. Init => BatchesFit
  BY DEF Init, FirstWorker, BatchesFit, Requesting
<1>. QED  BY <1>1, TypesHold, BatchesFitStep, PTL DEF Spec

-----------------------------------------------------------------------------
(* The pool. *)

\* The workers of the prices are those of Worker, as far as the queue can tell
\* (Start, Stop, WorkerLoop).
THEOREM ImplementsPool == Spec => RefinesPool
<1>1. Init => Pool!Init
  BY DEF Init, FirstWorker, Pool!Init, Pool!NewProcess, Alive
<1>2. TypeOK /\ [Next]_vars => [Pool!Next]_Pool!vars
  <2> SUFFICES ASSUME TypeOK, [Next]_vars PROVE [Pool!Next]_Pool!vars
    OBVIOUS
  <2>1. CASE Load
    <3>1. ASSUME NEW t \in Thread \ Alive, pc' = [pc EXCEPT ![t] = "currencies"]
          PROVE  Alive' = Alive \cup {t}
      BY <3>1 DEF Alive, TypeOK
    <3> QED BY <2>1, <3>1 DEF Load, Pool!Load, Pool!Next, Alive
  <2>2. CASE Stop
    BY <2>2 DEF Stop, Pool!Unload, Pool!Next, Alive, work
  <2>3. CASE Crash
    BY <2>3 DEF Crash, FirstWorker, Alive, Pool!EndOfProcess, Pool!NewProcess, Pool!Next
  <2>4. CASE \/ \E ids \in SUBSET Item : Frame(ids)
             \/ \E i \in Item : GrowOld(i)
             \/ StayUp \/ Autosave \/ EndSave \/ SaveFails \/ Unload \/ UNCHANGED vars
    BY <2>4 DEF Frame, GrowOld, StayUp, Autosave, EndSave, SaveFails, Unload, vars, work, past, Alive,
       Pool!vars
  <2>5. ASSUME NEW t \in Thread, WorkerStep(t) \/ Abandon(t) PROVE [Pool!Next]_Pool!vars
    <3>1. /\ UNCHANGED <<phase, stop>>
          /\ \E to : pc' = [pc EXCEPT ![t] = to]
      BY <2>5 DEF WorkerStep, FetchCurrencies, Exit, Take, Copy, ItemsAnswer, PricesAnswer, Store,
         Abandon, Goto
    <3>2. \A u \in Thread : u # t => pc'[u] = pc[u]
      BY <3>1 DEF TypeOK
    <3>3. CASE Exit(t)
      BY <3>1, <3>2, <3>3 DEF Exit, Goto, Alive, TypeOK, Pool!Leave, Pool!Next
    <3>4. CASE pc[t] # "off" /\ pc'[t] # "off"
      BY <3>1, <3>2, <3>4 DEF Alive, Pool!vars
    <3> QED BY <2>5, <3>3, <3>4 DEF WorkerStep, FetchCurrencies, Take, Copy, ItemsAnswer,
               PricesAnswer, Store, Abandon, Requesting, Goto, TypeOK
  <2> QED BY <2>1, <2>2, <2>3, <2>4, <2>5 DEF Next
<1> QED BY <1>1, <1>2, TypesHold, PTL DEF Spec, RefinesPool, Pool!Spec

=============================================================================
