----------------------------- MODULE PriceCache -----------------------------
(***************************************************************************)
(* What is known of the items (Gw2Api, and item_cache.json in main.cpp).   *)
(* A frame queues the items whose price is missing or old; a worker takes  *)
(* a batch, copies what is known of it, asks for the items and then for    *)
(* their prices, and writes the batch back.  A worker that outlived its    *)
(* Stop() goes on next to the one of the next Load() (Worker has that      *)
(* protocol).                                                              *)
(*                                                                         *)
(* Of an item the model keeps whether its name (with all that comes with   *)
(* it) and its price are known, and how old its lastFetchedAt is.  The     *)
(* names of the currencies are left out, the request for them is not.      *)
(***************************************************************************)
EXTENDS FiniteSets, Naturals

CONSTANTS
  Item,      \* the item ids
  Thread,    \* bound: as many threads as can be alive at once
  MaxBatch,  \* MAX_IDS_PER_BATCH
  Trouble,   \* GW2_API_TROUBLE_THRESHOLD; bound: failures are counted so far
  Nothing    \* no save under way

ASSUME MaxBatchAssumption == MaxBatch \in Nat \ {0}
ASSUME TroubleAssumption == Trouble \in Nat \ {0}
ASSUME NothingAssumption == Nothing \notin [Item -> [named : BOOLEAN, priced : BOOLEAN]]

VARIABLES
  phase,       \* the addon is "unloaded", "loaded" or "unloading"
  stop,        \* _stop
  longUp,      \* the machine has been up for PRICE_REFRESH_INTERVAL
  cache,       \* _itemCache: what is known of each item
  at,          \* lastFetchedAt of each item
  pending,     \* _pendingItemIds
  failures,    \* _consecutiveFailures
  pc,          \* where each thread is in WorkerLoop() and FetchItemBatch()
  batch,       \* the ids each thread is at
  copy,        \* fetched: what each thread is to write back
  priceAnswer, \* history: the price request of the batch was not a network failure
  overtaken,   \* history: the items of its batch that something else than the
               \* thread itself has entered in the cache since it took them
  spoiled,     \* history: the items that a batch taken before what it overwrote
               \* has been stored over since the last Load()
  file,        \* what item_cache.json would restore
  snapshot     \* what is being written to it

vars == <<phase, stop, longUp, cache, at, pending, failures,
          pc, batch, copy, priceAnswer, overtaken, spoiled, file, snapshot>>
past == <<overtaken, spoiled>>
work == <<pc, batch, copy, priceAnswer>>
disk == <<file, snapshot>>

Facts == [named : BOOLEAN, priced : BOOLEAN]
Unknown == [named |-> FALSE, priced |-> FALSE]
AllUnknown == [i \in Item |-> Unknown]

\* "absent" is not in the cache; "epoch" is the value of a restored entry.
Age == {"absent", "epoch", "stale", "fresh"}

Requesting == {"copy", "items", "prices", "store"}

Alive == {t \in Thread : pc[t] # "off"}

TypeOK ==
  /\ phase \in {"unloaded", "loaded", "unloading"}
  /\ stop \in BOOLEAN
  /\ longUp \in BOOLEAN
  /\ cache \in [Item -> Facts]
  /\ at \in [Item -> Age]
  /\ pending \subseteq Item
  /\ failures \in 0..Trouble
  /\ pc \in [Thread -> Requesting \cup {"off", "currencies", "idle"}]
  /\ batch \in [Thread -> SUBSET Item]
  /\ copy \in [Thread -> [Item -> Facts]]
  /\ priceAnswer \in [Thread -> BOOLEAN]
  /\ overtaken \in [Thread -> SUBSET Item]
  /\ spoiled \subseteq Item
  /\ file \in [Item -> Facts]
  /\ snapshot \in [Item -> Facts] \cup {Nothing}

\* The threads of a process that has begun: the constructor has started the
\* first worker, which begins with the currencies.
FirstWorker(threads) ==
  \E t \in Thread : threads = [u \in Thread |-> IF u = t THEN "currencies" ELSE "off"]

Init ==
  /\ phase = "unloaded"
  /\ stop = FALSE
  /\ longUp \in BOOLEAN
  /\ cache = AllUnknown
  /\ at = [i \in Item |-> "absent"]
  /\ pending = {}
  /\ failures = 0
  /\ FirstWorker(pc)
  /\ batch = [t \in Thread |-> {}]
  /\ copy = [t \in Thread |-> AllUnknown]
  /\ priceAnswer = [t \in Thread |-> FALSE]
  /\ overtaken = [t \in Thread |-> {}]
  /\ spoiled = {}
  /\ file = AllUnknown
  /\ snapshot = Nothing

-----------------------------------------------------------------------------
(* Frames. *)

\* Slip: an entry without a time of its own is never due.
DueIfDated(i) == at[i] \in {"absent", "stale"}

\* Slip: an item without a price is queued until it has one.
DueIfUnpriced(i) ==
  ~cache[i].priced \/ at[i] \in {"absent", "stale"} \/ (at[i] = "epoch" /\ longUp)

\* needsFetch: the epoch is the start of the machine, give or take.
Due(i) == at[i] \in {"absent", "stale"} \/ (at[i] = "epoch" /\ longUp)

\* EnsureItemsRequested() with the items of the session.
Frame(ids) ==
  /\ phase = "loaded"
  /\ pending' = pending \cup {i \in ids : Due(i)}
  /\ UNCHANGED <<phase, stop, longUp, cache, at, failures, work, past, disk>>

\* PRICE_REFRESH_INTERVAL has gone by since the item was fetched.
GrowOld(i) ==
  /\ at[i] = "fresh"
  /\ at' = [at EXCEPT ![i] = "stale"]
  /\ UNCHANGED <<phase, stop, longUp, cache, pending, failures, work, past, disk>>

\* ... and since the machine was started.
StayUp ==
  /\ ~longUp
  /\ longUp' = TRUE
  /\ UNCHANGED <<phase, stop, cache, at, pending, failures, work, past, disk>>

-----------------------------------------------------------------------------
(* Load(), Unload(), the saves and the end of the process. *)

\* LoadPersistedItems(): what is in the file replaces what is in the cache.
Restored == [i \in Item |-> IF file[i].named THEN file[i] ELSE cache[i]]

\* LoadItemCache() and Start(): the worker of the constructor, or a new one
\* after a Stop().
Load ==
  /\ phase = "unloaded"
  /\ phase' = "loaded"
  /\ cache' = Restored
  /\ at' = [i \in Item |-> IF file[i].named THEN "epoch" ELSE at[i]]
  /\ stop' = FALSE
  /\ IF stop
       THEN \E t \in Thread \ Alive : pc' = [pc EXCEPT ![t] = "currencies"]
       ELSE UNCHANGED pc
  /\ overtaken' = [t \in Thread |-> overtaken[t] \cup {i \in batch[t] : file[i].named}]
  /\ spoiled' = {}
  /\ UNCHANGED <<longUp, pending, failures, batch, copy, priceAnswer, disk>>

\* Slip: only what is up to date is saved.
SaveableIfFresh(i) == cache[i].named /\ at[i] = "fresh"

\* What has no name is not worth remembering.
Saveable(i) == cache[i].named

\* SaveItemCache() copies the cache and truncates the file, which restores
\* nothing from then on.  Or it cannot open the file.
BeginSave ==
  /\ snapshot = Nothing
  /\ \/ /\ snapshot' = [i \in Item |-> IF Saveable(i) THEN cache[i] ELSE Unknown]
        /\ file' = AllUnknown
     \/ UNCHANGED disk

\* The file has been written and closed.
EndSave ==
  /\ snapshot # Nothing
  /\ file' = snapshot
  /\ snapshot' = Nothing
  /\ UNCHANGED <<phase, stop, longUp, cache, at, pending, failures, work, past>>

\* The disk is full, which nothing looks at.
SaveFails ==
  /\ snapshot # Nothing
  /\ snapshot' = Nothing
  /\ UNCHANGED <<phase, stop, longUp, cache, at, pending, failures, work, past, file>>

Autosave ==
  /\ phase = "loaded"
  /\ BeginSave
  /\ UNCHANGED <<phase, stop, longUp, cache, at, pending, failures, work, past>>

\* Unload() has waited for the autosave and makes the last save itself.
Unload ==
  /\ phase = "loaded"
  /\ phase' = "unloading"
  /\ BeginSave
  /\ UNCHANGED <<stop, longUp, cache, at, pending, failures, work, past>>

\* Stop(), which may let go of a worker that is still in a request.
Stop ==
  /\ phase = "unloading"
  /\ snapshot = Nothing
  /\ phase' = "unloaded"
  /\ stop' = TRUE
  /\ UNCHANGED <<longUp, cache, at, pending, failures, work, past, disk>>

\* The end of the process at any step, and perhaps of the machine.
Crash ==
  /\ phase' = "unloaded"
  /\ stop' = FALSE
  /\ longUp' \in {longUp, FALSE}
  /\ cache' = AllUnknown
  /\ at' = [i \in Item |-> "absent"]
  /\ pending' = {}
  /\ failures' = 0
  /\ FirstWorker(pc')
  /\ batch' = [t \in Thread |-> {}]
  /\ copy' = [t \in Thread |-> AllUnknown]
  /\ priceAnswer' = [t \in Thread |-> FALSE]
  /\ overtaken' = [t \in Thread |-> {}]
  /\ spoiled' = {}
  /\ snapshot' = Nothing
  /\ UNCHANGED file

-----------------------------------------------------------------------------
(* The worker. *)

Goto(t, to) == pc' = [pc EXCEPT ![t] = to]

\* Slip: a failure after another counts for nothing.
FailedOnce == IF failures = 0 THEN 1 ELSE failures

\* One more network failure.
Failed == IF failures < Trouble THEN failures + 1 ELSE failures

\* FetchCurrencies(): no answer, or any.
FetchCurrencies(t) ==
  /\ pc[t] = "currencies"
  /\ Goto(t, "idle")
  /\ failures' \in {Failed, 0}
  /\ UNCHANGED <<phase, stop, longUp, cache, at, pending, batch, copy, priceAnswer, past, disk>>

\* _stop is seen at the head of the loop or in the wait.
Exit(t) ==
  /\ pc[t] = "idle"
  /\ stop
  /\ Goto(t, "off")
  /\ UNCHANGED <<phase, stop, longUp, cache, at, pending, failures,
                 batch, copy, priceAnswer, past, disk>>

\* Any ids of the queue, which is not in order, up to the limit.
Take(t) ==
  /\ pc[t] = "idle"
  /\ ~stop
  /\ pending # {}
  /\ \E ids \in SUBSET pending :
       /\ \/ Cardinality(ids) = MaxBatch
          \/ ids = pending /\ Cardinality(ids) < MaxBatch
       /\ batch' = [batch EXCEPT ![t] = ids]
       /\ pending' = pending \ ids
  /\ overtaken' = [overtaken EXCEPT ![t] = {}]
  /\ Goto(t, "copy")
  /\ UNCHANGED <<phase, stop, longUp, cache, at, failures, copy, priceAnswer, spoiled, disk>>

\* Slip: the batch starts from blank entries.
CopiedBlank(i) == Unknown

Copied(i) == cache[i]

\* FetchItemBatch() starts from what is cached.
Copy(t) ==
  /\ pc[t] = "copy"
  /\ copy' = [copy EXCEPT ![t] = [i \in Item |-> IF i \in batch[t] THEN Copied(i) ELSE Unknown]]
  /\ Goto(t, "items")
  /\ UNCHANGED <<phase, stop, longUp, cache, at, pending, failures,
                 batch, priceAnswer, past, disk>>

\* The items request returns: not at all, or with some of the ids, or none
\* when the status is not a success or the body does not parse.
ItemsAnswer(t) ==
  /\ pc[t] = "items"
  /\ Goto(t, "prices")
  /\ \/ /\ failures' = Failed
        /\ UNCHANGED copy
     \/ \E known \in SUBSET batch[t] :
          /\ failures' = 0
          /\ copy' = [copy EXCEPT ![t] =
               [i \in Item |-> IF i \in known THEN [@[i] EXCEPT !.named = TRUE] ELSE @[i]]]
  /\ UNCHANGED <<phase, stop, longUp, cache, at, pending, batch, priceAnswer, past, disk>>

\* The price request returns.  An answer leaves, sets or clears the price of
\* each id: a listing of zero means there is none.
PricesAnswer(t) ==
  /\ pc[t] = "prices"
  /\ Goto(t, "store")
  /\ \/ /\ failures' = Failed
        /\ priceAnswer' = [priceAnswer EXCEPT ![t] = FALSE]
        /\ UNCHANGED copy
     \/ \E priced \in SUBSET batch[t] :
          /\ failures' = 0
          /\ priceAnswer' = [priceAnswer EXCEPT ![t] = TRUE]
          /\ copy' = [copy EXCEPT ![t] =
               [i \in Item |-> IF i \in batch[t] THEN [@[i] EXCEPT !.priced = i \in priced] ELSE @[i]]]
  /\ UNCHANGED <<phase, stop, longUp, cache, at, pending, batch, past, disk>>

\* The batch is written back and counts as fetched now, whatever became of
\* its two requests.
Store(t) ==
  /\ pc[t] = "store"
  /\ cache' = [i \in Item |-> IF i \in batch[t] THEN copy[t][i] ELSE cache[i]]
  /\ at' = [i \in Item |-> IF i \in batch[t] THEN "fresh" ELSE at[i]]
  /\ batch' = [batch EXCEPT ![t] = {}]
  /\ copy' = [copy EXCEPT ![t] = AllUnknown]
  /\ priceAnswer' = [priceAnswer EXCEPT ![t] = FALSE]
  /\ overtaken' = [u \in Thread |-> IF u = t THEN {}
                                    ELSE overtaken[u] \cup (batch[t] \cap batch[u])]
  /\ spoiled' = spoiled \cup overtaken[t]
  /\ Goto(t, "idle")
  /\ UNCHANGED <<phase, stop, longUp, pending, failures, disk>>

\* An exception in FetchItemBatch() gives the batch up.
Abandon(t) ==
  /\ pc[t] \in Requesting
  /\ batch' = [batch EXCEPT ![t] = {}]
  /\ copy' = [copy EXCEPT ![t] = AllUnknown]
  /\ priceAnswer' = [priceAnswer EXCEPT ![t] = FALSE]
  /\ overtaken' = [overtaken EXCEPT ![t] = {}]
  /\ Goto(t, "idle")
  /\ UNCHANGED <<phase, stop, longUp, cache, at, pending, failures, spoiled, disk>>

-----------------------------------------------------------------------------

\* What a worker does when no exception is thrown.
WorkerStep(t) ==
  \/ FetchCurrencies(t)
  \/ Exit(t)
  \/ Take(t)
  \/ Copy(t)
  \/ ItemsAnswer(t)
  \/ PricesAnswer(t)
  \/ Store(t)

Next ==
  \/ \E ids \in SUBSET Item : Frame(ids)
  \/ \E i \in Item : GrowOld(i)
  \/ StayUp
  \/ Load
  \/ Autosave
  \/ EndSave
  \/ SaveFails
  \/ Unload
  \/ Stop
  \/ Crash
  \/ \E t \in Thread : WorkerStep(t) \/ Abandon(t)

\* Frames go on and see all items, time passes, threads are scheduled and
\* requests end by their time-outs.
Spec ==
  /\ Init
  /\ [][Next]_vars
  /\ WF_vars(Frame(Item))
  /\ WF_vars(StayUp)
  /\ \A i \in Item : WF_vars(GrowOld(i))
  /\ \A t \in Thread : WF_vars(WorkerStep(t))

-----------------------------------------------------------------------------
(* Safety. *)

\* A network failure never costs a name that is known, nor a price: a name
\* stays, and a price goes only because an answer says so.  It takes a worker
\* that outlived its Stop() to break this, and of the very same item one batch
\* must have been taken before and stored after another (FetchItemBatch).
KnownIsKept ==
  [][phase # "unloaded" /\ phase' # "unloaded" =>
       \A i \in Item :
         /\ cache[i].named /\ ~cache'[i].named =>
              \E t \in Thread : pc[t] = "store" /\ i \in overtaken[t]
         /\ cache[i].priced /\ ~cache'[i].priced =>
              \E t \in Thread : /\ pc[t] = "store" /\ i \in batch[t]
                                /\ priceAnswer[t] \/ i \in overtaken[t]]_vars

\* A save never leaves out what the file would have restored, whatever was
\* loaded, fetched, saved and cut short before, but for an item that such a
\* batch has been stored over since the last Load() (LoadItemCache,
\* SaveItemCache).
SaveKeepsNames ==
  [][snapshot = Nothing /\ snapshot' # Nothing =>
       \A i \in Item \ spoiled : file[i].named => snapshot'[i].named]_vars

\* An item is no longer pending while its batch is under way and not yet dated,
\* so the frames in the meantime queue it again.  It is fetched once too often
\* and no more, also when its requests fail: the second batch finds it fresh,
\* and no frame queues it a third time, unless another worker has stored it
\* meanwhile.  PRICE_REFRESH_INTERVAL is there for "not hammering
\* api.guildwars2.com" (EnsureItemsRequested, WorkerLoop, FetchItemBatch).
RefetchedOnce ==
  \A t \in Thread : \A i \in batch[t] \ overtaken[t] : at[i] = "fresh" => i \notin pending

(* Liveness. *)

\* An item is asked for again and again while the addon stays loaded,
\* whatever failed before, also when it was restored by a machine that has
\* just been started (EnsureItemsRequested, WorkerLoop).  With a batch limit
\* below the number of items the queue could pass over one of them.
FetchedAgain ==
  \A i \in Item : <>[](phase = "loaded") => []<>(\E t \in Thread : i \in batch[t])

\* Either requests are answered again and again, or the window comes to say
\* that the API is unreachable and keeps saying it (_consecutiveFailures),
\* unless exceptions keep the requests from being made.
OutageIsShown ==
  <>[](phase = "loaded") =>
    \/ []<>(failures = 0)
    \/ <>[](failures = Trouble)
    \/ []<><<\E t \in Thread : Abandon(t)>>_vars

-----------------------------------------------------------------------------
(* The workers this takes for granted. *)

Pool == INSTANCE WorkerPool WITH loaded <- phase # "unloaded", serving <- Alive

\* The workers of this module behave as those of Worker do, as far as the queue
\* can tell (Start, Stop, WorkerLoop).
RefinesPool == Pool!Spec

=============================================================================
