# A TLA+ model of DrfGoldTracker

DrfGoldTracker is an addon of the game Guild Wars 2, loaded by the Nexus addon host as a DLL. It receives the
player's drops from drf.rs over a websocket, keeps running totals of items and currencies (the *session*), values
them with prices from the GW2 API, and shows them in a window. This directory models its own logic in TLA+, checks
the models with TLC and proves the most important properties with TLAPS. Paths are relative to the repository, whose
code is in `src/src`.

## The system

| Component | State | Operations | Talks to |
|---|---|---|---|
| Drop feed, `DrfClient` | websocket, status, token, queue `_pendingDrops` | `SetToken`, `Stop`, `OnMessage`, `DrainDrops` | drf.rs; frames drain its queue |
| Session totals, `SessionTracker` | two totals maps, start and prior length of the session | `ApplyDrop`, `Reset`, `LoadPersisted`, snapshots | frames write, the autosave thread reads |
| Session persistence, `main.cpp` | `session.json`, the autosave thread and its stop flag | `LoadSessionState`, `SaveSessionState`, `StartAutosaveThread`, `StopAutosaveThread` | the tracker, the file |
| Reset schedule, `ResetScheduler` | none | `ComputeNextResetUtc` | called by the automatic reset |
| Automatic reset, `main.cpp` | schedule and next reset in `g_settings` | `CheckAndApplyAutomaticReset`, `RecomputeNextResetDateTime` | tracker, both files |
| Settings, `TrackerSettings` | `settings.json` | `LoadFromFile`, `SaveToFile` | everything in `main.cpp` |
| Prices, `Gw2Api` | item and currency cache, pending ids, worker thread, cancel flag | `Start`, `Stop`, `EnsureItemsRequested`, `WorkerLoop`, `FetchItemBatch` | GW2 API, `item_cache.json` |
| Icons, `IconCache` | pending and in-flight URLs, retry times, confirmed URLs, worker thread | `Start`, `Stop`, `RequestDownload`, `IsCached`, `DownloadToCache` | render service, icon files |
| Lifecycle, `main.cpp` | `g_lifecycleMutex`, `g_lifecycleDepth`, `g_loaded` | `Load`, `Unload`, `AddonRender`, `AddonOptions` | all of the above |
| Item view and profit, `main.cpp`, `Profit` | `g_itemView`, `s_itemViewDirty` | filters, sorting, estimates, the clicks of the window | tracker, prices, settings |
| Drawing, browser launch, vendored code | | | |

**Threads.** The websocket's thread queues drops. The render thread runs frames and the options panel; Nexus runs
`Load()` and `Unload()` on a thread of its choice. All of these take `g_lifecycleMutex`, frames by `try_lock`, so one
of them at most is inside the addon: the models call it *main*, or the *caller*. The autosave thread saves every 30
seconds without that mutex. `Gw2Api` and `IconCache` each have a worker thread that makes blocking HTTP requests.

**What is hard.** Two threads run `SaveSessionState()` on one file, and each save truncates the file before it writes
it. The totals are snapshotted in two critical sections, and the session's clock apart from both. The process can end
at any step. `Unload()` and `Load()` alternate in one process, over static objects that survive, and the host may call
either twice, nested, or have it cut short by an exception. The workers' `Stop()` gives up after two seconds, so a
worker can outlive it, meet the next one and write back an old copy. The socket's events arrive while the token is
changed. Schedules are compared with a wall clock that goes on while the addon is not loaded. What the window draws is
a copy that clicks, drops and resets make stale.

**What makes each component correct.** Feed, totals and persistence: every drop counts exactly once, survives a
reload, a reset stays reset, a clean `Unload()` is exact, the clock tells the time played. Reset schedule: it gives the
first boundary after now. Automatic reset: no boundary is missed, a recorded reset sticks. Workers: requests can be
cancelled, the pointer to the cancel flag is that of the request under way, `Stop()` is bounded, the queue is served after every reload. Prices: a known name or
price is not lost, an id is asked for again when it is old and at most once too often, an outage shows. Icons: one
download per URL at a time, a cooldown between failures. Settings: favorite and ignored exclude one another, a choice
made survives. Lifecycle: reentrant and repeated calls are no-ops, a frame sees a whole addon or none, status and
connection are those of the token. Item view: what is drawn follows a click at once and a drop soon.

## Modules

| Module | Models | Proofs |
|---|---|---|
| `SessionStore` | feed queue, tracker, `session.json`, autosave, `Load()`/`Unload()` | `SessionProofs` |
| `SessionDurability` | `SessionStore` with two history variables: what the file is for | `SessionProofs` |
| `Ledger` | abstract: what feed, totals and persistence promise; `SessionStore` implements it | `SessionProofs` |
| `SessionClock` | the session's clock and `elapsed_seconds` | `SessionClockProofs` |
| `ResetSchedule`, `MCResetSchedule` | `ResetScheduler` as arithmetic | `ResetProofs` |
| `AutoReset` | `CheckAndApplyAutomaticReset` over time, reloads and process ends; uses `ResetSchedule` | `ResetProofs` |
| `Worker` | `Start`, `Stop` and the loop of `Gw2Api` and `IconCache` | `WorkerProofs` |
| `WorkerPool` | abstract: who serves a queue; `Worker`, `IconFiles` and `PriceCache` implement it | in those of the three |
| `IconFiles` | `IconCache`'s queue, cooldown and files | `IconFilesProofs` |
| `IconAttempts` | abstract: what is promised of each icon; `IconFiles` implements it | `IconFilesProofs` |
| `PriceCache` | `Gw2Api`'s cache, batches and failures, `item_cache.json` | `PriceCacheProofs` |
| `DropFeed` | token, status and socket of `DrfClient`, as actions for `Lifecycle` | |
| `Lifecycle` | `Load()`, `Unload()` and the callbacks over `DropFeed` and the threads | `LifecycleProofs` |
| `CallOrder` | abstract: the calls as all other modules take them; `Lifecycle` implements it | `LifecycleProofs` |
| `ItemView` | filters, order of the rows and `Profit`, as operators | `TrackerWindowProofs` |
| `TrackerWindow`, `MCTrackerWindow` | the window's clicks, `settings.json` and the item view; uses `ItemView` | `TrackerWindowProofs` |

Each module starts with its model of the code. A definition whose comment starts with "Slip" is not part of the
model: it is a plausible mistake in the definition after it, used to check that the properties would notice. A
property stands at the end of the module, under a comment that says what it is about. Variables marked "history" are
for the properties alone, and no action depends on them. A thread that waits for a mutex is an action that is not
enabled.

The modules divide the program where its parts meet through little state, and each says at its top what it leaves to
another. `Worker` has the protocol of `Start()` and `Stop()`, so `IconFiles` and `PriceCache` take from it that a
worker may outlive its `Stop()`: what the three have in common is `WorkerPool`, which each is shown to implement.
`Lifecycle` has the nesting of calls, so that the others have one call at a time: that this is what its mutex, depth
and flag leave is its refinement of `CallOrder`. `AutoReset` has the schedule, so that `SessionStore`, `SessionClock`
and `TrackerWindow` allow a reset at any check.

### SessionStore and Ledger

A drop is a number and carries item and currency deltas; a totals map tells, for each drop, how often its deltas have
been added. That is what separates "counted once" from "lost" and "counted twice", whatever the amounts.

| In the model | In the code |
|---|---|
| `pending`, `drained` | `_pendingDrops`; the vector `AddonRenderImpl` iterates over |
| `items`, `currencies` | `_itemTotals`, `_currencyTotals` |
| `main`, `loaded` | where the holder of `g_lifecycleMutex` is; `g_loaded` |
| `stop`, `autosave` | `g_autosaveStop`; the thread `g_autosaveThread` |
| `save[s]` | the call of `SaveSessionState()` that saver `s` is in, and its copies |
| `file` | `session.json` in two parts, each with the saver that wrote it |
| `ReceiveDrop`, `BeginFrame`, `ApplyDrop` | `OnMessageImpl`, `DrainDrops`, `ApplyDrop` |
| `AutomaticResetCheck`, `LoadResetCheck`, `ResetButton` | the three places that reset and save |
| `SaveReadItems` ... `SaveWriteItems`, `SaveFails` | the steps of `SaveSessionState()` |
| `BeginLoad` ... `StartThreads`; `BeginUnload` ... `StopFeed` | `Load()`; `Unload()` |
| `AutosaveTick`, `AutosaveExit` | the two outcomes of `wait_for` in `AutosaveWorkerLoop()` |
| `Crash` | the end of the process, or the DLL being freed |

Two savers in the file at once leave parts by both; such a file may or may not parse, and `LoadSession` allows both.
Whether a reset is due is left open here, and so is whether there is a token. Left out: the amounts, the item cache
saved by the same thread, exceptions inside `Load()` and `Unload()`, which messages are drops (an input).

`Ledger` knows no threads, files or saves: drops arrive, wait, and are entered in an items and in a currencies column;
copies of each column are kept; a reset and the end of the process empty the columns, and what was kept may be
restored. It promises that a drop is entered once, in the order of arrival and in both columns at once, that the ledger
is cleared in those two ways only, and that a column restored is one it once had. `SessionStore` maps its state to it (`L == INSTANCE
Ledger WITH ...`): the kept copies are those in the savers' hands and in the file. `RefinesLedger` is the specification of `Ledger` under it.

### SessionClock

`now` is `steady_clock`, `start` and `prior` are `_sessionStart` and `_priorElapsedSeconds`; `Elapsed` is
`GetElapsedSeconds()`, which cuts to whole seconds. A save reads the clock, then the totals, then opens and writes, so
a reset may come between the first two. `life` is history: for how many ticks the clock's session has been played, how
often it was restored, and whether its totals are of another session; it goes into the file with `elapsed_seconds`.

### ResetSchedule and AutoReset

Time is an integer number of units since 1970 in UTC. `MCResetSchedule` checks every half hour of a fortnight with
a day of 48 half hours; `ResetProofs` proves the same of every unit. `AutoReset` uses a day of two units and
the weekly reset one unit into Monday, so that a weekly boundary (9) and daily ones (8, 10, 12) fall within a few
steps. A session is the time since when it counts. `at` says where the call in progress is; `loading` is
`isAddonLoad`. The four effects of a due reset (reset, save, recompute, save) are three steps, with the process able
to end between the saves. `copy` is the autosave thread's, taken before a reset and written after it. The variables
`lastCheck`, `lastUnload`, `overtaken` and the fields `armedAt`, `resetAt` are history. Left out: edits of the number
of minutes, and files cut short (`SessionStore` has those).

### Worker

`Gw2Api` and `IconCache` have the same `Start()` and `Stop()`. Their loops differ in two ways, told by `kind`, which
the initial state chooses: `Gw2Api` first fetches the currencies without looking at `_stop`, and it returns from
inside the wait when stopped, where `IconCache` breaks and marks itself finished. `pc` has one thread per worker
started; `worker` is the handle and `flag` the cancel flag's pointer, as the thread whose request it belongs to. Every
time-out (the worker's two seconds, `Stop()`'s two seconds, the HTTP ones) is a step that may come at any moment.
`outlived` is history: the threads that were alive at the latest `Start()`. What is fetched is left out.

The pointer is set and cleared by plain statements around a request. `Abandon` is an exception out of it, which the
loop catches: the line that clears the pointer is skipped, so that `flag` may be of a thread with no request, and
`dropped` is the history of that. What a store through such a pointer does is open: it may cancel another request that
lies at the freed place, or none (`Hit`). What else it may do to the memory of the process is not followed, and
no worker dies of an exception, since each loop has its `catch`.

`WorkerPool` keeps of all this whether the addon is loaded, `_stop`, and who will look at the queue again (`serving`):
a thread leaves only when it sees `_stop`, and a `Load()` after an `Unload()` adds one. In `Worker` (`RefinesPool`) the
addon counts as loaded from `Load()`'s call of `Start()` to the moment `Stop()` raises the flag, and a thread serves
until it is past its last look at the flag. In `IconFiles` and `PriceCache` a thread serves while it is alive.

### IconFiles

`pending`, `inFlight`, `cooling` and `confirmed` are the sets of `IconCache`, `cooling` being the URLs whose
`_nextRetryAt` is still to come. `file` is missing, short or whole. `LookForIcon` and `QueueDownload` are the two halves
of a frame's request, before and under `_pendingMutex`; `asking` is the URL in between. A worker goes from `idle`
through `Take`, `LookForFile`, `Respond`, `Open` and `Write` to `Finish`. `Stop()` is one step after which a worker may
still be alive, as `Worker` has it, so two workers share the queue and the files. `cut` is history: the files that a
crash or a full disk left short. Each URL is taken to have a file name of its own (the name is a 64-bit hash), and
the file system to tell truly whether a file exists. Left out: textures, and everything about `SetCacheDir`.

`IconAttempts` has for each icon an attempt and a file, and no threads. An attempt is asked for, begun and ended, one
at a time; it opens only a file that does not exist, and what becomes of that file then is for good; there is a pause
exactly when an attempt ends without a file. `IconFiles` maps the queue, the in-flight set and the cooldowns to the
attempt and, to tell a file that is being written from one cut short, the threads to the file (`RefinesAttempts`).

### PriceCache

| In the model | In the code |
|---|---|
| `cache`, `at` | `_itemCache`: name and price known or not; the age of `lastFetchedAt` |
| `pending`, `failures`, `stop` | `_pendingItemIds`, `_consecutiveFailures`, `_stop` |
| `pc[t]`, `batch[t]`, `copy[t]` | where a worker is, its ids, and its vector `fetched` |
| `longUp` | `steady_clock` is five minutes from its epoch: restored items, dated with the epoch, are old |
| `file`, `snapshot` | what `item_cache.json` would restore; what is being written to it |
| `Frame` | `EnsureItemsRequested()` |
| `Take`, `Copy`, `ItemsAnswer`, `PricesAnswer`, `Store`, `Abandon` | `WorkerLoop()` and `FetchItemBatch()`, an exception being `Abandon` |
| `BeginSave`, `EndSave`, `SaveFails`; `Load` | `SaveItemCache()`; `LoadItemCache()` and `Start()` |

Ages are the four that the code tells apart: absent, the clock's epoch, older than the interval, and fresh. A request
has each of the outcomes the code tells apart: a failure of the network, an answer without items, or one with them.
The API is taken to return a name with every item it returns. `priceAnswer`, `overtaken` and `spoiled` are history.
`overtaken[t]` has the items of thread `t`'s batch that something else, another worker's batch or a `Load()`, has
entered in the cache since `t` took them: to store these is to go back to what was known before. `spoiled` has the
items this has happened to since the last `Load()`. The properties exempt these items, and nothing else about a worker
that outlived its `Stop()`. Left out: the names of currencies (the request for them is not, as it counts as a failure
too).

### DropFeed and Lifecycle

`DropFeed` has the token, the status and the socket: `StoreToken`, `StopLink`, `SayDisconnected` and `StartLink` are
the statements of `SetToken()` and `Stop()`; `Open`, `Error` and `Close` are the socket's events, which come on a thread
of its own. `sent` is the token sent over the open link. The socket's own reconnecting is external.

`Lifecycle` gives each thread of the game a stack of calls. A step is a statement of the call at the top; `Loading`
and `Unloading` list the statements of `Load()` and `Unload()`, in which Nexus is called and may call back on the same
thread: that is what the recursive `g_lifecycleMutex` and `g_lifecycleDepth` are for. Every statement may throw, which
ends `Load()`, or the block of `Unload()` it is in. A frame takes the mutex by `try_lock`, looks at `g_loaded`, and may
save a new token from the options panel. `running` are the three background threads, `registered` the callbacks that
Nexus has. Nexus is taken to call back from inside `Load()` and `Unload()` only, not from inside a frame.
`lastCall` and `unloadThrew` are history.

`CallOrder` has no stacks: who is inside, which call is under way, and whether a frame is drawn. `Lifecycle` maps its
stacks to it (`RefinesOrder`); a refused call, a `try_lock` that fails and a statement within a call are no steps of it,
and a call that throws ends like one that does not.

### ItemView and TrackerWindow

`ItemView` has the code without state: what an item is worth (`Profit`), the filters of items and currencies, the
order of two rows, and the split into coins. A filter is a check box; which are checked is in `settings.checked`.

`TrackerWindow` runs them. `phase` is where the holder of `g_lifecycleMutex` is: a frame begins (`BeginFrame`: drops,
the automatic reset, the clock), refreshes the view if it is stale (`Refresh`, with `view` for `g_itemView` and `dirty`
for `s_itemViewDirty`), then takes one click (`WindowClick`, `OptionsClick`). Each click changes `settings` and saves
them: the truncating open is one step and the write another (`saving`), between which the process may end. `file` may be
missing or cut short, which gives `Defaults`. `elapsed` says that a frame found 250 ms gone since the last rebuild.
`intact` is history. A document that parses is taken to be one the program wrote. What is known of an item is
settled here (`Info`), for `PriceCache` has how it comes to be known. `MCTrackerWindow` gives one item
that sells both ways and is gained, one that sells nowhere and is used up, and two sort orders.

## Runs

| Run | Bounds | States | Shows |
|---|---|---|---|
| `session` | 2 drops | 123,764 | no drop counted twice or lost, a torn save is harmless one way, `Unload()` exact, resets on disk, only a write cut short loses what was on disk; drops are counted, `Unload()` ends, the autosave catches up; all of it implements `Ledger` |
| `crash_loses` (violated) | 2 drops | | a crash inside a save loses the session on disk |
| `session_clock` | 2 ticks a second, 6 ticks, 2 loads | 397,667 | the clock tells the time played but for a fraction of a second per load, and is saved with its own totals |
| `reset_schedule` | a fortnight | 673 | daily and weekly resets are the first boundary after now |
| `auto_reset` | times 7 to 12 | 500,120 | no boundary missed, resets stick and come only when due, and a due reset happens |
| `worker` | 3 threads, either kind | 181,641 | only an exception makes the cancel flag's pointer dangle, lone requests cancellable, joins return, the queue is served, workers end; implements `WorkerPool` |
| `icons` | 3 URLs, 2 threads | 200,024 | one download per URL, a file is short when it was cut and only then, a missing icon keeps the worker busy; implements `IconAttempts` |
| `icon_taken_short` (violated) | 1 URL, 2 threads | | a short file is taken for a cached icon |
| `worker_detached_ended` (violated) | 2 threads | | `Gw2Api::Stop()` waits for a worker that has returned |
| `prices` | 1 item, 2 threads, trouble after 2 failures (3 in the code) | 639,952 | no failure costs a name or price and no save forgets one, but for what a batch taken earlier was stored over; an item is asked for again but at most once too often, an outage is shown |
| `lifecycle` | 3 tokens, one bad; 2 threads, calls nested 2 deep | 10,820 | what runs is what the last call says, a frame sees a whole addon, status and connection are those of the token, a refusal is shown; implements `CallOrder` |
| `window` | 2 items, 1 currency, one filter, 2 orders | 950,766 | favorite and ignored exclude one another, what is drawn follows the settings and resets at once and drops soon, settings survive all but a save cut short |

The type invariants of all modules are theorems and so are not run.

**Why the bounds are enough.** Two drops let one be on disk or applied and one drained or queued at once; drops do not
otherwise interact, and the safety properties are proved for every number of them. Only the number of drops is
bounded, not saves, reloads, resets or crashes. Six ticks and two loads let a session be played, saved, restored with
half a second lost, twice. The times of `AutoReset` include a weekly boundary with a daily one on each side, and enough
room to be away over each. Three threads are a worker and two that outlived their `Stop()`; the number of reloads is
unbounded. Three icons let each of two workers be at one with another queued or cooling down. Items meet in
`PriceCache` only by sharing a batch, whose entries are treated alike, so one item at two workers has the races; two
failures are the fewest that tell a count from a flag. Three tokens are the one before, another and one that is
refused; a callback nested in a call nested in another is refused like one nested in that other. Two items of one
window are the fewest that have an order. Where a property is proved too, it holds beyond every one of these bounds.
`reset_schedule` stops its clock after two weeks, by which every weekday has come twice, so it does not check for
deadlock.

**Fairness.** `SessionStore`: frames are rendered as long as the addon is loaded (Nexus calls `AddonRender` every
frame), a call that has begun runs on, the autosave timer (30 s) expires, and a save that has begun goes on. Nothing
is assumed of drf.rs, of the user, of failing writes or of crashes. `AutoReset`: frames check (30 s), and a check that
has begun ends. `Worker`: threads are scheduled, the queue's wait times out (2 s), and every HTTP request ends, by
an exception or its connect and transfer time-outs of 10 and 15 seconds. `IconFiles`: the same, a cooldown ends, and every frame looks for every visible icon (strong
fairness per URL, since a frame goes over all of its rows). `MissingKeepsWorkerBusy` does not say that a given URL is
served: the queue is an unordered set, and the code gives none of its members a turn. `PriceCache`: as `Worker`; frames
ask for all items of the session, and time passes, so that what is known grows old. `Lifecycle`: a call that has begun
runs on; a connection that can be made again and again is made some time, and a bad token refused some time (strong
fairness of the socket's two events, which is what its endless reconnecting gives). `TrackerWindow`: frames are drawn, a
write and a `Load()` end, and of the frames again and again one comes 250 ms after the last rebuild (strong fairness,
since a click before it may rebuild and start the 250 ms anew). No fairness is assumed of a call of `Load()` or
`Unload()`, and none at all in `SessionClock`.

## Where code and comments disagree

1. `crash_loses`: `SaveSessionState()` truncates `session.json` and writes it in place (`main.cpp:231`); a crash in
   between loses what the file was made to keep (`main.cpp:170`).
2. `icon_taken_short`: the icon is written under its final name and the write's success is not looked at
   (`IconCache.cpp:218`-`223`), so `IsCached()` is true of a short file, and for good if it stays short.
3. `worker_detached_ended`: `Gw2Api::WorkerLoop()` returns past `_workerFinished = true` (`Gw2Api.cpp:172`), so
   `Stop()` takes an idle worker that has gone for one that is "genuinely stuck".

The models also allow these, which no run is about:

* `_activeCancelFlag` is cleared by a plain statement (`Gw2Api.cpp:205`, `:287`, `IconCache.cpp:206`). An exception
  between setting it and that statement (out of `http.get()`, the second URL's concatenation, or a parse that fails
  otherwise than by a `json::exception`) skips it, and the loop's `catch` goes on (`Gw2Api.cpp:161`, `:183`,
  `IconCache.cpp:166`). Until the next request, or for good, the pointer is not to the request "the worker is currently
  blocked on" (`Gw2Api.h:123`) but to freed arguments, and a `Stop()` writes through it (`Gw2Api.cpp:74`-`:76`). This is
  `Abandon` in `Worker`, and `StopReachesRequest` shows that nothing else makes the pointer dangle. A guard object that
  clears the pointer would mend it.
* An id is no longer pending and not yet in the cache while its request is under way, so that frames queue it again
  (`Gw2Api.cpp:122`) although the comment at `Gw2Api.cpp:325` wants no request sooner than the interval. `RefetchedOnce`
  shows that one worker then fetches it once too often, not more.
* `LoadSessionState()` returns early when `session.json` is missing or malformed (`main.cpp:204`, `:214`). "Start
  fresh" is true of a new process; after a reload in the same one, session and clock of the earlier `Load()` stay.
* `_workerFinished` is shared by a worker and one that outlived its `Stop()`, so the "bounded wait" (`IconCache.h:31`)
  can end in a join of a worker in a request; and `Start()` lowers the flag such a worker has still to see, although
  "`Stop()` permanently ends that thread" (`Gw2Api.h:62`). Both need a worker still busy when `Stop()`'s two seconds
  are over.
* A countdown is also armed by choosing the schedule and by a reset, not by `Unload()` alone (`main.cpp:423`); after a
  crash that older target counts.
* The comment at `main.cpp:132` lists a new drop among what marks the view stale; `main.cpp:1873` leaves drops to the
  250 ms, and says so.

## What is proved

All theorems hold for every value of the constants under the named assumptions in the modules: a natural number of
drops; a day of positive length with the reset inside it; at least one thread that calls the addon; finitely many
items, with typed information and counts; special values (`None`, `Nothing`, `NoDocument`, `NoToken`, `Missing`,
`Cut`) that are none of the ordinary ones. In each module an inductive invariant implies the properties; below is what
it adds to them and why that is needed.

* `SessionProofs`: type correctness, `NoDoubleCount`, `CleanUnloadExact`, `TornSaveIsOfADroppedDrop`,
  `ResetReachesDisk`, `NoDropLost`, `RefinesLedger`, `LostOnlyInTheWrite`. `IInv` adds: idle savers hold nothing and a
  save's pc agrees with where its thread is (`Agree`, `MainSave`); there is no autosave thread between the join and the
  next `StartThreads` (`Threads`), without which an autosave could follow the final save; the file is what main last
  wrote while unloaded (`AfterUnload`); and the queue holds distinct drops that no map counts (`Queue`), without which
  applying one would count it twice. Each part has a lemma for its step, split by action. `NoDropLost` is an action
  property: one lemma for waiting drops, one for counted ones. The refinement has a lemma for each action of
  `SessionStore`: it is an action of `Ledger` or changes nothing of it. `LostOnlyInTheWrite` is by `DInv`, which adds
  to `IInv` how the copies of a save belong together (`Sidelines`) and where the last complete save still is
  (`Persistence`). Two more results are stated there. `CountedInOrder`, by the refinement: drops count in the order of
  their arrival, and nothing counted, saved or on disk is ahead of the queue (`InOrder` of `Ledger`, inductive with the
  drops as numbers, `OrderInv`). `CallsWindDown` and `UnloadsWindDown`: every frame, `Load()` and `Unload()` that has
  begun only gets nearer to its end (`CallLeft`, `UnloadLeft`), and the thread that an `Unload()` joins has gone, sees
  the flag next or is in a save (`WaitsForSomebody`, by `FlagIsUp`).
* `SessionClockProofs`: type correctness, `ClockIsTimeLoaded`, `ClockOfItsTotals`. The invariant is the account of ticks
  in the tracker (`Carried`) and in what a save has read or written (`Kept`), where the threads are (`Threads`), and
  that only an autosave can carry another session's totals (`Sound`).
* `ResetProofs`: the next daily and weekly resets are the first boundaries after now, for every day length, time of
  day and moment (`TargetsAreFirst` over the clock of `MCResetSchedule`, as `TargetsAlwaysFirst`); lemmas place a
  moment in its day, and a Monday in the seven days from today. From it follows that a target computed again before it
  has come is the same, and later ones are no earlier (`TargetsStand`). Of `AutoReset`: type
  correctness, `NoBoundaryMissed`, `ResetSticks`, `ResetsAreDue`. Its invariant adds that the settings in memory
  are those on disk, that the target is the first boundary after it was armed
  (`OnSchedule`, which the schedule's theorems give), that what is recorded is not in the future and a target was
  armed no earlier than the last recorded reset (`InThePast`), so that what is due lies after that reset, that a
  countdown ends after the last `Unload()` by its minutes (`CountsDown`), and what a reset in progress holds
  (`ResetInHand`).
* `WorkerProofs`: type correctness, `StopReachesRequest`, `JoinsAnEndedWorker`, `RefinesPool`, and with it that a
  loaded addon is served (`LoadedIsServed`). `StopReachesRequest` is what holds of the cancel flag: workers that overlap clear
  and replace one another's pointer, but it is at a request that is over exactly when an exception has ended that one,
  and a lone worker's request is always reached. `IInv` adds: without a worker of before there is one thread alive at most
  (`Sole`); with a handle, whoever is alive is its thread or of before (`Known`), so that whoever sets
  `_workerFinished` is one of these (`Finished`); and nothing lowers `_workerFinished` while `Stop()` joins
  (`Joining`). Of what an `Unload()` leaves behind: with `_stop` up each step of any worker brings it nearer to its
  end, five steps away at most, and `Stop()` never goes back to its wait (`WorkersWindDown`). And the part of
  `DetachesOnlyTheStuck` that is true: an `IconCache` lets go only of a worker that is still running
  (`IconsDetachOnlyTheStuck`, by `SaidSo`: its worker ends only past the line that sets `_workerFinished`).
* `IconFilesProofs`: type correctness, `OneDownloadPerUrl`, `ShortWhenCut`, `WholeStaysWhole`, `NoRetryWhileCooling`
  (a URL that has just failed is not asked for), `RefinesAttempts`, `RefinesPool`. `IInv` adds what a worker knows of
  the file it is at: it is missing from the look until the opening (`Clear`), short until the write is done
  (`Truncated`), and what is written is an icon (`Fetched`); these stay true because one worker at most is at a URL.
  A file that was cut is never opened again (`NotRewritten`), and `NotQueued` keeps what cools down out of the queue.
  For the refinement, `AInv` adds that what is in flight has a thread that is at it and does not cool down (`HasThread`),
  and that a thread which is done has left a file if it succeeded and only then (`Outcome`). With it nothing is in
  flight but what a thread downloads at the moment (`InFlightIsDownloaded`). And the part of `ConfirmedIsWhole` that is
  true: a confirmed icon is whole unless it is being written or was cut (`ConfirmedFailsTwoWays`).
* `PriceCacheProofs`: type correctness, `KnownIsKept`, `SaveKeepsNames`, `RefetchedOnce`, `RefinesPool`. The invariant
  says that what a worker has copied of an item that was not overtaken is no less than what is known (`CopyInv`), and
  that names on disk, or on their way there, are known while the addon is loaded, but for spoiled items (`FileInv`).
  Both hold for workers that overlap, because a batch that is stored overtakes every other batch it shares an item with.
  A request is for some ids and no more than the API's limit (`BatchesAreWithinLimit`, for finitely many items).
* `LifecycleProofs`: type correctness, `RunsAsLastCalled`, `FrameSeesWholeAddon`, `FeedIsAsTold`, `RefinesOrder`, and
  of `CallOrder` that one thread is inside and that frames are undisturbed. At any moment one thread is inside, and its
  stack is a step of `Load()` or `Unload()`, on it perhaps a frame, on it perhaps a step of `SetToken()` (`Inside`). For
  each step of the outer call `Progress` tells what runs and `TakenDown` what no longer does; `Feed` relates token,
  status and socket at each of the statements. The refinement needs of these only `Inside`, and so does `DepthIsGivenBack`:
  `g_lifecycleDepth` is that of the call under way, so that none is refused for one that has thrown or returned.
* `TrackerWindowProofs`: type correctness, `FavoriteXorIgnored`, `ListsFollowSettings`, `SettingsSurvive`. The file is
  that of the settings unless a save is on or was cut (`SettingsInv`); a clean view is that of the settings and of no
  more items than there are totals (`ViewInv`). And of `ItemView`: a unit's value is not negative, not
  above the best way to sell it and zero if there is none (`UnitValueIsSound`), and by less than a copper below the best
  after the fee, so that of what sells only a listing at one copper is worth nothing (`UnitValueIsBest`); filters hide
  independently of one another (`FiltersAreIndependent`); `Before` is a strict weak order, as `std::sort` demands; and the coins
  of an amount add up to it.

A refinement is proved by a lemma for each action of the detailed module: under the mapping it is an action of the
abstract one or a stutter. `RefinesPool` of `IconFiles` and of `PriceCache` is proved and in no run.

Only model-checked: all liveness (the prover has no fairness reasoning): `DropsAreCounted`, `UnloadEnds`,
`AutosaveCatchesUp`, `DueResetHappens`, `QueueIsServed`, `WorkersEnd`, `MissingKeepsWorkerBusy`, `FetchedAgain`,
`OutageIsShown`, `RefusalIsShown` and `DropsComeIntoView`. What some of them need besides fair scheduling is proved:
for `UnloadEnds` and `DropsAreCounted` that calls wind down and what an `Unload()` waits for can go, for `QueueIsServed`
that a loaded addon has a worker, for `WorkersEnd` that workers wind down, for `MissingKeepsWorkerBusy` that no URL is
left in flight. That the counted steps are taken is fairness, and with it the liveness itself stays with TLC.

Every safety property that a passing run checks is proved. Of each claim that a run refutes, the part that holds is a
theorem: `OnlyTheWriteLoses` of `CrashKeepsProgress`, `IconsDetachOnlyTheStuck` and `ConfirmedFailsTwoWays`.

## What could follow

The eleven modules first planned are done, and `SessionClock` with them. What is left of the program's own logic is
small: the search box, the edit of the countdown's minutes, and the message filters of `OnMessageImpl`, each of which
reads strings. A joint instance of `Lifecycle` with `SessionStore`, in place of the one call at a time that the latter
assumes, would be the next composition.

## Not modelled

Drawing (layout and wording, tiles, tooltips, textures), the search box, which hides rows only while it is open, the
options that only the drawing reads (icon-only view, tile scale, QuickAccess icon), the launch of a browser (registry
and process creation), string formats and labels, logging, Dear ImGui, the Nexus headers and the build. Which messages
of drf.rs are drops is an input. The json library, `std::thread`, the HTTP client, the websocket and Nexus are modelled
by what the code relies on.
