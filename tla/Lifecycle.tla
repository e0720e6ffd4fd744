------------------------------ MODULE Lifecycle ------------------------------
(***************************************************************************)
(* Load(), Unload() and the callbacks (main.cpp) over the drop feed and    *)
(* the background threads.  Nexus calls them on more than one thread; a    *)
(* call that Load() or Unload() makes into Nexus may call back on the same *)
(* thread, which the recursive g_lifecycleMutex lets in.  A thread's calls *)
(* are a stack, and a step is one statement of the call at its top.        *)
(***************************************************************************)
EXTENDS DropFeed, Naturals, Sequences, FiniteSets

CONSTANTS
  Thread,   \* the threads of the game that call the addon
  MaxCalls  \* bound: calls nested on one thread

ASSUME ThreadAssumption == Thread # {}
ASSUME MaxCallsAssumption == MaxCalls \in Nat \ {0}

VARIABLES
  stack,        \* the calls each thread is in, the outermost first
  depth,        \* g_lifecycleDepth
  loaded,       \* g_loaded
  drfToken,     \* g_settings.drfToken
  running,      \* the background threads that run
  registered,   \* Nexus has the callbacks
  lastCall,     \* history: the last Load() or Unload() that did something, once it is over
  unloadThrew   \* history: some Unload() has thrown

vars == <<feedVars, stack, depth, loaded, drfToken, running, registered, lastCall, unloadThrew>>
addon == <<drfToken, running, registered, unloadThrew>>

Background == {"prices", "icons", "autosave"}

\* The statements of Load() and Unload(), in the order of the code; "stopFeed"
\* and "sayStopped" are the two of DrfClient::Stop().
Loading ==
  <<"readFiles", "setToken", "startPrices", "startIcons", "startAutosave", "register", "loaded">>
Unloading ==
  <<"deregister", "stopAutosave", "finalSave", "stopFeed", "sayStopped", "stopPrices",
    "stopIcons", "unloaded">>

\* The statements of SetToken().
SettingToken == <<"stopLink", "startLink">>

\* A frame, and the rest of one in which the token was saved.
InFrame == {"frame", "rest"}

StepsOf(fn) == {fn[n] : n \in DOMAIN fn}
LifecycleSteps == StepsOf(Loading) \cup StepsOf(Unloading)
Steps == LifecycleSteps \cup StepsOf(SettingToken) \cup InFrame

TypeOK ==
  /\ FeedTypeOK
  /\ stack \in [Thread -> Seq(Steps)]
  /\ depth \in 0..1
  /\ loaded \in BOOLEAN
  /\ drfToken \in Token \cup {NoToken}
  /\ running \subseteq Background
  /\ registered \in BOOLEAN
  /\ lastCall \in {"none", "load", "loadThrew", "unload"}
  /\ unloadThrew \in BOOLEAN

\* The constructors have started the workers.
Init ==
  /\ FeedInit
  /\ stack = [t \in Thread |-> <<>>]
  /\ depth = 0
  /\ loaded = FALSE
  /\ drfToken = NoToken
  /\ running = {"prices", "icons"}
  /\ registered = FALSE
  /\ lastCall = "none"
  /\ unloadThrew = FALSE

-----------------------------------------------------------------------------
(* Calls and returns. *)

\* What a thread is at.
Top(t) == IF stack[t] = <<>> THEN "outside" ELSE stack[t][Len(stack[t])]
At(t, step) == Top(t) = step

\* The rest of the stack under the top.
Callers(t) == SubSeq(stack[t], 1, Len(stack[t]) - 1)

Push(t, step) == stack' = [stack EXCEPT ![t] = Append(@, step)]
Goto(t, step) == stack' = [stack EXCEPT ![t] = Append(Callers(t), step)]
Return(t) == stack' = [stack EXCEPT ![t] = Callers(t)]

\* The statement after this one in a function.
After(fn, step) == fn[1 + CHOOSE n \in DOMAIN fn : fn[n] = step]

\* g_lifecycleMutex can be had: recursively, too.
MayLock(t) == \A u \in Thread \ {t} : stack[u] = <<>>

\* Nexus calls from outside, or from inside a statement of Load() or Unload()
\* on the same thread.  It does not from inside a frame.
MayCall(t) ==
  /\ MayLock(t)
  /\ Len(stack[t]) < MaxCalls
  /\ Top(t) \in LifecycleSteps \cup {"outside"}

\* Slip: a nested call is let through.
RefusedIfRepeated(isLoad) == loaded = isLoad

\* A nested call is ignored, and so is a Load() after a Load() or an Unload()
\* after an Unload().
Refused(isLoad) == depth > 0 \/ loaded = isLoad

Load(t) ==
  /\ MayCall(t)
  /\ ~Refused(TRUE)
  /\ loaded' = TRUE
  /\ depth' = depth + 1
  /\ lastCall' = "none"
  /\ Push(t, "readFiles")
  /\ UNCHANGED <<feedVars, addon>>

Unload(t) ==
  /\ MayCall(t)
  /\ ~Refused(FALSE)
  /\ loaded' = FALSE
  /\ depth' = depth + 1
  /\ lastCall' = "none"
  /\ Push(t, "deregister")
  /\ UNCHANGED <<feedVars, addon>>

\* The DepthGuard and the lock are released, however the call ended.
Leave(t, last) ==
  /\ Return(t)
  /\ depth' = depth - 1
  /\ lastCall' = last
  /\ UNCHANGED <<feedVars, loaded, drfToken, running, registered>>

-----------------------------------------------------------------------------
(* Load(). *)

\* g_settings is what settings.json holds, or the defaults.
ReadFiles(t) ==
  /\ At(t, "readFiles")
  /\ drfToken' \in {drfToken, NoToken}
  /\ Goto(t, After(Loading, "readFiles"))
  /\ UNCHANGED <<feedVars, depth, loaded, running, registered, lastCall, unloadThrew>>

\* SetToken() when there is a token: it is stored, and the call goes on.
LoadSetsToken(t) ==
  /\ At(t, "setToken")
  /\ IF drfToken = NoToken
       THEN Goto(t, After(Loading, "setToken")) /\ UNCHANGED feedVars
       ELSE /\ stack' = [stack EXCEPT ![t] = Callers(t) \o <<After(Loading, "setToken"), "stopLink">>]
            /\ StoreToken(drfToken)
  /\ UNCHANGED <<addon, depth, loaded, lastCall>>

\* Start(), which does nothing for a thread that runs.
Start(t, step, thread) ==
  /\ At(t, step)
  /\ running' = running \cup {thread}
  /\ Goto(t, After(Loading, step))
  /\ UNCHANGED <<feedVars, depth, loaded, drfToken, registered, lastCall, unloadThrew>>

Register(t) ==
  /\ At(t, "register")
  /\ registered' = TRUE
  /\ Goto(t, After(Loading, "register"))
  /\ UNCHANGED <<feedVars, depth, loaded, drfToken, running, lastCall, unloadThrew>>

LoadReturns(t) ==
  /\ At(t, "loaded")
  /\ Leave(t, "load")
  /\ UNCHANGED unloadThrew

\* An exception anywhere in Load() ends it, and g_loaded stays.
LoadThrows(t) ==
  /\ Top(t) \in StepsOf(Loading) \ {"loaded"}
  /\ Leave(t, "loadThrew")
  /\ UNCHANGED unloadThrew

-----------------------------------------------------------------------------
(* Unload(). *)

Deregister(t) ==
  /\ At(t, "deregister")
  /\ registered' = FALSE
  /\ Goto(t, After(Unloading, "deregister"))
  /\ UNCHANGED <<feedVars, depth, loaded, drfToken, running, lastCall, unloadThrew>>

\* StopAutosaveThread() and the two Stop()s, each of which waits.
StopThread(t, step, thread) ==
  /\ At(t, step)
  /\ running' = running \ {thread}
  /\ Goto(t, After(Unloading, step))
  /\ UNCHANGED <<feedVars, depth, loaded, drfToken, registered, lastCall, unloadThrew>>

\* The saves change nothing here.
FinalSave(t) ==
  /\ At(t, "finalSave")
  /\ Goto(t, After(Unloading, "finalSave"))
  /\ UNCHANGED <<feedVars, addon, depth, loaded, lastCall>>

\* The two statements of DrfClient::Stop().
StopFeed(t) ==
  /\ At(t, "stopFeed")
  /\ StopLink
  /\ Goto(t, After(Unloading, "stopFeed"))
  /\ UNCHANGED <<addon, depth, loaded, lastCall>>

SayStopped(t) ==
  /\ At(t, "sayStopped")
  /\ SayDisconnected
  /\ Goto(t, After(Unloading, "sayStopped"))
  /\ UNCHANGED <<addon, depth, loaded, lastCall>>

UnloadReturns(t) ==
  /\ At(t, "unloaded")
  /\ Leave(t, "unload")
  /\ UNCHANGED unloadThrew

\* An exception in the first block goes on with the second.
SaveBlockThrows(t) ==
  /\ Top(t) \in {"deregister", "stopAutosave", "finalSave"}
  /\ unloadThrew' = TRUE
  /\ Goto(t, "stopFeed")
  /\ UNCHANGED <<feedVars, depth, loaded, drfToken, running, registered, lastCall>>

\* An exception in the second block ends the call.
StopBlockThrows(t) ==
  /\ Top(t) \in {"stopFeed", "sayStopped", "stopPrices", "stopIcons"}
  /\ unloadThrew' = TRUE
  /\ Leave(t, "unload")

-----------------------------------------------------------------------------
(* The callbacks, which skip a frame rather than wait. *)

\* Slip: the lock is enough.
MayRenderOnceLocked(t) == MayLock(t)

\* try_to_lock and g_loaded.
MayRender(t) == MayLock(t) /\ loaded

\* AddonRender() and AddonOptions().
Render(t) ==
  /\ registered
  /\ MayCall(t)
  /\ MayRender(t)
  /\ Push(t, "frame")
  /\ UNCHANGED <<feedVars, addon, depth, loaded, lastCall>>

\* Slip: the settings are saved, the connection stays.
SaveAlone(t) ==
  /\ At(t, "frame")
  /\ drfToken' \in Token \cup {NoToken}
  /\ Goto(t, "rest")
  /\ UNCHANGED <<feedVars, depth, loaded, running, registered, lastCall, unloadThrew>>

\* "Save && Connect" with what is in the text field.
SaveAndConnect(t) ==
  /\ At(t, "frame")
  /\ \E entered \in Token \cup {NoToken} :
       /\ drfToken' = entered
       /\ StoreToken(entered)
  /\ stack' = [stack EXCEPT ![t] = Callers(t) \o <<"rest", "stopLink">>]
  /\ UNCHANGED <<depth, loaded, running, registered, lastCall, unloadThrew>>

RenderReturns(t) ==
  /\ Top(t) \in InFrame
  /\ Return(t)
  /\ UNCHANGED <<feedVars, addon, depth, loaded, lastCall>>

\* The rest of SetToken().
SetTokenStops(t) ==
  /\ At(t, "stopLink")
  /\ StopLink
  /\ Goto(t, "startLink")
  /\ UNCHANGED <<addon, depth, loaded, lastCall>>

SetTokenStarts(t) ==
  /\ At(t, "startLink")
  /\ IF token = NoToken THEN SayDisconnected ELSE StartLink
  /\ Return(t)
  /\ UNCHANGED <<addon, depth, loaded, lastCall>>

-----------------------------------------------------------------------------

\* The next statement of the call at the top.
Proceed(t) ==
  \/ ReadFiles(t)
  \/ LoadSetsToken(t)
  \/ Start(t, "startPrices", "prices")
  \/ Start(t, "startIcons", "icons")
  \/ Start(t, "startAutosave", "autosave")
  \/ Register(t)
  \/ LoadReturns(t)
  \/ Deregister(t)
  \/ StopThread(t, "stopAutosave", "autosave")
  \/ FinalSave(t)
  \/ StopFeed(t)
  \/ SayStopped(t)
  \/ StopThread(t, "stopPrices", "prices")
  \/ StopThread(t, "stopIcons", "icons")
  \/ UnloadReturns(t)
  \/ RenderReturns(t)
  \/ SetTokenStops(t)
  \/ SetTokenStarts(t)

Throw(t) ==
  \/ LoadThrows(t)
  \/ SaveBlockThrows(t)
  \/ StopBlockThrows(t)

Call(t) ==
  \/ Load(t)
  \/ Unload(t)
  \/ Render(t)
  \/ SaveAndConnect(t)

FeedEvent == Event /\ UNCHANGED <<stack, depth, loaded, addon, lastCall>>

Next ==
  \/ \E t \in Thread : Proceed(t) \/ Throw(t) \/ Call(t)
  \/ FeedEvent

\* Threads are scheduled; a connection is made and a bad token refused if that
\* stays possible.
Spec ==
  /\ Init
  /\ [][Next]_vars
  /\ \A t \in Thread : WF_vars(Proceed(t))
  /\ SF_vars(Open /\ UNCHANGED <<stack, depth, loaded, addon, lastCall>>)
  /\ SF_vars(Close(TRUE) /\ UNCHANGED <<stack, depth, loaded, addon, lastCall>>)

-----------------------------------------------------------------------------
(* Safety. *)

\* No thread is in a call.
Quiet == \A t \in Thread : stack[t] = <<>>

\* No thread is inside SetToken() or Stop().
FeedIsSettled ==
  \A t \in Thread : \A n \in DOMAIN stack[t] :
    stack[t][n] \notin {"stopLink", "startLink", "stopFeed", "sayStopped"}

\* After an Unload() in which nothing threw nothing runs and Nexus has nothing
\* to call; after a Load() in which nothing threw everything runs; whatever
\* threw before, and whatever calls came in between (Load, Unload).
RunsAsLastCalled ==
  /\ lastCall = "unload" /\ ~unloadThrew => running = {} /\ link = "off" /\ ~registered
  /\ lastCall = "load" => running = Background /\ registered /\ loaded

\* A frame sees an addon that is loaded as a whole, also when it comes from
\* inside a Load() or after a Load() that threw: g_loaded is raised first, the
\* callbacks are registered last and g_loaded is lowered before anything is
\* torn down (AddonRender).  After an Unload() that threw Nexus may still have
\* the callbacks when the next Load() begins.
FrameSeesWholeAddon ==
  ~unloadThrew =>
    \A t \in Thread : \A n \in DOMAIN stack[t] :
      stack[t][n] \in InFrame => loaded /\ running = Background

\* What the feed says and does is what it was last told, once SetToken() and
\* Stop() are over: "Disconnected" is shown when no connection is attempted and
\* only then, whatever the socket says while it is stopped, and an open
\* connection is that of the token of the settings, also when it was changed
\* while the old one was being made (SetToken, Stop, Open).
FeedIsAsTold ==
  FeedIsSettled /\ ~unloadThrew =>
    /\ status = "Disconnected" <=> link = "off"
    /\ loaded /\ link = "open" => sent = token /\ token = drfToken

(* Liveness. *)

\* A token that drf.rs refuses is shown as refused again and again, although
\* each new attempt shows it as connected in between (OnMessage).
RefusalIsShown ==
  \A t \in BadToken :
    <>[](token = t /\ link # "off") => []<>(status = "AuthFailed")

-----------------------------------------------------------------------------
(* The order of calls this implements. *)

\* The steps on all stacks.
OnStacks == UNION {StepsOf(stack[t]) : t \in Thread}

Doing ==
  CASE OnStacks \cap StepsOf(Loading) # {}   -> "load"
    [] OnStacks \cap StepsOf(Unloading) # {} -> "unload"
    [] OTHER -> "nothing"

Order == INSTANCE CallOrder WITH
           inside <- {t \in Thread : stack[t] # <<>>},
           doing <- Doing,
           drawing <- OnStacks \cap InFrame # {}

\* Whatever threads Nexus calls on, whatever it calls from inside a call and
\* whatever throws, the calls that go ahead come one at a time and in order:
\* what g_lifecycleMutex, g_lifecycleDepth and g_loaded are there for (Load,
\* Unload, AddonRender, AddonOptions).
RefinesOrder == Order!Spec

=============================================================================
