--------------------------- MODULE LifecycleProofs ---------------------------
(***************************************************************************)
(* For every number of threads, nested calls and tokens: the type          *)
(* invariant and the four invariants of Lifecycle.                         *)
(*                                                                         *)
(* g_lifecycleMutex leaves one thread at most inside the addon, and        *)
(* g_lifecycleDepth one Load() or Unload() at most in its stack, at the    *)
(* bottom.  So a stack is at most a step of Load() or Unload(), a frame    *)
(* above it and a step of SetToken() above that.                           *)
(***************************************************************************)
EXTENDS Lifecycle, SequenceTheorems, TLAPS

Pushed(s, step) == IF step = "none" THEN s ELSE Append(s, step)

\* The stack of a thread at step l of Load() or Unload(), f of a frame and k of
\* SetToken(), each of which may be "none".
StackOf(l, f, k) == Pushed(Pushed(Pushed(<<>>, l), f), k)

Shape(l, f, k) ==
  /\ l \in LifecycleSteps \cup {"none"}
  /\ f \in InFrame \cup {"none"}
  /\ k \in StepsOf(SettingToken) \cup {"none"}
  /\ k # "none" => f = "rest" \/ (f = "none" /\ l = "startPrices")

\* Thread t has this stack and the others none.
Only(t, s) == [u \in Thread |-> IF u = t THEN s ELSE <<>>]

-----------------------------------------------------------------------------
(* Steps and stacks. *)

LEMMA StepsAre ==
  /\ StepsOf(Loading) = {"readFiles", "setToken", "startPrices", "startIcons", "startAutosave",
                         "register", "loaded"}
  /\ StepsOf(Unloading) = {"deregister", "stopAutosave", "finalSave", "stopFeed", "sayStopped",
                           "stopPrices", "stopIcons", "unloaded"}
  /\ StepsOf(SettingToken) = {"stopLink", "startLink"}
<1>1. StepsOf(Loading) = {"readFiles", "setToken", "startPrices", "startIcons", "startAutosave",
                         "register", "loaded"}
  BY DEF StepsOf, Loading
<1>2. StepsOf(Unloading) = {"deregister", "stopAutosave", "finalSave", "stopFeed", "sayStopped",
                           "stopPrices", "stopIcons", "unloaded"}
  BY DEF StepsOf, Unloading
<1>3. StepsOf(SettingToken) = {"stopLink", "startLink"}
  BY DEF StepsOf, SettingToken
<1>. QED  BY <1>1, <1>2, <1>3

LEMMA OrderOfLoading ==
  /\ After(Loading, "readFiles") = "setToken"
  /\ After(Loading, "setToken") = "startPrices"
  /\ After(Loading, "startPrices") = "startIcons"
  /\ After(Loading, "startIcons") = "startAutosave"
  /\ After(Loading, "startAutosave") = "register"
  /\ After(Loading, "register") = "loaded"
BY DEF After, Loading

LEMMA OrderOfUnloading ==
  /\ After(Unloading, "deregister") = "stopAutosave"
  /\ After(Unloading, "stopAutosave") = "finalSave"
  /\ After(Unloading, "finalSave") = "stopFeed"
  /\ After(Unloading, "stopFeed") = "sayStopped"
  /\ After(Unloading, "sayStopped") = "stopPrices"
  /\ After(Unloading, "stopPrices") = "stopIcons"
  /\ After(Unloading, "stopIcons") = "unloaded"
BY DEF After, Unloading

\* What is pushed is on top, and what was there is under it.
LEMMA PushPop ==
  ASSUME NEW s \in Seq(Steps), NEW x \in Steps
  PROVE  /\ Append(s, x) \in Seq(Steps)
         /\ Append(s, x) # <<>>
         /\ Append(s, x)[Len(Append(s, x))] = x
         /\ SubSeq(Append(s, x), 1, Len(Append(s, x)) - 1) = s
<1> DEFINE p == Append(s, x)
<1>1. /\ p \in Seq(Steps) /\ p # <<>> /\ Len(p) = Len(s) + 1 /\ p[Len(s) + 1] = x
      /\ \A i \in 1 .. Len(s) : p[i] = s[i]
  BY AppendProperties
<1>2. Len(s) \in Nat /\ \A i \in 1 .. Len(s) : s[i] \in Steps
  BY LenProperties, ElementOfSeq
<1> HIDE DEF p
<1>3. /\ SubSeq(p, 1, Len(s)) \in Seq(Steps)
      /\ Len(SubSeq(p, 1, Len(s))) = Len(s)
      /\ \A i \in 1 .. Len(s) : SubSeq(p, 1, Len(s))[i] = p[i]
  <2>1. \A i \in 1 .. Len(s) : p[i] \in Steps
    BY <1>1, <1>2
  <2>2. /\ SubSeq(p, 1, Len(s)) \in Seq(Steps)
        /\ Len(SubSeq(p, 1, Len(s))) = IF 1 <= Len(s) THEN Len(s) - 1 + 1 ELSE 0
        /\ \A i \in 1 .. Len(s) - 1 + 1 : SubSeq(p, 1, Len(s))[i] = p[1 + i - 1]
    BY <1>2, <2>1, SubSeqProperties
  <2>. QED  BY <1>2, <2>2
<1>4. SubSeq(p, 1, Len(s)) = s
  BY <1>1, <1>3, SeqEqual
<1>5. Len(p) - 1 = Len(s) /\ Len(p) = Len(s) + 1
  BY <1>1, <1>2
<1>. QED  BY <1>1, <1>4, <1>5 DEF p

\* Two at once.
LEMMA PushTwo ==
  ASSUME NEW s \in Seq(Steps), NEW x \in Steps, NEW y \in Steps
  PROVE  s \o <<x, y>> = Append(Append(s, x), y)
<1>1. <<x>> \in Seq(Steps) /\ <<y>> \in Seq(Steps)
  OBVIOUS
<1>2. Append(s, x) \in Seq(Steps)
  BY AppendProperties
<1>3. Append(Append(s, x), y) = (s \o <<x>>) \o <<y>>
  BY <1>2, AppendIsConcat
<1>4. (s \o <<x>>) \o <<y>> = s \o (<<x>> \o <<y>>)
  BY <1>1, ConcatAssociative
<1>5. <<x>> \o <<y>> = <<x, y>>
  <2>1. Append(<<x>>, y) = <<x>> \o <<y>>
    BY <1>1, AppendIsConcat
  <2>2. /\ Append(<<x>>, y) \in Seq(Steps) /\ Len(Append(<<x>>, y)) = 2
        /\ Append(<<x>>, y)[1] = x /\ Append(<<x>>, y)[2] = y
    BY <1>1, AppendProperties
  <2>3. Append(<<x>>, y) = <<x, y>>
    <3> DEFINE p == Append(<<x>>, y)
               q == <<x, y>>
    <3>1. q \in Seq(Steps) /\ Len(q) = 2 /\ q[1] = x /\ q[2] = y
      OBVIOUS
    <3>2. p \in Seq(Steps) /\ Len(p) = 2 /\ p[1] = x /\ p[2] = y
      BY <2>2
    <3> HIDE DEF p, q
    <3>3. Len(p) = Len(q) /\ \A i \in 1 .. Len(p) : p[i] = q[i]
      BY <3>1, <3>2
    <3>4. p = q
      BY <3>1, <3>2, <3>3, SeqEqual
    <3>. QED  BY <3>4 DEF p, q
  <2>. QED  BY <2>1, <2>3
<1>. QED  BY <1>3, <1>4, <1>5

LEMMA StackIsSeq ==
  ASSUME NEW l, NEW f, NEW k, Shape(l, f, k)
  PROVE  /\ StackOf(l, f, k) \in Seq(Steps)
         /\ StackOf(l, f, k) = <<>> => l = "none" /\ f = "none" /\ k = "none"
<1>1. l \in Steps \cup {"none"} /\ f \in Steps \cup {"none"} /\ k \in Steps \cup {"none"}
  BY DEF Shape, Steps
<1>2. <<>> \in Seq(Steps)
  OBVIOUS
<1>3. \A s \in Seq(Steps), x \in Steps \cup {"none"} :
        Pushed(s, x) \in Seq(Steps) /\ (Pushed(s, x) = <<>> => s = <<>> /\ x = "none")
  BY PushPop DEF Pushed
<1>4. Pushed(<<>>, l) \in Seq(Steps) /\ (Pushed(<<>>, l) = <<>> => l = "none")
  BY <1>1, <1>2, <1>3
<1>5. /\ Pushed(Pushed(<<>>, l), f) \in Seq(Steps)
      /\ Pushed(Pushed(<<>>, l), f) = <<>> => l = "none" /\ f = "none"
  BY <1>1, <1>3, <1>4
<1>. QED  BY <1>1, <1>3, <1>5 DEF StackOf

\* The call at the top of a stack, and the stack under it.
LEMMA TopAndCallers ==
  ASSUME NEW t \in Thread, NEW l, NEW f, NEW k, Shape(l, f, k),
         stack = Only(t, StackOf(l, f, k))
  PROVE  /\ k # "none" => Top(t) = k /\ Callers(t) = StackOf(l, f, "none")
         /\ k = "none" /\ f # "none" => Top(t) = f /\ Callers(t) = StackOf(l, "none", "none")
         /\ k = "none" /\ f = "none" /\ l # "none"
              => Top(t) = l /\ Callers(t) = StackOf("none", "none", "none")
         /\ k = "none" /\ f = "none" /\ l = "none" => Top(t) = "outside" /\ stack[t] = <<>>
<1>1. stack[t] = StackOf(l, f, k)
  BY DEF Only
<1>2. ASSUME NEW s \in Seq(Steps), NEW x \in Steps, stack[t] = Append(s, x)
      PROVE  Top(t) = x /\ Callers(t) = s
  BY <1>2, PushPop DEF Top, Callers
<1>3. Shape(l, f, "none") /\ Shape(l, "none", "none") /\ Shape("none", "none", "none")
  BY DEF Shape
<1>4. /\ StackOf(l, f, "none") \in Seq(Steps) /\ StackOf(l, "none", "none") \in Seq(Steps)
      /\ StackOf("none", "none", "none") \in Seq(Steps)
  BY <1>3, StackIsSeq
<1>5. /\ k # "none" => k \in Steps /\ StackOf(l, f, k) = Append(StackOf(l, f, "none"), k)
      /\ f # "none" => f \in Steps /\ StackOf(l, f, "none") = Append(StackOf(l, "none", "none"), f)
      /\ l # "none" => l \in Steps
           /\ StackOf(l, "none", "none") = Append(StackOf("none", "none", "none"), l)
      /\ StackOf("none", "none", "none") = <<>>
  BY DEF StackOf, Pushed, Shape, Steps
<1>. QED  BY <1>1, <1>2, <1>4, <1>5 DEF Top

\* Changing the stack of the one thread that has one.
LEMMA OnlyExcept ==
  ASSUME NEW t \in Thread, NEW s, NEW new, stack = Only(t, s)
  PROVE  [stack EXCEPT ![t] = new] = Only(t, new)
BY DEF Only
-----------------------------------------------------------------------------
(* The invariant. *)

\* What a Load() at l has brought up.
Progress(l) ==
  /\ l \in {"startIcons", "startAutosave", "register", "loaded"} => "prices" \in running
  /\ l \in {"startAutosave", "register", "loaded"} => "icons" \in running
  /\ l \in {"register", "loaded"} => "autosave" \in running
  /\ l = "loaded" => registered

\* What an Unload() at l has taken down, and what stays so until the next Load()
\* has brought it up, as long as no Unload() has thrown.
TakenDown(l) ==
  /\ l \in LifecycleSteps \ {"loaded", "deregister"} => ~registered
  /\ l \in {"finalSave", "stopFeed", "sayStopped", "stopPrices", "stopIcons", "unloaded"}
       => "autosave" \notin running
  /\ l \in {"stopIcons", "unloaded"} => "prices" \notin running
  /\ l = "unloaded" => "icons" \notin running
  /\ l \in {"sayStopped", "stopPrices", "stopIcons", "unloaded", "readFiles", "setToken"}
       => link = "off"
  /\ l = "none" /\ ~loaded => link = "off" /\ ~registered
  /\ lastCall = "unload" => running = {}
  /\ registered => running = Background
  /\ link # "off" => token = drfToken

\* What the guards make of the calls.
Calls(l, f) ==
  /\ depth = IF l = "none" THEN 0 ELSE 1
  /\ l \in StepsOf(Loading) => loaded
  /\ l \in StepsOf(Unloading) => ~loaded
  /\ f # "none" => loaded /\ registered
  /\ l # "none" => lastCall = "none"
  /\ l = "none" => (loaded <=> lastCall \in {"load", "loadThrew"})
  /\ lastCall = "load" => running = Background /\ registered

\* What the socket and the status are.
Feed(l, k) ==
  /\ k # "none" => token = drfToken
  /\ k = "startLink" => link = "off"
  /\ link = "open" /\ k # "stopLink" => sent = token
  /\ ~unloadThrew =>
       IF k = "startLink" \/ l = "sayStopped"
         THEN link = "off"
         ELSE status = "Disconnected" <=> link = "off"

Good(l, f, k) ==
  /\ Shape(l, f, k)
  /\ Calls(l, f)
  /\ Progress(l)
  /\ ~unloadThrew => TakenDown(l)
  /\ Feed(l, k)

\* Thread t is inside the addon, at l, f and k, if any thread is.
Inside(t, l, f, k) == stack = Only(t, StackOf(l, f, k)) /\ Good(l, f, k)

Types ==
  /\ FeedTypeOK
  /\ loaded \in BOOLEAN
  /\ drfToken \in Token \cup {NoToken}
  /\ running \subseteq Background
  /\ registered \in BOOLEAN
  /\ lastCall \in {"none", "load", "loadThrew", "unload"}
  /\ unloadThrew \in BOOLEAN

IInv ==
  /\ Types
  /\ \E t \in Thread, l \in LifecycleSteps \cup {"none"}, f \in InFrame \cup {"none"},
        k \in StepsOf(SettingToken) \cup {"none"} : Inside(t, l, f, k)

-----------------------------------------------------------------------------
(* The moves of the thread inside the addon. *)

\* A thread that is in a call, or may make one, is the one inside.
LEMMA WhoActs ==
  ASSUME IInv, NEW t \in Thread, Top(t) # "outside" \/ MayLock(t)
  PROVE  \E l, f, k : Inside(t, l, f, k)
<1>1. PICK u, l, f, k : u \in Thread /\ Inside(u, l, f, k)
  BY DEF IInv
<1>2. CASE u = t
  BY <1>1, <1>2
<1>3. CASE u # t
  <2>1. stack[t] = <<>> /\ stack[u] = StackOf(l, f, k)
    BY <1>1, <1>3 DEF Inside, Only
  <2>2. MayLock(t)
    BY <2>1 DEF Top
  <2>3. StackOf(l, f, k) = <<>>
    BY <1>1, <1>3, <2>1, <2>2 DEF MayLock
  <2>4. Only(u, <<>>) = Only(t, <<>>)
    BY DEF Only
  <2>5. stack = Only(t, StackOf(l, f, k))
    BY <1>1, <2>3, <2>4 DEF Inside
  <2>. QED  BY <1>1, <2>5 DEF Inside
<1>. QED  BY <1>2, <1>3

\* Where it is.
LEMMA WhereItIs ==
  ASSUME NEW t \in Thread, NEW l, NEW f, NEW k, Inside(t, l, f, k)
  PROVE  /\ Top(t) \in LifecycleSteps => l = Top(t) /\ f = "none" /\ k = "none"
         /\ Top(t) \in InFrame => f = Top(t) /\ k = "none"
         /\ Top(t) \in StepsOf(SettingToken) => k = Top(t)
         /\ Top(t) = "outside" => l = "none" /\ f = "none" /\ k = "none"
<1>1. Shape(l, f, k) /\ stack = Only(t, StackOf(l, f, k))
  BY DEF Inside, Good
<1>. QED  BY <1>1, TopAndCallers, StepsAre DEF Shape, LifecycleSteps, InFrame

\* From a step of Load() or Unload() to another, or out.
LEMMA MoveInCall ==
  ASSUME NEW t \in Thread, NEW l \in LifecycleSteps, Inside(t, l, "none", "none")
  PROVE  /\ \A x \in LifecycleSteps : Goto(t, x) => stack' = Only(t, StackOf(x, "none", "none"))
         /\ Return(t) => stack' = Only(t, StackOf("none", "none", "none"))
         /\ stack' = [stack EXCEPT ![t] = Callers(t) \o <<"startPrices", "stopLink">>]
              => stack' = Only(t, StackOf("startPrices", "none", "stopLink"))
<1>1. stack = Only(t, StackOf(l, "none", "none")) /\ Shape(l, "none", "none") /\ l # "none"
  BY StepsAre DEF Inside, Good, LifecycleSteps
<1>2. Callers(t) = StackOf("none", "none", "none")
  BY <1>1, TopAndCallers
<1>3. \A x \in LifecycleSteps : Append(StackOf("none", "none", "none"), x) = StackOf(x, "none", "none")
  BY StepsAre DEF StackOf, Pushed, LifecycleSteps
<1>4. StackOf("none", "none", "none") \o <<"startPrices", "stopLink">>
        = StackOf("startPrices", "none", "stopLink")
  <2>1. "startPrices" \in Steps /\ "stopLink" \in Steps /\ <<>> \in Seq(Steps)
    BY StepsAre DEF Steps, LifecycleSteps
  <2>2. <<>> \o <<"startPrices", "stopLink">> = Append(Append(<<>>, "startPrices"), "stopLink")
    BY <2>1, PushTwo
  <2>. QED  BY <2>2 DEF StackOf, Pushed
<1>. QED  BY <1>1, <1>2, <1>3, <1>4, OnlyExcept DEF Goto, Return

\* Out of a frame, or into SetToken().
LEMMA MoveInFrame ==
  ASSUME NEW t \in Thread, NEW l, NEW f \in InFrame, Inside(t, l, f, "none")
  PROVE  /\ Return(t) => stack' = Only(t, StackOf(l, "none", "none"))
         /\ stack' = [stack EXCEPT ![t] = Callers(t) \o <<"rest", "stopLink">>]
              => stack' = Only(t, StackOf(l, "rest", "stopLink"))
<1>1. stack = Only(t, StackOf(l, f, "none")) /\ Shape(l, f, "none") /\ f # "none"
  BY DEF Inside, Good, InFrame
<1>2. Callers(t) = StackOf(l, "none", "none")
  BY <1>1, TopAndCallers
<1>3. StackOf(l, "none", "none") \o <<"rest", "stopLink">> = StackOf(l, "rest", "stopLink")
  <2>1. "rest" \in Steps /\ "stopLink" \in Steps
    BY StepsAre DEF Steps, InFrame
  <2>2. Shape(l, "none", "none")
    BY <1>1 DEF Shape
  <2>3. StackOf(l, "none", "none") \in Seq(Steps)
    BY <2>2, StackIsSeq
  <2>4. StackOf(l, "none", "none") \o <<"rest", "stopLink">>
          = Append(Append(StackOf(l, "none", "none"), "rest"), "stopLink")
    BY <2>1, <2>3, PushTwo
  <2>. QED  BY <2>4 DEF StackOf, Pushed
<1>. QED  BY <1>1, <1>2, <1>3, OnlyExcept DEF Return

\* Through SetToken().
LEMMA MoveInSetToken ==
  ASSUME NEW t \in Thread, NEW l, NEW f, NEW k \in StepsOf(SettingToken), Inside(t, l, f, k)
  PROVE  /\ Goto(t, "startLink") => stack' = Only(t, StackOf(l, f, "startLink"))
         /\ Return(t) => stack' = Only(t, StackOf(l, f, "none"))
<1>1. stack = Only(t, StackOf(l, f, k)) /\ Shape(l, f, k) /\ k # "none"
  BY StepsAre DEF Inside, Good
<1>2. Callers(t) = StackOf(l, f, "none")
  BY <1>1, TopAndCallers
<1>3. Append(StackOf(l, f, "none"), "startLink") = StackOf(l, f, "startLink")
  BY DEF StackOf, Pushed
<1>. QED  BY <1>1, <1>2, <1>3, OnlyExcept DEF Goto, Return

\* Into Load(), Unload() or a frame.
LEMMA MoveIn ==
  ASSUME NEW t \in Thread, NEW l, Inside(t, l, "none", "none")
  PROVE  /\ l = "none" => \A x \in LifecycleSteps :
              Push(t, x) => stack' = Only(t, StackOf(x, "none", "none"))
         /\ Push(t, "frame") => stack' = Only(t, StackOf(l, "frame", "none"))
<1>1. stack = Only(t, StackOf(l, "none", "none"))
  BY DEF Inside
<1>2. stack[t] = StackOf(l, "none", "none")
  BY <1>1 DEF Only
<1>3. /\ l = "none" => \A x \in LifecycleSteps :
           Append(StackOf(l, "none", "none"), x) = StackOf(x, "none", "none")
      /\ Append(StackOf(l, "none", "none"), "frame") = StackOf(l, "frame", "none")
  BY StepsAre DEF StackOf, Pushed, LifecycleSteps
<1>. QED  BY <1>1, <1>2, <1>3, OnlyExcept DEF Push

-----------------------------------------------------------------------------
(* Each step keeps the invariant. *)

\* The thread inside the addon is at a place where the invariant holds.
Placed(t) == Types /\ \E l, f, k : Inside(t, l, f, k)

LEMMA PlacedIsEnough ==
  ASSUME NEW t \in Thread, Placed(t)'
  PROVE  IInv'
BY DEF Placed, IInv, Inside, Good, Shape

\* The calls begin.
LEMMA CallStep ==
  ASSUME IInv, NEW t \in Thread, Load(t) \/ Unload(t) \/ Render(t)
  PROVE  IInv'
<1>1. Types /\ MayLock(t) /\ Top(t) \in LifecycleSteps \cup {"outside"}
  BY DEF IInv, Load, Unload, Render, MayCall
<1>2. PICK l, f, k : Inside(t, l, f, k)
  BY <1>1, WhoActs
<1>3. f = "none" /\ k = "none"
  BY <1>1, <1>2, WhereItIs
<1>4. Good(l, "none", "none")
  BY <1>2, <1>3 DEF Inside
<1>5. CASE Load(t)
  <2>1. l = "none"
    BY <1>4, <1>5 DEF Load, Refused, Good, Calls
  <2>2. stack' = Only(t, StackOf("readFiles", "none", "none"))
    BY <1>2, <1>3, <1>5, <2>1, MoveIn, StepsAre DEF Load, LifecycleSteps
  <2>3. Good("readFiles", "none", "none")'
    BY <1>1, <1>4, <1>5, <2>1, StepsAre
    DEF Load, Refused, Good, Shape, Calls, Progress, TakenDown, Feed, LifecycleSteps, feedVars, addon
  <2>4. Types'
    BY <1>1, <1>5 DEF Load, Types, FeedTypeOK, feedVars, addon
  <2>. QED  BY <2>2, <2>3, <2>4, PlacedIsEnough DEF Placed, Inside
<1>6. CASE Unload(t)
  <2>1. l = "none"
    BY <1>4, <1>6 DEF Unload, Refused, Good, Calls
  <2>2. stack' = Only(t, StackOf("deregister", "none", "none"))
    BY <1>2, <1>3, <1>6, <2>1, MoveIn, StepsAre DEF Unload, LifecycleSteps
  <2>3. Good("deregister", "none", "none")'
    BY <1>1, <1>4, <1>6, <2>1, StepsAre
    DEF Unload, Refused, Good, Shape, Calls, Progress, TakenDown, Feed, LifecycleSteps, feedVars, addon
  <2>4. Types'
    BY <1>1, <1>6 DEF Unload, Types, FeedTypeOK, feedVars, addon
  <2>. QED  BY <2>2, <2>3, <2>4, PlacedIsEnough DEF Placed, Inside
<1>7. CASE Render(t)
  <2>1. stack' = Only(t, StackOf(l, "frame", "none"))
    BY <1>2, <1>3, <1>7, MoveIn DEF Render
  <2>2. Good(l, "frame", "none")'
    BY <1>1, <1>4, <1>7, StepsAre
    DEF Render, MayRender, Good, Shape, Calls, Progress, TakenDown, Feed, InFrame, feedVars, addon
  <2>3. Types'
    BY <1>1, <1>7 DEF Render, Types, FeedTypeOK, feedVars, addon
  <2>. QED  BY <2>1, <2>2, <2>3, PlacedIsEnough DEF Placed, Inside
<1>. QED  BY <1>5, <1>6, <1>7

\* What must be shown of a statement of Load() or Unload() that another follows,
\* and of the last one.
LEMMA GoesTo ==
  ASSUME NEW t \in Thread, NEW l \in LifecycleSteps, Inside(t, l, "none", "none"),
         NEW x \in LifecycleSteps, Goto(t, x), Types', Good(x, "none", "none")'
  PROVE  IInv'
<1>1. stack' = Only(t, StackOf(x, "none", "none"))
  BY MoveInCall
<1>. QED  BY <1>1, PlacedIsEnough DEF Placed, Inside

LEMMA Returns ==
  ASSUME NEW t \in Thread, NEW l \in LifecycleSteps, Inside(t, l, "none", "none"),
         Return(t), Types', Good("none", "none", "none")'
  PROVE  IInv'
<1>1. stack' = Only(t, StackOf("none", "none", "none"))
  BY MoveInCall
<1>. QED  BY <1>1, PlacedIsEnough DEF Placed, Inside

\* The statements of Load().
LEMMA LoadStep ==
  ASSUME IInv, NEW t \in Thread, NEW l \in StepsOf(Loading), Top(t) = l,
         \/ ReadFiles(t) \/ LoadSetsToken(t)
         \/ Start(t, "startPrices", "prices") \/ Start(t, "startIcons", "icons")
         \/ Start(t, "startAutosave", "autosave")
         \/ Register(t) \/ LoadReturns(t) \/ LoadThrows(t)
  PROVE  IInv'
<1>1. l \in LifecycleSteps /\ Top(t) # "outside" /\ Types
  BY StepsAre DEF LifecycleSteps, IInv
<1>2. Inside(t, l, "none", "none") /\ Good(l, "none", "none")
  BY <1>1, WhoActs, WhereItIs DEF Inside
<1> USE DEF Good, Shape, Calls, Progress, TakenDown, Feed, LifecycleSteps, Types, FeedTypeOK,
            feedVars, addon, At
<1>3. CASE ReadFiles(t)
  <2>1. l = "readFiles" /\ Goto(t, "setToken")
    BY <1>3, OrderOfLoading DEF ReadFiles
  <2>2. Good("setToken", "none", "none")'
    BY <1>1, <1>2, <1>3, <2>1, StepsAre DEF ReadFiles
  <2>3. Types'
    BY <1>1, <1>3 DEF ReadFiles
  <2>. QED  BY <1>1, <1>2, <2>1, <2>2, <2>3, GoesTo, StepsAre
<1>4. CASE LoadSetsToken(t)
  <2>1. l = "setToken"
    BY <1>4 DEF LoadSetsToken
  <2>2. CASE drfToken = NoToken
    <3>1. Goto(t, "startPrices") /\ UNCHANGED <<feedVars, addon, depth, loaded, lastCall>>
      BY <1>4, <2>2, OrderOfLoading DEF LoadSetsToken
    <3>2. Good("startPrices", "none", "none")'
      BY <1>1, <1>2, <2>1, <3>1, StepsAre
    <3>3. Types'
      BY <1>1, <3>1
    <3>. QED  BY <1>1, <1>2, <3>1, <3>2, <3>3, GoesTo, StepsAre
  <2>3. CASE drfToken # NoToken
    <3>1. /\ stack' = [stack EXCEPT ![t] = Callers(t) \o <<"startPrices", "stopLink">>]
          /\ StoreToken(drfToken)
          /\ UNCHANGED <<addon, depth, loaded, lastCall>>
      BY <1>4, <2>3, OrderOfLoading DEF LoadSetsToken
    <3>2. stack' = Only(t, StackOf("startPrices", "none", "stopLink"))
      BY <1>1, <1>2, <3>1, MoveInCall
    <3>3. Good("startPrices", "none", "stopLink")'
      BY <1>1, <1>2, <2>1, <3>1, StepsAre DEF StoreToken
    <3>4. Types'
      BY <1>1, <3>1 DEF StoreToken
    <3>. QED  BY <3>2, <3>3, <3>4, PlacedIsEnough DEF Placed, Inside
  <2>. QED  BY <2>2, <2>3
<1>5. ASSUME NEW step \in {"startPrices", "startIcons", "startAutosave"},
             NEW thread \in Background, Start(t, step, thread),
             \/ step = "startPrices" /\ thread = "prices"
             \/ step = "startIcons" /\ thread = "icons"
             \/ step = "startAutosave" /\ thread = "autosave"
      PROVE  IInv'
  <2>1. l = step /\ Goto(t, After(Loading, step))
    BY <1>5 DEF Start
  <2>2. After(Loading, step) \in StepsOf(Loading)
    BY OrderOfLoading, StepsAre
  <2>3. Good(After(Loading, step), "none", "none")'
    BY <1>1, <1>2, <1>5, <2>1, StepsAre, OrderOfLoading DEF Start, Background
  <2>4. Types'
    BY <1>1, <1>5 DEF Start
  <2>. QED  BY <1>1, <1>2, <2>1, <2>2, <2>3, <2>4, GoesTo
<1>6. CASE Register(t)
  <2>1. l = "register" /\ Goto(t, "loaded")
    BY <1>6, OrderOfLoading DEF Register
  <2>2. Good("loaded", "none", "none")'
    <3>1. "prices" \in running /\ "icons" \in running /\ "autosave" \in running
      BY <1>2, <2>1
    <3>2. running = Background
      BY <1>1, <3>1 DEF Background
    <3>. QED  BY <1>1, <1>2, <1>6, <2>1, <3>1, <3>2, StepsAre DEF Register
  <2>3. Types'
    BY <1>1, <1>6 DEF Register
  <2>. QED  BY <1>1, <1>2, <2>1, <2>2, <2>3, GoesTo, StepsAre
<1>7. CASE LoadReturns(t)
  <2>1. l = "loaded" /\ Return(t)
    BY <1>7 DEF LoadReturns, Leave
  <2>2. Good("none", "none", "none")'
    <3>1. "prices" \in running /\ "icons" \in running /\ "autosave" \in running
      BY <1>2, <2>1
    <3>2. running = Background
      BY <1>1, <3>1 DEF Background
    <3>. QED  BY <1>1, <1>2, <1>7, <2>1, <3>2, StepsAre DEF LoadReturns, Leave
  <2>3. Types'
    BY <1>1, <1>7 DEF LoadReturns, Leave
  <2>. QED  BY <1>1, <1>2, <2>1, <2>2, <2>3, Returns
<1>8. CASE LoadThrows(t)
  <2>1. Return(t)
    BY <1>8 DEF LoadThrows, Leave
  <2>2. Good("none", "none", "none")'
    BY <1>1, <1>2, <1>8, StepsAre DEF LoadThrows, Leave
  <2>3. Types'
    BY <1>1, <1>8 DEF LoadThrows, Leave
  <2>. QED  BY <1>1, <1>2, <2>1, <2>2, <2>3, Returns
<1>. QED  BY <1>3, <1>4, <1>5, <1>6, <1>7, <1>8 DEF Background

\* The statements of Unload().
LEMMA UnloadStep ==
  ASSUME IInv, NEW t \in Thread, NEW l \in StepsOf(Unloading), Top(t) = l,
         \/ Deregister(t) \/ StopThread(t, "stopAutosave", "autosave") \/ FinalSave(t)
         \/ StopFeed(t) \/ SayStopped(t)
         \/ StopThread(t, "stopPrices", "prices") \/ StopThread(t, "stopIcons", "icons")
         \/ UnloadReturns(t) \/ SaveBlockThrows(t) \/ StopBlockThrows(t)
  PROVE  IInv'
<1>1. l \in LifecycleSteps /\ Top(t) # "outside" /\ Types
  BY StepsAre DEF LifecycleSteps, IInv
<1>2. Inside(t, l, "none", "none") /\ Good(l, "none", "none")
  BY <1>1, WhoActs, WhereItIs DEF Inside
<1> USE DEF Good, Shape, Calls, Progress, TakenDown, Feed, LifecycleSteps, Types, FeedTypeOK,
            feedVars, addon, At
<1>3. CASE Deregister(t)
  <2>1. l = "deregister" /\ Goto(t, "stopAutosave")
    BY <1>3, OrderOfUnloading DEF Deregister
  <2>2. Good("stopAutosave", "none", "none")'
    BY <1>1, <1>2, <1>3, <2>1, StepsAre DEF Deregister
  <2>3. Types'
    BY <1>1, <1>3 DEF Deregister
  <2>. QED  BY <1>1, <1>2, <2>1, <2>2, <2>3, GoesTo, StepsAre
<1>4. ASSUME NEW step \in {"stopAutosave", "stopPrices", "stopIcons"},
             NEW thread \in Background, StopThread(t, step, thread),
             \/ step = "stopAutosave" /\ thread = "autosave"
             \/ step = "stopPrices" /\ thread = "prices"
             \/ step = "stopIcons" /\ thread = "icons"
      PROVE  IInv'
  <2>1. l = step /\ Goto(t, After(Unloading, step))
    BY <1>4 DEF StopThread
  <2>2. After(Unloading, step) \in StepsOf(Unloading)
    BY OrderOfUnloading, StepsAre
  <2>3. Good(After(Unloading, step), "none", "none")'
    BY <1>1, <1>2, <1>4, <2>1, StepsAre, OrderOfUnloading DEF StopThread, Background
  <2>4. Types'
    BY <1>1, <1>4 DEF StopThread
  <2>. QED  BY <1>1, <1>2, <2>1, <2>2, <2>3, <2>4, GoesTo
<1>5. CASE FinalSave(t)
  <2>1. l = "finalSave" /\ Goto(t, "stopFeed")
    BY <1>5, OrderOfUnloading DEF FinalSave
  <2>2. Good("stopFeed", "none", "none")'
    BY <1>1, <1>2, <1>5, <2>1, StepsAre DEF FinalSave
  <2>3. Types'
    BY <1>1, <1>5 DEF FinalSave
  <2>. QED  BY <1>1, <1>2, <2>1, <2>2, <2>3, GoesTo, StepsAre
<1>6. CASE StopFeed(t)
  <2>1. l = "stopFeed" /\ Goto(t, "sayStopped")
    BY <1>6, OrderOfUnloading DEF StopFeed
  <2>2. Good("sayStopped", "none", "none")'
    BY <1>1, <1>2, <1>6, <2>1, StepsAre DEF StopFeed, StopLink
  <2>3. Types'
    BY <1>1, <1>6 DEF StopFeed, StopLink, Closed, Status
  <2>. QED  BY <1>1, <1>2, <2>1, <2>2, <2>3, GoesTo, StepsAre
<1>7. CASE SayStopped(t)
  <2>1. l = "sayStopped" /\ Goto(t, "stopPrices")
    BY <1>7, OrderOfUnloading DEF SayStopped
  <2>2. Good("stopPrices", "none", "none")'
    BY <1>1, <1>2, <1>7, <2>1, StepsAre DEF SayStopped, SayDisconnected
  <2>3. Types'
    BY <1>1, <1>7 DEF SayStopped, SayDisconnected, Status
  <2>. QED  BY <1>1, <1>2, <2>1, <2>2, <2>3, GoesTo, StepsAre
<1>8. CASE UnloadReturns(t)
  <2>1. l = "unloaded" /\ Return(t)
    BY <1>8 DEF UnloadReturns, Leave
  <2>2. Good("none", "none", "none")'
    <3>1. ~unloadThrew => "prices" \notin running /\ "icons" \notin running
                          /\ "autosave" \notin running
      BY <1>2, <2>1
    <3>2. ~unloadThrew => running = {}
      BY <1>1, <3>1 DEF Background
    <3>. QED  BY <1>1, <1>2, <1>8, <2>1, <3>2, StepsAre DEF UnloadReturns, Leave
  <2>3. Types'
    BY <1>1, <1>8 DEF UnloadReturns, Leave
  <2>. QED  BY <1>1, <1>2, <2>1, <2>2, <2>3, Returns
<1>9. CASE SaveBlockThrows(t)
  <2>1. Goto(t, "stopFeed")
    BY <1>9 DEF SaveBlockThrows
  <2>2. Good("stopFeed", "none", "none")'
    BY <1>1, <1>2, <1>9, StepsAre DEF SaveBlockThrows
  <2>3. Types'
    BY <1>1, <1>9 DEF SaveBlockThrows
  <2>. QED  BY <1>1, <1>2, <2>1, <2>2, <2>3, GoesTo, StepsAre
<1>10. CASE StopBlockThrows(t)
  <2>1. Return(t)
    BY <1>10 DEF StopBlockThrows, Leave
  <2>2. Good("none", "none", "none")'
    BY <1>1, <1>2, <1>10, StepsAre DEF StopBlockThrows, Leave
  <2>3. Types'
    BY <1>1, <1>10 DEF StopBlockThrows, Leave
  <2>. QED  BY <1>1, <1>2, <2>1, <2>2, <2>3, Returns
<1>. QED  BY <1>3, <1>4, <1>5, <1>6, <1>7, <1>8, <1>9, <1>10 DEF Background

\* A frame, in which the token may be saved.
LEMMA FrameStep ==
  ASSUME IInv, NEW t \in Thread, SaveAndConnect(t) \/ RenderReturns(t)
  PROVE  IInv'
<1>1. Top(t) \in InFrame /\ Top(t) # "outside" /\ Types
  BY DEF SaveAndConnect, RenderReturns, At, InFrame, IInv
<1>2. PICK l, f, k : Inside(t, l, f, k)
  BY <1>1, WhoActs
<1>3. f \in InFrame /\ k = "none"
  BY <1>1, <1>2, WhereItIs
<1>4. Inside(t, l, f, "none") /\ Good(l, f, "none")
  BY <1>2, <1>3 DEF Inside
<1>5. f # "none"
  BY <1>3 DEF InFrame
<1> USE DEF Good, Shape, Calls, Progress, TakenDown, Feed, Types, FeedTypeOK, feedVars, addon
<1>6. CASE SaveAndConnect(t)
  <2>1. PICK entered \in Token \cup {NoToken} : drfToken' = entered /\ StoreToken(entered)
    BY <1>6 DEF SaveAndConnect
  <2>2. stack' = Only(t, StackOf(l, "rest", "stopLink"))
    BY <1>3, <1>4, <1>6, MoveInFrame DEF SaveAndConnect
  <2>3. l \notin {"readFiles", "setToken"} \/ unloadThrew
    BY <1>4, <1>5, StepsAre DEF LifecycleSteps
  <2>4. Good(l, "rest", "stopLink")'
    BY <1>1, <1>4, <1>5, <1>6, <2>1, StepsAre DEF SaveAndConnect, StoreToken, InFrame
  <2>5. Types'
    BY <1>1, <1>6, <2>1 DEF SaveAndConnect, StoreToken
  <2>. QED  BY <2>2, <2>4, <2>5, PlacedIsEnough DEF Placed, Inside
<1>7. CASE RenderReturns(t)
  <2>1. stack' = Only(t, StackOf(l, "none", "none"))
    BY <1>3, <1>4, <1>7, MoveInFrame DEF RenderReturns
  <2>2. Good(l, "none", "none")'
    BY <1>1, <1>4, <1>7, StepsAre DEF RenderReturns
  <2>3. Types'
    BY <1>1, <1>7 DEF RenderReturns
  <2>. QED  BY <2>1, <2>2, <2>3, PlacedIsEnough DEF Placed, Inside
<1>. QED  BY <1>6, <1>7

\* The statements of SetToken().
LEMMA SetTokenStep ==
  ASSUME IInv, NEW t \in Thread, SetTokenStops(t) \/ SetTokenStarts(t)
  PROVE  IInv'
<1>1. Top(t) \in StepsOf(SettingToken) /\ Top(t) # "outside" /\ Types
  BY StepsAre DEF SetTokenStops, SetTokenStarts, At, IInv
<1>2. PICK l, f, k : Inside(t, l, f, k)
  BY <1>1, WhoActs
<1>3. k = Top(t) /\ k \in StepsOf(SettingToken)
  BY <1>1, <1>2, WhereItIs
<1>4. Good(l, f, k)
  BY <1>2 DEF Inside
<1> USE DEF Good, Shape, Calls, Progress, TakenDown, Feed, Types, FeedTypeOK, feedVars, addon, At
<1>5. loaded /\ l \notin StepsOf(Unloading) /\ (l \notin {"readFiles", "setToken"} \/ unloadThrew)
  BY <1>3, <1>4, StepsAre DEF LifecycleSteps
<1>6. CASE SetTokenStops(t)
  <2>1. stack' = Only(t, StackOf(l, f, "startLink"))
    BY <1>2, <1>3, <1>6, MoveInSetToken DEF SetTokenStops
  <2>2. Good(l, f, "startLink")'
    BY <1>1, <1>3, <1>4, <1>5, <1>6, StepsAre DEF SetTokenStops, StopLink
  <2>3. Types'
    BY <1>1, <1>6 DEF SetTokenStops, StopLink, Closed, Status
  <2>. QED  BY <2>1, <2>2, <2>3, PlacedIsEnough DEF Placed, Inside
<1>7. CASE SetTokenStarts(t)
  <2>1. stack' = Only(t, StackOf(l, f, "none"))
    BY <1>2, <1>3, <1>7, MoveInSetToken DEF SetTokenStarts
  <2>2. k = "startLink" /\ link = "off"
    BY <1>3, <1>4, <1>7 DEF SetTokenStarts
  <2>3. UNCHANGED <<addon, depth, loaded, lastCall>> /\ (SayDisconnected \/ StartLink)
    BY <1>7 DEF SetTokenStarts
  <2>4. Good(l, f, "none")'
    BY <1>1, <1>4, <1>5, <2>2, <2>3, StepsAre DEF SayDisconnected, StartLink
  <2>5. Types'
    BY <1>1, <2>3 DEF SayDisconnected, StartLink, Status
  <2>. QED  BY <2>1, <2>4, <2>5, PlacedIsEnough DEF Placed, Inside
<1>. QED  BY <1>6, <1>7

\* What the socket's thread does, wherever the thread inside the addon is.
LEMMA EventStep ==
  ASSUME IInv, FeedEvent
  PROVE  IInv'
<1>1. PICK t, l, f, k : t \in Thread /\ Inside(t, l, f, k)
  BY DEF IInv
<1>2. Types /\ Good(l, f, k) /\ stack = Only(t, StackOf(l, f, k))
  BY <1>1 DEF IInv, Inside
<1>3. UNCHANGED <<stack, depth, loaded, addon, lastCall, token>> /\ link # "off" /\ link' # "off"
      /\ status' # "Disconnected"
  BY DEF FeedEvent, Event, Open, Error, Close, Closed
<1>4. link' = "open" => sent' = token
  BY DEF FeedEvent, Event, Open, Error, Close
<1>5. Good(l, f, k)'
  BY <1>2, <1>3, <1>4
  DEF Good, Shape, Calls, Progress, TakenDown, Feed, Types, FeedTypeOK, addon
<1>6. Types'
  <2>1. FeedTypeOK'
    BY <1>2 DEF FeedEvent, Event, Open, Error, Close, Closed, Types, FeedTypeOK, Status
  <2>. QED  BY <1>2, <1>3, <2>1 DEF Types, addon
<1>. QED  BY <1>1, <1>2, <1>3, <1>5, <1>6, PlacedIsEnough DEF Placed, Inside

LEMMA InvInit == Init => IInv
<1> SUFFICES ASSUME Init PROVE IInv
  OBVIOUS
<1>1. PICK t : t \in Thread
  BY ThreadAssumption
<1>2. stack = Only(t, StackOf("none", "none", "none"))
  BY DEF Init, Only, StackOf, Pushed
<1>3. Good("none", "none", "none")
  BY StepsAre DEF Init, FeedInit, Good, Shape, Calls, Progress, TakenDown, Feed
<1>4. Types
  BY DEF Init, FeedInit, Types, FeedTypeOK, Status, Background
<1>. QED  BY <1>1, <1>2, <1>3, <1>4 DEF IInv, Inside

LEMMA InvStep == IInv /\ [Next]_vars => IInv'
<1> SUFFICES ASSUME IInv, [Next]_vars PROVE IInv'
  OBVIOUS
<1>1. ASSUME NEW t \in Thread, Proceed(t) PROVE IInv'
  <2>1. CASE \/ ReadFiles(t) \/ LoadSetsToken(t)
             \/ Start(t, "startPrices", "prices") \/ Start(t, "startIcons", "icons")
             \/ Start(t, "startAutosave", "autosave")
             \/ Register(t) \/ LoadReturns(t)
    <3>1. Top(t) \in StepsOf(Loading)
      BY <2>1, StepsAre
      DEF ReadFiles, LoadSetsToken, Start, Register, LoadReturns, At
    <3>. QED  BY <2>1, <3>1, LoadStep
  <2>2. CASE \/ Deregister(t) \/ StopThread(t, "stopAutosave", "autosave") \/ FinalSave(t)
             \/ StopFeed(t) \/ SayStopped(t)
             \/ StopThread(t, "stopPrices", "prices") \/ StopThread(t, "stopIcons", "icons")
             \/ UnloadReturns(t)
    <3>1. Top(t) \in StepsOf(Unloading)
      BY <2>2, StepsAre
      DEF Deregister, StopThread, FinalSave, StopFeed, SayStopped, UnloadReturns, At
    <3>. QED  BY <2>2, <3>1, UnloadStep
  <2>. QED  BY <1>1, <2>1, <2>2, FrameStep, SetTokenStep DEF Proceed
<1>2. ASSUME NEW t \in Thread, Throw(t) PROVE IInv'
  <2>1. CASE LoadThrows(t)
    BY <2>1, LoadStep DEF LoadThrows
  <2>2. CASE SaveBlockThrows(t)
    BY <2>2, UnloadStep, StepsAre DEF SaveBlockThrows
  <2>3. CASE StopBlockThrows(t)
    BY <2>3, UnloadStep, StepsAre DEF StopBlockThrows
  <2>. QED  BY <1>2, <2>1, <2>2, <2>3 DEF Throw
<1>3. ASSUME NEW t \in Thread, Call(t) PROVE IInv'
  BY <1>3, CallStep, FrameStep DEF Call
<1>4. CASE UNCHANGED vars
  BY <1>4 DEF IInv, Types, FeedTypeOK, Inside, Good, Calls, Progress, TakenDown, Feed,
              vars, feedVars
<1>. QED  BY <1>1, <1>2, <1>3, <1>4, EventStep DEF Next

-----------------------------------------------------------------------------
(* What the invariant says of all frames and calls. *)

\* What pushing adds to the steps on a stack.
LEMMA PushedAdds ==
  ASSUME NEW s \in Seq(Steps), NEW x \in Steps \cup {"none"}
  PROVE  /\ Pushed(s, x) \in Seq(Steps)
         /\ StepsOf(Pushed(s, x)) = StepsOf(s) \cup ({x} \ {"none"})
<1>1. CASE x = "none"
  BY <1>1 DEF Pushed
<1>2. CASE x # "none"
  <2>1. Pushed(s, x) = Append(s, x) /\ x \in Steps
    BY <1>2 DEF Pushed
  <2>2. /\ Append(s, x) \in Seq(Steps) /\ Len(Append(s, x)) = Len(s) + 1
        /\ \A n \in 1 .. Len(s) : Append(s, x)[n] = s[n]
        /\ Append(s, x)[Len(s) + 1] = x
    BY <2>1, AppendProperties
  <2>3. Len(s) \in Nat /\ DOMAIN s = 1 .. Len(s) /\ DOMAIN Append(s, x) = 1 .. Len(s) + 1
    BY <2>2, LenProperties
  <2>4. StepsOf(Append(s, x)) = StepsOf(s) \cup {x}
    BY <2>2, <2>3 DEF StepsOf
  <2>. QED  BY <1>2, <2>1, <2>2, <2>4
<1>. QED  BY <1>1, <1>2

\* The steps on a stack are those it was made of.
LEMMA StackSteps ==
  ASSUME NEW l, NEW f, NEW k, Shape(l, f, k)
  PROVE  StepsOf(StackOf(l, f, k)) = {l, f, k} \ {"none"}
<1>1. l \in Steps \cup {"none"} /\ f \in Steps \cup {"none"} /\ k \in Steps \cup {"none"}
  BY DEF Shape, Steps
<1> DEFINE one == Pushed(<<>>, l)
           two == Pushed(one, f)
           three == Pushed(two, k)
<1>2. <<>> \in Seq(Steps) /\ StepsOf(<<>>) = {}
  BY DEF StepsOf
<1>3. one \in Seq(Steps) /\ StepsOf(one) = {l} \ {"none"}
  BY <1>1, <1>2, PushedAdds
<1> HIDE DEF one
<1>4. two \in Seq(Steps) /\ StepsOf(two) = StepsOf(one) \cup ({f} \ {"none"})
  BY <1>1, <1>3, PushedAdds
<1> HIDE DEF two
<1>5. StepsOf(three) = StepsOf(two) \cup ({k} \ {"none"})
  BY <1>1, <1>4, PushedAdds
<1>6. StackOf(l, f, k) = three
  BY DEF StackOf, one, two
<1> HIDE DEF three
<1>. QED  BY <1>3, <1>4, <1>5, <1>6

LEMMA StepsOnStack ==
  ASSUME NEW t \in Thread, NEW l, NEW f, NEW k, Inside(t, l, f, k)
  PROVE  /\ StepsOf(stack[t]) = {l, f, k} \ {"none"}
         /\ \A u \in Thread : StepsOf(stack[u]) \subseteq {l, f, k} \ {"none"}
<1>1. Shape(l, f, k) /\ stack = Only(t, StackOf(l, f, k))
  BY DEF Inside, Good
<1>2. stack[t] = StackOf(l, f, k) /\ \A u \in Thread \ {t} : stack[u] = <<>>
  BY <1>1 DEF Only
<1>3. StepsOf(<<>>) = {}
  BY DEF StepsOf
<1>. QED  BY <1>1, <1>2, <1>3, StackSteps

\* Every variable of the lifecycle keeps its type; g_lifecycleDepth never
\* exceeds one (Load, Unload).
THEOREM TypesHold == Spec => []TypeOK
<1>1. IInv => TypeOK
  <2> SUFFICES ASSUME IInv PROVE TypeOK
    OBVIOUS
  <2>1. PICK t, l, f, k : t \in Thread /\ Inside(t, l, f, k)
    BY DEF IInv
  <2>2. Shape(l, f, k) /\ stack = Only(t, StackOf(l, f, k)) /\ depth \in 0 .. 1
    BY <2>1 DEF Inside, Good, Calls
  <2>3. StackOf(l, f, k) \in Seq(Steps) /\ <<>> \in Seq(Steps)
    BY <2>2, StackIsSeq
  <2>4. stack \in [Thread -> Seq(Steps)]
    BY <2>2, <2>3 DEF Only
  <2>. QED  BY <2>2, <2>4 DEF TypeOK, IInv, Types
<1>. QED  BY <1>1, InvInit, InvStep, PTL DEF Spec

\* What runs, once a call is over, is what that call says, whatever threw before
\* and whatever was called in between (Load, Unload).
THEOREM CallsDoAsTheySay == Spec => []RunsAsLastCalled
<1>1. IInv => RunsAsLastCalled
  <2> SUFFICES ASSUME IInv PROVE RunsAsLastCalled
    OBVIOUS
  <2>1. PICK t, l, f, k : t \in Thread /\ Inside(t, l, f, k)
    BY DEF IInv
  <2>. QED  BY <2>1 DEF Inside, Good, Calls, TakenDown, RunsAsLastCalled
<1>. QED  BY <1>1, InvInit, InvStep, PTL DEF Spec

\* No frame ever sees an addon half loaded (AddonRender, AddonOptions).
THEOREM FramesSeeWholeAddon == Spec => []FrameSeesWholeAddon
<1>1. IInv => FrameSeesWholeAddon
  <2> SUFFICES ASSUME IInv, ~unloadThrew, NEW u \in Thread, NEW n \in DOMAIN stack[u],
                      stack[u][n] \in InFrame
               PROVE  loaded /\ running = Background
    BY DEF FrameSeesWholeAddon
  <2>1. PICK t, l, f, k : t \in Thread /\ Inside(t, l, f, k)
    BY DEF IInv
  <2>2. stack[u][n] \in {l, f, k} \ {"none"}
    BY <2>1, StepsOnStack DEF StepsOf
  <2>3. f # "none"
    BY <2>1, <2>2, StepsAre DEF Inside, Good, Shape, LifecycleSteps, InFrame
  <2>. QED  BY <2>1, <2>3 DEF Inside, Good, Calls, TakenDown
<1>. QED  BY <1>1, InvInit, InvStep, PTL DEF Spec

\* Outside SetToken() and Stop() the thread is at neither.
LEMMA SettledIs ==
  ASSUME FeedIsSettled, NEW t \in Thread, NEW l, NEW f, NEW k, Inside(t, l, f, k)
  PROVE  k = "none" /\ l # "sayStopped"
<1>1. \A x \in {l, f, k} \ {"none"} : x \notin {"stopLink", "startLink", "stopFeed", "sayStopped"}
  BY StepsOnStack DEF FeedIsSettled, StepsOf
<1>2. k \in {"stopLink", "startLink", "none"}
  BY StepsAre DEF Inside, Good, Shape
<1>. QED  BY <1>1, <1>2

\* The status says whether a connection is attempted, and the open connection
\* is that of the token of the settings (SetToken, Stop, OnMessage, Open).
THEOREM FeedDoesAsTold == Spec => []FeedIsAsTold
<1>1. IInv => FeedIsAsTold
  <2> SUFFICES ASSUME IInv, FeedIsSettled, ~unloadThrew
               PROVE  /\ status = "Disconnected" <=> link = "off"
                      /\ loaded /\ link = "open" => sent = token /\ token = drfToken
    BY DEF FeedIsAsTold
  <2>1. PICK t, l, f, k : t \in Thread /\ Inside(t, l, f, k)
    BY DEF IInv
  <2>. QED  BY <2>1, SettledIs DEF Inside, Good, Feed, TakenDown
<1>. QED  BY <1>1, InvInit, InvStep, PTL DEF Spec
-----------------------------------------------------------------------------
(* The order of the calls. *)

\* What the three places of a stack say of the call and the frame.
LEMMA PlacesTell ==
  ASSUME NEW l, NEW f, NEW k, Shape(l, f, k)
  PROVE  LET steps == {l, f, k} \ {"none"}
         IN  /\ steps \cap StepsOf(Loading) # {} <=> l \in StepsOf(Loading)
             /\ steps \cap StepsOf(Unloading) # {} <=> l \in StepsOf(Unloading)
             /\ steps \cap InFrame # {} <=> f # "none"
  BY StepsAre DEF Shape, LifecycleSteps, InFrame

\* The call that a thread at step l of Load() or Unload() is in.
CallAt(l) ==
  CASE l \in StepsOf(Loading)   -> "load"
    [] l \in StepsOf(Unloading) -> "unload"
    [] OTHER -> "nothing"

LEMMA CallsAt ==
  /\ \A l \in StepsOf(Loading) : CallAt(l) = "load"
  /\ \A l \in StepsOf(Unloading) : CallAt(l) = "unload"
  /\ CallAt("none") = "nothing"
  BY StepsAre DEF CallAt

Entered(l, f, t) == IF l = "none" /\ f = "none" THEN {} ELSE {t}

\* The steps on each stack, and who is inside, when it is one thread.
LEMMA OneStack ==
  ASSUME NEW t \in Thread, NEW l, NEW f, NEW k, Shape(l, f, k), NEW u \in Thread
  PROVE  LET s == Only(t, StackOf(l, f, k))[u]
         IN  /\ StepsOf(s) = IF u = t THEN {l, f, k} \ {"none"} ELSE {}
             /\ s # <<>> <=> u \in Entered(l, f, t)
<1> DEFINE s == Only(t, StackOf(l, f, k))[u]
<1>1. s = IF u = t THEN StackOf(l, f, k) ELSE <<>>
  BY DEF Only
<1>2. StepsOf(StackOf(l, f, k)) = {l, f, k} \ {"none"} /\ StepsOf(<<>>) = {}
  BY StackSteps DEF StepsOf
<1>3. StackOf(l, f, k) = <<>> <=> l = "none" /\ f = "none"
  <2>1. StackOf(l, f, k) = <<>> => l = "none" /\ f = "none" /\ k = "none"
    BY StackIsSeq
  <2>2. l = "none" /\ f = "none" => k = "none"
    BY DEF Shape
  <2>3. l = "none" /\ f = "none" /\ k = "none" => StackOf(l, f, k) = <<>>
    BY DEF StackOf, Pushed
  <2>. QED  BY <2>1, <2>2, <2>3
<1>. QED  BY <1>1, <1>2, <1>3 DEF Entered

\* What a thread's moving from one place to another is in the order of calls.
LEMMA MoveInOrder ==
  ASSUME NEW t \in Thread,
         NEW l, NEW f, NEW k, Inside(t, l, f, k),
         NEW m, NEW g, NEW j, Shape(m, g, j), stack' = Only(t, StackOf(m, g, j))
  PROVE  /\ {u \in Thread : stack[u] # <<>>} = Entered(l, f, t)
         /\ {u \in Thread : stack[u] # <<>>}' = Entered(m, g, t)
         /\ Doing = CallAt(l) /\ Doing' = CallAt(m)
         /\ OnStacks \cap InFrame # {} <=> f # "none"
         /\ (OnStacks \cap InFrame # {})' <=> g # "none"
<1>1. Shape(l, f, k) /\ stack = Only(t, StackOf(l, f, k))
  BY DEF Inside, Good
<1>2. OnStacks = {l, f, k} \ {"none"} /\ {u \in Thread : stack[u] # <<>>} = Entered(l, f, t)
  <2>1. \A u \in Thread : /\ StepsOf(stack[u]) = IF u = t THEN {l, f, k} \ {"none"} ELSE {}
                          /\ stack[u] # <<>> <=> u \in Entered(l, f, t)
    BY <1>1, OneStack
  <2>2. Entered(l, f, t) \subseteq Thread
    BY DEF Entered
  <2>. QED  BY <2>1, <2>2 DEF OnStacks
<1>3. OnStacks' = {m, g, j} \ {"none"} /\ {u \in Thread : stack'[u] # <<>>} = Entered(m, g, t)
  <2>1. \A u \in Thread : /\ StepsOf(stack'[u]) = IF u = t THEN {m, g, j} \ {"none"} ELSE {}
                          /\ stack'[u] # <<>> <=> u \in Entered(m, g, t)
    BY OneStack
  <2>2. Entered(m, g, t) \subseteq Thread
    BY DEF Entered
  <2>. QED  BY <2>1, <2>2 DEF OnStacks
<1>4. /\ OnStacks \cap StepsOf(Loading) # {} <=> l \in StepsOf(Loading)
      /\ OnStacks \cap StepsOf(Unloading) # {} <=> l \in StepsOf(Unloading)
      /\ OnStacks \cap InFrame # {} <=> f # "none"
  BY <1>1, <1>2, PlacesTell
<1>5. /\ OnStacks' \cap StepsOf(Loading) # {} <=> m \in StepsOf(Loading)
      /\ OnStacks' \cap StepsOf(Unloading) # {} <=> m \in StepsOf(Unloading)
      /\ OnStacks' \cap InFrame # {} <=> g # "none"
  BY <1>3, PlacesTell
<1>6. Doing = CallAt(l)
  BY <1>4 DEF Doing, CallAt
<1>7. Doing' = CallAt(m)
  BY <1>5 DEF Doing, CallAt
<1>. QED  BY <1>2, <1>3, <1>4, <1>5, <1>6, <1>7

\* Within a call, from one statement to another.
LEMMA StaysInOrder ==
  ASSUME NEW t \in Thread, NEW l, NEW f, NEW k, Inside(t, l, f, k),
         NEW m, NEW g, NEW j, Shape(m, g, j), stack' = Only(t, StackOf(m, g, j)),
         UNCHANGED loaded, CallAt(l) = CallAt(m), l = "none" <=> m = "none",
         f = "none" <=> g = "none"
  PROVE  UNCHANGED Order!vars
<1>1. /\ {u \in Thread : stack[u] # <<>>}' = {u \in Thread : stack[u] # <<>>}
      /\ Doing' = Doing
      /\ (OnStacks \cap InFrame # {})' = (OnStacks \cap InFrame # {})
  BY MoveInOrder DEF Entered
<1>. QED  BY <1>1 DEF Order!vars

\* The statements of Load() and Unload(): a call goes on, or ends.
LEMMA CallInOrder ==
  ASSUME IInv, NEW t \in Thread, NEW l \in LifecycleSteps, Top(t) = l, UNCHANGED loaded,
         \/ \E x \in LifecycleSteps : Goto(t, x) /\ CallAt(x) = CallAt(l)
         \/ l = "setToken"
            /\ stack' = [stack EXCEPT ![t] = Callers(t) \o <<"startPrices", "stopLink">>]
         \/ Return(t)
  PROVE  [Order!Next]_Order!vars
<1>1. Inside(t, l, "none", "none") /\ l # "none"
  BY WhoActs, WhereItIs, StepsAre DEF LifecycleSteps
<1>2. ASSUME NEW x \in LifecycleSteps, Goto(t, x), CallAt(x) = CallAt(l)
      PROVE  [Order!Next]_Order!vars
  <2>1. Shape(x, "none", "none") /\ x # "none" /\ stack' = Only(t, StackOf(x, "none", "none"))
    BY <1>1, <1>2, MoveInCall, StepsAre DEF Shape, LifecycleSteps
  <2>. QED  BY <1>1, <1>2, <2>1, StaysInOrder
<1>3. CASE l = "setToken"
           /\ stack' = [stack EXCEPT ![t] = Callers(t) \o <<"startPrices", "stopLink">>]
  <2>1. /\ Shape("startPrices", "none", "stopLink")
        /\ stack' = Only(t, StackOf("startPrices", "none", "stopLink"))
    BY <1>1, <1>3, MoveInCall, StepsAre DEF Shape, LifecycleSteps
  <2>2. CallAt("startPrices") = CallAt(l)
    BY <1>3, CallsAt, StepsAre
  <2>. QED  BY <1>1, <2>1, <2>2, StaysInOrder
<1>4. CASE Return(t)
  <2>1. Shape("none", "none", "none") /\ stack' = Only(t, StackOf("none", "none", "none"))
    BY <1>1, <1>4, MoveInCall DEF Shape
  <2>2. CallAt(l) # "nothing" /\ CallAt("none") = "nothing"
    BY CallsAt DEF LifecycleSteps
  <2>3. Order!EndCall(t)
    BY <1>1, <2>1, <2>2, MoveInOrder DEF Order!EndCall, Entered
  <2>. QED  BY <2>3 DEF Order!Next
<1>. QED  BY <1>2, <1>3, <1>4

\* Load() and Unload() begin with nobody inside, and a frame with nobody else.
LEMMA CallBeginsInOrder ==
  ASSUME IInv, NEW t \in Thread, Load(t) \/ Unload(t) \/ Render(t)
  PROVE  Order!Next
<1>1. MayLock(t) /\ Top(t) \in LifecycleSteps \cup {"outside"}
  BY DEF Load, Unload, Render, MayCall
<1>2. PICK l, f, k : Inside(t, l, f, k)
  BY <1>1, WhoActs
<1>3. Inside(t, l, "none", "none") /\ Good(l, "none", "none")
  BY <1>1, <1>2, WhereItIs DEF Inside
<1>4. ASSUME NEW x \in LifecycleSteps, Push(t, x), ~(depth > 0)
      PROVE  /\ {u \in Thread : stack[u] # <<>>} = {}
             /\ {u \in Thread : stack[u] # <<>>}' = {t}
             /\ Doing' = CallAt(x)
             /\ OnStacks \cap InFrame = {} /\ (OnStacks \cap InFrame = {})'
  <2>1. l = "none"
    BY <1>3, <1>4 DEF Good, Calls
  <2>2. Shape(x, "none", "none") /\ x # "none" /\ stack' = Only(t, StackOf(x, "none", "none"))
    BY <1>3, <1>4, <2>1, MoveIn, StepsAre DEF Shape, LifecycleSteps
  <2>. QED  BY <1>3, <2>1, <2>2, MoveInOrder DEF Entered
<1>5. CASE Load(t)
  <2>1. "readFiles" \in StepsOf(Loading) /\ "readFiles" \in LifecycleSteps
    BY StepsAre DEF LifecycleSteps
  <2>2. Order!BeginLoad(t)
    BY <1>4, <1>5, <2>1, CallsAt DEF Load, Refused, Order!BeginLoad
  <2>. QED  BY <2>2 DEF Order!Next
<1>6. CASE Unload(t)
  <2>1. "deregister" \in StepsOf(Unloading) /\ "deregister" \in LifecycleSteps
    BY StepsAre DEF LifecycleSteps
  <2>2. loaded
    BY <1>6 DEF Unload, Refused, IInv, Types
  <2>3. Order!BeginUnload(t)
    BY <1>4, <1>6, <2>1, <2>2, CallsAt DEF Unload, Refused, Order!BeginUnload
  <2>. QED  BY <2>3 DEF Order!Next
<1>7. CASE Render(t)
  <2>1. Shape(l, "frame", "none") /\ stack' = Only(t, StackOf(l, "frame", "none"))
    BY <1>3, <1>7, MoveIn DEF Render, Good, Shape, InFrame
  <2>2. loaded /\ UNCHANGED loaded
    BY <1>7 DEF Render, MayRender
  <2>3. Order!BeginFrame(t)
    BY <1>3, <2>1, <2>2, MoveInOrder DEF Order!BeginFrame, Entered
  <2>. QED  BY <2>3 DEF Order!Next
<1>. QED  BY <1>5, <1>6, <1>7

\* A frame goes on, or ends.
LEMMA FrameInOrder ==
  ASSUME IInv, NEW t \in Thread, SaveAndConnect(t) \/ RenderReturns(t)
  PROVE  [Order!Next]_Order!vars
<1>1. Top(t) \in InFrame /\ Top(t) # "outside"
  BY DEF SaveAndConnect, RenderReturns, At, InFrame
<1>2. PICK l, f, k : Inside(t, l, f, k)
  BY <1>1, WhoActs
<1>3. f \in InFrame /\ f # "none" /\ Inside(t, l, f, "none") /\ Good(l, f, "none")
  BY <1>1, <1>2, WhereItIs DEF Inside, InFrame
<1>4. CASE SaveAndConnect(t)
  <2>1. Shape(l, "rest", "stopLink") /\ stack' = Only(t, StackOf(l, "rest", "stopLink"))
    BY <1>3, <1>4, MoveInFrame, StepsAre DEF SaveAndConnect, Good, Shape, InFrame
  <2>2. UNCHANGED loaded
    BY <1>4 DEF SaveAndConnect
  <2>. QED  BY <1>3, <2>1, <2>2, StaysInOrder
<1>5. CASE RenderReturns(t)
  <2>1. Shape(l, "none", "none") /\ stack' = Only(t, StackOf(l, "none", "none"))
    BY <1>3, <1>5, MoveInFrame DEF RenderReturns, Good, Shape
  <2>2. UNCHANGED loaded
    BY <1>5 DEF RenderReturns
  <2>3. CallAt(l) = "nothing" <=> l = "none"
    BY <1>3, CallsAt, StepsAre DEF Good, Shape, LifecycleSteps
  <2>4. Order!EndFrame(t)
    BY <1>3, <2>1, <2>2, <2>3, MoveInOrder DEF Order!EndFrame, Entered
  <2>. QED  BY <2>4 DEF Order!Next
<1>. QED  BY <1>4, <1>5

\* SetToken() goes on, or ends, wherever it was called.
LEMMA SetTokenInOrder ==
  ASSUME IInv, NEW t \in Thread, SetTokenStops(t) \/ SetTokenStarts(t)
  PROVE  UNCHANGED Order!vars
<1>1. Top(t) \in StepsOf(SettingToken) /\ Top(t) # "outside" /\ UNCHANGED loaded
  BY StepsAre DEF SetTokenStops, SetTokenStarts, At
<1>2. PICK l, f, k : Inside(t, l, f, k)
  BY <1>1, WhoActs
<1>3. k \in StepsOf(SettingToken) /\ Shape(l, f, k)
  BY <1>1, <1>2, WhereItIs DEF Inside, Good
<1>4. Shape(l, f, "startLink") /\ Shape(l, f, "none")
  BY <1>3, StepsAre DEF Shape
<1>5. \/ stack' = Only(t, StackOf(l, f, "startLink"))
      \/ stack' = Only(t, StackOf(l, f, "none"))
  BY <1>2, <1>3, MoveInSetToken DEF SetTokenStops, SetTokenStarts
<1>. QED  BY <1>1, <1>2, <1>4, <1>5, StaysInOrder

\* A statement of Load() or Unload() leaves g_loaded, and goes on within the
\* call or ends it.
LEMMA StatementFrame ==
  ASSUME NEW t \in Thread,
         \/ ReadFiles(t) \/ LoadSetsToken(t)
         \/ Start(t, "startPrices", "prices") \/ Start(t, "startIcons", "icons")
         \/ Start(t, "startAutosave", "autosave")
         \/ Register(t) \/ LoadReturns(t)
         \/ Deregister(t) \/ StopThread(t, "stopAutosave", "autosave") \/ FinalSave(t)
         \/ StopFeed(t) \/ SayStopped(t)
         \/ StopThread(t, "stopPrices", "prices") \/ StopThread(t, "stopIcons", "icons")
         \/ UnloadReturns(t) \/ Throw(t)
  PROVE  /\ UNCHANGED loaded
         /\ Top(t) \in LifecycleSteps
         /\ \/ \E x \in LifecycleSteps : Goto(t, x) /\ CallAt(x) = CallAt(Top(t))
            \/ Top(t) = "setToken"
               /\ stack' = [stack EXCEPT ![t] = Callers(t) \o <<"startPrices", "stopLink">>]
            \/ Return(t)
<1> USE StepsAre, CallsAt DEF LifecycleSteps, At
<1>1. CASE ReadFiles(t)
  BY <1>1, OrderOfLoading DEF ReadFiles
<1>2. CASE LoadSetsToken(t)
  BY <1>2, OrderOfLoading DEF LoadSetsToken, addon
<1>3. ASSUME NEW step \in {"startPrices", "startIcons", "startAutosave"}, NEW thread,
             Start(t, step, thread)
      PROVE  /\ UNCHANGED loaded /\ Top(t) \in LifecycleSteps
             /\ \E x \in LifecycleSteps : Goto(t, x) /\ CallAt(x) = CallAt(Top(t))
  BY <1>3, OrderOfLoading DEF Start
<1>4. CASE Register(t)
  BY <1>4, OrderOfLoading DEF Register
<1>5. CASE LoadReturns(t) \/ UnloadReturns(t)
  BY <1>5 DEF LoadReturns, UnloadReturns, Leave
<1>6. CASE Deregister(t)
  BY <1>6, OrderOfUnloading DEF Deregister
<1>7. ASSUME NEW step \in {"stopAutosave", "stopPrices", "stopIcons"}, NEW thread,
             StopThread(t, step, thread)
      PROVE  /\ UNCHANGED loaded /\ Top(t) \in LifecycleSteps
             /\ \E x \in LifecycleSteps : Goto(t, x) /\ CallAt(x) = CallAt(Top(t))
  BY <1>7, OrderOfUnloading DEF StopThread
<1>8. CASE FinalSave(t)
  BY <1>8, OrderOfUnloading DEF FinalSave
<1>9. CASE StopFeed(t)
  BY <1>9, OrderOfUnloading DEF StopFeed
<1>10. CASE SayStopped(t)
  BY <1>10, OrderOfUnloading DEF SayStopped
<1>11. CASE Throw(t)
  BY <1>11 DEF Throw, LoadThrows, SaveBlockThrows, StopBlockThrows, Leave
<1>. QED  BY <1>1, <1>2, <1>3, <1>4, <1>5, <1>6, <1>7, <1>8, <1>9, <1>10, <1>11

\* Every call that goes ahead does so in order and alone, for every number of
\* threads and nested calls and whatever throws (g_lifecycleMutex,
\* g_lifecycleDepth and g_loaded in Load, Unload and the callbacks).
THEOREM ImplementsOrder == Spec => RefinesOrder
<1>1. Init => Order!Init
  <2> SUFFICES ASSUME Init PROVE Order!Init
    OBVIOUS
  <2>1. \A t \in Thread : stack[t] = <<>>
    BY DEF Init
  <2>2. OnStacks = {}
    BY <2>1 DEF OnStacks, StepsOf
  <2>3. Doing = "nothing"
    BY <2>2 DEF Doing
  <2>. QED  BY <2>1, <2>2, <2>3 DEF Init, Order!Init
<1>2. IInv /\ [Next]_vars => [Order!Next]_Order!vars
  <2> SUFFICES ASSUME IInv, [Next]_vars PROVE [Order!Next]_Order!vars
    OBVIOUS
  <2>1. ASSUME NEW t \in Thread, Proceed(t) \/ Throw(t) PROVE [Order!Next]_Order!vars
    <3>1. CASE RenderReturns(t)
      BY <3>1, FrameInOrder
    <3>2. CASE SetTokenStops(t) \/ SetTokenStarts(t)
      BY <3>2, SetTokenInOrder
    <3>3. CASE ~RenderReturns(t) /\ ~SetTokenStops(t) /\ ~SetTokenStarts(t)
      BY <2>1, <3>3, StatementFrame, CallInOrder DEF Proceed
    <3>. QED  BY <3>1, <3>2, <3>3
  <2>2. ASSUME NEW t \in Thread, Call(t) PROVE [Order!Next]_Order!vars
    BY <2>2, CallBeginsInOrder, FrameInOrder DEF Call
  <2>3. CASE FeedEvent \/ UNCHANGED vars
    <3>1. UNCHANGED <<stack, loaded>>
      BY <2>3 DEF FeedEvent, vars
    <3>2. UNCHANGED OnStacks
      BY <3>1 DEF OnStacks
    <3>. QED  BY <3>1, <3>2 DEF Order!vars, Doing
  <2>. QED  BY <2>1, <2>2, <2>3 DEF Next
<1>. QED  BY <1>1, <1>2, InvInit, InvStep, PTL DEF Spec, RefinesOrder, Order!Spec

\* One thread at most is inside the addon, a frame is of a loaded one and never
\* of one being unloaded (Load, Unload, AddonRender, AddonOptions).
THEOREM OneIsInside == Spec => []Order!OneInside
<1>1. Order!Init => Order!OneInside
  BY DEF Order!Init, Order!OneInside
<1>2. Order!OneInside /\ [Order!Next]_Order!vars => Order!OneInside'
  <2> SUFFICES ASSUME Order!OneInside, [Order!Next]_Order!vars PROVE Order!OneInside'
    OBVIOUS
  <2>1. ASSUME NEW t \in Thread, Order!BeginLoad(t) \/ Order!BeginUnload(t)
        PROVE  Order!OneInside'
    BY <2>1 DEF Order!BeginLoad, Order!BeginUnload, Order!OneInside
  <2>2. ASSUME NEW t \in Thread, Order!BeginFrame(t) PROVE Order!OneInside'
    BY <2>2 DEF Order!BeginFrame, Order!OneInside
  <2>3. ASSUME NEW t \in Thread, Order!EndFrame(t) \/ Order!EndCall(t)
        PROVE  Order!OneInside'
    BY <2>3 DEF Order!EndFrame, Order!EndCall, Order!OneInside
  <2>4. CASE UNCHANGED Order!vars
    BY <2>4 DEF Order!vars, Order!OneInside
  <2>. QED  BY <2>1, <2>2, <2>3, <2>4 DEF Order!Next
<1>. QED  BY <1>1, <1>2, ImplementsOrder, PTL DEF RefinesOrder, Order!Spec

\* From the first to the last step of a frame, whatever SetToken() does in it,
\* nothing is loaded or unloaded (AddonRender, AddonOptions, Load, Unload).
THEOREM FramesAreUndisturbed == Spec => Order!FrameIsUndisturbed
<1> DEFINE Drawing == OnStacks \cap InFrame # {}
<1>1. [Order!Next]_Order!vars => [Drawing => UNCHANGED <<loaded, Doing>>]_Order!vars
  <2> SUFFICES ASSUME Order!Next, Drawing PROVE UNCHANGED <<loaded, Doing>>
    OBVIOUS
  <2>1. PICK t \in Thread : \/ Order!BeginLoad(t) \/ Order!BeginUnload(t)
                            \/ Order!BeginFrame(t) \/ Order!EndFrame(t) \/ Order!EndCall(t)
    BY DEF Order!Next
  <2>2. {u \in Thread : stack[u] # <<>>} # {}
    <3>1. \A u \in Thread : stack[u] = <<>> => StepsOf(stack[u]) = {}
      BY DEF StepsOf
    <3>. QED  BY <3>1 DEF OnStacks
  <2>3. ~Order!BeginLoad(t) /\ ~Order!BeginUnload(t) /\ ~Order!EndCall(t)
    BY <2>2 DEF Order!BeginLoad, Order!BeginUnload, Order!EndCall
  <2>. QED  BY <2>1, <2>3 DEF Order!BeginFrame, Order!EndFrame
<1>. QED  BY <1>1, ImplementsOrder, PTL DEF RefinesOrder, Order!Spec, Order!FrameIsUndisturbed

-----------------------------------------------------------------------------

\* The depth is that of the Load() or Unload() under way, and once no thread is
\* in a call the one of the two that would change something is not refused.
NeverLockedOut ==
  /\ depth = IF Doing = "nothing" THEN 0 ELSE 1
  /\ Quiet => ~Refused(~loaded)

\* Whatever was called from inside a call and whatever threw, g_lifecycleDepth
\* is given back, so that no Load() or Unload() is refused for a call that is
\* long over (DepthGuard).
THEOREM DepthIsGivenBack == Spec => []NeverLockedOut
<1>1. IInv => NeverLockedOut
  <2> SUFFICES ASSUME IInv PROVE NeverLockedOut
    OBVIOUS
  <2>1. PICK t, l, f, k : t \in Thread /\ Inside(t, l, f, k)
    BY DEF IInv
  <2>2. Shape(l, f, k) /\ stack = Only(t, StackOf(l, f, k)) /\ depth = IF l = "none" THEN 0 ELSE 1
    BY <2>1 DEF Inside, Good, Calls
  <2>3. \A u \in Thread : /\ StepsOf(stack[u]) = IF u = t THEN {l, f, k} \ {"none"} ELSE {}
                          /\ stack[u] # <<>> <=> u \in Entered(l, f, t)
    BY <2>1, <2>2, OneStack
  <2>4. OnStacks = {l, f, k} \ {"none"}
    BY <2>1, <2>3 DEF OnStacks
  <2>5. Doing = CallAt(l)
    BY <2>2, <2>4, PlacesTell DEF Doing, CallAt
  <2>6. CallAt(l) = "nothing" <=> l = "none"
    BY <2>2, CallsAt, StepsAre DEF Shape, LifecycleSteps
  <2>7. Quiet => l = "none"
    BY <2>1, <2>3 DEF Quiet, Entered
  <2>8. loaded \in BOOLEAN
    BY DEF IInv, Types
  <2>. QED  BY <2>2, <2>5, <2>6, <2>7, <2>8 DEF NeverLockedOut, Refused
<1>. QED  BY <1>1, InvInit, InvStep, PTL DEF Spec

=============================================================================
