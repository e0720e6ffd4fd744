------------------------------ MODULE CallOrder ------------------------------
(***************************************************************************)
(* What every part of the addon takes for granted of the calls it is       *)
(* driven by, with no lock, nesting or refusal in sight: one thread at a   *)
(* time is inside the addon; Load() and Unload() take turns and never      *)
(* overlap; frames are drawn one at a time, of a loaded addon only, and    *)
(* nothing is loaded or unloaded while one is drawn.                       *)
(***************************************************************************)
CONSTANT Thread

VARIABLES
  inside,   \* the threads inside the addon
  loaded,   \* the last call to begin was Load()
  doing,    \* the call under way: "nothing", "load" or "unload"
  drawing   \* a frame is being drawn

vars == <<inside, loaded, doing, drawing>>

Init ==
  /\ inside = {}
  /\ loaded = FALSE
  /\ doing = "nothing"
  /\ drawing = FALSE

BeginLoad(t) ==
  /\ inside = {}
  /\ ~loaded
  /\ inside' = {t}
  /\ loaded' = TRUE
  /\ doing' = "load"
  /\ UNCHANGED drawing

BeginUnload(t) ==
  /\ inside = {}
  /\ loaded
  /\ inside' = {t}
  /\ loaded' = FALSE
  /\ doing' = "unload"
  /\ UNCHANGED drawing

\* Also one that Nexus asks for from inside a Load().
BeginFrame(t) ==
  /\ inside \subseteq {t}
  /\ loaded
  /\ ~drawing
  /\ inside' = {t}
  /\ drawing' = TRUE
  /\ UNCHANGED <<loaded, doing>>

EndFrame(t) ==
  /\ inside = {t}
  /\ drawing
  /\ inside' = IF doing = "nothing" THEN {} ELSE {t}
  /\ drawing' = FALSE
  /\ UNCHANGED <<loaded, doing>>

\* The call under way ends, whether or not it threw.
EndCall(t) ==
  /\ inside = {t}
  /\ ~drawing
  /\ doing # "nothing"
  /\ inside' = {}
  /\ doing' = "nothing"
  /\ UNCHANGED <<loaded, drawing>>

Next ==
  \E t \in Thread :
    BeginLoad(t) \/ BeginUnload(t) \/ BeginFrame(t) \/ EndFrame(t) \/ EndCall(t)

Spec == Init /\ [][Next]_vars

-----------------------------------------------------------------------------

\* One thread at most is inside, and a frame is of an addon that is loaded and
\* is not being unloaded.
OneInside ==
  /\ \A t, u \in inside : t = u
  /\ drawing => loaded
  /\ doing = "unload" => ~loaded
  /\ inside = {} <=> doing = "nothing" /\ ~drawing

\* From the first to the last step of a frame nobody loads or unloads.
FrameIsUndisturbed == [][drawing => UNCHANGED <<loaded, doing>>]_vars

=============================================================================
