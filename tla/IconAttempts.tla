---------------------------- MODULE IconAttempts ----------------------------
(***************************************************************************)
(* What the cache of icons promises of each icon, with no thread, queue,   *)
(* lock or reload in sight: attempts to get it follow one another, an      *)
(* attempt that brings nothing is followed by a pause, and its file is     *)
(* written once, whole or cut short, and never touched again.              *)
(***************************************************************************)
CONSTANT Url

VARIABLES
  attempt,  \* of each icon: "none", "queued", "made" or, after one, "pause"
  disk      \* the file of each icon: "none", "writing", "short" or "whole"

vars == <<attempt, disk>>

Init ==
  /\ attempt = [u \in Url |-> "none"]
  /\ disk = [u \in Url |-> "none"]

Ask(u) ==
  /\ attempt[u] = "none"
  /\ attempt' = [attempt EXCEPT ![u] = "queued"]
  /\ UNCHANGED disk

Begin(u) ==
  /\ attempt[u] = "queued"
  /\ attempt' = [attempt EXCEPT ![u] = "made"]
  /\ UNCHANGED disk

\* Only a file that does not exist is opened ...
Open(u) ==
  /\ attempt[u] = "made"
  /\ disk[u] = "none"
  /\ disk' = [disk EXCEPT ![u] = "writing"]
  /\ UNCHANGED attempt

\* ... and what becomes of it then is for good.
Close(u) ==
  /\ attempt[u] = "made"
  /\ disk[u] = "writing"
  /\ disk' \in {[disk EXCEPT ![u] = how] : how \in {"whole", "short"}}
  /\ UNCHANGED attempt

\* There is a pause exactly when there is still no file.
End(u) ==
  /\ attempt[u] = "made"
  /\ disk[u] # "writing"
  /\ attempt' = [attempt EXCEPT ![u] = IF disk[u] = "none" THEN "pause" ELSE "none"]
  /\ UNCHANGED disk

PauseOver(u) ==
  /\ attempt[u] = "pause"
  /\ attempt' = [attempt EXCEPT ![u] = "none"]
  /\ UNCHANGED disk

EndOfProcess ==
  /\ attempt' = [u \in Url |-> "none"]
  /\ disk' = [u \in Url |-> IF disk[u] = "writing" THEN "short" ELSE disk[u]]

Next ==
  \/ \E u \in Url : Ask(u) \/ Begin(u) \/ Open(u) \/ Close(u) \/ End(u) \/ PauseOver(u)
  \/ EndOfProcess

Spec == Init /\ [][Next]_vars

=============================================================================
