-------------------------- MODULE SessionDurability --------------------------
(***************************************************************************)
(* What session.json is for: "an addon reload or game crash would silently *)
(* wipe a farming session's progress" without it.  SessionStore, with two  *)
(* history variables that change no behaviour: the drops that have been on *)
(* disk since the last reset, and whether a write was ever cut short.      *)
(***************************************************************************)
EXTENDS SessionStore

VARIABLES
  persisted,  \* drops of this session that session.json has held
  cutShort    \* a save ended, or its process did, between open and last byte

historyVars == <<vars, persisted, cutShort>>

\* session.json parses and gives back drop d.
OnDisk(d) ==
  /\ Complete
  /\ ~Mixed
  /\ file.items.map[d] > 0
  /\ file.currencies.map[d] > 0

InWrite(s) == save[s].pc \in {"opened", "half"}

HInit == Init /\ persisted = {} /\ cutShort = FALSE

HNext ==
  /\ Next
  /\ persisted' = IF ResetStep
                    THEN {}
                    ELSE persisted \cup {d \in Drop : items'[d] > 0 /\ OnDisk(d)'}
  /\ cutShort' = (\/ cutShort
                  \/ \E s \in Saver : InWrite(s) /\ (SaveFails(s) \/ EndOfProcess))

HSpec == HInit /\ [][HNext]_historyVars /\ Fairness

-----------------------------------------------------------------------------

\* What Load() finds once it has read the file.
Restored == main = "loadCheck" => \A d \in persisted : items[d] > 0

\* A drop that session.json has held comes back with the next Load(), after a
\* crash too: the purpose main.cpp states for the file.  It is not so: each
\* save truncates the file first, and a crash then finds it empty
\* (SaveSessionState).
CrashKeepsProgress == Restored

\* The truncated file is the only way progress is lost: unless a save or its
\* process ended inside the write, what was on disk comes back, also when two
\* savers raced (SaveSessionState, LoadSessionState).
LostOnlyInTheWrite == ~cutShort => Restored

=============================================================================
