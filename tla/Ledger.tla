------------------------------- MODULE Ledger -------------------------------
(***************************************************************************)
(* What a farming session promises, with no thread, frame, lock or file in *)
(* sight: a ledger of drops with two columns, the items and the currencies *)
(* of each drop.                                                           *)
(*                                                                         *)
(* A drop is entered once, in the order of arrival and in both columns at  *)
(* once.  A reset clears the ledger and leaves what waits to be entered.   *)
(* Copies of a column are kept against the end of the process, and what is *)
(* restored afterwards is a column the ledger once had.                    *)
(***************************************************************************)
EXTENDS Naturals, Sequences

CONSTANT Drop

VARIABLES
  arrived,        \* how many drops have arrived
  queue,          \* those waiting to be entered
  items,          \* the drops entered in the items column
  currencies,     \* ... and in the currencies column
  keptItems,      \* the copies of the items column that may come back
  keptCurrencies  \* ... and of the currencies column

columns == <<items, currencies>>
kept    == <<keptItems, keptCurrencies>>
vars    == <<arrived, queue, columns, kept>>

Init ==
  /\ arrived = 0
  /\ queue = <<>>
  /\ items = {}
  /\ currencies = {}
  /\ keptItems = {{}}
  /\ keptCurrencies = {{}}

Arrive ==
  /\ arrived + 1 \in Drop
  /\ arrived' = arrived + 1
  /\ queue' = Append(queue, arrived')
  /\ UNCHANGED <<columns, kept>>

Enter ==
  /\ queue # <<>>
  /\ Head(queue) \notin items \cup currencies
  /\ items' = items \cup {Head(queue)}
  /\ currencies' = currencies \cup {Head(queue)}
  /\ queue' = Tail(queue)
  /\ UNCHANGED <<arrived, kept>>

\* Each column is copied at a moment of its own, old copies go at any time, and
\* there may always be an empty one.
Keep ==
  /\ keptItems' \subseteq keptItems \cup {items, {}}
  /\ keptCurrencies' \subseteq keptCurrencies \cup {currencies, {}}
  /\ UNCHANGED <<arrived, queue, columns>>

Reset ==
  /\ items' = {}
  /\ currencies' = {}
  /\ keptItems' \subseteq keptItems \cup {{}}
  /\ keptCurrencies' \subseteq keptCurrencies \cup {{}}
  /\ UNCHANGED <<arrived, queue>>

Restore ==
  /\ items' \in keptItems
  /\ currencies' \in keptCurrencies
  /\ UNCHANGED <<arrived, queue, kept>>

EndOfProcess ==
  /\ queue' = <<>>
  /\ items' = {}
  /\ currencies' = {}
  /\ keptItems' \subseteq keptItems \cup {{}}
  /\ keptCurrencies' \subseteq keptCurrencies \cup {{}}
  /\ UNCHANGED arrived

Next == Arrive \/ Enter \/ Keep \/ Reset \/ Restore \/ EndOfProcess

Spec == Init /\ [][Next]_vars

-----------------------------------------------------------------------------

\* What waits is what arrived last, without a gap and in the order of arrival;
\* all that is entered, or kept and may come back, arrived before it.
InOrder ==
  /\ Len(queue) <= arrived
  /\ \A n \in DOMAIN queue : queue[n] = arrived - Len(queue) + n
  /\ \A d \in items \cup currencies \cup UNION (keptItems \cup keptCurrencies) :
       d <= arrived - Len(queue)

=============================================================================
