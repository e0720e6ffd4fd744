------------------------------ MODULE DropFeed ------------------------------
(***************************************************************************)
(* The connection to drf.rs (DrfClient).  SetToken() and Stop() run on the *)
(* thread that calls them, statement by statement; OnMessage() runs on the *)
(* socket's own thread, which stop() joins.  The drops themselves, once    *)
(* received, are SessionStore's.                                           *)
(*                                                                         *)
(* Lifecycle calls the statements; this module has them and the events.    *)
(***************************************************************************)

CONSTANTS
  Token,    \* the tokens a user may enter
  BadToken, \* those drf.rs refuses
  NoToken   \* the empty token

ASSUME BadTokenAssumption == BadToken \subseteq Token
ASSUME NoTokenAssumption == NoToken \notin Token

VARIABLES
  token,   \* _token
  status,  \* _status
  link,    \* the socket: "off", "trying" to connect or "open"
  sent     \* the token sent over the open link

feedVars == <<token, status, link, sent>>

Status == {"Disconnected", "Connecting", "Connected", "AuthFailed"}

FeedTypeOK ==
  /\ token \in Token \cup {NoToken}
  /\ status \in Status
  /\ link \in {"off", "trying", "open"}
  /\ sent \in Token \cup {NoToken}

FeedInit ==
  /\ token = NoToken
  /\ status = "Disconnected"
  /\ link = "off"
  /\ sent = NoToken

-----------------------------------------------------------------------------
(* The statements of SetToken() and Stop(). *)

\* Under _tokenMutex.
StoreToken(t) ==
  /\ token' = t
  /\ UNCHANGED <<status, link, sent>>

\* Slip: the reason is not looked at.
ClosedAnyway(refused) == "Connecting"

\* What Close leaves in _status, by its reason.
Closed(refused) == IF refused THEN "AuthFailed" ELSE "Connecting"

\* _ws->stop() returns when the socket's thread has ended.  A link that was
\* open is closed on the way, which OnMessage() is told.
StopLink ==
  /\ link' = "off"
  /\ sent' = NoToken
  /\ status' = IF link = "open" THEN Closed(FALSE) ELSE status
  /\ UNCHANGED token

SayDisconnected ==
  /\ status' = "Disconnected"
  /\ UNCHANGED <<token, link, sent>>

\* With a token, the status first and then _ws->start().
StartLink ==
  /\ status' = "Connecting"
  /\ link' = "trying"
  /\ UNCHANGED <<token, sent>>

-----------------------------------------------------------------------------
(* OnMessage(), on the socket's thread. *)

\* Open sends the token of the moment and counts as connected: drf.rs does
\* not answer.
Open ==
  /\ link = "trying"
  /\ link' = "open"
  /\ sent' = token
  /\ status' = "Connected"
  /\ UNCHANGED token

\* Error: no connection yet.  The socket tries again by itself.
Error ==
  /\ link = "trying"
  /\ status' = "Connecting"
  /\ UNCHANGED <<token, link, sent>>

\* Close, by a drf.rs that refuses the token or for any other reason.  The
\* socket tries again by itself, also with a token that was refused.
Close(refused) ==
  /\ link = "open"
  /\ refused => sent \in BadToken
  /\ status' = Closed(refused)
  /\ link' = "trying"
  /\ sent' = NoToken
  /\ UNCHANGED token

Event ==
  \/ Open
  \/ Error
  \/ \E refused \in BOOLEAN : Close(refused)
=============================================================================
