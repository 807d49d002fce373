------------------------------ MODULE MCServer ------------------------------
(* Instances of Requests and Transport, the two halves of NodeServer, for TLC. *)
EXTENDS Requests

CONSTANTS Nil, ca, p1, p2

VARIABLES
  net, connecting, late, blocked, delayed, paused,   \* of Transport
  setting   \* which of them moves, with which constants; never changes

transportVars == <<net, connecting, late, blocked, delayed, paused>>

\* Room for one request and one waiter.
Full1 == INSTANCE Requests WITH Command <- {ca}, Capacity <- 1, MaxWaiters <- 1

Frame(n, size, retry) == [id |-> n, size |-> size, retry |-> retry]

\* One peer and the fault operations, or two peers over TLS.
Plain == INSTANCE Transport WITH
  Slot <- {1, 2, 3}, Peer <- <<p1>>, TLS <- FALSE, TestMode <- TRUE,
  Message <- {Frame(1, 1, TRUE)}, Response <- {Frame(3, 1, FALSE)},
  Hello <- Frame(0, 1, FALSE), MaxSessions <- 2, MaxClients <- 1, MaxFrames <- 2,
  SessionBytes <- 2, GlobalBytes <- 3, ClientBytes <- 1
Secure == INSTANCE Transport WITH
  Slot <- {1, 2, 3}, Peer <- <<p1, p2>>, TLS <- TRUE, TestMode <- FALSE,
  Message <- {Frame(2, 1, FALSE)}, Response <- {Frame(3, 1, FALSE)},
  Hello <- Frame(0, 1, FALSE), MaxSessions <- 2, MaxClients <- 1, MaxFrames <- 2,
  SessionBytes <- 2, GlobalBytes <- 3, ClientBytes <- 1

Settings ==
  /\ Init
  /\ Plain!Init
  /\ setting \in {"requests", "full", "plain", "secure"}

NextInSetting ==
  /\ UNCHANGED setting
  /\ \/ setting = "requests" /\ Next /\ UNCHANGED transportVars
     \/ setting = "full" /\ Full1!Next /\ UNCHANGED transportVars
     \/ setting = "plain" /\ Plain!Next /\ UNCHANGED vars
     \/ setting = "secure" /\ Secure!Next /\ UNCHANGED vars

\* Fairness of Requests; what is asked of Transport needs none.
SettingsSpec ==
  /\ Settings
  /\ [][NextInSetting]_<<vars, transportVars, setting>>
  /\ \A id \in 1..MaxRequests :
       /\ WF_vars(setting = "requests" /\ Expire(id))
       /\ WF_vars(setting = "requests" /\ \E full \in Full : TimerFires(id, full))

-----------------------------------------------------------------------------
(* Properties. *)

\* The budget is exactly the frames still held, so a retired session's write
\* neither leaks its bytes nor gives them back twice (OutboundQueue).
BudgetIsHeld == Plain!BudgetIsHeld

\* No request is left hanging: it is answered or its session is over
\* (the timer of every waiter).
EveryRequestEnds ==
  \A c \in 1..MaxRequests :
    (setting = "requests" /\ c \in DOMAIN asked) ~>
      (c \in DOMAIN asked /\ (server.answers[c] # <<>> \/ asked[c].session \in server.closed))

\* A peer is marked as being dialled exactly while one connect or one
\* handshake of that dial is under way, so that it can always be dialled
\* again (dial_missing, retire).
DialsAccounted == IF setting = "plain" THEN Plain!DialsAccounted ELSE Secure!DialsAccounted

===============================================================================
