----------------------------- MODULE Connection -----------------------------
(***************************************************************************)
(* The WebSocket of an app: connect(), close() and reconnects              *)
(* (chat-transport/client.ts) and who calls them: the session and the      *)
(* app's state (mobile transport.tsx).                                     *)
(*                                                                         *)
(* connect() awaits the token, and the close event of a socket comes some  *)
(* time after close(): what they find may not be what they left.           *)
(***************************************************************************)
EXTENDS Naturals, FiniteSets

CONSTANTS
  Sockets,      \* bound: WebSockets there are at one time
  Timers,       \* bound: setTimeout calls that wait at one time
  MaxAwaiting   \* bound: connect() calls that wait for the token at one time

ASSUME ConnectionAssumption == 0 \notin Sockets \cup Timers /\ MaxAwaiting \in Nat

VARIABLES
  session, app, \* a user is signed in; the AppState
  state,        \* the ConnectionState
  ws, socket,   \* the socket in use (0 for null); socket[s]: what socket s is
  timer, timers,\* reconnectTimer (0 for null); the timeouts that wait
  explicitlyClosed,
  awaiting,     \* connect() calls that wait for the token
  outlived,     \* history: a connect() was waiting when close() was called
  overtaken,    \* history: the close event of a socket came after the next connect()
  twoTimers     \* history: a reconnect was scheduled while another was

connectionVars == <<session, app, state, ws, socket, timer, timers, explicitlyClosed,
                    awaiting, outlived, overtaken, twoTimers>>

Alive == {s \in Sockets : socket[s] \in {"opening", "open"}}

ConnectionInit ==
  /\ session = FALSE /\ app = "active"
  /\ state = "idle" /\ ws = 0 /\ socket = [s \in Sockets |-> "none"]
  /\ timer = 0 /\ timers = {}
  /\ explicitlyClosed = FALSE /\ awaiting = 0
  /\ outlived = FALSE /\ overtaken = FALSE /\ twoTimers = FALSE

-----------------------------------------------------------------------------
\* connect() up to its first await, close(), and the timers

BusyNever == FALSE                      \* a mutant: a connect() never finds another
Busy == state \in {"open", "connecting"}

Connect ==
  IF Busy THEN UNCHANGED <<state, explicitlyClosed, awaiting>>
  ELSE /\ awaiting < MaxAwaiting /\ awaiting' = awaiting + 1
       /\ explicitlyClosed' = FALSE /\ state' = "connecting"

TimersKept == UNCHANGED <<timer, timers>>       \* a mutant: a reconnect stays scheduled
ClearTimers == timer' = 0 /\ timers' = timers \ {timer}

Close ==
  /\ explicitlyClosed' = TRUE
  /\ ClearTimers
  /\ socket' = IF ws = 0 THEN socket ELSE [socket EXCEPT ![ws] = "closing"]
  /\ ws' = 0 /\ state' = "closed"
  /\ outlived' = (outlived \/ awaiting > 0)

\* scheduleReconnect(), `running` being the timeouts that still wait. The handle of
\* an earlier one is written over.
Reconnect(running) ==
  /\ state' = "reconnecting"
  /\ timer' \in Timers \ running /\ timers' = running \cup {timer'}
  /\ twoTimers' = (twoTimers \/ running # {})

-----------------------------------------------------------------------------
\* The callers

SignIn ==
  /\ ~session /\ session' = TRUE /\ Connect
  /\ UNCHANGED <<app, ws, socket, timer, timers, outlived, overtaken, twoTimers>>

SignOut ==
  /\ session /\ session' = FALSE /\ Close
  /\ UNCHANGED <<app, awaiting, overtaken, twoTimers>>

\* The app closes on its way from active to background, but not over inactive.
ToActive ==
  /\ app # "active" /\ app' = "active"
  /\ IF session THEN Connect ELSE UNCHANGED <<state, explicitlyClosed, awaiting>>
  /\ UNCHANGED <<session, ws, socket, timer, timers, outlived, overtaken, twoTimers>>

ToBackground ==
  /\ app # "background" /\ app' = "background"
  /\ IF session /\ app = "active" THEN Close
     ELSE UNCHANGED <<state, explicitlyClosed, timer, timers, socket, ws, outlived>>
  /\ UNCHANGED <<session, awaiting, overtaken, twoTimers>>

ToInactive ==
  /\ app # "inactive" /\ app' = "inactive"
  /\ UNCHANGED <<session, state, ws, socket, timer, timers, explicitlyClosed, awaiting,
                 outlived, overtaken, twoTimers>>

\* A timeout ends.
Fire(t) ==
  /\ t \in timers /\ timers' = timers \ {t}
  /\ Connect
  /\ UNCHANGED <<session, app, ws, socket, timer, outlived, overtaken, twoTimers>>

-----------------------------------------------------------------------------
\* connect() goes on

\* With a token a socket is made, whatever happened since.
Token(s) ==
  /\ awaiting > 0 /\ awaiting' = awaiting - 1
  /\ socket[s] = "none"
  /\ socket' = [socket EXCEPT ![s] = "opening"] /\ ws' = s
  /\ UNCHANGED <<session, app, state, timer, timers, explicitlyClosed, outlived, overtaken,
                 twoTimers>>

NoToken ==
  /\ awaiting > 0 /\ awaiting' = awaiting - 1
  /\ state' = "closed"
  /\ UNCHANGED <<session, app, ws, socket, timer, timers, explicitlyClosed, outlived,
                 overtaken, twoTimers>>

\* getToken() throws: nothing catches it, and the state stays.
TokenFails ==
  /\ awaiting > 0 /\ awaiting' = awaiting - 1
  /\ UNCHANGED <<session, app, state, ws, socket, timer, timers, explicitlyClosed, outlived,
                 overtaken, twoTimers>>

\* getDeviceId() or the constructor throws.
ConnectFails ==
  /\ awaiting > 0 /\ awaiting' = awaiting - 1
  /\ IF explicitlyClosed THEN UNCHANGED <<state, timer, timers, twoTimers>>
     ELSE Reconnect(timers)
  /\ UNCHANGED <<session, app, ws, socket, explicitlyClosed, outlived, overtaken>>

-----------------------------------------------------------------------------
\* Events of the sockets, the one in use or not

OnOpen(s) ==
  /\ socket[s] = "opening" /\ socket' = [socket EXCEPT ![s] = "open"]
  /\ state' = "open"
  /\ UNCHANGED <<session, app, ws, timer, timers, explicitlyClosed, awaiting, outlived,
                 overtaken, twoTimers>>

\* The close that close() asked for, or the end of the connection.
OnClose(s) ==
  /\ socket[s] # "none" /\ socket' = [socket EXCEPT ![s] = "none"]
  /\ ws' = 0
  /\ IF explicitlyClosed
     THEN state' = "closed" /\ ClearTimers /\ UNCHANGED twoTimers
     ELSE Reconnect(timers \ {timer})
  /\ overtaken' = (overtaken \/ (s # ws /\ ~explicitlyClosed))
  /\ UNCHANGED <<session, app, explicitlyClosed, awaiting, outlived>>

-----------------------------------------------------------------------------
ConnectionNext ==
  \/ SignIn \/ SignOut \/ ToActive \/ ToBackground \/ ToInactive
  \/ \E t \in Timers : Fire(t)
  \/ NoToken \/ TokenFails \/ ConnectFails
  \/ \E s \in Sockets : Token(s) \/ OnOpen(s) \/ OnClose(s)

ConnectionSpec == ConnectionInit /\ [][ConnectionNext]_connectionVars

-----------------------------------------------------------------------------
\* Properties

ConnectionTypeOK ==
  /\ session \in BOOLEAN /\ app \in {"active", "inactive", "background"}
  /\ state \in {"idle", "connecting", "open", "reconnecting", "closed"}
  /\ ws \in Sockets \cup {0} /\ timer \in Timers \cup {0} /\ timers \subseteq Timers
  /\ socket \in [Sockets -> {"none", "opening", "open", "closing"}]
  /\ explicitlyClosed \in BOOLEAN /\ awaiting \in Nat
  /\ outlived \in BOOLEAN /\ overtaken \in BOOLEAN /\ twoTimers \in BOOLEAN

\* When the state says open there is one socket, it is open, and frames go to it.
\* There are two ways out of that: a connect() that was waiting for its token when
\* close() was called goes on, beside the connect() after it (client.ts:225-231), and
\* the close event of the last socket takes the new one for its own and forgets it,
\* so that frames are dropped on an open connection (client.ts:275-283).
OpenIsUsable ==
  state = "open" => (ws # 0 /\ socket[ws] = "open" /\ Alive = {ws}) \/ outlived \/ overtaken

\* After close() nothing connects again by itself: there is no socket and no timer,
\* unless a connect() was waiting, an earlier socket was forgotten, or a reconnect was
\* scheduled over the handle of another (client.ts:151-163, 286-297).
ClosedIsQuiet ==
  explicitlyClosed =>
    (Alive = {} /\ timers = {}) \/ outlived \/ overtaken \/ twoTimers

=============================================================================
