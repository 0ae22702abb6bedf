---------------------------- MODULE DeviceProofs ----------------------------
(***************************************************************************)
(* Theorems about the parts of the app and the demo bot, for every value   *)
(* of the constants.  The parts share no state; each section gives the     *)
(* inductive invariant, the lemmas it needs, its theorem and its types:    *)
(*   Connection      ConnectionInv, sockets, timers and waiting calls      *)
(*   DemoBot         FoundingInv, BotEngineInv, BotCommitInv, OneLobbyInv  *)
(*   Accounts        DatabaseInv (the files and who opens them) and        *)
(*                   EngineInv (the engine's client and its snapshots)     *)
(*   Registration    PushTokensInv and IdentityInv                         *)
(*   Ciphers         SealInv (calls and the cached group) and PeerInv      *)
(***************************************************************************)
EXTENDS Connection, DemoBot, Accounts, Registration, Ciphers, FiniteSetTheorems, TLAPS

-----------------------------------------------------------------------------
(***************************************************************************)
(* The connection.  For any number of sockets, timers and waiting calls,   *)
(* the only ways out of an orderly connection are the ones the history     *)
(* variables name.                                                         *)
(***************************************************************************)

\* No call outlived a close(), and no close event was taken for another socket's.
Orderly == ~outlived /\ ~overtaken

\* A connect() waits alone, and a socket that lives is the one in use.
OneAtATime ==
  /\ awaiting > 0 => state = "connecting" /\ awaiting = 1 /\ ws = 0
  /\ ws = 0 => Alive = {}
  /\ ws # 0 => Alive = {ws} /\ state \in {"connecting", "open"}
  /\ state = "open" => ws # 0 /\ socket[ws] = "open"
  /\ explicitlyClosed => awaiting = 0 /\ ws = 0

\* The handle is that of the only reconnect, and close() left none.
OneTimer ==
  /\ timers \subseteq {timer}
  /\ explicitlyClosed => timers = {}

\* The inductive invariant.
ConnectionInv ==
  /\ ConnectionTypeOK
  /\ Orderly => OneAtATime
  /\ ~twoTimers => OneTimer

-----------------------------------------------------------------------------
LEMMA ConnectionStarts == ASSUME ConnectionInit PROVE ConnectionInv
<1>1. ConnectionTypeOK
  <2>1. awaiting \in Nat
    BY DEF ConnectionInit
  <2> QED BY <2>1, Zenon DEF ConnectionInit, ConnectionTypeOK
<1>2. OneAtATime
  BY DEF ConnectionInit, OneAtATime, Alive
<1>3. OneTimer
  BY DEF ConnectionInit, OneTimer
<1> QED BY <1>1, <1>2, <1>3 DEF ConnectionInv

LEMMA ConnectKeeps ==
  ASSUME ConnectionInv, Connect,
         session' \in BOOLEAN, app' \in {"active", "inactive", "background"},
         timers' \subseteq timers,
         UNCHANGED <<ws, socket, timer, outlived, overtaken, twoTimers>>
  PROVE  ConnectionInv'
<1>1. ConnectionTypeOK'
  <2>1. awaiting' \in Nat
    BY DEF ConnectionInv, ConnectionTypeOK, Connect
  <2>2. explicitlyClosed' \in BOOLEAN /\ timers' \subseteq Timers
        /\ state' \in {"idle", "connecting", "open", "reconnecting", "closed"}
    BY Zenon DEF ConnectionInv, ConnectionTypeOK, Connect
  <2> QED BY <2>1, <2>2, Zenon DEF ConnectionInv, ConnectionTypeOK
<1>2. (Orderly => OneAtATime)'
  BY DEF ConnectionInv, ConnectionTypeOK, Connect, Busy, Orderly, OneAtATime, Alive
<1>3. (~twoTimers => OneTimer)'
  BY DEF ConnectionInv, Connect, OneTimer
<1> QED BY <1>1, <1>2, <1>3 DEF ConnectionInv

LEMMA CloseKeeps ==
  ASSUME ConnectionInv, Close,
         session' \in BOOLEAN, app' \in {"active", "inactive", "background"},
         UNCHANGED <<awaiting, overtaken, twoTimers>>
  PROVE  ConnectionInv'
<1>1. ConnectionTypeOK'
  BY DEF ConnectionInv, ConnectionTypeOK, Close, ClearTimers
<1>2. (Orderly => OneAtATime)'
  <2> SUFFICES ASSUME Orderly' PROVE OneAtATime'
    OBVIOUS
  <2>1. Orderly /\ awaiting = 0
    <3>1. Orderly /\ ~(awaiting > 0)
      BY Zenon DEF Close, Orderly
    <3> QED BY <3>1 DEF ConnectionInv, ConnectionTypeOK
  <2>2. Alive' = {}
    <3>1. CASE ws = 0
      BY <2>1, <3>1 DEF ConnectionInv, OneAtATime, Close, Alive
    <3>2. CASE ws # 0
      BY <2>1, <3>2 DEF ConnectionInv, ConnectionTypeOK, OneAtATime, Close, Alive
    <3> QED BY <3>1, <3>2
  <2> QED BY <2>1, <2>2 DEF Close, OneAtATime
<1>3. (~twoTimers => OneTimer)'
  BY DEF ConnectionInv, Close, ClearTimers, OneTimer
<1> QED BY <1>1, <1>2, <1>3 DEF ConnectionInv

LEMMA CallersKeep ==
  ASSUME ConnectionInv,
         SignIn \/ SignOut \/ ToActive \/ ToBackground \/ ToInactive \/ \E t \in Timers : Fire(t)
  PROVE  ConnectionInv'
<1> DEFINE Wiring == /\ session' \in BOOLEAN
                     /\ app' \in {"active", "inactive", "background"}
<1>1. Wiring
  BY DEF ConnectionInv, ConnectionTypeOK, SignIn, SignOut, ToActive, ToBackground,
         ToInactive, Fire
<1>2. CASE SignIn
  BY <1>1, <1>2, ConnectKeeps DEF SignIn
<1>3. CASE SignOut
  BY <1>1, <1>3, CloseKeeps DEF SignOut
<1>4. CASE ToActive /\ session
  BY <1>1, <1>4, ConnectKeeps DEF ToActive
<1>5. CASE ToBackground /\ session /\ app = "active"
  BY <1>1, <1>5, CloseKeeps DEF ToBackground
<1>6. CASE \E t \in Timers : Fire(t)
  BY <1>1, <1>6, ConnectKeeps DEF Fire
<1>7. ASSUME UNCHANGED <<state, ws, socket, timer, timers, explicitlyClosed, awaiting,
                         outlived, overtaken, twoTimers>>
      PROVE  ConnectionInv'
  <2>1. ConnectionTypeOK'
    BY <1>1, <1>7 DEF ConnectionInv, ConnectionTypeOK
  <2> QED BY <1>7, <2>1 DEF ConnectionInv, Orderly, OneAtATime, OneTimer, Alive
<1>8. CASE (ToActive /\ ~session) \/ (ToBackground /\ ~(session /\ app = "active")) \/ ToInactive
  BY <1>7, <1>8 DEF ToActive, ToBackground, ToInactive
<1> QED BY <1>2, <1>3, <1>4, <1>5, <1>6, <1>8

LEMMA TokenKeeps ==
  ASSUME ConnectionInv, NEW s \in Sockets, Token(s)
  PROVE  ConnectionInv'
<1>1. ConnectionTypeOK'
  BY DEF ConnectionInv, ConnectionTypeOK, Token
<1>2. (Orderly => OneAtATime)'
  <2> SUFFICES ASSUME Orderly' PROVE OneAtATime'
    OBVIOUS
  <2>1. Orderly /\ awaiting = 1 /\ state = "connecting" /\ ws = 0 /\ Alive = {}
        /\ ~explicitlyClosed
    BY DEF ConnectionInv, ConnectionTypeOK, Token, Orderly, OneAtATime
  <2>2. Alive' = {s}
    BY <2>1 DEF ConnectionInv, ConnectionTypeOK, Token, Alive
  <2> QED BY <2>1, <2>2, ConnectionAssumption DEF Token, OneAtATime
<1>3. (~twoTimers => OneTimer)'
  BY DEF ConnectionInv, Token, OneTimer
<1> QED BY <1>1, <1>2, <1>3 DEF ConnectionInv

LEMMA NoSocketKeeps ==
  ASSUME ConnectionInv, NoToken \/ TokenFails \/ ConnectFails
  PROVE  ConnectionInv'
<1>1. ConnectionTypeOK'
  <2>1. awaiting' \in Nat
    BY DEF ConnectionInv, ConnectionTypeOK, NoToken, TokenFails, ConnectFails
  <2>2. /\ UNCHANGED <<session, app, ws, socket, explicitlyClosed, outlived, overtaken>>
        /\ \/ state' \in {state, "closed"} /\ UNCHANGED <<timer, timers, twoTimers>>
           \/ Reconnect(timers)
    BY Zenon DEF NoToken, TokenFails, ConnectFails
  <2>3. ConnectionTypeOK
    BY DEF ConnectionInv
  <2>4. /\ state' \in {"idle", "connecting", "open", "reconnecting", "closed"}
        /\ timer' \in Timers \cup {0} /\ timers' \subseteq Timers
        /\ twoTimers' \in BOOLEAN
    BY <2>2, <2>3, Zenon DEF Reconnect, ConnectionTypeOK
  <2> QED BY <2>1, <2>2, <2>3, <2>4, Zenon DEF ConnectionTypeOK
<1>2. (Orderly => OneAtATime)'
  <2> SUFFICES ASSUME Orderly' PROVE OneAtATime'
    OBVIOUS
  <2>1. /\ awaiting = 1 /\ state = "connecting" /\ ws = 0 /\ Alive = {}
        /\ ~explicitlyClosed
    BY DEF ConnectionInv, ConnectionTypeOK, NoToken, TokenFails, ConnectFails, Orderly,
           OneAtATime
  <2>2. /\ awaiting' = 0 /\ ws' = 0 /\ Alive' = {} /\ ~explicitlyClosed'
        /\ state' \in {"closed", "connecting", "reconnecting"}
    BY <2>1 DEF NoToken, TokenFails, ConnectFails, Reconnect, Alive
  <2> QED BY <2>2 DEF OneAtATime
<1>3. (~twoTimers => OneTimer)'
  BY DEF ConnectionInv, ConnectionTypeOK, NoToken, TokenFails, ConnectFails, Reconnect, OneTimer
<1> QED BY <1>1, <1>2, <1>3 DEF ConnectionInv

LEMMA OnOpenKeeps ==
  ASSUME ConnectionInv, NEW s \in Sockets, OnOpen(s)
  PROVE  ConnectionInv'
<1>1. ConnectionTypeOK'
  BY DEF ConnectionInv, ConnectionTypeOK, OnOpen
<1>2. (Orderly => OneAtATime)'
  <2> SUFFICES ASSUME Orderly' PROVE OneAtATime'
    OBVIOUS
  <2>1. OneAtATime /\ s \in Alive
    BY DEF ConnectionInv, OnOpen, Orderly, Alive
  <2>2. ws = s /\ Alive = {s}
    BY <2>1 DEF OneAtATime
  <2>3. Alive' = Alive /\ socket'[s] = "open"
    BY <2>1 DEF ConnectionInv, ConnectionTypeOK, OnOpen, Alive
  <2> QED BY <2>1, <2>2, <2>3 DEF OnOpen, OneAtATime
<1>3. (~twoTimers => OneTimer)'
  BY DEF ConnectionInv, OnOpen, OneTimer
<1> QED BY <1>1, <1>2, <1>3 DEF ConnectionInv

LEMMA OnCloseKeeps ==
  ASSUME ConnectionInv, NEW s \in Sockets, OnClose(s)
  PROVE  ConnectionInv'
<1>1. ConnectionTypeOK'
  BY DEF ConnectionInv, ConnectionTypeOK, OnClose, Reconnect, ClearTimers
<1>2. (Orderly => OneAtATime)'
  <2> SUFFICES ASSUME Orderly' PROVE OneAtATime'
    OBVIOUS
  <2>1. Orderly /\ OneAtATime /\ (s = ws \/ explicitlyClosed)
    BY DEF ConnectionInv, ConnectionTypeOK, OnClose, Orderly
  <2>2. awaiting = 0
    BY <2>1, ConnectionAssumption DEF ConnectionInv, ConnectionTypeOK, OneAtATime
  <2>3. Alive \subseteq {s}
    BY <2>1 DEF OneAtATime
  <2>4. Alive' = {}
    BY <2>3 DEF ConnectionInv, ConnectionTypeOK, OnClose, Alive
  <2>5. awaiting' = 0 /\ ws' = 0 /\ state' \in {"closed", "reconnecting"}
    BY <2>2 DEF OnClose, Reconnect
  <2> QED BY <2>4, <2>5 DEF OneAtATime
<1>3. (~twoTimers => OneTimer)'
  BY DEF ConnectionInv, ConnectionTypeOK, OnClose, Reconnect, ClearTimers, OneTimer
<1> QED BY <1>1, <1>2, <1>3 DEF ConnectionInv

LEMMA ConnectionStep ==
  ASSUME ConnectionInv, [ConnectionNext]_connectionVars
  PROVE  ConnectionInv'
<1>1. CASE SignIn \/ SignOut \/ ToActive \/ ToBackground \/ ToInactive
           \/ \E t \in Timers : Fire(t)
  BY <1>1, CallersKeep
<1>2. CASE NoToken \/ TokenFails \/ ConnectFails
  BY <1>2, NoSocketKeeps
<1>3. CASE \E s \in Sockets : Token(s) \/ OnOpen(s) \/ OnClose(s)
  BY <1>3, TokenKeeps, OnOpenKeeps, OnCloseKeeps
<1>4. CASE UNCHANGED connectionVars
  <2>1. ConnectionTypeOK'
    BY <1>4 DEF connectionVars, ConnectionInv, ConnectionTypeOK
  <2> QED BY <1>4, <2>1 DEF connectionVars, ConnectionInv, Orderly, OneAtATime, OneTimer, Alive
<1> QED BY <1>1, <1>2, <1>3, <1>4 DEF ConnectionNext

-----------------------------------------------------------------------------
\* An open state has its socket, and only that one, unless a connect() outlived a
\* close() or a late close event was taken for the new socket's
\* (chat-transport/client.ts:149-163, 216-297).
THEOREM OpenStateIsUsable == ConnectionSpec => []OpenIsUsable
<1>1. ASSUME ConnectionInv PROVE OpenIsUsable
  BY <1>1 DEF ConnectionInv, Orderly, OneAtATime, OpenIsUsable
<1>2. ConnectionInit => ConnectionInv
  BY ConnectionStarts
<1>3. ConnectionInv /\ [ConnectionNext]_connectionVars => ConnectionInv'
  BY ConnectionStep
<1> QED BY <1>1, <1>2, <1>3, PTL DEF ConnectionSpec

\* After close() there is neither a socket nor a timer, with the same two exceptions
\* and that of a reconnect scheduled over another (chat-transport/client.ts:155-163,
\* 275-297).
THEOREM ClosedStateIsQuiet == ConnectionSpec => []ClosedIsQuiet
<1>1. ASSUME ConnectionInv PROVE ClosedIsQuiet
  BY <1>1 DEF ConnectionInv, Orderly, OneAtATime, OneTimer, ClosedIsQuiet
<1>2. ConnectionInit => ConnectionInv
  BY ConnectionStarts
<1>3. ConnectionInv /\ [ConnectionNext]_connectionVars => ConnectionInv'
  BY ConnectionStep
<1> QED BY <1>1, <1>2, <1>3, PTL DEF ConnectionSpec

LEMMA ConnectionTypesHold == ConnectionSpec => []ConnectionTypeOK
<1>1. ConnectionInv => ConnectionTypeOK
  BY DEF ConnectionInv
<1>2. ConnectionInit => ConnectionInv
  BY ConnectionStarts
<1>3. ConnectionInv /\ [ConnectionNext]_connectionVars => ConnectionInv'
  BY ConnectionStep
<1> QED BY <1>1, <1>2, <1>3, PTL DEF ConnectionSpec

-----------------------------------------------------------------------------
\* The demo bot

Founding == {"mirror", "group", "tie"}
Joining  == {"row", "fetch", "add", "publish", "welcome"}
BotPcs   == {"look", "create", "save", "link"} \cup Founding \cup Joining
BotJob   == [pc : BotPcs, who : Visitors, lobby : 0 .. MaxLaunches, group : 0 .. MaxLaunches]
LobbyRow == [users : SUBSET Visitors, group : 0 .. MaxLaunches]

BotTypes ==
  /\ job = NoJob \/ job \in BotJob
  /\ launches \in 0 .. MaxLaunches
  /\ lobbies \in Seq(LobbyRow)
  /\ mirror \in [GroupIds -> Int] /\ engineNow \in [GroupIds -> Int]
  /\ engineSaved \in [GroupIds -> Int] /\ commits \in [GroupIds -> SUBSET Int]
  /\ welcomed \subseteq [who : Visitors, group : GroupIds, epoch : Int]
  /\ outcome \in [Visitors -> {"none", "cut", "keyless", "failed", "added"}]

\* The lobby of the run, on the server and in the state file: a run founds at most one.
FoundingInv ==
  /\ Len(lobbies) <= launches /\ (job.pc \in {"look", "create"} => Len(lobbies) < launches)
  /\ \A i \in GroupIds : mirror[i] # Absent => mirror[i] \in {0, i} /\ i <= Len(lobbies)
  /\ job.pc \in BotPcs \ {"look", "create"} => job.lobby \in 1 .. Len(lobbies)
  /\ job.pc = "mirror" => mirror[job.lobby] = Absent
  /\ job.pc \in {"group", "tie"} => mirror[job.lobby] = 0
  /\ job.pc = "tie" => job.group = job.lobby
  /\ job.pc \in {"save", "link"} \cup Joining =>
       job.group = job.lobby /\ mirror[job.lobby] = job.lobby
  /\ job.pc \in BotPcs \ {"look", "create", "row"} => job.who \in lobbies[job.lobby].users

\* The engine and its snapshot. What ties a lobby to its group is written before the
\* snapshot that has the group, and the link on the server after it.
BotEngineInv ==
  /\ job.pc \in BotPcs => \A g \in GroupIds :
       engineNow[g] = engineSaved[g] \/ (job.pc \in {"tie", "save"} /\ g = job.lobby)
  /\ job.pc \in {"tie", "save"} => engineNow[job.lobby] = 0 /\ engineSaved[job.lobby] = Absent
  /\ \A g \in GroupIds : engineSaved[g] # Absent => engineSaved[g] >= 0 /\ mirror[g] = g
  /\ \A g \in GroupIds : mirror[g] = g =>
       engineSaved[g] # Absent \/ (job.pc = "save" /\ g = job.lobby) \/ "save" \in cut
  /\ \A g \in GroupIds : engineSaved[g] # Absent =>
       lobbies[g].group = g \/ (job.pc = "link" /\ g = job.lobby) \/ "link" \in cut
  /\ job.pc \in {"link", "welcome"} => engineSaved[job.lobby] # Absent
  /\ job.pc = "publish" => engineSaved[job.lobby] >= 1

\* The epochs that are published, against the one in the snapshot: a run publishes the
\* one it has just saved.
Publishes(j, g) == j.pc = "publish" /\ j.lobby = g
BotCommitInv ==
  /\ \A g \in GroupIds : \A e \in commits[g] :
       1 <= e /\ e <= engineSaved[g] /\ (Publishes(job, g) => e < engineSaved[g])
  /\ "publish" \in cut \/ \A g \in GroupIds : \A e \in Int :
       1 <= e /\ e <= engineSaved[g] =>
         e \in commits[g] \/ (Publishes(job, g) /\ e = engineSaved[g])

\* There is one lobby as long as no run is cut short while it founds one.
OneLobbyInv ==
  /\ job.pc = "create" => Founded = {}
  /\ cut \cap Founding = {} =>
       Len(lobbies) <= 1 /\ (Len(lobbies) = 1 => Founded # {} \/ job.pc \in Founding)

BotInv == /\ BotTypes /\ FoundingInv /\ BotEngineInv /\ BotCommitInv /\ OneLobbyInv
          /\ AddedIsMember /\ RetriesSucceed

LEMMA NoJobIsNone == NoJob.pc = "none" /\ NoJob.pc \notin BotPcs
  BY DEF NoJob, BotPcs, Founding, Joining

LEMMA JobGoes ==
  ASSUME NEW j \in BotJob, NEW p \in BotPcs
  PROVE  /\ [j EXCEPT !.pc = p] \in BotJob
         /\ [j EXCEPT !.pc = p].pc = p /\ [j EXCEPT !.pc = p].who = j.who
         /\ [j EXCEPT !.pc = p].lobby = j.lobby /\ [j EXCEPT !.pc = p].group = j.group
  BY DEF BotJob

\* A row of the table of chats that is replaced.
LEMMA RowsWith ==
  ASSUME NEW S \in Seq(LobbyRow), NEW l \in 1 .. Len(S), NEW r \in LobbyRow, NEW T,
         T = [S EXCEPT ![l] = r]
  PROVE  /\ T \in Seq(LobbyRow) /\ Len(T) = Len(S) /\ DOMAIN T = DOMAIN S /\ T[l] = r
         /\ \A i \in DOMAIN S : i # l => T[i] = S[i]
  OBVIOUS

LEMMA RowIs ==
  ASSUME NEW r \in LobbyRow, NEW U \in SUBSET Visitors, NEW g \in 0 .. MaxLaunches
  PROVE  /\ [r EXCEPT !.users = U] \in LobbyRow /\ [r EXCEPT !.users = U].users = U
         /\ [r EXCEPT !.users = U].group = r.group
         /\ [r EXCEPT !.group = g] \in LobbyRow /\ [r EXCEPT !.group = g].group = g
         /\ [r EXCEPT !.group = g].users = r.users
  BY DEF LobbyRow

LEMMA RunsAreJobs == ASSUME BotTypes, job.pc \in BotPcs PROVE job \in BotJob
  BY NoJobIsNone DEF BotTypes

\* A step of a run to the next place, p.
Steps(p) == /\ job.pc \in BotPcs /\ job \in BotJob /\ job' \in BotJob
            /\ job'.pc = p /\ job'.who = job.who /\ job'.lobby = job.lobby /\ job'.group = job.group
            /\ UNCHANGED <<launches, outcome, cut>>

LEMMA GoesSteps ==
  ASSUME NEW p \in BotPcs, BotTypes, job.pc \in BotPcs, Goes(p) PROVE Steps(p)
  BY RunsAreJobs, JobGoes DEF Goes, Steps

\* What a run that ends leaves: nothing it was about to write counts.
LEMMA EndsKeep ==
  ASSUME BotInv, NEW how \in {"cut", "keyless", "failed", "added"}, Ends(how),
         UNCHANGED <<stateFileVars, engineNow, lobbies, commits>>,
         job.pc \in {"fetch", "add"}, welcomed' = welcomed,
         how # "added", how = "failed" => "save" \in cut
  PROVE  BotInv'
<1>1. /\ job' = NoJob /\ job'.pc = "none" /\ job.pc \in BotPcs /\ job \in BotJob
      /\ outcome' = [outcome EXCEPT ![job.who] = how] /\ UNCHANGED <<launches, cut>>
      /\ UNCHANGED <<mirror, engineSaved, engineNow, lobbies, commits>> /\ job.who \in Visitors
  BY NoJobIsNone, RunsAreJobs DEF Ends, stateFileVars, BotInv, BotPcs, Joining, BotJob
<1>2. BotTypes'
  BY <1>1 DEF BotInv, BotTypes
<1>3. FoundingInv'
  BY <1>1 DEF BotInv, FoundingInv, BotPcs, Founding, Joining
<1>4. BotEngineInv'
  BY <1>1 DEF BotInv, BotEngineInv, BotPcs, Founding, Joining
<1>5. BotCommitInv'
  BY <1>1 DEF BotInv, BotCommitInv, Publishes
<1>6. OneLobbyInv'
  BY <1>1 DEF BotInv, OneLobbyInv, Founding, Founded
<1>7. AddedIsMember'
  BY <1>1 DEF BotInv, BotTypes, AddedIsMember
<1>8. RetriesSucceed'
  BY <1>1 DEF BotInv, BotTypes, RetriesSucceed
<1> QED BY <1>2, <1>3, <1>4, <1>5, <1>6, <1>7, <1>8 DEF BotInv

\* A run that has a lobby has the number of one.
LEMMA RunsInRange ==
  ASSUME BotInv, job.pc \in BotPcs \ {"look", "create"}
  PROVE  job.lobby \in GroupIds /\ job.lobby \in 1 .. Len(lobbies)
<1>1. job.lobby \in 1 .. Len(lobbies) /\ Len(lobbies) <= launches
  BY DEF BotInv, FoundingInv
<1>2. Len(lobbies) \in Nat /\ launches \in 0 .. MaxLaunches
  BY DEF BotInv, BotTypes
<1> QED BY <1>1, <1>2, DemoBotAssumption DEF GroupIds

\* Who was added belongs to a lobby that is tied to its group.
LEMMA AddedIsTied ==
  ASSUME BotInv, NEW u \in Visitors, outcome[u] = "added"
  PROVE  \E i \in DOMAIN lobbies \cap GroupIds :
           /\ mirror[i] = i /\ u \in lobbies[i].users
           /\ \E w \in welcomed : w.who = u /\ w.group = i
           /\ lobbies[i].group = i \/ "link" \in cut
<1>1. PICK i \in DOMAIN lobbies, w \in welcomed :
        /\ u \in lobbies[i].users /\ w.who = u /\ w.group = mirror[i]
        /\ lobbies[i].group = mirror[i] \/ "link" \in cut
  BY DEF BotInv, AddedIsMember
<1>2. i \in GroupIds
  <2>1. Len(lobbies) \in Nat /\ launches \in 0 .. MaxLaunches /\ Len(lobbies) <= launches
        /\ DOMAIN lobbies = 1 .. Len(lobbies)
    BY DEF BotInv, BotTypes, FoundingInv
  <2> QED BY <2>1, DemoBotAssumption DEF GroupIds
<1>3. mirror[i] = i
  <2>1. mirror[i] \in GroupIds
    BY <1>1 DEF BotInv, BotTypes
  <2>2. mirror[i] # Absent /\ mirror[i] # 0
    BY <2>1 DEF GroupIds, Absent
  <2> QED BY <1>2, <2>2 DEF BotInv, FoundingInv
<1> QED BY <1>1, <1>2, <1>3

LEMMA SavedHasRow ==
  ASSUME BotInv, NEW g \in GroupIds, engineSaved[g] # Absent PROVE g \in DOMAIN lobbies
<1>1. mirror[g] = g
  BY DEF BotInv, BotEngineInv
<1>2. mirror[g] # Absent
  BY <1>1 DEF GroupIds, Absent
<1>3. g <= Len(lobbies)
  BY <1>2 DEF BotInv, FoundingInv
<1>4. Len(lobbies) \in Nat /\ DOMAIN lobbies = 1 .. Len(lobbies)
  BY DEF BotInv, BotTypes
<1> QED BY <1>3, <1>4 DEF GroupIds

LEMMA PublishesKeysKeeps == ASSUME BotInv, NEW u \in Visitors, PublishesKeys(u) PROVE BotInv'
<1>1. /\ UNCHANGED <<lobbies, mirror, engineNow, engineSaved, commits, welcomed, job, launches>>
      /\ UNCHANGED <<outcome, cut>>
  BY DEF PublishesKeys
<1> QED BY <1>1 DEF BotInv, BotTypes, FoundingInv, BotEngineInv, BotCommitInv, OneLobbyInv,
                    AddedIsMember, RetriesSucceed, Founded

LEMMA LaunchKeeps == ASSUME BotInv, NEW u \in Visitors, Launch(u) PROVE BotInv'
<1>1. /\ job = NoJob /\ job.pc = "none" /\ launches' = launches + 1 /\ launches < MaxLaunches
      /\ engineNow' = engineSaved
      /\ UNCHANGED <<mirror, engineSaved, lobbies, commits, welcomed, outcome, cut>>
  BY NoJobIsNone DEF Launch, stateFileVars, remoteVars
<1>2. job' \in BotJob /\ job'.pc = "look"
  <2>1. 0 \in 0 .. MaxLaunches
    BY DemoBotAssumption
  <2>2. "look" \in BotPcs
    BY DEF BotPcs
  <2> QED BY <2>1, <2>2 DEF Launch, BotJob
<1>3. BotTypes'
  BY <1>1, <1>2, DemoBotAssumption DEF BotInv, BotTypes
<1>4. FoundingInv'
  <2>1. Len(lobbies) \in Nat /\ launches \in Nat
    BY DEF BotInv, BotTypes, LobbyRow
  <2> QED BY <1>1, <1>2, <2>1 DEF BotInv, FoundingInv, BotPcs, Founding, Joining
<1>5. BotEngineInv'
  BY <1>1, <1>2 DEF BotInv, BotEngineInv
<1>6. BotCommitInv'
  BY <1>1, <1>2 DEF BotInv, BotCommitInv, Publishes
<1>7. OneLobbyInv'
  BY <1>1, <1>2 DEF BotInv, OneLobbyInv, Founding, Founded
<1>8. AddedIsMember' /\ RetriesSucceed'
  BY <1>1 DEF BotInv, AddedIsMember, RetriesSucceed
<1> QED BY <1>3, <1>4, <1>5, <1>6, <1>7, <1>8 DEF BotInv

LEMMA LookKeeps == ASSUME BotInv, Look PROVE BotInv'
<1>1. /\ job.pc = "look" /\ job \in BotJob
      /\ UNCHANGED <<mirror, engineNow, engineSaved, lobbies, commits, welcomed, launches>>
      /\ UNCHANGED <<outcome, cut>>
  BY RunsAreJobs DEF Look, At, stateFileVars, remoteVars, BotInv, BotPcs
<1>2. Len(lobbies) \in Nat /\ launches \in 0 .. MaxLaunches /\ Len(lobbies) < launches
  BY <1>1 DEF BotInv, BotTypes, FoundingInv, LobbyRow
<1>3. CASE Founded = {} /\ job' = [job EXCEPT !.pc = "create"]
  <2>1. job' \in BotJob /\ job'.pc = "create"
    BY <1>1, <1>3, JobGoes DEF BotPcs
  <2>2. FoundingInv'
    BY <1>1, <1>2, <2>1 DEF BotInv, FoundingInv, BotPcs, Founding, Joining
  <2>3. BotEngineInv' /\ BotCommitInv'
    BY <1>1, <2>1 DEF BotInv, BotEngineInv, BotCommitInv, Publishes, BotPcs
  <2>4. OneLobbyInv'
    BY <1>1, <1>3, <2>1 DEF BotInv, OneLobbyInv, Founding, Founded
  <2>5. BotTypes' /\ AddedIsMember' /\ RetriesSucceed'
    BY <1>1, <2>1 DEF BotInv, BotTypes, AddedIsMember, RetriesSucceed
  <2> QED BY <2>2, <2>3, <2>4, <2>5 DEF BotInv
<1>4. ASSUME NEW i \in Founded, job' = [job EXCEPT !.pc = "row", !.lobby = i, !.group = mirror[i]]
      PROVE  BotInv'
  <2>1. i \in GroupIds /\ mirror[i] = i /\ i \in 1 .. Len(lobbies)
    <3>1. i \in GroupIds /\ mirror[i] > 0
      BY DEF Founded
    <3>2. i \in 1 .. MaxLaunches /\ i \in Nat
      BY <3>1, DemoBotAssumption DEF GroupIds
    <3>3. mirror[i] # Absent /\ mirror[i] # 0
      BY <3>1 DEF Absent
    <3>4. mirror[i] \in {0, i} /\ i <= Len(lobbies)
      BY <3>1, <3>3 DEF BotInv, FoundingInv
    <3> QED BY <1>2, <3>1, <3>2, <3>3, <3>4
  <2>2. /\ job' \in BotJob /\ job'.pc = "row" /\ job'.lobby = i /\ job'.group = i
    <3>1. "row" \in BotPcs /\ i \in 0 .. MaxLaunches
      BY <2>1, DemoBotAssumption DEF BotPcs, Joining, GroupIds
    <3>2. job' = [job EXCEPT !.pc = "row", !.lobby = i, !.group = i]
      BY <1>4, <2>1
    <3> QED BY <1>1, <2>1, <3>1, <3>2 DEF BotJob
  <2>3. FoundingInv'
    BY <1>1, <1>2, <2>1, <2>2 DEF BotInv, FoundingInv, BotPcs, Founding, Joining
  <2>4. BotEngineInv' /\ BotCommitInv'
    BY <1>1, <2>2 DEF BotInv, BotEngineInv, BotCommitInv, Publishes, BotPcs, Joining
  <2>5. OneLobbyInv'
    BY <1>1, <2>2 DEF BotInv, OneLobbyInv, Founding, Founded
  <2>6. BotTypes' /\ AddedIsMember' /\ RetriesSucceed'
    BY <1>1, <2>2 DEF BotInv, BotTypes, AddedIsMember, RetriesSucceed
  <2> QED BY <2>3, <2>4, <2>5, <2>6 DEF BotInv
<1> QED BY <1>3, <1>4 DEF Look

LEMMA AddRowKeeps == ASSUME BotInv, AddRow PROVE BotInv'
<1>1. /\ Steps("fetch") /\ job.pc = "row"
      /\ lobbies' = [lobbies EXCEPT ![job.lobby].users = @ \cup {job.who}]
      /\ UNCHANGED <<mirror, engineNow, engineSaved, commits, welcomed>>
  BY GoesSteps DEF AddRow, At, stateFileVars, BotInv, BotPcs, Joining
<1>2. job.lobby \in 1 .. Len(lobbies) /\ job.who \in Visitors /\ lobbies \in Seq(LobbyRow)
  BY <1>1 DEF Steps, BotJob, BotInv, BotTypes, FoundingInv, BotPcs, Joining
<1>3. /\ lobbies' \in Seq(LobbyRow) /\ Len(lobbies') = Len(lobbies) /\ DOMAIN lobbies' = DOMAIN lobbies
      /\ job.who \in lobbies'[job.lobby].users
      /\ \A i \in DOMAIN lobbies : /\ lobbies[i].users \subseteq lobbies'[i].users
                                   /\ lobbies'[i].group = lobbies[i].group
  <2> DEFINE lobby == lobbies[job.lobby]
             users == lobby.users \cup {job.who}
             r == [lobby EXCEPT !.users = users]
  <2>1. lobby \in LobbyRow /\ users \in SUBSET Visitors
    <3>1. lobby \in LobbyRow
      BY <1>2
    <3> HIDE DEF lobby
    <3> QED BY <1>2, <3>1 DEF LobbyRow
  <2>2. r \in LobbyRow /\ r.users = users /\ r.group = lobby.group
    <3> HIDE DEF lobby, users
    <3> QED BY <2>1, DemoBotAssumption, RowIs DEF LobbyRow
  <2>3. lobbies' = [lobbies EXCEPT ![job.lobby] = r]
    BY <1>1
  <2> HIDE DEF r
  <2>4. /\ lobbies' \in Seq(LobbyRow) /\ Len(lobbies') = Len(lobbies)
        /\ DOMAIN lobbies' = DOMAIN lobbies /\ lobbies'[job.lobby] = r
        /\ \A i \in DOMAIN lobbies : i # job.lobby => lobbies'[i] = lobbies[i]
    BY <1>2, <2>2, <2>3, RowsWith
  <2> QED BY <2>2, <2>4
<1>4. FoundingInv'
  BY <1>1, <1>3 DEF Steps, BotInv, FoundingInv, BotPcs, Founding, Joining
<1>5. BotEngineInv'
  <2>1. \A g \in GroupIds : engineSaved[g] # Absent => g \in DOMAIN lobbies
    BY SavedHasRow
  <2> QED BY <1>1, <1>3, <2>1 DEF Steps, BotInv, BotEngineInv, BotPcs, Joining
<1>6. BotCommitInv'
  BY <1>1 DEF Steps, BotInv, BotCommitInv, Publishes
<1>7. OneLobbyInv'
  BY <1>1, <1>3 DEF Steps, BotInv, OneLobbyInv, Founding, Founded
<1>8. BotTypes' /\ AddedIsMember' /\ RetriesSucceed'
  <2>1. BotTypes'
    BY <1>1, <1>3 DEF Steps, BotInv, BotTypes
  <2>2. AddedIsMember'
    BY <1>1, <1>3 DEF Steps, BotInv, AddedIsMember
  <2>3. RetriesSucceed'
    BY <1>1 DEF Steps, BotInv, RetriesSucceed
  <2> QED BY <2>1, <2>2, <2>3
<1> QED BY <1>4, <1>5, <1>6, <1>7, <1>8 DEF BotInv

LEMMA CreateLobbyKeeps == ASSUME BotInv, CreateLobby PROVE BotInv'
<1>1. /\ job.pc = "create" /\ job \in BotJob /\ lobbies \in Seq(LobbyRow) /\ launches \in 0 .. MaxLaunches
      /\ lobbies' = Append(lobbies, [users |-> {job.who}, group |-> 0])
      /\ UNCHANGED <<mirror, engineNow, engineSaved, commits, welcomed, launches, outcome, cut>>
      /\ Founded = {} /\ Len(lobbies) < launches /\ Len(lobbies) \in Nat
  BY RunsAreJobs DEF CreateLobby, At, stateFileVars, BotInv, BotTypes, BotPcs, OneLobbyInv, FoundingInv
<1>2. /\ lobbies' \in Seq(LobbyRow) /\ Len(lobbies') = Len(lobbies) + 1
      /\ \A i \in DOMAIN lobbies : i \in DOMAIN lobbies' /\ lobbies'[i] = lobbies[i]
      /\ lobbies'[Len(lobbies')].users = {job.who}
  <2>1. [users |-> {job.who}, group |-> 0] \in LobbyRow
    BY <1>1, DemoBotAssumption DEF LobbyRow, BotJob
  <2> QED BY <1>1, <2>1
<1>3. /\ job' \in BotJob /\ job'.pc = "mirror" /\ job'.who = job.who /\ job'.lobby = Len(lobbies')
  <2>1. "mirror" \in BotPcs /\ Len(lobbies') \in 0 .. MaxLaunches
    BY <1>1, <1>2, DemoBotAssumption DEF BotPcs, Founding
  <2> QED BY <1>1, <2>1 DEF CreateLobby, BotJob
<1>4. job'.lobby \in GroupIds /\ mirror[job'.lobby] = Absent
  BY <1>1, <1>2, <1>3, DemoBotAssumption DEF BotInv, FoundingInv, GroupIds
<1>5. FoundingInv'
  <2>1. /\ Len(lobbies') <= launches' /\ job'.lobby \in 1 .. Len(lobbies')
        /\ \A i \in GroupIds : mirror'[i] # Absent => mirror'[i] \in {0, i} /\ i <= Len(lobbies')
    BY <1>1, <1>2, <1>3 DEF BotInv, FoundingInv, GroupIds
  <2>2. mirror'[job'.lobby] = Absent /\ job'.who \in lobbies'[job'.lobby].users
    BY <1>1, <1>2, <1>3, <1>4
  <2> QED BY <1>3, <2>1, <2>2 DEF FoundingInv, Founding, Joining
<1>6. BotEngineInv'
  <2>1. \A g \in GroupIds : engineSaved[g] # Absent => g \in DOMAIN lobbies
    BY SavedHasRow
  <2> QED BY <1>1, <1>2, <1>3, <2>1 DEF BotInv, BotEngineInv, BotPcs
<1>7. BotCommitInv'
  BY <1>1, <1>3 DEF BotInv, BotCommitInv, Publishes
<1>8. OneLobbyInv'
  <2>1. ASSUME cut \cap Founding = {} PROVE Len(lobbies) = 0
    <3>1. job.pc \notin Founding
      BY <1>1 DEF Founding
    <3>2. Len(lobbies) <= 1 /\ Len(lobbies) # 1
      BY <1>1, <2>1, <3>1 DEF BotInv, OneLobbyInv
    <3>3. Len(lobbies) \in Nat
      BY <1>1
    <3> QED BY <3>2, <3>3
  <2> QED BY <1>1, <1>2, <1>3, <2>1 DEF OneLobbyInv, Founding
<1>9. BotTypes'
  BY <1>1, <1>2, <1>3 DEF BotInv, BotTypes
<1>10. AddedIsMember'
  BY <1>1, <1>2 DEF BotInv, AddedIsMember
<1>11. RetriesSucceed'
  BY <1>1 DEF BotInv, RetriesSucceed
<1> QED BY <1>5, <1>6, <1>7, <1>8, <1>9, <1>10, <1>11 DEF BotInv

LEMMA MirrorLobbyKeeps == ASSUME BotInv, MirrorLobby PROVE BotInv'
<1>1. /\ Steps("group") /\ job.pc = "mirror"
      /\ mirror' = [mirror EXCEPT ![job.lobby] = 0]
      /\ UNCHANGED <<lobbies, engineNow, engineSaved, commits, welcomed>>
  BY GoesSteps DEF MirrorLobby, At, remoteVars, BotInv, BotPcs, Founding
<1>2. /\ job.lobby \in 1 .. Len(lobbies) /\ mirror[job.lobby] = Absent
      /\ job.lobby \in GroupIds /\ mirror \in [GroupIds -> Int]
  BY <1>1, RunsInRange DEF Steps, BotInv, BotTypes, FoundingInv, BotPcs, Founding
<1>3. /\ mirror' \in [GroupIds -> Int] /\ mirror'[job.lobby] = 0
      /\ \A i \in GroupIds : i # job.lobby => mirror'[i] = mirror[i]
  BY <1>1, <1>2
<1>4. \A i \in GroupIds : mirror[i] = i => i # job.lobby
  BY <1>2 DEF GroupIds, Absent
<1>5. FoundingInv'
  BY <1>1, <1>2, <1>3 DEF Steps, BotInv, FoundingInv, BotPcs, Founding, Joining
<1>6. BotEngineInv'
  <2>1. \A i \in GroupIds : mirror'[i] = i => mirror[i] = i
    BY <1>3 DEF GroupIds
  <2>2. \A i \in GroupIds : mirror[i] = i => mirror'[i] = i
    BY <1>3, <1>4
  <2> QED BY <1>1, <2>1, <2>2 DEF Steps, BotInv, BotEngineInv, BotPcs, Founding
<1>7. BotCommitInv'
  BY <1>1 DEF Steps, BotInv, BotCommitInv, Publishes
<1>8. OneLobbyInv'
  <2>1. Founded \subseteq Founded'
    BY <1>2, <1>3 DEF Founded, Absent
  <2> QED BY <1>1, <2>1 DEF Steps, BotInv, OneLobbyInv, Founding
<1>9. AddedIsMember'
  <2>1. ASSUME NEW u \in Visitors, outcome'[u] = "added"
        PROVE  \E i \in DOMAIN lobbies' :
                 /\ u \in lobbies'[i].users /\ \E w \in welcomed' : w.who = u /\ w.group = mirror'[i]
                 /\ lobbies'[i].group = mirror'[i] \/ "link" \in cut'
    <3>1. outcome[u] = "added"
      BY <1>1, <2>1 DEF Steps
    <3>2. PICK i \in DOMAIN lobbies \cap GroupIds :
            /\ mirror[i] = i /\ u \in lobbies[i].users
            /\ \E w \in welcomed : w.who = u /\ w.group = i
            /\ lobbies[i].group = i \/ "link" \in cut
      BY <3>1, AddedIsTied
    <3>3. mirror'[i] = i
      BY <1>2, <1>3, <3>2 DEF GroupIds, Absent
    <3> QED BY <1>1, <3>2, <3>3 DEF Steps
  <2> QED BY <2>1 DEF AddedIsMember
<1>10. BotTypes' /\ RetriesSucceed'
  BY <1>1, <1>3 DEF Steps, BotInv, BotTypes, RetriesSucceed
<1> QED BY <1>5, <1>6, <1>7, <1>8, <1>9, <1>10 DEF BotInv

LEMMA CreateGroupKeeps == ASSUME BotInv, CreateGroup PROVE BotInv'
<1>1. /\ job.pc = "group" /\ job \in BotJob /\ engineNow' = [engineNow EXCEPT ![job.lobby] = 0]
      /\ UNCHANGED <<mirror, engineSaved, lobbies, commits, welcomed, launches, outcome, cut>>
  BY RunsAreJobs DEF CreateGroup, At, stateFileVars, remoteVars, BotInv, BotPcs, Founding
<1>2. /\ job.lobby \in 1 .. Len(lobbies) /\ job.lobby \in GroupIds /\ mirror[job.lobby] = 0
      /\ engineNow \in [GroupIds -> Int] /\ job.lobby \in 0 .. MaxLaunches
  BY <1>1, RunsInRange DEF BotInv, BotTypes, FoundingInv, BotPcs, Founding, BotJob
<1>3. /\ job' \in BotJob /\ job'.pc = "tie" /\ job'.who = job.who /\ job'.lobby = job.lobby
      /\ job'.group = job.lobby
  <2>1. "tie" \in BotPcs
    BY DEF BotPcs, Founding
  <2> QED BY <1>1, <1>2, <2>1 DEF CreateGroup, BotJob
<1>4. /\ engineNow' \in [GroupIds -> Int] /\ engineNow'[job.lobby] = 0
      /\ \A g \in GroupIds : g # job.lobby => engineNow'[g] = engineNow[g]
  BY <1>1, <1>2
<1>5. engineSaved[job.lobby] = Absent
  BY <1>2 DEF BotInv, BotEngineInv, GroupIds
<1>6. FoundingInv'
  BY <1>1, <1>2, <1>3 DEF BotInv, FoundingInv, BotPcs, Founding, Joining
<1>7. BotEngineInv'
  BY <1>1, <1>2, <1>3, <1>4, <1>5 DEF BotInv, BotEngineInv, BotPcs, Founding
<1>8. BotCommitInv'
  BY <1>1, <1>3 DEF BotInv, BotCommitInv, Publishes
<1>9. OneLobbyInv'
  BY <1>1, <1>3 DEF BotInv, OneLobbyInv, Founding, Founded
<1>10. BotTypes' /\ AddedIsMember' /\ RetriesSucceed'
  BY <1>1, <1>3, <1>4 DEF BotInv, BotTypes, AddedIsMember, RetriesSucceed
<1> QED BY <1>6, <1>7, <1>8, <1>9, <1>10 DEF BotInv

LEMMA TieGroupKeeps == ASSUME BotInv, TieGroup PROVE BotInv'
<1>1. /\ Steps("save") /\ job.pc = "tie"
      /\ mirror' = [mirror EXCEPT ![job.lobby] = job.group]
      /\ UNCHANGED <<lobbies, engineNow, engineSaved, commits, welcomed>>
  BY GoesSteps DEF TieGroup, At, remoteVars, BotInv, BotPcs, Founding
<1>2. /\ job.lobby \in 1 .. Len(lobbies) /\ mirror[job.lobby] = 0 /\ job.group = job.lobby
      /\ job.lobby \in GroupIds /\ mirror \in [GroupIds -> Int]
  BY <1>1, RunsInRange DEF Steps, BotInv, BotTypes, FoundingInv, BotPcs, Founding
<1>3. /\ mirror' \in [GroupIds -> Int] /\ mirror'[job.lobby] = job.lobby
      /\ \A i \in GroupIds : i # job.lobby => mirror'[i] = mirror[i]
  BY <1>1, <1>2 DEF GroupIds
<1>4. /\ engineNow[job.lobby] = 0 /\ engineSaved[job.lobby] = Absent
  BY <1>1 DEF BotInv, BotEngineInv
<1>5. FoundingInv'
  BY <1>1, <1>2, <1>3 DEF Steps, BotInv, FoundingInv, BotPcs, Founding, Joining
<1>6. BotEngineInv'
  BY <1>1, <1>2, <1>3, <1>4 DEF Steps, BotInv, BotEngineInv, BotPcs, Founding
<1>7. BotCommitInv'
  BY <1>1 DEF Steps, BotInv, BotCommitInv, Publishes
<1>8. OneLobbyInv'
  <2>1. job.lobby \in Founded'
    BY <1>2, <1>3 DEF Founded, GroupIds
  <2> QED BY <1>1, <2>1 DEF Steps, BotInv, OneLobbyInv, Founding
<1>9. AddedIsMember'
  <2>1. ASSUME NEW u \in Visitors, outcome'[u] = "added"
        PROVE  \E i \in DOMAIN lobbies' :
                 /\ u \in lobbies'[i].users /\ \E w \in welcomed' : w.who = u /\ w.group = mirror'[i]
                 /\ lobbies'[i].group = mirror'[i] \/ "link" \in cut'
    <3>1. outcome[u] = "added"
      BY <1>1, <2>1 DEF Steps
    <3>2. PICK i \in DOMAIN lobbies \cap GroupIds :
            /\ mirror[i] = i /\ u \in lobbies[i].users
            /\ \E w \in welcomed : w.who = u /\ w.group = i
            /\ lobbies[i].group = i \/ "link" \in cut
      BY <3>1, AddedIsTied
    <3>3. mirror'[i] = i
      BY <1>2, <1>3, <3>2 DEF GroupIds, Absent
    <3> QED BY <1>1, <3>2, <3>3 DEF Steps
  <2> QED BY <2>1 DEF AddedIsMember
<1>10. BotTypes' /\ RetriesSucceed'
  BY <1>1, <1>3 DEF Steps, BotInv, BotTypes, RetriesSucceed
<1> QED BY <1>5, <1>6, <1>7, <1>8, <1>9, <1>10 DEF BotInv

LEMMA SaveGroupKeeps == ASSUME BotInv, SaveGroup PROVE BotInv'
<1>1. /\ Steps("link") /\ job.pc = "save" /\ engineSaved' = engineNow
      /\ UNCHANGED <<lobbies, mirror, engineNow, commits, welcomed>>
  BY GoesSteps DEF SaveGroup, At, remoteVars, BotInv, BotPcs
<1>2. /\ job.lobby \in GroupIds /\ mirror[job.lobby] = job.lobby
      /\ engineNow \in [GroupIds -> Int] /\ engineSaved \in [GroupIds -> Int]
      /\ engineNow[job.lobby] = 0 /\ engineSaved[job.lobby] = Absent
      /\ \A g \in GroupIds : g # job.lobby => engineNow[g] = engineSaved[g]
  BY <1>1, RunsInRange DEF Steps, BotInv, BotTypes, FoundingInv, BotEngineInv, BotPcs
<1>3. FoundingInv'
  BY <1>1 DEF Steps, BotInv, FoundingInv, BotPcs, Founding, Joining
<1>4. BotEngineInv'
  BY <1>1, <1>2 DEF Steps, BotInv, BotEngineInv, BotPcs, Absent
<1>5. BotCommitInv'
  <2>1. ~ Publishes(job, 0) /\ \A g \in GroupIds : ~ Publishes(job, g) /\ ~ Publishes(job', g)
    BY <1>1 DEF Steps, Publishes
  <2>2. commits[job.lobby] = {}
    BY <1>2 DEF BotInv, BotTypes, BotCommitInv, Absent
  <2>3. \A g \in GroupIds : \A e \in commits'[g] : 1 <= e /\ e <= engineSaved'[g]
    BY <1>1, <1>2, <2>2 DEF BotInv, BotCommitInv
  <2>4. "publish" \in cut' \/ \A g \in GroupIds : \A e \in Int :
          1 <= e /\ e <= engineSaved'[g] => e \in commits'[g]
    BY <1>1, <1>2, <2>1 DEF Steps, BotInv, BotCommitInv
  <2> QED BY <2>1, <2>3, <2>4 DEF BotCommitInv
<1>6. OneLobbyInv'
  BY <1>1 DEF Steps, BotInv, OneLobbyInv, Founding, Founded
<1>7. BotTypes' /\ AddedIsMember' /\ RetriesSucceed'
  BY <1>1 DEF Steps, BotInv, BotTypes, AddedIsMember, RetriesSucceed
<1> QED BY <1>3, <1>4, <1>5, <1>6, <1>7 DEF BotInv

LEMMA LinkLobbyKeeps == ASSUME BotInv, LinkLobby PROVE BotInv'
<1>1. /\ Steps("fetch") /\ job.pc = "link"
      /\ lobbies' = [lobbies EXCEPT ![job.lobby].group = job.group]
      /\ UNCHANGED <<mirror, engineNow, engineSaved, commits, welcomed>>
  BY GoesSteps DEF LinkLobby, At, stateFileVars, BotInv, BotPcs, Joining
<1>2. /\ job.lobby \in 1 .. Len(lobbies) /\ job.lobby \in GroupIds /\ lobbies \in Seq(LobbyRow)
      /\ job.group = job.lobby /\ mirror[job.lobby] = job.lobby /\ job.group \in 0 .. MaxLaunches
      /\ job.who \in lobbies[job.lobby].users
  BY <1>1, RunsInRange DEF Steps, BotJob, BotInv, BotTypes, FoundingInv, BotPcs
<1>3. /\ lobbies' \in Seq(LobbyRow) /\ Len(lobbies') = Len(lobbies) /\ DOMAIN lobbies' = DOMAIN lobbies
      /\ lobbies'[job.lobby].group = job.lobby
      /\ \A i \in DOMAIN lobbies : lobbies'[i].users = lobbies[i].users
      /\ \A i \in DOMAIN lobbies : i # job.lobby => lobbies'[i] = lobbies[i]
  <2> DEFINE lobby == lobbies[job.lobby]
             r == [lobby EXCEPT !.group = job.group]
  <2>1. lobby \in LobbyRow
    BY <1>2
  <2>2. r \in LobbyRow /\ r.users = lobby.users /\ r.group = job.lobby
    <3> HIDE DEF lobby
    <3> QED BY <1>2, <2>1 DEF LobbyRow
  <2>3. lobbies' = [lobbies EXCEPT ![job.lobby] = r]
    BY <1>1
  <2> HIDE DEF r
  <2>4. /\ lobbies' \in Seq(LobbyRow) /\ Len(lobbies') = Len(lobbies)
        /\ DOMAIN lobbies' = DOMAIN lobbies /\ lobbies'[job.lobby] = r
        /\ \A i \in DOMAIN lobbies : i # job.lobby => lobbies'[i] = lobbies[i]
    BY <1>2, <2>2, <2>3, RowsWith
  <2> QED BY <1>2, <2>2, <2>4
<1>4. FoundingInv'
  BY <1>1, <1>2, <1>3 DEF Steps, BotInv, FoundingInv, BotPcs, Founding, Joining
<1>5. BotEngineInv'
  <2>1. \A g \in GroupIds : engineSaved[g] # Absent => g \in DOMAIN lobbies
    BY SavedHasRow
  <2>2. \A g \in GroupIds : engineSaved[g] # Absent => lobbies'[g].group = g \/ "link" \in cut
    BY <1>1, <1>2, <1>3, <2>1 DEF BotInv, BotEngineInv
  <2> QED BY <1>1, <2>2 DEF Steps, BotInv, BotEngineInv, BotPcs, Joining
<1>6. BotCommitInv'
  BY <1>1 DEF Steps, BotInv, BotCommitInv, Publishes
<1>7. OneLobbyInv'
  BY <1>1, <1>3 DEF Steps, BotInv, OneLobbyInv, Founding, Founded
<1>8. BotTypes' /\ RetriesSucceed'
  BY <1>1, <1>3 DEF Steps, BotInv, BotTypes, RetriesSucceed
<1>9. AddedIsMember'
  BY <1>1, <1>2, <1>3 DEF Steps, BotInv, AddedIsMember
<1> QED BY <1>4, <1>5, <1>6, <1>7, <1>8, <1>9 DEF BotInv

LEMMA AddToTreeKeeps == ASSUME BotInv, AddToTree PROVE BotInv'
<1>1. /\ job.pc = "add" /\ job \in BotJob /\ UNCHANGED <<mirror, lobbies, commits, welcomed, keyed>>
      /\ job.lobby \in GroupIds /\ job.group = job.lobby /\ mirror[job.lobby] = job.lobby
      /\ engineNow = engineSaved
  <2>1. job.pc = "add" /\ job.pc \in BotPcs \ {"look", "create"} /\ job.pc \in Joining
    BY DEF AddToTree, At, BotPcs, Joining
  <2>2. /\ engineNow \in [GroupIds -> Int] /\ engineSaved \in [GroupIds -> Int]
        /\ \A g \in GroupIds : engineNow[g] = engineSaved[g]
    BY <2>1 DEF BotInv, BotTypes, BotEngineInv
  <2> QED BY <2>1, <2>2, RunsAreJobs, RunsInRange DEF AddToTree, remoteVars, BotInv, FoundingInv
<1>2. CASE ~ Holds(job.group)
  <2>1. Ends("failed") /\ UNCHANGED <<engineNow, engineSaved>>
    BY <1>2 DEF AddToTree
  <2>2. "save" \in cut
    BY <1>1, <1>2 DEF Holds, BotInv, BotEngineInv
  <2> QED BY <1>1, <2>1, <2>2, EndsKeep DEF stateFileVars
<1>3. CASE Holds(job.group)
  <2> DEFINE g == job.lobby
  <2>1. /\ Steps("publish") /\ engineNow' = [engineNow EXCEPT ![g] = @ + 1] /\ engineSaved' = engineNow'
        /\ engineSaved[g] # Absent /\ engineSaved[g] >= 0 /\ engineSaved \in [GroupIds -> Int]
    BY <1>1, <1>3, GoesSteps DEF AddToTree, Holds, BotInv, BotTypes, BotEngineInv, BotPcs, Joining
  <2>2. /\ engineSaved' \in [GroupIds -> Int] /\ engineSaved'[g] = engineSaved[g] + 1
        /\ engineNow' = engineSaved'
        /\ \A h \in GroupIds : h # g => engineSaved'[h] = engineSaved[h]
    BY <1>1, <2>1
  <2>3. /\ engineSaved[g] \in Int /\ engineSaved'[g] >= 0 /\ engineSaved'[g] # Absent
    BY <1>1, <2>1, <2>2 DEF Absent
  <2> HIDE DEF g
  <2>4. g = job.lobby /\ g = job'.lobby
    BY <2>1 DEF Steps, g
  <2>5. FoundingInv'
    BY <1>1, <2>1 DEF Steps, BotInv, FoundingInv, BotPcs, Founding, Joining
  <2>6. BotEngineInv'
    <3>1. \A h \in GroupIds : engineSaved'[h] # Absent <=> engineSaved[h] # Absent
      BY <2>1, <2>2, <2>3
    <3>2. \A h \in GroupIds : engineSaved'[h] # Absent => engineSaved'[h] >= 0
      BY <2>2, <2>3 DEF BotInv, BotEngineInv
    <3> QED BY <1>1, <2>1, <2>2, <2>3, <2>4, <3>1, <3>2 DEF Steps, BotInv, BotEngineInv, BotPcs
  <2>7. BotCommitInv'
    <3>1. \A h \in GroupIds : ~ Publishes(job, h) /\ (Publishes(job', h) <=> h = g)
      BY <1>1, <2>1, <2>4 DEF Steps, Publishes
    <3>2. \A h \in GroupIds : \A e \in commits[h] : e \in Int /\ 1 <= e /\ e <= engineSaved[h]
      BY DEF BotInv, BotTypes, BotCommitInv
    <3>3. \A h \in GroupIds : \A e \in commits'[h] :
            1 <= e /\ e <= engineSaved'[h] /\ (Publishes(job', h) => e < engineSaved'[h])
      BY <1>1, <2>2, <2>3, <3>1, <3>2
    <3>4. "publish" \in cut \/ \A h \in GroupIds : \A e \in Int :
            1 <= e /\ e <= engineSaved[h] => e \in commits[h]
      BY <3>1 DEF BotInv, BotCommitInv
    <3>5. "publish" \in cut \/ \A h \in GroupIds : \A e \in Int :
            1 <= e /\ e <= engineSaved'[h] =>
              e \in commits[h] \/ (Publishes(job', h) /\ e = engineSaved'[h])
      BY <2>2, <2>3, <3>1, <3>4
    <3> QED BY <1>1, <2>1, <3>3, <3>5 DEF Steps, BotCommitInv
  <2>8. OneLobbyInv'
    BY <1>1, <2>1 DEF Steps, BotInv, OneLobbyInv, Founding, Founded
  <2>9. BotTypes' /\ AddedIsMember' /\ RetriesSucceed'
    BY <1>1, <2>1, <2>2 DEF Steps, BotInv, BotTypes, AddedIsMember, RetriesSucceed
  <2> QED BY <2>5, <2>6, <2>7, <2>8, <2>9 DEF BotInv
<1> QED BY <1>2, <1>3

LEMMA PublishTreeKeeps == ASSUME BotInv, PublishTree PROVE BotInv'
<1>1. /\ job.pc = "publish" /\ job \in BotJob /\ job.lobby \in GroupIds /\ job.group = job.lobby
      /\ UNCHANGED <<mirror, engineSaved, engineNow, lobbies, welcomed, keyed>>
  <2>1. job.pc = "publish" /\ job.pc \in BotPcs \ {"look", "create"} /\ job.pc \in Joining
    BY DEF PublishTree, At, BotPcs, Joining
  <2> QED BY <2>1, RunsAreJobs, RunsInRange DEF PublishTree, stateFileVars, BotInv, FoundingInv
<1>2. /\ Epoch = engineSaved[job.lobby] /\ engineSaved[job.lobby] \in Int
      /\ commits[job.lobby] \subseteq Int /\ engineSaved[job.lobby] >= 0
  <2>1. engineNow[job.lobby] = engineSaved[job.lobby] /\ engineSaved[job.lobby] >= 1
    BY <1>1 DEF BotInv, BotEngineInv, BotPcs, Joining
  <2>2. engineSaved[job.lobby] \in Int /\ commits[job.lobby] \subseteq Int
    BY <1>1 DEF BotInv, BotTypes
  <2> QED BY <1>1, <2>1, <2>2 DEF Epoch
<1>3. Epoch \notin commits[job.group]
  <2>1. \A e \in commits[job.lobby] : e < engineSaved[job.lobby]
    BY <1>1 DEF BotInv, BotCommitInv, Publishes
  <2> QED BY <1>1, <1>2, <2>1
<1>4. /\ Steps("welcome") /\ commits' = [commits EXCEPT ![job.lobby] = @ \cup {Epoch}]
  BY <1>1, <1>3, GoesSteps DEF PublishTree, BotInv, BotPcs, Joining
<1>5. /\ commits' \in [GroupIds -> SUBSET Int]
      /\ commits'[job.lobby] = commits[job.lobby] \cup {engineSaved[job.lobby]}
      /\ \A g \in GroupIds : g # job.lobby => commits'[g] = commits[g]
  BY <1>1, <1>2, <1>4 DEF BotInv, BotTypes
<1>6. FoundingInv'
  BY <1>1, <1>4 DEF Steps, BotInv, FoundingInv, BotPcs, Founding, Joining
<1>7. BotEngineInv'
  <2>1. engineSaved[job.lobby] # Absent
    BY <1>2 DEF Absent
  <2> QED BY <1>1, <1>4, <2>1 DEF Steps, BotInv, BotEngineInv, BotPcs, Joining
<1>8. BotCommitInv'
  <2>1. /\ \A g \in GroupIds : ~ Publishes(job', g) /\ (Publishes(job, g) <=> g = job.lobby)
        /\ "publish" \in cut <=> "publish" \in cut'
    BY <1>1, <1>4 DEF Steps, Publishes
  <2>2. 1 <= engineSaved[job.lobby] /\ engineSaved[job.lobby] <= engineSaved[job.lobby]
    BY <1>1, <1>2 DEF BotInv, BotEngineInv
  <2>3. \A g \in GroupIds : \A e \in commits'[g] : 1 <= e /\ e <= engineSaved'[g]
    BY <1>1, <1>5, <2>2 DEF BotInv, BotCommitInv
  <2>4. "publish" \in cut \/ \A g \in GroupIds : \A e \in Int :
            1 <= e /\ e <= engineSaved[g] => e \in commits'[g]
    BY <1>5, <2>1 DEF BotInv, BotCommitInv
  <2> QED BY <1>1, <2>1, <2>3, <2>4 DEF BotCommitInv
<1>9. OneLobbyInv'
  BY <1>1, <1>4 DEF Steps, BotInv, OneLobbyInv, Founding, Founded
<1>10. BotTypes' /\ AddedIsMember' /\ RetriesSucceed'
  BY <1>1, <1>4, <1>5 DEF Steps, BotInv, BotTypes, AddedIsMember, RetriesSucceed
<1> QED BY <1>6, <1>7, <1>8, <1>9, <1>10 DEF BotInv

LEMMA SendWelcomeKeeps == ASSUME BotInv, SendWelcome PROVE BotInv'
<1>1. /\ job.pc = "welcome" /\ job \in BotJob /\ job.lobby \in GroupIds /\ job.group = job.lobby
      /\ mirror[job.lobby] = job.lobby /\ job.lobby \in DOMAIN lobbies
      /\ job.who \in lobbies[job.lobby].users /\ job.who \in Visitors
  <2>1. /\ job.pc = "welcome" /\ job.pc \in BotPcs \ {"look", "create"} /\ job.pc \in Joining
        /\ job.pc \in BotPcs \ {"look", "create", "row"}
    BY DEF SendWelcome, At, BotPcs, Joining
  <2>2. DOMAIN lobbies = 1 .. Len(lobbies)
    BY DEF BotInv, BotTypes
  <2> QED BY <2>1, <2>2, RunsAreJobs, RunsInRange DEF BotInv, FoundingInv, BotJob
<1>2. /\ job' = NoJob /\ job'.pc = "none" /\ outcome' = [outcome EXCEPT ![job.who] = "added"]
      /\ UNCHANGED <<mirror, engineSaved, engineNow, lobbies, commits, launches, cut>>
  BY NoJobIsNone DEF SendWelcome, Ends, stateFileVars
<1>3. PICK e \in Int : welcomed' = welcomed \cup {[who |-> job.who, group |-> job.lobby, epoch |-> e]}
  <2>1. Epoch \in Int
    BY <1>1 DEF Epoch, BotInv, BotTypes
  <2> QED BY <1>1, <2>1 DEF SendWelcome
<1>4. lobbies[job.lobby].group = job.lobby \/ "link" \in cut
  BY <1>1 DEF BotInv, BotEngineInv
<1>5. FoundingInv' /\ BotCommitInv' /\ OneLobbyInv'
  BY <1>1, <1>2 DEF BotInv, FoundingInv, BotCommitInv, OneLobbyInv, Publishes, BotPcs, Founding,
                    Joining, Founded
<1>6. BotEngineInv'
  BY <1>1, <1>2 DEF BotInv, BotEngineInv, BotPcs, Founding, Joining
<1>7. BotTypes'
  <2>1. welcomed' \subseteq [who : Visitors, group : GroupIds, epoch : Int]
    BY <1>1, <1>3 DEF BotInv, BotTypes
  <2>2. outcome' \in [Visitors -> {"none", "cut", "keyless", "failed", "added"}]
    BY <1>2 DEF BotInv, BotTypes
  <2> QED BY <1>2, <2>1, <2>2 DEF BotInv, BotTypes
<1>8. AddedIsMember'
  <2>1. ASSUME NEW u \in Visitors, outcome'[u] = "added"
        PROVE  \E i \in DOMAIN lobbies' :
                 /\ u \in lobbies'[i].users /\ \E w \in welcomed' : w.who = u /\ w.group = mirror'[i]
                 /\ lobbies'[i].group = mirror'[i] \/ "link" \in cut'
    <3>1. CASE u = job.who
      <4>1. \E w \in welcomed' : w.who = u /\ w.group = job.lobby
        <5> DEFINE w == [who |-> job.who, group |-> job.lobby, epoch |-> e]
        <5>1. w \in welcomed' /\ w.who = u /\ w.group = job.lobby
          BY <1>3, <3>1
        <5> QED BY <5>1
      <4> QED BY <1>1, <1>2, <1>4, <3>1, <4>1
    <3>2. CASE u # job.who
      <4>1. outcome[u] = "added"
        BY <1>2, <2>1, <3>2 DEF BotInv, BotTypes
      <4> QED BY <1>2, <1>3, <4>1 DEF BotInv, AddedIsMember
    <3> QED BY <3>1, <3>2
  <2> QED BY <2>1 DEF AddedIsMember
<1>9. RetriesSucceed'
  BY <1>2 DEF BotInv, BotTypes, RetriesSucceed
<1> QED BY <1>5, <1>6, <1>7, <1>8, <1>9 DEF BotInv

LEMMA FetchKeysKeeps == ASSUME BotInv, FetchKeys PROVE BotInv'
<1>1. /\ job.pc = "fetch" /\ job.pc \in BotPcs /\ job.pc \in BotPcs \ {"look", "create", "row"}
      /\ UNCHANGED <<mirror, engineSaved, engineNow, lobbies, commits, welcomed, keyed>>
  BY DEF FetchKeys, At, stateFileVars, remoteVars, BotPcs, Joining
<1>2. CASE job.who \notin keyed
  <2>1. Ends("keyless")
    BY <1>2 DEF FetchKeys
  <2> QED BY <1>1, <2>1, EndsKeep DEF stateFileVars
<1>3. CASE job.who \in keyed
  <2>1. Steps("add")
    BY <1>1, <1>3, GoesSteps DEF FetchKeys, BotInv, BotPcs, Joining
  <2>2. FoundingInv' /\ BotCommitInv' /\ OneLobbyInv'
    BY <1>1, <2>1 DEF Steps, BotInv, FoundingInv, BotCommitInv, OneLobbyInv, Publishes, BotPcs,
                      Founding, Joining, Founded
  <2>3. BotEngineInv'
    BY <1>1, <2>1 DEF Steps, BotInv, BotEngineInv, BotPcs, Joining
  <2>4. BotTypes' /\ AddedIsMember' /\ RetriesSucceed'
    BY <1>1, <2>1 DEF Steps, BotInv, BotTypes, AddedIsMember, RetriesSucceed
  <2> QED BY <2>2, <2>3, <2>4 DEF BotInv
<1> QED BY <1>2, <1>3

\* A run that is cut short leaves what its next step would have made up for.
LEMMA CutShortKeeps == ASSUME BotInv, CutShort PROVE BotInv'
<1>1. /\ job \in BotJob /\ job.pc \in BotPcs /\ job.who \in Visitors
      /\ job' = NoJob /\ job'.pc = "none" /\ cut' = cut \cup {job.pc}
      /\ outcome' = [outcome EXCEPT ![job.who] = "cut"]
      /\ UNCHANGED <<mirror, engineSaved, engineNow, lobbies, commits, welcomed, launches>>
  BY NoJobIsNone DEF CutShort, stateFileVars, remoteVars, BotInv, BotTypes, BotJob
<1>2. "none" \notin BotPcs
  BY DEF BotPcs, Founding, Joining
<1>3. FoundingInv'
  BY <1>1, <1>2 DEF BotInv, FoundingInv, BotPcs, Founding, Joining
<1>4. BotEngineInv'
  BY <1>1, <1>2 DEF BotInv, BotEngineInv
<1>5. BotCommitInv'
  <2>1. \A g \in GroupIds : ~ Publishes(job', g)
    BY <1>1 DEF Publishes
  <2>2. \A g \in GroupIds : \A e \in commits[g] : 1 <= e /\ e <= engineSaved[g]
    BY DEF BotInv, BotCommitInv
  <2>3. "publish" \in cut' \/ \A g \in GroupIds : \A e \in Int :
          1 <= e /\ e <= engineSaved[g] => e \in commits[g]
    BY <1>1 DEF BotInv, BotCommitInv, Publishes
  <2> QED BY <1>1, <2>1, <2>2, <2>3 DEF BotCommitInv
<1>6. OneLobbyInv'
  <2>1. ASSUME cut' \cap Founding = {}
        PROVE  Len(lobbies) <= 1 /\ (Len(lobbies) = 1 => Founded # {})
    <3>1. cut \cap Founding = {} /\ job.pc \notin Founding
      BY <1>1, <2>1
    <3> QED BY <3>1 DEF BotInv, OneLobbyInv
  <2>2. Founded' = Founded
    BY <1>1 DEF Founded
  <2> QED BY <1>1, <2>1, <2>2 DEF OneLobbyInv
<1>7. BotTypes'
  BY <1>1 DEF BotInv, BotTypes
<1>8. AddedIsMember' /\ RetriesSucceed'
  <2>1. \A u \in Visitors : outcome'[u] \in {"added", "failed"} => outcome[u] = outcome'[u]
    BY <1>1 DEF BotInv, BotTypes
  <2>2. AddedIsMember'
    BY <1>1, <2>1 DEF BotInv, AddedIsMember
  <2>3. RetriesSucceed'
    BY <1>1, <2>1 DEF BotInv, RetriesSucceed
  <2> QED BY <2>2, <2>3
<1> QED BY <1>3, <1>4, <1>5, <1>6, <1>7, <1>8 DEF BotInv

LEMMA BotStarts == DemoBotInit => BotInv
<1> SUFFICES ASSUME DemoBotInit PROVE BotInv
  OBVIOUS
<1>1. /\ lobbies = <<>> /\ mirror = [i \in GroupIds |-> Absent] /\ job.pc = "none" /\ job = NoJob
      /\ engineNow = [g \in GroupIds |-> Absent] /\ engineSaved = [g \in GroupIds |-> Absent]
      /\ commits = [g \in GroupIds |-> {}] /\ welcomed = {} /\ launches = 0
      /\ outcome = [u \in Visitors |-> "none"] /\ cut = {} /\ job.pc \notin BotPcs
  BY NoJobIsNone DEF DemoBotInit
<1>2. Len(lobbies) = 0 /\ lobbies \in Seq(LobbyRow)
  BY <1>1
<1>3. /\ \A i \in GroupIds : mirror[i] = Absent /\ engineNow[i] = Absent /\ engineSaved[i] = Absent
      /\ Absent \in Int /\ ~ (Absent > 0) /\ \A i \in GroupIds : i # Absent
  BY <1>1 DEF Absent, GroupIds
<1>4. BotTypes
  BY <1>1, <1>2, <1>3, DemoBotAssumption DEF BotTypes
<1>5. FoundingInv
  BY <1>1, <1>2, <1>3 DEF FoundingInv, BotPcs, Founding, Joining
<1>6. BotEngineInv
  BY <1>1, <1>3 DEF BotEngineInv, BotPcs, Founding, Joining
<1>7. BotCommitInv
  BY <1>1, <1>3 DEF BotCommitInv, Absent
<1>8. OneLobbyInv
  BY <1>1, <1>2, <1>3 DEF OneLobbyInv, BotPcs
<1>9. AddedIsMember /\ RetriesSucceed
  BY <1>1 DEF AddedIsMember, RetriesSucceed
<1> QED BY <1>4, <1>5, <1>6, <1>7, <1>8, <1>9 DEF BotInv

LEMMA BotStep == BotInv /\ [DemoBotNext]_botVars => BotInv'
<1> SUFFICES ASSUME BotInv, [DemoBotNext]_botVars PROVE BotInv'
  OBVIOUS
<1>1. CASE UNCHANGED botVars
  BY <1>1 DEF botVars, BotInv, BotTypes, FoundingInv, BotEngineInv, BotCommitInv, OneLobbyInv,
              AddedIsMember, RetriesSucceed, Founded
<1>2. CASE \E u \in Visitors : PublishesKeys(u) \/ Launch(u)
  BY <1>2, PublishesKeysKeeps, LaunchKeeps
<1>3. CASE Look \/ AddRow \/ CreateLobby \/ MirrorLobby \/ CreateGroup \/ TieGroup \/ SaveGroup
  BY <1>3, LookKeeps, AddRowKeeps, CreateLobbyKeeps, MirrorLobbyKeeps, CreateGroupKeeps,
     TieGroupKeeps, SaveGroupKeeps
<1>4. CASE LinkLobby \/ FetchKeys \/ AddToTree \/ PublishTree \/ SendWelcome \/ CutShort
  BY <1>4, LinkLobbyKeeps, FetchKeysKeeps, AddToTreeKeeps, PublishTreeKeeps, SendWelcomeKeeps,
     CutShortKeeps
<1> QED BY <1>1, <1>2, <1>3, <1>4 DEF DemoBotNext

\* An epoch is that of a run: a run adds to a group once, so that no group is deeper than
\* there were runs, nor as deep before the run under way has added.
AtRun(e, n, before) == e \in -1 .. n /\ (before => e < n)
BotDepthInv ==
  /\ keyed \subseteq Visitors
  /\ \A g \in GroupIds :
       /\ AtRun(engineNow[g], launches, job.pc \in BotPcs \ {"publish", "welcome"})
       /\ AtRun(engineSaved[g], launches, job.pc \in BotPcs \ {"publish", "welcome"})

\* A step of the run that leaves the engine alone and is not its last before adding.
LEMMA DepthStays ==
  ASSUME BotInv, BotDepthInv, UNCHANGED <<engineNow, engineSaved, launches>>,
         keyed' \subseteq Visitors,
         job'.pc \in BotPcs \ {"publish", "welcome"} => job.pc \in BotPcs \ {"publish", "welcome"}
  PROVE  BotDepthInv'
BY DEF BotDepthInv, AtRun

LEMMA DepthKeeps == ASSUME BotInv, BotDepthInv, DemoBotNext PROVE BotDepthInv'
<1>1. /\ launches \in Nat /\ engineNow \in [GroupIds -> Int] /\ engineSaved \in [GroupIds -> Int]
      /\ keyed \subseteq Visitors /\ (job = NoJob \/ job \in BotJob)
  BY DEF BotInv, BotTypes, BotDepthInv
<1>2. ASSUME NEW u \in Visitors, PublishesKeys(u) PROVE BotDepthInv'
  BY <1>1, <1>2, DepthStays DEF PublishesKeys
<1>3. ASSUME NEW u \in Visitors, Launch(u) PROVE BotDepthInv'
  <2>1. /\ launches' = launches + 1 /\ engineNow' = engineSaved /\ UNCHANGED <<engineSaved, keyed>>
    BY <1>3 DEF Launch, stateFileVars, remoteVars
  <2>2. \A g \in GroupIds : engineSaved[g] \in -1 .. launches
    BY DEF BotDepthInv, AtRun
  <2>3. \A g \in GroupIds : engineSaved[g] \in -1 .. launches' /\ engineSaved[g] < launches'
    BY <1>1, <2>1, <2>2
  <2> QED BY <1>1, <2>1, <2>3 DEF BotDepthInv, AtRun
<1>4. CASE Look \/ AddRow \/ CreateLobby \/ MirrorLobby \/ TieGroup \/ LinkLobby
  <2>1. /\ UNCHANGED <<engineNow, engineSaved, launches, keyed>>
        /\ job.pc \in BotPcs \ {"publish", "welcome"}
    BY <1>4 DEF Look, AddRow, CreateLobby, MirrorLobby, TieGroup, LinkLobby, At, Goes,
                stateFileVars, remoteVars, BotPcs, Founding, Joining
  <2> QED BY <1>1, <2>1, DepthStays
<1>5. CASE FetchKeys
  <2>1. /\ UNCHANGED <<engineNow, engineSaved, launches, keyed>>
        /\ job.pc \in BotPcs \ {"publish", "welcome"}
    BY <1>5 DEF FetchKeys, At, Goes, Ends, stateFileVars, remoteVars, BotPcs, Founding, Joining
  <2> QED BY <1>1, <2>1, DepthStays
<1>6. CASE CreateGroup
  <2>1. /\ engineNow' = [engineNow EXCEPT ![job.lobby] = 0]
        /\ UNCHANGED <<engineSaved, launches, keyed>> /\ job.pc = "group"
    BY <1>6 DEF CreateGroup, At, stateFileVars, remoteVars
  <2>2. job.pc \in BotPcs \ {"publish", "welcome"}
    BY <2>1 DEF BotPcs, Founding
  <2>3. \A g \in GroupIds : /\ engineSaved[g] \in -1 .. launches /\ engineSaved[g] < launches
                            /\ engineNow[g] \in -1 .. launches /\ engineNow[g] < launches
    BY <2>2 DEF BotDepthInv, AtRun
  <2>4. launches >= 1
    <3>1. job.lobby \in 1 .. Len(lobbies) /\ Len(lobbies) <= launches /\ Len(lobbies) \in Nat
      BY <2>1, <2>2, RunsInRange DEF BotInv, BotTypes, FoundingInv
    <3> QED BY <1>1, <3>1
  <2>5. \A g \in GroupIds : engineNow'[g] \in {0, engineNow[g]}
    BY <1>1, <2>1
  <2>6. \A g \in GroupIds : engineNow'[g] \in -1 .. launches /\ engineNow'[g] < launches
    BY <1>1, <2>3, <2>4, <2>5
  <2> QED BY <1>1, <2>1, <2>3, <2>6 DEF BotDepthInv, AtRun
<1>7. CASE SaveGroup
  <2>1. /\ engineSaved' = engineNow /\ UNCHANGED <<engineNow, launches, keyed>> /\ job.pc = "save"
    BY <1>7 DEF SaveGroup, At, Goes, remoteVars
  <2>2. job.pc \in BotPcs \ {"publish", "welcome"}
    BY <2>1 DEF BotPcs
  <2> QED BY <1>1, <2>1, <2>2 DEF BotDepthInv, AtRun
<1>8. CASE AddToTree
  <2>1. /\ job.pc = "add" /\ UNCHANGED <<launches, keyed>>
    BY <1>8 DEF AddToTree, At, Goes, Ends, remoteVars
  <2>2. job.pc \in BotPcs \ {"publish", "welcome"}
    BY <2>1 DEF BotPcs, Joining
  <2>3. \A g \in GroupIds : /\ engineSaved[g] \in -1 .. launches /\ engineSaved[g] < launches
                            /\ engineNow[g] \in -1 .. launches /\ engineNow[g] < launches
    BY <2>2 DEF BotDepthInv, AtRun
  <2>4. CASE ~Holds(job.group)
    <3>1. UNCHANGED <<engineNow, engineSaved>>
      BY <1>8, <2>4 DEF AddToTree
    <3> QED BY <1>1, <2>1, <2>2, <3>1, DepthStays
  <2>5. CASE Holds(job.group)
    <3>1. /\ engineNow' = [engineNow EXCEPT ![job.group] = @ + 1] /\ engineSaved' = engineNow'
          /\ job'.pc = "publish"
      <4>1. job \in BotJob
        BY <2>2, RunsAreJobs DEF BotInv
      <4> QED BY <1>8, <2>5, <4>1 DEF AddToTree, Goes, BotJob
    <3>2. \A g \in GroupIds : engineNow'[g] \in {engineNow[g] + 1, engineNow[g]}
      BY <1>1, <3>1
    <3>3. \A g \in GroupIds : engineNow'[g] \in -1 .. launches
      BY <1>1, <2>3, <3>2
    <3> QED BY <1>1, <2>1, <3>1, <3>3 DEF BotDepthInv, AtRun
  <2> QED BY <2>4, <2>5
<1>9. CASE PublishTree \/ SendWelcome \/ CutShort
  <2>1. /\ UNCHANGED <<engineNow, engineSaved, launches, keyed>>
        /\ job' = NoJob \/ job' = [job EXCEPT !.pc = "welcome"]
    BY <1>9 DEF PublishTree, SendWelcome, CutShort, Goes, Ends, stateFileVars, remoteVars
  <2>2. job'.pc \notin BotPcs \ {"publish", "welcome"}
    <3>1. CASE job' = NoJob
      BY <3>1, NoJobIsNone
    <3>2. CASE job' = [job EXCEPT !.pc = "welcome"]
      BY <1>1, <3>2 DEF NoJob, BotJob
    <3> QED BY <2>1, <3>1, <3>2
  <2> QED BY <1>1, <2>1, <2>2, DepthStays
<1> QED BY <1>2, <1>3, <1>4, <1>5, <1>6, <1>7, <1>8, <1>9 DEF DemoBotNext

\* The concierge's state has its types.
LEMMA DemoBotTypesHold == DemoBotSpec => []DemoBotTypeOK
<1>1. BotInv /\ BotDepthInv => DemoBotTypeOK
  <2> SUFFICES ASSUME BotInv, BotDepthInv PROVE DemoBotTypeOK
    OBVIOUS
  <2>1. /\ launches \in 0 .. MaxLaunches /\ Len(lobbies) <= launches /\ keyed \subseteq Visitors
        /\ mirror \in [GroupIds -> Int] /\ engineNow \in [GroupIds -> Int]
        /\ engineSaved \in [GroupIds -> Int] /\ commits \in [GroupIds -> SUBSET Int]
    BY DEF BotInv, BotTypes, FoundingInv, BotDepthInv
  <2>2. \A i \in DOMAIN lobbies : lobbies[i].users \subseteq Visitors
                                    /\ lobbies[i].group \in {0} \cup GroupIds
    <3>1. \A i \in DOMAIN lobbies : lobbies[i] \in LobbyRow
      BY DEF BotInv, BotTypes
    <3> QED BY <3>1, DemoBotAssumption DEF LobbyRow, GroupIds
  <2>3. \A g \in GroupIds : mirror[g] \in -1 .. MaxLaunches
    <3>1. \A g \in GroupIds : mirror[g] = Absent \/ mirror[g] \in {0, g}
      BY DEF BotInv, FoundingInv
    <3> QED BY <3>1, DemoBotAssumption DEF GroupIds, Absent
  <2>4. \A g \in GroupIds : engineNow[g] \in -1 .. MaxLaunches /\ engineSaved[g] \in -1 .. MaxLaunches
    BY <2>1, DemoBotAssumption DEF BotDepthInv, AtRun
  <2>5. \A g \in GroupIds : commits[g] \subseteq 1 .. MaxLaunches
    <3>1. \A g \in GroupIds : \A e \in commits[g] : e \in Int /\ 1 <= e /\ e <= engineSaved[g]
      BY <2>1 DEF BotInv, BotCommitInv
    <3> QED BY <2>1, <2>4, <3>1, DemoBotAssumption
  <2> QED BY <2>1, <2>2, <2>3, <2>4, <2>5 DEF DemoBotTypeOK
<1>2. DemoBotInit => BotDepthInv
  BY DEF DemoBotInit, BotDepthInv, AtRun, Absent, NoJob, BotPcs, Founding, Joining
<1>3. BotInv /\ BotDepthInv /\ [DemoBotNext]_botVars => BotDepthInv'
  <2>1. BotDepthInv /\ UNCHANGED botVars => BotDepthInv'
    BY DEF botVars, BotDepthInv, AtRun
  <2> QED BY <2>1, DepthKeeps
<1> QED BY <1>1, <1>2, <1>3, BotStarts, BotStep, PTL DEF DemoBotSpec

LEMMA BotIsSound == BotInv => LobbyIsSound
<1> SUFFICES ASSUME BotInv PROVE LobbyIsSound
  OBVIOUS
<1>1. OneLobby
  <2>1. ASSUME Len(lobbies) > 1 PROVE cut \cap Founding # {}
    <3>1. Len(lobbies) \in Nat /\ ~ (Len(lobbies) <= 1)
      <4>1. Len(lobbies) \in Nat
        BY DEF BotInv, BotTypes
      <4> QED BY <2>1, <4>1
    <3> QED BY <3>1 DEF BotInv, OneLobbyInv
  <2> QED BY <2>1 DEF OneLobby, Founding
<1>2. CommitsAreDense
  <2>1. ASSUME NEW g \in GroupIds, "publish" \notin cut, NEW e \in commits[g], NEW x \in 1 .. e
        PROVE  x \in commits[g]
    <3>1. e \in Int /\ e <= engineSaved[g] /\ engineSaved[g] \in Int
      BY <2>1 DEF BotInv, BotTypes, BotCommitInv
    <3>2. x \in Int /\ 1 <= x /\ x <= engineSaved[g] /\ (x = engineSaved[g] => x = e)
      BY <2>1, <3>1
    <3>3. x \in commits[g] \/ x = engineSaved[g]
      BY <2>1, <3>2 DEF BotInv, BotCommitInv
    <3> QED BY <2>1, <3>2, <3>3
  <2> QED BY <2>1 DEF CommitsAreDense
<1> QED BY <1>1, <1>2 DEF LobbyIsSound, BotInv

\* Whatever runs of the bot are killed, or give up, between any two of their writes, and
\* however many there are: who was added is in the lobby and has his Welcome, a run that
\* is not cut short fails for want of a KeyPackage only, there is one lobby, and the
\* commits have no gap, but for the cuts the properties name (bot.ts addUserToDemo(),
\* with its store and engine).
THEOREM LobbyHolds == DemoBotSpec => []LobbyIsSound
  BY BotStarts, BotStep, BotIsSound, PTL DEF DemoBotSpec


-----------------------------------------------------------------------------
(***************************************************************************)
(* The databases of the accounts.  An open is a record of its own and may  *)
(* outlive the account it is for; what makes a handle, a passphrase or an  *)
(* import wrong is always a second open of the same account, or a second   *)
(* first open.  The parts of the invariant about opens are operators of    *)
(* the opens, so that they can be said of those a call goes round with.    *)
(***************************************************************************)

Ids == Accounts \cup {Nobody}
OpenCall == [pc : {"none", "key", "store", "open", "migrate", "marker", "import", "mark",
                      "ready", "held", "broken"}, user : Ids, key : Nat]
AccountFile == [key : Nat, migrated : BOOLEAN, marked : BOOLEAN,
                row : {"absent", "legacy", "own"}]

DbTypes ==
  /\ active \in Ids /\ cached \in Opens \cup {0} /\ storedKey \in Nat /\ made \in Nat
  /\ opens \in [Opens -> OpenCall] /\ file \in [Accounts -> AccountFile]
  /\ touched \subseteq Accounts

Opening(o) == o.pc # "none"

\* An account has two connections only when one was opened in the presence of the other.
RivalsOf(os, riv) ==
  /\ \A k \in Opens : Opening(os[k]) => os[k].user \in Accounts
  /\ \A j, k \in Opens : j # k /\ Opening(os[j]) /\ Opening(os[k]) /\ os[j].user = os[k].user =>
       os[k].user \in riv

\* HandlesAreActive of these opens.
HandlesOf(os, riv, c, a) ==
  /\ c # 0 => os[c].pc = "held" /\ os[c].user = a
  /\ \A k \in Opens : os[k].pc = "held" /\ k # c => os[k].user \in riv

\* A passphrase is in use once it is stored, and only one is being stored.
PassphraseOf(os, stored, twice) ==
  twice \/ \A k \in Opens :
    /\ os[k].pc = "store" =>
         /\ stored = 0 /\ os[k].key # 0
         /\ \A j \in Opens : os[j].pc = "store" => j = k
    /\ os[k].pc \notin {"none", "key", "store"} => stored # 0 /\ os[k].key = stored

\* The marker is there when the handle is, and an import that goes on after somebody
\* else has written the marker is one of a rival.
ImportOf(os, riv, f, t) ==
  \A k \in Opens :
    /\ os[k].pc \in {"ready", "held"} => f[os[k].user].marked
    /\ os[k].pc \in {"import", "mark"} /\ f[os[k].user].marked => os[k].user \in riv
    /\ os[k].pc = "mark" /\ os[k].user \in Legacy =>
         f[os[k].user].row # "absent" \/ os[k].user \in t

OpensAreSound(os, riv, c, a, f, t, stored, twice) ==
  /\ RivalsOf(os, riv) /\ HandlesOf(os, riv, c, a)
  /\ PassphraseOf(os, stored, twice) /\ ImportOf(os, riv, f, t)

FilesInv == FilesAreKept /\ \A u \in touched : file[u].marked

DatabaseInv ==
  /\ DbTypes /\ FilesInv
  /\ OpensAreSound(opens, rivals, cached, active, file, touched, storedKey, raced)

OpenPcs == {"none", "key", "store", "open", "migrate", "marker", "import", "mark", "ready",
            "held", "broken"}

LEMMA AtAnotherPoint ==
  ASSUME NEW o \in OpenCall, NEW p \in OpenPcs
  PROVE  /\ [o EXCEPT !.pc = p] \in OpenCall
         /\ [o EXCEPT !.pc = p].pc = p /\ [o EXCEPT !.pc = p].user = o.user
         /\ [o EXCEPT !.pc = p].key = o.key
BY DEF OpenCall, OpenPcs

LEMMA NoOpenIs == NoOpen \in OpenCall /\ NoOpen.pc = "none" /\ ~Opening(NoOpen)
BY DEF NoOpen, OpenCall, Ids, Opening

\* An open that is gone breaks nothing.
LEMMA OpensGo ==
  ASSUME NEW os \in [Opens -> OpenCall], NEW riv, NEW c \in Opens \cup {0}, NEW a, NEW f, NEW t,
         NEW stored, NEW twice, NEW k \in Opens, k # c,
         OpensAreSound(os, riv, c, a, f, t, stored, twice)
  PROVE  OpensAreSound([os EXCEPT ![k] = NoOpen], riv, c, a, f, t, stored, twice)
<1> DEFINE new == [os EXCEPT ![k] = NoOpen]
<1>1. /\ \A j \in Opens \ {k} : new[j] = os[j]
      /\ new[k] = NoOpen
  OBVIOUS
<1> HIDE DEF new
<1>2. RivalsOf(new, riv) /\ HandlesOf(new, riv, c, a)
  BY <1>1, NoOpenIs DEF OpensAreSound, RivalsOf, HandlesOf, Opening
<1>3. PassphraseOf(new, stored, twice)
  BY <1>1, NoOpenIs DEF OpensAreSound, PassphraseOf
<1>4. ImportOf(new, riv, f, t)
  BY <1>1, NoOpenIs DEF OpensAreSound, ImportOf
<1> QED BY <1>2, <1>3, <1>4 DEF OpensAreSound, new

\* One that begins makes a rival of its account when that has another.
LEMMA OpensBegin ==
  ASSUME NEW os \in [Opens -> OpenCall], NEW riv,
         NEW a \in Accounts, NEW f, NEW t, NEW stored, NEW twice, NEW k \in Opens,
         os[k] = NoOpen, OpensAreSound(os, riv, 0, a, f, t, stored, twice)
  PROVE  LET new  == [os EXCEPT ![k] = [pc |-> "key", user |-> a, key |-> 0]]
             riv2 == riv \cup ({a} \cap {os[j].user : j \in Opens})
         IN  /\ new \in [Opens -> OpenCall]
             /\ OpensAreSound(new, riv2, 0, a, f, t, stored, twice)
<1> DEFINE new == [os EXCEPT ![k] = [pc |-> "key", user |-> a, key |-> 0]]
           riv2 == riv \cup ({a} \cap {os[j].user : j \in Opens})
           o == [pc |-> "key", user |-> a, key |-> 0]
<1>0. o \in OpenCall /\ o.pc = "key" /\ o.user = a
  BY DEF OpenCall, Ids
<1> HIDE DEF o
<1>1. /\ \A j \in Opens \ {k} : new[j] = os[j]
      /\ new[k] = o /\ new \in [Opens -> OpenCall]
  BY <1>0 DEF o
<1> HIDE DEF new
<1>2. \A j \in Opens : os[j].user = a => a \in riv2
  OBVIOUS
<1>3. riv \subseteq riv2
  OBVIOUS
<1> HIDE DEF riv2
<1>4. RivalsOf(new, riv2)
  BY <1>0, <1>1, <1>2, <1>3 DEF OpensAreSound, RivalsOf, Opening
<1>5. HandlesOf(new, riv2, 0, a)
  BY <1>0, <1>1, <1>3 DEF OpensAreSound, HandlesOf
<1>6. PassphraseOf(new, stored, twice)
  BY <1>0, <1>1 DEF OpensAreSound, PassphraseOf
<1>7. ImportOf(new, riv2, f, t)
  BY <1>0, <1>1, <1>3 DEF OpensAreSound, ImportOf
<1> QED BY <1>1, <1>4, <1>5, <1>6, <1>7 DEF OpensAreSound, new, riv2

\* However many calls go round the loop.
LEMMA LoopKeepsOpens ==
  ASSUME NEW who, NEW os \in [Opens -> OpenCall], NEW op, Loop(who, os, op),
         active' \in Ids, cached' \in Opens \cup {0}, 0 \notin Opens,
         OpensAreSound(os, rivals, cached', active', file', touched', storedKey', raced')
  PROVE  /\ opens' \in [Opens -> OpenCall] /\ rivals \subseteq rivals'
         /\ OpensAreSound(opens', rivals', cached', active', file', touched', storedKey', raced')
<1>1. CASE opens' = os /\ rivals' = rivals
  BY <1>1
<1>2. CASE /\ cached' = 0 /\ active' # Nobody /\ current' \in Opens /\ os[current'] = NoOpen
           /\ opens' = [os EXCEPT ![current'] = [pc |-> "key", user |-> active', key |-> 0]]
           /\ rivals' = rivals \cup ({active'} \cap {os[j].user : j \in Opens})
  <2>1. active' \in Accounts
    BY <1>2 DEF Ids
  <2>2. /\ opens' \in [Opens -> OpenCall]
        /\ OpensAreSound(opens', rivals', 0, active', file', touched', storedKey', raced')
    <3>1. OpensAreSound(os, rivals, 0, active', file', touched', storedKey', raced')
      BY <1>2
    <3> QED BY <1>2, <2>1, <3>1, OpensBegin
  <2>3. rivals \subseteq rivals'
    BY <1>2
  <2> QED BY <1>2, <2>2, <2>3
<1>3. \/ opens' = os /\ rivals' = rivals
      \/ /\ cached' = 0 /\ active' # Nobody /\ current' \in Opens /\ os[current'] = NoOpen
         /\ opens' = [os EXCEPT ![current'] = [pc |-> "key", user |-> active', key |-> 0]]
         /\ rivals' = rivals \cup ({active'} \cap {os[j].user : j \in Opens})
  BY Zenon DEF Loop
<1> QED BY <1>1, <1>2, <1>3

\* One open moves on, and what it relies on holds for it afterwards.
LEMMA OpenMoves ==
  ASSUME DatabaseInv, NEW k \in Opens, NEW o \in OpenCall, opens' = [opens EXCEPT ![k] = o],
         o.user = opens[k].user, Opening(o), Opening(opens[k]), k # cached, o.pc # "held",
         UNCHANGED <<active, cached, rivals, touched>>,
         file' \in [Accounts -> AccountFile], storedKey' \in Nat, made' \in Nat,
         PassphraseOf(opens', storedKey', raced'), ImportOf(opens', rivals', file', touched'),
         FilesInv'
  PROVE  DatabaseInv'
<1>1. /\ \A j \in Opens \ {k} : opens'[j] = opens[j]
      /\ opens'[k] = o /\ opens' \in [Opens -> OpenCall]
  BY DEF DatabaseInv, DbTypes
<1>2. DbTypes'
  BY <1>1 DEF DatabaseInv, DbTypes
<1>3. RivalsOf(opens', rivals')
  BY <1>1 DEF DatabaseInv, OpensAreSound, RivalsOf, Opening
<1>4. HandlesOf(opens', rivals', cached', active')
  BY <1>1 DEF DatabaseInv, DbTypes, OpensAreSound, HandlesOf
<1> QED BY <1>2, <1>3, <1>4 DEF DatabaseInv, OpensAreSound

\* The files are as they were, and so is what was done with them.
FilesStay == UNCHANGED <<file, storedKey, made, touched, raced>>

LEMMA ConstantsAreApart == 0 \notin Opens /\ NoOpen.pc # "held" /\ NoOpen.pc # "ready"
BY AccountDbAssumption DEF NoOpen

LEMMA LoopKeeps ==
  ASSUME DatabaseInv, NEW who, NEW os \in [Opens -> OpenCall], NEW op, Loop(who, os, op),
         active' \in Ids, cached' \in Opens \cup {0}, FilesStay,
         OpensAreSound(os, rivals, cached', active', file, touched, storedKey, raced)
  PROVE  DatabaseInv'
<1>1. OpensAreSound(os, rivals, cached', active', file', touched', storedKey', raced')
  BY DEF FilesStay
<1>2. /\ opens' \in [Opens -> OpenCall] /\ rivals \subseteq rivals'
      /\ OpensAreSound(opens', rivals', cached', active', file', touched', storedKey', raced')
  BY <1>1, LoopKeepsOpens, ConstantsAreApart
<1>3. DbTypes'
  BY <1>2 DEF DatabaseInv, DbTypes, FilesStay
<1>4. FilesInv'
  BY <1>2 DEF DatabaseInv, FilesInv, FilesAreKept, KeyOpensFiles, ImportedOnce, FilesStay
<1> QED BY <1>2, <1>3, <1>4 DEF DatabaseInv

LEMMA GetChatDbKeeps == ASSUME DatabaseInv, NEW r \in Readers, GetChatDb(r) PROVE DatabaseInv'
<1>1. active' = active /\ cached' = cached /\ FilesStay /\ Loop({r}, opens, current)
  BY DEF GetChatDb, FilesStay
<1> QED BY <1>1, LoopKeeps DEF DatabaseInv, DbTypes

\* Whoever leaves has his handle closed, so that nobody's is cached.
LEMMA SetActiveKeeps == ASSUME DatabaseInv, NEW u \in Ids, SetActive(u) PROVE DatabaseInv'
<1> DEFINE left == IF cached = 0 THEN opens ELSE [opens EXCEPT ![cached] = NoOpen]
           who == IF u = Nobody THEN {} ELSE gate
<1>1. active' = u /\ cached' = 0 /\ FilesStay /\ Loop(who, left, 0)
  BY DEF SetActive, FilesStay
<1>2. left \in [Opens -> OpenCall] /\ \A k \in Opens : IF k = cached THEN left[k] = NoOpen
                                                       ELSE left[k] = opens[k]
  BY NoOpenIs, ConstantsAreApart DEF DatabaseInv, DbTypes
<1> HIDE DEF left, who
<1>3. RivalsOf(left, rivals)
  BY <1>2, NoOpenIs DEF DatabaseInv, OpensAreSound, RivalsOf, Opening
<1>4. HandlesOf(left, rivals, 0, u)
  BY <1>2, ConstantsAreApart DEF DatabaseInv, OpensAreSound, HandlesOf
<1>5. PassphraseOf(left, storedKey, raced)
  BY <1>2, NoOpenIs DEF DatabaseInv, OpensAreSound, PassphraseOf
<1>6. ImportOf(left, rivals, file, touched)
  BY <1>2, NoOpenIs DEF DatabaseInv, OpensAreSound, ImportOf
<1>7. OpensAreSound(left, rivals, cached', active', file, touched, storedKey, raced)
  BY <1>1, <1>3, <1>4, <1>5, <1>6 DEF OpensAreSound
<1>8. active' \in Ids /\ cached' \in Opens \cup {0}
  BY <1>1
<1> QED BY <1>1, <1>2, <1>7, <1>8, LoopKeeps

LEMMA ResolveKeeps == ASSUME DatabaseInv, NEW k \in Opens, Resolve(k) PROVE DatabaseInv'
<1> DEFINE op == IF current = k THEN 0 ELSE current
           gone == [opens EXCEPT ![k] = NoOpen]
           held == [opens EXCEPT ![k].pc = "held"]
<1>1. opens[k].pc = "ready" /\ active' = active /\ FilesStay
  BY DEF Resolve, FilesStay
<1>2. k # cached /\ k # 0 /\ opens[k] \in OpenCall /\ opens \in [Opens -> OpenCall]
  BY <1>1, ConstantsAreApart DEF DatabaseInv, DbTypes, OpensAreSound, HandlesOf
<1>3. CASE active # opens[k].user /\ cached' = cached /\ Loop(Waiting(k), gone, op)
  <2>1. gone \in [Opens -> OpenCall]
    BY <1>2, NoOpenIs
  <2>2. OpensAreSound(gone, rivals, cached, active, file, touched, storedKey, raced)
    BY <1>2, OpensGo DEF DatabaseInv, DbTypes
  <2> HIDE DEF gone, op
  <2>3. /\ active' \in Ids /\ cached' \in Opens \cup {0}
        /\ OpensAreSound(gone, rivals, cached', active', file, touched, storedKey, raced)
    BY <1>1, <1>3, <2>2 DEF DatabaseInv, DbTypes
  <2> QED BY <1>1, <1>3, <2>1, <2>3, LoopKeeps
<1>4. CASE active = opens[k].user /\ cached' = k /\ Loop(Waiting(k), held, op)
  <2>1. /\ held \in [Opens -> OpenCall] /\ \A j \in Opens \ {k} : held[j] = opens[j]
        /\ held[k].pc = "held" /\ held[k].user = opens[k].user /\ held[k].key = opens[k].key
    <3>1. "held" \in OpenPcs
      BY DEF OpenPcs
    <3>2. held = [opens EXCEPT ![k] = [opens[k] EXCEPT !.pc = "held"]]
      OBVIOUS
    <3> QED BY <1>2, <3>1, <3>2, AtAnotherPoint
  <2> HIDE DEF held, op
  <2>2. RivalsOf(held, rivals)
    BY <1>1, <2>1 DEF DatabaseInv, OpensAreSound, RivalsOf, Opening
  <2>3. HandlesOf(held, rivals, k, active)
    <3>1. ASSUME NEW j \in Opens, held[j].pc = "held", j # k PROVE held[j].user \in rivals
      <4>1. opens[j].pc = "held" /\ opens[j].user = held[j].user
        BY <2>1, <3>1
      <4>2. CASE j # cached
        BY <4>1, <4>2 DEF DatabaseInv, OpensAreSound, HandlesOf
      <4>3. CASE j = cached
        <5>1. opens[j].user = opens[k].user
          BY <1>4, <4>3, ConstantsAreApart DEF DatabaseInv, OpensAreSound, HandlesOf
        <5> QED BY <1>1, <3>1, <4>1, <5>1 DEF DatabaseInv, OpensAreSound, RivalsOf, Opening
      <4> QED BY <4>2, <4>3
    <3>2. held[k].pc = "held" /\ held[k].user = active
      BY <1>4, <2>1
    <3> QED BY <3>1, <3>2 DEF HandlesOf
  <2>4. PassphraseOf(held, storedKey, raced)
    BY <1>1, <2>1 DEF DatabaseInv, OpensAreSound, PassphraseOf
  <2>5. ImportOf(held, rivals, file, touched)
    BY <1>1, <2>1 DEF DatabaseInv, OpensAreSound, ImportOf
  <2>6. /\ active' \in Ids /\ cached' \in Opens \cup {0}
        /\ OpensAreSound(held, rivals, cached', active', file, touched, storedKey, raced)
    BY <1>1, <1>4, <2>2, <2>3, <2>4, <2>5 DEF OpensAreSound, DatabaseInv, DbTypes
  <2> QED BY <1>1, <1>4, <2>1, <2>6, LoopKeeps
<1> QED BY <1>3, <1>4 DEF Resolve, Switched

\* A failed open is gone, or leaves a connection that nobody uses.
LEMMA ThrowsKeeps ==
  ASSUME DatabaseInv, NEW k \in Opens, Throws(k), UNCHANGED file,
         opens[k].pc \notin {"none", "held", "broken"}
  PROVE  DatabaseInv'
<1> DEFINE broken1 == [opens[k] EXCEPT !.pc = "broken"]
<1>1. k # cached /\ opens \in [Opens -> OpenCall] /\ opens[k] \in OpenCall /\ cached \in Opens \cup {0}
  BY ConstantsAreApart DEF DatabaseInv, DbTypes, OpensAreSound, HandlesOf
<1>2. /\ UNCHANGED <<active, cached, rivals>> /\ FilesStay
      /\ opens' = [opens EXCEPT ![k] = IF opens[k].pc \in {"key", "store"} THEN NoOpen
                                       ELSE broken1]
  BY DEF Throws, FilesStay
<1> HIDE DEF broken1
<1>3. CASE opens' = [opens EXCEPT ![k] = NoOpen]
  <2>1. opens' \in [Opens -> OpenCall]
    BY <1>1, <1>3, NoOpenIs
  <2>2. OpensAreSound([opens EXCEPT ![k] = NoOpen], rivals, cached, active, file, touched, storedKey, raced)
    BY <1>1, OpensGo DEF DatabaseInv
  <2>3. OpensAreSound(opens', rivals', cached', active', file', touched', storedKey', raced')
    BY <1>2, <1>3, <2>2 DEF FilesStay
  <2> QED BY <1>2, <2>1, <2>3
        DEF DatabaseInv, DbTypes, FilesInv, FilesAreKept, KeyOpensFiles, ImportedOnce, FilesStay
<1>4. CASE opens[k].pc \notin {"key", "store"} /\ opens' = [opens EXCEPT ![k] = broken1]
  <2>1. /\ broken1 \in OpenCall /\ broken1.pc = "broken" /\ broken1.user = opens[k].user
        /\ broken1.key = opens[k].key
    <3>1. "broken" \in OpenPcs
      BY DEF OpenPcs
    <3> QED BY <1>1, <3>1, AtAnotherPoint DEF broken1
  <2>2. opens'[k] = broken1 /\ \A j \in Opens \ {k} : opens'[j] = opens[j]
    BY <1>1, <1>4
  <2>3. PassphraseOf(opens', storedKey', raced')
    BY <1>2, <1>4, <2>1, <2>2 DEF DatabaseInv, OpensAreSound, PassphraseOf, FilesStay
  <2>4. ImportOf(opens', rivals', file', touched')
    BY <1>2, <2>1, <2>2 DEF DatabaseInv, OpensAreSound, ImportOf, FilesStay
  <2>5. FilesInv'
    BY <1>2 DEF DatabaseInv, FilesInv, FilesAreKept, KeyOpensFiles, ImportedOnce, FilesStay
  <2>6. /\ file' \in [Accounts -> AccountFile] /\ storedKey' \in Nat /\ made' \in Nat
        /\ UNCHANGED <<active, cached, rivals, touched>> /\ Opening(broken1) /\ Opening(opens[k])
        /\ broken1.pc # "held"
    BY <1>2, <2>1 DEF DatabaseInv, DbTypes, FilesStay, Opening
  <2> QED BY <1>1, <1>4, <2>1, <2>3, <2>4, <2>5, <2>6, OpenMoves
<1> QED BY <1>2, <1>3, <1>4

\* An open moves on and the file stays: what it is about to rely on is what it read.
LEMMA OpenMovesOnly ==
  ASSUME DatabaseInv, NEW k \in Opens, NEW p \in OpenPcs, Advances(k, p), OpenUnchanged, FilesStay,
         opens[k].pc \notin {"none", "held", "key", "store"},
         p \notin {"none", "held", "key", "store"},
         p \in {"import", "mark"} => ~file[opens[k].user].marked,
         p = "mark" => opens[k].user \notin Legacy,
         p = "ready" => file[opens[k].user].marked
  PROVE  DatabaseInv'
<1> DEFINE o == [opens[k] EXCEPT !.pc = p]
<1>1. opens \in [Opens -> OpenCall] /\ opens[k] \in OpenCall /\ opens' = [opens EXCEPT ![k] = o]
  BY DEF DatabaseInv, DbTypes, Advances
<1>2. o \in OpenCall /\ o.pc = p /\ o.user = opens[k].user /\ o.key = opens[k].key
  BY <1>1, AtAnotherPoint
<1> HIDE DEF o
<1>3. opens'[k] = o /\ \A j \in Opens \ {k} : opens'[j] = opens[j]
  BY <1>1
<1>4. PassphraseOf(opens', storedKey', raced')
  BY <1>2, <1>3 DEF DatabaseInv, OpensAreSound, PassphraseOf, FilesStay
<1>5. ImportOf(opens', rivals', file', touched')
  BY <1>2, <1>3 DEF DatabaseInv, OpensAreSound, ImportOf, FilesStay, OpenUnchanged
<1>6. FilesInv'
  BY DEF DatabaseInv, FilesInv, FilesAreKept, KeyOpensFiles, ImportedOnce, FilesStay, OpenUnchanged
<1>7. /\ file' \in [Accounts -> AccountFile] /\ storedKey' \in Nat /\ made' \in Nat
      /\ UNCHANGED <<active, cached, rivals, touched>> /\ Opening(o) /\ Opening(opens[k]) /\ o.pc # "held"
  BY <1>2 DEF DatabaseInv, DbTypes, FilesStay, OpenUnchanged, Opening
<1>8. k # cached
  BY ConstantsAreApart DEF DatabaseInv, OpensAreSound, HandlesOf
<1> QED BY <1>1, <1>2, <1>4, <1>5, <1>6, <1>7, <1>8, OpenMoves

LEMMA ReadMarkerKeeps == ASSUME DatabaseInv, NEW k \in Opens, ReadMarker(k) PROVE DatabaseInv'
<1> DEFINE p == IF file[opens[k].user].marked THEN "ready" ELSE "import"
<1>1. p \in OpenPcs /\ Advances(k, p) /\ OpenUnchanged /\ FilesStay /\ opens[k].pc = "marker"
  BY DEF OpenPcs, ReadMarker, OpenUnchanged, FilesStay
<1> QED BY <1>1, OpenMovesOnly

LEMMA ReadKeyKeeps == ASSUME DatabaseInv, NEW k \in Opens, ReadKey(k) PROVE DatabaseInv'
<1>1. /\ opens[k].pc = "key" /\ opens[k] \in OpenCall /\ opens \in [Opens -> OpenCall]
      /\ storedKey \in Nat /\ made \in Nat /\ made + 1 \in Nat /\ made + 1 # 0
      /\ UNCHANGED <<active, cached, rivals, touched, file, storedKey>>
  BY DEF ReadKey, DatabaseInv, DbTypes, OpenUnchanged
<1>2. PICK p \in OpenPcs, key \in Nat :
        /\ opens' = [opens EXCEPT ![k] = [opens[k] EXCEPT !.pc = p, !.key = key]]
        /\ p \in {"open", "store"} /\ made' \in Nat /\ (raced => raced')
        /\ p = "open" => storedKey # 0 /\ key = storedKey /\ raced' = raced
        /\ p = "store" => storedKey = 0 /\ key # 0
                          /\ raced' = (raced \/ \E j \in Opens : opens[j].pc = "store")
  <2>1. CASE storedKey # 0
    <3>1. /\ opens' = [opens EXCEPT ![k] = [opens[k] EXCEPT !.pc = "open", !.key = storedKey]]
          /\ made' = made /\ raced' = raced /\ "open" \in OpenPcs
      BY <2>1 DEF ReadKey, OpenPcs
    <3> QED BY <1>1, <2>1, <3>1
  <2>2. CASE storedKey = 0
    <3>1. /\ opens' = [opens EXCEPT ![k] = [opens[k] EXCEPT !.pc = "store", !.key = made + 1]]
          /\ made' = made + 1 /\ raced' = (raced \/ \E j \in Opens : opens[j].pc = "store")
          /\ "store" \in OpenPcs
      BY <2>2 DEF ReadKey, OpenPcs
    <3> QED BY <1>1, <2>2, <3>1
  <2> QED BY <2>1, <2>2
<1> DEFINE o == [opens[k] EXCEPT !.pc = p, !.key = key]
<1>3. o \in OpenCall /\ o.pc = p /\ o.user = opens[k].user /\ o.key = key
  BY <1>1 DEF OpenCall, OpenPcs
<1>4. opens' = [opens EXCEPT ![k] = o]
  BY <1>2
<1> HIDE DEF o
<1>5. opens'[k] = o /\ \A j \in Opens \ {k} : opens'[j] = opens[j]
  BY <1>1, <1>4
<1>6. PassphraseOf(opens', storedKey', raced')
  <2>1. CASE p = "open"
    BY <1>1, <1>2, <1>3, <1>5, <2>1 DEF DatabaseInv, OpensAreSound, PassphraseOf
  <2>2. CASE p = "store"
    BY <1>1, <1>2, <1>3, <1>5, <2>2 DEF DatabaseInv, OpensAreSound, PassphraseOf
  <2> QED BY <1>2, <2>1, <2>2
<1>7. ImportOf(opens', rivals', file', touched')
  BY <1>1, <1>2, <1>3, <1>5 DEF DatabaseInv, OpensAreSound, ImportOf
<1>8. FilesInv'
  <2>1. raced => raced'
    BY <1>2
  <2> QED BY <1>1, <2>1 DEF DatabaseInv, FilesInv, FilesAreKept, KeyOpensFiles, ImportedOnce
<1>9. /\ file' \in [Accounts -> AccountFile] /\ storedKey' \in Nat /\ made' \in Nat
      /\ Opening(o) /\ Opening(opens[k]) /\ o.pc # "held" /\ k # cached
  BY <1>1, <1>2, <1>3, ConstantsAreApart
    DEF DatabaseInv, DbTypes, Opening, OpensAreSound, HandlesOf
<1> QED BY <1>1, <1>3, <1>4, <1>6, <1>7, <1>8, <1>9, OpenMoves

LEMMA StoreKeyKeeps == ASSUME DatabaseInv, NEW k \in Opens, StoreKey(k) PROVE DatabaseInv'
<1> DEFINE o == [opens[k] EXCEPT !.pc = "open"]
<1>1. /\ opens[k].pc = "store" /\ opens[k] \in OpenCall /\ opens \in [Opens -> OpenCall]
      /\ opens[k].key \in Nat /\ storedKey' = opens[k].key /\ opens' = [opens EXCEPT ![k] = o]
      /\ UNCHANGED <<active, cached, rivals, touched, file, made, raced>> /\ "open" \in OpenPcs
  BY DEF StoreKey, Kept, Advances, DatabaseInv, DbTypes, OpenUnchanged, OpenPcs, OpenCall
<1>2. o \in OpenCall /\ o.pc = "open" /\ o.user = opens[k].user /\ o.key = opens[k].key
  BY <1>1, AtAnotherPoint
<1> HIDE DEF o
<1>3. opens'[k] = o /\ \A j \in Opens \ {k} : opens'[j] = opens[j]
  BY <1>1
<1>4. PassphraseOf(opens', storedKey', raced')
  BY <1>1, <1>2, <1>3 DEF DatabaseInv, OpensAreSound, PassphraseOf
<1>5. ImportOf(opens', rivals', file', touched')
  BY <1>1, <1>2, <1>3 DEF DatabaseInv, OpensAreSound, ImportOf
<1>6. FilesInv'
  <2>1. KeyOpensFiles'
    BY <1>1 DEF DatabaseInv, OpensAreSound, PassphraseOf, FilesInv, FilesAreKept, KeyOpensFiles
  <2>2. ImportedOnce' /\ \A u \in touched' : file'[u].marked
    BY <1>1 DEF DatabaseInv, FilesInv, FilesAreKept, ImportedOnce
  <2> QED BY <2>1, <2>2 DEF FilesInv, FilesAreKept
<1>7. /\ file' \in [Accounts -> AccountFile] /\ storedKey' \in Nat /\ made' \in Nat
      /\ Opening(o) /\ Opening(opens[k]) /\ o.pc # "held" /\ k # cached
  BY <1>1, <1>2, ConstantsAreApart
    DEF DatabaseInv, DbTypes, Opening, OpensAreSound, HandlesOf
<1> QED BY <1>1, <1>2, <1>4, <1>5, <1>6, <1>7, OpenMoves

LEMMA FileWith ==
  ASSUME NEW f \in AccountFile, NEW key \in Nat
  PROVE  /\ [f EXCEPT !.key = key] \in AccountFile
         /\ [f EXCEPT !.key = key].key = key /\ [f EXCEPT !.key = key].marked = f.marked
         /\ [f EXCEPT !.key = key].row = f.row
         /\ [f EXCEPT !.migrated = TRUE] \in AccountFile
         /\ [f EXCEPT !.migrated = TRUE].key = f.key
         /\ [f EXCEPT !.migrated = TRUE].marked = f.marked
         /\ [f EXCEPT !.migrated = TRUE].row = f.row
         /\ [f EXCEPT !.marked = TRUE] \in AccountFile
         /\ [f EXCEPT !.marked = TRUE].key = f.key /\ [f EXCEPT !.marked = TRUE].marked
         /\ [f EXCEPT !.marked = TRUE].row = f.row
BY DEF AccountFile

LEMMA FileWithRow ==
  ASSUME NEW f \in AccountFile, NEW r \in {"absent", "legacy", "own"}
  PROVE  /\ [f EXCEPT !.row = r] \in AccountFile
         /\ [f EXCEPT !.row = r].key = f.key /\ [f EXCEPT !.row = r].marked = f.marked
         /\ [f EXCEPT !.row = r].row = r
BY DEF AccountFile

\* An open writes its file and moves on.
LEMMA FileIsWritten ==
  ASSUME DatabaseInv, NEW k \in Opens, NEW p \in OpenPcs, NEW g \in AccountFile,
         Advances(k, p), file' = [file EXCEPT ![opens[k].user] = g],
         OpenUnchanged, UNCHANGED <<storedKey, made, raced>>,
         opens[k].pc \notin {"none", "held", "key", "store"},
         p \notin {"none", "held", "key", "store"},
         file[opens[k].user].marked => g.marked,
         g.key = file[opens[k].user].key \/ g.key = opens[k].key,
         g.row = file[opens[k].user].row \/
           /\ opens[k].user \in Legacy /\ g.row = "legacy" /\ p = "mark"
           /\ opens[k].user \in touched => opens[k].user \in rivals,
         p \in {"import", "mark"} /\ g.marked => opens[k].user \in rivals,
         p = "mark" /\ opens[k].user \in Legacy => g.row # "absent" \/ opens[k].user \in touched,
         p = "ready" => g.marked,
         g.marked => \/ file[opens[k].user].marked
                     \/ opens[k].pc = "mark" /\ g.row = file[opens[k].user].row
  PROVE  DatabaseInv'
<1> DEFINE o == [opens[k] EXCEPT !.pc = p]
           u == opens[k].user
<1>1. /\ opens \in [Opens -> OpenCall] /\ opens[k] \in OpenCall /\ opens' = [opens EXCEPT ![k] = o]
      /\ u \in Accounts /\ file \in [Accounts -> AccountFile] /\ file[u] \in AccountFile
      /\ UNCHANGED <<active, cached, rivals, touched, storedKey, made, raced>>
  BY DEF DatabaseInv, DbTypes, Advances, OpensAreSound, RivalsOf, Opening, OpenUnchanged
<1>2. o \in OpenCall /\ o.pc = p /\ o.user = u /\ o.key = opens[k].key
  BY <1>1, AtAnotherPoint
<1>3. /\ file' = [file EXCEPT ![u] = g] /\ file' \in [Accounts -> AccountFile]
      /\ file'[u] = g /\ \A v \in Accounts \ {u} : file'[v] = file[v]
  BY <1>1
<1> HIDE DEF o
<1>4. opens'[k] = o /\ \A j \in Opens \ {k} : opens'[j] = opens[j]
  BY <1>1
<1>5. \A j \in Opens : Opening(opens[j]) => opens[j].user \in Accounts
  BY DEF DatabaseInv, OpensAreSound, RivalsOf
<1>6. PassphraseOf(opens', storedKey', raced')
  BY <1>1, <1>2, <1>4 DEF DatabaseInv, OpensAreSound, PassphraseOf
<1>7. ImportOf(opens', rivals', file', touched')
  <2>1. ASSUME NEW j \in Opens, j # k
        PROVE  /\ opens'[j].pc \in {"ready", "held"} => file'[opens'[j].user].marked
               /\ opens'[j].pc \in {"import", "mark"} /\ file'[opens'[j].user].marked =>
                    opens'[j].user \in rivals'
               /\ opens'[j].pc = "mark" /\ opens'[j].user \in Legacy =>
                    file'[opens'[j].user].row # "absent" \/ opens'[j].user \in touched'
    <3>1. opens'[j] = opens[j]
      BY <1>4, <2>1
    <3>2. CASE Opening(opens[j]) /\ opens[j].user # u
      <4>1. file'[opens[j].user] = file[opens[j].user]
        BY <1>3, <1>5, <3>2
      <4> QED BY <1>1, <3>1, <4>1 DEF DatabaseInv, OpensAreSound, ImportOf
    <3>3. CASE Opening(opens[j]) /\ opens[j].user = u
      <4>1. u \in rivals
        BY <2>1, <3>3 DEF DatabaseInv, OpensAreSound, RivalsOf, Opening
      <4> QED BY <1>1, <1>3, <3>1, <3>3, <4>1 DEF DatabaseInv, OpensAreSound, ImportOf
    <3>4. CASE ~Opening(opens[j])
      BY <3>1, <3>4 DEF Opening
    <3> QED BY <3>2, <3>3, <3>4
  <2>2. /\ opens'[k].pc \in {"ready", "held"} => file'[opens'[k].user].marked
        /\ opens'[k].pc \in {"import", "mark"} /\ file'[opens'[k].user].marked =>
             opens'[k].user \in rivals'
        /\ opens'[k].pc = "mark" /\ opens'[k].user \in Legacy =>
             file'[opens'[k].user].row # "absent" \/ opens'[k].user \in touched'
    BY <1>1, <1>2, <1>3, <1>4
  <2> QED BY <2>1, <2>2 DEF ImportOf
<1>8. KeyOpensFiles'
  <2>1. ASSUME NEW v \in Accounts, ~raced PROVE file'[v].key \in {0, storedKey}
    <3>1. file[v].key \in {0, storedKey}
      BY <2>1 DEF DatabaseInv, FilesInv, FilesAreKept, KeyOpensFiles
    <3>2. opens[k].key = storedKey
      BY <2>1 DEF DatabaseInv, OpensAreSound, PassphraseOf
    <3> QED BY <1>3, <3>1, <3>2
  <2> QED BY <1>1, <2>1 DEF KeyOpensFiles
<1>9. ImportedOnce' /\ \A v \in touched' : file'[v].marked
  <2>1. \A v \in touched : file[v].marked /\ v \in Accounts
    BY DEF DatabaseInv, DbTypes, FilesInv
  <2>2. ImportedOnce
    BY DEF DatabaseInv, FilesInv, FilesAreKept
  <2>3. opens[k].pc = "mark" /\ u \in Legacy => file[u].row # "absent" \/ u \in touched
    BY DEF DatabaseInv, OpensAreSound, ImportOf
  <2>4. \A v \in touched' : file'[v].marked
    BY <1>1, <1>3, <2>1
  <2>5. ASSUME NEW v \in Accounts
        PROVE  /\ v \in Legacy /\ file'[v].marked => file'[v].row # "absent" \/ v \in touched
               /\ v \in touched /\ file'[v].row = "legacy" => v \in rivals
    <3>1. CASE v # u
      BY <1>3, <2>2, <3>1 DEF ImportedOnce
    <3>2. CASE v = u
      BY <1>1, <1>3, <2>2, <2>3, <3>2 DEF ImportedOnce
    <3> QED BY <3>1, <3>2
  <2> QED BY <1>1, <2>4, <2>5 DEF ImportedOnce
<1>10. FilesInv'
  BY <1>8, <1>9 DEF FilesInv, FilesAreKept
<1>11. /\ file' \in [Accounts -> AccountFile] /\ storedKey' \in Nat /\ made' \in Nat
       /\ UNCHANGED <<active, cached, rivals, touched>>
       /\ Opening(o) /\ Opening(opens[k]) /\ o.pc # "held" /\ k # cached
  BY <1>1, <1>2, <1>3, ConstantsAreApart
    DEF DatabaseInv, DbTypes, Opening, OpensAreSound, HandlesOf
<1> QED BY <1>1, <1>2, <1>6, <1>7, <1>10, <1>11, OpenMoves

\* What an open that uses its file knows of it.
LEMMA UsesItsFile ==
  ASSUME DatabaseInv, NEW k \in Opens, opens[k].pc # "none"
  PROVE  /\ opens[k] \in OpenCall /\ opens[k].user \in Accounts /\ opens[k].key \in Nat
         /\ file[opens[k].user] \in AccountFile /\ file \in [Accounts -> AccountFile]
BY DEF DatabaseInv, DbTypes, OpensAreSound, RivalsOf, Opening, OpenCall

LEMMA OpenFileKeeps == ASSUME DatabaseInv, NEW k \in Opens, OpenFile(k) PROVE DatabaseInv'
<1> DEFINE u == opens[k].user
           p == IF file[u].migrated THEN "marker" ELSE "migrate"
           g == [file[u] EXCEPT !.key = opens[k].key]
<1>1. CASE Throws(k) /\ UNCHANGED file
  BY <1>1, ThrowsKeeps DEF OpenFile
<1>2. CASE /\ file' = [file EXCEPT ![u].key = opens[k].key] /\ Advances(k, p)
           /\ OpenUnchanged /\ UNCHANGED <<storedKey, made, raced>>
  <2>1. opens[k].pc = "open" /\ p \in OpenPcs \ {"none", "held", "key", "store", "import", "mark", "ready"}
    BY DEF OpenFile, OpenPcs
  <2>2. /\ g \in AccountFile /\ g.key = opens[k].key /\ g.marked = file[u].marked
        /\ g.row = file[u].row
    <3>1. file[u] \in AccountFile /\ opens[k].key \in Nat
      BY <2>1, UsesItsFile
    <3> QED BY <3>1, FileWith
  <2>3. file' = [file EXCEPT ![u] = g]
    BY <1>2
  <2> HIDE DEF g, p
  <2> QED BY <1>2, <2>1, <2>2, <2>3, FileIsWritten
<1> QED BY <1>1, <1>2 DEF OpenFile

LEMMA MigrateKeeps == ASSUME DatabaseInv, NEW k \in Opens, Migrate(k) PROVE DatabaseInv'
<1> DEFINE u == opens[k].user
           g == [file[u] EXCEPT !.migrated = TRUE]
<1>1. CASE Throws(k) /\ UNCHANGED file
  BY <1>1, ThrowsKeeps DEF Migrate
<1>2. CASE /\ file' = [file EXCEPT ![u].migrated = TRUE] /\ Advances(k, "marker")
           /\ OpenUnchanged /\ UNCHANGED <<storedKey, made, raced>>
  <2>1. opens[k].pc = "migrate" /\ "marker" \in OpenPcs
    BY DEF Migrate, OpenPcs
  <2>2. /\ g \in AccountFile /\ g.key = file[u].key /\ g.marked = file[u].marked
        /\ g.row = file[u].row
    BY <2>1, UsesItsFile, FileWith
  <2>3. file' = [file EXCEPT ![u] = g]
    BY <1>2
  <2> HIDE DEF g
  <2> QED BY <1>2, <2>1, <2>2, <2>3, FileIsWritten
<1> QED BY <1>1, <1>2 DEF Migrate

\* The rows come back over a rewritten one only when a rival has written the marker.
LEMMA ImportKeeps == ASSUME DatabaseInv, NEW k \in Opens, Import(k) PROVE DatabaseInv'
<1> DEFINE u == opens[k].user
           r == Copied(u, file[u].row)
           g == [file[u] EXCEPT !.row = r]
<1>1. /\ opens[k].pc = "import" /\ "mark" \in OpenPcs /\ Advances(k, "mark")
      /\ OpenUnchanged /\ UNCHANGED <<storedKey, made, raced>>
  BY DEF Import, OpenPcs
<1>2. /\ u \in Accounts /\ file[u] \in AccountFile /\ file[u].row \in {"absent", "legacy", "own"}
      /\ file \in [Accounts -> AccountFile]
  BY <1>1, UsesItsFile DEF AccountFile
<1>3. /\ r \in {"absent", "legacy", "own"} /\ (u \in Legacy => r # "absent")
      /\ (r = file[u].row \/ (u \in Legacy /\ r = "legacy"))
  BY <1>2 DEF Copied
<1>4. file' = [file EXCEPT ![u] = g]
  BY <1>2 DEF Import
<1> HIDE DEF r
<1>5. g \in AccountFile /\ g.key = file[u].key /\ g.marked = file[u].marked /\ g.row = r
  BY <1>2, <1>3, FileWithRow
<1> HIDE DEF g
<1>6. file[u].marked => u \in rivals
  BY <1>1 DEF DatabaseInv, OpensAreSound, ImportOf
<1>7. u \in touched => u \in rivals
  BY <1>6 DEF DatabaseInv, FilesInv
<1> QED BY <1>1, <1>3, <1>4, <1>5, <1>6, <1>7, FileIsWritten

LEMMA MarkKeeps == ASSUME DatabaseInv, NEW k \in Opens, Mark(k) PROVE DatabaseInv'
<1> DEFINE u == opens[k].user
           g == [file[u] EXCEPT !.marked = TRUE]
<1>1. /\ opens[k].pc = "mark" /\ "ready" \in OpenPcs /\ Advances(k, "ready")
      /\ OpenUnchanged /\ UNCHANGED <<storedKey, made, raced>>
  BY DEF Mark, OpenPcs
<1>2. g \in AccountFile /\ g.key = file[u].key /\ g.marked /\ g.row = file[u].row
  BY <1>1, UsesItsFile, FileWith
<1>3. file' = [file EXCEPT ![u] = g]
  BY <1>1, UsesItsFile DEF Mark, Marked
<1> HIDE DEF g
<1> QED BY <1>1, <1>2, <1>3, FileIsWritten

\* The app has a handle, so the marker is there: no import but a rival's is under way.
LEMMA TouchKeeps ==
  ASSUME DatabaseInv, NEW k \in Opens, NEW r \in {"own", "absent"}, Touch(k, r)
  PROVE  DatabaseInv'
<1> DEFINE u == opens[k].user
           g == [file[u] EXCEPT !.row = r]
<1>1. /\ opens[k].pc = "held" /\ u \in Accounts /\ file[u] \in AccountFile
      /\ file \in [Accounts -> AccountFile] /\ file[u].marked
      /\ touched' = touched \cup {u} /\ file' = [file EXCEPT ![u] = g]
      /\ UNCHANGED <<active, cached, opens, storedKey, made, rivals, raced>>
  BY UsesItsFile DEF Touch, DatabaseInv, OpensAreSound, ImportOf
<1>2. g \in AccountFile /\ g.key = file[u].key /\ g.marked = file[u].marked /\ g.row = r
  <2>1. r \in {"absent", "legacy", "own"}
    OBVIOUS
  <2> QED BY <1>1, <2>1, FileWithRow
<1> HIDE DEF g
<1>3. /\ file'[u] = g /\ file' \in [Accounts -> AccountFile]
      /\ \A v \in Accounts \ {u} : file'[v] = file[v]
  BY <1>1, <1>2
<1>4. DbTypes'
  BY <1>1, <1>3 DEF DatabaseInv, DbTypes
<1>5. RivalsOf(opens', rivals') /\ HandlesOf(opens', rivals', cached', active')
  BY <1>1 DEF DatabaseInv, OpensAreSound
<1>6. PassphraseOf(opens', storedKey', raced')
  BY <1>1 DEF DatabaseInv, OpensAreSound
<1>7. ImportOf(opens', rivals', file', touched')
  <2>1. \A j \in Opens : Opening(opens[j]) => opens[j].user \in Accounts
    BY DEF DatabaseInv, OpensAreSound, RivalsOf
  <2>2. \A v \in Accounts : file'[v].marked = file[v].marked
    BY <1>2, <1>3
  <2>3. \A v \in Accounts : file'[v].row # "absent" \/ v \in touched' \/ file'[v].row = file[v].row
    BY <1>1, <1>3
  <2>4. touched \subseteq touched'
    BY <1>1
  <2> QED BY <1>1, <2>1, <2>2, <2>3, <2>4 DEF DatabaseInv, OpensAreSound, ImportOf, Opening
<1>8. FilesInv'
  <2>1. \A v \in Accounts : file'[v].key = file[v].key /\ file'[v].marked = file[v].marked
    BY <1>2, <1>3
  <2>2. KeyOpensFiles'
    BY <1>1, <2>1 DEF DatabaseInv, FilesInv, FilesAreKept, KeyOpensFiles
  <2>3. \A v \in touched' : file'[v].marked
    BY <1>1, <2>1 DEF DatabaseInv, DbTypes, FilesInv
  <2>4. ImportedOnce'
    BY <1>1, <1>2, <1>3 DEF DatabaseInv, FilesInv, FilesAreKept, ImportedOnce
  <2> QED BY <2>2, <2>3, <2>4 DEF FilesInv, FilesAreKept
<1> QED BY <1>4, <1>5, <1>6, <1>7, <1>8 DEF DatabaseInv, OpensAreSound

LEMMA RelaunchKeeps == ASSUME DatabaseInv, Relaunch PROVE DatabaseInv'
<1>1. /\ active' = Nobody /\ cached' = 0 /\ opens' = [k \in Opens |-> NoOpen]
      /\ FilesStay /\ rivals' = rivals
  BY DEF Relaunch, FilesStay
<1>2. opens' \in [Opens -> OpenCall] /\ \A k \in Opens : opens'[k] = NoOpen
  BY <1>1, NoOpenIs
<1>3. DbTypes'
  BY <1>1, <1>2 DEF DatabaseInv, DbTypes, FilesStay, Ids
<1>4. OpensAreSound(opens', rivals', cached', active', file', touched', storedKey', raced')
  BY <1>1, <1>2, NoOpenIs DEF OpensAreSound, RivalsOf, HandlesOf, PassphraseOf, ImportOf
<1>5. FilesInv'
  BY <1>1 DEF DatabaseInv, FilesInv, FilesAreKept, KeyOpensFiles, ImportedOnce, FilesStay
<1> QED BY <1>3, <1>4, <1>5 DEF DatabaseInv

LEMMA DatabaseStarts == AccountDbInit => DatabaseInv
<1> SUFFICES ASSUME AccountDbInit PROVE DatabaseInv
  OBVIOUS
<1>1. NewFile \in AccountFile /\ NewFile.key = 0 /\ ~NewFile.marked
  BY DEF NewFile, AccountFile
<1>2. /\ opens \in [Opens -> OpenCall] /\ \A k \in Opens : opens[k] = NoOpen
      /\ file \in [Accounts -> AccountFile] /\ \A u \in Accounts : file[u] = NewFile
  BY <1>1, NoOpenIs DEF AccountDbInit
<1>3. DbTypes
  BY <1>2 DEF AccountDbInit, DbTypes, Ids
<1>4. OpensAreSound(opens, rivals, cached, active, file, touched, storedKey, raced)
  BY <1>2, NoOpenIs DEF AccountDbInit, OpensAreSound, RivalsOf, HandlesOf, PassphraseOf, ImportOf
<1>5. FilesInv
  BY <1>1, <1>2 DEF AccountDbInit, FilesInv, FilesAreKept, KeyOpensFiles, ImportedOnce
<1> QED BY <1>3, <1>4, <1>5 DEF DatabaseInv

LEMMA DatabaseStep == DatabaseInv /\ [AccountDbNext]_accountDbVars => DatabaseInv'
<1> SUFFICES ASSUME DatabaseInv, [AccountDbNext]_accountDbVars PROVE DatabaseInv'
  OBVIOUS
<1>1. CASE UNCHANGED accountDbVars
  BY <1>1 DEF accountDbVars, DatabaseInv, DbTypes, FilesInv, FilesAreKept, KeyOpensFiles,
              ImportedOnce
<1>2. ASSUME NEW k \in Opens, OpenFails(k) PROVE DatabaseInv'
  BY <1>2, ThrowsKeeps DEF OpenFails
<1>3. ASSUME NEW k \in Opens, OpenStep(k) PROVE DatabaseInv'
  BY <1>2, <1>3, ReadKeyKeeps, StoreKeyKeeps, OpenFileKeeps, MigrateKeeps, ReadMarkerKeeps,
     ImportKeeps, MarkKeeps, ResolveKeeps DEF OpenStep
<1> QED BY <1>1, <1>3, SetActiveKeeps, GetChatDbKeeps, TouchKeeps, RelaunchKeeps
      DEF AccountDbNext, Ids

\* What the types add to that: who waits for which open, and that no passphrase is used
\* that was not made.
CallsFit == /\ current \in Opens \cup {0} /\ gate \subseteq Readers
            /\ reader \in [Readers -> Opens \cup {0}] /\ rivals \subseteq Accounts
PassphrasesFit ==
  /\ storedKey <= made /\ raced \in BOOLEAN
  /\ \A k \in Opens : opens[k].key <= made
  /\ \A u \in Accounts : file[u].key <= made

LEMMA MovedFits ==
  ASSUME reader \in [Readers -> Opens \cup {0}], NEW who, NEW to \in Opens \cup {0}
  PROVE  Moved(who, to) \in [Readers -> Opens \cup {0}]
BY DEF Moved

LEMMA LoopFits ==
  ASSUME DatabaseInv, DatabaseInv', CallsFit, NEW who \in SUBSET Readers, NEW os \in [Opens -> OpenCall],
         NEW op \in Opens \cup {0}, Loop(who, os, op)
  PROVE  CallsFit' /\ \A k \in Opens : opens'[k].key \in {os[k].key, 0}
<1>1. active' # Nobody => active' \in Accounts
  BY DEF DatabaseInv, DbTypes, Ids
<1>2. \/ opens' = os /\ current' = op /\ UNCHANGED rivals
      \/ /\ current' \in Opens /\ active' # Nobody
         /\ opens' = [os EXCEPT ![current'] = [pc |-> "key", user |-> active', key |-> 0]]
         /\ rivals' \subseteq rivals \cup {active'}
  BY DEF Loop
<1>3. gate' \subseteq gate \cup who
  BY DEF Loop
<1>4. reader' = Moved(who, 0) \/ reader' = Moved(who, current')
  BY DEF Loop
<1>5. current' \in Opens \cup {0} /\ rivals' \subseteq Accounts
  BY <1>1, <1>2 DEF CallsFit
<1>6. reader' \in [Readers -> Opens \cup {0}]
  BY <1>4, <1>5, MovedFits DEF CallsFit
<1>7. \A k \in Opens : opens'[k].key \in {os[k].key, 0}
  <2>1. CASE opens' = os
    BY <2>1
  <2>2. CASE /\ current' \in Opens
             /\ opens' = [os EXCEPT ![current'] = [pc |-> "key", user |-> active', key |-> 0]]
    BY <2>2
  <2> QED BY <1>2, <2>1, <2>2
<1> QED BY <1>3, <1>5, <1>6, <1>7 DEF CallsFit

LEMMA ThrowsFits ==
  ASSUME DatabaseInv, CallsFit, NEW k \in Opens, Throws(k)
  PROVE  CallsFit' /\ \A j \in Opens : opens'[j].key \in {opens[j].key, 0}
<1>1. opens \in [Opens -> OpenCall] /\ NoOpen.key = 0
  BY DEF DatabaseInv, DbTypes, NoOpen
<1>2. \E r \in {NoOpen, [opens[k] EXCEPT !.pc = "broken"]} : opens' = [opens EXCEPT ![k] = r]
  BY DEF Throws
<1>3. [opens[k] EXCEPT !.pc = "broken"].key = opens[k].key
  BY <1>1 DEF OpenCall
<1>4. \A j \in Opens : opens'[j].key \in {opens[j].key, 0}
  BY <1>1, <1>2, <1>3
<1>5. current' \in {0, current} /\ reader' = Moved(Waiting(k), 0) /\ UNCHANGED <<gate, rivals>>
  BY DEF Throws
<1> QED BY <1>4, <1>5, MovedFits DEF CallsFit

\* An open that moves on keeps its passphrase.
LEMMA AdvancesFits ==
  ASSUME DatabaseInv, NEW k \in Opens, NEW p, Advances(k, p)
  PROVE  \A j \in Opens : opens'[j].key \in {opens[j].key, 0}
<1>1. opens \in [Opens -> OpenCall] /\ [opens[k] EXCEPT !.pc = p].key = opens[k].key
  BY DEF DatabaseInv, DbTypes, OpenCall
<1>2. opens' = [opens EXCEPT ![k] = [opens[k] EXCEPT !.pc = p]]
  BY DEF Advances
<1> QED BY <1>1, <1>2

\* No passphrase is made, and the stored one and the files' are used by an open.
LEMMA PassphrasesStay ==
  ASSUME DatabaseInv, PassphrasesFit, made' = made, raced' = raced,
         \A j \in Opens : opens'[j].key \in {opens[j].key, 0},
         storedKey' = storedKey \/ \E j \in Opens : storedKey' = opens[j].key,
         \A u \in Accounts : file'[u].key = file[u].key \/ \E j \in Opens : file'[u].key = opens[j].key
  PROVE  PassphrasesFit'
<1>1. 0 <= made
  BY DEF DatabaseInv, DbTypes
<1> QED BY <1>1 DEF PassphrasesFit

\* A file that is written keeps its passphrase, unless an open gives it its own.
LEMMA FilesFit ==
  ASSUME DatabaseInv, NEW k \in Opens, OpenFile(k) \/ Migrate(k) \/ Import(k) \/ Mark(k)
  PROVE  \A u \in Accounts : file'[u].key = file[u].key \/ file'[u].key = opens[k].key
<1>1. file \in [Accounts -> AccountFile] /\ opens[k] \in OpenCall
  BY DEF DatabaseInv, DbTypes
<1> DEFINE w == opens[k].user
<1>2. CASE OpenFile(k)
  <2>1. UNCHANGED file \/ file' = [file EXCEPT ![w].key = opens[k].key]
    BY <1>2 DEF OpenFile
  <2>2. w \in Accounts => [file[w] EXCEPT !.key = opens[k].key].key = opens[k].key
    BY <1>1 DEF AccountFile
  <2> QED BY <1>1, <2>1, <2>2
<1>3. CASE Migrate(k)
  <2>1. UNCHANGED file \/ file' = [file EXCEPT ![w].migrated = TRUE]
    BY <1>3 DEF Migrate
  <2>2. w \in Accounts => [file[w] EXCEPT !.migrated = TRUE].key = file[w].key
    BY <1>1 DEF AccountFile
  <2> QED BY <1>1, <2>1, <2>2
<1>4. CASE Import(k)
  <2>1. file' = [file EXCEPT ![w].row = Copied(w, @)]
    BY <1>4 DEF Import
  <2>2. w \in Accounts => \A r : [file[w] EXCEPT !.row = r].key = file[w].key
    BY <1>1 DEF AccountFile
  <2> QED BY <1>1, <2>1, <2>2
<1>5. CASE Mark(k)
  <2>1. file' = [file EXCEPT ![w] = [file[w] EXCEPT !.marked = TRUE]]
    BY <1>5 DEF Mark, Marked
  <2>2. w \in Accounts => [file[w] EXCEPT !.marked = TRUE].key = file[w].key
    BY <1>1 DEF AccountFile
  <2> QED BY <1>1, <2>1, <2>2
<1> QED BY <1>2, <1>3, <1>4, <1>5

LEMMA ReadKeyFits ==
  ASSUME DatabaseInv, PassphrasesFit, NEW k \in Opens, ReadKey(k) PROVE PassphrasesFit'
<1>0. /\ opens \in [Opens -> OpenCall] /\ made \in Nat /\ UNCHANGED <<storedKey, file>>
      /\ storedKey \in Nat /\ file \in [Accounts -> AccountFile]
  BY DEF DatabaseInv, DbTypes, ReadKey
<1>1. CASE storedKey # 0
  <2>1. opens' = [opens EXCEPT ![k] = [opens[k] EXCEPT !.pc = "open", !.key = storedKey]]
        /\ UNCHANGED <<made, raced>>
    BY <1>1 DEF ReadKey
  <2>2. [opens[k] EXCEPT !.pc = "open", !.key = storedKey].key = storedKey
    BY <1>0 DEF OpenCall
  <2>3. \A j \in Opens : opens'[j].key \in {opens[j].key, storedKey}
    BY <1>0, <2>1, <2>2
  <2> QED BY <1>0, <2>1, <2>3 DEF PassphrasesFit
<1>2. CASE storedKey = 0
  <2>1. /\ opens' = [opens EXCEPT ![k] = [opens[k] EXCEPT !.pc = "store", !.key = made + 1]]
        /\ made' = made + 1 /\ raced' \in BOOLEAN
    BY <1>2 DEF ReadKey, PassphrasesFit
  <2>2. [opens[k] EXCEPT !.pc = "store", !.key = made + 1].key = made + 1
    BY <1>0 DEF OpenCall
  <2>3. \A j \in Opens : opens'[j].key \in {opens[j].key, made + 1}
    BY <1>0, <2>1, <2>2
  <2>4. \A j \in Opens : opens[j].key \in Nat
    BY <1>0 DEF OpenCall
  <2>5. \A u \in Accounts : file[u].key \in Nat
    BY <1>0 DEF AccountFile
  <2> QED BY <1>0, <2>1, <2>3, <2>4, <2>5 DEF PassphrasesFit
<1> QED BY <1>1, <1>2

LEMMA DatabaseFitsStill ==
  ASSUME DatabaseInv, DatabaseInv', CallsFit, PassphrasesFit, [AccountDbNext]_accountDbVars
  PROVE  CallsFit' /\ PassphrasesFit'
<1>0. /\ opens \in [Opens -> OpenCall] /\ file \in [Accounts -> AccountFile] /\ made \in Nat
      /\ cached \in Opens \cup {0} /\ NoOpen \in OpenCall /\ NoOpen.key = 0
  BY NoOpenIs DEF DatabaseInv, DbTypes, NoOpen
<1> DEFINE OpensKeep == \A j \in Opens : opens'[j].key \in {opens[j].key, 0}
<1>1. ASSUME UNCHANGED <<storedKey, file, made, raced>>, OpensKeep PROVE PassphrasesFit'
  <2>1. \A u \in Accounts : file'[u].key = file[u].key
    BY <1>1
  <2> HIDE DEF OpensKeep
  <2> QED BY <1>1, <2>1, PassphrasesStay DEF OpensKeep
<1>2. ASSUME OpenUnchanged PROVE CallsFit'
  BY <1>2 DEF OpenUnchanged, CallsFit
<1>3. ASSUME NEW u \in Accounts \cup {Nobody}, SetActive(u) PROVE CallsFit' /\ PassphrasesFit'
  <2> DEFINE left == IF cached = 0 THEN opens ELSE [opens EXCEPT ![cached] = NoOpen]
             who == IF u = Nobody THEN {} ELSE gate
  <2>1. /\ Loop(who, left, 0) /\ UNCHANGED <<storedKey, file, made, raced>>
    BY <1>3 DEF SetActive
  <2>2. left \in [Opens -> OpenCall] /\ \A j \in Opens : left[j].key \in {opens[j].key, 0}
    BY <1>0
  <2>3. who \in SUBSET Readers
    BY DEF CallsFit
  <2> HIDE DEF left, who
  <2>4. CallsFit' /\ \A j \in Opens : opens'[j].key \in {left[j].key, 0}
    BY <2>1, <2>2, <2>3, LoopFits
  <2> QED BY <1>1, <2>1, <2>2, <2>4
<1>4. ASSUME NEW r \in Readers, GetChatDb(r) PROVE CallsFit' /\ PassphrasesFit'
  <2>1. Loop({r}, opens, current) /\ UNCHANGED <<storedKey, file, made, raced>>
    BY <1>4 DEF GetChatDb
  <2>2. {r} \in SUBSET Readers /\ current \in Opens \cup {0}
    BY <1>4 DEF CallsFit
  <2>3. CallsFit' /\ OpensKeep
    BY <1>0, <2>1, <2>2, LoopFits
  <2> QED BY <1>1, <2>1, <2>3
<1>5. ASSUME NEW k \in Opens, ReadKey(k) PROVE CallsFit' /\ PassphrasesFit'
  BY <1>2, <1>5, ReadKeyFits DEF ReadKey
<1>6. ASSUME NEW k \in Opens, StoreKey(k) PROVE CallsFit' /\ PassphrasesFit'
  <2>1. /\ storedKey' = opens[k].key /\ Advances(k, "open") /\ OpenUnchanged
        /\ UNCHANGED <<file, made, raced>>
    BY <1>6 DEF StoreKey, Kept
  <2>2. OpensKeep
    BY <2>1, AdvancesFits
  <2>3. \A u \in Accounts : file'[u].key = file[u].key
    BY <2>1
  <2> QED BY <1>2, <2>1, <2>2, <2>3, PassphrasesStay
<1>7. ASSUME NEW k \in Opens, OpenFile(k) \/ Migrate(k) \/ Import(k) \/ Mark(k)
      PROVE  CallsFit' /\ PassphrasesFit'
  <2>1. \/ OpenUnchanged /\ \E p : Advances(k, p)
        \/ Throws(k)
    BY <1>7 DEF OpenFile, Migrate, Import, Mark
  <2>2. CallsFit' /\ OpensKeep
    BY <1>2, <2>1, AdvancesFits, ThrowsFits
  <2>3. UNCHANGED <<storedKey, made, raced>>
    BY <1>7 DEF OpenFile, Migrate, Import, Mark, Throws
  <2>4. \A u \in Accounts : file'[u].key = file[u].key \/ file'[u].key = opens[k].key
    BY <1>7, FilesFit
  <2> QED BY <2>2, <2>3, <2>4, PassphrasesStay
<1>8. ASSUME NEW k \in Opens, ReadMarker(k) PROVE CallsFit' /\ PassphrasesFit'
  <2>1. /\ \E p : Advances(k, p)
        /\ OpenUnchanged /\ UNCHANGED <<storedKey, file, made, raced>>
    BY <1>8 DEF ReadMarker
  <2>2. OpensKeep
    BY <2>1, AdvancesFits
  <2> QED BY <1>1, <1>2, <2>1, <2>2
<1>9. ASSUME NEW k \in Opens, Resolve(k) PROVE CallsFit' /\ PassphrasesFit'
  <2> DEFINE gone == [opens EXCEPT ![k] = NoOpen]
             held == [opens EXCEPT ![k] = [opens[k] EXCEPT !.pc = "held"]]
             op == IF current = k THEN 0 ELSE current
  <2>1. /\ \E os \in {gone, held} : Loop(Waiting(k), os, op)
        /\ UNCHANGED <<storedKey, file, made, raced>>
    BY <1>9 DEF Resolve
  <2>2. [opens[k] EXCEPT !.pc = "held"] \in OpenCall /\ [opens[k] EXCEPT !.pc = "held"].key = opens[k].key
    BY <1>0 DEF OpenCall
  <2>3. /\ gone \in [Opens -> OpenCall] /\ \A j \in Opens : gone[j].key \in {opens[j].key, 0}
        /\ held \in [Opens -> OpenCall] /\ \A j \in Opens : held[j].key \in {opens[j].key, 0}
    BY <1>0, <2>2
  <2>4. Waiting(k) \in SUBSET Readers /\ op \in Opens \cup {0}
    BY DEF Waiting, CallsFit
  <2> HIDE DEF gone, held, op
  <2>5. PICK os \in {gone, held} : Loop(Waiting(k), os, op)
    BY <2>1
  <2>6. os \in [Opens -> OpenCall] /\ \A j \in Opens : os[j].key \in {opens[j].key, 0}
    BY <2>3, <2>5
  <2>7. CallsFit' /\ \A j \in Opens : opens'[j].key \in {os[j].key, 0}
    BY <2>4, <2>5, <2>6, LoopFits
  <2> QED BY <1>1, <2>1, <2>6, <2>7
<1>10. ASSUME NEW k \in Opens, OpenFails(k) PROVE CallsFit' /\ PassphrasesFit'
  <2>1. Throws(k) /\ UNCHANGED <<storedKey, file, made, raced>>
    BY <1>10 DEF OpenFails, Throws
  <2> QED BY <1>1, <2>1, ThrowsFits
<1>11. ASSUME NEW k \in Opens, NEW r, Touch(k, r) PROVE CallsFit' /\ PassphrasesFit'
  <2>1. /\ file' = [file EXCEPT ![opens[k].user] = [file[opens[k].user] EXCEPT !.row = r]]
        /\ UNCHANGED <<current, opens, gate, reader, rivals, storedKey, made, raced>>
    BY <1>11 DEF Touch
  <2>2. opens[k].user \in Accounts => [file[opens[k].user] EXCEPT !.row = r].key = file[opens[k].user].key
    BY <1>0 DEF AccountFile
  <2>3. \A u \in Accounts : file'[u].key = file[u].key
    BY <1>0, <2>1, <2>2
  <2>4. OpensKeep /\ CallsFit'
    BY <2>1 DEF CallsFit
  <2> QED BY <2>1, <2>3, <2>4, PassphrasesStay
<1>12. CASE Relaunch
  <2>1. /\ current' = 0 /\ gate' = {} /\ reader' = [r \in Readers |-> 0] /\ UNCHANGED rivals
        /\ opens' = [k \in Opens |-> NoOpen] /\ UNCHANGED <<storedKey, file, made, raced>>
    BY <1>12 DEF Relaunch
  <2>2. OpensKeep
    BY <1>0, <2>1
  <2>3. CallsFit'
    BY <2>1 DEF CallsFit
  <2> QED BY <1>1, <2>1, <2>2, <2>3
<1>13. CASE UNCHANGED accountDbVars
  BY <1>13 DEF accountDbVars, CallsFit, PassphrasesFit
<1> QED BY <1>3, <1>4, <1>5, <1>6, <1>7, <1>8, <1>9, <1>10, <1>11, <1>12, <1>13
        DEF AccountDbNext, OpenStep

LEMMA DatabaseTypesHold == AccountDbSpec => []AccountDbTypeOK
<1>1. DatabaseInv /\ CallsFit /\ PassphrasesFit => AccountDbTypeOK
  <2> SUFFICES ASSUME DbTypes, CallsFit, PassphrasesFit PROVE AccountDbTypeOK
    BY DEF DatabaseInv
  <2>1. storedKey \in 0 .. made
    BY DEF DbTypes, PassphrasesFit
  <2>2. ASSUME NEW k \in Opens
        PROVE  opens[k] \in [pc : OpenPcs, user : Ids, key : 0 .. made]
    <3>1. opens[k] \in OpenCall /\ opens[k].key \in 0 .. made
      BY DEF DbTypes, PassphrasesFit, OpenCall
    <3> QED BY <3>1 DEF OpenCall, OpenPcs
  <2>3. ASSUME NEW u \in Accounts
        PROVE  file[u] \in [key : 0 .. made, migrated : BOOLEAN, marked : BOOLEAN,
                            row : {"absent", "legacy", "own"}]
    <3>1. file[u] \in AccountFile /\ file[u].key \in 0 .. made
      BY DEF DbTypes, PassphrasesFit, AccountFile
    <3> QED BY <3>1 DEF AccountFile
  <2>4. opens \in [Opens -> [pc : OpenPcs, user : Ids, key : 0 .. made]]
    BY <2>2 DEF DbTypes
  <2>5. file \in [Accounts -> [key : 0 .. made, migrated : BOOLEAN, marked : BOOLEAN,
                              row : {"absent", "legacy", "own"}]]
    BY <2>3 DEF DbTypes
  <2> QED BY <2>1, <2>4, <2>5 DEF DbTypes, CallsFit, PassphrasesFit, Ids, OpenPcs, AccountDbTypeOK
<1>2. AccountDbInit => CallsFit /\ PassphrasesFit
  <2> SUFFICES ASSUME AccountDbInit PROVE CallsFit /\ PassphrasesFit
    OBVIOUS
  <2>1. CallsFit
    BY DEF AccountDbInit, CallsFit
  <2>2. /\ storedKey = 0 /\ made = 0 /\ raced = FALSE /\ 0 <= 0
        /\ \A k \in Opens : opens[k].key = 0
        /\ \A u \in Accounts : file[u].key = 0
    BY DEF AccountDbInit, NoOpen, NewFile
  <2>3. PassphrasesFit
    BY <2>2 DEF PassphrasesFit
  <2> QED BY <2>1, <2>3
<1>3. AccountDbSpec => []DatabaseInv
  BY DatabaseStarts, DatabaseStep, PTL DEF AccountDbSpec
<1>4. DatabaseInv /\ DatabaseInv' /\ (CallsFit /\ PassphrasesFit) /\ [AccountDbNext]_accountDbVars
        => (CallsFit /\ PassphrasesFit)'
  BY DatabaseFitsStill
<1> QED BY <1>1, <1>2, <1>3, <1>4, PTL DEF AccountDbSpec

LEMMA DatabaseHolds == DatabaseInv => DatabaseIsSound
<1> SUFFICES ASSUME DatabaseInv PROVE HandlesAreActive /\ FilesAreKept
  BY DEF DatabaseIsSound
<1> QED BY DEF DatabaseInv, OpensAreSound, HandlesOf, HandlesAreActive, FilesInv

-----------------------------------------------------------------------------
(***************************************************************************)
(* The engine of the signed-in account.  As long as no bootstrap began     *)
(* under another one (doubled) and no account changed under one (strayed), *)
(* there is one bootstrap or one client, of one account, and only that     *)
(* client's saves reach the database.                                      *)
(***************************************************************************)

Anyone == Owners \cup {NoOwner}
Copy == [of : Anyone, has : SUBSET Nat]
BootCall == [pc : {"none", "asking", "opening", "loading", "ticking"}, user : Anyone,
             of : Anyone, db : Anyone, got : SUBSET Nat]
SaveCall == [pc : {"none", "changed", "seal", "delete", "move"}, of : Anyone, db : Anyone,
             has : SUBSET Nat]
Undisturbed == ~strayed /\ ~doubled

EngineTypes ==
  /\ loggedIn \in Anyone /\ client \in [of : Anyone, db : Anyone] /\ changes \in Nat
  /\ {engine, tmp, sealed, newest} \subseteq Copy
  /\ boot \in [Boots -> BootCall] /\ save \in [Saves -> SaveCall]
  /\ row \in [Owners -> [Owners -> SUBSET Nat]] /\ kept \in [Owners -> SUBSET Nat]

\* A bootstrap is of the account that is signed in, and holds what its snapshot says.
BootInv ==
  /\ \A b \in Boots :
       /\ boot[b].pc \in {"opening", "loading"} => boot[b].of \in Owners
       /\ boot[b].pc = "loading" => engine.of = boot[b].of
       /\ ~strayed =>
            /\ b \in Booting => loggedIn # NoOwner /\ boot[b].user = loggedIn
            /\ boot[b].pc \in {"opening", "loading"} => boot[b].of = loggedIn
            /\ boot[b].pc = "loading" => boot[b].db = loggedIn
       /\ Undisturbed /\ b \in Booting =>
            /\ client = NoClient
            /\ \A c \in Booting : c = b
            /\ boot[b].pc = "loading" => boot[b].got = row[loggedIn][loggedIn]

\* A client has its engine, is polled for, and while nothing overlapped is that of the
\* account that is signed in.
ClientHolds ==
  client # NoClient =>
    /\ client.of \in Owners /\ engine.of = client.of
    /\ polling \/ \E b \in Boots : boot[b].pc = "ticking"
    /\ ~strayed => client.of = loggedIn /\ client.db = loggedIn
    /\ Undisturbed => readyFor = loggedIn

\* Somebody is about to make the client there is not.
PromiseInv ==
  loggedIn # NoOwner /\ client = NoClient /\ Bindable(loggedIn) /\ ~broken =>
    \E b \in Booting : boot[b].pc = "asking" \/ boot[b].of = loggedIn

\* A save that can still reach a database is of the client, and reaches its account's.
SaveInv ==
  \A w \in Saves :
    /\ save[w].pc # "none" => save[w].of \in Owners
    /\ Undisturbed /\ save[w].pc = "changed" /\ save[w].db # NoOwner =>
         client # NoClient /\ client.of = save[w].of /\ client.db = save[w].db

\* While one copy is made at a time, it is that of the snapshot saved last.
CopyInv ==
  ~mixed =>
    \/ Copying = {} /\ sealed = newest
    \/ \E w \in Saves :
         /\ Copying = {w} /\ newest = [of |-> save[w].of, has |-> save[w].has]
         /\ save[w].pc \in {"delete", "move"} => tmp = newest

EngineInv ==
  EngineTypes /\ BootInv /\ ClientHolds /\ PromiseInv /\ SaveInv /\ CopyInv /\ SnapshotsOnlyGrow

LEMMA CallsAreTyped ==
  /\ NoBoot \in BootCall /\ NoBoot.pc = "none" /\ NoSave \in SaveCall /\ NoSave.pc = "none"
  /\ NoCopy \in Copy /\ NoCopy.of = NoOwner /\ NoCopy.has = {} /\ NoOwner \notin Owners
  /\ NoClient \in [of : Anyone, db : Anyone] /\ NoClient.of = NoOwner /\ NoClient.db = NoOwner
BY EngineLoopAssumption DEF NoBoot, BootCall, NoSave, SaveCall, NoCopy, Copy, NoClient, Anyone

LEMMA BootCloses ==
  ASSUME NEW r \in BootCall
  PROVE  /\ Closed(r) \in BootCall /\ Closed(r).pc = r.pc /\ Closed(r).user = r.user
         /\ Closed(r).of = r.of /\ Closed(r).got = r.got
BY DEF Closed, BootCall, Anyone

LEMMA SaveCloses ==
  ASSUME NEW r \in SaveCall
  PROVE  /\ Closed(r) \in SaveCall /\ Closed(r).pc = r.pc /\ Closed(r).of = r.of
         /\ Closed(r).has = r.has /\ Closed(r).db = NoOwner
BY DEF Closed, SaveCall, Anyone

\* Nothing the copies are made of changes.
LEMMA CopiesStay ==
  ASSUME CopyInv, UNCHANGED <<mixed, tmp, sealed, newest>>,
         \A w \in Saves :
           \/ /\ save'[w].pc = save[w].pc
              /\ save'[w].of = save[w].of /\ save'[w].has = save[w].has
           \/ {save[w].pc, save'[w].pc} \subseteq {"none", "changed"}
  PROVE  CopyInv' /\ Copying' = Copying
<1>1. /\ Copying' = Copying
      /\ \A w \in Copying : save'[w].pc = save[w].pc /\ save'[w].of = save[w].of
                            /\ save'[w].has = save[w].has
  BY DEF Copying
<1>2. CASE mixed
  BY <1>1, <1>2 DEF CopyInv
<1>3. CASE Copying = {} /\ sealed = newest
  BY <1>1, <1>3 DEF CopyInv
<1>4. ASSUME NEW w \in Saves, Copying = {w}, newest = [of |-> save[w].of, has |-> save[w].has],
             save[w].pc \in {"delete", "move"} => tmp = newest
      PROVE  CopyInv'
  <2>1. /\ save'[w].pc = save[w].pc /\ save'[w].of = save[w].of /\ save'[w].has = save[w].has
    BY <1>1, <1>4
  <2>2. /\ Copying' = {w} /\ newest' = [of |-> save'[w].of, has |-> save'[w].has]
        /\ save'[w].pc \in {"delete", "move"} => tmp' = newest'
    BY <1>1, <1>4, <2>1
  <2> QED BY <2>2 DEF CopyInv
<1> QED BY <1>1, <1>2, <1>3, <1>4 DEF CopyInv

LEMMA CopiesStayWithSaves ==
  ASSUME CopyInv, UNCHANGED <<mixed, tmp, sealed, newest, save>>
  PROVE  CopyInv' /\ Copying' = Copying
BY CopiesStay

\* The account leaves: the saves under way write nothing any more.
LEMMA SavesClose ==
  ASSUME EngineInv, save' = [w \in Saves |-> Closed(save[w])],
         UNCHANGED <<mixed, tmp, sealed, newest>>
  PROVE  /\ save' \in [Saves -> SaveCall] /\ SaveInv' /\ CopyInv'
<1>1. \A w \in Saves : /\ save'[w] \in SaveCall /\ save'[w].pc = save[w].pc
                       /\ save'[w].of = save[w].of /\ save'[w].has = save[w].has
                       /\ save'[w].db = NoOwner
  BY SaveCloses DEF EngineInv, EngineTypes
<1>2. save' \in [Saves -> SaveCall]
  BY <1>1
<1>3. CopyInv'
  BY <1>1, CopiesStay DEF EngineInv
<1> QED BY <1>1, <1>2, <1>3 DEF EngineInv, SaveInv

LEMMA LeavesKeeps == ASSUME EngineInv, Leaves PROVE EngineInv'
<1>1. /\ loggedIn' = NoOwner /\ client' = NoClient /\ readyFor' = NoOwner
      /\ boot' = [b \in Boots |-> Closed(boot[b])] /\ save' = [w \in Saves |-> Closed(save[w])]
      /\ strayed' = (strayed \/ Booting # {})
      /\ UNCHANGED <<engine, row, tmp, sealed, kept, newest, mixed, changes, doubled, broken>>
  BY DEF Leaves, TornDown, files
<1>2. \A b \in Boots : /\ boot'[b] \in BootCall /\ boot'[b].pc = boot[b].pc
                       /\ boot'[b].user = boot[b].user /\ boot'[b].of = boot[b].of
  BY <1>1, BootCloses DEF EngineInv, EngineTypes
<1>3. Booting' = Booting
  BY <1>2 DEF Booting
<1>4. /\ save' \in [Saves -> SaveCall] /\ SaveInv' /\ CopyInv'
  BY <1>1, SavesClose
<1>5. EngineTypes'
  <2>1. boot' \in [Boots -> BootCall]
    BY <1>1, <1>2
  <2> QED BY <1>1, <1>4, <2>1, CallsAreTyped DEF EngineInv, EngineTypes, Anyone
<1>6. BootInv'
  <2>1. \A b \in Boots : boot'[b].pc \in {"asking", "opening", "loading"} <=> b \in Booting
    BY <1>2 DEF Booting
  <2> QED BY <1>1, <1>2, <1>3, <2>1 DEF EngineInv, BootInv, Undisturbed, Booting
<1>7. ClientHolds' /\ PromiseInv'
  BY <1>1 DEF ClientHolds, PromiseInv
<1>8. SnapshotsOnlyGrow'
  BY <1>1 DEF EngineInv, SnapshotsOnlyGrow
<1> QED BY <1>4, <1>5, <1>6, <1>7, <1>8 DEF EngineInv

\* A bootstrap begins, over calls that run on.
LEMMA BootBegins ==
  ASSUME NEW boots \in [Boots -> BootCall], Begins(boots), loggedIn' \in Owners
  PROVE  \E b \in Boots :
           /\ boots[b].pc = "none"
           /\ boot' \in [Boots -> BootCall]
           /\ boot'[b].pc = "asking" /\ boot'[b].user = loggedIn'
           /\ \A c \in Boots \ {b} : boot'[c] = boots[c]
<1>1. PICK b \in Boots : /\ boots[b] = NoBoot
                         /\ boot' = [boots EXCEPT ![b] =
                                      [NoBoot EXCEPT !.pc = "asking", !.user = loggedIn']]
  BY DEF Begins
<1> DEFINE o == [NoBoot EXCEPT !.pc = "asking", !.user = loggedIn']
<1>2. o \in BootCall /\ o.pc = "asking" /\ o.user = loggedIn'
  BY DEF NoBoot, BootCall, Anyone
<1> HIDE DEF o
<1>3. boot' = [boots EXCEPT ![b] = o]
  BY <1>1 DEF o
<1>4. boot' \in [Boots -> BootCall] /\ boot'[b] = o /\ \A c \in Boots \ {b} : boot'[c] = boots[c]
  BY <1>2, <1>3
<1> QED BY <1>1, <1>2, <1>4, CallsAreTyped

\* It makes the client that there is none of any more.
LEMMA BootBeginsKeeps ==
  ASSUME EngineInv, NEW boots \in [Boots -> BootCall], Begins(boots),
         loggedIn' \in Owners, client' = NoClient,
         UNCHANGED <<engine, row, kept, tmp, sealed, newest, changes, broken>>,
         \A b \in Boots : /\ boots[b].pc = boot[b].pc /\ boots[b].user = boot[b].user
                          /\ boots[b].of = boot[b].of,
         strayed => strayed', doubled => doubled', Undisturbed' => Booting = {},
         ~strayed' /\ Booting # {} => loggedIn' = loggedIn /\ boots = boot,
         save' \in [Saves -> SaveCall], SaveInv', CopyInv'
  PROVE  EngineInv'
<1>1. PICK n \in Boots :
        /\ boots[n].pc = "none"
        /\ boot' \in [Boots -> BootCall]
        /\ boot'[n].pc = "asking" /\ boot'[n].user = loggedIn'
        /\ \A c \in Boots \ {n} : boot'[c] = boots[c]
  BY BootBegins
<1>2. Booting' = Booting \cup {n} /\ n \in Booting' /\ n \notin Booting
  BY <1>1 DEF Booting
<1>3. EngineTypes'
  BY <1>1, CallsAreTyped DEF EngineInv, EngineTypes, Anyone
<1>4. BootInv'
  <2>1. ASSUME NEW b \in Boots
        PROVE  /\ boot'[b].pc \in {"opening", "loading"} => boot'[b].of \in Owners
               /\ boot'[b].pc = "loading" => engine'.of = boot'[b].of
    BY <1>1 DEF EngineInv, BootInv
  <2>2. ASSUME NEW b \in Boots, ~strayed'
        PROVE  /\ b \in Booting' => loggedIn' # NoOwner /\ boot'[b].user = loggedIn'
               /\ boot'[b].pc \in {"opening", "loading"} => boot'[b].of = loggedIn'
               /\ boot'[b].pc = "loading" => boot'[b].db = loggedIn'
    <3>1. CASE b = n
      BY <1>1, <3>1, CallsAreTyped
    <3>2. CASE b # n /\ Booting = {}
      <4>1. b \notin Booting' /\ boot'[b].pc = boot[b].pc
        BY <1>1, <1>2, <3>2
      <4> QED BY <3>2, <4>1 DEF Booting
    <3>3. CASE b # n /\ Booting # {}
      <4>1. boot'[b] = boot[b] /\ loggedIn' = loggedIn /\ ~strayed /\ (b \in Booting' <=> b \in Booting)
        BY <1>1, <1>2, <2>2, <3>3
      <4> QED BY <4>1 DEF EngineInv, BootInv
    <3> QED BY <3>1, <3>2, <3>3
  <2>3. ASSUME NEW b \in Boots, Undisturbed', b \in Booting'
        PROVE  /\ client' = NoClient /\ \A c \in Booting' : c = b
               /\ boot'[b].pc = "loading" => boot'[b].got = row'[loggedIn'][loggedIn']
    BY <1>1, <1>2, <2>3
  <2> QED BY <2>1, <2>2, <2>3 DEF BootInv
<1>5. ClientHolds'
  BY DEF ClientHolds
<1>6. PromiseInv'
  BY <1>1, <1>2 DEF PromiseInv
<1>7. SnapshotsOnlyGrow'
  <2>1. Undisturbed' => Undisturbed
    BY DEF Undisturbed
  <2> QED BY <2>1 DEF EngineInv, SnapshotsOnlyGrow, Undisturbed
<1> QED BY <1>3, <1>4, <1>5, <1>6, <1>7 DEF EngineInv

LEMMA EntersKeeps == ASSUME EngineInv, NEW u \in Owners, Enters(u) PROVE EngineInv'
<1> DEFINE boots == [b \in Boots |-> Closed(boot[b])]
<1>1. /\ loggedIn' \in Owners /\ client' = NoClient /\ Begins(boots)
      /\ save' = [w \in Saves |-> Closed(save[w])] /\ strayed' = (strayed \/ Booting # {})
      /\ UNCHANGED <<engine, row, tmp, sealed, kept, newest, mixed, changes, doubled, broken>>
  BY DEF Enters, files
<1>2. /\ boots \in [Boots -> BootCall]
      /\ \A b \in Boots : /\ boots[b].pc = boot[b].pc /\ boots[b].user = boot[b].user
                          /\ boots[b].of = boot[b].of
  BY BootCloses DEF EngineInv, EngineTypes
<1> HIDE DEF boots
<1>3. /\ save' \in [Saves -> SaveCall] /\ SaveInv' /\ CopyInv'
  BY <1>1, SavesClose
<1>4. (strayed => strayed') /\ (doubled => doubled') /\ (Undisturbed' => Booting = {})
      /\ (~strayed' /\ Booting # {} => loggedIn' = loggedIn /\ boots = boot)
  BY <1>1 DEF Undisturbed
<1> QED BY <1>1, <1>2, <1>3, <1>4, BootBeginsKeeps

\* No save is left that could write: there was no client, or something overlaps.
LEMMA StoreTurnsKeeps == ASSUME EngineInv, StoreTurns PROVE EngineInv'
<1>1. /\ loggedIn' = loggedIn /\ loggedIn # NoOwner /\ client' = NoClient /\ Begins(boot)
      /\ readyFor # loggedIn \/ client = NoClient
      /\ doubled' = (doubled \/ Booting # {})
      /\ UNCHANGED <<engine, save, row, tmp, sealed, kept, newest, mixed, changes, strayed, broken>>
  BY DEF StoreTurns, files
<1>2. loggedIn' \in Owners /\ boot \in [Boots -> BootCall] /\ save' \in [Saves -> SaveCall]
  BY <1>1 DEF EngineInv, EngineTypes, Anyone
<1>3. SaveInv'
  <2>1. Undisturbed' => Undisturbed /\ client = NoClient
    BY <1>1 DEF EngineInv, ClientHolds, Undisturbed
  <2>2. Undisturbed => \A w \in Saves : save[w].pc = "changed" => save[w].db = NoOwner \/ client # NoClient
    BY DEF EngineInv, SaveInv
  <2>3. \A w \in Saves : save[w].pc # "none" => save[w].of \in Owners
    BY DEF EngineInv, SaveInv
  <2> QED BY <1>1, <2>1, <2>2, <2>3 DEF SaveInv
<1>4. CopyInv'
  BY <1>1, CopiesStayWithSaves DEF EngineInv
<1>5. (strayed => strayed') /\ (doubled => doubled') /\ (Undisturbed' => Booting = {})
      /\ (~strayed' /\ Booting # {} => loggedIn' = loggedIn /\ boot = boot)
  BY <1>1 DEF Undisturbed
<1> QED BY <1>1, <1>2, <1>3, <1>4, <1>5, BootBeginsKeeps

\* What no step of a bootstrap touches.
LEMMA OthersKeep ==
  ASSUME EngineInv, Others, files' = files
  PROVE  /\ CopyInv' /\ UNCHANGED <<loggedIn, strayed, doubled, save, changes, row, kept, tmp,
                                    sealed, newest, mixed>>
         /\ Undisturbed' = Undisturbed
BY CopiesStayWithSaves DEF EngineInv, Others, files, Undisturbed

LEMMA AccountKnownKeeps == ASSUME EngineInv, NEW b \in Boots, AccountKnown(b) PROVE EngineInv'
<1> DEFINE o == [boot[b] EXCEPT !.pc = "opening", !.of = loggedIn]
<1>1. /\ boot[b].pc = "asking" /\ boot[b] \in BootCall /\ boot \in [Boots -> BootCall]
      /\ loggedIn \in Owners /\ boot' = [boot EXCEPT ![b] = o]
      /\ UNCHANGED <<client, readyFor, polling, engine, broken>>
  BY DEF AccountKnown, EngineInv, EngineTypes, Anyone
<1>2. /\ CopyInv' /\ UNCHANGED <<loggedIn, strayed, doubled, save, changes, row, kept, tmp,
                                 sealed, newest, mixed>>
      /\ Undisturbed' = Undisturbed
  BY OthersKeep DEF AccountKnown
<1>3. o \in BootCall /\ o.pc = "opening" /\ o.of = loggedIn /\ o.user = boot[b].user
  BY <1>1 DEF BootCall, Anyone
<1> HIDE DEF o
<1>4. /\ boot'[b] = o /\ boot' \in [Boots -> BootCall]
      /\ \A c \in Boots \ {b} : boot'[c] = boot[c]
  BY <1>1, <1>3
<1>5. Booting' = Booting /\ b \in Booting
  BY <1>1, <1>3, <1>4 DEF Booting
<1>6. EngineTypes'
  BY <1>1, <1>2, <1>4 DEF EngineInv, EngineTypes
<1>7. BootInv'
  <2>1. ASSUME NEW c \in Boots
        PROVE  /\ boot'[c].pc \in {"opening", "loading"} => boot'[c].of \in Owners
               /\ boot'[c].pc = "loading" => engine'.of = boot'[c].of
    BY <1>1, <1>3, <1>4 DEF EngineInv, BootInv
  <2>2. ASSUME NEW c \in Boots, ~strayed'
        PROVE  /\ c \in Booting' => loggedIn' # NoOwner /\ boot'[c].user = loggedIn'
               /\ boot'[c].pc \in {"opening", "loading"} => boot'[c].of = loggedIn'
               /\ boot'[c].pc = "loading" => boot'[c].db = loggedIn'
    BY <1>2, <1>3, <1>4, <1>5, <2>2 DEF EngineInv, BootInv
  <2>3. ASSUME NEW c \in Boots, Undisturbed', c \in Booting'
        PROVE  /\ client' = NoClient /\ \A d \in Booting' : d = c
               /\ boot'[c].pc = "loading" => boot'[c].got = row'[loggedIn'][loggedIn']
    <3>1. client' = NoClient /\ \A d \in Booting' : d = c
      BY <1>1, <1>2, <1>5, <2>3 DEF EngineInv, BootInv
    <3>2. boot'[c].pc # "loading"
      BY <1>3, <1>4, <1>5, <3>1
    <3> QED BY <3>1, <3>2
  <2> QED BY <2>1, <2>2, <2>3 DEF BootInv
<1>8. ClientHolds'
  <2>1. \A c \in Boots : boot[c].pc = "ticking" => boot'[c].pc = "ticking"
    BY <1>1, <1>4
  <2> QED BY <1>1, <1>2, <2>1 DEF EngineInv, ClientHolds
<1>9. PromiseInv'
  <2>1. ASSUME NEW c \in Booting, boot[c].pc = "asking" \/ boot[c].of = loggedIn
        PROVE  boot'[c].pc = "asking" \/ boot'[c].of = loggedIn'
    BY <1>2, <1>3, <1>4, <2>1 DEF Booting
  <2> QED BY <1>1, <1>2, <1>5, <2>1 DEF EngineInv, PromiseInv, Bindable
<1>10. SaveInv' /\ SnapshotsOnlyGrow'
  BY <1>1, <1>2 DEF EngineInv, SaveInv, SnapshotsOnlyGrow
<1> QED BY <1>2, <1>6, <1>7, <1>8, <1>9, <1>10 DEF EngineInv

\* A bootstrap that ends, or has its client and ticks, is none any more.
LEMMA BootLeft ==
  ASSUME EngineInv, NEW b \in Boots, NEW o \in BootCall, o.pc \in {"none", "ticking"},
         boot' = [boot EXCEPT ![b] = o]
  PROVE  /\ Booting' = Booting \ {b} /\ boot' \in [Boots -> BootCall] /\ boot'[b] = o
         /\ \A c \in Boots \ {b} : boot'[c] = boot[c]
<1>1. /\ boot' \in [Boots -> BootCall] /\ boot'[b] = o
      /\ \A c \in Boots \ {b} : boot'[c] = boot[c]
  BY DEF EngineInv, EngineTypes
<1> QED BY <1>1 DEF Booting

\* One that fails leaves what there is to the others, or to nobody.
LEMMA BootFailsKeeps ==
  ASSUME EngineInv, NEW b \in Booting, BootFails(b), broken => broken',
         broken' \/ (boot[b].pc # "asking" /\ ~Bindable(boot[b].of))
  PROVE  EngineInv'
<1>1. /\ boot' = [boot EXCEPT ![b] = NoBoot] /\ readyFor' = NoOwner
      /\ UNCHANGED <<client, polling, engine>> /\ b \in Boots
  BY DEF BootFails, Booting
<1>2. /\ CopyInv' /\ UNCHANGED <<loggedIn, strayed, doubled, save, changes, row, kept, tmp,
                                 sealed, newest, mixed>>
      /\ Undisturbed' = Undisturbed
  BY OthersKeep DEF BootFails
<1>3. /\ Booting' = Booting \ {b} /\ boot' \in [Boots -> BootCall] /\ boot'[b].pc = "none"
      /\ \A c \in Boots \ {b} : boot'[c] = boot[c]
  BY <1>1, CallsAreTyped, BootLeft
<1>4. EngineTypes'
  BY <1>1, <1>2, <1>3 DEF EngineInv, EngineTypes
<1>5. BootInv'
  <2>1. ASSUME NEW c \in Boots
        PROVE  /\ boot'[c].pc \in {"opening", "loading"} => boot'[c].of \in Owners
               /\ boot'[c].pc = "loading" => engine'.of = boot'[c].of
    BY <1>1, <1>3 DEF EngineInv, BootInv
  <2>2. ASSUME NEW c \in Boots, ~strayed'
        PROVE  /\ c \in Booting' => loggedIn' # NoOwner /\ boot'[c].user = loggedIn'
               /\ boot'[c].pc \in {"opening", "loading"} => boot'[c].of = loggedIn'
               /\ boot'[c].pc = "loading" => boot'[c].db = loggedIn'
    BY <1>2, <1>3, <2>2 DEF EngineInv, BootInv
  <2>3. ASSUME NEW c \in Boots, Undisturbed', c \in Booting' PROVE FALSE
    BY <1>2, <1>3, <2>3 DEF EngineInv, BootInv
  <2> QED BY <2>1, <2>2, <2>3 DEF BootInv
<1>6. ClientHolds'
  <2>1. \A c \in Boots : boot[c].pc = "ticking" => boot'[c].pc = "ticking"
    BY <1>3 DEF Booting
  <2>2. Undisturbed => client = NoClient
    BY DEF EngineInv, BootInv, Booting
  <2> QED BY <1>1, <1>2, <2>1, <2>2 DEF EngineInv, ClientHolds
<1>7. PromiseInv'
  <2>1. SUFFICES ASSUME loggedIn # NoOwner, client = NoClient, Bindable(loggedIn), ~broken'
                 PROVE  \E c \in Booting' : boot'[c].pc = "asking" \/ boot'[c].of = loggedIn
    BY <1>1, <1>2 DEF PromiseInv, Bindable
  <2>2. PICK c \in Booting : boot[c].pc = "asking" \/ boot[c].of = loggedIn
    BY <2>1 DEF EngineInv, PromiseInv
  <2>3. c # b
    BY <2>1, <2>2
  <2> QED BY <1>3, <2>2, <2>3 DEF Booting
<1>8. SaveInv' /\ SnapshotsOnlyGrow'
  BY <1>1, <1>2 DEF EngineInv, SaveInv, SnapshotsOnlyGrow
<1> QED BY <1>2, <1>4, <1>5, <1>6, <1>7, <1>8 DEF EngineInv

\* The engine takes the account it is opened for, or has it already.
LEMMA OpenedKeeps == ASSUME EngineInv, NEW b \in Boots, Opened(b) PROVE EngineInv'
<1> DEFINE u == boot[b].of
           o == [boot[b] EXCEPT !.pc = "loading", !.db = loggedIn, !.got = row[loggedIn][u]]
<1>1. /\ boot[b].pc = "opening" /\ boot[b] \in BootCall /\ boot \in [Boots -> BootCall]
      /\ loggedIn \in Owners /\ u \in Owners /\ b \in Booting /\ broken' = broken
  BY DEF Opened, EngineInv, EngineTypes, BootInv, Anyone, Booting
<1>2. CASE ~Bindable(u)
  BY <1>1, <1>2, BootFailsKeeps DEF Opened
<1>3. CASE Bindable(u)
  <2>1. /\ engine' = [engine EXCEPT !.of = u] /\ boot' = [boot EXCEPT ![b] = o]
        /\ UNCHANGED <<client, readyFor, polling>>
    BY <1>3 DEF Opened
  <2>2. /\ CopyInv' /\ UNCHANGED <<loggedIn, strayed, doubled, save, changes, row, kept, tmp,
                                   sealed, newest, mixed>>
        /\ Undisturbed' = Undisturbed
    BY <1>3, OthersKeep DEF Opened
  <2>3. row[loggedIn][u] \in SUBSET Nat
    BY <1>1 DEF EngineInv, EngineTypes
  <2>4. /\ o \in BootCall /\ o.pc = "loading" /\ o.of = u /\ o.user = boot[b].user
        /\ o.db = loggedIn /\ o.got = row[loggedIn][u]
    BY <1>1, <2>3 DEF BootCall, Anyone
  <2>5. /\ engine' \in Copy /\ engine'.of = u /\ engine'.has = engine.has
        /\ engine.of = NoOwner \/ engine.of = u
    BY <1>1, <1>3, <2>1 DEF EngineInv, EngineTypes, Copy, Anyone, Bindable
  <2> HIDE DEF o
  <2>6. /\ boot'[b] = o /\ boot' \in [Boots -> BootCall]
        /\ \A c \in Boots \ {b} : boot'[c] = boot[c]
    BY <1>1, <2>1, <2>4
  <2>7. Booting' = Booting
    BY <1>1, <2>4, <2>6 DEF Booting
  <2>8. EngineTypes'
    BY <2>1, <2>2, <2>5, <2>6 DEF EngineInv, EngineTypes
  <2>9. BootInv'
    <3>1. ASSUME NEW c \in Boots
          PROVE  /\ boot'[c].pc \in {"opening", "loading"} => boot'[c].of \in Owners
                 /\ boot'[c].pc = "loading" => engine'.of = boot'[c].of
      BY <1>1, <2>4, <2>5, <2>6, CallsAreTyped DEF EngineInv, BootInv
    <3>2. ASSUME NEW c \in Boots, ~strayed'
          PROVE  /\ c \in Booting' => loggedIn' # NoOwner /\ boot'[c].user = loggedIn'
                 /\ boot'[c].pc \in {"opening", "loading"} => boot'[c].of = loggedIn'
                 /\ boot'[c].pc = "loading" => boot'[c].db = loggedIn'
      BY <1>1, <2>2, <2>4, <2>6, <2>7, <3>2 DEF EngineInv, BootInv
    <3>3. ASSUME NEW c \in Boots, Undisturbed', c \in Booting'
          PROVE  /\ client' = NoClient /\ \A d \in Booting' : d = c
                 /\ boot'[c].pc = "loading" => boot'[c].got = row'[loggedIn'][loggedIn']
      <4>1. client' = NoClient /\ (\A d \in Booting' : d = c) /\ c = b
        BY <1>1, <2>1, <2>2, <2>7, <3>3 DEF EngineInv, BootInv
      <4>2. u = loggedIn
        BY <1>1, <2>2, <3>3 DEF EngineInv, BootInv, Undisturbed
      <4> QED BY <2>2, <2>4, <2>6, <4>1, <4>2
    <3> QED BY <3>1, <3>2, <3>3 DEF BootInv
  <2>10. ClientHolds'
    <3>1. \A c \in Boots : boot[c].pc = "ticking" => boot'[c].pc = "ticking"
      BY <1>1, <2>6
    <3> QED BY <2>1, <2>2, <2>5, <3>1, CallsAreTyped DEF EngineInv, ClientHolds
  <2>11. PromiseInv'
    <3>1. SUFFICES ASSUME loggedIn # NoOwner, client = NoClient, engine'.of \in {NoOwner, loggedIn},
                          ~broken
                   PROVE  \E c \in Booting' : boot'[c].pc = "asking" \/ boot'[c].of = loggedIn
      BY <1>1, <2>1, <2>2 DEF PromiseInv, Bindable
    <3>2. u = loggedIn
      BY <1>1, <2>5, <3>1, CallsAreTyped
    <3> QED BY <1>1, <2>4, <2>6, <2>7, <3>2
  <2>12. SaveInv' /\ SnapshotsOnlyGrow'
    BY <2>1, <2>2, <2>5 DEF EngineInv, SaveInv, SnapshotsOnlyGrow, Undisturbed
  <2> QED BY <2>2, <2>8, <2>9, <2>10, <2>11, <2>12 DEF EngineInv
<1> QED BY <1>2, <1>3

\* The client starts with all that its snapshot has kept.
LEMMA RestoresKeeps == ASSUME EngineInv, NEW b \in Boots, Restores(b) PROVE EngineInv'
<1> DEFINE u == boot[b].of
           got == boot[b].got
           o == [NoBoot EXCEPT !.pc = "ticking"]
<1>1. /\ boot[b].pc = "loading" /\ boot[b] \in BootCall /\ got \in SUBSET Nat
      /\ u \in Owners /\ b \in Booting /\ engine \in Copy /\ engine.of = u
      /\ engine' = Restored(got) /\ readyFor' = boot[b].user
      /\ client' = [of |-> u, db |-> boot[b].db] /\ boot' = [boot EXCEPT ![b] = o]
      /\ broken' = broken
  BY DEF Restores, EngineInv, EngineTypes, BootInv, Booting, BootCall
<1>2. /\ CopyInv' /\ UNCHANGED <<loggedIn, strayed, doubled, save, changes, row, kept, tmp,
                                 sealed, newest, mixed>>
      /\ Undisturbed' = Undisturbed
  BY OthersKeep DEF Restores
<1>3. o \in BootCall /\ o.pc = "ticking"
  BY CallsAreTyped DEF NoBoot, BootCall
<1> HIDE DEF o
<1>4. /\ Booting' = Booting \ {b} /\ boot' \in [Boots -> BootCall] /\ boot'[b] = o
      /\ \A c \in Boots \ {b} : boot'[c] = boot[c]
  BY <1>1, <1>3, BootLeft
<1>5. /\ client' \in [of : Anyone, db : Anyone] /\ client'.of = u /\ client'.db = boot[b].db
      /\ client' # NoClient
  BY <1>1, CallsAreTyped DEF BootCall, Anyone
<1>6. /\ engine' \in Copy /\ engine'.of = u
      /\ engine'.has = IF got = {} THEN engine.has ELSE got
  BY <1>1 DEF Restored, Copy
<1>7. Undisturbed => client = NoClient /\ got = row[loggedIn][loggedIn] /\ u = loggedIn
               /\ boot[b].user = loggedIn
  BY <1>1 DEF EngineInv, BootInv, Undisturbed
<1>8. EngineTypes'
  BY <1>2, <1>4, <1>5, <1>6 DEF EngineInv, EngineTypes
<1>9. BootInv'
  <2>1. ASSUME NEW c \in Boots
        PROVE  /\ boot'[c].pc \in {"opening", "loading"} => boot'[c].of \in Owners
               /\ boot'[c].pc = "loading" => engine'.of = boot'[c].of
    BY <1>1, <1>3, <1>4, <1>6 DEF EngineInv, BootInv
  <2>2. ASSUME NEW c \in Boots, ~strayed'
        PROVE  /\ c \in Booting' => loggedIn' # NoOwner /\ boot'[c].user = loggedIn'
               /\ boot'[c].pc \in {"opening", "loading"} => boot'[c].of = loggedIn'
               /\ boot'[c].pc = "loading" => boot'[c].db = loggedIn'
    BY <1>2, <1>3, <1>4, <2>2 DEF EngineInv, BootInv
  <2>3. ASSUME NEW c \in Boots, Undisturbed', c \in Booting' PROVE FALSE
    BY <1>1, <1>2, <1>4, <2>3 DEF EngineInv, BootInv
  <2> QED BY <2>1, <2>2, <2>3 DEF BootInv
<1>10. ClientHolds'
  <2>1. ~strayed => u = loggedIn /\ boot[b].db = loggedIn
    BY <1>1 DEF EngineInv, BootInv
  <2> QED BY <1>1, <1>2, <1>3, <1>4, <1>5, <1>6, <1>7, <2>1 DEF ClientHolds, Undisturbed
<1>11. PromiseInv'
  BY <1>5 DEF PromiseInv
<1>12. SaveInv'
  BY <1>2, <1>7 DEF EngineInv, SaveInv
<1>13. SnapshotsOnlyGrow'
  <2>1. SUFFICES ASSUME Undisturbed
                 PROVE  /\ \A v \in Owners : kept[v] \subseteq row[v][v]
                        /\ kept[u] \subseteq engine'.has
    BY <1>2, <1>5 DEF SnapshotsOnlyGrow, Undisturbed
  <2>2. \A v \in Owners : kept[v] \subseteq row[v][v]
    BY <2>1 DEF EngineInv, SnapshotsOnlyGrow, Undisturbed
  <2>3. kept[u] \subseteq got
    BY <1>1, <1>7, <2>1, <2>2
  <2> QED BY <1>6, <2>2, <2>3
<1> QED BY <1>2, <1>8, <1>9, <1>10, <1>11, <1>12, <1>13 DEF EngineInv

LEMMA TickedKeeps == ASSUME EngineInv, NEW b \in Boots, Ticked(b) PROVE EngineInv'
<1>1. /\ boot[b].pc = "ticking" /\ boot' = [boot EXCEPT ![b] = NoBoot] /\ polling'
      /\ UNCHANGED <<client, readyFor, engine, broken>>
  BY DEF Ticked
<1>2. /\ CopyInv' /\ UNCHANGED <<loggedIn, strayed, doubled, save, changes, row, kept, tmp,
                                 sealed, newest, mixed>>
      /\ Undisturbed' = Undisturbed
  BY OthersKeep DEF Ticked
<1>3. /\ Booting' = Booting /\ boot' \in [Boots -> BootCall] /\ boot'[b].pc = "none"
      /\ \A c \in Boots \ {b} : boot'[c] = boot[c]
  <2>1. b \notin Booting
    BY <1>1 DEF Booting
  <2>2. /\ Booting' = Booting \ {b} /\ boot' \in [Boots -> BootCall] /\ boot'[b] = NoBoot
        /\ \A c \in Boots \ {b} : boot'[c] = boot[c]
    BY <1>1, CallsAreTyped, BootLeft
  <2> QED BY <2>1, <2>2, CallsAreTyped
<1>4. EngineTypes'
  BY <1>1, <1>2, <1>3 DEF EngineInv, EngineTypes
<1>5. BootInv'
  <2>1. ASSUME NEW c \in Boots
        PROVE  boot'[c] = boot[c] \/ (c \notin Booting' /\ boot'[c].pc = "none")
    BY <1>3 DEF Booting
  <2> QED BY <1>1, <1>2, <1>3, <2>1 DEF EngineInv, BootInv
<1>6. ClientHolds' /\ SaveInv' /\ SnapshotsOnlyGrow'
  BY <1>1, <1>2 DEF EngineInv, ClientHolds, SaveInv, SnapshotsOnlyGrow
<1>7. PromiseInv'
  <2>1. \A c \in Booting : boot'[c] = boot[c]
    BY <1>1, <1>3 DEF Booting
  <2> QED BY <1>1, <1>2, <1>3, <2>1 DEF EngineInv, PromiseInv, Bindable
<1> QED BY <1>2, <1>4, <1>5, <1>6, <1>7 DEF EngineInv

\* What a save leaves alone.
LEMMA RestKeeps ==
  ASSUME EngineInv, Rest, engine'.of = engine.of, Undisturbed /\ Booting # {} => row' = row
  PROVE  BootInv' /\ ClientHolds' /\ PromiseInv'
<1>1. /\ UNCHANGED <<loggedIn, client, readyFor, polling, boot, strayed, doubled, broken>>
      /\ Booting' = Booting /\ Undisturbed' = Undisturbed
  BY DEF Rest, Booting, Undisturbed
<1>2. BootInv'
  <2>1. ASSUME NEW b \in Booting, Undisturbed, boot[b].pc = "loading"
        PROVE  boot[b].got = row'[loggedIn][loggedIn]
    BY <2>1 DEF EngineInv, BootInv, Booting
  <2>2. \A b \in Boots : b \in Booting' => b \in Booting
    BY <1>1
  <2> QED BY <1>1, <2>1, <2>2 DEF EngineInv, BootInv
<1>3. ClientHolds' /\ PromiseInv'
  BY <1>1 DEF EngineInv, ClientHolds, PromiseInv, Bindable
<1> QED BY <1>2, <1>3

\* A save has its own record, and is of an account.
LEMMA SaveIs ==
  ASSUME EngineInv, NEW w \in Saves, NEW o \in SaveCall, save' = [save EXCEPT ![w] = o]
  PROVE  /\ save' \in [Saves -> SaveCall] /\ save'[w] = o
         /\ \A v \in Saves \ {w} : save'[v] = save[v]
BY DEF EngineInv, EngineTypes

LEMMA OperateKeeps == ASSUME EngineInv, NEW w \in Saves, Operate(w) PROVE EngineInv'
<1> DEFINE o == [pc |-> "changed", of |-> client.of, db |-> client.db, has |-> {}]
<1>1. /\ save[w] = NoSave /\ client # NoClient /\ save' = [save EXCEPT ![w] = o]
      /\ changes' = changes + 1 /\ engine' = [engine EXCEPT !.has = @ \cup {changes + 1}]
      /\ UNCHANGED <<row, tmp, sealed, kept, newest, mixed>> /\ Rest
  BY DEF Operate, files
<1>2. /\ o \in SaveCall /\ o.pc = "changed" /\ o.of = client.of /\ o.db = client.db
      /\ client.of \in Owners
  BY <1>1 DEF EngineInv, EngineTypes, ClientHolds, SaveCall, Anyone
<1> HIDE DEF o
<1>3. /\ save' \in [Saves -> SaveCall] /\ save'[w] = o
      /\ \A v \in Saves \ {w} : save'[v] = save[v]
  BY <1>1, <1>2, SaveIs
<1>4. changes' \in Nat
  BY <1>1 DEF EngineInv, EngineTypes
<1>5. /\ engine' \in Copy /\ engine'.of = engine.of /\ engine.has \subseteq engine'.has
  BY <1>1, <1>4 DEF EngineInv, EngineTypes, Copy
<1>6. BootInv' /\ ClientHolds' /\ PromiseInv'
  BY <1>1, <1>5, RestKeeps
<1>7. EngineTypes'
  BY <1>1, <1>3, <1>4, <1>5 DEF EngineInv, EngineTypes, Rest
<1>8. SaveInv'
  BY <1>1, <1>2, <1>3 DEF EngineInv, SaveInv, Rest, Undisturbed
<1>9. CopyInv'
  <2>1. save[w].pc = "none"
    BY <1>1, CallsAreTyped
  <2>2. \A v \in Saves :
          \/ /\ save'[v].pc = save[v].pc
             /\ save'[v].of = save[v].of /\ save'[v].has = save[v].has
          \/ {save[v].pc, save'[v].pc} \subseteq {"none", "changed"}
    BY <1>2, <1>3, <2>1
  <2> QED BY <1>1, <2>2, CopiesStay DEF EngineInv
<1>10. SnapshotsOnlyGrow'
  BY <1>1, <1>5 DEF EngineInv, SnapshotsOnlyGrow, Rest
<1> QED BY <1>6, <1>7, <1>8, <1>9, <1>10 DEF EngineInv

\* A save whose database is closed writes nothing; one that writes is the client's.
LEMMA PersistKeeps == ASSUME EngineInv, NEW w \in Saves, Persist(w) PROVE EngineInv'
<1> DEFINE u == save[w].of
           d == save[w].db
           o == [pc |-> "seal", of |-> u, db |-> NoOwner, has |-> engine.has]
<1>1. /\ save[w].pc = "changed" /\ save[w] \in SaveCall /\ u \in Owners /\ d \in Anyone
      /\ UNCHANGED <<engine, tmp, sealed, changes>> /\ Rest
  BY DEF Persist, EngineInv, EngineTypes, SaveInv, SaveCall
<1>2. CASE d = NoOwner
  <2>1. save' = [save EXCEPT ![w] = NoSave] /\ UNCHANGED <<row, kept, newest, mixed>>
    BY <1>2 DEF Persist
  <2>2. /\ save' \in [Saves -> SaveCall] /\ save'[w] = NoSave
        /\ \A v \in Saves \ {w} : save'[v] = save[v]
    BY <2>1, CallsAreTyped, SaveIs
  <2>3. BootInv' /\ ClientHolds' /\ PromiseInv'
    BY <1>1, <2>1, RestKeeps
  <2>4. EngineTypes'
    BY <1>1, <2>1, <2>2 DEF EngineInv, EngineTypes, Rest
  <2>5. SaveInv'
    BY <1>1, <2>2, CallsAreTyped DEF EngineInv, SaveInv, Rest, Undisturbed
  <2>6. CopyInv'
    <3>1. \A v \in Saves :
            \/ /\ save'[v].pc = save[v].pc
               /\ save'[v].of = save[v].of /\ save'[v].has = save[v].has
            \/ {save[v].pc, save'[v].pc} \subseteq {"none", "changed"}
      BY <1>1, <2>2, CallsAreTyped
    <3> QED BY <1>1, <2>1, <3>1, CopiesStay DEF EngineInv
  <2>7. SnapshotsOnlyGrow'
    BY <1>1, <2>1 DEF EngineInv, SnapshotsOnlyGrow, Rest
  <2> QED BY <2>3, <2>4, <2>5, <2>6, <2>7 DEF EngineInv
<1>3. CASE d # NoOwner
  <2>1. /\ row' = [row EXCEPT ![d][u] = engine.has] /\ save' = [save EXCEPT ![w] = o]
        /\ kept' = [kept EXCEPT ![u] = kept[u] \cup engine.has]
        /\ newest' = [of |-> u, has |-> engine.has] /\ mixed' = (Copying # {})
    BY <1>3 DEF Persist
  <2>2. /\ o \in SaveCall /\ o.pc = "seal" /\ o.of = u /\ o.has = engine.has
        /\ engine.has \in SUBSET Nat /\ d \in Owners
    BY <1>1, <1>3 DEF EngineInv, EngineTypes, SaveCall, Copy, Anyone
  <2> HIDE DEF o
  <2>3. /\ save' \in [Saves -> SaveCall] /\ save'[w] = o
        /\ \A v \in Saves \ {w} : save'[v] = save[v]
    BY <2>1, <2>2, SaveIs
  <2>4. /\ row' \in [Owners -> [Owners -> SUBSET Nat]] /\ row'[d][u] = engine.has
        /\ \A v \in Owners : v # u => row'[v][v] = row[v][v]
    <3> DEFINE r == [row[d] EXCEPT ![u] = engine.has]
    <3>1. /\ r \in [Owners -> SUBSET Nat] /\ r[u] = engine.has
          /\ \A v \in Owners \ {u} : r[v] = row[d][v]
      BY <1>1, <2>2 DEF EngineInv, EngineTypes
    <3>2. row' = [row EXCEPT ![d] = r]
      BY <2>1
    <3> HIDE DEF r
    <3> QED BY <2>2, <3>1, <3>2 DEF EngineInv, EngineTypes
  <2>5. /\ kept' \in [Owners -> SUBSET Nat] /\ kept'[u] = kept[u] \cup engine.has
        /\ \A v \in Owners \ {u} : kept'[v] = kept[v]
    BY <1>1, <2>1, <2>2 DEF EngineInv, EngineTypes
  <2>6. Undisturbed => /\ client # NoClient /\ client.of = u /\ d = u
    BY <1>1, <1>3 DEF EngineInv, SaveInv, ClientHolds, Undisturbed
  <2>7. BootInv' /\ ClientHolds' /\ PromiseInv'
    <3>1. ~(Undisturbed /\ Booting # {})
      BY <2>6 DEF EngineInv, BootInv, Booting
    <3> QED BY <1>1, <3>1, RestKeeps
  <2>8. EngineTypes'
    <3>1. newest' \in Copy
      BY <1>1, <2>1, <2>2 DEF Copy, Anyone
    <3> QED BY <1>1, <2>3, <2>4, <2>5, <3>1 DEF EngineInv, EngineTypes, Rest
  <2>9. SaveInv'
    BY <1>1, <2>2, <2>3 DEF EngineInv, SaveInv, Rest, Undisturbed
  <2>10. CopyInv'
    <3>1. SUFFICES ASSUME Copying = {}
                   PROVE  /\ Copying' = {w} /\ newest' = [of |-> save'[w].of, has |-> save'[w].has]
                          /\ save'[w].pc = "seal"
      BY <2>1 DEF CopyInv
    <3> QED BY <2>1, <2>2, <2>3, <3>1 DEF Copying
  <2>11. SnapshotsOnlyGrow'
    <3>1. SUFFICES ASSUME Undisturbed
                   PROVE  /\ \A v \in Owners : kept'[v] \subseteq row'[v][v]
                          /\ kept'[u] \subseteq engine.has
      BY <1>1, <2>6 DEF SnapshotsOnlyGrow, Rest, Undisturbed
    <3>2. (\A v \in Owners : kept[v] \subseteq row[v][v]) /\ kept[u] \subseteq engine.has
      BY <2>6, <3>1 DEF EngineInv, SnapshotsOnlyGrow, Undisturbed
    <3> QED BY <2>4, <2>5, <2>6, <3>1, <3>2
  <2> QED BY <2>7, <2>8, <2>9, <2>10, <2>11 DEF EngineInv
<1> QED BY <1>2, <1>3

\* A step of a copy touches the two files only.
LEMMA CopyMoves ==
  ASSUME EngineInv, NEW w \in Copying, NEW o \in SaveCall, save' = [save EXCEPT ![w] = o],
         o.pc # "changed", o.pc # "none" => o.of = save[w].of,
         FileUnchanged, tmp' \in Copy, sealed' \in Copy
  PROVE  /\ EngineTypes' /\ BootInv' /\ ClientHolds' /\ PromiseInv' /\ SaveInv'
         /\ SnapshotsOnlyGrow'
         /\ w \in Saves /\ save'[w] = o /\ \A v \in Saves \ {w} : save'[v] = save[v]
         /\ save[w].pc \in {"seal", "delete", "move"} /\ save[w].of \in Owners
<1>1. /\ UNCHANGED <<engine, row, kept, newest, changes>> /\ Rest
      /\ w \in Saves /\ save[w].pc \in {"seal", "delete", "move"} /\ save[w].of \in Owners
  BY DEF FileUnchanged, Copying, EngineInv, SaveInv
<1>2. /\ save' \in [Saves -> SaveCall] /\ save'[w] = o
      /\ \A v \in Saves \ {w} : save'[v] = save[v]
  BY <1>1, SaveIs
<1>3. BootInv' /\ ClientHolds' /\ PromiseInv'
  BY <1>1, RestKeeps
<1>4. EngineTypes'
  BY <1>1, <1>2 DEF EngineInv, EngineTypes, Rest
<1>5. SaveInv'
  BY <1>1, <1>2 DEF EngineInv, SaveInv, Rest, Undisturbed
<1>6. SnapshotsOnlyGrow'
  BY <1>1 DEF EngineInv, SnapshotsOnlyGrow, Rest
<1> QED BY <1>1, <1>2, <1>3, <1>4, <1>5, <1>6

\* The copy under way is the only one, unless they are mixed.
LEMMA OnlyCopy ==
  ASSUME EngineInv, NEW w \in Copying, ~mixed
  PROVE  /\ Copying = {w} /\ newest = [of |-> save[w].of, has |-> save[w].has]
         /\ save[w].pc \in {"delete", "move"} => tmp = newest
BY DEF EngineInv, CopyInv

LEMMA SealKeeps == ASSUME EngineInv, NEW w \in Saves, Seal(w) PROVE EngineInv'
<1> DEFINE o == [save[w] EXCEPT !.pc = "delete"]
<1>1. /\ w \in Copying /\ save[w] \in SaveCall /\ tmp' = [of |-> save[w].of, has |-> save[w].has]
      /\ save' = [save EXCEPT ![w] = o] /\ UNCHANGED <<sealed, mixed>> /\ FileUnchanged
  BY DEF Seal, EngineInv, EngineTypes, Copying
<1>2. /\ o \in SaveCall /\ o.pc = "delete" /\ o.of = save[w].of /\ o.has = save[w].has
      /\ tmp' \in Copy /\ sealed' \in Copy
  BY <1>1 DEF SaveCall, Copy, EngineInv, EngineTypes
<1> HIDE DEF o
<1>3. /\ EngineTypes' /\ BootInv' /\ ClientHolds' /\ PromiseInv' /\ SaveInv'
      /\ SnapshotsOnlyGrow'
      /\ save'[w] = o /\ \A v \in Saves \ {w} : save'[v] = save[v]
  BY <1>1, <1>2, CopyMoves
<1>4. CopyInv'
  <2>1. SUFFICES ASSUME ~mixed
                 PROVE  /\ Copying' = {w} /\ newest' = [of |-> save'[w].of, has |-> save'[w].has]
                        /\ tmp' = newest'
    BY <1>1 DEF CopyInv
  <2>2. Copying = {w} /\ newest = [of |-> save[w].of, has |-> save[w].has]
    BY <1>1, <2>1, OnlyCopy
  <2>3. Copying' = Copying
    BY <1>1, <1>2, <1>3 DEF Copying
  <2> QED BY <1>1, <1>2, <1>3, <2>2, <2>3 DEF FileUnchanged
<1> QED BY <1>3, <1>4 DEF EngineInv

LEMMA DeleteOldKeeps == ASSUME EngineInv, NEW w \in Saves, DeleteOld(w) PROVE EngineInv'
<1> DEFINE o == [save[w] EXCEPT !.pc = "move"]
<1>1. /\ w \in Copying /\ save[w] \in SaveCall /\ sealed' = NoCopy /\ save[w].pc = "delete"
      /\ save' = [save EXCEPT ![w] = o] /\ UNCHANGED <<tmp, mixed>> /\ FileUnchanged
  BY DEF DeleteOld, EngineInv, EngineTypes, Copying
<1>2. /\ o \in SaveCall /\ o.pc = "move" /\ o.of = save[w].of /\ o.has = save[w].has
      /\ tmp' \in Copy /\ sealed' \in Copy
  BY <1>1, CallsAreTyped DEF SaveCall, EngineInv, EngineTypes
<1> HIDE DEF o
<1>3. /\ EngineTypes' /\ BootInv' /\ ClientHolds' /\ PromiseInv' /\ SaveInv'
      /\ SnapshotsOnlyGrow'
      /\ save'[w] = o /\ \A v \in Saves \ {w} : save'[v] = save[v]
  BY <1>1, <1>2, CopyMoves
<1>4. CopyInv'
  <2>1. SUFFICES ASSUME ~mixed
                 PROVE  /\ Copying' = {w} /\ newest' = [of |-> save'[w].of, has |-> save'[w].has]
                        /\ tmp' = newest'
    BY <1>1 DEF CopyInv
  <2>2. Copying = {w} /\ newest = [of |-> save[w].of, has |-> save[w].has] /\ tmp = newest
    BY <1>1, <2>1, OnlyCopy
  <2>3. Copying' = Copying
    BY <1>1, <1>2, <1>3 DEF Copying
  <2> QED BY <1>1, <1>2, <1>3, <2>2, <2>3 DEF FileUnchanged
<1> QED BY <1>3, <1>4 DEF EngineInv

LEMMA MoveKeeps == ASSUME EngineInv, NEW w \in Saves, Move(w) PROVE EngineInv'
<1>1. /\ w \in Copying /\ sealed' = MovedCopy /\ tmp' = NoCopy /\ save[w].pc = "move"
      /\ save' = [save EXCEPT ![w] = NoSave] /\ mixed' = mixed /\ FileUnchanged
  BY DEF Move, Copying
<1>2. tmp' \in Copy /\ sealed' \in Copy
  BY <1>1, CallsAreTyped DEF MovedCopy, EngineInv, EngineTypes
<1>3. /\ EngineTypes' /\ BootInv' /\ ClientHolds' /\ PromiseInv' /\ SaveInv'
      /\ SnapshotsOnlyGrow' /\ save[w].of \in Owners
      /\ save'[w] = NoSave /\ \A v \in Saves \ {w} : save'[v] = save[v]
  BY <1>1, <1>2, CallsAreTyped, CopyMoves
<1>4. CopyInv'
  <2>1. SUFFICES ASSUME ~mixed PROVE Copying' = {} /\ sealed' = newest'
    BY <1>1 DEF CopyInv
  <2>2. Copying = {w} /\ newest = [of |-> save[w].of, has |-> save[w].has] /\ tmp = newest
    BY <1>1, <2>1, OnlyCopy
  <2>3. tmp # NoCopy
    BY <1>3, <2>2, CallsAreTyped
  <2>4. Copying' = {}
    BY <1>3, <2>2, CallsAreTyped DEF Copying
  <2> QED BY <1>1, <2>2, <2>3, <2>4 DEF MovedCopy, FileUnchanged
<1> QED BY <1>3, <1>4 DEF EngineInv

LEMMA CopyFailsKeeps == ASSUME EngineInv, NEW w \in Saves, CopyFails(w) PROVE EngineInv'
<1>1. /\ w \in Copying /\ save' = [save EXCEPT ![w] = NoSave] /\ mixed'
      /\ UNCHANGED <<tmp, sealed>> /\ FileUnchanged
  BY DEF CopyFails
<1>2. tmp' \in Copy /\ sealed' \in Copy
  BY <1>1 DEF EngineInv, EngineTypes
<1>3. /\ EngineTypes' /\ BootInv' /\ ClientHolds' /\ PromiseInv' /\ SaveInv'
      /\ SnapshotsOnlyGrow'
  BY <1>1, <1>2, CallsAreTyped, CopyMoves
<1> QED BY <1>1, <1>3 DEF EngineInv, CopyInv

\* A new process knows nothing, and what was being copied may be lost.
LEMMA ProcessEndsKeeps == ASSUME EngineInv, ProcessEnds PROVE EngineInv'
<1>1. /\ loggedIn' = NoOwner /\ client' = NoClient /\ engine' = NoCopy
      /\ boot' = [b \in Boots |-> NoBoot] /\ save' = [w \in Saves |-> NoSave]
      /\ mixed' = (mixed \/ Copying # {})
      /\ UNCHANGED <<row, tmp, sealed, kept, newest, changes, strayed, doubled>>
  BY DEF ProcessEnds
<1>2. /\ boot' \in [Boots -> BootCall] /\ \A b \in Boots : boot'[b].pc = "none"
      /\ save' \in [Saves -> SaveCall] /\ \A w \in Saves : save'[w].pc = "none"
  BY <1>1, CallsAreTyped
<1>3. EngineTypes'
  BY <1>1, <1>2, CallsAreTyped DEF EngineInv, EngineTypes, Anyone
<1>4. BootInv' /\ SaveInv'
  BY <1>2 DEF BootInv, SaveInv, Booting
<1>5. ClientHolds' /\ PromiseInv'
  BY <1>1 DEF ClientHolds, PromiseInv
<1>6. CopyInv'
  <2>1. Copying' = {}
    BY <1>2 DEF Copying
  <2> QED BY <1>1, <2>1 DEF EngineInv, CopyInv
<1>7. SnapshotsOnlyGrow'
  BY <1>1 DEF EngineInv, SnapshotsOnlyGrow
<1> QED BY <1>3, <1>4, <1>5, <1>6, <1>7 DEF EngineInv

LEMMA EngineStarts == EngineLoopInit => EngineInv
<1> SUFFICES ASSUME EngineLoopInit PROVE EngineInv
  OBVIOUS
<1>1. /\ boot \in [Boots -> BootCall] /\ \A b \in Boots : boot[b].pc = "none"
      /\ save \in [Saves -> SaveCall] /\ \A w \in Saves : save[w].pc = "none"
      /\ loggedIn = NoOwner /\ client = NoClient
  BY CallsAreTyped DEF EngineLoopInit
<1>2. EngineTypes
  BY <1>1, CallsAreTyped DEF EngineLoopInit, EngineTypes, Anyone
<1>3. BootInv /\ SaveInv
  BY <1>1 DEF BootInv, SaveInv, Booting
<1>4. ClientHolds /\ PromiseInv
  BY <1>1 DEF ClientHolds, PromiseInv
<1>5. CopyInv
  BY <1>1 DEF EngineLoopInit, CopyInv, Copying
<1>6. SnapshotsOnlyGrow
  BY <1>1 DEF EngineLoopInit, SnapshotsOnlyGrow
<1> QED BY <1>2, <1>3, <1>4, <1>5, <1>6 DEF EngineInv

LEMMA EngineStep == EngineInv /\ [EngineLoopNext]_engineLoopVars => EngineInv'
<1> SUFFICES ASSUME EngineInv, [EngineLoopNext]_engineLoopVars PROVE EngineInv'
  OBVIOUS
<1>1. CASE UNCHANGED engineLoopVars
  BY <1>1 DEF engineLoopVars, EngineInv, EngineTypes, BootInv, ClientHolds, PromiseInv, SaveInv,
              CopyInv, SnapshotsOnlyGrow, Booting, Copying, Undisturbed, Bindable
<1>2. ASSUME NEW b \in Boots, BootCallFails(b) PROVE EngineInv'
  <2>1. b \in Booting /\ BootFails(b) /\ broken'
    BY <1>2 DEF BootCallFails
  <2> QED BY <2>1, BootFailsKeeps
<1>3. ASSUME NEW b \in Boots, BootStep(b) PROVE EngineInv'
  BY <1>2, <1>3, AccountKnownKeeps, OpenedKeeps, RestoresKeeps, TickedKeeps DEF BootStep
<1>4. ASSUME NEW w \in Saves, SaveStep(w) PROVE EngineInv'
  BY <1>4, OperateKeeps, PersistKeeps, SealKeeps, DeleteOldKeeps, MoveKeeps, CopyFailsKeeps
    DEF SaveStep
<1> QED BY <1>1, <1>3, <1>4, LeavesKeeps, StoreTurnsKeeps, ProcessEndsKeeps, EntersKeeps
      DEF EngineLoopNext

\* What the types add to that: no state has a change that was not made.
Gotten == \A b \in Boots : boot[b].got \subseteq 1 .. changes
EngineFits ==
  /\ readyFor \in Anyone /\ polling \in BOOLEAN
  /\ engine.has \subseteq 1 .. changes /\ \A d, u \in Owners : row[d][u] \subseteq 1 .. changes
  /\ Gotten

LEMMA GottenStays ==
  ASSUME Gotten, UNCHANGED changes, \A b \in Boots : boot'[b].got \in {boot[b].got, {}}
  PROVE  Gotten'
BY DEF Gotten

LEMMA BeginsFits ==
  ASSUME NEW boots \in [Boots -> BootCall], Begins(boots)
  PROVE  \A b \in Boots : boot'[b].got \in {boots[b].got, {}}
<1>1. PICK b \in Boots :
        boot' = [boots EXCEPT ![b] = [NoBoot EXCEPT !.pc = "asking", !.user = loggedIn']]
  BY DEF Begins
<1>2. [NoBoot EXCEPT !.pc = "asking", !.user = loggedIn'].got = {}
  BY DEF NoBoot
<1> QED BY <1>1, <1>2

\* The account, the engine's process and the bootstraps that begin.
LEMMA AccountFits ==
  ASSUME EngineInv, EngineFits, Leaves \/ StoreTurns \/ ProcessEnds \/ \E u \in Owners : Enters(u)
  PROVE  EngineFits'
<1>0. boot \in [Boots -> BootCall] /\ NoBoot.got = {} /\ NoOwner \in Anyone /\ NoCopy.has = {}
  BY CallsAreTyped DEF EngineInv, EngineTypes, NoBoot, Anyone
<1> DEFINE closed == [b \in Boots |-> Closed(boot[b])]
<1>1. closed \in [Boots -> BootCall] /\ \A b \in Boots : closed[b].got = boot[b].got
  BY <1>0, BootCloses
<1>2. UNCHANGED <<changes, row>> /\ engine' \in {engine, NoCopy}
  BY DEF Leaves, StoreTurns, ProcessEnds, Enters, files
<1>3. readyFor' \in {readyFor, NoOwner} /\ polling' \in {polling, FALSE}
  BY DEF Leaves, StoreTurns, ProcessEnds, Enters, TornDown
<1>4. \/ boot' = closed \/ Begins(closed) \/ Begins(boot)
      \/ boot' = [b \in Boots |-> NoBoot]
  BY DEF Leaves, StoreTurns, ProcessEnds, Enters
<1> HIDE DEF closed
<1>5. \A b \in Boots : boot'[b].got \in {boot[b].got, {}}
  BY <1>0, <1>1, <1>4, BeginsFits
<1> QED BY <1>0, <1>2, <1>3, <1>5, GottenStays DEF EngineFits

LEMMA BootStepFits ==
  ASSUME EngineInv, EngineFits, NEW b \in Boots, BootStep(b)
  PROVE  EngineFits'
<1>0. /\ boot \in [Boots -> BootCall] /\ NoBoot.got = {} /\ NoOwner \in Anyone
      /\ engine \in Copy /\ loggedIn \in Anyone /\ boot[b] \in BootCall
  BY DEF EngineInv, EngineTypes, NoBoot, Anyone
<1>1. UNCHANGED <<changes, row>>
  BY DEF BootStep, AccountKnown, Opened, BootFails, Restores, Ticked, BootCallFails, Others, files
<1>2. ASSUME NEW r, boot' = [boot EXCEPT ![b] = r], r.got \in {boot[b].got, {}},
             readyFor' \in {readyFor, NoOwner, boot[b].user}, polling' \in {polling, TRUE},
             engine'.has \in {engine.has, boot[b].got}
      PROVE  EngineFits'
  <2>1. \A c \in Boots : boot'[c].got \in {boot[c].got, {}}
    BY <1>0, <1>2
  <2>2. boot[b].got \subseteq 1 .. changes /\ boot[b].user \in Anyone
    BY <1>0 DEF EngineFits, Gotten, BootCall
  <2> QED BY <1>0, <1>1, <1>2, <2>1, <2>2, GottenStays DEF EngineFits
<1>3. CASE AccountKnown(b)
  <2>1. [boot[b] EXCEPT !.pc = "opening", !.of = loggedIn].got = boot[b].got
    BY <1>0 DEF BootCall
  <2>2. /\ boot' = [boot EXCEPT ![b] = [boot[b] EXCEPT !.pc = "opening", !.of = loggedIn]]
        /\ UNCHANGED <<readyFor, polling, engine>>
    BY <1>0, <1>3 DEF AccountKnown
  <2> QED BY <1>2, <2>1, <2>2
<1>4. CASE BootFails(b)
  <2>1. /\ boot' = [boot EXCEPT ![b] = NoBoot] /\ readyFor' = NoOwner /\ UNCHANGED <<polling, engine>>
    BY <1>4 DEF BootFails
  <2> QED BY <1>0, <1>2, <2>1
<1>5. CASE Opened(b) /\ ~BootFails(b)
  <2> DEFINE u == boot[b].of
             opened == [boot[b] EXCEPT !.pc = "loading", !.db = loggedIn, !.got = row[loggedIn][u]]
  <2>1. /\ boot' = [boot EXCEPT ![b] = opened] /\ engine' = [engine EXCEPT !.of = u]
        /\ UNCHANGED <<readyFor, polling>> /\ loggedIn # NoOwner /\ boot[b].pc = "opening"
    BY <1>5 DEF Opened
  <2>2. opened.got = row[loggedIn][u] /\ engine'.has = engine.has
    BY <1>0, <2>1 DEF BootCall, Copy
  <2>3. u \in Owners /\ loggedIn \in Owners
    BY <1>0, <2>1 DEF EngineInv, BootInv, Anyone
  <2>4. row[loggedIn][u] \subseteq 1 .. changes
    BY <2>3 DEF EngineFits
  <2> HIDE DEF opened, u
  <2>5. \A c \in Boots : boot'[c] = IF c = b THEN opened ELSE boot[c]
    BY <1>0, <2>1
  <2>6. Gotten'
    BY <1>1, <2>2, <2>4, <2>5 DEF EngineFits, Gotten
  <2> QED BY <1>1, <2>1, <2>2, <2>6 DEF EngineFits
<1>6. CASE Restores(b)
  <2>1. /\ boot' = [boot EXCEPT ![b] = [NoBoot EXCEPT !.pc = "ticking"]]
        /\ readyFor' = boot[b].user /\ UNCHANGED polling
        /\ engine' \in {engine, [engine EXCEPT !.has = boot[b].got]}
    BY <1>6 DEF Restores, Restored
  <2>2. [NoBoot EXCEPT !.pc = "ticking"].got = {}
    BY DEF NoBoot
  <2>3. engine'.has \in {engine.has, boot[b].got}
    BY <1>0, <2>1 DEF Copy
  <2> QED BY <1>2, <2>1, <2>2, <2>3
<1>7. CASE Ticked(b)
  <2>1. boot' = [boot EXCEPT ![b] = NoBoot] /\ polling' = TRUE /\ UNCHANGED <<readyFor, engine>>
    BY <1>7 DEF Ticked
  <2> QED BY <1>0, <1>2, <2>1
<1>8. BootCallFails(b) => BootFails(b)
  BY DEF BootCallFails
<1> QED BY <1>3, <1>4, <1>5, <1>6, <1>7, <1>8 DEF BootStep

LEMMA SaveStepFits ==
  ASSUME EngineInv, EngineFits, NEW w \in Saves, SaveStep(w)
  PROVE  EngineFits'
<1>0. /\ UNCHANGED <<boot, readyFor, polling>> /\ changes \in Nat /\ engine \in Copy
      /\ row \in [Owners -> [Owners -> SUBSET Nat]] /\ save \in [Saves -> SaveCall]
  BY DEF SaveStep, Operate, Persist, Seal, DeleteOld, Move, CopyFails, FileUnchanged, Rest, EngineInv, EngineTypes
<1>1. CASE UNCHANGED <<engine, row, changes>>
  BY <1>0, <1>1 DEF EngineFits, Gotten
<1>2. CASE Operate(w)
  <2>1. /\ changes' = changes + 1 /\ engine' = [engine EXCEPT !.has = @ \cup {changes + 1}]
        /\ UNCHANGED row
    BY <1>2 DEF Operate, files
  <2>2. engine'.has = engine.has \cup {changes + 1}
    BY <1>0, <2>1 DEF Copy
  <2>3. 1 .. changes \subseteq 1 .. changes' /\ changes + 1 \in 1 .. changes'
    BY <1>0, <2>1
  <2> QED BY <1>0, <2>1, <2>2, <2>3 DEF EngineFits, Gotten
<1>3. CASE Persist(w) /\ save[w].db # NoOwner
  <2> DEFINE d == save[w].db
             u == save[w].of
  <2>1. row' = [row EXCEPT ![d] = [row[d] EXCEPT ![u] = engine.has]] /\ UNCHANGED <<engine, changes>>
    BY <1>3 DEF Persist
  <2>2. d \in Owners
    BY <1>0, <1>3 DEF SaveCall, Anyone
  <2> HIDE DEF d, u
  <2>3. [row[d] EXCEPT ![u] = engine.has] \in [Owners -> {row[d][v] : v \in Owners} \cup {engine.has}]
    BY <1>0, <2>2
  <2>4. \A e, v \in Owners : row'[e][v] \in {row[e][v], engine.has}
    <3>1. \A v \in Owners : [row[d] EXCEPT ![u] = engine.has][v] \in {row[d][v], engine.has}
      BY <1>0, <2>2
    <3>2. \A e \in Owners : row'[e] = IF e = d THEN [row[d] EXCEPT ![u] = engine.has] ELSE row[e]
      BY <1>0, <2>1
    <3> QED BY <3>1, <3>2
  <2> QED BY <1>0, <2>1, <2>4 DEF EngineFits, Gotten
<1>4. CASE (Persist(w) /\ save[w].db = NoOwner) \/ Seal(w) \/ DeleteOld(w) \/ Move(w) \/ CopyFails(w)
  BY <1>1, <1>4 DEF Persist, Seal, DeleteOld, Move, CopyFails, FileUnchanged
<1> QED BY <1>2, <1>3, <1>4 DEF SaveStep

LEMMA EngineTypesHold == EngineLoopSpec => []EngineLoopTypeOK
<1>1. EngineInv /\ EngineFits => EngineLoopTypeOK
  <2> SUFFICES ASSUME EngineTypes, EngineFits PROVE EngineLoopTypeOK
    BY DEF EngineInv
  <2>1. {loggedIn, readyFor, engine.of, client.of, client.db} \subseteq Anyone
    BY DEF EngineTypes, EngineFits, Copy
  <2>2. /\ \A b \in Boots : boot[b].pc \in {"none", "asking", "opening", "loading", "ticking"}
        /\ \A w \in Saves : save[w].pc \in {"none", "changed", "seal", "delete", "move"}
    BY DEF EngineTypes, BootCall, SaveCall
  <2> QED BY <2>1, <2>2 DEF EngineFits, Anyone, EngineLoopTypeOK
<1>2. EngineLoopInit => EngineFits
  <2> SUFFICES ASSUME EngineLoopInit PROVE EngineFits
    OBVIOUS
  <2>1. /\ engine.has = {} /\ readyFor = NoOwner /\ polling = FALSE
        /\ \A d, u \in Owners : row[d][u] = {}
    BY DEF EngineLoopInit, NoCopy
  <2>2. \A b \in Boots : boot[b].got = {}
    BY DEF EngineLoopInit, NoBoot
  <2> QED BY <2>1, <2>2 DEF EngineFits, Gotten, Anyone
<1>3. EngineInv /\ EngineFits /\ [EngineLoopNext]_engineLoopVars => EngineFits'
  <2>1. EngineFits /\ UNCHANGED engineLoopVars => EngineFits'
    BY DEF engineLoopVars, EngineFits, Gotten
  <2> QED BY <2>1, AccountFits, BootStepFits, SaveStepFits DEF EngineLoopNext
<1> QED BY <1>1, <1>2, <1>3, EngineStarts, EngineStep, PTL DEF EngineLoopSpec

LEMMA EngineHolds == EngineInv => EngineIsSound
<1> SUFFICES ASSUME EngineInv PROVE SnapshotsOnlyGrow /\ CopyIsNewest /\ ClientIsSignedIn
  BY DEF EngineIsSound, SnapshotsAreKept
<1>1. SnapshotsOnlyGrow
  BY DEF EngineInv
<1>2. CopyIsNewest
  BY DEF EngineInv, CopyInv, CopyIsNewest
<1>3. ClientIsSignedIn
  BY DEF EngineInv, ClientHolds, PromiseInv, ClientIsSignedIn
<1> QED BY <1>1, <1>2, <1>3

\* The database handle, its files and its passphrase, and the engine with its snapshots
\* are those of the account that is signed in, for any number of accounts, switches,
\* overlapping opens, bootstraps and saves (OneAccountAtATime; chat-db client.ts, key.ts,
\* mobile mls-auto-publish.ts, chat-mls-core client/index.ts).
THEOREM AccountsAreApart == AccountsSpec => []OneAccountAtATime
<1>1. AccountDbSpec => []DatabaseInv
  BY DatabaseStarts, DatabaseStep, PTL DEF AccountDbSpec
<1>2. EngineLoopSpec => []EngineInv
  BY EngineStarts, EngineStep, PTL DEF EngineLoopSpec
<1>3. DatabaseInv /\ EngineInv => OneAccountAtATime
  BY DatabaseHolds, EngineHolds DEF OneAccountAtATime
<1> QED BY <1>1, <1>2, <1>3, PTL DEF AccountsSpec


-----------------------------------------------------------------------------
(***************************************************************************)
(* The registration with the server.  doneFor is written before the work   *)
(* is done and taken back when it fails, so what it says is true already,  *)
(* or a call that will make it true or take it back is under way.          *)
(***************************************************************************)

Somebody == People \cup {NoPerson}
RegisterCall ==
  [pc : {"none", "token", "ready", "sent", "ok", "failed"}, user : Somebody, as : Somebody]

PushTokensTypes ==
  /\ bearer \in Somebody /\ signed \in Somebody /\ owner \in Somebody
  /\ doneFor \in [Kinds -> Somebody]
  /\ attempt \in [Attempts -> RegisterCall]
  /\ rows \subseteq People /\ deleted \subseteq People /\ late \in BOOLEAN

\* A call of this kind for that account has yet to be served, or to report its failure.
Undecided(calls, kind, who) ==
  \E t \in Attempts : /\ t[1] = kind /\ calls[t].user = who
                      /\ calls[t].pc \in {"ready", "sent", "failed"}

PushTokensInv ==
  /\ PushTokensTypes
  /\ bearer \notin deleted
  /\ ~late =>
       /\ doneFor["publish"] # NoPerson =>
            \/ doneFor["publish"] \in rows \cup deleted
            \/ Undecided(attempt, "publish", doneFor["publish"])
       /\ doneFor["register"] # NoPerson =>
            \/ owner = doneFor["register"] \/ doneFor["register"] \in deleted
            \/ Undecided(attempt, "register", doneFor["register"])

\* A call that goes on is a call still, for the same account.
LEMMA CallGoesOn ==
  ASSUME NEW c \in RegisterCall, NEW who \in Somebody
  PROVE  /\ LET r == [c EXCEPT !.pc = "ready"] IN r \in RegisterCall /\ r.pc = "ready" /\ r.user = c.user
         /\ LET r == [c EXCEPT !.pc = "ok"] IN r \in RegisterCall /\ r.pc = "ok" /\ r.user = c.user
         /\ LET r == [c EXCEPT !.pc = "failed"] IN r \in RegisterCall /\ r.pc = "failed" /\ r.user = c.user
         /\ [pc |-> "token", user |-> who, as |-> NoPerson] \in RegisterCall
BY DEF RegisterCall, Somebody

LEMMA NoAttemptIsACall == NoAttempt \in RegisterCall /\ NoAttempt.pc = "none"
BY DEF RegisterCall, NoAttempt, Somebody

LEMMA PushTokensStart == PushTokensInit => PushTokensInv
<1> SUFFICES ASSUME PushTokensInit PROVE PushTokensInv
  OBVIOUS
<1>1. doneFor \in [Kinds -> Somebody] /\ doneFor["publish"] = NoPerson /\ doneFor["register"] = NoPerson
  BY DEF PushTokensInit, Kinds, Somebody
<1>2. attempt \in [Attempts -> RegisterCall]
  BY NoAttemptIsACall DEF PushTokensInit
<1>3. bearer \in Somebody /\ signed \in Somebody /\ owner \in Somebody
  BY DEF PushTokensInit, Somebody
<1> QED BY <1>1, <1>2, <1>3 DEF PushTokensInit, PushTokensInv, PushTokensTypes

\* One call goes on to c, the others stay.
LEMMA CallsAre ==
  ASSUME PushTokensInv, NEW t \in Attempts, NEW c \in RegisterCall,
         attempt' = [attempt EXCEPT ![t] = c]
  PROVE  /\ attempt' \in [Attempts -> RegisterCall] /\ attempt'[t] = c
         /\ \A o \in Attempts \ {t} : attempt'[o] = attempt[o]
         /\ t[1] \in Kinds /\ attempt[t] \in RegisterCall
         /\ doneFor["publish"] \in Somebody /\ doneFor["register"] \in Somebody
BY PushTokensAssumption DEF PushTokensInv, PushTokensTypes, Kinds

\* Signing in, deleting the account and the subscribers of the store
LEMMA SignInKeeps ==
  ASSUME PushTokensInv, NEW u \in People, SignInAnswered(u) PROVE PushTokensInv'
BY DEF PushTokensInv, PushTokensTypes, SignInAnswered, Undecided, Somebody

LEMMA DeleteAccountKeeps == ASSUME PushTokensInv, DeleteAccount PROVE PushTokensInv'
<1>1. /\ bearer # NoPerson /\ bearer \in People /\ bearer' = NoPerson
      /\ deleted' = deleted \cup {bearer} /\ rows' = rows \ {bearer}
      /\ owner' = IF owner = bearer THEN NoPerson ELSE owner
      /\ UNCHANGED <<signed, doneFor, attempt, late>>
  BY DEF DeleteAccount, PushTokensInv, PushTokensTypes, Somebody
<1>2. PushTokensTypes'
  BY <1>1 DEF PushTokensInv, PushTokensTypes, Somebody
<1>3. bearer' \notin deleted'
  BY <1>1, PushTokensAssumption DEF PushTokensInv, PushTokensTypes
<1>4. \A kind, who : Undecided(attempt, kind, who) => Undecided(attempt', kind, who)
  BY <1>1 DEF Undecided
<1> QED BY <1>1, <1>2, <1>3, <1>4 DEF PushTokensInv

LEMMA SubscribersKeep ==
  ASSUME PushTokensInv, SetSession \/ StoreChanges PROVE PushTokensInv'
<1>1. Subscribers /\ signed' \in Somebody /\ UNCHANGED <<bearer, doneFor, rows, owner, deleted, late>>
  BY DEF SetSession, StoreChanges, PushTokensInv, PushTokensTypes
<1>2. \A t \in Attempts :
        \/ attempt'[t] = attempt[t]
        \/ /\ attempt[t].pc = "none"
           /\ attempt'[t] = [pc |-> "token", user |-> signed', as |-> NoPerson]
  BY <1>1 DEF Subscribers, Free
<1>3. attempt' \in [Attempts -> RegisterCall]
  <2>1. [pc |-> "token", user |-> signed', as |-> NoPerson] \in RegisterCall
    BY <1>1 DEF RegisterCall, Somebody
  <2>2. \A t \in Attempts : attempt'[t] \in RegisterCall
    BY <1>2, <2>1 DEF PushTokensInv, PushTokensTypes
  <2> QED BY <1>1, <2>2 DEF Subscribers
<1>4. \A kind, who : Undecided(attempt, kind, who) => Undecided(attempt', kind, who)
  BY <1>2 DEF Undecided
<1> QED BY <1>1, <1>3, <1>4 DEF PushTokensInv, PushTokensTypes

\* The steps of a call
LEMMA TokenReadKeeps ==
  ASSUME PushTokensInv, NEW t \in Attempts, TokenRead(t) PROVE PushTokensInv'
<1>1. /\ attempt[t].pc = "token" /\ attempt[t] \in RegisterCall
      /\ UNCHANGED <<bearer, signed, rows, owner, deleted, late>>
  BY DEF TokenRead, PushTokensInv, PushTokensTypes
<1>2. PICK c \in RegisterCall :
        /\ attempt' = [attempt EXCEPT ![t] = c]
        /\ \/ c.pc = "none" /\ doneFor' = doneFor
           \/ /\ c.pc = "ready" /\ c.user = attempt[t].user
              /\ doneFor' = [doneFor EXCEPT ![t[1]] = attempt[t].user]
  <2>1. CASE bearer = NoPerson
    BY <2>1, NoAttemptIsACall DEF TokenRead, Becomes
  <2>2. CASE bearer # NoPerson
    <3> DEFINE r == [attempt[t] EXCEPT !.pc = "ready"]
    <3>1. r \in RegisterCall /\ r.pc = "ready" /\ r.user = attempt[t].user
      BY <1>1, CallGoesOn DEF Somebody
    <3>2. attempt' = [attempt EXCEPT ![t] = r] /\ doneFor' = [doneFor EXCEPT ![t[1]] = attempt[t].user]
      BY <2>2 DEF TokenRead, Becomes
    <3> HIDE DEF r
    <3> QED BY <3>1, <3>2
  <2> QED BY <2>1, <2>2
<1>3. /\ attempt' \in [Attempts -> RegisterCall] /\ attempt'[t] = c
      /\ \A o \in Attempts \ {t} : attempt'[o] = attempt[o]
      /\ t[1] \in Kinds /\ attempt[t].user \in Somebody
  BY <1>1, <1>2, CallsAre DEF RegisterCall
<1>4. doneFor' \in [Kinds -> Somebody]
  BY <1>2, <1>3 DEF PushTokensInv, PushTokensTypes
<1>5. \A kind, who : Undecided(attempt, kind, who) => Undecided(attempt', kind, who)
  BY <1>1, <1>3 DEF Undecided
<1>6. c.pc = "ready" => Undecided(attempt', t[1], attempt[t].user)
  BY <1>2, <1>3 DEF Undecided
<1>7. \A k \in Kinds : doneFor'[k] = doneFor[k] \/ Undecided(attempt', k, doneFor'[k])
  BY <1>2, <1>3, <1>6 DEF PushTokensInv, PushTokensTypes
<1>8. "publish" \in Kinds /\ "register" \in Kinds
  BY DEF Kinds
<1> QED BY <1>1, <1>3, <1>4, <1>5, <1>7, <1>8 DEF PushTokensInv, PushTokensTypes

LEMMA RequestsKeeps ==
  ASSUME PushTokensInv, NEW t \in Attempts, Requests(t) \/ Refused(t) PROVE PushTokensInv'
<1>1. /\ UNCHANGED <<bearer, signed, doneFor, rows, owner, deleted, late>>
      /\ attempt[t] \in RegisterCall /\ bearer \in Somebody
  BY DEF Requests, Refused, PushTokensInv, PushTokensTypes
<1>2. PICK c \in RegisterCall :
        /\ attempt' = [attempt EXCEPT ![t] = c]
        /\ c.pc \in {"sent", "failed"} /\ c.user = attempt[t].user
  <2> DEFINE r == [attempt[t] EXCEPT !.pc = "sent", !.as = bearer]
             f == [attempt[t] EXCEPT !.pc = "failed"]
  <2>1. r \in RegisterCall /\ r.pc = "sent" /\ r.user = attempt[t].user
    BY <1>1 DEF RegisterCall
  <2>3. f \in RegisterCall /\ f.pc = "failed" /\ f.user = attempt[t].user
    BY <1>1, CallGoesOn
  <2>2. attempt' = [attempt EXCEPT ![t] = r] \/ attempt' = [attempt EXCEPT ![t] = f]
    BY DEF Requests, Refused, Becomes
  <2> HIDE DEF r, f
  <2> QED BY <2>1, <2>2, <2>3
<1>3. /\ attempt' \in [Attempts -> RegisterCall] /\ attempt'[t] = c
      /\ \A o \in Attempts \ {t} : attempt'[o] = attempt[o]
  BY <1>2, CallsAre
<1>4. \A kind, who : Undecided(attempt, kind, who) => Undecided(attempt', kind, who)
  BY <1>1, <1>2, <1>3 DEF Undecided
<1> QED BY <1>1, <1>3, <1>4 DEF PushTokensInv, PushTokensTypes

LEMMA ServePublishKeeps ==
  ASSUME PushTokensInv, NEW t \in Attempts, ServePublish(t) PROVE PushTokensInv'
<1>1. /\ attempt[t] \in RegisterCall /\ attempt[t].pc = "sent" /\ t[1] = "publish"
      /\ rows' = IF Exists(attempt[t].as) THEN rows \cup {attempt[t].as} ELSE rows
      /\ late' = (late \/ (Exists(attempt[t].as) /\ attempt[t].as # attempt[t].user))
      /\ UNCHANGED <<bearer, signed, doneFor, owner, deleted>>
  BY DEF ServePublish, PushTokensInv, PushTokensTypes
<1>2. PICK c \in RegisterCall :
        /\ attempt' = [attempt EXCEPT ![t] = c] /\ c.user = attempt[t].user
        /\ c.pc = (IF Exists(attempt[t].as) THEN "ok" ELSE "failed")
  <2> DEFINE r == [attempt[t] EXCEPT !.pc = "ok"]
             f == [attempt[t] EXCEPT !.pc = "failed"]
  <2>1. /\ r \in RegisterCall /\ r.pc = "ok" /\ r.user = attempt[t].user
        /\ f \in RegisterCall /\ f.pc = "failed" /\ f.user = attempt[t].user
    BY <1>1, CallGoesOn DEF Somebody
  <2>2. IF Exists(attempt[t].as) THEN attempt' = [attempt EXCEPT ![t] = r]
                              ELSE attempt' = [attempt EXCEPT ![t] = f]
    BY DEF ServePublish, Becomes
  <2> HIDE DEF r, f
  <2> QED BY <2>1, <2>2
<1>3. /\ attempt' \in [Attempts -> RegisterCall] /\ attempt'[t] = c
      /\ \A o \in Attempts \ {t} : attempt'[o] = attempt[o]
  BY <1>2, CallsAre
<1>4. PushTokensTypes'
  BY <1>1, <1>3 DEF PushTokensInv, PushTokensTypes, RegisterCall, Exists, Somebody
<1>5. \A who : Undecided(attempt, "register", who) => Undecided(attempt', "register", who)
  BY <1>1, <1>3 DEF Undecided
<1>6. \A who : Undecided(attempt, "publish", who) =>
        Undecided(attempt', "publish", who) \/ (c.pc = "ok" /\ attempt[t].user = who)
  BY <1>1, <1>2, <1>3 DEF Undecided
<1>7. ~late' /\ c.pc = "ok" => attempt[t].user \in rows'
  BY <1>1, <1>2
<1> QED BY <1>1, <1>4, <1>5, <1>6, <1>7 DEF PushTokensInv

LEMMA ServeRegisterKeeps ==
  ASSUME PushTokensInv, NEW t \in Attempts, ServeRegister(t) PROVE PushTokensInv'
<1> DEFINE who == attempt[t].as
<1>1. /\ attempt[t] \in RegisterCall /\ attempt[t].pc = "sent" /\ t[1] = "register"
      /\ owner' = IF Exists(who) /\ who \in rows THEN who ELSE owner
      /\ late' = (late \/ (Exists(who) /\
           (who # attempt[t].user \/ doneFor["register"] \notin {NoPerson, who})))
      /\ UNCHANGED <<bearer, signed, doneFor, rows, deleted>>
  BY DEF ServeRegister, PushTokensInv, PushTokensTypes
<1>2. PICK c \in RegisterCall :
        /\ attempt' = [attempt EXCEPT ![t] = c] /\ c.user = attempt[t].user
        /\ c.pc = (IF Exists(who) /\ who \in rows THEN "ok" ELSE "failed")
  <2> DEFINE r == [attempt[t] EXCEPT !.pc = "ok"]
             f == [attempt[t] EXCEPT !.pc = "failed"]
  <2>1. /\ r \in RegisterCall /\ r.pc = "ok" /\ r.user = attempt[t].user
        /\ f \in RegisterCall /\ f.pc = "failed" /\ f.user = attempt[t].user
    BY <1>1, CallGoesOn DEF Somebody
  <2>2. IF Exists(who) /\ who \in rows THEN attempt' = [attempt EXCEPT ![t] = r]
                              ELSE attempt' = [attempt EXCEPT ![t] = f]
    BY DEF ServeRegister, Becomes, Bound
  <2> HIDE DEF r, f
  <2> QED BY <2>1, <2>2
<1>3. /\ attempt' \in [Attempts -> RegisterCall] /\ attempt'[t] = c
      /\ \A o \in Attempts \ {t} : attempt'[o] = attempt[o]
  BY <1>2, CallsAre
<1>4. PushTokensTypes'
  BY <1>1, <1>3 DEF PushTokensInv, PushTokensTypes, RegisterCall, Exists, Somebody
<1>5. \A w : Undecided(attempt, "publish", w) => Undecided(attempt', "publish", w)
  BY <1>1, <1>3 DEF Undecided
<1>6. \A w : Undecided(attempt, "register", w) =>
        Undecided(attempt', "register", w) \/ (c.pc = "ok" /\ attempt[t].user = w)
  BY <1>1, <1>2, <1>3 DEF Undecided
<1>7. ~late' => /\ c.pc = "ok" => owner' = attempt[t].user
                /\ owner' = owner \/ doneFor["register"] \in {NoPerson, owner'}
  BY <1>1, <1>2
<1> QED BY <1>1, <1>4, <1>5, <1>6, <1>7 DEF PushTokensInv

LEMMA AnsweredKeeps ==
  ASSUME PushTokensInv, NEW t \in Attempts, Answered(t) PROVE PushTokensInv'
<1>1. /\ attempt[t] \in RegisterCall /\ attempt[t].pc \in {"ok", "failed"}
      /\ attempt' = [attempt EXCEPT ![t] = NoAttempt] /\ NoAttempt \in RegisterCall
      /\ doneFor' = IF attempt[t].pc = "failed" THEN [doneFor EXCEPT ![t[1]] = NoPerson] ELSE doneFor
      /\ UNCHANGED <<bearer, signed, rows, owner, deleted, late>>
  BY NoAttemptIsACall DEF Answered, Becomes, PushTokensInv, PushTokensTypes
<1>2. /\ attempt' \in [Attempts -> RegisterCall] /\ attempt'[t] = NoAttempt
      /\ \A o \in Attempts \ {t} : attempt'[o] = attempt[o]
      /\ t[1] \in Kinds
  BY <1>1, CallsAre
<1>3. PushTokensTypes'
  BY <1>1, <1>2 DEF PushTokensInv, PushTokensTypes, Somebody
<1>4. \A kind, who : Undecided(attempt, kind, who) =>
        Undecided(attempt', kind, who) \/ (attempt[t].pc = "failed" /\ t[1] = kind)
  BY <1>1, <1>2 DEF Undecided
<1>5. \A k \in Kinds : \/ doneFor'[k] = doneFor[k] /\ ~(attempt[t].pc = "failed" /\ t[1] = k)
                       \/ doneFor'[k] = NoPerson
  BY <1>1, <1>2 DEF PushTokensInv, PushTokensTypes
<1>6. "publish" \in Kinds /\ "register" \in Kinds
  BY DEF Kinds
<1>7. \A k \in Kinds : doneFor'[k] # NoPerson =>
        /\ doneFor'[k] = doneFor[k]
        /\ Undecided(attempt, k, doneFor[k]) => Undecided(attempt', k, doneFor[k])
  BY <1>4, <1>5
<1>8. /\ late' = late /\ rows' = rows /\ owner' = owner /\ deleted' = deleted
      /\ bearer' \notin deleted'
  BY <1>1 DEF PushTokensInv
<1>9. ~late /\ doneFor'["publish"] # NoPerson =>
        \/ doneFor'["publish"] \in rows \cup deleted
        \/ Undecided(attempt', "publish", doneFor'["publish"])
  BY <1>6, <1>7 DEF PushTokensInv
<1>10. ~late /\ doneFor'["register"] # NoPerson =>
        \/ owner = doneFor'["register"] \/ doneFor'["register"] \in deleted
        \/ Undecided(attempt', "register", doneFor'["register"])
  BY <1>6, <1>7 DEF PushTokensInv
<1> QED BY <1>3, <1>8, <1>9, <1>10 DEF PushTokensInv

\* What the app remembers of its device row and its push token is so on the server
\* (auto-publish.ts:15-31, push-auto-register.ts:10-24).
THEOREM RegisteredHolds == PushTokensSpec => [](PushTokensInv /\ RegisteredIsBound)
<1>1. PushTokensInit => PushTokensInv
  BY PushTokensStart
<1>2. PushTokensInv /\ [PushTokensNext]_pushTokenVars => PushTokensInv'
  <2>1. CASE UNCHANGED pushTokenVars
    BY <2>1 DEF pushTokenVars, PushTokensInv, PushTokensTypes, Undecided
  <2> QED BY <2>1, SignInKeeps, DeleteAccountKeeps, SubscribersKeep, TokenReadKeeps, RequestsKeeps,
             ServePublishKeeps, ServeRegisterKeeps, AnsweredKeeps DEF PushTokensNext
<1>3. PushTokensInv => RegisteredIsBound
  BY DEF PushTokensInv, RegisteredIsBound, Settled, Undecided
<1> QED BY <1>1, <1>2, <1>3, PTL DEF PushTokensSpec

LEMMA PushTokensTypesHold == PushTokensSpec => []PushTokensTypeOK
<1>1. PushTokensInv => PushTokensTypeOK
  <2> SUFFICES ASSUME PushTokensTypes PROVE PushTokensTypeOK
    BY DEF PushTokensInv
  <2>1. \A k \in Kinds : doneFor[k] \in Somebody
    BY DEF PushTokensTypes
  <2>2. attempt \in [Attempts -> RegisterCall] /\ DOMAIN doneFor = Kinds
    BY DEF PushTokensTypes
  <2>3. {bearer, signed, owner} \cup {doneFor[k] : k \in Kinds} \subseteq Somebody
    BY <2>1 DEF PushTokensTypes
  <2> QED BY <2>2, <2>3 DEF PushTokensTypes, PushTokensTypeOK, RegisterCall, Somebody
<1> QED BY <1>1, RegisteredHolds, PTL

(***************************************************************************)
(* The identity of the device.  Everything hangs on there being one        *)
(* resolution at a time: it is the shared one, no clear is under way, and  *)
(* an id it has drawn is in no row and in no request.                      *)
(***************************************************************************)

Resolution == [pc : {"off", "reading", "writing", "seeding", "done"}, id : Nat, seed : Nat]
StoredSeed == [seed : Nat, key : Nat]

IdentityTypes ==
  /\ platform \in {"ios", "android"} /\ deviceId \in Nat /\ wrapping \in Nat
  /\ seedPrefs \in StoredSeed /\ seedFile \in StoredSeed
  /\ shared \in Runs \cup {0} /\ run \in [Runs -> Resolution]
  /\ clearing \in {"no", "deleting", "seed"} /\ drawn \in [ids : Nat, seeds : Nat, keys : Nat]

\* The stored seed is wrapped with the key that is there.
ReadableInv ==
  /\ platform = "ios" => seedFile = seedPrefs /\ wrapping = 0 /\ seedPrefs.key = 0
  /\ platform = "android" /\ ~tornEdit /\ seedPrefs # NoSeed =>
       wrapping # 0 /\ seedPrefs.key = wrapping

\* One resolution at a time, and none during a clear.
ResolvesInv ==
  /\ \A r \in Runs : Running(r) => shared = r /\ clearing = "no"
  /\ \A r \in Runs : run[r].pc = "seeding" => run[r].id = deviceId /\ deviceId # 0
  /\ clearing # "no" => shared = 0 /\ given = {}
  /\ clearing = "seed" => deviceId = 0

\* Whoever was given an identity was given the stored one.
GivenInv ==
  /\ \A i \in given :
       deviceId # 0 /\ seedPrefs # NoSeed /\ i = [id |-> deviceId, seed |-> seedPrefs.seed]
  /\ shared # 0 /\ run[shared].pc = "done" =>
       [id |-> run[shared].id, seed |-> run[shared].seed] \in given

\* An id that is being written is a new one.
IdsInv ==
  /\ deviceId <= drawn.ids
  /\ \A p \in posts : p.id \in 1 .. drawn.ids
  /\ DOMAIN directory \subseteq 1 .. drawn.ids
  /\ \A r \in Runs : run[r].pc = "writing" =>
       /\ deviceId = 0 /\ run[r].id = drawn.ids /\ drawn.ids # 0
       /\ drawn.ids \notin DOMAIN directory /\ \A p \in posts : p.id # drawn.ids

\* The row of the present id, and a request for it, have the keys of the present seed.
PublishedInv ==
  /\ \A p \in posts :
       p.id = deviceId => seedPrefs # NoSeed /\ p.keys = PublicKeys(seedPrefs.seed)
  /\ deviceId \in DOMAIN directory =>
       seedPrefs # NoSeed /\ directory[deviceId] = PublicKeys(seedPrefs.seed)

IdentityInv ==
  /\ IdentityTypes /\ ReadableInv
  /\ ~mingled => ResolvesInv /\ GivenInv /\ IdsInv /\ (~tornEdit => PublishedInv)

LEMMA OffIsAResolution == Off \in Resolution /\ Off.pc = "off"
BY DEF Off, Resolution

LEMMA IdentityStarts == IdentityInit => IdentityInv
<1> SUFFICES ASSUME IdentityInit PROVE IdentityInv
  OBVIOUS
<1>1. run \in [Runs -> Resolution] /\ \A r \in Runs : run[r].pc = "off"
  BY OffIsAResolution DEF IdentityInit
<1>2. NoSeed \in StoredSeed /\ NoSeed.key = 0 /\ drawn \in [ids : Nat, seeds : Nat, keys : Nat]
      /\ drawn.ids = 0
  BY DEF NoSeed, StoredSeed, IdentityInit, Fresh
<1>3. IdentityTypes /\ ReadableInv
  BY <1>1, <1>2 DEF IdentityInit, IdentityTypes, ReadableInv
<1>4. DOMAIN directory = {}
  BY DEF IdentityInit
<1>5. ResolvesInv /\ GivenInv /\ IdsInv /\ PublishedInv
  BY <1>1, <1>2, <1>4, IdentityAssumption
     DEF IdentityInit, ResolvesInv, GivenInv, IdsInv, PublishedInv, Running
<1> QED BY <1>3, <1>5 DEF IdentityInv

\* One resolution goes on, the others stay.
LEMMA RunsAre ==
  ASSUME IdentityInv, NEW r \in Runs, NEW now \in Resolution, RunIs(r, now)
  PROVE  /\ run' \in [Runs -> Resolution] /\ run'[r] = now
         /\ \A q \in Runs \ {r} : run'[q] = run[q]
BY DEF RunIs, IdentityInv, IdentityTypes

\* A resolution that runs is the only one.
LEMMA OneRuns ==
  ASSUME IdentityInv, ~mingled, NEW r \in Runs, Running(r)
  PROVE  /\ shared = r /\ shared # 0 /\ clearing = "no"
         /\ \A q \in Runs \ {r} : ~Running(q)
BY IdentityAssumption DEF IdentityInv, ResolvesInv

LEMMA AskKeeps ==
  ASSUME IdentityInv, NEW r \in Runs, Ask(r) PROVE IdentityInv'
<1>1. /\ shared = 0 /\ shared' = r /\ mingled' = (mingled \/ clearing # "no")
      /\ UNCHANGED <<platform, onDevice, given, listing, drawn, clearing, tornEdit>>
  BY DEF Ask, Alone
<1>2. PICK now \in Resolution : RunIs(r, now) /\ now.pc = "reading"
  <2>1. [Off EXCEPT !.pc = "reading"] \in Resolution /\ [Off EXCEPT !.pc = "reading"].pc = "reading"
    BY DEF Off, Resolution
  <2> QED BY <2>1 DEF Ask
<1>3. /\ run' \in [Runs -> Resolution] /\ run'[r].pc = "reading"
      /\ \A q \in Runs \ {r} : run'[q] = run[q]
  BY <1>2, RunsAre
<1>4. IdentityTypes' /\ ReadableInv'
  BY <1>1, <1>3 DEF IdentityInv, IdentityTypes, ReadableInv, onDevice
<1> SUFFICES ASSUME ~mingled'
             PROVE  ResolvesInv' /\ GivenInv' /\ IdsInv' /\ (~tornEdit' => PublishedInv')
  BY <1>4 DEF IdentityInv
<1>5. ~mingled /\ clearing = "no"
  BY <1>1
<1>6. \A q \in Runs : ~Running(q)
  BY <1>1, <1>5, IdentityAssumption DEF IdentityInv, ResolvesInv
<1>7. ResolvesInv'
  BY <1>1, <1>3, <1>5, <1>6 DEF IdentityInv, ResolvesInv, Running, onDevice
<1>8. GivenInv' /\ IdsInv'
  BY <1>1, <1>3, <1>5, <1>6 DEF IdentityInv, GivenInv, IdsInv, Running, onDevice, listing
<1> QED BY <1>1, <1>5, <1>7, <1>8 DEF IdentityInv, PublishedInv, onDevice, listing

LEMMA ReadIdKeeps ==
  ASSUME IdentityInv, NEW r \in Runs, ReadId(r) PROVE IdentityInv'
<1>1. /\ run[r].pc = "reading" /\ run[r] \in Resolution /\ deviceId \in Nat /\ drawn.ids \in Nat
      /\ UNCHANGED <<platform, onDevice, shared, given, listing, clearing, mingled, tornEdit>>
      /\ IF deviceId # 0
         THEN RunIs(r, [run[r] EXCEPT !.pc = "seeding", !.id = deviceId]) /\ UNCHANGED drawn
         ELSE /\ drawn' = [drawn EXCEPT !.ids = @ + 1]
              /\ RunIs(r, [run[r] EXCEPT !.pc = "writing", !.id = drawn.ids + 1])
  BY DEF ReadId, IdentityInv, IdentityTypes
<1>2. drawn' \in [ids : Nat, seeds : Nat, keys : Nat] /\ drawn'.ids \in {drawn.ids, drawn.ids + 1}
      /\ (deviceId = 0 => drawn'.ids = drawn.ids + 1)
  BY <1>1 DEF IdentityInv, IdentityTypes
<1>3. PICK now \in Resolution :
        /\ RunIs(r, now)
        /\ deviceId # 0 => now.pc = "seeding" /\ now.id = deviceId
        /\ deviceId = 0 => now.pc = "writing" /\ now.id = drawn'.ids
  <2>1. CASE deviceId # 0
    <3> DEFINE n == [run[r] EXCEPT !.pc = "seeding", !.id = deviceId]
    <3>1. n \in Resolution /\ n.pc = "seeding" /\ n.id = deviceId
      BY <1>1 DEF Resolution
    <3>2. RunIs(r, n)
      BY <1>1, <2>1
    <3> HIDE DEF n
    <3> QED BY <2>1, <3>1, <3>2
  <2>2. CASE deviceId = 0
    <3> DEFINE new == drawn.ids + 1
               n == [run[r] EXCEPT !.pc = "writing", !.id = new]
    <3>1. new \in Nat /\ run[r] \in Resolution
      BY <1>1
    <3>2. RunIs(r, n) /\ drawn'.ids = new
      BY <1>1, <1>2, <2>2
    <3> HIDE DEF new
    <3>3. n \in Resolution /\ n.pc = "writing" /\ n.id = new
      BY <3>1 DEF Resolution
    <3> HIDE DEF n
    <3> QED BY <2>2, <3>2, <3>3
  <2> QED BY <2>1, <2>2
<1>4. /\ run' \in [Runs -> Resolution] /\ run'[r] = now
      /\ \A q \in Runs \ {r} : run'[q] = run[q]
  BY <1>3, RunsAre
<1>5. IdentityTypes' /\ ReadableInv'
  BY <1>1, <1>2, <1>4 DEF IdentityInv, IdentityTypes, ReadableInv, onDevice
<1> SUFFICES ASSUME ~mingled'
             PROVE  ResolvesInv' /\ GivenInv' /\ IdsInv' /\ (~tornEdit' => PublishedInv')
  BY <1>5 DEF IdentityInv
<1>6. ~mingled /\ shared = r /\ clearing = "no" /\ \A q \in Runs \ {r} : ~Running(q)
  BY <1>1, OneRuns DEF Running
<1>7. ResolvesInv'
  BY <1>1, <1>3, <1>4, <1>6 DEF IdentityInv, ResolvesInv, Running, onDevice
<1>8. GivenInv'
  BY <1>1, <1>3, <1>4, <1>6 DEF IdentityInv, GivenInv, onDevice
<1>9. IdsInv'
  <2>1. deviceId' = deviceId /\ posts' = posts /\ directory' = directory
    BY <1>1 DEF onDevice, listing
  <2>2. deviceId' <= drawn'.ids /\ (\A p \in posts' : p.id \in 1 .. drawn'.ids)
        /\ DOMAIN directory' \subseteq 1 .. drawn'.ids
    BY <1>1, <1>2, <1>6, <2>1 DEF IdentityInv, IdsInv
  <2>3. \A q \in Runs : run'[q].pc = "writing" =>
           q = r /\ deviceId = 0 /\ run'[q].id = drawn'.ids
    BY <1>3, <1>4, <1>6 DEF Running
  <2>4. deviceId = 0 => /\ drawn'.ids # 0 /\ drawn'.ids \notin DOMAIN directory
                        /\ \A p \in posts : p.id # drawn'.ids
    BY <1>1, <1>2, <1>6 DEF IdentityInv, IdsInv
  <2> QED BY <2>1, <2>2, <2>3, <2>4 DEF IdsInv
<1> QED BY <1>1, <1>6, <1>7, <1>8, <1>9 DEF IdentityInv, PublishedInv, onDevice, listing

LEMMA WriteIdKeeps ==
  ASSUME IdentityInv, NEW r \in Runs, WriteId(r) PROVE IdentityInv'
<1>1. /\ run[r].pc = "writing" /\ run[r] \in Resolution /\ deviceId' = run[r].id
      /\ RunIs(r, [run[r] EXCEPT !.pc = "seeding"])
      /\ UNCHANGED <<platform, seedPrefs, seedFile, wrapping, shared, given, listing, drawn,
                     clearing, mingled, tornEdit>>
  BY DEF WriteId, IdentityInv, IdentityTypes
<1>2. PICK now \in Resolution : RunIs(r, now) /\ now.pc = "seeding" /\ now.id = run[r].id
  <2> DEFINE n == [run[r] EXCEPT !.pc = "seeding"]
  <2>1. n \in Resolution /\ n.pc = "seeding" /\ n.id = run[r].id
    BY <1>1 DEF Resolution
  <2>2. RunIs(r, n)
    BY <1>1
  <2> HIDE DEF n
  <2> QED BY <2>1, <2>2
<1>3. /\ run' \in [Runs -> Resolution] /\ run'[r] = now
      /\ \A q \in Runs \ {r} : run'[q] = run[q]
  BY <1>2, RunsAre
<1>4. IdentityTypes' /\ ReadableInv'
  <2>1. deviceId' \in Nat
    BY <1>1 DEF Resolution
  <2> QED BY <1>1, <1>3, <2>1 DEF IdentityInv, IdentityTypes, ReadableInv
<1> SUFFICES ASSUME ~mingled'
             PROVE  ResolvesInv' /\ GivenInv' /\ IdsInv' /\ (~tornEdit' => PublishedInv')
  BY <1>4 DEF IdentityInv
<1>5. ~mingled /\ shared = r /\ clearing = "no" /\ \A q \in Runs \ {r} : ~Running(q)
  BY <1>1, OneRuns DEF Running
<1>6. /\ given = {} /\ deviceId' = drawn.ids /\ drawn.ids # 0
      /\ drawn.ids \notin DOMAIN directory /\ \A p \in posts : p.id # drawn.ids
  BY <1>1, <1>5 DEF IdentityInv, GivenInv, IdsInv
<1>7. ResolvesInv'
  BY <1>1, <1>2, <1>3, <1>5, <1>6 DEF IdentityInv, ResolvesInv, Running
<1>8. GivenInv'
  BY <1>1, <1>2, <1>3, <1>5, <1>6 DEF GivenInv
<1>9. IdsInv'
  <2>1. \A q \in Runs : run'[q].pc # "writing"
    BY <1>2, <1>3, <1>5 DEF Running
  <2>2. drawn.ids \in Nat
    BY DEF IdentityInv, IdentityTypes
  <2> QED BY <1>1, <1>5, <1>6, <2>1, <2>2 DEF IdentityInv, IdsInv, listing
<1> QED BY <1>1, <1>6, <1>7, <1>8, <1>9 DEF PublishedInv, listing

\* getOrCreateKeystoreKey()
LEMMA KeyIsThere ==
  ASSUME IdentityInv
  PROVE  /\ KeyOrNew \in Nat
         /\ platform = "ios" => KeyOrNew = 0
         /\ platform = "android" => KeyOrNew # 0
BY DEF IdentityInv, IdentityTypes, KeyOrNew

\* The resolution ends with this seed.
LEMMA RunEndsWith ==
  ASSUME IdentityInv, NEW r \in Runs, NEW seed \in Nat, RunEnds(r, seed)
  PROVE  /\ run' \in [Runs -> Resolution] /\ run'[r].pc \in {"done", "off"}
         /\ run'[r].pc = "done" => run'[r].id = run[r].id /\ run'[r].seed = seed
         /\ \A q \in Runs \ {r} : run'[q] = run[q]
         /\ given' = given \cup {[id |-> run[r].id, seed |-> seed]}
<1>1. run[r] \in Resolution
  BY DEF IdentityInv, IdentityTypes
<1> DEFINE done == [pc |-> "done", id |-> run[r].id, seed |-> seed]
<1>2. done \in Resolution /\ done.pc = "done" /\ done.id = run[r].id /\ done.seed = seed
  BY <1>1 DEF Resolution
<1>3. RunIs(r, IF shared = r THEN done ELSE Off) /\ given' = given \cup {[id |-> run[r].id, seed |-> seed]}
  BY DEF RunEnds
<1> HIDE DEF done
<1>4. CASE shared = r
  <2>1. RunIs(r, done)
    BY <1>3, <1>4
  <2> QED BY <1>2, <1>3, <2>1, RunsAre
<1>5. CASE shared # r
  <2>1. RunIs(r, Off)
    BY <1>3, <1>5
  <2> QED BY <1>3, <2>1, RunsAre, OffIsAResolution
<1> QED BY <1>4, <1>5

LEMMA LoadSeedKeeps ==
  ASSUME IdentityInv, NEW r \in Runs, Seed(r), LoadSeed(r) PROVE IdentityInv'
<1>1. /\ run[r].pc = "seeding" /\ seedPrefs # NoSeed /\ RunEnds(r, seedPrefs.seed)
      /\ seedPrefs.seed \in Nat
      /\ UNCHANGED <<platform, onDevice, shared, drawn, listing, clearing, mingled, tornEdit>>
  BY DEF Seed, LoadSeed, IdentityInv, IdentityTypes, StoredSeed
<1>2. /\ run' \in [Runs -> Resolution] /\ run'[r].pc \in {"done", "off"}
      /\ run'[r].pc = "done" => run'[r].id = run[r].id /\ run'[r].seed = seedPrefs.seed
      /\ \A q \in Runs \ {r} : run'[q] = run[q]
      /\ given' = given \cup {[id |-> run[r].id, seed |-> seedPrefs.seed]}
  BY <1>1, RunEndsWith
<1>3. IdentityTypes' /\ ReadableInv'
  BY <1>1, <1>2 DEF IdentityInv, IdentityTypes, ReadableInv, onDevice
<1> SUFFICES ASSUME ~mingled'
             PROVE  ResolvesInv' /\ GivenInv' /\ IdsInv' /\ (~tornEdit' => PublishedInv')
  BY <1>3 DEF IdentityInv
<1>4. /\ ~mingled /\ shared = r /\ clearing = "no" /\ \A q \in Runs \ {r} : ~Running(q)
      /\ run[r].id = deviceId /\ deviceId # 0
  BY <1>1, OneRuns DEF Running, IdentityInv, ResolvesInv
<1>5. ResolvesInv'
  BY <1>1, <1>2, <1>4 DEF IdentityInv, ResolvesInv, Running, onDevice
<1>6. GivenInv'
  BY <1>1, <1>2, <1>4 DEF IdentityInv, GivenInv, onDevice
<1>7. IdsInv'
  BY <1>1, <1>2, <1>4 DEF IdentityInv, IdsInv, onDevice, listing
<1> QED BY <1>1, <1>4, <1>5, <1>6, <1>7 DEF IdentityInv, PublishedInv, onDevice, listing

LEMMA SaveSeedKeeps ==
  ASSUME IdentityInv, NEW r \in Runs, Seed(r), SaveSeed(r) PROVE IdentityInv'
<1> DEFINE seed == drawn.seeds + 1
           wrapped == [seed |-> seed, key |-> KeyOrNew]
<1>1. /\ run[r].pc = "seeding" /\ seedPrefs = NoSeed /\ RunEnds(r, seed)
      /\ drawn' = [drawn EXCEPT !.seeds = seed, !.keys = IF KeyOrNew > drawn.keys THEN KeyOrNew ELSE @]
      /\ wrapping' = KeyOrNew /\ seedPrefs' = wrapped /\ seedFile' = OnceSaved(wrapped)
      /\ UNCHANGED <<platform, deviceId, shared, listing, clearing, mingled, tornEdit>>
  BY DEF Seed, SaveSeed
<1>2. /\ seed \in Nat /\ seed # 0 /\ drawn \in [ids : Nat, seeds : Nat, keys : Nat]
  BY DEF IdentityInv, IdentityTypes
<1>3. wrapped \in StoredSeed /\ wrapped # NoSeed /\ wrapped.seed = seed /\ wrapped.key = KeyOrNew
  BY <1>2, KeyIsThere DEF StoredSeed, NoSeed
<1>4. drawn' \in [ids : Nat, seeds : Nat, keys : Nat] /\ drawn'.ids = drawn.ids
  BY <1>1, <1>2, KeyIsThere
<1>5. /\ run' \in [Runs -> Resolution] /\ run'[r].pc \in {"done", "off"}
      /\ run'[r].pc = "done" => run'[r].id = run[r].id /\ run'[r].seed = seed
      /\ \A q \in Runs \ {r} : run'[q] = run[q]
      /\ given' = given \cup {[id |-> run[r].id, seed |-> seed]}
  BY <1>1, <1>2, RunEndsWith
<1> HIDE DEF wrapped, seed
<1>6. IdentityTypes'
  BY <1>1, <1>3, <1>4, <1>5, KeyIsThere DEF IdentityInv, IdentityTypes, OnceSaved
<1>7. ReadableInv'
  BY <1>1, <1>3, KeyIsThere DEF IdentityInv, IdentityTypes, ReadableInv, OnceSaved
<1> SUFFICES ASSUME ~mingled'
             PROVE  ResolvesInv' /\ GivenInv' /\ IdsInv' /\ (~tornEdit' => PublishedInv')
  BY <1>6, <1>7 DEF IdentityInv
<1>8. /\ ~mingled /\ shared = r /\ clearing = "no" /\ \A q \in Runs \ {r} : ~Running(q)
      /\ run[r].id = deviceId /\ deviceId # 0 /\ given = {}
  BY <1>1, OneRuns DEF Running, IdentityInv, ResolvesInv, GivenInv
<1>9. ResolvesInv'
  BY <1>1, <1>5, <1>8 DEF IdentityInv, ResolvesInv, Running
<1>10. GivenInv'
  BY <1>1, <1>3, <1>5, <1>8 DEF GivenInv
<1>11. IdsInv'
  BY <1>1, <1>4, <1>5, <1>8 DEF IdentityInv, IdsInv, listing
<1> QED BY <1>1, <1>3, <1>8, <1>9, <1>10, <1>11 DEF IdentityInv, PublishedInv, listing

\* A resolution that fails leaves no shared one.
LEMMA FailedRunKeeps ==
  ASSUME IdentityInv, NEW r \in Runs, Running(r), RunIs(r, Off), shared' = 0,
         drawn' \in [ids : Nat, seeds : Nat, keys : Nat], drawn'.ids = drawn.ids, wrapping' \in Nat,
         ReadableInv',
         UNCHANGED <<platform, deviceId, seedPrefs, seedFile, given, listing, clearing, mingled, tornEdit>>
  PROVE  IdentityInv'
<1>1. /\ run' \in [Runs -> Resolution] /\ run'[r].pc = "off"
      /\ \A q \in Runs \ {r} : run'[q] = run[q]
  BY RunsAre, OffIsAResolution
<1>2. IdentityTypes'
  BY <1>1 DEF IdentityInv, IdentityTypes
<1> SUFFICES ASSUME ~mingled'
             PROVE  ResolvesInv' /\ GivenInv' /\ IdsInv' /\ (~tornEdit' => PublishedInv')
  BY <1>2 DEF IdentityInv
<1>3. ~mingled /\ shared = r /\ clearing = "no" /\ \A q \in Runs \ {r} : ~Running(q)
  BY OneRuns
<1>4. ResolvesInv'
  BY <1>1, <1>3 DEF IdentityInv, ResolvesInv, Running
<1>5. GivenInv' /\ IdsInv'
  BY <1>1, <1>3 DEF IdentityInv, GivenInv, IdsInv, listing
<1> QED BY <1>3, <1>4, <1>5 DEF IdentityInv, PublishedInv, listing

LEMMA UnwrappableKeeps ==
  ASSUME IdentityInv, NEW r \in Runs, Seed(r), Unwrappable(r) PROVE IdentityInv'
<1>1. /\ Running(r) /\ RunIs(r, Off) /\ shared' = 0 /\ seedPrefs # NoSeed /\ ~SeedOpens
      /\ drawn' = [drawn EXCEPT !.keys = IF KeyOrNew > @ THEN KeyOrNew ELSE @]
      /\ wrapping' = KeyOrNew
      /\ UNCHANGED <<platform, deviceId, seedPrefs, seedFile, given, listing, clearing, mingled,
                     tornEdit>>
  BY DEF Seed, Unwrappable, Running
<1>2. drawn' \in [ids : Nat, seeds : Nat, keys : Nat] /\ drawn'.ids = drawn.ids
  BY <1>1, KeyIsThere DEF IdentityInv, IdentityTypes
<1>3. ReadableInv'
  BY <1>1, KeyIsThere DEF IdentityInv, IdentityTypes, ReadableInv, SeedOpens, KeyOrNew
<1> QED BY <1>1, <1>2, <1>3, KeyIsThere, FailedRunKeeps

LEMMA StorageFailsKeeps ==
  ASSUME IdentityInv, NEW r \in Runs, StorageFails(r) PROVE IdentityInv'
<1>1. /\ Running(r) /\ RunIs(r, Off) /\ shared' = 0
      /\ UNCHANGED <<platform, onDevice, given, listing, drawn, clearing, mingled, tornEdit>>
  BY DEF StorageFails
<1>2. /\ ReadableInv' /\ wrapping' \in Nat /\ drawn' \in [ids : Nat, seeds : Nat, keys : Nat]
      /\ drawn'.ids = drawn.ids
  BY <1>1 DEF IdentityInv, IdentityTypes, ReadableInv, onDevice
<1>3. UNCHANGED <<platform, deviceId, seedPrefs, seedFile, given, listing, clearing, mingled, tornEdit>>
  BY <1>1 DEF onDevice
<1> QED BY <1>1, <1>2, <1>3, FailedRunKeeps

LEMMA PublishKeeps == ASSUME IdentityInv, Publish PROVE IdentityInv'
<1> DEFINE p == SignedPost(run[shared].id, run[shared].seed)
<1>1. /\ shared # 0 /\ run[shared].pc = "done" /\ posts' = posts \cup {p}
      /\ UNCHANGED <<platform, onDevice, callers, directory, drawn, clearing, mingled, tornEdit>>
  BY DEF Publish
<1>2. p.id = run[shared].id /\ p.keys = PublicKeys(run[shared].seed)
  BY DEF SignedPost
<1> HIDE DEF p
<1>3. IdentityTypes' /\ ReadableInv'
  BY <1>1 DEF IdentityInv, IdentityTypes, ReadableInv, onDevice, callers
<1> SUFFICES ASSUME ~mingled'
             PROVE  ResolvesInv' /\ GivenInv' /\ IdsInv' /\ (~tornEdit' => PublishedInv')
  BY <1>3 DEF IdentityInv
<1>4. ~mingled /\ shared \in Runs
  BY <1>1 DEF IdentityInv, IdentityTypes
<1>5. deviceId # 0 /\ seedPrefs # NoSeed
      /\ run[shared].id = deviceId /\ run[shared].seed = seedPrefs.seed
  <2>1. [id |-> run[shared].id, seed |-> run[shared].seed] \in given
    BY <1>1, <1>4 DEF IdentityInv, GivenInv
  <2>2. /\ deviceId # 0 /\ seedPrefs # NoSeed
        /\ [id |-> run[shared].id, seed |-> run[shared].seed] = [id |-> deviceId, seed |-> seedPrefs.seed]
    BY <1>4, <2>1 DEF IdentityInv, GivenInv
  <2> QED BY <2>2
<1>6. \A q \in Runs : run[q].pc # "writing"
  BY <1>1, <1>4 DEF IdentityInv, ResolvesInv, Running
<1>7. ResolvesInv' /\ GivenInv'
  BY <1>1, <1>4 DEF IdentityInv, ResolvesInv, GivenInv, Running, onDevice, callers
<1>8. IdsInv'
  <2>1. deviceId \in Nat /\ drawn.ids \in Nat
    BY DEF IdentityInv, IdentityTypes
  <2>2. p.id \in 1 .. drawn.ids
    BY <1>2, <1>4, <1>5, <2>1 DEF IdentityInv, IdsInv
  <2> QED BY <1>1, <1>4, <1>6, <2>2 DEF IdentityInv, IdsInv, onDevice, callers
<1> QED BY <1>1, <1>2, <1>4, <1>5, <1>7, <1>8 DEF IdentityInv, PublishedInv, onDevice

LEMMA AnswerKeeps ==
  ASSUME IdentityInv, NEW p \in posts, Published(p) \/ PublishLost(p) PROVE IdentityInv'
<1>1. /\ posts' = posts \ {p} /\ directory' \in {directory, Put(p)}
      /\ UNCHANGED <<platform, onDevice, callers, drawn, clearing, mingled, tornEdit>>
  BY DEF Published, PublishLost
<1>2. /\ DOMAIN directory' \subseteq DOMAIN directory \cup {p.id}
      /\ \A d \in DOMAIN directory' :
           \/ d \in DOMAIN directory /\ directory'[d] = directory[d]
           \/ d = p.id /\ directory'[d] = p.keys
  BY <1>1 DEF Put
<1>3. IdentityTypes' /\ ReadableInv'
  BY <1>1 DEF IdentityInv, IdentityTypes, ReadableInv, onDevice, callers
<1>4. ~mingled => ResolvesInv' /\ GivenInv'
  BY <1>1 DEF IdentityInv, ResolvesInv, GivenInv, Running, onDevice, callers
<1>5. ~mingled => IdsInv'
  BY <1>1, <1>2 DEF IdentityInv, IdsInv, onDevice, callers
<1>6. ~mingled /\ ~tornEdit => PublishedInv'
  BY <1>1, <1>2 DEF IdentityInv, PublishedInv, onDevice
<1> QED BY <1>1, <1>3, <1>4, <1>5, <1>6 DEF IdentityInv

LEMMA BeginClearKeeps == ASSUME IdentityInv, BeginClear PROVE IdentityInv'
<1>1. /\ shared' = 0 /\ clearing' = "deleting" /\ given' = {}
      /\ mingled' = (mingled \/ \E r \in Runs : Running(r))
      /\ run' = [r \in Runs |-> IF Running(r) THEN run[r] ELSE Off]
      /\ UNCHANGED <<platform, onDevice, listing, drawn, tornEdit>>
  BY DEF BeginClear
<1>2. run' \in [Runs -> Resolution]
  BY <1>1, OffIsAResolution DEF IdentityInv, IdentityTypes
<1>3. IdentityTypes' /\ ReadableInv'
  BY <1>1, <1>2 DEF IdentityInv, IdentityTypes, ReadableInv, onDevice
<1> SUFFICES ASSUME ~mingled'
             PROVE  ResolvesInv' /\ GivenInv' /\ IdsInv' /\ (~tornEdit' => PublishedInv')
  BY <1>3 DEF IdentityInv
<1>4. ~mingled /\ \A r \in Runs : run'[r].pc = "off"
  BY <1>1, OffIsAResolution
<1>5. ResolvesInv' /\ GivenInv' /\ IdsInv'
  BY <1>1, <1>4 DEF IdentityInv, ResolvesInv, GivenInv, IdsInv, Running, onDevice, listing
<1> QED BY <1>1, <1>4, <1>5 DEF IdentityInv, PublishedInv, onDevice, listing

LEMMA ClearKeeps ==
  ASSUME IdentityInv, DeleteId \/ ClearSeed \/ ClearFails PROVE IdentityInv'
<1>1. CASE DeleteId
  <2>1. IdentityTypes' /\ ReadableInv'
    BY <1>1 DEF DeleteId, IdentityInv, IdentityTypes, ReadableInv, callers
  <2>2. ~mingled => ResolvesInv' /\ GivenInv'
    BY <1>1, <2>1 DEF DeleteId, IdentityInv, ResolvesInv, GivenInv, Running, callers
  <2>3. ~mingled => IdsInv'
    BY <1>1 DEF DeleteId, IdentityInv, IdentityTypes, IdsInv, callers, listing
  <2>4. ~mingled => PublishedInv'
    BY <1>1 DEF DeleteId, IdentityInv, IdsInv, PublishedInv, listing
  <2> QED BY <1>1, <2>1, <2>2, <2>3, <2>4 DEF DeleteId, IdentityInv
<1>2. CASE ClearSeed
  <2>1. /\ clearing = "seed" /\ clearing' = "no" /\ seedPrefs' = NoSeed
        /\ seedFile' = OnceCleared /\ wrapping' \in {0, wrapping}
        /\ UNCHANGED <<platform, deviceId, callers, listing, drawn, mingled, tornEdit>>
    BY <1>2 DEF ClearSeed
  <2>2. NoSeed \in StoredSeed /\ NoSeed.key = 0
    BY DEF NoSeed, StoredSeed
  <2>3. IdentityTypes' /\ ReadableInv'
    BY <2>1, <2>2 DEF IdentityInv, IdentityTypes, ReadableInv, callers, OnceCleared
  <2>4. ~mingled => deviceId = 0 /\ shared = 0 /\ given = {}
    BY <2>1 DEF IdentityInv, ResolvesInv
  <2>5. ~mingled => ResolvesInv' /\ GivenInv'
    BY <2>1, <2>4, IdentityAssumption DEF IdentityInv, ResolvesInv, GivenInv, Running, callers
  <2>6. ~mingled => IdsInv'
    BY <2>1 DEF IdentityInv, IdsInv, callers, listing
  <2>7. ~mingled => PublishedInv'
    BY <2>1, <2>4 DEF IdentityInv, IdsInv, PublishedInv, listing
  <2> QED BY <2>1, <2>3, <2>5, <2>6, <2>7 DEF IdentityInv
<1>3. CASE ClearFails
  <2>1. IdentityTypes' /\ ReadableInv'
    BY <1>3 DEF ClearFails, IdentityInv, IdentityTypes, ReadableInv, onDevice, callers
  <2>2. ~mingled => ResolvesInv' /\ GivenInv' /\ IdsInv'
    BY <1>3 DEF ClearFails, IdentityInv, ResolvesInv, GivenInv, IdsInv, Running, onDevice, callers,
                listing
  <2> QED BY <1>3, <2>1, <2>2 DEF ClearFails, IdentityInv, PublishedInv, onDevice, listing
<1> QED BY <1>1, <1>2, <1>3

LEMMA IdentityFlushKeeps == ASSUME IdentityInv, Flush PROVE IdentityInv'
<1>1. IdentityTypes' /\ ReadableInv'
  BY DEF Flush, IdentityInv, IdentityTypes, ReadableInv, callers
<1>2. ~mingled => ResolvesInv' /\ GivenInv' /\ IdsInv'
  BY DEF Flush, IdentityInv, ResolvesInv, GivenInv, IdsInv, Running, callers, listing
<1> QED BY <1>1, <1>2 DEF Flush, IdentityInv, PublishedInv, listing

LEMMA ProcessDiesKeeps == ASSUME IdentityInv, ProcessDies PROVE IdentityInv'
<1>1. /\ seedPrefs' = seedFile /\ shared' = 0 /\ run' = [r \in Runs |-> Off] /\ clearing' = "no"
      /\ tornEdit' = (tornEdit \/ seedPrefs # seedFile)
      /\ given' = IF seedPrefs # seedFile THEN {} ELSE given
      /\ UNCHANGED <<platform, deviceId, seedFile, wrapping, posts, directory, drawn, mingled>>
  BY DEF ProcessDies
<1>2. run' \in [Runs -> Resolution] /\ \A r \in Runs : run'[r].pc = "off"
  BY <1>1, OffIsAResolution
<1>3. IdentityTypes' /\ ReadableInv'
  BY <1>1, <1>2 DEF IdentityInv, IdentityTypes, ReadableInv
<1>4. ~mingled => ResolvesInv' /\ GivenInv' /\ IdsInv'
  BY <1>1, <1>2 DEF IdentityInv, ResolvesInv, GivenInv, IdsInv, Running
<1>5. ~mingled /\ ~tornEdit' => PublishedInv'
  BY <1>1 DEF IdentityInv, PublishedInv
<1> QED BY <1>1, <1>3, <1>4, <1>5 DEF IdentityInv

LEMMA IdentityStutters == ASSUME IdentityInv, UNCHANGED identityVars PROVE IdentityInv'
<1>1. IdentityTypes' /\ ReadableInv'
  BY DEF identityVars, IdentityInv, IdentityTypes, ReadableInv
<1>2. ~mingled => ResolvesInv' /\ GivenInv' /\ IdsInv'
  BY DEF identityVars, IdentityInv, ResolvesInv, GivenInv, IdsInv, Running
<1> QED BY <1>1, <1>2 DEF identityVars, IdentityInv, PublishedInv

\* The device has one identity and keeps it: whoever is given it is given the stored one,
\* its seed can be read, and its row in the directory is made of it
\* (identity.ts:38-50, ChatCryptoModule.ts:60-64).
THEOREM IdentityHolds == IdentitySpec => [](IdentityInv /\ IdentityIsKept)
<1>1. IdentityInit => IdentityInv
  BY IdentityStarts
<1>2. IdentityInv /\ [IdentityNext]_identityVars => IdentityInv'
  <2> SUFFICES ASSUME IdentityInv, IdentityNext PROVE IdentityInv'
    BY IdentityStutters
  <2>1. \A r \in Runs : Seed(r) => LoadSeed(r) \/ SaveSeed(r) \/ Unwrappable(r)
    BY DEF Seed
  <2> QED BY <2>1, AskKeeps, ReadIdKeeps, WriteIdKeeps, LoadSeedKeeps, SaveSeedKeeps, UnwrappableKeeps,
             StorageFailsKeeps, PublishKeeps, AnswerKeeps, BeginClearKeeps, ClearKeeps,
             IdentityFlushKeeps, ProcessDiesKeeps DEF IdentityNext
<1>3. IdentityInv => IdentityIsKept
  <2> SUFFICES ASSUME IdentityInv PROVE OneIdentity /\ SeedIsReadable /\ DirectoryIsMine
    BY DEF IdentityIsKept
  <2>1. OneIdentity
    BY DEF OneIdentity, IdentityInv, GivenInv
  <2>2. SeedIsReadable
    BY DEF SeedIsReadable, SeedOpens, KeyOrNew, IdentityInv, IdentityTypes, ReadableInv
  <2>3. DirectoryIsMine
    BY DEF DirectoryIsMine, IdentityInv, PublishedInv
  <2> QED BY <2>1, <2>2, <2>3
<1> QED BY <1>1, <1>2, <1>3, PTL DEF IdentitySpec

AnnouncedInv == announced \in BOOLEAN

LEMMA IdentityTypesHold == IdentitySpec => []IdentityTypeOK
<1>1. IdentityInv /\ AnnouncedInv => IdentityTypeOK
  <2> SUFFICES ASSUME IdentityTypes, ReadableInv, AnnouncedInv PROVE IdentityTypeOK
    BY DEF IdentityInv
  <2>1. \A r \in Runs : run[r].pc \in {"off", "reading", "writing", "seeding", "done"}
    BY DEF IdentityTypes, Resolution
  <2> QED BY <2>1 DEF IdentityTypes, StoredSeed, ReadableInv, AnnouncedInv, IdentityTypeOK
<1>2. IdentityInit => AnnouncedInv
  BY DEF IdentityInit, AnnouncedInv
<1>3. AnnouncedInv /\ [IdentityNext]_identityVars => AnnouncedInv'
  <2> SUFFICES ASSUME [IdentityNext]_identityVars
               PROVE  announced' \in BOOLEAN \/ UNCHANGED announced
    BY DEF AnnouncedInv
  <2>1. ASSUME NEW r \in Runs, Ask(r) \/ ReadId(r) \/ WriteId(r) \/ Seed(r) \/ StorageFails(r)
        PROVE  UNCHANGED announced
    BY <2>1 DEF Ask, ReadId, WriteId, Seed, StorageFails, listing
  <2>2. ASSUME NEW p \in posts, Published(p) \/ PublishLost(p)
        PROVE  announced' \in BOOLEAN \/ UNCHANGED announced
    BY <2>2 DEF Published, PublishLost
  <2>3. Publish \/ ProcessDies => announced' \in BOOLEAN
    BY DEF Publish, ProcessDies
  <2>4. BeginClear \/ DeleteId \/ ClearSeed \/ ClearFails \/ Flush => UNCHANGED announced
    BY DEF BeginClear, DeleteId, ClearSeed, ClearFails, Flush, listing
  <2>5. UNCHANGED identityVars => UNCHANGED announced
    BY DEF identityVars
  <2> QED BY <2>1, <2>2, <2>3, <2>4, <2>5 DEF IdentityNext
<1> QED BY <1>1, <1>2, <1>3, IdentityHolds, PTL DEF IdentitySpec

\* The install keeps its identity, and what the app remembers to have registered is so on
\* the server, for any accounts, resolutions, clears, requests and faults.
THEOREM InstallIsRegistered == RegistrationSpec => []DeviceIsRegistered
<1>1. IdentityIsKept /\ RegisteredIsBound => DeviceIsRegistered
  BY DEF DeviceIsRegistered
<1> QED BY <1>1, IdentityHolds, RegisteredHolds, PTL DEF RegistrationSpec

-----------------------------------------------------------------------------
\* Ciphers and frames of one chat

Bodies == {"msg", "rx"}
SealWires == {<<>>} \cup {SealGroup(b, n) : b \in Bodies, n \in BOOLEAN}
SealRow ==
  [pc : {"idle", "asking", "reading", "opening", "unlinked", "naming", "sealing", "boxing",
         "posting", "keys", "done"},
   body : Bodies \cup {"none"}, row : {0} \cup DOMAIN Inbound, db : Holders \cup {0, 1}, wire : SealWires,
   result : {"none", "sent", "refused", "retry", "dead", "shown", "later", "never"},
   why : {"none", "lookup", "format", "key gone", "keys", "box", "bad"} \cup Bodies]

\* A row this device could never have opened.
CannotBeRead(i, used) ==
  \/ Inbound[i].version = 2 /\ (Inbound[i].own \/ i \in used)
  \/ Inbound[i].version = 1 /\ ~Inbound[i].mine
  \/ ParseFrame(Inbound[i].frame, Inbound[i].version) = "bad"

\* What a call holds while it runs: a row of the cipher it opens, or a body to send.
OpensItsCipher(r) ==
  /\ r.body = "none" /\ r.pc \in {"asking", "reading", "opening", "unlinked"} =>
       r.row \in DOMAIN Inbound /\ Inbound[r.row].version = 2
  /\ r.pc \in {"opening", "unlinked"} => r.body = "none"
  /\ r.pc = "keys" => Inbound[r.row].version = 1
SealsItsBody(r) ==
  /\ r.pc \in {"naming", "sealing", "boxing", "posting"} => r.body \in Bodies
  /\ r.pc = "posting" => \E n \in BOOLEAN : r.wire = SealGroup(r.body, n)
  /\ r.wire # <<>> => r.pc \in {"posting", "done"} /\ r.body \in Bodies
  /\ r.wire # <<>> /\ r.pc = "done" =>
       r.result = "sent" /\ \E n \in BOOLEAN : r.wire = SealGroup(r.body, n)
GivesUpRightly(r, used) ==
  r.result = "never" => r.why \in {"lookup", "keys"} \/ CannotBeRead(r.row, used)
CallIsRight(r, used) == OpensItsCipher(r) /\ SealsItsBody(r) /\ GivesUpRightly(r, used)

SealingTypes ==
  /\ holder \in Holders /\ link \in [Holders -> BOOLEAN] /\ native \in {"off", "empty", "group"}
  /\ mirroring \in [pc : {"idle", "writing", "clearing"}, db : Holders \cup {0}]
  /\ work \in [Works -> SealRow]
CallsInv == SealingTypes /\ \A w \in Works : CallIsRight(work[w], consumed)
SealInv == CallsInv /\ CacheIsRight

\* What buildFrame() makes of a body is read as that body.
LEMMA FramesAreRead ==
  ASSUME NEW b \in Bodies, NEW n \in BOOLEAN
  PROVE  /\ SealGroup(b, n).version = 2
         /\ ParseFrame(SealGroup(b, n).frame, 2) = b
         /\ "sender" \in DOMAIN SealGroup(b, n).frame => b = "msg"
         /\ ValidSendFrame(SealGroup(b, n))
<1> DEFINE f == BuildFrame(2, b, n)
<1>1. SealGroup(b, n) = [version |-> 2, nonce |-> 0, size |-> 2, frame |-> f]
  BY DEF SealGroup
<1> HIDE DEF f
<1>2. CASE b = "rx"
  <2>1. f = [v |-> 2, ts |-> "number", kind |-> "rx", target |-> "string",
             emoji |-> "string", op |-> "add"]
    BY <1>2 DEF f, BuildFrame
  <2>2. ParseFrame(f, 2) = "rx" /\ "sender" \notin DOMAIN f
    BY <2>1 DEF ParseFrame, Has
  <2> QED BY <1>1, <1>2, <2>2 DEF ValidSendFrame
<1>3. CASE b = "msg" /\ n
  <2>1. f = [v |-> 2, ts |-> "number", text |-> "string", sender |-> "string"]
    BY <1>3 DEF f, BuildFrame
  <2>2. ParseFrame(f, 2) = "msg"
    BY <2>1 DEF ParseFrame, Has
  <2> QED BY <1>1, <1>3, <2>2 DEF ValidSendFrame
<1>4. CASE b = "msg" /\ ~n
  <2>1. f = [v |-> 2, ts |-> "number", text |-> "string"]
    BY <1>4 DEF f, BuildFrame
  <2>2. ParseFrame(f, 2) = "msg"
    BY <2>1 DEF ParseFrame, Has
  <2> QED BY <1>1, <1>4, <2>2 DEF ValidSendFrame
<1> QED BY <1>2, <1>3, <1>4 DEF Bodies

\* One call moves, and what the others hold stays as good.
LEMMA CallMoves ==
  ASSUME CallsInv, NEW w \in Works, NEW r \in SealRow, CallIsRight(r, consumed'), WorkIs(w, r),
         consumed \subseteq consumed',
         holder' \in Holders, link' \in [Holders -> BOOLEAN], native' \in {"off", "empty", "group"},
         mirroring' \in [pc : {"idle", "writing", "clearing"}, db : Holders \cup {0}]
  PROVE  CallsInv'
<1>1. work' = [work EXCEPT ![w] = r] /\ work \in [Works -> SealRow]
  BY DEF WorkIs, CallsInv, SealingTypes
<1>2. work' \in [Works -> SealRow]
  BY <1>1
<1>3. \A v \in Works : CallIsRight(work'[v], consumed')
  <2> SUFFICES ASSUME NEW v \in Works, v # w PROVE CallIsRight(work[v], consumed')
    BY <1>1
  <2>1. CallIsRight(work[v], consumed)
    BY DEF CallsInv
  <2> QED BY <2>1 DEF CallIsRight, GivesUpRightly, CannotBeRead
<1> QED BY <1>2, <1>3 DEF CallsInv, SealingTypes

LEMMA IdleIsRight ==
  /\ NoWork \in SealRow /\ NoWork.result = "none" /\ NoWork.wire = <<>> /\ NoWork.body = "none"
  /\ NoWork.pc = "idle" /\ \A used : CallIsRight(NoWork, used)
  BY DEF NoWork, SealRow, SealWires, CallIsRight, OpensItsCipher, SealsItsBody, GivesUpRightly

\* Where a call goes on after the lookup.
LEMMA LookupIsRight ==
  ASSUME NEW r \in SealRow, NEW used, CallIsRight(r, used), NEW linked \in BOOLEAN,
         r.wire = <<>>,
         r.body = "none" => r.row \in DOMAIN Inbound /\ Inbound[r.row].version = 2
  PROVE  AfterLookup(r, linked) \in SealRow /\ CallIsRight(AfterLookup(r, linked), used)
<1> DEFINE pc == CASE r.body = "none" -> (IF linked THEN "opening" ELSE "unlinked")
                   [] r.body = "rx"   -> (IF linked THEN "sealing" ELSE "boxing")
                   [] r.body = "msg"  -> (IF linked THEN "naming" ELSE "boxing")
           s == [r EXCEPT !.pc = pc]
<1>1. \/ (r.body = "none" /\ pc \in {"opening", "unlinked"})
      \/ (r.body \in Bodies /\ pc \in {"sealing", "boxing", "naming"})
  BY DEF SealRow, Bodies
<1> HIDE DEF pc
<1>2. /\ s \in SealRow /\ s.pc = pc
      /\ s.body = r.body /\ s.row = r.row /\ s.wire = r.wire /\ s.result = r.result /\ s.why = r.why
  BY <1>1 DEF SealRow
<1>3. AfterLookup(r, linked) = s
  BY DEF AfterLookup, pc
<1> HIDE DEF s
<1>4. CallIsRight(s, used)
  BY <1>1, <1>2 DEF CallIsRight, OpensItsCipher, SealsItsBody, GivesUpRightly, Bodies
<1> QED BY <1>2, <1>3, <1>4

LEMMA StartsKeeps ==
  ASSUME CallsInv, NEW w \in Works, NEW r \in SealRow, Starts(w, r), r.pc = "idle",
         r.result = "none", r.wire = <<>>,
         r.body = "none" => r.row \in DOMAIN Inbound /\ Inbound[r.row].version = 2
  PROVE  CallsInv'
<1>1. CallIsRight(r, consumed)
  BY DEF CallIsRight, OpensItsCipher, SealsItsBody, GivesUpRightly
<1> DEFINE asking == [r EXCEPT !.pc = "asking"]
<1>2. asking \in SealRow /\ CallIsRight(asking, consumed)
  BY <1>1 DEF SealRow, CallIsRight, OpensItsCipher, SealsItsBody, GivesUpRightly
<1> HIDE DEF asking
<1> DEFINE next == IF resolved = "absent" THEN asking ELSE AfterLookup(r, resolved = "group")
<1>3. next \in SealRow /\ CallIsRight(next, consumed)
  BY <1>1, <1>2, LookupIsRight
<1>4. WorkIs(w, next) /\ consumed' = consumed /\ UNCHANGED <<holder, link, native, mirroring>>
  BY DEF Starts, asking, world
<1> HIDE DEF next
<1> QED BY <1>3, <1>4, CallMoves DEF CallsInv, SealingTypes

LEMMA SendBodyKeeps ==
  ASSUME CallsInv, NEW w \in Works, NEW body \in Bodies, SendBody(w, body) PROVE CallsInv'
<1> DEFINE r == [NoWork EXCEPT !.body = body]
<1>1. /\ r \in SealRow /\ r.pc = "idle" /\ r.result = "none" /\ r.wire = <<>> /\ r.body # "none"
  BY IdleIsRight DEF SealRow, Bodies
<1>2. Starts(w, r)
  BY DEF SendBody
<1> HIDE DEF r
<1> QED BY <1>1, <1>2, StartsKeeps

LEMMA OpenGroupRowKeeps ==
  ASSUME CallsInv, NEW w \in Works, NEW i \in DOMAIN Inbound, OpenGroupRow(w, i) PROVE CallsInv'
<1> DEFINE r == [NoWork EXCEPT !.row = i]
<1>1. /\ r \in SealRow /\ r.pc = "idle" /\ r.result = "none" /\ r.wire = <<>> /\ r.row = i
  BY IdleIsRight DEF SealRow
<1>2. Starts(w, r) /\ Inbound[i].version = 2
  BY DEF OpenGroupRow
<1> HIDE DEF r
<1> QED BY <1>1, <1>2, StartsKeeps

LEMMA OpenBoxRowKeeps ==
  ASSUME CallsInv, NEW w \in Works, NEW i \in DOMAIN Inbound, OpenBoxRow(w, i) PROVE CallsInv'
<1> DEFINE r == [NoWork EXCEPT !.row = i, !.pc = "keys"]
<1>1. /\ r \in SealRow /\ r.pc = "keys" /\ r.result = "none" /\ r.wire = <<>> /\ r.row = i
      /\ r.body = "none"
  BY IdleIsRight DEF SealRow
<1>2. WorkIs(w, r) /\ Inbound[i].version = 1 /\ consumed' = consumed
      /\ UNCHANGED <<holder, link, native, mirroring>>
  BY DEF OpenBoxRow, world
<1> HIDE DEF r
<1>3. CallIsRight(r, consumed)
  BY <1>1, <1>2 DEF CallIsRight, OpensItsCipher, SealsItsBody, GivesUpRightly
<1> QED BY <1>1, <1>2, <1>3, CallMoves DEF CallsInv, SealingTypes

LEMMA LooksUpKeeps == ASSUME CallsInv, NEW w \in Works, LooksUp(w) PROVE CallsInv'
<1> DEFINE r == [work[w] EXCEPT !.pc = "reading", !.db = holder]
<1>1. /\ work[w] \in SealRow /\ CallIsRight(work[w], consumed) /\ work[w].pc = "asking"
      /\ holder \in Holders
  BY DEF LooksUp, CallsInv, SealingTypes
<1>2. /\ r \in SealRow /\ r.pc = "reading" /\ r.body = work[w].body /\ r.row = work[w].row
      /\ r.wire = work[w].wire /\ r.result = work[w].result /\ r.why = work[w].why
  BY <1>1 DEF SealRow
<1>3. WorkIs(w, r) /\ consumed' = consumed /\ UNCHANGED <<holder, link, native, mirroring>>
  BY DEF LooksUp, world
<1> HIDE DEF r
<1>4. CallIsRight(r, consumed)
  BY <1>1, <1>2 DEF CallIsRight, OpensItsCipher, SealsItsBody, GivesUpRightly
<1> QED BY <1>2, <1>3, <1>4, CallMoves DEF CallsInv, SealingTypes

LEMMA ResolvesKeeps == ASSUME CallsInv, NEW w \in Works, Resolves(w) PROVE CallsInv'
<1> DEFINE r == [work[w] EXCEPT !.db = 0]
           linked == link[work[w].db]
<1>1. /\ work[w] \in SealRow /\ CallIsRight(work[w], consumed) /\ work[w].pc = "reading"
  BY DEF Resolves, CallsInv, SealingTypes
<1>2. /\ r \in SealRow /\ r.pc = "reading" /\ r.body = work[w].body /\ r.row = work[w].row
      /\ r.wire = work[w].wire /\ r.result = work[w].result /\ r.why = work[w].why
  BY <1>1 DEF SealRow
<1>3. /\ WorkIs(w, AfterLookup(r, linked)) /\ consumed' = consumed
      /\ UNCHANGED <<holder, link, native, mirroring>>
  BY DEF Resolves, world
<1> HIDE DEF r, linked
<1>4. /\ CallIsRight(r, consumed) /\ r.wire = <<>>
      /\ (r.body = "none" => r.row \in DOMAIN Inbound /\ Inbound[r.row].version = 2)
  BY <1>1, <1>2 DEF CallIsRight, OpensItsCipher, SealsItsBody, GivesUpRightly
<1>5. AfterLookup(r, linked) = AfterLookup(r, TRUE) \/ AfterLookup(r, linked) = AfterLookup(r, FALSE)
  BY DEF AfterLookup
<1>6. /\ AfterLookup(r, linked) \in SealRow /\ CallIsRight(AfterLookup(r, linked), consumed)
  BY <1>2, <1>4, <1>5, LookupIsRight
<1> QED BY <1>3, <1>6, CallMoves DEF CallsInv, SealingTypes

\* FailsToSend(), a failure that may be made good, and one that is final.
LEMMA FailureIsRight ==
  ASSUME NEW result \in {"retry", "dead", "later"}, NEW used
  PROVE  /\ [NoWork EXCEPT !.pc = "done", !.result = result] \in SealRow
         /\ CallIsRight([NoWork EXCEPT !.pc = "done", !.result = result], used)
<1> DEFINE r == [NoWork EXCEPT !.pc = "done", !.result = result]
<1>1. /\ r \in SealRow /\ r.pc = "done" /\ r.result = result /\ r.wire = <<>> /\ r.body = "none"
  BY IdleIsRight DEF SealRow
<1> HIDE DEF r
<1>2. CallIsRight(r, used)
  BY <1>1 DEF CallIsRight, OpensItsCipher, SealsItsBody, GivesUpRightly
<1> QED BY <1>1, <1>2 DEF r

LEMMA FailsToSendKeeps ==
  ASSUME CallsInv, NEW w \in Works, NEW result \in {"retry", "dead", "later"},
         WorkIs(w, [NoWork EXCEPT !.pc = "done", !.result = result]), consumed \subseteq consumed',
         UNCHANGED <<holder, link, native, mirroring>>
  PROVE  CallsInv'
<1>1. /\ [NoWork EXCEPT !.pc = "done", !.result = result] \in SealRow
      /\ CallIsRight([NoWork EXCEPT !.pc = "done", !.result = result], consumed')
  BY FailureIsRight
<1> QED BY <1>1, CallMoves DEF CallsInv, SealingTypes

\* WorkEnds(): the call keeps its row, its body and what it sent.
LEMMA EndsKeeps ==
  ASSUME CallsInv, NEW w \in Works,
         NEW result \in {"sent", "refused", "shown", "never"},
         NEW why \in {"none", "lookup", "format", "key gone", "keys", "box", "bad"} \cup Bodies,
         WorkEnds(w, result, why), consumed \subseteq consumed',
         UNCHANGED <<holder, link, native, mirroring>>,
         result = "never" => why \in {"lookup", "keys"} \/ CannotBeRead(work[w].row, consumed'),
         \/ work[w].wire = <<>>
         \/ /\ result = "sent" /\ work[w].body \in Bodies
            /\ \E n \in BOOLEAN : work[w].wire = SealGroup(work[w].body, n)
  PROVE  CallsInv'
<1> DEFINE r == [NoWork EXCEPT !.pc = "done", !.body = work[w].body, !.row = work[w].row,
                               !.wire = work[w].wire, !.result = result, !.why = why]
<1>1. /\ work[w].body \in Bodies \cup {"none"} /\ work[w].row \in {0} \cup DOMAIN Inbound
      /\ work[w].wire \in SealWires
  BY DEF CallsInv, SealingTypes, SealRow
<1>2. /\ r \in SealRow /\ r.pc = "done" /\ r.body = work[w].body /\ r.row = work[w].row
      /\ r.wire = work[w].wire /\ r.result = result /\ r.why = why
  <2> DEFINE s == [NoWork EXCEPT !.body = work[w].body, !.row = work[w].row,
                                 !.wire = work[w].wire]
  <2>1. s \in SealRow /\ s.body = work[w].body /\ s.row = work[w].row /\ s.wire = work[w].wire
    <3> HIDE DEF SealWires, Bodies
    <3> QED BY <1>1, IdleIsRight DEF SealRow
  <2> DEFINE u == [s EXCEPT !.pc = "done", !.result = result]
             v == [u EXCEPT !.why = why]
  <2>2. r = v
    BY IdleIsRight DEF SealRow
  <2> HIDE DEF s, r
  <2>3. /\ u \in SealRow /\ u.body = s.body /\ u.row = s.row /\ u.wire = s.wire
        /\ u.pc = "done" /\ u.result = result
    <3> HIDE DEF SealWires, Bodies
    <3> QED BY <2>1 DEF SealRow
  <2> HIDE DEF u
  <2>4. /\ v \in SealRow /\ v.body = u.body /\ v.row = u.row /\ v.wire = u.wire
        /\ v.pc = u.pc /\ v.result = u.result /\ v.why = why
    <3> HIDE DEF SealWires, Bodies
    <3> QED BY <2>3 DEF SealRow
  <2> HIDE DEF v
  <2> QED BY <2>1, <2>2, <2>3, <2>4
<1>3. WorkIs(w, r)
  BY DEF WorkEnds
<1> HIDE DEF r
<1>4. CallIsRight(r, consumed')
  BY <1>1, <1>2 DEF CallIsRight, OpensItsCipher, SealsItsBody, GivesUpRightly
<1> QED BY <1>2, <1>3, <1>4, CallMoves DEF CallsInv, SealingTypes

LEMMA FailsToOpenKeeps ==
  ASSUME CallsInv, NEW w \in Works,
         NEW why \in {"no link", "no group", "no engine", "lookup", "format", "key gone", "keys", "box"},
         FailsToOpen(w, why), consumed \subseteq consumed', UNCHANGED <<holder, link, native, mirroring>>,
         work[w].wire = <<>>,
         \/ why \in {"no link", "no group", "no engine", "lookup", "keys"}
         \/ CannotBeRead(work[w].row, consumed')
  PROVE  CallsInv'
<1>1. CASE why \in {"no link", "no group", "no engine"}
  <2>1. WorkIs(w, [NoWork EXCEPT !.pc = "done", !.result = "later"])
    BY <1>1 DEF FailsToOpen, RecoverableReason
  <2> QED BY <2>1, FailsToSendKeeps
<1>2. CASE why \notin {"no link", "no group", "no engine"}
  <2>1. WorkEnds(w, "never", why)
    BY <1>2 DEF FailsToOpen, RecoverableReason
  <2> QED BY <1>2, <2>1, EndsKeeps
<1> QED BY <1>1, <1>2

LEMMA LookupFailsKeeps == ASSUME CallsInv, NEW w \in Works, LookupFails(w) PROVE CallsInv'
<1>1. /\ work[w] \in SealRow /\ CallIsRight(work[w], consumed) /\ work[w].pc = "reading"
      /\ consumed' = consumed /\ UNCHANGED <<holder, link, native, mirroring>>
  BY DEF LookupFails, CallsInv, SealingTypes, world
<1>2. work[w].wire = <<>>
  BY <1>1 DEF CallIsRight, SealsItsBody
<1>3. CASE work[w].body = "none"
  BY <1>1, <1>2, <1>3, FailsToOpenKeeps DEF LookupFails
<1>4. CASE work[w].body # "none"
  BY <1>1, <1>4, FailsToSendKeeps DEF LookupFails, FailsToSend
<1> QED BY <1>3, <1>4

LEMMA NamesKeeps == ASSUME CallsInv, NEW w \in Works, Names(w) PROVE CallsInv'
<1>1. PICK named \in BOOLEAN :
        WorkIs(w, [work[w] EXCEPT !.pc = "sealing", !.db = IF named THEN 1 ELSE 0])
  BY DEF Names
<1> DEFINE r == [work[w] EXCEPT !.pc = "sealing", !.db = IF named THEN 1 ELSE 0]
<1>2. /\ work[w] \in SealRow /\ CallIsRight(work[w], consumed) /\ work[w].pc = "naming"
      /\ consumed' = consumed /\ UNCHANGED <<holder, link, native, mirroring>>
  BY DEF Names, CallsInv, SealingTypes, world
<1>3. /\ r \in SealRow /\ r.pc = "sealing" /\ r.body = work[w].body /\ r.row = work[w].row
      /\ r.wire = work[w].wire /\ r.result = work[w].result /\ r.why = work[w].why
  BY <1>2 DEF SealRow
<1>4. WorkIs(w, r)
  BY <1>1
<1> HIDE DEF r
<1>5. CallIsRight(r, consumed)
  BY <1>2, <1>3 DEF CallIsRight, OpensItsCipher, SealsItsBody, GivesUpRightly
<1> QED BY <1>2, <1>3, <1>4, <1>5, CallMoves DEF CallsInv, SealingTypes

LEMMA SealsKeeps == ASSUME CallsInv, NEW w \in Works, Seals(w) PROVE CallsInv'
<1>1. /\ work[w] \in SealRow /\ CallIsRight(work[w], consumed) /\ work[w].pc = "sealing"
      /\ consumed' = consumed /\ UNCHANGED <<holder, link, native, mirroring>>
  BY DEF Seals, CallsInv, SealingTypes, world
<1>2. CASE \E result \in {"retry", "dead"} : FailsToSend(w, result)
  BY <1>1, <1>2, FailsToSendKeeps DEF FailsToSend
<1>3. CASE WorkIs(w, [work[w] EXCEPT !.pc = "posting", !.wire = SealGroup(work[w].body, work[w].db = 1)])
  <2> DEFINE wire == SealGroup(work[w].body, work[w].db = 1)
             r == [work[w] EXCEPT !.pc = "posting", !.wire = wire]
  <2>1. work[w].body \in Bodies
    BY <1>1 DEF CallIsRight, SealsItsBody
  <2>2. \E n \in BOOLEAN : wire = SealGroup(work[w].body, n)
    OBVIOUS
  <2>3. wire \in SealWires
    BY <2>1, <2>2 DEF SealWires
  <2>4. WorkIs(w, r)
    BY <1>3
  <2> HIDE DEF wire
  <2>5. /\ r \in SealRow /\ r.pc = "posting" /\ r.body = work[w].body /\ r.row = work[w].row
        /\ r.wire = wire /\ r.result = work[w].result /\ r.why = work[w].why
    BY <1>1, <2>3 DEF SealRow
  <2> HIDE DEF r
  <2>6. CallIsRight(r, consumed)
    BY <1>1, <2>1, <2>2, <2>5 DEF CallIsRight, OpensItsCipher, SealsItsBody, GivesUpRightly
  <2> QED BY <1>1, <2>4, <2>5, <2>6, CallMoves DEF CallsInv, SealingTypes
<1>4. native = "off" \/ native = "empty" \/ native = "group"
  BY DEF CallsInv, SealingTypes
<1>5. CASE native = "off"
  BY <1>2, <1>5 DEF Seals
<1>6. CASE native = "empty"
  BY <1>2, <1>6 DEF Seals
<1>7. CASE native = "group"
  BY <1>3, <1>7 DEF Seals
<1> QED BY <1>4, <1>5, <1>6, <1>7

LEMMA PostsKeeps == ASSUME CallsInv, NEW w \in Works, Posts(w) PROVE CallsInv'
<1>1. /\ work[w] \in SealRow /\ CallIsRight(work[w], consumed) /\ work[w].pc = "posting"
      /\ consumed' = consumed /\ UNCHANGED <<holder, link, native, mirroring>>
  BY DEF Posts, CallsInv, SealingTypes, world
<1>2. work[w].body \in Bodies /\ \E n \in BOOLEAN : work[w].wire = SealGroup(work[w].body, n)
  BY <1>1 DEF CallIsRight, SealsItsBody
<1>3. ValidSendFrame(work[w].wire)
  BY <1>2, FramesAreRead
<1>4. WorkEnds(w, "sent", "none")
  BY <1>3 DEF Posts
<1> QED BY <1>1, <1>2, <1>4, EndsKeeps

LEMMA BoxesKeeps == ASSUME CallsInv, NEW w \in Works, Boxes(w) PROVE CallsInv'
<1>1. FailsToSend(w, "retry") /\ consumed' = consumed /\ UNCHANGED <<holder, link, native, mirroring>>
  BY DEF Boxes, world
<1> QED BY <1>1, FailsToSendKeeps DEF FailsToSend

LEMMA ParsedBodies == \A f, v : ParseFrame(f, v) \in Bodies \cup {"bad"}
  BY DEF ParseFrame, Bodies

LEMMA HandsOnKeeps ==
  ASSUME CallsInv, NEW w \in Works, NEW v \in {1, 2}, Inbound[work[w].row].version = v,
         HandsOn(w, ParseFrame(Inbound[work[w].row].frame, v)), work[w].wire = <<>>,
         consumed \subseteq consumed', UNCHANGED <<holder, link, native, mirroring>>
  PROVE  CallsInv'
<1> DEFINE body == ParseFrame(Inbound[work[w].row].frame, v)
<1>1. body \in Bodies \cup {"bad"}
  BY ParsedBodies
<1>2. CASE body = "bad"
  <2>1. CannotBeRead(work[w].row, consumed') /\ FailsToOpen(w, "format")
    BY <1>2 DEF CannotBeRead, HandsOn
  <2> QED BY <2>1, FailsToOpenKeeps
<1>3. CASE body # "bad"
  <2>1. WorkEnds(w, "shown", body)
    BY <1>3 DEF HandsOn
  <2> HIDE DEF body
  <2> QED BY <1>1, <2>1, EndsKeeps
<1> QED BY <1>2, <1>3

LEMMA OpensGroupKeeps == ASSUME CallsInv, NEW w \in Works, OpensGroup(w) PROVE CallsInv'
<1> DEFINE i == work[w].row
           there == work[w].pc = "opening" /\ native = "group"
<1>1. /\ work[w] \in SealRow /\ CallIsRight(work[w], consumed)
      /\ work[w].pc \in {"opening", "unlinked"} /\ UNCHANGED <<holder, link, native, mirroring>>
      /\ consumed' = IF there /\ ~Inbound[i].own THEN consumed \cup {i} ELSE consumed
  BY DEF OpensGroup, CallsInv, SealingTypes, world
<1>2. work[w].wire = <<>> /\ Inbound[i].version = 2 /\ consumed \subseteq consumed'
  BY <1>1 DEF CallIsRight, SealsItsBody, OpensItsCipher
<1>3. \/ \E why \in {"no link", "no group", "no engine"} : FailsToOpen(w, why)
      \/ there /\ (Inbound[i].own \/ i \in consumed) /\ FailsToOpen(w, "key gone")
      \/ HandsOn(w, ParseFrame(Inbound[i].frame, 2))
  <2>1. CASE work[w].pc = "unlinked"
    BY <2>1 DEF OpensGroup
  <2>2. CASE work[w].pc = "opening" /\ native = "off"
    BY <2>2 DEF OpensGroup
  <2>3. CASE work[w].pc = "opening" /\ native = "empty"
    BY <2>3 DEF OpensGroup
  <2>4. CASE there /\ (Inbound[i].own \/ i \in consumed)
    BY <2>4 DEF OpensGroup
  <2>5. CASE there /\ ~(Inbound[i].own \/ i \in consumed)
    BY <2>5 DEF OpensGroup
  <2>6. native \in {"off", "empty", "group"}
    BY DEF CallsInv, SealingTypes
  <2> QED BY <1>1, <2>1, <2>2, <2>3, <2>4, <2>5, <2>6
<1>4. ASSUME NEW why \in {"no link", "no group", "no engine"}, FailsToOpen(w, why) PROVE CallsInv'
  BY <1>1, <1>2, <1>4, FailsToOpenKeeps
<1>5. CASE (Inbound[i].own \/ i \in consumed) /\ FailsToOpen(w, "key gone")
  <2>1. CannotBeRead(i, consumed')
    BY <1>2, <1>5 DEF CannotBeRead
  <2> QED BY <1>1, <1>2, <1>5, <2>1, FailsToOpenKeeps
<1>6. CASE HandsOn(w, ParseFrame(Inbound[i].frame, 2))
  BY <1>1, <1>2, <1>6, HandsOnKeeps
<1> QED BY <1>3, <1>4, <1>5, <1>6

LEMMA OpensBoxKeeps == ASSUME CallsInv, NEW w \in Works, OpensBox(w) PROVE CallsInv'
<1> DEFINE i == work[w].row
<1>1. /\ work[w] \in SealRow /\ CallIsRight(work[w], consumed) /\ work[w].pc = "keys"
      /\ consumed' = consumed /\ UNCHANGED <<holder, link, native, mirroring>>
  BY DEF OpensBox, CallsInv, SealingTypes, world
<1>2. work[w].wire = <<>> /\ Inbound[i].version = 1
  BY <1>1 DEF CallIsRight, SealsItsBody, OpensItsCipher
<1>3. \/ FailsToOpen(w, "keys")
      \/ ~Inbound[i].mine /\ FailsToOpen(w, "box")
      \/ HandsOn(w, ParseFrame(Inbound[i].frame, 1))
  BY DEF OpensBox, BoxOpens
<1>4. CASE FailsToOpen(w, "keys")
  BY <1>1, <1>2, <1>4, FailsToOpenKeeps
<1>5. CASE ~Inbound[i].mine /\ FailsToOpen(w, "box")
  <2>1. CannotBeRead(i, consumed')
    BY <1>2, <1>5 DEF CannotBeRead
  <2> QED BY <1>1, <1>2, <1>5, <2>1, FailsToOpenKeeps
<1>6. CASE HandsOn(w, ParseFrame(Inbound[i].frame, 1))
  BY <1>1, <1>2, <1>6, HandsOnKeeps
<1> QED BY <1>3, <1>4, <1>5, <1>6

\* The link, the engine, the cache and the account: no call moves.
LEMMA WorldKeepsCalls ==
  ASSUME CallsInv,
         \/ GroupKnown \/ LinkWritten \/ CacheCleared \/ ClearingFails \/ EngineGains \/ SwitchAccount
  PROVE  CallsInv'
<1>1. work' = work /\ consumed' = consumed
  BY DEF GroupKnown, LinkWritten, CacheCleared, ClearingFails, EngineGains, SwitchAccount, callVars
<1>2. /\ holder' \in Holders /\ link' \in [Holders -> BOOLEAN] /\ native' \in {"off", "empty", "group"}
  BY DEF GroupKnown, LinkWritten, CacheCleared, ClearingFails, EngineGains, SwitchAccount,
         CallsInv, SealingTypes
<1>3. mirroring' \in [pc : {"idle", "writing", "clearing"}, db : Holders \cup {0}]
  BY DEF GroupKnown, LinkWritten, CacheCleared, ClearingFails, EngineGains, SwitchAccount,
         CallsInv, SealingTypes
<1>4. \A w \in Works : CallIsRight(work[w], consumed)
  BY DEF CallsInv
<1> QED BY <1>1, <1>2, <1>3, <1>4 DEF CallsInv, SealingTypes

\* A step of a call changes the cache only with the answer of a lookup.
LEMMA CacheKeeps ==
  ASSUME CallsInv, CacheIsRight, [SealingNext]_sealingVars
  PROVE  CacheIsRight'
<1> USE DEF CacheIsRight
<1>1. CASE UNCHANGED <<holder, link, resolved, mirroring, lateAnswer, halfLinked>>
  BY <1>1
<1>2. ASSUME NEW w \in Works, Resolves(w) PROVE CacheIsRight'
  BY <1>2 DEF Resolves, world
<1>3. ASSUME GroupKnown \/ EngineGains PROVE CacheIsRight'
  BY <1>3 DEF GroupKnown, EngineGains
<1>4. ASSUME LinkWritten PROVE CacheIsRight'
  <2>1. mirroring' = [pc |-> "clearing", db |-> mirroring.db]
    BY <1>4 DEF LinkWritten, CallsInv, SealingTypes
  <2>2. link[holder] => link'[holder]
    BY <1>4 DEF LinkWritten, CallsInv, SealingTypes
  <2>3. link'[holder] => link[holder] \/ mirroring.db = holder
    BY <1>4 DEF LinkWritten, CallsInv, SealingTypes
  <2>4. mirroring.db = holder => mirroring' = [pc |-> "clearing", db |-> holder]
    BY <2>1
  <2>5. mirroring # [pc |-> "clearing", db |-> holder]
    BY <1>4 DEF LinkWritten
  <2>6. UNCHANGED <<holder, resolved, lateAnswer, halfLinked>>
    BY <1>4 DEF LinkWritten
  <2> QED BY <2>2, <2>3, <2>4, <2>5, <2>6
<1>5. ASSUME CacheCleared \/ SwitchAccount PROVE CacheIsRight'
  BY <1>5 DEF CacheCleared, SwitchAccount, Cleared
<1>6. ASSUME ClearingFails PROVE CacheIsRight'
  <2>1. mirroring = [pc |-> "clearing", db |-> holder] => mirroring.db = holder
    OBVIOUS
  <2> QED BY <1>6, <2>1 DEF ClearingFails
<1>7. ASSUME NEW w \in Works, NEW body, SendBody(w, body) PROVE CacheIsRight'
  BY <1>1, <1>7 DEF SendBody, Starts, world
<1>8. ASSUME NEW w \in Works, NEW i, OpenGroupRow(w, i) \/ OpenBoxRow(w, i) PROVE CacheIsRight'
  BY <1>1, <1>8 DEF OpenGroupRow, OpenBoxRow, Starts, world
<1>9. ASSUME NEW w \in Works,
             \/ LooksUp(w) \/ LookupFails(w) \/ Names(w) \/ Seals(w) \/ Posts(w) \/ Boxes(w)
             \/ OpensGroup(w) \/ OpensBox(w)
      PROVE  CacheIsRight'
  BY <1>1, <1>9 DEF LooksUp, LookupFails, Names, Seals, Posts, Boxes, OpensGroup, OpensBox, world
<1>10. CASE UNCHANGED sealingVars
  BY <1>1, <1>10 DEF sealingVars
<1>11. \A w \in Senders \cup Openers : w \in Works
  BY DEF Works
<1> QED BY <1>2, <1>3, <1>4, <1>5, <1>6, <1>7, <1>8, <1>9, <1>10, <1>11 DEF SealingNext

\* Sealing and opening agree (group-resolver.ts, crypto-pipe.ts, encrypted-transport.ts:44-53).
THEOREM SealingHolds == SealingSpec => [](SealInv /\ SealingIsSound)
<1>1. SealingInit => SealInv
  <2> SUFFICES ASSUME SealingInit PROVE SealInv
    OBVIOUS
  <2>1. CallsInv
    BY IdleIsRight DEF SealingInit, CallsInv, SealingTypes
  <2>2. CacheIsRight
    BY DEF SealingInit, CacheIsRight
  <2> QED BY <2>1, <2>2 DEF SealInv
<1>2. SealInv /\ [SealingNext]_sealingVars => SealInv'
  <2> SUFFICES ASSUME SealInv, [SealingNext]_sealingVars PROVE SealInv'
    OBVIOUS
  <2>1. CallsInv /\ CacheIsRight
    BY DEF SealInv
  <2>2. CacheIsRight'
    BY <2>1, CacheKeeps
  <2>3. CASE SealingNext
    <3>1. \A w \in Senders \cup Openers : w \in Works
      BY DEF Works
    <3>2. {"msg", "rx"} = Bodies
      BY DEF Bodies
    <3>3. CallsInv'
      BY <2>1, <2>3, <3>1, <3>2, SendBodyKeeps, OpenGroupRowKeeps, OpenBoxRowKeeps, LooksUpKeeps, ResolvesKeeps,
         LookupFailsKeeps, NamesKeeps, SealsKeeps, PostsKeeps, BoxesKeeps, OpensGroupKeeps,
         OpensBoxKeeps, WorldKeepsCalls DEF SealingNext
    <3> QED BY <2>2, <3>3 DEF SealInv
  <2>4. CASE UNCHANGED sealingVars
    <3>1. CallsInv'
      BY <2>1, <2>4 DEF sealingVars, CallsInv, SealingTypes
    <3> QED BY <2>2, <3>1 DEF SealInv
  <2> QED BY <2>3, <2>4
<1>3. SealInv => SealingIsSound
  <2> SUFFICES ASSUME SealInv PROVE RowsAreHeld /\ SentIsReadable
    BY DEF SealingIsSound, SealInv
  <2>1. \A w \in Works : CallIsRight(work[w], consumed)
    BY DEF SealInv, CallsInv
  <2>2. RowsAreHeld
    BY <2>1 DEF RowsAreHeld, LostForGood, CallIsRight, GivesUpRightly, CannotBeRead
  <2>3. SentIsReadable
    <3> SUFFICES ASSUME NEW w \in Works, work[w].wire # <<>>, work[w].pc = "done"
                 PROVE  /\ work[w].result = "sent"
                        /\ ParseFrame(work[w].wire.frame, work[w].wire.version) = work[w].body
                        /\ "sender" \in DOMAIN work[w].wire.frame => work[w].body = "msg"
      BY DEF SentIsReadable
    <3>1. /\ work[w].result = "sent" /\ work[w].body \in Bodies
          /\ \E n \in BOOLEAN : work[w].wire = SealGroup(work[w].body, n)
      BY <2>1 DEF CallIsRight, SealsItsBody
    <3> QED BY <3>1, FramesAreRead
  <2> QED BY <2>2, <2>3
<1> QED BY <1>1, <1>2, <1>3, PTL DEF SealingSpec

\* Keys are used up of rows that came.
KeysInv == consumed \subseteq DOMAIN Inbound /\ resolved \in {"absent", "null", "group"}

LEMMA KeysKeep ==
  ASSUME CallsInv, KeysInv, [SealingNext]_sealingVars
  PROVE  KeysInv'
<1>1. CASE UNCHANGED sealingVars \/ GroupKnown \/ LinkWritten \/ ClearingFails \/ EngineGains
  BY <1>1 DEF sealingVars, GroupKnown, LinkWritten, ClearingFails, EngineGains, callVars, KeysInv
<1>2. CASE CacheCleared \/ SwitchAccount
  BY <1>2 DEF CacheCleared, SwitchAccount, Cleared, callVars, KeysInv
<1>3. ASSUME NEW w \in Works, Resolves(w) PROVE KeysInv'
  BY <1>3 DEF Resolves, world, KeysInv
<1>4. ASSUME NEW w \in Works, OpensGroup(w) PROVE KeysInv'
  <2>1. work[w].body = "none" /\ work[w].row \in DOMAIN Inbound
    BY <1>4 DEF OpensGroup, CallsInv, CallIsRight, OpensItsCipher
  <2>2. consumed' \subseteq consumed \cup {work[w].row} /\ UNCHANGED resolved
    BY <1>4 DEF OpensGroup
  <2> QED BY <2>1, <2>2 DEF KeysInv
<1>5. ASSUME NEW w \in Works, NEW body, SendBody(w, body) PROVE KeysInv'
  BY <1>5 DEF SendBody, Starts, KeysInv
<1>6. ASSUME NEW w \in Works, NEW i, OpenGroupRow(w, i) \/ OpenBoxRow(w, i) PROVE KeysInv'
  BY <1>6 DEF OpenGroupRow, OpenBoxRow, Starts, KeysInv
<1>7. ASSUME NEW w \in Works,
             \/ LooksUp(w) \/ LookupFails(w) \/ Names(w) \/ Seals(w) \/ Posts(w) \/ Boxes(w)
             \/ OpensBox(w)
      PROVE  KeysInv'
  BY <1>7 DEF LooksUp, LookupFails, Names, Seals, Posts, Boxes, OpensBox, KeysInv
<1>8. \A w \in Senders \cup Openers : w \in Works
  BY DEF Works
<1> QED BY <1>1, <1>2, <1>3, <1>4, <1>5, <1>6, <1>7, <1>8 DEF SealingNext

LEMMA SealingTypesHold == SealingSpec => []SealingTypeOK
<1>1. SealInv /\ KeysInv => SealingTypeOK
  <2> SUFFICES ASSUME SealInv, KeysInv PROVE SealingTypeOK
    OBVIOUS
  <2>1. SealingTypes
    BY DEF SealInv, CallsInv
  <2>2. ASSUME NEW w \in Works
        PROVE  /\ work[w].body \in {"none", "msg", "rx"}
               /\ work[w].row \in {0} \cup DOMAIN Inbound
               /\ work[w].result \in {"none", "sent", "refused", "retry", "dead", "shown",
                                       "later", "never"}
    BY <2>1 DEF SealingTypes, SealRow, Bodies
  <2>3. mirroring.pc \in {"idle", "writing", "clearing"}
    BY <2>1 DEF SealingTypes
  <2> QED BY <2>1, <2>2, <2>3 DEF SealingTypes, KeysInv, SealingTypeOK
<1>2. SealingInit => KeysInv
  BY DEF SealingInit, KeysInv
<1>3. SealInv /\ KeysInv /\ [SealingNext]_sealingVars => KeysInv'
  BY KeysKeep DEF SealInv
<1> QED BY <1>1, <1>2, <1>3, SealingHolds, PTL DEF SealingSpec

-----------------------------------------------------------------------------
\* The cached keys of peers

KeyDevices == UNION {Editions[e] : e \in DOMAIN Editions}
KeyRow == [device : KeyDevices, at : Nat]
KeyCall ==
  [pc : {"off", "checking", "fetching", "begin", "deleting", "inserting", "rolling", "reading",
         "done"},
   started : Nat, got : DOMAIN Editions, left : SUBSET KeyDevices, found : SUBSET KeyRow,
   peeked : BOOLEAN, failed : BOOLEAN, passed : BOOLEAN]

PeerTypes ==
  /\ edition \in DOMAIN Editions /\ clock \in Nat /\ tx \in Calls \cup {NoCall}
  /\ keyRows \in SUBSET KeyRow /\ savedRows \in SUBSET KeyRow
  /\ call \in [Calls -> KeyCall]
  /\ since \in Seq(Nat) /\ Len(since) = clock + 1
  /\ \A i \in 1 .. clock + 1 : since[i] <= edition
  /\ \A c \in Calls : call[c].started <= clock

\* Whole() at a given clock.
PutWhole(rs, now, published) ==
  rs # {} =>
    \E e \in DOMAIN Editions, t \in 0 .. now :
      /\ Devices(rs) = Editions[e] /\ {r.at : r \in rs} = {t} /\ e >= published[t + 1]

\* Outside a transaction the rows are the committed ones.
Committed(t, now, before) == IF t = NoCall THEN now ELSE before
FreshFor(rs, c) == \A r \in rs : r.at + Ttl >= c.started
Excuses(c) == c.peeked \/ c.failed \/ c.passed

\* A transaction is one call's, between its BEGIN and its end.
TxIsRight(r, mine) == mine <=> r.pc \in {"deleting", "inserting", "rolling"}

\* What a call puts is an edition published since it started.
FillIsRight(r, put, published) ==
  /\ r.pc \in {"begin", "deleting", "inserting"} => r.got >= published[r.started + 1]
  /\ r.pc = "inserting" =>
       /\ r.left \subseteq Editions[r.got] /\ Devices(put) = Editions[r.got] \ r.left
       /\ \A k \in put : k.at = r.started

AnswerIsRight(r, committed, now, published) ==
  /\ r.pc = "done" => r.peeked \/ PutWhole(r.found, now, published)
  /\ r.pc = "done" => Excuses(r) \/ FreshFor(r.found, r)
  /\ r.pc = "reading" => Excuses(r) \/ FreshFor(committed, r)

PeerInv ==
  /\ PeerTypes
  /\ PutWhole(Committed(tx, keyRows, savedRows), clock, since)
  /\ \A c \in Calls :
       /\ TxIsRight(call[c], tx = c)
       /\ FillIsRight(call[c], keyRows, since)
       /\ AnswerIsRight(call[c], Committed(tx, keyRows, savedRows), clock, since)

\* What was put whole stays so when the clock goes on.
LEMMA WholeStays ==
  ASSUME NEW rs, NEW now \in Nat, NEW then \in Nat, now <= then, NEW p, NEW q,
         \A i \in 1 .. now + 1 : q[i] = p[i], PutWhole(rs, now, p)
  PROVE  PutWhole(rs, then, q)
<1> SUFFICES ASSUME rs # {} PROVE PutWhole(rs, then, q)
  BY DEF PutWhole
<1>1. PICK e \in DOMAIN Editions, t \in 0 .. now :
        Devices(rs) = Editions[e] /\ {r.at : r \in rs} = {t} /\ e >= p[t + 1]
  BY DEF PutWhole
<1>2. t \in 0 .. then /\ t + 1 \in 1 .. now + 1
  OBVIOUS
<1>3. q[t + 1] = p[t + 1]
  BY <1>2
<1> QED BY <1>1, <1>2, <1>3 DEF PutWhole

\* One call moves and touches no row.
LEMMA KeyCallMoves ==
  ASSUME PeerInv, NEW c \in Calls, NEW r \in KeyCall, CallIs(c, r), r.started <= clock,
         UNCHANGED <<edition, clock, keyRows, tx, savedRows, since>>,
         TxIsRight(r, tx = c), FillIsRight(r, keyRows, since),
         AnswerIsRight(r, Committed(tx, keyRows, savedRows), clock, since)
  PROVE  PeerInv'
<1>1. call' = [call EXCEPT ![c] = r] /\ call \in [Calls -> KeyCall]
  BY DEF CallIs, PeerInv, PeerTypes
<1>2. /\ call' \in [Calls -> KeyCall] /\ call'[c] = r
      /\ \A d \in Calls : d # c => call'[d] = call[d]
  BY <1>1
<1>3. PeerTypes'
  BY <1>2 DEF PeerInv, PeerTypes
<1>4. \A d \in Calls :
        /\ TxIsRight(call'[d], tx = d) /\ FillIsRight(call'[d], keyRows, since)
        /\ AnswerIsRight(call'[d], Committed(tx, keyRows, savedRows), clock, since)
  BY <1>2 DEF PeerInv
<1>5. \A d \in Calls :
        /\ TxIsRight(call'[d], tx' = d) /\ FillIsRight(call'[d], keyRows', since')
        /\ AnswerIsRight(call'[d], Committed(tx', keyRows', savedRows'), clock', since')
  BY <1>4
<1>6. PutWhole(Committed(tx', keyRows', savedRows'), clock', since')
  BY DEF PeerInv
<1> QED BY <1>3, <1>5, <1>6 DEF PeerInv

LEMMA IdleKeyCall ==
  /\ IdleCall \in KeyCall /\ IdleCall.pc = "off" /\ IdleCall.started = 0
  /\ ~IdleCall.peeked /\ ~IdleCall.failed /\ ~IdleCall.passed
  BY PeerKeysAssumption DEF IdleCall, KeyCall

LEMMA StartCallKeeps == ASSUME PeerInv, NEW c \in Calls, StartCall(c) PROVE PeerInv'
<1> DEFINE r == [IdleCall EXCEPT !.pc = "checking", !.started = clock]
<1>1. clock \in Nat /\ TxIsRight(call[c], tx = c)
  BY DEF PeerInv, PeerTypes
<1>2. r \in KeyCall /\ r.pc = "checking" /\ r.started = clock
  BY <1>1, IdleKeyCall DEF KeyCall
<1>3. CallIs(c, r) /\ UNCHANGED <<edition, clock, keyRows, tx, savedRows, since>>
  BY DEF StartCall
<1>4. tx # c
  BY <1>1 DEF StartCall, TxIsRight
<1> HIDE DEF r
<1>5. TxIsRight(r, tx = c) /\ FillIsRight(r, keyRows, since)
  BY <1>2, <1>4 DEF TxIsRight, FillIsRight
<1>6. AnswerIsRight(r, Committed(tx, keyRows, savedRows), clock, since) /\ r.started <= clock
  BY <1>1, <1>2 DEF AnswerIsRight
<1> QED BY <1>2, <1>3, <1>5, <1>6, KeyCallMoves

LEMMA CheckStaleKeeps == ASSUME PeerInv, NEW c \in Calls, CheckStale(c) PROVE PeerInv'
<1> DEFINE s == call[c]
           next == IF Stale(s.started) THEN "fetching" ELSE "reading"
           peeks == Peeks(c)
           r == [s EXCEPT !.pc = next, !.peeked = peeks]
<1>1. /\ s \in KeyCall /\ s.pc = "checking" /\ s.started <= clock /\ TxIsRight(s, tx = c)
      /\ next \in {"fetching", "reading"} /\ peeks \in BOOLEAN /\ clock \in Nat
  BY DEF PeerInv, PeerTypes, CheckStale, Peeks
<1>2. CallIs(c, r) /\ UNCHANGED <<edition, clock, keyRows, tx, savedRows, since>>
  BY DEF CheckStale
<1>3. tx # c
  BY <1>1 DEF TxIsRight
<1>4. next = "reading" /\ ~peeks => FreshFor(Committed(tx, keyRows, savedRows), s)
  <2> SUFFICES ASSUME next = "reading", ~peeks PROVE FreshFor(keyRows, s) /\ tx = NoCall
    BY DEF Committed
  <2>1. tx = NoCall
    BY <1>3 DEF Peeks
  <2>2. PICK k \in keyRows : ~(k.at + Ttl < s.started)
    BY DEF Stale
  <2>3. PutWhole(keyRows, clock, since)
    BY <2>1 DEF PeerInv, Committed
  <2>4. \A j \in keyRows : j.at = k.at
    BY <2>2, <2>3 DEF PutWhole
  <2>5. k.at + Ttl >= s.started
    <3>1. k.at \in Nat /\ s.started \in Nat /\ Ttl \in Nat
      BY <1>1, PeerKeysAssumption DEF PeerInv, PeerTypes, KeyRow, KeyCall
    <3> QED BY <2>2, <3>1
  <2> QED BY <2>1, <2>4, <2>5 DEF FreshFor
<1> HIDE DEF next, peeks
<1>5. /\ r \in KeyCall /\ r.pc = next /\ r.started = s.started /\ r.peeked = peeks
  BY <1>1 DEF KeyCall
<1> HIDE DEF r
<1>6. TxIsRight(r, tx = c) /\ FillIsRight(r, keyRows, since)
  BY <1>1, <1>3, <1>5 DEF TxIsRight, FillIsRight
<1>7. AnswerIsRight(r, Committed(tx, keyRows, savedRows), clock, since) /\ r.started <= clock
  BY <1>1, <1>4, <1>5 DEF AnswerIsRight, Excuses, FreshFor
<1> QED BY <1>2, <1>5, <1>6, <1>7, KeyCallMoves

LEMMA AskDirectoryKeeps == ASSUME PeerInv, NEW c \in Calls, AskDirectory(c) PROVE PeerInv'
<1> DEFINE s == call[c]
           r == [s EXCEPT !.pc = "begin", !.got = edition]
<1>1. /\ s \in KeyCall /\ s.pc = "fetching" /\ s.started <= clock /\ TxIsRight(s, tx = c)
      /\ edition \in DOMAIN Editions /\ clock \in Nat
  BY DEF PeerInv, PeerTypes, AskDirectory
<1>2. CallIs(c, r) /\ UNCHANGED <<edition, clock, keyRows, tx, savedRows, since>>
  BY DEF AskDirectory
<1>3. edition >= since[s.started + 1]
  <2>1. s.started \in Nat
    BY <1>1 DEF KeyCall
  <2>2. s.started + 1 \in 1 .. clock + 1
    BY <1>1, <2>1
  <2>3. since[s.started + 1] <= edition /\ since[s.started + 1] \in Nat /\ edition \in Nat
    BY <2>2, PeerKeysAssumption DEF PeerInv, PeerTypes
  <2> QED BY <2>3
<1>4. /\ r \in KeyCall /\ r.pc = "begin" /\ r.started = s.started /\ r.got = edition
  BY <1>1 DEF KeyCall
<1> HIDE DEF r
<1>5. TxIsRight(r, tx = c) /\ FillIsRight(r, keyRows, since)
  BY <1>1, <1>3, <1>4 DEF TxIsRight, FillIsRight
<1>6. AnswerIsRight(r, Committed(tx, keyRows, savedRows), clock, since) /\ r.started <= clock
  BY <1>1, <1>4 DEF AnswerIsRight
<1> QED BY <1>2, <1>4, <1>5, <1>6, KeyCallMoves

\* A call that serves the cache after a failure.
LEMMA UnservedIsRight ==
  ASSUME PeerInv, NEW c \in Calls, tx # c, CallIs(c, Unserved(c)),
         UNCHANGED <<edition, clock, keyRows, tx, savedRows, since>>
  PROVE  PeerInv'
<1> DEFINE r == Unserved(c)
<1>1. call[c] \in KeyCall /\ call[c].started <= clock
  BY DEF PeerInv, PeerTypes
<1>2. r \in KeyCall /\ r.pc = "reading" /\ r.started = call[c].started /\ r.failed
  BY <1>1 DEF KeyCall, Unserved
<1> HIDE DEF r
<1>3. TxIsRight(r, tx = c) /\ FillIsRight(r, keyRows, since)
  BY <1>2 DEF TxIsRight, FillIsRight
<1>4. AnswerIsRight(r, Committed(tx, keyRows, savedRows), clock, since) /\ r.started <= clock
  BY <1>1, <1>2 DEF AnswerIsRight, Excuses
<1>5. CallIs(c, r)
  BY DEF r
<1> QED BY <1>2, <1>3, <1>4, <1>5, KeyCallMoves

LEMMA AskFailsKeeps == ASSUME PeerInv, NEW c \in Calls, AskFails(c) PROVE PeerInv'
<1>1. tx # c
  BY DEF AskFails, PeerInv, TxIsRight
<1> QED BY <1>1, UnservedIsRight DEF AskFails

LEMMA StatementFailsKeeps == ASSUME PeerInv, NEW c \in Calls, StatementFails(c) PROVE PeerInv'
<1> DEFINE s == call[c]
           r == [s EXCEPT !.pc = "rolling", !.left = {}]
<1>1. /\ s \in KeyCall /\ s.pc \in {"deleting", "inserting"} /\ s.started <= clock
      /\ TxIsRight(s, tx = c)
  BY DEF PeerInv, PeerTypes, StatementFails
<1>2. CallIs(c, r) /\ UNCHANGED <<edition, clock, keyRows, tx, savedRows, since>>
  BY DEF StatementFails
<1>3. r \in KeyCall /\ r.pc = "rolling" /\ r.started = s.started
  BY <1>1 DEF KeyCall
<1> HIDE DEF r
<1>4. TxIsRight(r, tx = c) /\ FillIsRight(r, keyRows, since)
  BY <1>1, <1>3 DEF TxIsRight, FillIsRight
<1>5. AnswerIsRight(r, Committed(tx, keyRows, savedRows), clock, since) /\ r.started <= clock
  BY <1>1, <1>3 DEF AnswerIsRight
<1> QED BY <1>2, <1>3, <1>4, <1>5, KeyCallMoves

LEMMA ReadKeysKeeps == ASSUME PeerInv, NEW c \in Calls, ReadKeys(c) PROVE PeerInv'
<1> DEFINE s == call[c]
           peeks == s.peeked \/ Peeks(c)
           r == [s EXCEPT !.pc = "done", !.found = keyRows, !.got = 1, !.peeked = peeks]
<1>1. /\ s \in KeyCall /\ s.pc = "reading" /\ s.started <= clock /\ TxIsRight(s, tx = c)
      /\ keyRows \in SUBSET KeyRow /\ peeks \in BOOLEAN
      /\ AnswerIsRight(s, Committed(tx, keyRows, savedRows), clock, since)
  BY DEF PeerInv, PeerTypes, ReadKeys, Peeks, KeyCall
<1>2. CallIs(c, r) /\ UNCHANGED <<edition, clock, keyRows, tx, savedRows, since>>
  BY DEF ReadKeys
<1>3. ~peeks => keyRows = Committed(tx, keyRows, savedRows)
  BY <1>1 DEF Peeks, Committed, TxIsRight
<1>4. ~peeks => PutWhole(keyRows, clock, since)
  BY <1>3 DEF PeerInv
<1>5. peeks \/ s.failed \/ s.passed \/ FreshFor(keyRows, s)
  BY <1>1, <1>3 DEF AnswerIsRight, Excuses
<1> HIDE DEF peeks
<1>6. 1 \in DOMAIN Editions
  BY PeerKeysAssumption
<1>7. /\ r \in KeyCall /\ r.pc = "done" /\ r.started = s.started /\ r.found = keyRows
      /\ r.peeked = peeks /\ r.failed = s.failed /\ r.passed = s.passed
  BY <1>1, <1>6 DEF KeyCall
<1> HIDE DEF r
<1>8. TxIsRight(r, tx = c) /\ FillIsRight(r, keyRows, since)
  BY <1>1, <1>7 DEF TxIsRight, FillIsRight
<1>9. AnswerIsRight(r, Committed(tx, keyRows, savedRows), clock, since) /\ r.started <= clock
  BY <1>1, <1>4, <1>5, <1>7 DEF AnswerIsRight, Excuses, FreshFor
<1> QED BY <1>2, <1>7, <1>8, <1>9, KeyCallMoves

\* The call that has the transaction moves, or takes it, or gives it back: what is
\* committed stays what it was.
LEMMA RowsMove ==
  ASSUME PeerInv, NEW c \in Calls, NEW r \in KeyCall, CallIs(c, r), r.started <= clock,
         UNCHANGED <<edition, clock, since>>, tx \in {c, NoCall}, tx' \in {c, NoCall},
         keyRows' \in SUBSET KeyRow, savedRows' \in SUBSET KeyRow,
         Committed(tx', keyRows', savedRows') = Committed(tx, keyRows, savedRows),
         TxIsRight(r, tx' = c), FillIsRight(r, keyRows', since),
         AnswerIsRight(r, Committed(tx, keyRows, savedRows), clock, since)
  PROVE  PeerInv'
<1>1. call' = [call EXCEPT ![c] = r] /\ call \in [Calls -> KeyCall]
  BY DEF CallIs, PeerInv, PeerTypes
<1>2. /\ call' \in [Calls -> KeyCall] /\ call'[c] = r
      /\ \A d \in Calls : d # c => call'[d] = call[d]
  BY <1>1
<1>3. PeerTypes'
  BY <1>2 DEF PeerInv, PeerTypes
<1>4. ASSUME NEW d \in Calls, d # c
      PROVE  TxIsRight(call[d], tx' = d) /\ FillIsRight(call[d], keyRows', since)
  <2>1. NoCall \notin Calls
    BY PeerKeysAssumption DEF NoCall
  <2>2. TxIsRight(call[d], tx = d) /\ tx # d /\ tx' # d
    BY <1>4, <2>1 DEF PeerInv
  <2>3. FillIsRight(call[d], keyRows, since)
    BY DEF PeerInv
  <2> QED BY <2>2, <2>3 DEF TxIsRight, FillIsRight
<1>5. \A d \in Calls :
        /\ TxIsRight(call'[d], tx' = d) /\ FillIsRight(call'[d], keyRows', since)
        /\ AnswerIsRight(call'[d], Committed(tx, keyRows, savedRows), clock, since)
  BY <1>2, <1>4 DEF PeerInv
<1>6. \A d \in Calls :
        /\ TxIsRight(call'[d], tx' = d) /\ FillIsRight(call'[d], keyRows', since')
        /\ AnswerIsRight(call'[d], Committed(tx', keyRows', savedRows'), clock', since')
  BY <1>5
<1>7. PutWhole(Committed(tx', keyRows', savedRows'), clock', since')
  BY DEF PeerInv
<1> QED BY <1>3, <1>6, <1>7 DEF PeerInv

LEMMA BeginTxKeeps == ASSUME PeerInv, NEW c \in Calls, BeginTx(c) PROVE PeerInv'
<1> DEFINE s == call[c]
           r == [s EXCEPT !.pc = "deleting"]
<1>1. /\ s \in KeyCall /\ s.pc = "begin" /\ s.started <= clock /\ TxIsRight(s, tx = c)
      /\ FillIsRight(s, keyRows, since) /\ keyRows \in SUBSET KeyRow
      /\ UNCHANGED <<edition, clock, keyRows, since>>
  BY DEF PeerInv, PeerTypes, BeginTx
<1>2. CASE tx = NoCall
  <2>1. tx' = c /\ savedRows' = keyRows /\ CallIs(c, r)
    BY <1>2 DEF BeginTx, TxFree
  <2>2. r \in KeyCall /\ r.pc = "deleting" /\ r.started = s.started /\ r.got = s.got
    BY <1>1 DEF KeyCall
  <2>3. c # NoCall
    BY PeerKeysAssumption DEF NoCall
  <2>4. Committed(tx', keyRows', savedRows') = Committed(tx, keyRows, savedRows)
    BY <1>1, <1>2, <2>1, <2>3 DEF Committed
  <2> HIDE DEF r
  <2>5. TxIsRight(r, tx' = c) /\ FillIsRight(r, keyRows', since)
    BY <1>1, <2>1, <2>2 DEF TxIsRight, FillIsRight
  <2>6. AnswerIsRight(r, Committed(tx, keyRows, savedRows), clock, since) /\ r.started <= clock
    BY <1>1, <2>2 DEF AnswerIsRight
  <2> QED BY <1>1, <1>2, <2>1, <2>2, <2>4, <2>5, <2>6, RowsMove
<1>3. CASE tx # NoCall
  <2>1. tx # c
    BY <1>1 DEF TxIsRight
  <2> QED BY <1>1, <1>3, <2>1, UnservedIsRight DEF BeginTx, TxFree
<1> QED BY <1>2, <1>3

LEMMA DeleteDevicesKeeps == ASSUME PeerInv, NEW c \in Calls, DeleteDevices(c) PROVE PeerInv'
<1> DEFINE s == call[c]
           put == Editions[s.got]
           r == [s EXCEPT !.pc = "inserting", !.left = put]
<1>1. /\ s \in KeyCall /\ s.pc = "deleting" /\ s.started <= clock /\ TxIsRight(s, tx = c)
      /\ FillIsRight(s, keyRows, since) /\ savedRows \in SUBSET KeyRow
      /\ UNCHANGED <<edition, clock, tx, savedRows, since>> /\ keyRows' = {} /\ CallIs(c, r)
  BY DEF PeerInv, PeerTypes, DeleteDevices
<1>2. tx = c /\ c # NoCall
  BY <1>1, PeerKeysAssumption DEF TxIsRight, NoCall
<1>3. put \in SUBSET KeyDevices
  BY <1>1 DEF KeyDevices, KeyCall
<1>4. Committed(tx', keyRows', savedRows') = Committed(tx, keyRows, savedRows)
  BY <1>1, <1>2 DEF Committed
<1> HIDE DEF put
<1>5. /\ r \in KeyCall /\ r.pc = "inserting" /\ r.started = s.started /\ r.got = s.got
      /\ r.left = put
  BY <1>1, <1>3 DEF KeyCall
<1> HIDE DEF r
<1>6. Devices({}) = {}
  BY DEF Devices
<1>7. TxIsRight(r, tx' = c) /\ FillIsRight(r, keyRows', since)
  BY <1>1, <1>2, <1>5, <1>6 DEF TxIsRight, FillIsRight, put
<1>8. AnswerIsRight(r, Committed(tx, keyRows, savedRows), clock, since) /\ r.started <= clock
  BY <1>1, <1>5 DEF AnswerIsRight
<1> QED BY <1>1, <1>2, <1>4, <1>5, <1>7, <1>8, RowsMove

LEMMA OneDeviceMore ==
  ASSUME NEW rs, NEW k PROVE Devices(rs \cup {k}) = Devices(rs) \cup {k.device}
  BY DEF Devices

LEMMA InsertDeviceKeeps == ASSUME PeerInv, NEW c \in Calls, InsertDevice(c) PROVE PeerInv'
<1> DEFINE s == call[c]
<1>1. /\ s \in KeyCall /\ s.pc = "inserting" /\ s.started <= clock /\ TxIsRight(s, tx = c)
      /\ FillIsRight(s, keyRows, since) /\ keyRows \in SUBSET KeyRow /\ savedRows \in SUBSET KeyRow
      /\ UNCHANGED <<edition, clock, tx, savedRows, since>>
  BY DEF PeerInv, PeerTypes, InsertDevice
<1>2. PICK d \in s.left :
        /\ keyRows' = keyRows \cup {[device |-> d, at |-> s.started]}
        /\ CallIs(c, [s EXCEPT !.left = s.left \ {d}])
  BY DEF InsertDevice
<1> DEFINE rest == s.left \ {d}
           r == [s EXCEPT !.left = rest]
           added == [device |-> d, at |-> s.started]
<1>3. tx = c /\ c # NoCall
  BY <1>1, PeerKeysAssumption DEF TxIsRight, NoCall
<1>4. s.left \in SUBSET KeyDevices /\ s.started \in Nat
  BY <1>1 DEF KeyCall
<1>5. added \in KeyRow /\ rest \in SUBSET KeyDevices
  BY <1>2, <1>4 DEF KeyRow
<1>6. Devices(keyRows \cup {added}) = Devices(keyRows) \cup {d}
  BY OneDeviceMore
<1>7. \A k \in keyRows \cup {added} : k.at = s.started
  BY <1>1 DEF FillIsRight
<1> HIDE DEF added
<1>8. Committed(tx', keyRows', savedRows') = Committed(tx, keyRows, savedRows)
  BY <1>1, <1>3 DEF Committed
<1>9. /\ rest \subseteq Editions[s.got] /\ Devices(keyRows') = Editions[s.got] \ rest
  BY <1>1, <1>2, <1>6 DEF FillIsRight, added
<1> HIDE DEF rest
<1>10. /\ r \in KeyCall /\ r.pc = "inserting" /\ r.started = s.started /\ r.got = s.got
       /\ r.left = rest
  BY <1>1, <1>5 DEF KeyCall
<1>11. CallIs(c, r) /\ keyRows' = keyRows \cup {added}
  BY <1>2 DEF rest, added
<1> HIDE DEF r
<1>12. TxIsRight(r, tx' = c) /\ FillIsRight(r, keyRows', since)
  BY <1>1, <1>3, <1>7, <1>9, <1>10, <1>11 DEF TxIsRight, FillIsRight
<1>13. AnswerIsRight(r, Committed(tx, keyRows, savedRows), clock, since) /\ r.started <= clock
  BY <1>1, <1>10 DEF AnswerIsRight
<1>14. keyRows' \in SUBSET KeyRow
  BY <1>1, <1>5, <1>11
<1> QED BY <1>1, <1>3, <1>8, <1>10, <1>11, <1>12, <1>13, <1>14, RowsMove

LEMMA RollbackKeysKeeps == ASSUME PeerInv, NEW c \in Calls, RollbackKeys(c) PROVE PeerInv'
<1> DEFINE s == call[c]
           r == Unserved(c)
<1>1. /\ s \in KeyCall /\ s.pc = "rolling" /\ s.started <= clock /\ TxIsRight(s, tx = c)
      /\ savedRows \in SUBSET KeyRow /\ UNCHANGED <<edition, clock, since>>
      /\ keyRows' = savedRows /\ tx' = NoCall /\ savedRows' = {} /\ CallIs(c, r)
  BY DEF PeerInv, PeerTypes, RollbackKeys, RolledBack
<1>2. tx = c /\ c # NoCall
  BY <1>1, PeerKeysAssumption DEF TxIsRight, NoCall
<1>3. r \in KeyCall /\ r.pc = "reading" /\ r.started = s.started /\ r.failed
  BY <1>1 DEF KeyCall, Unserved
<1> HIDE DEF r
<1>4. Committed(tx', keyRows', savedRows') = Committed(tx, keyRows, savedRows)
  BY <1>1, <1>2 DEF Committed
<1>5. TxIsRight(r, tx' = c) /\ FillIsRight(r, keyRows', since)
  BY <1>1, <1>2, <1>3 DEF TxIsRight, FillIsRight
<1>6. AnswerIsRight(r, Committed(tx, keyRows, savedRows), clock, since) /\ r.started <= clock
  BY <1>1, <1>3 DEF AnswerIsRight, Excuses
<1> QED BY <1>1, <1>2, <1>3, <1>4, <1>5, <1>6, RowsMove

\* COMMIT: what is committed now is what the call has put, one edition with one stamp.
LEMMA CommitKeysKeeps == ASSUME PeerInv, NEW c \in Calls, CommitKeys(c) PROVE PeerInv'
<1> DEFINE s == call[c]
           surpassed(d) == call[d].passed \/ (call[d].pc \notin {"off", "done"}
                                                /\ call[d].started > s.started)
           moved(d) == [call[d] EXCEPT !.passed = surpassed(d)]
           r == [s EXCEPT !.pc = "reading"]
<1>1. /\ s \in KeyCall /\ s.pc = "inserting" /\ s.left = {} /\ TxIsRight(s, tx = c)
      /\ FillIsRight(s, keyRows, since) /\ keyRows \in SUBSET KeyRow
      /\ s.started <= clock /\ s.started \in Nat /\ clock \in Nat /\ s.got \in DOMAIN Editions
      /\ UNCHANGED <<edition, clock, keyRows, since>> /\ tx' = NoCall /\ savedRows' = {}
  BY DEF PeerInv, PeerTypes, CommitKeys, KeyCall
<1>2. call' = [d \in Calls |-> IF d = c THEN r ELSE moved(d)]
  BY DEF CommitKeys
<1>3. r \in KeyCall /\ r.pc = "reading" /\ r.started = s.started
  BY <1>1 DEF KeyCall
<1>4. ASSUME NEW d \in Calls
      PROVE  /\ moved(d) \in KeyCall /\ moved(d).pc = call[d].pc /\ moved(d).started = call[d].started
             /\ moved(d).got = call[d].got /\ moved(d).left = call[d].left
             /\ moved(d).found = call[d].found /\ moved(d).peeked = call[d].peeked
             /\ moved(d).failed = call[d].failed /\ moved(d).passed = surpassed(d)
  <2>1. call[d] \in KeyCall /\ surpassed(d) \in BOOLEAN
    BY DEF PeerInv, PeerTypes, KeyCall
  <2> HIDE DEF surpassed
  <2> QED BY <2>1 DEF KeyCall
<1>5. \A k \in keyRows : k.at = s.started
  BY <1>1 DEF FillIsRight
<1>6. PutWhole(keyRows, clock, since)
  <2> SUFFICES ASSUME keyRows # {} PROVE PutWhole(keyRows, clock, since)
    BY DEF PutWhole
  <2>1. Devices(keyRows) = Editions[s.got] /\ s.got >= since[s.started + 1]
    BY <1>1 DEF FillIsRight
  <2>2. {k.at : k \in keyRows} = {s.started}
    BY <1>5
  <2>3. s.started \in 0 .. clock
    BY <1>1
  <2> QED BY <1>1, <2>1, <2>2, <2>3 DEF PutWhole
<1>7. Committed(tx', keyRows', savedRows') = keyRows
  BY <1>1 DEF Committed
<1> HIDE DEF moved, r
<1>8. PeerTypes'
  <2>1. call' \in [Calls -> KeyCall] /\ \A d \in Calls : call'[d].started <= clock
    BY <1>1, <1>2, <1>3, <1>4 DEF PeerInv, PeerTypes
  <2> QED BY <1>1, <2>1 DEF PeerInv, PeerTypes
<1>9. ASSUME NEW d \in Calls
      PROVE  TxIsRight(call'[d], FALSE) /\ FillIsRight(call'[d], keyRows, since)
  <2>1. CASE d = c
    BY <1>2, <1>3, <2>1 DEF TxIsRight, FillIsRight
  <2>2. CASE d # c
    <3>1. tx = c
      BY <1>1 DEF TxIsRight
    <3>2. call'[d] = moved(d)
      BY <1>2, <2>2
    <3>3. TxIsRight(call[d], FALSE) /\ FillIsRight(call[d], keyRows, since)
      BY <2>2, <3>1 DEF PeerInv
    <3> QED BY <1>4, <3>2, <3>3 DEF TxIsRight, FillIsRight
  <2> QED BY <2>1, <2>2
<1>10. ASSUME NEW d \in Calls PROVE AnswerIsRight(call'[d], keyRows, clock, since)
  <2>1. Ttl \in Nat
    BY PeerKeysAssumption
  <2>2. CASE d = c
    <3>1. call'[d] = r
      BY <1>2, <2>2
    <3>2. FreshFor(keyRows, r)
      BY <1>1, <1>3, <1>5, <2>1 DEF FreshFor
    <3> QED BY <1>3, <3>1, <3>2 DEF AnswerIsRight
  <2>3. CASE d # c
    <3>1. call'[d] = moved(d)
      BY <1>2, <2>3
    <3>2. AnswerIsRight(call[d], Committed(tx, keyRows, savedRows), clock, since)
      BY DEF PeerInv
    <3>3. call[d].started \in Nat
      BY DEF PeerInv, PeerTypes, KeyCall
    <3>4. call[d].pc = "reading" => surpassed(d) \/ FreshFor(keyRows, moved(d))
      <4> SUFFICES ASSUME call[d].pc = "reading", ~surpassed(d) PROVE FreshFor(keyRows, moved(d))
        OBVIOUS
      <4>1. call[d].started <= s.started
        BY <1>1, <3>3
      <4>2. moved(d).started = call[d].started
        BY <1>4
      <4> QED BY <1>1, <1>5, <2>1, <3>3, <4>1, <4>2 DEF FreshFor
    <3>5. call[d].passed => surpassed(d)
      OBVIOUS
    <3> HIDE DEF surpassed
    <3>6. /\ moved(d).pc = call[d].pc /\ moved(d).started = call[d].started
          /\ moved(d).found = call[d].found /\ moved(d).peeked = call[d].peeked
          /\ moved(d).failed = call[d].failed /\ moved(d).passed = surpassed(d)
      BY <1>4
    <3>7. AnswerIsRight(moved(d), keyRows, clock, since)
      BY <3>2, <3>4, <3>5, <3>6 DEF AnswerIsRight, Excuses, FreshFor
    <3> QED BY <3>1, <3>7
  <2> QED BY <2>2, <2>3
<1>11. \A d \in Calls : tx' # d
  BY <1>1, PeerKeysAssumption DEF NoCall
<1>12. \A d \in Calls :
         /\ TxIsRight(call'[d], tx' = d) /\ FillIsRight(call'[d], keyRows', since')
         /\ AnswerIsRight(call'[d], Committed(tx', keyRows', savedRows'), clock', since')
  BY <1>1, <1>7, <1>9, <1>10, <1>11
<1>13. PutWhole(Committed(tx', keyRows', savedRows'), clock', since')
  BY <1>1, <1>6, <1>7
<1> QED BY <1>8, <1>12, <1>13 DEF PeerInv

LEMMA CallsDieKeeps == ASSUME PeerInv, CallsDie PROVE PeerInv'
<1>1. /\ UNCHANGED <<edition, clock, since>> /\ tx' = NoCall /\ savedRows' = {}
      /\ keyRows' = Committed(tx, keyRows, savedRows) /\ call' = [c \in Calls |-> IdleCall]
  BY DEF CallsDie, Committed
<1>2. Committed(tx', keyRows', savedRows') = Committed(tx, keyRows, savedRows)
  BY <1>1 DEF Committed
<1>3. PeerTypes'
  <2>1. keyRows' \in SUBSET KeyRow
    BY <1>1 DEF PeerInv, PeerTypes, Committed
  <2>2. call' \in [Calls -> KeyCall] /\ \A c \in Calls : call'[c].started <= clock
    BY <1>1, IdleKeyCall DEF PeerInv, PeerTypes
  <2> QED BY <1>1, <2>1, <2>2 DEF PeerInv, PeerTypes
<1>4. \A c \in Calls : call'[c] = IdleCall /\ tx' # c
  BY <1>1, PeerKeysAssumption DEF NoCall
<1>5. \A c \in Calls :
        /\ TxIsRight(call'[c], tx' = c) /\ FillIsRight(call'[c], keyRows', since')
        /\ AnswerIsRight(call'[c], Committed(tx', keyRows', savedRows'), clock', since')
  BY <1>4, IdleKeyCall DEF TxIsRight, FillIsRight, AnswerIsRight
<1>6. PutWhole(Committed(tx', keyRows', savedRows'), clock', since')
  BY <1>1, <1>2 DEF PeerInv
<1> QED BY <1>3, <1>5, <1>6 DEF PeerInv

LEMMA PeerPublishesKeeps == ASSUME PeerInv, PeerPublishes PROVE PeerInv'
<1>1. /\ edition' = edition + 1 /\ edition < Len(Editions)
      /\ UNCHANGED <<clock, keyRows, tx, savedRows, call, since>>
  BY DEF PeerPublishes
<1>2. edition \in Nat /\ edition' \in DOMAIN Editions /\ edition <= edition'
  BY <1>1, PeerKeysAssumption DEF PeerInv, PeerTypes
<1>3. \A i \in 1 .. clock + 1 : since[i] <= edition'
  <2> SUFFICES ASSUME NEW i \in 1 .. clock + 1 PROVE since[i] <= edition'
    OBVIOUS
  <2>1. since[i] <= edition /\ since[i] \in Nat
    BY DEF PeerInv, PeerTypes
  <2> QED BY <1>1, <1>2, <2>1
<1>4. PeerTypes'
  BY <1>1, <1>2, <1>3 DEF PeerInv, PeerTypes
<1> QED BY <1>1, <1>4 DEF PeerInv

LEMMA TimePassesKeeps == ASSUME PeerInv, TimePasses PROVE PeerInv'
<1>1. /\ clock' = clock + 1 /\ since' = Append(since, edition)
      /\ UNCHANGED <<edition, keyRows, tx, savedRows, call>>
  BY DEF TimePasses
<1>2. /\ clock \in Nat /\ edition \in Nat /\ since \in Seq(Nat) /\ Len(since) = clock + 1
      /\ \A i \in 1 .. clock + 1 : since[i] <= edition
  BY PeerKeysAssumption DEF PeerInv, PeerTypes
<1>3. /\ since' \in Seq(Nat) /\ Len(since') = clock' + 1
      /\ \A i \in 1 .. clock + 1 : since'[i] = since[i]
      /\ since'[clock + 2] = edition
  BY <1>1, <1>2
<1>4. \A i \in 1 .. clock' + 1 : since'[i] <= edition'
  <2> SUFFICES ASSUME NEW i \in 1 .. clock + 2 PROVE since'[i] <= edition
    BY <1>1, <1>2
  <2>1. i \in 1 .. clock + 1 \/ i = clock + 2
    BY <1>2
  <2> QED BY <1>2, <1>3, <2>1
<1>5. PeerTypes'
  <2>1. \A c \in Calls : call[c].started <= clock /\ call[c].started \in Nat
    BY DEF PeerInv, PeerTypes, KeyCall
  <2>2. clock' \in Nat /\ \A c \in Calls : call'[c].started <= clock'
    BY <1>1, <1>2, <2>1
  <2> QED BY <1>1, <1>3, <1>4, <2>2 DEF PeerInv, PeerTypes
<1>6. \A rs : PutWhole(rs, clock, since) => PutWhole(rs, clock', since')
  <2> SUFFICES ASSUME NEW rs, PutWhole(rs, clock, since) PROVE PutWhole(rs, clock', since')
    OBVIOUS
  <2>1. clock' \in Nat /\ clock <= clock'
    BY <1>1, <1>2
  <2> QED BY <1>2, <1>3, <2>1, WholeStays
<1>7. ASSUME NEW c \in Calls
      PROVE  /\ TxIsRight(call[c], tx = c) /\ FillIsRight(call[c], keyRows, since')
             /\ AnswerIsRight(call[c], Committed(tx, keyRows, savedRows), clock', since')
  <2>1. /\ TxIsRight(call[c], tx = c) /\ FillIsRight(call[c], keyRows, since)
        /\ AnswerIsRight(call[c], Committed(tx, keyRows, savedRows), clock, since)
    BY DEF PeerInv
  <2>2. call[c].started \in Nat /\ call[c].started <= clock
    BY DEF PeerInv, PeerTypes, KeyCall
  <2>3. call[c].started + 1 \in 1 .. clock + 1
    BY <1>2, <2>2
  <2>4. since'[call[c].started + 1] = since[call[c].started + 1]
    BY <1>3, <2>3
  <2>5. FillIsRight(call[c], keyRows, since')
    BY <2>1, <2>4 DEF FillIsRight
  <2>6. AnswerIsRight(call[c], Committed(tx, keyRows, savedRows), clock', since')
    BY <1>6, <2>1 DEF AnswerIsRight
  <2> QED BY <2>1, <2>5, <2>6
<1>8. \A c \in Calls :
        /\ TxIsRight(call'[c], tx' = c) /\ FillIsRight(call'[c], keyRows', since')
        /\ AnswerIsRight(call'[c], Committed(tx', keyRows', savedRows'), clock', since')
  BY <1>1, <1>7
<1>9. PutWhole(Committed(tx', keyRows', savedRows'), clock', since')
  BY <1>1, <1>6 DEF PeerInv
<1> QED BY <1>5, <1>8, <1>9 DEF PeerInv

\* What a call for a peer's devices answers is one edition the peer has published, and no
\* older than the TTL, with the exceptions that PeersAreKnown names
\* (peer-keys.ts:26-28, chat-db/peer-keys.ts:97-101).
THEOREM PeersHold == PeerKeysSpec => [](PeerInv /\ PeersAreKnown)
<1>1. PeerKeysInit => PeerInv
  <2> SUFFICES ASSUME PeerKeysInit PROVE PeerInv
    OBVIOUS
  <2>1. edition = 1 /\ 1 \in DOMAIN Editions /\ clock = 0 /\ since = <<1>> /\ tx = NoCall
    BY PeerKeysAssumption DEF PeerKeysInit
  <2>2. since \in Seq(Nat) /\ Len(since) = clock + 1 /\ \A i \in 1 .. clock + 1 : since[i] <= edition
    BY <2>1
  <2>3. \A c \in Calls : call[c] = IdleCall /\ tx # c
    BY <2>1, PeerKeysAssumption DEF PeerKeysInit, NoCall
  <2>4. PeerTypes
    BY <2>1, <2>2, <2>3, IdleKeyCall DEF PeerKeysInit, PeerTypes
  <2>5. PutWhole(Committed(tx, keyRows, savedRows), clock, since)
    BY <2>1 DEF PeerKeysInit, PutWhole, Committed
  <2>6. \A c \in Calls :
          /\ TxIsRight(call[c], tx = c) /\ FillIsRight(call[c], keyRows, since)
          /\ AnswerIsRight(call[c], Committed(tx, keyRows, savedRows), clock, since)
    BY <2>3, IdleKeyCall DEF TxIsRight, FillIsRight, AnswerIsRight
  <2> QED BY <2>4, <2>5, <2>6 DEF PeerInv
<1>2. PeerInv /\ [PeerKeysNext]_peerKeyVars => PeerInv'
  <2>1. PeerInv /\ UNCHANGED peerKeyVars => PeerInv'
    BY DEF peerKeyVars, PeerInv, PeerTypes
  <2>2. PeerInv /\ PeerKeysNext => PeerInv'
    BY StartCallKeeps, CheckStaleKeeps, AskDirectoryKeeps, AskFailsKeeps, BeginTxKeeps,
       DeleteDevicesKeeps, InsertDeviceKeeps, CommitKeysKeeps, StatementFailsKeeps,
       RollbackKeysKeeps, ReadKeysKeeps, CallsDieKeeps, PeerPublishesKeeps, TimePassesKeeps
       DEF PeerKeysNext
  <2> QED BY <2>1, <2>2
<1>3. PeerInv => PeersAreKnown
  <2> SUFFICES ASSUME PeerInv PROVE CacheIsWhole /\ AnswersAreWhole /\ AnswersAreFresh
    BY DEF PeersAreKnown
  <2>1. \A rs : PutWhole(rs, clock, since) => Whole(rs)
    BY DEF PutWhole, Whole
  <2>2. CacheIsWhole
    BY <2>1 DEF PeerInv, CacheIsWhole, Committed
  <2>3. \A c \in Calls : AnswerIsRight(call[c], Committed(tx, keyRows, savedRows), clock, since)
    BY DEF PeerInv
  <2>4. AnswersAreWhole
    BY <2>1, <2>3 DEF AnswersAreWhole, AnswerIsRight
  <2>5. AnswersAreFresh
    BY <2>3 DEF AnswersAreFresh, AnswerIsRight, Excuses, FreshFor
  <2> QED BY <2>2, <2>4, <2>5
<1> QED BY <1>1, <1>2, <1>3, PTL DEF PeerKeysSpec

ClockInv == clock <= MaxTime

LEMMA PeerTypesHold == PeerKeysSpec => []PeerKeysTypeOK
<1>1. PeerInv /\ ClockInv => PeerKeysTypeOK
  <2> SUFFICES ASSUME PeerTypes, clock <= MaxTime PROVE PeerKeysTypeOK
    BY DEF PeerInv, ClockInv
  <2>1. clock \in 0 .. MaxTime
    BY PeerKeysAssumption DEF PeerTypes
  <2>2. ASSUME NEW c \in Calls
        PROVE  /\ call[c].pc \in {"off", "checking", "fetching", "begin", "deleting",
                                  "inserting", "rolling", "reading", "done"}
               /\ call[c].got \in DOMAIN Editions
    BY DEF PeerTypes, KeyCall
  <2> QED BY <2>1, <2>2 DEF PeerTypes, PeerKeysTypeOK
<1>2. PeerKeysInit => ClockInv
  BY PeerKeysAssumption DEF PeerKeysInit, ClockInv
<1>3. PeerInv /\ ClockInv /\ [PeerKeysNext]_peerKeyVars => ClockInv'
  <2> SUFFICES ASSUME PeerInv, ClockInv, [PeerKeysNext]_peerKeyVars PROVE ClockInv'
    OBVIOUS
  <2>1. UNCHANGED clock \/ TimePasses
    BY DEF peerKeyVars, PeerKeysNext, StartCall, CheckStale, AskDirectory, AskFails, BeginTx,
           DeleteDevices, InsertDevice, CommitKeys, StatementFails, RollbackKeys, ReadKeys, CallsDie,
           PeerPublishes
  <2>2. clock < MaxTime => clock + 1 <= MaxTime
    BY PeerKeysAssumption DEF PeerInv, PeerTypes
  <2> QED BY <2>1, <2>2 DEF TimePasses, ClockInv
<1> QED BY <1>1, <1>2, <1>3, PeersHold, PTL DEF PeerKeysSpec

\* What is sealed can be opened, by the right cipher and with the peers' keys, for any
\* accounts, rows, calls, editions and failures.
THEOREM CiphersAgree == CiphersSpec => []SealedIsOpened
<1>1. SealingIsSound /\ PeersAreKnown => SealedIsOpened
  BY DEF SealedIsOpened
<1> QED BY <1>1, SealingHolds, PeersHold, PTL DEF CiphersSpec

=============================================================================
