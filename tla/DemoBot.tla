------------------------------ MODULE DemoBot ------------------------------
(***************************************************************************)
(* The demo concierge (services/demo-bot): one run of `bot add` after      *)
(* another, each a process that loads the bot's state file, puts a user    *)
(* into the lobby, on the server and in the MLS group, and may be killed,  *)
(* or give up on a failed call, between any two of its writes.             *)
(***************************************************************************)
EXTENDS Integers, Sequences, FiniteSets

CONSTANTS
  Visitors,    \* the users that are added
  MaxLaunches  \* bound: runs

ASSUME DemoBotAssumption == MaxLaunches \in Nat

VARIABLES
  lobbies,     \* the chats on the server: [users, group], in the order of their creation
  mirror,      \* mirror[i]: lobby i in the state file: Absent, or its group, 0 without one
  engineNow,   \* the groups of the engine in memory, and their epochs
  engineSaved, \* those of the snapshot in the state file
  commits,     \* commits[g]: the epochs published for group g
  welcomed,    \* the Welcomes on the server: [who, group, epoch]
  keyed,       \* users with a KeyPackage on the server
  job,         \* the run under way: [pc, who, lobby, group]
  launches,    \* counter of the bound
  outcome,     \* history: how the latest run for a user ended
  cut          \* history: what a run was about to do when it was killed or a call failed

botVars == <<lobbies, mirror, engineNow, engineSaved, commits, welcomed, keyed, job, launches,
             outcome, cut>>

Absent == -1
NoJob  == [pc |-> "none"]
GroupIds == 1 .. MaxLaunches

DemoBotInit ==
  /\ lobbies = <<>> /\ mirror = [i \in GroupIds |-> Absent]
  /\ engineNow = [g \in GroupIds |-> Absent] /\ engineSaved = engineNow
  /\ commits = [g \in GroupIds |-> {}] /\ welcomed = {} /\ keyed = {}
  /\ job = NoJob /\ launches = 0 /\ outcome = [u \in Visitors |-> "none"] /\ cut = {}

-----------------------------------------------------------------------------
At(pc) == job.pc = pc
Goes(pc) == job' = [job EXCEPT !.pc = pc] /\ UNCHANGED <<launches, outcome, cut>>
Ends(how) ==
  job' = NoJob /\ outcome' = [outcome EXCEPT ![job.who] = how] /\ UNCHANGED <<launches, cut>>

stateFileVars   == <<mirror, engineSaved>>
remoteVars == <<lobbies, commits, welcomed, keyed>>

\* The app of the user publishes KeyPackages.
PublishesKeys(u) ==
  /\ u \notin keyed /\ keyed' = keyed \cup {u}
  /\ UNCHANGED <<lobbies, mirror, engineNow, engineSaved, commits, welcomed, job, launches,
                 outcome, cut>>

\* createBot(): bootstrap() loads the snapshot.
Launch(u) ==
  /\ job = NoJob /\ launches < MaxLaunches /\ launches' = launches + 1
  /\ job' = [pc |-> "look", who |-> u, lobby |-> 0, group |-> 0]
  /\ engineNow' = engineSaved /\ UNCHANGED <<stateFileVars, remoteVars, outcome, cut>>

\* The lobbies with a group in the state file; the first is taken.
FoundedAny == {i \in GroupIds : mirror[i] # Absent}   \* a mutant: one without a group will do
Founded == {i \in GroupIds : mirror[i] > 0}

Look ==
  /\ At("look") /\ UNCHANGED <<stateFileVars, engineNow, remoteVars, launches, outcome, cut>>
  /\ \/ Founded = {} /\ job' = [job EXCEPT !.pc = "create"]
     \/ \E first \in Founded :
          /\ \A i \in Founded : first <= i
          /\ job' = [job EXCEPT !.pc = "row", !.lobby = first, !.group = mirror[first]]

\* chat.addMembers, chat.create
AddRow ==
  /\ At("row") /\ lobbies' = [lobbies EXCEPT ![job.lobby].users = @ \cup {job.who}]
  /\ Goes("fetch") /\ UNCHANGED <<stateFileVars, engineNow, commits, welcomed, keyed>>

CreateLobby ==
  /\ At("create") /\ lobbies' = Append(lobbies, [users |-> {job.who}, group |-> 0])
  /\ job' = [job EXCEPT !.pc = "mirror", !.lobby = Len(lobbies')]
  /\ UNCHANGED <<stateFileVars, engineNow, commits, welcomed, keyed, launches, outcome, cut>>

\* store.upsertChat()
MirrorLobby ==
  /\ At("mirror") /\ mirror' = [mirror EXCEPT ![job.lobby] = 0]
  /\ Goes("group") /\ UNCHANGED <<engineSaved, engineNow, remoteVars>>

\* client.createGroup(): a new group in the engine, its row and the chat's link in the
\* state file, and the snapshot. Its id is as good as the lobby's number.
CreateGroup ==
  /\ At("group") /\ engineNow' = [engineNow EXCEPT ![job.lobby] = 0]
  /\ job' = [job EXCEPT !.pc = "tie", !.group = job.lobby]
  /\ UNCHANGED <<stateFileVars, remoteVars, launches, outcome, cut>>

TieGroup ==
  /\ At("tie") /\ mirror' = [mirror EXCEPT ![job.lobby] = job.group]
  /\ Goes("save") /\ UNCHANGED <<engineSaved, engineNow, remoteVars>>

SaveGroup ==
  /\ At("save") /\ engineSaved' = engineNow
  /\ Goes("link") /\ UNCHANGED <<mirror, engineNow, remoteVars>>

\* chat.linkMlsGroup
LinkLobby ==
  /\ At("link") /\ lobbies' = [lobbies EXCEPT ![job.lobby].group = job.group]
  /\ Goes("fetch") /\ UNCHANGED <<stateFileVars, engineNow, commits, welcomed, keyed>>

\* addMembersByAccounts(): without a KeyPackage, or the group, it throws, and the run
\* ends with a warning.
FetchKeys ==
  /\ At("fetch") /\ UNCHANGED <<stateFileVars, engineNow, remoteVars>>
  /\ IF job.who \in keyed THEN Goes("add") ELSE Ends("keyless")

Holds(g) == g \in GroupIds /\ engineNow[g] # Absent
AddToTree ==
  /\ At("add") /\ UNCHANGED <<mirror, remoteVars>>
  /\ IF Holds(job.group)
     THEN /\ engineNow' = [engineNow EXCEPT ![job.group] = @ + 1] /\ engineSaved' = engineNow'
          /\ Goes("publish")
     ELSE Ends("failed") /\ UNCHANGED <<engineNow, engineSaved>>

Epoch == engineNow[job.group]
PublishTree ==
  /\ At("publish") /\ UNCHANGED <<stateFileVars, engineNow, lobbies, welcomed, keyed>>
  /\ IF Epoch \in commits[job.group] THEN Ends("failed") /\ UNCHANGED commits
     ELSE commits' = [commits EXCEPT ![job.group] = @ \cup {Epoch}] /\ Goes("welcome")

SendWelcome ==
  /\ At("welcome") /\ Ends("added")
  /\ welcomed' = welcomed \cup {[who |-> job.who, group |-> job.group, epoch |-> Epoch]}
  /\ UNCHANGED <<stateFileVars, engineNow, lobbies, commits, keyed>>

\* The process is killed, or a call fails, before the next step. (A call that fails
\* after the server has done it is one after which the process is killed.)
CutShort ==
  /\ job # NoJob /\ job' = NoJob /\ cut' = cut \cup {job.pc}
  /\ outcome' = [outcome EXCEPT ![job.who] = "cut"]
  /\ UNCHANGED <<stateFileVars, engineNow, remoteVars, launches>>

-----------------------------------------------------------------------------
DemoBotNext ==
  \/ \E u \in Visitors : PublishesKeys(u) \/ Launch(u)
  \/ Look \/ AddRow \/ CreateLobby \/ MirrorLobby \/ CreateGroup \/ TieGroup \/ SaveGroup
  \/ LinkLobby \/ FetchKeys \/ AddToTree \/ PublishTree \/ SendWelcome \/ CutShort

DemoBotSpec == DemoBotInit /\ [][DemoBotNext]_botVars

-----------------------------------------------------------------------------
\* Properties

DemoBotTypeOK ==
  /\ \A i \in DOMAIN lobbies : lobbies[i].users \subseteq Visitors
                                 /\ lobbies[i].group \in {0} \cup GroupIds
  /\ mirror \in [GroupIds -> -1 .. MaxLaunches]
  /\ engineNow \in [GroupIds -> -1 .. MaxLaunches]
  /\ engineSaved \in [GroupIds -> -1 .. MaxLaunches]
  /\ \A g \in GroupIds : commits[g] \subseteq 1 .. MaxLaunches
  /\ keyed \subseteq Visitors /\ Len(lobbies) <= launches /\ launches \in 0 .. MaxLaunches

\* Who was added has a row in a lobby and a Welcome to the lobby's group, and the chat
\* is linked to it, so that his app shows the lobby; unless a run was cut short before
\* the link, which no later run makes up for (bot.ts:194-225).
AddedIsMember ==
  \A u \in Visitors : outcome[u] = "added" =>
    \E i \in DOMAIN lobbies :
      /\ u \in lobbies[i].users /\ \E w \in welcomed : w.who = u /\ w.group = mirror[i]
      /\ lobbies[i].group = mirror[i] \/ "link" \in cut

\* A run that is not cut short fails for want of a KeyPackage only, which a retry makes
\* up for (the message at bot.ts:235-237), unless a run was cut short between the tie
\* of the lobby to its group and the snapshot that has the group: then all fail.
RetriesSucceed == \A u \in Visitors : outcome[u] = "failed" => "save" \in cut

\* There is one lobby, unless a run was cut short before it had tied the first.
OneLobby == Len(lobbies) > 1 => cut \cap {"mirror", "group", "tie"} # {}

\* The commits of a group are without a gap, so that earlier members can follow, unless
\* a run was cut short between its saved commit and the publication.
CommitsAreDense ==
  \A g \in GroupIds : "publish" \in cut \/ \A e \in commits[g] : 1 .. e \subseteq commits[g]

\* The four of them.
LobbyIsSound == AddedIsMember /\ RetriesSucceed /\ OneLobby /\ CommitsAreDense

=============================================================================
