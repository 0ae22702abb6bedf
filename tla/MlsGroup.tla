------------------------------ MODULE MlsGroup ------------------------------
(***************************************************************************)
(* One MLS group kept by several devices: MlsClient (chat-mls-core/client),*)
(* the Rust engine under it, the two tables it keeps its state in, and the *)
(* delivery service behind it (routers/mls/groups.ts).                     *)
(*                                                                         *)
(* The state of a group at a device is the sequence of commits that led to *)
(* it: two engines understand each other iff their sequences are equal,    *)
(* and the length of the sequence is the epoch.                            *)
(***************************************************************************)
EXTENDS Naturals, Sequences, FiniteSets, Ranks

CONSTANTS
  Devices,      \* one per account (keys.ts keeps one device row per account)
  Founder,      \* the device that created the group
  MaxEvents,    \* bound: membership changes, extra ticks, crashes, failed calls, together
  PageMax,      \* FETCH_PENDING_COMMITS_PAGE_MAX
  Ticks,        \* bound: calls of tick() at the same time, <<device, n>>
  None

ASSUME GroupAssumption ==
  /\ Founder \in Devices
  /\ MaxEvents \in Nat
  /\ PageMax \in Nat \ {0}
  /\ Ticks \subseteq Devices \X Nat
  /\ None \notin Seq([by : Devices, adds : SUBSET Devices, removes : SUBSET Devices])
  /\ None \notin Nat

VARIABLES
  roster,       \* accounts with a ChatMember row (the server's member list)
  log,          \* log[e]: the commit the server stored for epoch e, or None
  welcomes,     \* welcomes[d]: the GroupWelcome rows addressed to d
  engine,       \* engine[d]: d's group state in memory, None when it has no group
  snapshot,     \* snapshot[d]: the group state in d's mls_engine_state row
  cursor,       \* cursor[d]: last_applied_epoch of d's mls_group row, None without a row
  op,           \* op[d]: the membership change d's user has started
  tick,         \* tick[t]: a call of tick() on the device t[1]
  ops, faults,  \* counters of the bounds
  stray,        \* history: commits merged by their author and not stored for their epoch
  unremoved,    \* history: accounts whose removal stopped after the server's list,
                \* or found somebody about to add them again
  rejoins       \* history: devices that fetched an invitation back, or several at once

serverVars == <<roster, log, welcomes>>
deviceVars == <<engine, snapshot, cursor>>
history    == <<stray, unremoved, rejoins>>
vars == <<roster, log, welcomes, engine, snapshot, cursor, op, tick, ops, faults,
          stray, unremoved, rejoins>>

-----------------------------------------------------------------------------
\* The engine

\* A commit: its author, and the accounts it adds or removes.
Commit == [by : Devices, adds : SUBSET Devices, removes : SUBSET Devices]

Epochs == 1 .. MaxEvents

\* The commit i of path (0: the creation of the group) put d into the tree.
PutIn(path, i, d) == IF i = 0 THEN d = Founder ELSE d \in path[i].adds

\* The accounts in the tree of a group state: put in, and not removed since.
Members(path) ==
  {d \in Devices : \E i \in 0 .. Len(path) :
     PutIn(path, i, d) /\ \A j \in 1 .. Len(path) : i <= j => d \notin path[j].removes}

\* The group exists in the engine and has not evicted its own device.
Active(d) == engine[d] # None /\ d \in Members(engine[d])

Parent(path) == SubSeq(path, 1, Len(path) - 1)

\* add_members merges the pending commit before it returns. A tree does not
\* take a second leaf with the same signature key.
EngineAdd(d, who) == Append(engine[d], [by |-> d, adds |-> who, removes |-> {}])
CanAdd(d, who) == Active(d) /\ who \cap Members(engine[d]) = {}

EngineRemove(d, who) == Append(engine[d], [by |-> d, adds |-> {}, removes |-> who])
CanRemove(d, who) == Active(d) /\ who \subseteq Members(engine[d])

\* process_message takes a commit of another member on the very state it holds.
CanProcess(d, path, commit) ==
  /\ path # None /\ d \in Members(path)
  /\ Len(commit) > 0 /\ Parent(commit) = path
  /\ commit[Len(commit)].by # d

-----------------------------------------------------------------------------
\* The delivery service

\* chat.addMembers skips the accounts that have a row; any member may add.
AddNobody(who) == roster' = roster \cup (who \cap roster)  \* a mutant: the filter inverted
AddRows(who) == roster' = roster \cup (who \ roster)
RemoveRows(who) == roster' = roster \ who

EpochFree(e) == log[e] = None

\* The only thing the server enforces: one commit for each epoch.
AcceptsAlways(e) == TRUE                \* a mutant: no unique constraint
Accepts(e) == EpochFree(e)

StoreCommit(commit) == log' = [log EXCEPT ![Len(commit)] = commit]

\* The rows of the epochs, oldest first, a page of them.
Page(stored) ==
  LET size == IF Cardinality(stored) < PageMax THEN Cardinality(stored) ELSE PageMax
  IN  [i \in 1 .. size |-> log[CHOOSE e \in stored : Rank(stored, e) = i]]

FetchPastSince(since) == Page({e \in Epochs : e > since /\ ~EpochFree(e)})  \* mutant: gt
FetchPendingCommits(since) == Page({e \in Epochs : e >= since /\ ~EpochFree(e)})

StoreFirstWelcome(who, path) ==         \* a mutant: one row for the whole call
  welcomes' = [welcomes EXCEPT ![CHOOSE d \in who : TRUE] = @ \cup {path}]
StoreWelcomes(who, path) ==
  welcomes' = [d \in Devices |-> welcomes[d] \cup (IF d \in who THEN {path} ELSE {})]

-----------------------------------------------------------------------------
\* A device

IdleOp   == [pc |-> "idle", who |-> {}, commit |-> None]
TicksOf(d) == {t \in Ticks : t[1] = d}

IdleTick == [pc |-> "idle", got |-> {}, page |-> <<>>]

PersistSnapshot(d) == snapshot' = [snapshot EXCEPT ![d] = engine'[d]]

CursorPastEpoch(d, e) == cursor' = [cursor EXCEPT ![d] = e + 1]  \* a mutant: the next epoch
SetLastAppliedEpoch(d, e) == cursor' = [cursor EXCEPT ![d] = e]

\* An existing row keeps its cursor.
UpsertGroup(d, epoch) ==
  cursor' = [cursor EXCEPT ![d] = IF @ = None THEN epoch ELSE @]

Budget == ops + faults < MaxEvents

Fault == Budget /\ faults' = faults + 1

Init ==
  /\ roster = {Founder}
  /\ log = [e \in Epochs |-> None]
  /\ welcomes = [d \in Devices |-> {}]
  /\ engine = [d \in Devices |-> IF d = Founder THEN <<>> ELSE None]
  /\ snapshot = engine
  /\ cursor = [d \in Devices |-> IF d = Founder THEN 0 ELSE None]
  /\ op = [d \in Devices |-> IdleOp]
  /\ tick = [t \in Ticks |-> IdleTick]
  /\ ops = 0 /\ faults = 0
  /\ stray = {} /\ unremoved = {} /\ rejoins = {}

-----------------------------------------------------------------------------
\* Membership changes (info.tsx onAddMember, onRemoveMember; create-chat.ts)

\* The user adds accounts: first the server's member list.
StartAdd(d, who) ==
  /\ op[d] = IdleOp /\ Budget
  /\ d \in roster /\ who # {} /\ d \notin who
  /\ AddRows(who)
  /\ op' = [op EXCEPT ![d] = [pc |-> "keys", who |-> who, commit |-> None]]
  /\ ops' = ops + 1
  /\ UNCHANGED <<log, welcomes, deviceVars, tick, faults, history>>

\* mls.keys.fetchForAccounts answers with KeyPackages of some of the accounts;
\* the others are left out without an error. The engine merges the commit and
\* the snapshot is stored before anything is sent (persistSnapshot at 579).
AddMembers(d) ==
  /\ op[d].pc = "keys"
  /\ \E got \in SUBSET op[d].who \ {{}} :
       /\ CanAdd(d, got)
       /\ engine' = [engine EXCEPT ![d] = EngineAdd(d, got)]
       /\ PersistSnapshot(d)
       /\ op' = [op EXCEPT ![d] = [pc |-> "publish", who |-> got, commit |-> EngineAdd(d, got)]]
  /\ UNCHANGED <<serverVars, cursor, tick, ops, faults, history>>

\* No KeyPackage, no group, evicted, or the account is in the tree already.
AddRefused(d) ==
  /\ op[d].pc = "keys"
  /\ op' = [op EXCEPT ![d] = IdleOp]
  /\ UNCHANGED <<serverVars, deviceVars, tick, ops, faults, history>>

\* An add whose rows are written and whose commit is not: nothing ties the two.
Adding == {a \in Devices : op[a].pc = "keys"}

StartRemove(d, who) ==
  /\ op[d] = IdleOp /\ Budget
  /\ d \in roster /\ who # {} /\ who \subseteq roster \ {d}
  /\ RemoveRows(who)
  /\ op' = [op EXCEPT ![d] = [pc |-> "remove", who |-> who, commit |-> None]]
  /\ ops' = ops + 1
  /\ unremoved' = unremoved \cup (who \cap UNION {op[a].who : a \in Adding})
  /\ UNCHANGED <<log, welcomes, deviceVars, tick, faults, stray, rejoins>>

RemoveMembers(d) ==
  /\ op[d].pc = "remove"
  /\ CanRemove(d, op[d].who)
  /\ engine' = [engine EXCEPT ![d] = EngineRemove(d, op[d].who)]
  /\ PersistSnapshot(d)
  /\ op' = [op EXCEPT ![d] = [pc |-> "publish", who |-> op[d].who,
                              commit |-> EngineRemove(d, op[d].who)]]
  /\ UNCHANGED <<serverVars, cursor, tick, ops, faults, history>>

\* The accounts d is removing stay in the tree if d stops here.
Removing(d) ==
  IF op[d].pc = "remove" THEN op[d].who
  ELSE IF op[d].pc = "publish" THEN op[d].commit[Len(op[d].commit)].removes ELSE {}
AbandonRemoval(d) == unremoved' = unremoved \cup Removing(d)

RemoveRefused(d) ==
  /\ op[d].pc = "remove" /\ ~CanRemove(d, op[d].who)
  /\ AbandonRemoval(d)
  /\ op' = [op EXCEPT ![d] = IdleOp]
  /\ UNCHANGED <<serverVars, deviceVars, tick, ops, faults, stray, rejoins>>

\* The server stores the commit; the answer may be lost on the way back. (The bound
\* on events keeps every commit within Epochs.)
PublishCommit(d) ==
  /\ op[d].pc = "publish"
  /\ Len(op[d].commit) \in Epochs
  /\ Accepts(Len(op[d].commit))
  /\ StoreCommit(op[d].commit)
  /\ \/ op' = [op EXCEPT ![d].pc = "published"] /\ UNCHANGED faults
     \/ op' = [op EXCEPT ![d] = IdleOp] /\ Fault
  /\ UNCHANGED <<roster, welcomes, deviceVars, tick, ops, history>>

\* CONFLICT, or the request never arrived: publishCommit throws, and the engine
\* stays on the commit it merged.
PublishFails(d) ==
  /\ op[d].pc = "publish"
  /\ \/ ~Accepts(Len(op[d].commit)) /\ UNCHANGED faults
     \/ Fault
  /\ stray' = stray \cup {op[d].commit}
  /\ AbandonRemoval(d)
  /\ op' = [op EXCEPT ![d] = IdleOp]
  /\ UNCHANGED <<serverVars, deviceVars, tick, ops, rejoins>>

\* The accepted answer: the cursor, then the snapshot once more. The callers
\* of an add go on to the welcomes.
CommitAccepted(d) ==
  /\ op[d].pc = "published"
  /\ SetLastAppliedEpoch(d, Len(op[d].commit))
  /\ UNCHANGED engine
  /\ PersistSnapshot(d)
  /\ op' = [op EXCEPT ![d] = IF op[d].commit[Len(op[d].commit)].adds = {}
                             THEN IdleOp ELSE [@ EXCEPT !.pc = "welcome"]]
  /\ UNCHANGED <<serverVars, tick, ops, faults, history>>

\* One row for each added device; nothing repeats the call when it fails.
PublishWelcomes(d) ==
  /\ op[d].pc = "welcome"
  /\ op' = [op EXCEPT ![d] = IdleOp]
  /\ \/ StoreWelcomes(op[d].who, op[d].commit) /\ UNCHANGED faults
     \/ Fault /\ UNCHANGED welcomes
  /\ UNCHANGED <<roster, log, deviceVars, tick, ops, history>>

-----------------------------------------------------------------------------
\* The poll loop (mls-auto-publish.ts tick). The timer, a wake-up frame and the
\* app coming to the foreground each start a tick, whether one is running or not.

\* The tick t[2] = 0 is the timer's; each other tick counts as an event.
Started(t) == IF t[2] = 0 THEN UNCHANGED ops ELSE Budget /\ ops' = ops + 1

\* The server deletes the welcomes in the statement that returns them. Without
\* an answer tick() throws and the rows are gone.
FetchWelcomes(t) ==
  LET d == t[1] IN
  /\ tick[t] = IdleTick /\ welcomes[d] # {} /\ Started(t)
  /\ welcomes' = [welcomes EXCEPT ![d] = {}]
  /\ rejoins' = rejoins \cup (IF \/ cursor[d] # None \/ Cardinality(welcomes[d]) > 1
                                 \/ \E u \in TicksOf(d) : tick[u].got # {}
                              THEN {d} ELSE {})
  /\ \/ /\ tick' = [tick EXCEPT ![t] = [pc |-> "join", got |-> welcomes[d], page |-> <<>>]]
        /\ UNCHANGED faults
     \/ Fault /\ UNCHANGED tick
  /\ UNCHANGED <<roster, log, deviceVars, op, stray, unremoved>>

\* joinFromWelcome puts the group into the engine and the row into mls_group.
\* An engine that holds the group already may refuse.
Join(t) ==
  LET d == t[1] IN
  /\ tick[t].pc = "join"
  /\ \E path \in tick[t].got :
       /\ tick' = [tick EXCEPT ![t] = [pc |-> IF @.got = {path} THEN "joined" ELSE "join",
                                       got |-> @.got \ {path}, page |-> <<>>]]
       /\ \/ engine' = [engine EXCEPT ![d] = path] /\ UpsertGroup(d, Len(path))
          \/ engine[d] # None /\ UNCHANGED <<engine, cursor>>
  /\ UNCHANGED <<serverVars, snapshot, op, ops, faults, history>>

PersistJoined(t) ==
  /\ tick[t].pc = "joined"
  /\ UNCHANGED engine
  /\ PersistSnapshot(t[1])
  /\ tick' = [tick EXCEPT ![t].pc = "join"]
  /\ UNCHANGED <<serverVars, cursor, op, ops, faults, history>>

\* Once the welcomes are done, or there were none when the tick asked for them,
\* pollPendingCommits asks for what follows the cursor.
FetchCommits(t) ==
  LET since == cursor[t[1]]
      page == IF since = None THEN <<>> ELSE FetchPendingCommits(since + 1) IN
  /\ \/ tick[t] = IdleTick /\ welcomes[t[1]] = {} /\ Started(t)
     \/ tick[t].pc = "join" /\ tick[t].got = {} /\ UNCHANGED ops
  /\ tick' = [tick EXCEPT ![t] = IF page = <<>> THEN IdleTick
                                 ELSE [pc |-> "apply", got |-> {}, page |-> page]]
  /\ UNCHANGED <<serverVars, deviceVars, op, faults, history>>

\* The engine takes n commits of the page: all, or it throws at the one after them.
Takes(t, n) ==
  LET page == tick[t].page
      before(i) == IF i = 1 THEN engine[t[1]] ELSE page[i - 1]
  IN  /\ \A i \in 1 .. n : CanProcess(t[1], before(i), page[i])
      /\ n < Len(page) => ~CanProcess(t[1], before(n + 1), page[n + 1])

\* The commits are processed without an await in between. All taken: the cursor
\* is stored, and the snapshot after it. Otherwise the engine keeps what it took
\* and tick() throws: neither the cursor nor the snapshot is written.
ApplyCommits(t) ==
  LET d == t[1]
      page == tick[t].page IN
  /\ tick[t].pc = "apply"
  /\ \E n \in 0 .. Len(page) :
       /\ Takes(t, n)
       /\ engine' = IF n = 0 THEN engine ELSE [engine EXCEPT ![d] = page[n]]
       /\ IF n = Len(page)
          THEN SetLastAppliedEpoch(d, Len(page[n])) /\ tick' = [tick EXCEPT ![t].pc = "save"]
          ELSE UNCHANGED cursor /\ tick' = [tick EXCEPT ![t] = IdleTick]
  /\ UNCHANGED <<serverVars, snapshot, op, ops, faults, history>>

PersistApplied(t) ==
  /\ tick[t].pc = "save"
  /\ UNCHANGED engine
  /\ PersistSnapshot(t[1])
  /\ tick' = [tick EXCEPT ![t] = IdleTick]
  /\ UNCHANGED <<serverVars, cursor, op, ops, faults, history>>

\* The app dies and bootstrap() loads the snapshot into a new engine.
Crash(d) ==
  /\ Fault
  /\ engine' = [engine EXCEPT ![d] = snapshot[d]]
  /\ op' = [op EXCEPT ![d] = IdleOp]
  /\ tick' = [t \in Ticks |-> IF t[1] = d THEN IdleTick ELSE tick[t]]
  /\ stray' = stray \cup (IF op[d].pc = "publish" THEN {op[d].commit} ELSE {})
  /\ AbandonRemoval(d)
  /\ UNCHANGED <<serverVars, snapshot, cursor, ops, rejoins>>

-----------------------------------------------------------------------------
UserStep(d) ==
  \/ \E who \in SUBSET Devices : StartAdd(d, who) \/ StartRemove(d, who)

\* What goes on without the user: calls that are answered, and the 30 s timer.
OpStep(d) ==
  \/ AddMembers(d) \/ AddRefused(d) \/ RemoveMembers(d) \/ RemoveRefused(d)
  \/ PublishCommit(d) \/ PublishFails(d) \/ CommitAccepted(d) \/ PublishWelcomes(d)

TickStep(t) ==
  \/ FetchWelcomes(t) \/ Join(t) \/ PersistJoined(t)
  \/ FetchCommits(t) \/ ApplyCommits(t) \/ PersistApplied(t)

Next ==
  \/ \E d \in Devices : UserStep(d) \/ OpStep(d) \/ Crash(d)
  \/ \E t \in Ticks : TickStep(t)

Spec == Init /\ [][Next]_vars

\* Every call is answered or fails, and the timer ticks while the app is open.
Fairness ==
  /\ \A d \in Devices : WF_vars(OpStep(d))
  /\ \A t \in Ticks : WF_vars(TickStep(t))

FairSpec == Spec /\ Fairness

-----------------------------------------------------------------------------
\* Properties

Paths == UNION {[1 .. n -> Commit] : n \in 0 .. MaxEvents}
MaybePath(p) == p = None \/ (p \in Seq(Commit) /\ Len(p) <= MaxEvents)

TypeOK ==
  /\ roster \subseteq Devices
  /\ DOMAIN log = Epochs /\ \A e \in Epochs : MaybePath(log[e])
  /\ \A d \in Devices :
       /\ \A p \in welcomes[d] : p \in Seq(Commit)
       /\ MaybePath(engine[d]) /\ MaybePath(snapshot[d])
       /\ cursor[d] \in Epochs \cup {0, None}
       /\ op[d].pc \in {"idle", "keys", "remove", "publish", "published", "welcome"}
       /\ op[d].who \subseteq Devices /\ MaybePath(op[d].commit)
  /\ \A t \in Ticks :
       /\ tick[t].pc \in {"idle", "join", "joined", "apply", "save"}
       /\ \A p \in tick[t].got : p \in Seq(Commit)
       /\ \A i \in DOMAIN tick[t].page : tick[t].page[i] \in Seq(Commit)
  /\ ops \in 0 .. MaxEvents /\ faults \in 0 .. MaxEvents

\* The state follows from commits the server has stored for their epochs.
Stored(path) == \A e \in 1 .. Len(path) : log[e] = SubSeq(path, 1, e)

OnStray(path) == \E s \in stray : Len(s) <= Len(path) /\ SubSeq(path, 1, Len(s)) = s

\* Engines agree: the state of a device is the history the server stored,
\* its own commit under way excepted, unless it builds on a commit whose
\* publication was refused or lost (groups.ts publishCommit, client/index.ts
\* addMembersByAccounts, pollPendingCommits). Two members at one epoch who see
\* different groups are thus traced to such a commit, and to nothing else.
OneHistory ==
  \A d \in Devices : engine[d] # None =>
    \/ OnStray(engine[d])
    \/ Stored(engine[d])
    \/ op[d].pc = "publish" /\ engine[d] = op[d].commit /\ Stored(Parent(engine[d]))

\* The cursor never runs ahead of the engine, or commits would be skipped for
\* good, and the snapshot is behind it only between the two writes of a poll,
\* unless the app was killed there (client/index.ts:400-401) or the device was
\* invited a second time, which keeps the old cursor (mls-store.ts upsertGroup).
CursorBacked ==
  faults = 0 => \A d \in Devices \ rejoins : cursor[d] # None =>
    /\ engine[d] # None /\ cursor[d] <= Len(engine[d])
    /\ \/ snapshot[d] # None /\ cursor[d] <= Len(snapshot[d])
       \/ \E t \in TicksOf(d) : tick[t].pc \in {"joined", "save"}

\* Whoever a stored commit has as a member can get there: it holds a state of the
\* group, or its invitation is on the server, in its hands, or about to be sent.
\* Consume-on-fetch welcomes lose it only to a fault (groups.ts:170). A commit made on
\* a refused one brings back accounts nobody invites: the server takes it for its epoch.
Invited ==
  faults = 0 => \A e \in Epochs : ~EpochFree(e) /\ ~OnStray(log[e]) =>
    \A d \in Members(log[e]) :
      \/ engine[d] # None
      \/ \E p \in welcomes[d] \cup UNION {tick[t].got : t \in TicksOf(d)} : d \in Members(p)
      \/ \E a \in Devices : /\ op[a].pc \in {"published", "welcome"}
                           /\ d \in op[a].commit[Len(op[a].commit)].adds

\* The newest epoch that is stored.
Newest == {e \in Epochs : ~EpochFree(e) /\ \A f \in Epochs : f > e => EpochFree(f)}

\* Nobody but the server's members reads along: an account in the tree of the
\* newest stored commit has a ChatMember row, is being removed, or its removal
\* failed after the server's list was changed (info.tsx onRemoveMember), or that
\* commit was made on a refused one.
TreeWithinRoster ==
  \A e \in Newest : ~OnStray(log[e]) =>
    Members(log[e]) \subseteq roster \cup unremoved \cup UNION {Removing(d) : d \in Devices}

\* The tree and the server's list of members go together: who is in the one is in
\* the other, or is on the way there.
TreeFollowsRoster == Invited /\ TreeWithinRoster

Converged == \A e \in Newest : \A d \in Members(log[e]) : engine[d] = log[e]
ConvergedOrForked == Converged \/ stray # {} \/ faults > 0 \/ rejoins # {}

\* Every member ends up at the newest epoch, through polls that interleave with
\* its own changes, joins and other members' commits, unless a commit was
\* refused, a call failed, or a device was invited back (mls-auto-publish.ts
\* tick(), client/index.ts pollPendingWelcomes(), pollPendingCommits()).
EventuallyConverged == <>[]ConvergedOrForked

\* The stored epochs have no gap (client/index.ts:371-372 "the server log is
\* gap-free for non-byzantine peers; a gap means an attack").
GapFree == \A e \in Epochs : e > 1 /\ ~EpochFree(e) => ~EpochFree(e - 1)

=============================================================================
