------------------------------ MODULE PeerKeys ------------------------------
(***************************************************************************)
(* The local mirror of the key directory: what a call for a peer's devices *)
(* answers while the peer's devices change, the server fails, and other    *)
(* calls replace the same rows over the one connection they all use        *)
(* (mobile/lib/chat/peer-keys.ts, chat-db/peer-keys.ts, api/routers/       *)
(* user.ts).                                                               *)
(*                                                                         *)
(* One peer is modelled; a batch replaces several of them in the one       *)
(* transaction. A peer's devices are published in editions: a device is    *)
(* added or its keys are put anew, none is ever deleted.                   *)
(***************************************************************************)
EXTENDS Naturals, Sequences

CONSTANTS
  Calls,    \* bound: getPeerDevices() calls alive at the same time
  Editions, \* the sets of device rows the peer publishes, one after another
  Ttl,      \* TTL_MS, in ticks
  MaxTime,  \* bound: ticks
  MaxFaults \* bound: failing requests and statements, and process deaths

ASSUME PeerKeysAssumption ==
  /\ Calls \subseteq Nat \ {0}
  /\ Len(Editions) \in Nat \ {0} /\ DOMAIN Editions = 1 .. Len(Editions) /\ Editions[1] = {}
  /\ \A e, f \in DOMAIN Editions : Editions[e] = Editions[f] => e = f
  /\ Ttl \in Nat /\ MaxTime \in Nat /\ MaxFaults \in Nat

VARIABLES
  edition,   \* the edition that is published
  clock,     \* Date.now()
  keyRows,   \* peer_keys as any statement on the connection sees it: [device, at] rows
  tx,        \* the call whose transaction is open on the connection, or NoCall
  savedRows, \* the rows as they were at its BEGIN
  call,      \* call[c]: a call of getPeerDevices()
  faults,    \* counter of the bound
  since      \* history: since[t] is the edition published when the clock came to t

peerKeyVars == <<edition, clock, keyRows, tx, savedRows, call, faults, since>>

NoCall == 0

\* got: the edition fetched; left: its rows still to be inserted; found: the answer.
\* peeked, failed and passed say how the answer came about: see ReadKeys, Unserved and
\* CommitKeys.
IdleCall == [pc |-> "off", started |-> 0, got |-> 1, left |-> {}, found |-> {}, peeked |-> FALSE,
        failed |-> FALSE, passed |-> FALSE]

PeerKeysInit ==
  /\ edition = 1 /\ clock = 0 /\ keyRows = {} /\ tx = NoCall /\ savedRows = {}
  /\ call = [c \in Calls |-> IdleCall] /\ faults = 0 /\ since = <<1>>

Fault == faults < MaxFaults /\ faults' = faults + 1
CallIs(c, r) == call' = [call EXCEPT ![c] = r]
Devices(rs) == {r.device : r \in rs}

-----------------------------------------------------------------------------
\* getPeerDevices()

StartCall(c) ==
  /\ call[c].pc \in {"off", "done"}
  /\ CallIs(c, [IdleCall EXCEPT !.pc = "checking", !.started = clock])
  /\ UNCHANGED <<edition, clock, keyRows, tx, savedRows, faults, since>>

\* Another call's transaction is not hidden from the connection.
Peeks(c) == tx \notin {NoCall, c}

\* getStaleAccountIds(): no rows, or the freshest was refreshed before now - TTL.
Stale(started) == \A r \in keyRows : r.at + Ttl < started
CheckStale(c) ==
  /\ call[c].pc = "checking"
  /\ CallIs(c, [call[c] EXCEPT !.pc = IF Stale(call[c].started) THEN "fetching" ELSE "reading",
                             !.peeked = Peeks(c)])
  /\ UNCHANGED <<edition, clock, keyRows, tx, savedRows, faults, since>>

\* keys.byUserIds
AskDirectory(c) ==
  /\ call[c].pc = "fetching"
  /\ CallIs(c, [call[c] EXCEPT !.pc = "begin", !.got = edition])
  /\ UNCHANGED <<edition, clock, keyRows, tx, savedRows, faults, since>>

\* Whatever fails before the rows are read is warned about: the cache is served.
Unserved(c) == [call[c] EXCEPT !.pc = "reading", !.failed = TRUE]
AskFails(c) ==
  /\ Fault /\ call[c].pc = "fetching" /\ CallIs(c, Unserved(c))
  /\ UNCHANGED <<edition, clock, keyRows, tx, savedRows, since>>

\* replaceForAccounts(): a BEGIN inside a transaction throws.
TxAlways == TRUE   \* a mutant: the statements run without a transaction of their own
TxFree == tx = NoCall
BeginTx(c) ==
  /\ call[c].pc = "begin"
  /\ IF TxFree
     THEN tx' = c /\ savedRows' = keyRows /\ CallIs(c, [call[c] EXCEPT !.pc = "deleting"])
     ELSE CallIs(c, Unserved(c)) /\ UNCHANGED <<tx, savedRows>>
  /\ UNCHANGED <<edition, clock, keyRows, faults, since>>

DeleteDevices(c) ==
  /\ call[c].pc = "deleting" /\ keyRows' = {}
  /\ CallIs(c, [call[c] EXCEPT !.pc = "inserting", !.left = Editions[call[c].got]])
  /\ UNCHANGED <<edition, clock, tx, savedRows, faults, since>>

InsertDevice(c) ==
  /\ call[c].pc = "inserting"
  /\ \E d \in call[c].left :
       /\ keyRows' = keyRows \cup {[device |-> d, at |-> call[c].started]}
       /\ CallIs(c, [call[c] EXCEPT !.left = @ \ {d}])
  /\ UNCHANGED <<edition, clock, tx, savedRows, faults, since>>

\* Calls that started after this one and are under way will read what it has put.
CommitKeys(c) ==
  /\ call[c].pc = "inserting" /\ call[c].left = {}
  /\ tx' = NoCall /\ savedRows' = {}
  /\ call' = [d \in Calls |->
       IF d = c THEN [call[c] EXCEPT !.pc = "reading"]
       ELSE [call[d] EXCEPT !.passed = @ \/ (call[d].pc \notin {"off", "done"}
                                              /\ call[d].started > call[c].started)]]
  /\ UNCHANGED <<edition, clock, keyRows, faults, since>>

StatementFails(c) ==
  /\ Fault /\ call[c].pc \in {"deleting", "inserting"}
  /\ CallIs(c, [call[c] EXCEPT !.pc = "rolling", !.left = {}])
  /\ UNCHANGED <<edition, clock, keyRows, tx, savedRows, since>>

RolledBack == savedRows
RollbackKeys(c) ==
  /\ call[c].pc = "rolling" /\ keyRows' = RolledBack /\ tx' = NoCall /\ savedRows' = {}
  /\ CallIs(c, Unserved(c))
  /\ UNCHANGED <<edition, clock, faults, since>>

\* getByAccountIds()
ReadKeys(c) ==
  /\ call[c].pc = "reading"
  /\ CallIs(c, [call[c] EXCEPT !.pc = "done", !.found = keyRows, !.got = 1,
                             !.peeked = @ \/ Peeks(c)])
  /\ UNCHANGED <<edition, clock, keyRows, tx, savedRows, faults, since>>

CallsDie ==
  /\ Fault /\ call' = [c \in Calls |-> IdleCall]
  /\ keyRows' = IF tx = NoCall THEN keyRows ELSE savedRows
  /\ tx' = NoCall /\ savedRows' = {}
  /\ UNCHANGED <<edition, clock, since>>

\* The peer publishes a device, or new keys of one.
PeerPublishes ==
  /\ edition < Len(Editions) /\ edition' = edition + 1
  /\ UNCHANGED <<clock, keyRows, tx, savedRows, call, faults, since>>

TimePasses ==
  /\ clock < MaxTime /\ clock' = clock + 1 /\ since' = Append(since, edition)
  /\ UNCHANGED <<edition, keyRows, tx, savedRows, call, faults>>

PeerKeysNext ==
  \/ \E c \in Calls :
       \/ StartCall(c) \/ CheckStale(c) \/ AskDirectory(c) \/ AskFails(c) \/ BeginTx(c)
       \/ DeleteDevices(c) \/ InsertDevice(c) \/ CommitKeys(c) \/ StatementFails(c)
       \/ RollbackKeys(c) \/ ReadKeys(c)
  \/ CallsDie \/ PeerPublishes \/ TimePasses

PeerKeysSpec == PeerKeysInit /\ [][PeerKeysNext]_peerKeyVars

-----------------------------------------------------------------------------
\* Properties

PeerKeysTypeOK ==
  /\ edition \in DOMAIN Editions /\ clock \in 0 .. MaxTime /\ tx \in Calls \cup {NoCall}
  /\ Len(since) = clock + 1
  /\ \A c \in Calls :
       /\ call[c].pc \in {"off", "checking", "fetching", "begin", "deleting", "inserting",
                          "rolling", "reading", "done"}
       /\ call[c].got \in DOMAIN Editions

\* One edition, put with one stamp, and published no earlier than the stamp says.
Whole(rs) ==
  rs # {} =>
    \E e \in DOMAIN Editions, t \in 0 .. clock :
      /\ Devices(rs) = Editions[e] /\ {r.at : r \in rs} = {t}
      /\ e >= since[t + 1]

\* What is committed is whole, whichever calls, failures and deaths came across each other.
CacheIsWhole == Whole(IF tx = NoCall THEN keyRows ELSE savedRows)

\* An answer is whole as well, unless the call looked into another call's transaction.
AnswersAreWhole == \A c \in Calls : call[c].pc = "done" => call[c].peeked \/ Whole(call[c].found)

\* And it is no older than the TTL, unless the directory could not be asked, or a call that
\* had started earlier put its rows last.
AnswersAreFresh ==
  \A c \in Calls : call[c].pc = "done" =>
    \/ call[c].peeked \/ call[c].failed \/ call[c].passed
    \/ \A r \in call[c].found : r.at + Ttl >= call[c].started

\* The keys a call answers with are the peer's (peer-keys.ts:26-28, chat-db's 97-101).
PeersAreKnown == CacheIsWhole /\ AnswersAreWhole /\ AnswersAreFresh
=============================================================================
