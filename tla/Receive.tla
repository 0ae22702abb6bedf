------------------------------ MODULE Receive ------------------------------
(***************************************************************************)
(* How the rows of one chat reach one device of a member: live `msg`       *)
(* frames, which are lost with the socket, and backfill passes, which ask  *)
(* the inbox object for what follows the device's cursor                   *)
(* (chat-ws/durable/user-inbox.ts and backfill.ts, chat/encrypted-         *)
(* transport.ts and provider.tsx, chat-db/backfill-cursors.ts).            *)
(*                                                                         *)
(* A row is its serial. A row can be decrypted once, by an engine that     *)
(* holds the group at the row's epoch.                                     *)
(***************************************************************************)
EXTENDS Naturals, Sequences, FiniteSets

CONSTANTS
  MaxSerial,    \* bound: rows of the chat
  EpochOf,      \* EpochOf[s]: the epoch row s was encrypted at
  Own,          \* the rows this user wrote, which MLS does not let him read back
  PageSize,     \* BACKFILL_PAGE_SIZE
  HydrateLimit, \* the rows loadMessagesForChat returns
  Passes,       \* bound: backfill passes under way at the same time
  MaxLosses     \* bound: crashes of the app

Serials == 1 .. MaxSerial

ASSUME ReceiveAssumption ==
  /\ MaxSerial \in Nat /\ MaxLosses \in Nat
  /\ EpochOf \in [Serials -> Nat \ {0}]
  /\ Own \subseteq Serials
  /\ PageSize \in Nat \ {0} /\ HydrateLimit \in Nat \ {0}

VARIABLES
  issued,       \* the chat's rows in Neon are 1 .. issued
  chatMax,      \* the cached chatmax, 0 when there is none
  live,         \* `msg` frames on their way to the device
  open,         \* the device's socket is open
  epoch,        \* the epoch of the chat's group in the engine; 0 while the engine is not
                \* there, does not hold the group, or the chat is not linked to it
  used,         \* the rows whose key the engine has consumed
  snapshot,     \* the stored engine: its epoch and consumed keys
  bubbles,      \* the rows in the message list
  disk,         \* the rows in the messages table
  cursor,       \* last_serial of the chat in backfill_cursors
  forcedOnce,   \* the chat is in backfilledThisLaunch
  pass,         \* pass[p]: a backfill pass
  losses,       \* counter of the bound
  dropped,      \* history: rows that arrived while the engine was at another epoch
  torn          \* history: rows decrypted and not stored when the app died

engineVars == <<epoch, used, snapshot>>
localVars  == <<bubbles, disk, cursor>>
receiveVars == <<issued, chatMax, live, open, epoch, used, snapshot, bubbles, disk, cursor,
                 forcedOnce, pass, losses, dropped, torn>>

Idle == [pc |-> "idle", after |-> 0, force |-> FALSE, rows |-> <<>>, held |-> {},
         upTo |-> 0, more |-> FALSE, blocked |-> 0]

Smaller(a, b) == IF a < b THEN a ELSE b
Larger(a, b) == IF a < b THEN b ELSE a

ReceiveInit ==
  /\ issued = 0 /\ chatMax = 0 /\ live = {}
  /\ open = FALSE /\ epoch = 0 /\ used = {}
  /\ snapshot = [epoch |-> 0, used |-> {}]
  /\ bubbles = {} /\ disk = {} /\ cursor = 0
  /\ forcedOnce = FALSE
  /\ pass = [p \in Passes |-> Idle]
  /\ losses = 0 /\ dropped = {} /\ torn = {}

-----------------------------------------------------------------------------
\* Decryption (encrypted-transport.ts decryptOne, the v=2 path)

\* isRecoverableDecryptReason: no engine, no group, no link.
Recoverable == epoch = 0

\* Own rows, a key used before, a row from another epoch: never retried.
CanRead(s) == ~Recoverable /\ s \notin Own \cup used /\ EpochOf[s] = epoch

\* What the failure to read a row loses, own rows and second copies aside.
Misses(s) == IF Recoverable \/ s \in Own \cup used THEN {} ELSE {s}

-----------------------------------------------------------------------------
\* The chat and its object

\* A row is stored, fanned out if the socket is there, and named in the cache,
\* soon, late, or never.
Send ==
  /\ issued < MaxSerial
  /\ issued' = issued + 1
  /\ live' = IF open /\ issued + 1 \notin Own THEN live \cup {issued + 1} ELSE live
  /\ chatMax' \in {chatMax, issued + 1}
  /\ UNCHANGED <<open, engineVars, localVars, forcedOnce, pass, losses, dropped, torn>>

CacheLands ==
  /\ chatMax < issued /\ chatMax' = issued
  /\ UNCHANGED <<issued, live, open, engineVars, localVars, forcedOnce, pass, losses,
                 dropped, torn>>

-----------------------------------------------------------------------------
\* The device's connection and its group

\* A trigger starts a pass if one is free: the bound on passes under way.
FreePass == {p \in Passes : pass[p] = Idle}

\* runBackfill: the cursors are read first.
Begin ==
  pass' = IF FreePass = {} THEN pass
          ELSE [pass EXCEPT ![CHOOSE p \in FreePass : TRUE] =
                  [Idle EXCEPT !.pc = "reading", !.after = cursor]]

\* The state turns to open, which starts a pass.
Open ==
  /\ ~open /\ open' = TRUE
  /\ Begin
  /\ UNCHANGED <<issued, chatMax, live, engineVars, localVars, forcedOnce, losses, dropped, torn>>

\* What is on the wire is lost, the requests and pages of passes included.
Drop ==
  /\ open /\ open' = FALSE
  /\ live' = {}
  /\ pass' = [p \in Passes |-> IF pass[p].pc = "asked" THEN Idle ELSE pass[p]]
  /\ UNCHANGED <<issued, chatMax, engineVars, localVars, forcedOnce, losses, dropped, torn>>

\* The engine is ready, holds the group, and the chat is linked to it. The boot
\* and the join kick a pass; the link (a mirror of chat.list) does not, and may
\* be the last of the three.
Heal ==
  /\ epoch = 0 /\ epoch' = 1
  /\ snapshot' = [epoch |-> 1, used |-> {}]
  /\ Begin \/ UNCHANGED pass
  /\ UNCHANGED <<issued, chatMax, live, open, used, localVars, forcedOnce, losses, dropped, torn>>

\* A tick applies the commit of the next epoch. Keys of the epoch before are
\* gone with it. Nothing kicks a pass.
PollCommit ==
  /\ epoch > 0 /\ \E s \in Serials : EpochOf[s] = epoch + 1
  /\ epoch' = epoch + 1
  /\ snapshot' = [epoch |-> epoch + 1, used |-> used]
  /\ UNCHANGED <<issued, chatMax, live, open, used, localVars, forcedOnce, pass, losses,
                 dropped, torn>>

-----------------------------------------------------------------------------
\* Live messages (handleInbound, addIncomingMessage)

\* The lookups of a frame's decryption are awaited: frames finish in any order.
Live(s) ==
  /\ s \in live /\ live' = live \ {s}
  /\ IF CanRead(s)
     THEN /\ used' = used \cup {s}
          /\ bubbles' = bubbles \cup {s} /\ disk' = disk \cup {s}
          /\ UNCHANGED dropped
     ELSE /\ dropped' = dropped \cup Misses(s)
          /\ UNCHANGED <<used, bubbles, disk>>
  /\ UNCHANGED <<issued, chatMax, open, epoch, snapshot, cursor, forcedOnce, pass, losses,
                 torn>>

-----------------------------------------------------------------------------
\* A backfill pass

\* The chat is marked as forced whether the frame leaves or not: sendFrame
\* drops it without an open socket.
Request(p) ==
  /\ pass[p].pc = "reading"
  /\ pass' = [pass EXCEPT ![p] =
       IF open THEN [@ EXCEPT !.pc = "asked", !.force = ~forcedOnce] ELSE Idle]
  /\ forcedOnce' = TRUE
  /\ UNCHANGED <<issued, chatMax, live, open, engineVars, localVars, losses, dropped, torn>>

\* The inbox object skips Neon when the cache says the cursor is there already.
SkipsAtOrPast(after, force) == ~force /\ chatMax # 0 /\ chatMax >= after  \* a mutant
Skips(after, force) == ~force /\ chatMax # 0 /\ chatMax <= after

\* The rows after the cursor, ascending, a page of them.
PageAfter(after) ==
  LET size == Smaller(PageSize, IF issued > after THEN issued - after ELSE 0)
  IN  [i \in 1 .. size |-> after + i]

Serve(p) ==
  /\ pass[p].pc = "asked"
  /\ LET after == pass[p].after
         rows  == IF Skips(after, pass[p].force) THEN <<>> ELSE PageAfter(after)
     IN  pass' = [pass EXCEPT ![p] =
           [Idle EXCEPT !.pc = "page", !.rows = rows,
                        !.upTo = IF rows = <<>> THEN after ELSE rows[Len(rows)],
                        !.more = rows # <<>> /\ rows[Len(rows)] < issued]]
  /\ UNCHANGED <<issued, chatMax, live, open, engineVars, localVars, forcedOnce, losses, dropped,
                 torn>>

\* decryptBackfill, one row: the first recoverable failure is remembered,
\* and no further page is asked for.
Decrypt(p) ==
  /\ pass[p].pc = "page" /\ pass[p].rows # <<>>
  /\ LET s == Head(pass[p].rows)
         rest == [pass[p] EXCEPT !.rows = Tail(@)]
     IN  IF CanRead(s)
         THEN /\ used' = used \cup {s}
              /\ pass' = [pass EXCEPT ![p] = [rest EXCEPT !.held = @ \cup {s}]]
              /\ UNCHANGED dropped
         ELSE /\ pass' = [pass EXCEPT ![p] =
                   IF Recoverable /\ rest.blocked = 0
                   THEN [rest EXCEPT !.blocked = s, !.more = FALSE] ELSE rest]
              /\ dropped' = dropped \cup Misses(s)
              /\ UNCHANGED used
  /\ UNCHANGED <<issued, chatMax, live, open, epoch, snapshot, localVars, forcedOnce, losses,
                 torn>>

\* The cursor of a page stops below a row that is to be fetched again.
UpToUncapped(p) == pass[p].upTo         \* a mutant: recoverable failures do not hold it back
UpToNext(p) == pass[p].upTo + 1         \* a mutant: the serial after the page
UpTo(p) ==
  IF pass[p].blocked = 0 THEN pass[p].upTo ELSE Smaller(pass[p].blocked - 1, pass[p].upTo)

\* setCursor only moves forward.
SetCursor(n) == cursor' = Larger(cursor, n)

\* The page is merged and stored, the cursor after it, and the next page is
\* asked for.
MergedUpTo(p) == {s \in pass[p].held : s <= UpTo(p)}  \* a mutant: only what the cursor covers
Merged(p) == pass[p].held

Ingest(p) ==
  /\ pass[p].pc = "page" /\ pass[p].rows = <<>>
  /\ bubbles' = bubbles \cup Merged(p)
  /\ disk' = disk \cup Merged(p)
  /\ SetCursor(UpTo(p))
  /\ pass' = [pass EXCEPT ![p] =
       IF pass[p].more /\ open
       THEN [Idle EXCEPT !.pc = "asked", !.after = UpTo(p)] ELSE Idle]
  /\ UNCHANGED <<issued, chatMax, live, open, engineVars, forcedOnce, losses, dropped, torn>>

-----------------------------------------------------------------------------
\* The app dies and is started again: memory is gone, the engine is the stored
\* one, the list shows the oldest stored rows. A page that was being merged may
\* have stored some of its rows (its writes are queued in order, the cursor last).
Oldest(rows) ==
  {s \in rows : Cardinality({r \in rows : r <= s}) <= HydrateLimit}

HeldRows == UNION {pass[p].held : p \in Passes}

DeviceDies ==
  /\ losses < MaxLosses /\ losses' = losses + 1
  /\ \E p \in Passes : \E n \in 0 .. MaxSerial :
       disk' = disk \cup (IF pass[p].pc = "page" /\ pass[p].rows = <<>>
                          THEN {s \in pass[p].held : s <= n} ELSE {})
  /\ torn' = torn \cup (HeldRows \ disk')
  /\ bubbles' = Oldest(disk')
  /\ epoch' = snapshot.epoch /\ used' = snapshot.used
  /\ open' = FALSE /\ live' = {} /\ forcedOnce' = FALSE
  /\ pass' = [p \in Passes |-> Idle]
  /\ UNCHANGED <<issued, chatMax, snapshot, cursor, dropped>>

-----------------------------------------------------------------------------
PassStep(p) == Request(p) \/ Serve(p) \/ Decrypt(p) \/ Ingest(p)

ReceiveNext ==
  \/ Send \/ CacheLands
  \/ Open \/ Drop \/ Heal \/ PollCommit
  \/ \E s \in Serials : Live(s)
  \/ \E p \in Passes : PassStep(p)
  \/ DeviceDies

\* The engine boots, the chat is mirrored and joined, and passes go on; what needs
\* the socket gets its turn although the socket comes and goes. Neither live frames
\* nor commits are needed.
Asks       == \E p \in Passes : open /\ Request(p)
Serves     == \E p \in Passes : Serve(p)
Locally(p) == Request(p) \/ Decrypt(p) \/ Ingest(p)

ReceiveFairness ==
  /\ WF_receiveVars(Heal)
  /\ \A p \in Passes : WF_receiveVars(Locally(p))
  /\ SF_receiveVars(Asks) /\ SF_receiveVars(Serves)

ReceiveSpec == ReceiveInit /\ [][ReceiveNext]_receiveVars
ReceiveFairSpec == ReceiveSpec /\ ReceiveFairness

-----------------------------------------------------------------------------
\* Properties

ReceiveTypeOK ==
  /\ issued \in 0 .. MaxSerial /\ chatMax \in 0 .. issued /\ cursor \in 0 .. issued
  /\ live \subseteq 1 .. issued /\ used \subseteq 1 .. issued
  /\ open \in BOOLEAN /\ forcedOnce \in BOOLEAN
  /\ epoch \in Nat /\ snapshot.epoch \in Nat /\ snapshot.used \subseteq 1 .. issued
  /\ bubbles \subseteq disk /\ disk \subseteq 1 .. issued
  /\ \A p \in Passes :
       /\ pass[p].pc \in {"idle", "reading", "asked", "page"}
       /\ pass[p].after \in 0 .. issued /\ pass[p].upTo \in 0 .. issued
       /\ pass[p].blocked \in 0 .. issued /\ pass[p].held \subseteq 1 .. issued
       /\ \A i \in DOMAIN pass[p].rows : pass[p].rows[i] \in 1 .. issued
  /\ losses \in 0 .. MaxLosses /\ dropped \subseteq 1 .. issued /\ torn \subseteq 1 .. issued

\* A row behind the cursor is never asked for again, so it has to be stored, or
\* be decrypted and about to be stored: through pages that race live frames and
\* each other, joins in the middle of a page, reconnects and restarts. What is
\* lost is lost in one of two ways the code knows nothing about: the row met an
\* engine at another epoch, or the app died while a page held it
\* (encrypted-transport.ts:345-352, provider.tsx:303, backfill-cursors.ts setCursor).
CursorCovers ==
  \A s \in 1 .. cursor : s \in disk \cup HeldRows \cup Own \cup dropped \cup torn

\* What the engine has consumed cannot be read again, so it has to be kept
\* (encrypted-transport.ts dispatch(), decryptBackfill()).
ConsumedIsKept == used \subseteq disk \cup HeldRows \cup torn

\* Every row this user can read is stored on his device.
CaughtUp == 1 .. issued \subseteq disk \cup Own \cup dropped \cup torn

\* Whatever frames and pages were lost with the socket, before or after the device
\* joined the group: as long as it keeps reconnecting and the cache of the newest
\* serial is right in the end, it reads all there is (backfill.ts:47-73,
\* provider.tsx:124-158, encrypted-transport.ts:297-352).
EventuallyCaughtUp ==
  ([]<>open /\ []<>~open /\ <>[](chatMax = issued)) => <>[]CaughtUp

=============================================================================
