------------------------------ MODULE Reactions ------------------------------
(***************************************************************************)
(* One emoji of one user on one message, toggled again and again           *)
(* (chat/hooks.ts useReactToMessage(), chat/store.ts reactions,            *)
(* outbox-worker.ts dispatchOne() of a reaction row), and what a peer      *)
(* shows of it (provider.tsx onMessage() and onBackfill(),                 *)
(* applyIncomingReaction()).                                               *)
(*                                                                         *)
(* Pills are in memory on both sides. A tap is a number; its row is in the *)
(* outbox, which the worker works off in the order of next_attempt_at.     *)
(***************************************************************************)
EXTENDS Naturals, Sequences, Functions, Ranks

CONSTANTS
  MaxTaps,     \* bound: taps on the emoji
  MaxTries,    \* MAX_ATTEMPTS
  MaxUpsets    \* bound: failed enqueues, rows rejected, losses and restarts

ASSUME ReactionsAssumption == MaxTaps \in Nat /\ MaxTries \in Nat \ {0} /\ MaxUpsets \in Nat

VARIABLES
  taps,       \* the operations of the taps so far
  pill,       \* the tap of the sender's own pill, 0 without one
  queueing,   \* taps whose enqueue() is under way
  tapRows,    \* the rows by next_attempt_at: [tap, tries, due]
  inFlight,   \* the tap whose send() the worker awaits, 0 without one, and whether
              \* the chat's object has stored it
  thread,     \* the taps stored by the chat's object, by serial
  fed,        \* serials whose live frame has gone to the peer, or was lost
  page,       \* a bfd page on its way: serials, none if empty
  readTo,     \* the peer's stored backfill cursor
  spent,      \* serials whose key the peer's engine has used up, now and in its snapshot
  shown,      \* the peer shows the reaction
  appliedTo,  \* history: the newest serial the peer applied
  upsets,     \* counter of the bound
  excuses     \* history: what happened of the things the comments rule out or accept

reactionVars == <<taps, pill, queueing, tapRows, inFlight, thread, fed, page, readTo, spent,
                  shown, appliedTo, upsets, excuses>>
senderVars == <<taps, pill, queueing, tapRows, inFlight>>
peerVars   == <<fed, page, readTo, spent, shown, appliedTo>>

Idling == [tap |-> 0, stored |-> FALSE]

ReactionsInit ==
  /\ taps = <<>> /\ pill = 0 /\ queueing = {} /\ tapRows = <<>> /\ inFlight = Idling
  /\ thread = <<>> /\ fed = 0 /\ page = {} /\ readTo = 0
  /\ spent = [now |-> {}, saved |-> {}] /\ shown = FALSE /\ appliedTo = 0
  /\ upsets = 0 /\ excuses = {}

Upset == upsets < MaxUpsets /\ upsets' = upsets + 1

-----------------------------------------------------------------------------
\* The sender

\* addReaction(): a pill of the tap. removeOwnReaction(): whatever tap it was of.
AddPill(i) == i
RemoveOwn  == 0

\* react(): add without a pill of one's own, del with one.
Tap ==
  /\ Len(taps) < MaxTaps
  /\ taps' = Append(taps, IF pill = 0 THEN "add" ELSE "del")
  /\ pill' = IF pill = 0 THEN AddPill(Len(taps')) ELSE RemoveOwn
  /\ queueing' = queueing \cup {Len(taps')}
  /\ UNCHANGED <<tapRows, inFlight, thread, peerVars, upsets, excuses>>

\* failReaction() looks for the tap, whatever the pill stands for now.
PillOfAny(i) == 0                                \* a mutant: it drops any pill
PillWithout(i) == IF pill = i THEN 0 ELSE pill

First(i) == i \in queueing /\ \A j \in queueing : i <= j
Due(s)  == Picked(s, {n \in DOMAIN s : s[n].due})
DueRows == Due(tapRows)
Resting == Picked(tapRows, {n \in DOMAIN tapRows : ~tapRows[n].due})

\* A row is due from the time of its insertion.
Enqueue(i) ==
  /\ First(i) /\ queueing' = queueing \ {i}
  /\ tapRows' = Append(DueRows, [tap |-> i, tries |-> 0, due |-> TRUE]) \o Resting
  /\ UNCHANGED <<taps, pill, inFlight, thread, peerVars, upsets, excuses>>

\* Nothing rolls back a del.
GivenUp(i, reason) == IF taps[i] = "del" THEN excuses \cup {reason} ELSE excuses

EnqueueFails(i) ==
  /\ Upset /\ First(i) /\ queueing' = queueing \ {i}
  /\ pill' = IF taps[i] = "add" THEN PillWithout(i) ELSE pill
  /\ excuses' = GivenUp(i, "a del was not queued")
  /\ UNCHANGED <<taps, tapRows, inFlight, thread, peerVars>>

PickRow ==
  /\ inFlight = Idling /\ DueRows # <<>>
  /\ inFlight' = [tap |-> Head(DueRows).tap, stored |-> FALSE]
  /\ UNCHANGED <<taps, pill, queueing, tapRows, thread, peerVars, upsets, excuses>>

\* The chat's object gives the frame its serial. A row may be stored again when its
\* send was not acknowledged; one that comes after a later tap's has been overtaken.
StoredOnServer ==
  /\ inFlight.tap # 0 /\ ~inFlight.stored
  /\ inFlight' = [inFlight EXCEPT !.stored = TRUE]
  /\ thread' = Append(thread, inFlight.tap)
  /\ excuses' = IF \E n \in DOMAIN thread : thread[n] > inFlight.tap
                THEN excuses \cup {"a tap was overtaken"} ELSE excuses
  /\ UNCHANGED <<taps, pill, queueing, tapRows, peerVars, upsets>>

RowsBut(i) == Picked(tapRows, {n \in DOMAIN tapRows : tapRows[n].tap # i})
RowOf(i) == tapRows[CHOOSE n \in DOMAIN tapRows : tapRows[n].tap = i]
Inserted(s, n, row) ==
  [k \in 1 .. Len(s) + 1 |-> IF k < n THEN s[k] ELSE IF k = n THEN row ELSE s[k - 1]]

\* markSent(), confirmReaction().
SendAcked ==
  /\ inFlight.stored
  /\ tapRows' = RowsBut(inFlight.tap) /\ inFlight' = Idling
  /\ UNCHANGED <<taps, pill, queueing, thread, peerVars, upsets, excuses>>

\* The send is rejected, which says nothing about the server: the row waits for its
\* backoff among the others that wait, or is given up.
SendRejected ==
  /\ inFlight.tap # 0 /\ inFlight' = Idling
  /\ IF RowOf(inFlight.tap).tries = 0 THEN Upset ELSE UNCHANGED upsets
  /\ LET i    == inFlight.tap
         row  == [RowOf(i) EXCEPT !.tries = @ + 1, !.due = FALSE]
         rest == RowsBut(i)
     IN  \/ /\ row.tries < MaxTries
            /\ \E n \in Len(Due(rest)) + 1 .. Len(rest) + 1 : tapRows' = Inserted(rest, n, row)
            /\ UNCHANGED <<pill, excuses>>
         \/ /\ row.tries = MaxTries \/ ~inFlight.stored    \* or: "group not found"
            /\ tapRows' = rest /\ pill' = PillWithout(i)
            /\ excuses' = IF i \in Range(thread) THEN excuses \cup {"a stored tap was given up"}
                          ELSE GivenUp(i, "a del was given up")
  /\ UNCHANGED <<taps, queueing, thread, peerVars>>

\* The backoff of the row that waits the shortest is over.
Backoff ==
  /\ Resting # <<>>
  /\ tapRows' = Append(DueRows, [Head(Resting) EXCEPT !.due = TRUE]) \o Tail(Resting)
  /\ UNCHANGED <<taps, pill, queueing, inFlight, thread, peerVars, upsets, excuses>>

\* The sender's app is killed: rows stay, the pill is gone.
SenderDies ==
  /\ Upset /\ pill' = 0 /\ queueing' = {} /\ inFlight' = Idling
  /\ excuses' = excuses \cup {"the sender restarted"}
  /\ UNCHANGED <<taps, tapRows, thread, peerVars>>

-----------------------------------------------------------------------------
\* The peer

DelIgnored(serials) ==                           \* a mutant: del is not applied
  LET fresh == {n \in serials \ spent.now : taps[thread[n]] = "add"}
      last  == CHOOSE n \in fresh : \A m \in fresh : m <= n
  IN  /\ spent' = [spent EXCEPT !.now = @ \cup serials]
      /\ shown' = (shown \/ fresh # {})
      /\ appliedTo' = IF fresh # {} /\ last > appliedTo THEN last ELSE appliedTo
      /\ UNCHANGED excuses

\* applyIncomingReaction() of the serials, in their order. Each can be decrypted once.
Apply(serials) ==
  LET fresh == serials \ spent.now
      last  == CHOOSE n \in fresh : \A m \in fresh : m <= n
  IN  /\ spent' = [spent EXCEPT !.now = @ \cup fresh]
      /\ IF fresh = {} THEN UNCHANGED <<shown, appliedTo, excuses>>
         ELSE /\ shown' = (taps[thread[last]] = "add")
              /\ appliedTo' = IF last > appliedTo THEN last ELSE appliedTo
              /\ excuses' = IF last < appliedTo THEN excuses \cup {"a page was overtaken"}
                            ELSE excuses

LiveTap ==
  /\ fed < Len(thread) /\ fed' = fed + 1 /\ Apply({fed'})
  /\ UNCHANGED <<senderVars, thread, page, readTo, upsets>>

\* The socket is closed while frames are under way.
PeerMisses ==
  /\ Upset /\ \/ fed < Len(thread) /\ fed' = Len(thread) /\ UNCHANGED page
              \/ page # {} /\ page' = {} /\ UNCHANGED fed
  /\ UNCHANGED <<senderVars, thread, readTo, spent, shown, appliedTo, excuses>>

\* The page is read from the table; live frames may be sent before it is.
ReadPage ==
  /\ page = {} /\ readTo < Len(thread) /\ page' = readTo + 1 .. Len(thread)
  /\ UNCHANGED <<senderVars, thread, fed, readTo, spent, shown, appliedTo, upsets, excuses>>

TakePage ==
  /\ page # {} /\ page' = {} /\ Apply(page)
  /\ readTo' = CHOOSE n \in page : \A m \in page : m <= n
  /\ UNCHANGED <<senderVars, thread, fed, upsets>>

PeerSaves ==
  /\ spent.saved # spent.now /\ spent' = [spent EXCEPT !.saved = spent.now]
  /\ UNCHANGED <<senderVars, thread, fed, page, readTo, shown, appliedTo, upsets, excuses>>

PeerDies ==
  /\ Upset /\ shown' = FALSE /\ appliedTo' = 0 /\ page' = {}
  /\ spent' = [spent EXCEPT !.now = spent.saved]
  /\ excuses' = excuses \cup {"the peer restarted"}
  /\ UNCHANGED <<senderVars, thread, fed, readTo>>

-----------------------------------------------------------------------------
ReactionsNext ==
  \/ Tap \/ \E i \in queueing : Enqueue(i) \/ EnqueueFails(i)
  \/ PickRow \/ StoredOnServer \/ SendAcked \/ SendRejected \/ Backoff \/ SenderDies
  \/ LiveTap \/ PeerMisses \/ ReadPage \/ TakePage \/ PeerSaves \/ PeerDies

ReactionsSpec == ReactionsInit /\ [][ReactionsNext]_reactionVars

-----------------------------------------------------------------------------
\* Properties

ReactionsTypeOK ==
  /\ taps \in Seq({"add", "del"}) /\ Len(taps) <= MaxTaps
  /\ pill \in 0 .. Len(taps) /\ queueing \subseteq 1 .. Len(taps)
  /\ \A n \in DOMAIN tapRows :
       /\ tapRows[n].tap \in 1 .. Len(taps) /\ tapRows[n].tries \in 0 .. MaxTries
       /\ \A m \in DOMAIN tapRows : m < n /\ tapRows[n].due => tapRows[m].due
  /\ inFlight.tap \in 0 .. Len(taps) /\ Range(thread) \subseteq 1 .. Len(taps)
  /\ fed <= Len(thread) /\ readTo <= Len(thread) /\ page \subseteq 1 .. Len(thread)
  /\ spent.saved \subseteq 1 .. Len(thread) /\ upsets <= MaxUpsets

SenderQuiet == queueing = {} /\ tapRows = <<>> /\ inFlight = Idling
CaughtUpOnReactions == fed = Len(thread) /\ readTo = Len(thread) /\ page = {}

\* When all is quiet the peer shows what the sender's own screen shows: a tap that is
\* given up drops the pill of its own and no newer one, duplicates and frames that
\* come twice change nothing, and lost frames come back by backfill. Where that
\* fails, one of these came before: a retry was overtaken by a later tap (hooks.ts:231
\* says the order is kept across retries); a del was given up; a tap was given up that
\* the server had stored; a page was overtaken by a live frame of a later tap, whose
\* key it then finds used up; an app was restarted (reactions are kept in memory).
ReactionsAgree ==
  SenderQuiet /\ CaughtUpOnReactions /\ excuses = {} => shown = (pill # 0)

=============================================================================
