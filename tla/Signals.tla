------------------------------- MODULE Signals -------------------------------
(***************************************************************************)
(* Typing and read signals of one chat (chat/hooks.ts useTypingEmitter()   *)
(* and useReadEmitter(), user-inbox.ts handleTyping() and handleRead(),    *)
(* durable/chat.ts acceptTyping(), acceptRead() and isMember(),            *)
(* chat/store.ts setTyping(), sweepExpiredTyping(), setReadReceipt()), and *)
(* what a thread shows of them (useTypers(), usePeerReadWatermark()).      *)
(*                                                                         *)
(* Nothing is sent twice or awaited by the sender. The chat's object lets  *)
(* a signal through when its sender is a member, which it looks up and     *)
(* remembers for a while, and tells every attached inbox; calls of it run  *)
(* side by side. Time is counted in ticks: ages grow and stop when they    *)
(* are past what anything compares them with.                              *)
(***************************************************************************)
EXTENDS Naturals, FiniteSets

CONSTANTS
  Peers,        \* the users whose inboxes are attached to the chat
  Signallers,   \* those who type and read, and may be removed
  Relays,       \* bound: acceptTyping() and acceptRead() calls under way at once
  MemberTtl,    \* MEMBER_CACHE_TTL_MS
  TypingTtl,    \* TYPING_TTL_MS
  MaxRead,      \* bound: the newest serial there is to read
  MaxRosters    \* bound: removals and returns of members

ASSUME SignalsAssumption ==
  /\ Signallers \subseteq Peers /\ Relays \subseteq Nat
  /\ MemberTtl \in Nat /\ TypingTtl \in Nat /\ MaxRead \in Nat /\ MaxRosters \in Nat

VARIABLES
  roster,       \* the users with a ChatMember row
  watermark,    \* lastReadSerial of their rows, 0 for null
  memo,         \* memberCache
  relay,        \* relay[r]: a call
  composing,    \* activeRef of the typing emitter, with its idle timer
  beating,      \* its heartbeat interval
  lastSent,     \* lastSentRef of the read emitter, 0 for null
  typers,       \* typers[p][u]: p's entry for u: 0 none, 1 expired, 1 + ticks left
  receipts,     \* receipts[p][u]: what p has seen u read, 0 nothing
  rosters,      \* counter of the bound
  quiet,        \* history: ticks since u composed or such a signal of u was under way
  gone,         \* history: ticks since u was removed
  removed       \* history: the users who were removed

signalVars == <<roster, watermark, memo, relay, composing, beating, lastSent, typers,
                receipts, rosters, quiet, gone, removed>>
emitters   == <<composing, beating, lastSent>>
membership == <<roster, rosters, gone, removed>>
screens    == <<typers, receipts, quiet>>

NoMemo == [ids |-> {}, age |-> MemberTtl + 1]

\* pc: none; asks (memberIds under way), knows (its answer under way), writes
\* (updateLastReadSerial under way), tells (the deliver calls under way).
\* `upto` is the serial of a read signal; of a typing signal, 1 for on and 0 for off.
\* `entitled` is history: the sender had not been gone for longer than MemberTtl.
NoRelay == [pc |-> "none", kind |-> "typ", user |-> CHOOSE u \in Peers : TRUE, upto |-> 0,
            age |-> 0, ids |-> {}, to |-> {}, entitled |-> TRUE]

SignalsInit ==
  /\ roster \in {Peers, Peers \ Signallers} /\ watermark = [u \in Peers |-> 0]
  /\ memo = NoMemo /\ relay = [r \in Relays |-> NoRelay]
  /\ composing = [u \in Signallers |-> FALSE] /\ beating = [u \in Signallers |-> FALSE]
  /\ lastSent = [u \in Signallers |-> 0]
  /\ typers = [p \in Peers |-> [u \in Signallers |-> 0]]
  /\ receipts = [p \in Peers |-> [u \in Signallers |-> 0]]
  /\ rosters = 0 /\ removed = {} /\ quiet = [u \in Signallers |-> 0]
  /\ gone = [u \in Signallers |-> IF u \in roster THEN 0 ELSE MemberTtl + 1]

-----------------------------------------------------------------------------
\* The chat's object

\* What a call does next when its sender has passed the gate, and when not.
LetThrough(c) == IF c.kind = "typ"
          THEN [c EXCEPT !.pc = "tells", !.age = 0, !.ids = {}, !.to = Peers \ {c.user}]
          ELSE [c EXCEPT !.pc = "writes", !.age = 0, !.ids = {}]
Gated(c, ids) == IF c.user \in ids THEN LetThrough(c) ELSE NoRelay

Entitled(u) == u \in roster \/ gone[u] <= MemberTtl

Arrived(c) == IF memo.age <= MemberTtl THEN Gated(c, memo.ids) ELSE c

\* A frame is written to a socket that is not open, is lost with it, or arrives.
Emit(u, kind, upto) ==
  \/ UNCHANGED relay
  \/ \E r \in Relays :
       /\ relay[r].pc = "none"
       /\ \A q \in Relays : q < r => relay[q].pc # "none"
       /\ relay' = [relay EXCEPT ![r] =
            Arrived([NoRelay EXCEPT !.pc = "asks", !.kind = kind, !.user = u,
                                    !.upto = upto, !.entitled = Entitled(u)])]

\* memberIds() is executed.
LookUp(r) ==
  /\ relay[r].pc = "asks"
  /\ relay' = [relay EXCEPT ![r].pc = "knows", ![r].ids = roster]
  /\ UNCHANGED <<watermark, memo, emitters, screens, membership>>

\* Its answer is cached under the time at which the call began.
MemoNow(c) == [ids |-> c.ids, age |-> 0]        \* a mutant: under the present time
Memo(c)    == [ids |-> c.ids, age |-> c.age]

Memoize(r) ==
  /\ relay[r].pc = "knows"
  /\ memo' = Memo(relay[r])
  /\ relay' = [relay EXCEPT ![r] = Gated(@, @.ids)]
  /\ UNCHANGED <<watermark, emitters, screens, membership>>

\* updateLastReadSerial(): no row, or one that is ahead, is left as it is.
RaisedAlways(u, upto) == IF u \in roster THEN upto ELSE watermark[u]   \* a mutant
Raised(u, upto) ==
  IF u \in roster /\ watermark[u] < upto THEN upto ELSE watermark[u]

WriteReceipt(r) ==
  /\ relay[r].pc = "writes"
  /\ LET c == relay[r]
     IN  /\ watermark' = [watermark EXCEPT ![c.user] = Raised(c.user, c.upto)]
         /\ relay' = [relay EXCEPT ![r] = [c EXCEPT !.pc = "tells", !.to = Peers \ {c.user}]]
  /\ UNCHANGED <<memo, emitters, screens, membership>>

\* setTyping() and setReadReceipt() of the app that shows the chat.
TypersWith(p, c)   == [typers EXCEPT ![p][c.user] = IF c.upto = 1 THEN 1 + TypingTtl ELSE 0]
ReceiptsWith(p, c) == [receipts EXCEPT ![p][c.user] = IF c.upto > @ THEN c.upto ELSE @]

Told(c, p) == IF c.to = {p} THEN NoRelay ELSE [c EXCEPT !.to = @ \ {p}]

TellPeer(r, p) ==
  /\ relay[r].pc = "tells" /\ p \in relay[r].to
  /\ IF relay[r].kind = "typ"
     THEN typers' = TypersWith(p, relay[r]) /\ UNCHANGED receipts
     ELSE receipts' = ReceiptsWith(p, relay[r]) /\ UNCHANGED typers
  /\ relay' = [relay EXCEPT ![r] = Told(relay[r], p)]
  /\ UNCHANGED <<watermark, memo, emitters, quiet, membership>>

\* A peer without a socket, or whose inbox did not answer, is not told.
TellNobody(r, p) ==
  /\ relay[r].pc = "tells" /\ p \in relay[r].to
  /\ relay' = [relay EXCEPT ![r] = Told(relay[r], p)]
  /\ UNCHANGED <<watermark, memo, emitters, screens, membership>>

\* A statement is rejected, or executed without an answer: nobody hears of it.
RelayFails(r) ==
  /\ relay[r].pc \in {"asks", "knows", "writes"}
  /\ \/ UNCHANGED watermark
     \/ /\ relay[r].pc = "writes"
        /\ watermark' = [watermark EXCEPT ![relay[r].user] = Raised(relay[r].user, relay[r].upto)]
  /\ relay' = [relay EXCEPT ![r] = NoRelay]
  /\ UNCHANGED <<memo, emitters, screens, membership>>

\* The object is evicted.
EvictRoom ==
  /\ memo' = NoMemo /\ relay' = [r \in Relays |-> NoRelay]
  /\ UNCHANGED <<watermark, emitters, screens, membership>>

-----------------------------------------------------------------------------
\* Membership

Expel(u) ==
  /\ u \in roster /\ rosters < MaxRosters /\ rosters' = rosters + 1
  /\ roster' = roster \ {u} /\ watermark' = [watermark EXCEPT ![u] = 0]
  /\ gone' = [gone EXCEPT ![u] = 0] /\ removed' = removed \cup {u}
  /\ UNCHANGED <<memo, relay, emitters, screens>>

Readmit(u) ==
  /\ u \notin roster /\ rosters < MaxRosters /\ rosters' = rosters + 1
  /\ roster' = roster \cup {u}
  /\ relay' = [r \in Relays |->
        IF relay[r].user = u THEN [relay[r] EXCEPT !.entitled = TRUE] ELSE relay[r]]
  /\ UNCHANGED <<watermark, memo, emitters, screens, gone, removed>>

-----------------------------------------------------------------------------
\* The sender's thread

\* onActivity(): the first keystroke; those that follow only put off the idle timer.
StartTyping(u) ==
  /\ ~composing[u]
  /\ composing' = [composing EXCEPT ![u] = TRUE] /\ beating' = [beating EXCEPT ![u] = TRUE]
  /\ quiet' = [quiet EXCEPT ![u] = 0] /\ Emit(u, "typ", 1)
  /\ UNCHANGED <<watermark, memo, lastSent, typers, receipts, membership>>

Heartbeat(u) ==
  /\ beating[u] /\ Emit(u, "typ", 1)
  /\ UNCHANGED <<watermark, memo, emitters, screens, membership>>

\* stop(), by the idle timer, a sent message or the thread's unmount.
ClearedIdle(u)   == [beating EXCEPT ![u] = @]       \* a mutant: the heartbeat goes on
ClearedTimers(u) == [beating EXCEPT ![u] = FALSE]

StopTyping(u) ==
  /\ composing[u]
  /\ composing' = [composing EXCEPT ![u] = FALSE] /\ beating' = ClearedTimers(u)
  /\ Emit(u, "typ", 0)
  /\ UNCHANGED <<watermark, memo, lastSent, screens, membership>>

\* markRead(): only what is newer than all that was emitted since the thread opened.
MarkRead(u, n) ==
  /\ n > lastSent[u] /\ lastSent' = [lastSent EXCEPT ![u] = n]
  /\ Emit(u, "read", n)
  /\ UNCHANGED <<watermark, memo, composing, beating, screens, membership>>

\* The thread is opened again; nobody types in it.
Reopen(u) ==
  /\ ~composing[u] /\ lastSent[u] # 0 /\ lastSent' = [lastSent EXCEPT ![u] = 0]
  /\ UNCHANGED <<watermark, memo, relay, composing, beating, screens, membership>>

-----------------------------------------------------------------------------
\* The app of a peer

Swept(p) == [u \in Signallers |-> IF typers[p][u] = 1 THEN 0 ELSE typers[p][u]]

\* sweepExpiredTyping(), every 2 s.
Sweep(p) ==
  /\ \E u \in Signallers : typers[p][u] = 1
  /\ typers' = [typers EXCEPT ![p] = Swept(p)]
  /\ UNCHANGED <<watermark, memo, relay, emitters, receipts, quiet, membership>>

\* The app is killed: what it shows is not stored.
AppKilled(p) ==
  /\ typers' = [typers EXCEPT ![p] = [u \in Signallers |-> 0]]
  /\ receipts' = [receipts EXCEPT ![p] = [u \in Signallers |-> 0]]
  /\ IF p \in Signallers
     THEN /\ composing' = [composing EXCEPT ![p] = FALSE]
          /\ beating' = [beating EXCEPT ![p] = FALSE]
          /\ lastSent' = [lastSent EXCEPT ![p] = 0]
     ELSE UNCHANGED emitters
  /\ UNCHANGED <<watermark, memo, relay, quiet, membership>>

-----------------------------------------------------------------------------
Aged(age) == IF age <= MemberTtl THEN age + 1 ELSE age

\* A signal of u that it types is on its way to the screens.
OnItsWay(u) ==
  \E r \in Relays : relay[r].pc # "none" /\ relay[r].kind = "typ" /\ relay[r].upto = 1
                     /\ relay[r].user = u

Elapse ==
  /\ memo' = IF memo.age < MemberTtl THEN [memo EXCEPT !.age = @ + 1] ELSE NoMemo
  /\ relay' = [r \in Relays |->
        IF relay[r].pc \in {"asks", "knows"} THEN [relay[r] EXCEPT !.age = Aged(@)] ELSE relay[r]]
  /\ gone' = [u \in Signallers |-> IF u \in roster THEN 0 ELSE Aged(gone[u])]
  /\ typers' = [p \in Peers |-> [u \in Signallers |->
        IF typers[p][u] > 1 THEN typers[p][u] - 1 ELSE typers[p][u]]]
  /\ quiet' = [u \in Signallers |->
        IF composing[u] \/ OnItsWay(u) THEN 0
        ELSE IF quiet[u] < TypingTtl THEN quiet[u] + 1 ELSE quiet[u]]
  /\ UNCHANGED <<roster, watermark, emitters, receipts, rosters, removed>>

RelayStep(r) ==
  \/ LookUp(r) \/ Memoize(r) \/ RelayFails(r)
  \/ \E p \in Peers : TellPeer(r, p) \/ TellNobody(r, p)
Around == Elapse \/ EvictRoom \/ \E p \in Peers : AppKilled(p)

\* The two kinds of signals share the gate and nothing else.
TypingNext ==
  \/ Around
  \/ \E u \in Signallers : StartTyping(u) \/ Heartbeat(u) \/ StopTyping(u)
  \/ \E p \in Peers : Sweep(p)
  \/ \E r \in Relays : RelayStep(r)
ReadingNext ==
  \/ Around
  \/ \E u \in Signallers : \/ Expel(u) \/ Readmit(u) \/ Reopen(u)
                            \/ \E n \in 1 .. MaxRead : MarkRead(u, n)
  \/ \E r \in Relays : RelayStep(r) \/ WriteReceipt(r)

SignalsNext == TypingNext \/ ReadingNext

SignalsSpec == SignalsInit /\ [][SignalsNext]_signalVars

-----------------------------------------------------------------------------
\* Properties

SignalsTypeOK ==
  /\ roster \subseteq Peers /\ removed \subseteq Signallers /\ rosters \in 0 .. MaxRosters
  /\ watermark \in [Peers -> 0 .. MaxRead]
  /\ memo.ids \subseteq Peers /\ memo.age \in 0 .. MemberTtl + 1
  /\ \A r \in Relays :
       /\ relay[r].pc \in {"none", "asks", "knows", "writes", "tells"}
       /\ relay[r].to \subseteq Peers
       /\ relay[r].pc # "none" => relay[r].upto \in (0 .. MaxRead) \cup {1}
  /\ \A p \in Peers, u \in Signallers :
       typers[p][u] \in 0 .. TypingTtl + 1 /\ receipts[p][u] \in 0 .. MaxRead

\* "A removed member can spoof for at most MEMBER_CACHE_TTL_MS" (chat.ts:47-51): a
\* signal that is let through is of a user who was a member at some time not longer
\* than that before the signal came, however the lookups of several calls, evictions
\* and changes of the membership fall.
GateIsFresh == \A r \in Relays : relay[r].pc \in {"writes", "tells"} => relay[r].entitled

\* What a peer's bubbles show as read is in the reader's row, unless the reader was
\* removed meanwhile (the row is gone, the signal of the time before it is told
\* nevertheless, and a new row starts at null).
ReceiptsAreStored ==
  \A p \in Peers, u \in Signallers : receipts[p][u] <= watermark[u] \/ u \in removed

\* useTypers(): whom the thread of p shows as typing.
ShownTyping(p) == {u \in Signallers \ {p} : typers[p][u] > 1}

\* Nobody stays "typing" on a peer's screen: once u no longer composes, for whatever
\* reason, and no signal of it is under way, TYPING_TTL_MS is the longest the screens
\* show it, whichever of the signals were lost or overtaken one another.
TypingIsBrief == \A p \in Peers : \A u \in ShownTyping(p) : quiet[u] < TypingTtl

\* useIsReadByPeer(), and usePeerReadWatermark() with 0 for null: what the thread of p
\* knows of others' reading of message n.
ReadByPeer(p, n) == \E u \in Signallers \ {p} : receipts[p][u] >= n
SeenMarks(p)     == {receipts[p][u] : u \in Signallers \ {p}} \cup {0}
PeerWatermark(p) == CHOOSE w \in SeenMarks(p) : \A v \in SeenMarks(p) : v <= w

\* The two ways to ask agree on every message of the thread, and a bubble that is shown
\* as read has a reader whose row says so, or who was removed.
BubblesAreRight ==
  \A p \in Peers, n \in 1 .. MaxRead :
    /\ ReadByPeer(p, n) <=> n <= PeerWatermark(p)
    /\ n <= PeerWatermark(p) => \E u \in Signallers \ {p} : watermark[u] >= n \/ u \in removed

SignalsAreSound == GateIsFresh /\ ReceiptsAreStored /\ TypingIsBrief /\ BubblesAreRight

=============================================================================
