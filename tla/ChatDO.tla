------------------------------- MODULE ChatDO -------------------------------
(***************************************************************************)
(* The Chat durable object (services/chat-ws/src/durable/chat.ts): one     *)
(* single-threaded actor per chat that buffers sends, assigns each one the *)
(* chat's next serverSerial, writes them to Neon and answers with ack and  *)
(* msg frames.                                                             *)
(*                                                                         *)
(* Granularity.  A durable object runs one event at a time and delivers no *)
(* event while a ctx.storage call is pending (its input gate), so the code *)
(* between two awaits of a NETWORK call is one step.  The network calls    *)
(* are the Neon queries and the UserInbox RPCs: a flush that waits for one *)
(* can be overtaken by acceptSend and by the next timer's flush.           *)
(*                                                                         *)
(* Neon is modelled by what its constraints do: the primary key            *)
(* (chatId, serverSerial, createdAt) with ON CONFLICT DO NOTHING, the      *)
(* unique index (chatId, clientMsgId, createdAt), createdAt DEFAULT now.   *)
(*                                                                         *)
(* Some small operators stand in pairs: the first is a plausible mistake   *)
(* that nothing refers to, put in the place of the second to see that the  *)
(* properties notice it (PROJECT.json "mutants").                          *)
(***************************************************************************)
EXTENDS Naturals, Sequences, FiniteSets

CONSTANTS
  Users,        \* user ids that own an inbox
  Members,      \* the ChatMember rows of this chat
  Msgs,         \* client message ids (clientMsgId)
  Sender,       \* the author of each message
  NoMsg,        \* "no message in hand"
  Flushes,      \* slots for flush() calls that run at the same time
  MaxSends,     \* bound: acceptSend calls
  MaxCopies,    \* bound: acceptSend calls with the same clientMsgId
  MaxCrashes,   \* bound: evictions or restarts of the object
  MaxLost,      \* bound: calls whose answer is lost
  MaxFails,     \* bound: calls that fail before reaching the other side
  MaxFaults,    \* bound: crashes, lost answers and failed calls together
  MaxAttach     \* bound: attach and detach calls

ASSUME ChatAssumption ==
  /\ Members \subseteq Users
  /\ Sender \in [Msgs -> Users]
  /\ NoMsg \notin Msgs
  /\ {MaxSends, MaxCopies, MaxCrashes, MaxLost, MaxFails, MaxFaults, MaxAttach} \subseteq Nat

VARIABLES
  \* In the object's memory, lost by a crash.
  buffer,        \* this.buffer
  loaded,        \* this.bufferLoaded
  nextSerial,    \* this.nextSerial, 0 for null
  timer,         \* this.flushTimer is set
  flush,         \* the flush() calls in progress
  \* In ctx.storage.
  storedBuffer,  \* BUFFER_KEY
  storedNext,    \* NEXT_SERIAL_KEY, 0 when absent
  attached,      \* ATTACHED_KEY
  \* Outside the object.
  rows,          \* the chat's ChatMessage rows in Neon
  now,           \* Neon's clock
  orphans,       \* INSERTs whose caller is gone, that may still be executed
  kv,            \* chatmax:<chatId> in CHAT_MAX_CACHE, 0 when absent
  kvPending,     \* KV puts that were started and not awaited
  \* History and bounds.
  accepted,      \* clientMsgIds in the order acceptSend took them
  sent,          \* frames handed to an inbox, and push events
  faults         \* how often each bounded event happened

memory  == <<buffer, loaded, nextSerial, timer, flush>>
storage == <<storedBuffer, storedNext, attached>>
outside == <<rows, now, orphans, kv, kvPending>>
history == <<accepted, sent, faults>>
vars    == <<memory, storage, outside, history>>

-----------------------------------------------------------------------------
\* Types

Pcs == {"idle", "recover", "recovered", "insert", "inserted", "conflict",
        "error", "bumping", "bumped", "fanout", "push"}

AssignedSend == [msg : Msgs, serial : Nat]

FlushState ==
  [pc       : Pcs,
   batch    : Seq(Msgs),         \* what `batch` refers to once it is no longer this.buffer
   aliased  : BOOLEAN,           \* `batch` is still the array this.buffer
   pos      : Nat,               \* position of the for-of loop
   entry    : Msgs \cup {NoMsg}, \* the loop variable
   attempt  : {0, 1},            \* insertWithRetry's loop counter
   serial   : Nat,               \* the serial of the INSERT in flight
   max      : Nat,               \* the answer of maxSerial()
   assigned : Seq(AssignedSend)]

NotFlushing ==
  [pc |-> "idle", batch |-> << >>, aliased |-> FALSE, pos |-> 0, entry |-> NoMsg,
   attempt |-> 0, serial |-> 0, max |-> 0, assigned |-> << >>]

Row     == [serial : Nat, msg : Msgs, createdAt : Nat]
Orphan  == [serial : Nat, msg : Msgs]
Frame   == [kind : {"ack", "msg", "push", "err"}, to : Users,
            msg : Msgs \cup {NoMsg}, serial : Nat]
Faults  == [crashes : Nat, lost : Nat, fails : Nat, attach : Nat]

TypeOK ==
  /\ buffer \in Seq(Msgs)
  /\ loaded \in BOOLEAN
  /\ nextSerial \in Nat
  /\ timer \in BOOLEAN
  /\ flush \in [Flushes -> FlushState]
  /\ storedBuffer \in Seq(Msgs)
  /\ storedNext \in Nat
  /\ attached \subseteq Users
  /\ rows \subseteq Row
  /\ now \in Nat
  /\ orphans \subseteq Orphan
  /\ kv \in Nat
  /\ kvPending \subseteq Nat
  /\ accepted \in Seq(Msgs)
  /\ sent \subseteq Frame
  /\ faults \in Faults

Init ==
  /\ buffer = << >>
  /\ loaded = FALSE
  /\ nextSerial = 0
  /\ timer = FALSE
  /\ flush = [f \in Flushes |-> NotFlushing]
  /\ storedBuffer = << >>
  /\ storedNext = 0
  /\ attached = {}
  /\ rows = {}
  /\ now = 0
  /\ orphans = {}
  /\ kv = 0
  /\ kvPending = {}
  /\ accepted = << >>
  /\ sent = {}
  /\ faults = [crashes |-> 0, lost |-> 0, fails |-> 0, attach |-> 0]

-----------------------------------------------------------------------------
\* Helpers

FaultLeft == faults.crashes + faults.lost + faults.fails < MaxFaults

Fail ==
  /\ FaultLeft
  /\ faults.fails < MaxFails
  /\ faults' = [faults EXCEPT !.fails = @ + 1]

Lose ==
  /\ FaultLeft
  /\ faults.lost < MaxLost
  /\ faults' = [faults EXCEPT !.lost = @ + 1]

\* The entries a flush still iterates over: pushes to this.buffer are seen by a
\* running loop for as long as its batch is that very array.
Batch(f) == IF flush[f].aliased THEN buffer ELSE flush[f].batch

\* SELECT COALESCE(MAX("serverSerial"), 0) answers n.
IsMaxSerial(n) ==
  /\ \A r \in rows : r.serial <= n
  /\ n = 0 \/ \E r \in rows : r.serial = n

\* The state of a flush that has just sent the INSERT of entry m with serial s.
Inserting(fl, k, m, tries, s) ==
  [fl EXCEPT !.pc = "insert", !.pos = k, !.entry = m, !.attempt = tries, !.serial = s]

SetPc(f, pc) == flush' = [flush EXCEPT ![f].pc = pc]

-----------------------------------------------------------------------------
\* RPCs of the UserInbox objects

AttachInbox(u) ==
  /\ faults.attach < MaxAttach
  /\ u \notin attached
  /\ attached' = attached \cup {u}
  /\ faults' = [faults EXCEPT !.attach = @ + 1]
  /\ UNCHANGED <<memory, storedBuffer, storedNext, outside, accepted, sent>>

DetachInbox(u) ==
  /\ faults.attach < MaxAttach
  /\ u \in attached
  /\ attached' = attached \ {u}
  /\ faults' = [faults EXCEPT !.attach = @ + 1]
  /\ UNCHANGED <<memory, storedBuffer, storedNext, outside, accepted, sent>>

Copies(m) == Cardinality({i \in DOMAIN accepted : accepted[i] = m})

\* The array a send is pushed to, read from storage after a restart.
Held == IF loaded THEN buffer ELSE storedBuffer

BufferUnshifted(m) == <<m>> \o Held
BufferWith(m) == Append(Held, m)

StoredWhenScheduling(m) == IF timer THEN storedBuffer ELSE BufferWith(m)
StoredWith(m) == BufferWith(m)

\* The transport may hand over the same clientMsgId again after a reconnect.
AcceptSend(m) ==
  /\ Len(accepted) < MaxSends
  /\ Copies(m) < MaxCopies
  /\ buffer' = BufferWith(m)
  /\ storedBuffer' = StoredWith(m)
  /\ loaded' = TRUE
  /\ timer' = TRUE
  /\ accepted' = Append(accepted, m)
  /\ UNCHANGED <<nextSerial, flush, storedNext, attached, outside, sent, faults>>

-----------------------------------------------------------------------------
\* flush()

\* The timer fires.  An empty buffer ends the call at once; otherwise the loop
\* starts when the counter is known (in memory or in storage) and Neon is asked
\* for MAX(serverSerial) when it is not.
FlushTimer(f) ==
  /\ timer
  /\ flush[f].pc = "idle"
  /\ timer' = FALSE
  /\ LET started == [NotFlushing EXCEPT !.aliased = TRUE]
         known   == IF nextSerial # 0 THEN nextSerial ELSE storedNext
     IN  \/ /\ buffer = << >>
            /\ UNCHANGED <<flush, nextSerial>>
         \/ /\ buffer # << >>
            /\ known # 0
            /\ nextSerial' = known
            /\ flush' = [flush EXCEPT ![f] = Inserting(started, 1, buffer[1], 0, known)]
         \/ /\ buffer # << >>
            /\ known = 0
            /\ flush' = [flush EXCEPT ![f] = [started EXCEPT !.pc = "recover"]]
            /\ UNCHANGED nextSerial
  /\ UNCHANGED <<buffer, loaded, storage, outside, history>>

\* Neon evaluates the MAX query a flush waits for.
NeonMax(f) ==
  /\ flush[f].pc \in {"recover", "bumping"}
  /\ \E n \in {0} \cup {r.serial : r \in rows} :
       /\ IsMaxSerial(n)
       /\ flush' = [flush EXCEPT
            ![f].pc = IF @ = "recover" THEN "recovered" ELSE "bumped",
            ![f].max = n]
  /\ UNCHANGED <<buffer, loaded, nextSerial, timer, storage, outside, history>>

\* The MAX query fails: the rejection leaves flush() and nobody catches it.
NeonMaxFails(f) ==
  /\ flush[f].pc \in {"recover", "bumping"}
  /\ Fail
  /\ flush' = [flush EXCEPT ![f] = NotFlushing]
  /\ UNCHANGED <<buffer, loaded, nextSerial, timer, storage, outside, accepted, sent>>

\* ensureSerialRecovered() gets its answer and assigns it, whatever another
\* flush made of the counter in the meantime.
Recovered(f) ==
  /\ flush[f].pc = "recovered"
  /\ nextSerial' = flush[f].max + 1
  /\ flush' = [flush EXCEPT ![f] = Inserting(@, 1, Batch(f)[1], 0, @.max + 1)]
  /\ UNCHANGED <<buffer, loaded, timer, storage, outside, history>>

\* Neon executes an INSERT of message m under serial s at time `at`: "conflict"
\* affects no row, "error" is the violation of the other unique index.
InsertOutcome(s, m, at) ==
  IF \E r \in rows : r.serial = s /\ r.createdAt = at THEN "conflict"
  ELSE IF \E r \in rows : r.msg = m /\ r.createdAt = at THEN "error"
  ELSE "inserted"

InsertRow(s, m, at, outcome) ==
  /\ now' = at
  /\ outcome = InsertOutcome(s, m, at)
  /\ rows' = IF outcome = "inserted"
               THEN rows \cup {[serial |-> s, msg |-> m, createdAt |-> at]}
               ELSE rows

NeonInsert(f) ==
  /\ flush[f].pc = "insert"
  /\ \E at \in {now, now + 1}, outcome \in {"inserted", "conflict", "error"} :
       /\ InsertRow(flush[f].serial, flush[f].entry, at, outcome)
       /\ SetPc(f, outcome)
  /\ UNCHANGED <<buffer, loaded, nextSerial, timer, storage, orphans, kv, kvPending, history>>

\* An INSERT nobody waits for any more is executed late.
NeonOrphan(o) ==
  /\ \E at \in {now, now + 1}, outcome \in {"inserted", "conflict", "error"} :
       InsertRow(o.serial, o.msg, at, outcome)
  /\ orphans' = orphans \ {o}
  /\ UNCHANGED <<memory, storage, kv, kvPending, history>>

\* Where a thrown call leaves insertWithRetry().
ThrownCountsAsRow == "inserted"
Thrown == "error"

\* The call throws before the statement reached Neon.
InsertFails(f) ==
  /\ flush[f].pc = "insert"
  /\ Fail
  /\ SetPc(f, Thrown)
  /\ UNCHANGED <<buffer, loaded, nextSerial, timer, storage, outside, accepted, sent>>

\* The call throws although the statement is on its way, or was executed.
InsertAnswerLost(f) ==
  /\ flush[f].pc \in {"insert", "inserted", "conflict"}
  /\ Lose
  /\ SetPc(f, Thrown)
  /\ orphans' = IF flush[f].pc = "insert"
                  THEN orphans \cup {[serial |-> flush[f].serial, msg |-> flush[f].entry]}
                  ELSE orphans
  /\ UNCHANGED <<buffer, loaded, nextSerial, timer, storage, rows, now, kv, kvPending,
                 accepted, sent>>

ErrFrame(m) == [kind |-> "err", to |-> Sender[m], msg |-> NoMsg, serial |-> 0]

\* insertWithRetry() returns null: PERSIST_FAILED to the author and return.  The
\* entries stay in the buffer and no timer is set.
GiveUp(f) ==
  /\ sent' = sent \cup {ErrFrame(flush[f].entry)}
  /\ flush' = [flush EXCEPT ![f] = NotFlushing]

RetryFreshSerial == nextSerial + 1
RetrySerial == nextSerial

\* catch: the first failure sends the INSERT again, with the counter as it is now.
InsertThrew(f) ==
  /\ flush[f].pc = "error"
  /\ \/ /\ flush[f].attempt = 0
        /\ flush' = [flush EXCEPT ![f] = Inserting(@, @.pos, @.entry, 1, RetrySerial)]
        /\ UNCHANGED sent
     \/ /\ flush[f].attempt = 1
        /\ GiveUp(f)
  /\ UNCHANGED <<buffer, loaded, nextSerial, timer, storage, outside, accepted, faults>>

\* No row was affected: the serial is taken, ask Neon for the greatest one.
InsertConflict(f) ==
  /\ flush[f].pc = "conflict"
  /\ SetPc(f, "bumping")
  /\ UNCHANGED <<buffer, loaded, nextSerial, timer, storage, outside, history>>

Bumped(f) ==
  /\ flush[f].pc = "bumped"
  /\ nextSerial' = flush[f].max + 1
  /\ \/ /\ flush[f].attempt = 0
        /\ flush' = [flush EXCEPT ![f] = Inserting(@, @.pos, @.entry, 1, @.max + 1)]
        /\ UNCHANGED sent
     \/ /\ flush[f].attempt = 1
        /\ GiveUp(f)
  /\ UNCHANGED <<buffer, loaded, timer, storage, outside, accepted, faults>>

\* A row was affected: the counter moves past this serial and the loop goes on.
Assign(f) ==
  [flush[f] EXCEPT !.assigned = Append(@, [msg |-> flush[f].entry, serial |-> flush[f].serial])]

InsertedMore(f) ==
  /\ flush[f].pc = "inserted"
  /\ flush[f].pos < Len(Batch(f))
  /\ nextSerial' = flush[f].serial + 1
  /\ flush' = [flush EXCEPT ![f] =
       Inserting(Assign(f), @.pos + 1, Batch(f)[@.pos + 1], 0, @.serial + 1)]
  /\ UNCHANGED <<buffer, loaded, timer, storage, outside, history>>

\* After the last entry: one storage transaction clears BUFFER_KEY and stores the
\* counter, this.buffer becomes a new array, and the KV put is started.  Other
\* flushes keep iterating over the array they hold.
Detached(fl) ==
  IF fl.aliased THEN [fl EXCEPT !.batch = buffer, !.aliased = FALSE] ELSE fl

Counter(f) == flush[f].serial + 1
LastServed(f) == flush[f].serial

SameArray == buffer
NewArray  == << >>

InsertedLast(f) ==
  /\ flush[f].pc = "inserted"
  /\ flush[f].pos >= Len(Batch(f))
  /\ nextSerial' = flush[f].serial + 1
  /\ storedNext' = flush[f].serial + 1
  /\ storedBuffer' = << >>
  /\ buffer' = NewArray
  /\ kvPending' = kvPending \cup {LastServed(f)}
  /\ flush' = [g \in Flushes |->
       IF g = f THEN [Assign(f) EXCEPT !.pc = "fanout"] ELSE Detached(flush[g])]
  /\ UNCHANGED <<loaded, timer, attached, rows, now, orphans, kv, history>>

Assigned(f) == {flush[f].assigned[i] : i \in DOMAIN flush[f].assigned}

FrameOf(kind, u, a) == [kind |-> kind, to |-> u, msg |-> a.msg, serial |-> a.serial]

\* ackBatch, to the authors.
AcksByMessage(f) == {FrameOf("ack", a.msg, a) : a \in Assigned(f)}
AcksFirstAuthor(f) ==
  LET first == Sender[flush[f].assigned[1].msg]
  IN  {FrameOf("ack", first, a) : a \in {b \in Assigned(f) : Sender[b.msg] = first}}
Acks(f) == {FrameOf("ack", Sender[a.msg], a) : a \in Assigned(f)}

\* Frames of one kind to all users of S but the author.
ToOthers(f, kind, S) ==
  UNION {{FrameOf(kind, u, a) : u \in S \ {Sender[a.msg]}} : a \in Assigned(f)}

\* deliverBatch goes to whoever else is attached.
FanoutFrames(f) == Acks(f) \cup ToOthers(f, "msg", attached)

Fanout(f) ==
  /\ flush[f].pc = "fanout"
  /\ sent' = sent \cup FanoutFrames(f)
  /\ SetPc(f, "push")
  /\ UNCHANGED <<buffer, loaded, nextSerial, timer, storage, outside, accepted, faults>>

\* Some inbox RPC rejects: the others are done, the rest of flush() is not.
FanoutFails(f) ==
  /\ flush[f].pc = "fanout"
  /\ Lose
  /\ \E reached \in SUBSET Users :
       sent' = sent \cup {m \in FanoutFrames(f) : m.to \in reached}
  /\ flush' = [flush EXCEPT ![f] = NotFlushing]
  /\ UNCHANGED <<buffer, loaded, nextSerial, timer, storage, outside, accepted>>

\* chat.msg.delivered for every message, to the members other than its author.
Push(f) ==
  /\ flush[f].pc = "push"
  /\ sent' = sent \cup ToOthers(f, "push", Members)
  /\ flush' = [flush EXCEPT ![f] = NotFlushing]
  /\ UNCHANGED <<buffer, loaded, nextSerial, timer, storage, outside, accepted, faults>>

\* memberIds() fails: the messages are persisted and acked, and never pushed.
PushFails(f) ==
  /\ flush[f].pc = "push"
  /\ Fail
  /\ flush' = [flush EXCEPT ![f] = NotFlushing]
  /\ UNCHANGED <<buffer, loaded, nextSerial, timer, storage, outside, accepted, sent>>

-----------------------------------------------------------------------------
\* The KV put lands (or never does), in any order; eviction or restart.

KvPut(v) ==
  /\ kv' = v
  /\ kvPending' = kvPending \ {v}
  /\ UNCHANGED <<memory, storage, rows, now, orphans, history>>

Crash ==
  /\ FaultLeft
  /\ faults.crashes < MaxCrashes
  /\ faults' = [faults EXCEPT !.crashes = @ + 1]
  /\ buffer' = << >>
  /\ loaded' = FALSE
  /\ nextSerial' = 0
  /\ timer' = FALSE
  /\ flush' = [f \in Flushes |-> NotFlushing]
  /\ orphans' = orphans \cup
       {[serial |-> flush[f].serial, msg |-> flush[f].entry] :
          f \in {g \in Flushes : flush[g].pc = "insert"}}
  /\ UNCHANGED <<storage, rows, now, kv, kvPending, accepted, sent>>

-----------------------------------------------------------------------------

\* The steps the object and Neon take on their own while both are up.
FlushStep(f) ==
  \/ FlushTimer(f)     \/ NeonMax(f)        \/ Recovered(f)
  \/ NeonInsert(f)     \/ InsertThrew(f)    \/ InsertConflict(f)
  \/ Bumped(f)         \/ InsertedMore(f)   \/ InsertedLast(f)
  \/ Fanout(f)         \/ Push(f)

FlushFault(f) ==
  \/ NeonMaxFails(f)   \/ InsertFails(f)    \/ InsertAnswerLost(f)
  \/ FanoutFails(f)    \/ PushFails(f)

Next ==
  \/ \E u \in Users : AttachInbox(u) \/ DetachInbox(u)
  \/ \E m \in Msgs : AcceptSend(m)
  \/ \E f \in Flushes : FlushStep(f) \/ FlushFault(f)
  \/ \E o \in orphans : NeonOrphan(o)
  \/ \E v \in kvPending : KvPut(v)
  \/ Crash

Spec == Init /\ [][Next]_vars

\* While the object is up its timers fire and Neon and the inboxes answer.
\* Clients, faults, orphans and KV get no fairness.
FairSpec == Spec /\ \A f \in Flushes : WF_vars(FlushStep(f))

-----------------------------------------------------------------------------
\* Safety

\* Whatever an inbox or the push pipeline was told about is in Neon: an ack, a
\* msg frame and a push event name a row with that serial and that message,
\* through lost answers, crashes and overlapping flushes (chat.ts flush()).
SentIsDurable ==
  \A m \in sent : m.kind # "err" =>
    \E r \in rows : r.serial = m.serial /\ r.msg = m.msg

\* Serials have no gap: every serial below one in Neon is in Neon too, so a
\* reader that pages by serverSerial never waits for, or jumps over, a serial
\* that will be filled in later (chat.ts insertWithRetry(), maxSerial()).
DenseSerials ==
  \A r \in rows : \A s \in 1 .. r.serial : \E q \in rows : q.serial = s

\* The skip-cache never claims more than Neon holds, with puts that are lost or
\* land late: a client is never told to skip a page it could not have read.
KvNeverAhead ==
  \A v \in kvPending \cup {kv} : v = 0 \/ \E r \in rows : r.serial = v

\* A send that acceptSend took is in Neon or in the stored buffer, at all times
\* (chat.ts:147 "Persist buffer so hibernation mid-batch doesn't drop sends").
NoLostSend ==
  \A i \in DOMAIN accepted :
    \/ \E r \in rows : r.msg = accepted[i]
    \/ \E j \in DOMAIN storedBuffer : storedBuffer[j] = accepted[i]

\* One row per clientMsgId (schema.prisma:536 "uniqueness is per (chatId,
\* clientMsgId)").
OneRowPerClientMsg ==
  \A r, q \in rows : r.msg = q.msg => r = q

\* One message per serial.
OneMsgPerSerial ==
  \A r, q \in rows : r.serial = q.serial => r = q

\* While flushes do not overlap, no answer is lost, the object is not restarted and
\* no flush gives up, each accepted send gets one row and a serial names one row
\* (chat.ts flush()).
ExactlyOnce == OneRowPerClientMsg /\ OneMsgPerSerial

Acked(m) == \E a \in sent : a.kind = "ack" /\ a.msg = m

\* A flush that is scheduled acks everything accepted before it fires, the
\* entries an earlier failed flush left behind included, unless a call fails
\* again (chat.ts:167 "next scheduled flush picks up the same entries").
FlushDrains ==
  \A m \in Msgs, k \in 0 .. MaxFails :
    (Copies(m) > 0 /\ timer /\ faults.fails = k) ~> (Acked(m) \/ faults.fails > k)

\* Every accepted send is persisted and its author told so, a failed call
\* notwithstanding (chat.ts:167 "If flush throws, next scheduled flush picks up
\* the same entries").
EventuallyAcked ==
  \A m \in Msgs : Copies(m) > 0 ~> Acked(m)

-----------------------------------------------------------------------------
\* The object implements DurableLog

\* DurableLog's variables read off the concrete state.  The mapping numbers
\* positions, so it is used with MaxCopies = 1.
PersistedAt == {i \in DOMAIN accepted : \E r \in rows : r.msg = accepted[i]}
AckedAt     == {i \in DOMAIN accepted : Acked(accepted[i])}

Log == INSTANCE DurableLog WITH durable <- PersistedAt, acked <- AckedAt

\* As long as flushes do not overlap, the object implements the durable log:
\* through crashes, lost answers and failed inserts it persists what it accepted
\* in acceptance order, and acks only what is durable (chat.ts flush()).
ImplementsDurableLog == Log!Spec

=============================================================================
