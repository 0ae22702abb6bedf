------------------------------ MODULE SendPath ------------------------------
(***************************************************************************)
(* How one device sends: the composer (hooks.ts), the bubbles (store.ts),  *)
(* the pending_outbox table (chat-db/outbox.ts), the outbox worker         *)
(* (outbox-worker.ts), MLS encryption (encrypted-transport.ts), and the    *)
(* transport's pending map with its replay after a reconnect (client.ts).  *)
(*                                                                         *)
(* The server side is what module DurableLog promises of a Chat object: it *)
(* takes frames, makes them durable, acks durable ones; it may also refuse *)
(* (PERSIST_FAILED) and keep the send in its buffer.                       *)
(*                                                                         *)
(* Granularity.  JavaScript runs to the next await, so one action is the   *)
(* code between two awaits of the database or the transport; a handler     *)
(* that changes memory and then writes one row (Retry, Delete, firePersist)*)
(* is one action.  Disk errors are modelled for enqueue() only.            *)
(***************************************************************************)
EXTENDS Naturals, Sequences, FiniteSets, Functions, Ranks

CONSTANTS
  Msgs,         \* messages, by clientMsgId
  Chats,
  ChatOf,       \* the chat of each message
  MaxAttempts,  \* MAX_ATTEMPTS of the worker
  TickLimit,    \* TICK_LIMIT of the worker
  Bound,        \* bound: how often each kind of event may happen
  MaxEvents     \* bound: and all kinds together

\* The app is killed, the connection is lost, enqueue() or encryption fails, the
\* server answers a send with an err frame or loses its ack, the user taps retry,
\* the engine snapshot is written.
Kinds == {"crashes", "drops", "fails", "unacked", "retries", "snapshots"}

ASSUME SendAssumption ==
  /\ ChatOf \in [Msgs -> Chats]
  /\ MaxAttempts \in Nat \ {0}
  /\ TickLimit \in Nat \ {0}
  /\ Bound \in [Kinds -> Nat]
  /\ MaxEvents \in Nat

VARIABLES
  \* On disk.
  outbox,     \* the row of each message in pending_outbox
  order,      \* the due rows by next_attempt_at
  attempts,   \* the attempts column
  saved,      \* the messages table: statuses stored for each clientMsgId
  snapshot,   \* generations in the stored engine snapshot
  \* In the app's memory.
  bubble,     \* statuses of the bubbles shown for each clientMsgId
  hydrated,   \* the messages table was read in this launch
  enqueueing, \* enqueue() calls in progress
  work,       \* rows the running tick still has to dispatch, per chat
  stage,      \* where dispatchOne() waits, per chat
  pending,    \* the transport's pending sends
  engine,     \* generations used by the engine, per chat
  conn,       \* "closed", "open" (socket), "ready" (hello was received)
  \* Between the app and the Chat objects.
  wire,       \* send frames on the socket, in order
  arrived,    \* the sends the Chat objects took, in order
  acks,       \* ack frames on the socket
  \* History and bounds.
  composed,   \* messages the user has sent
  enqueued,   \* messages whose row was written
  deleted,    \* messages the user has deleted
  faults      \* how often each bounded event happened

disk    == <<outbox, order, attempts, saved, snapshot>>
app     == <<bubble, hydrated, enqueueing, work, stage, pending, engine, conn>>
net     == <<wire, arrived, acks>>
history == <<composed, enqueued, deleted, faults>>
vars    == <<disk, app, net, history>>

-----------------------------------------------------------------------------
\* Types

Local    == {"sending", "failed"}      \* statuses of an entry whose id is the clientMsgId
Status   == Local \cup {"sent"}        \* "sent": its id is the serverMsgId
RowState == {"none", "due", "parked", "dead"}
Stage    == {"send", "await", "acked", "sent", "dead"}
Payload  == [msg : Msgs, gen : Nat, launch : Nat]
Arrival  == [msg : Msgs, gen : Nat, launch : Nat,
             state : {"buffered", "refused", "stored", "acked"}]

TypeOK ==
  /\ outbox \in [Msgs -> RowState]
  /\ order \in Seq(Msgs)
  /\ \A m \in Msgs :
       Cardinality({i \in DOMAIN order : order[i] = m}) = IF outbox[m] = "due" THEN 1 ELSE 0
  /\ attempts \in [Msgs -> 0 .. MaxAttempts]
  /\ saved \in [Msgs -> SUBSET Status]
  /\ snapshot \in [Chats -> Nat]
  /\ bubble \in [Msgs -> SUBSET Status]
  /\ hydrated \in BOOLEAN
  /\ enqueueing \in Seq(Msgs)
  /\ work \in [Chats -> Seq(Msgs)]
  /\ stage \in [Chats -> Stage]
  /\ pending \subseteq Payload
  /\ engine \in [Chats -> Nat]
  /\ conn \in {"closed", "open", "ready"}
  /\ wire \in Seq(Payload)
  /\ arrived \in Seq(Arrival)
  /\ acks \subseteq Msgs
  /\ composed \subseteq Msgs
  /\ enqueued \subseteq Msgs
  /\ deleted \subseteq Msgs
  /\ faults \in [Kinds -> Nat]

Init ==
  /\ outbox = [m \in Msgs |-> "none"]
  /\ order = << >>
  /\ attempts = [m \in Msgs |-> 0]
  /\ saved = [m \in Msgs |-> {}]
  /\ snapshot = [c \in Chats |-> 0]
  /\ bubble = [m \in Msgs |-> {}]
  /\ hydrated = TRUE
  /\ enqueueing = << >>
  /\ work = [c \in Chats |-> << >>]
  /\ stage = [c \in Chats |-> "send"]
  /\ pending = {}
  /\ engine = [c \in Chats |-> 0]
  /\ conn = "closed"
  /\ wire = << >>
  /\ arrived = << >>
  /\ acks = {}
  /\ composed = {}
  /\ enqueued = {}
  /\ deleted = {}
  /\ faults = [k \in Kinds |-> 0]

\* Counts an event of a bounded kind.
Happens(kind) ==
  /\ faults[kind] < Bound[kind]
  /\ FoldFunction(LAMBDA n, sum : n + sum, 0, faults) < MaxEvents
  /\ faults' = [faults EXCEPT ![kind] = @ + 1]

-----------------------------------------------------------------------------
\* The store's reducers, on the statuses shown for one clientMsgId.  The entry
\* they find is the oldest one, which is the local one when there is one.

ConfirmedBubble(b) == IF b = {} THEN {} ELSE {"sent"}

HiddenBubble(b) == b \ {"sending"}
FailedBubble(b) == IF b \cap Local = {} THEN b ELSE (b \ Local) \cup {"failed"}

RetriedBubble(b) == IF "failed" \in b THEN (b \ Local) \cup {"sending"} ELSE b

\* firePersist() of a local entry overwrites the local row, if there was an entry
\* to change; that of a confirmed one adds a row under the serverMsgId.
Persisted(m, status) ==
  IF bubble[m] = {} THEN saved
  ELSE [saved EXCEPT ![m] = IF status = "sent" THEN @ \cup {"sent"}
                            ELSE (@ \ Local) \cup {status}]

-----------------------------------------------------------------------------
\* Composer, and the user's actions on a failed bubble

\* useSendMessage(): the bubble now, the row as soon as the database gets to it.
Compose(m) ==
  /\ m \notin composed
  /\ composed' = composed \cup {m}
  /\ bubble' = [bubble EXCEPT ![m] = {"sending"}]
  /\ enqueueing' = Append(enqueueing, m)
  /\ UNCHANGED <<disk, hydrated, work, stage, pending, engine, conn, net, enqueued,
                 deleted, faults>>

Enqueue ==
  /\ enqueueing # << >>
  /\ LET m == Head(enqueueing) IN
       /\ outbox' = [outbox EXCEPT ![m] = "due"]
       /\ order' = Append(order, m)
       /\ enqueued' = enqueued \cup {m}
  /\ enqueueing' = Tail(enqueueing)
  /\ UNCHANGED <<attempts, saved, snapshot, bubble, hydrated, work, stage, pending, engine,
                 conn, net, composed, deleted, faults>>

EnqueueFails ==
  /\ enqueueing # << >>
  /\ Happens("fails")
  /\ LET m == Head(enqueueing) IN
       /\ bubble' = [bubble EXCEPT ![m] = FailedBubble(@)]
       /\ saved' = Persisted(m, "failed")
  /\ enqueueing' = Tail(enqueueing)
  /\ UNCHANGED <<outbox, order, attempts, snapshot, hydrated, work, stage, pending, engine,
                 conn, net, composed, enqueued, deleted>>

Unchanged(s, m) == s

\* The due rows without that of m, in their order.
Without(s, m) == Picked(s, {i \in DOMAIN s : s[i] # m})

\* useRetryMessage(): the bubble is "sending" again and requeue() makes the row
\* due, if there is a row.
Retry(m) ==
  /\ "failed" \in bubble[m]
  /\ Happens("retries")
  /\ bubble' = [bubble EXCEPT ![m] = RetriedBubble(@)]
  /\ saved' = Persisted(m, "sending")
  /\ \/ /\ outbox[m] = "none"
        /\ UNCHANGED <<outbox, order, attempts>>
     \/ /\ outbox[m] # "none"
        /\ outbox' = [outbox EXCEPT ![m] = "due"]
        /\ order' = Append(Without(order, m), m)
        /\ attempts' = [attempts EXCEPT ![m] = 0]
  /\ UNCHANGED <<snapshot, hydrated, enqueueing, work, stage, pending, engine, conn, net,
                 composed, enqueued, deleted>>

\* useDeleteMessage(): the bubble and the row go, the messages table stays.
Delete(m) ==
  /\ "failed" \in bubble[m]
  /\ bubble' = [bubble EXCEPT ![m] = {}]
  /\ outbox' = [outbox EXCEPT ![m] = "none"]
  /\ order' = Without(order, m)
  /\ deleted' = deleted \cup {m}
  /\ UNCHANGED <<attempts, saved, snapshot, hydrated, enqueueing, work, stage, pending, engine,
                 conn, net, composed, enqueued, faults>>

\* hydrateMessages(): rows whose id is not shown yet become bubbles.
Hydrate ==
  /\ ~hydrated
  /\ hydrated' = TRUE
  /\ bubble' = [m \in Msgs |->
       bubble[m] \cup {s \in saved[m] : s = "sent" \/ bubble[m] \cap Local = {}}]
  /\ UNCHANGED <<disk, enqueueing, work, stage, pending, engine, conn, net, history>>

-----------------------------------------------------------------------------
\* Outbox worker

Ticking == \E c \in Chats : work[c] # << >>

\* The first TICK_LIMIT due rows, by chat; one tick at a time.
Tick ==
  /\ ~Ticking
  /\ order # << >>
  /\ LET last == IF Len(order) < TickLimit THEN Len(order) ELSE TickLimit
     IN  work' = [c \in Chats |->
                    Picked(order, {i \in 1 .. last : ChatOf[order[i]] = c})]
  /\ stage' = [c \in Chats |-> "send"]
  /\ UNCHANGED <<disk, bubble, hydrated, enqueueing, pending, engine, conn, net, history>>

\* dispatchOne() of chat c waits at `where` for the row of message m.
Dispatching(c, where, m) ==
  /\ ChatOf[m] = c
  /\ work[c] # << >>
  /\ stage[c] = where
  /\ m = Head(work[c])

NextRow(c) ==
  /\ work' = [work EXCEPT ![c] = Tail(@)]
  /\ stage' = [stage EXCEPT ![c] = "send"]

\* The row is encrypted under the next generation and goes to the transport,
\* which keeps it in `pending` whether or not it can transmit.
Transmit(c) ==
  \E m \in Msgs :
    /\ Dispatching(c, "send", m)
    /\ engine' = [engine EXCEPT ![c] = @ + 1]
    /\ LET p == [msg |-> m, gen |-> engine[c] + 1, launch |-> faults["crashes"]] IN
         /\ pending' = pending \cup {p}
         /\ wire' = IF conn = "closed" THEN wire ELSE Append(wire, p)
    /\ stage' = [stage EXCEPT ![c] = "await"]
    /\ UNCHANGED <<disk, bubble, hydrated, enqueueing, work, conn, arrived, acks, history>>

GivesUp(m) == attempts[m] + 1 >= MaxAttempts

\* transport.send() throws: no group for this chat yet, or "group not found",
\* which is terminal.
SendFails(c) ==
  \E m \in Msgs, terminal \in BOOLEAN :
    /\ Dispatching(c, "send", m)
    /\ Happens("fails")
    /\ attempts' = [attempts EXCEPT ![m] = @ + 1]
    /\ order' = Without(order, m)
    /\ \/ /\ terminal \/ GivesUp(m)
          /\ outbox' = [outbox EXCEPT ![m] = "dead"]
          /\ stage' = [stage EXCEPT ![c] = "dead"]
          /\ UNCHANGED work
       \/ /\ ~terminal
          /\ ~GivesUp(m)
          /\ outbox' = [outbox EXCEPT ![m] = "parked"]
          /\ NextRow(c)
    /\ UNCHANGED <<saved, snapshot, bubble, hydrated, enqueueing, pending, engine, conn, net,
                   composed, enqueued, deleted>>

ShowFailed(c) ==
  \E m \in Msgs :
    /\ Dispatching(c, "dead", m)
    /\ bubble' = [bubble EXCEPT ![m] = FailedBubble(@)]
    /\ saved' = IF bubble[m] \cap Local = {} THEN saved ELSE Persisted(m, "failed")
    /\ NextRow(c)
    /\ UNCHANGED <<outbox, order, attempts, snapshot, hydrated, enqueueing, pending, engine,
                   conn, net, history>>

MarkSent(c) ==
  \E m \in Msgs :
    /\ Dispatching(c, "acked", m)
    /\ outbox' = [outbox EXCEPT ![m] = "none"]
    /\ order' = Without(order, m)
    /\ stage' = [stage EXCEPT ![c] = "sent"]
    /\ UNCHANGED <<attempts, saved, snapshot, bubble, hydrated, enqueueing, work, pending,
                   engine, conn, net, history>>

Confirm(c) ==
  \E m \in Msgs :
    /\ Dispatching(c, "sent", m)
    /\ bubble' = [bubble EXCEPT ![m] = ConfirmedBubble(@)]
    /\ saved' = Persisted(m, "sent")
    /\ NextRow(c)
    /\ UNCHANGED <<outbox, order, attempts, snapshot, hydrated, enqueueing, pending, engine,
                   conn, net, history>>

\* The backoff of a failed row is over.
Elapse(m) ==
  /\ outbox[m] = "parked"
  /\ outbox' = [outbox EXCEPT ![m] = "due"]
  /\ order' = Append(order, m)
  /\ UNCHANGED <<attempts, saved, snapshot, app, net, history>>

-----------------------------------------------------------------------------
\* Transport

Open ==
  /\ conn = "closed"
  /\ conn' = "open"
  /\ UNCHANGED <<disk, bubble, hydrated, enqueueing, work, stage, pending, engine, net, history>>

Orders(S) ==
  {s \in [1 .. Cardinality(S) -> S] : \A x \in S : \E i \in DOMAIN s : s[i] = x}

NothingReplayed == {}
Replayed == pending

\* The server's hello: everything pending is transmitted (again), here in any
\* order (one chat has at most one pending send, so no property can tell).
Hello ==
  /\ conn = "open"
  /\ conn' = "ready"
  /\ \E frames \in Orders(Replayed) : wire' = wire \o frames
  /\ UNCHANGED <<disk, bubble, hydrated, enqueueing, work, stage, pending, engine, arrived,
                 acks, history>>

Drop ==
  /\ conn # "closed"
  /\ Happens("drops")
  /\ conn' = "closed"
  /\ wire' = << >>
  /\ acks' = {}
  /\ UNCHANGED <<disk, bubble, hydrated, enqueueing, work, stage, pending, engine, arrived,
                 composed, enqueued, deleted>>

KeptPending(m) == pending
SettledPending(m) == {p \in pending : p.msg # m}

AnyPending(m) == pending # {}
StillPending(m) == \E p \in pending : p.msg = m

\* An ack resolves the pending send, if it is still pending.
AckIn(m) ==
  /\ conn = "ready"
  /\ m \in acks
  /\ acks' = acks \ {m}
  /\ pending' = SettledPending(m)
  /\ stage' = [stage EXCEPT ![ChatOf[m]] =
       IF StillPending(m) THEN "acked" ELSE @]
  /\ UNCHANGED <<disk, bubble, hydrated, enqueueing, work, engine, conn, wire, arrived, history>>

-----------------------------------------------------------------------------
\* Chat objects

Deliver ==
  /\ wire # << >>
  /\ wire' = Tail(wire)
  /\ LET p == Head(wire) IN
       arrived' = Append(arrived,
         [msg |-> p.msg, gen |-> p.gen, launch |-> p.launch, state |-> "buffered"])
  /\ UNCHANGED <<disk, app, acks, history>>

\* acceptSend() fails: an err frame, which settles nothing in the client.
Reject ==
  /\ wire # << >>
  /\ Happens("unacked")
  /\ wire' = Tail(wire)
  /\ UNCHANGED <<disk, app, arrived, acks, composed, enqueued, deleted>>

\* What is done at once with the sends to chat c that are in one of `states`.
InState(c, states) ==
  {i \in DOMAIN arrived : ChatOf[arrived[i].msg] = c /\ arrived[i].state \in states}

Advance(c, states, to) ==
  /\ InState(c, states) # {}
  /\ arrived' = [i \in DOMAIN arrived |->
       IF i \in InState(c, states) THEN [arrived[i] EXCEPT !.state = to] ELSE arrived[i]]

\* PERSIST_FAILED: an err frame; the sends stay in the object's buffer.
Refuse(c) ==
  /\ Advance(c, {"buffered"}, "refused")
  /\ Happens("unacked")
  /\ UNCHANGED <<disk, app, wire, acks, composed, enqueued, deleted>>

Persist(c) ==
  /\ Advance(c, {"buffered", "refused"}, "stored")
  /\ UNCHANGED <<disk, app, wire, acks, history>>

\* ackBatch(): dropped by the inbox when the user has no socket.
AckOut(c) ==
  /\ Advance(c, {"stored"}, "acked")
  /\ acks' = IF conn = "closed" THEN acks
             ELSE acks \cup {arrived[i].msg : i \in InState(c, {"stored"})}
  /\ UNCHANGED <<disk, app, wire, history>>

\* The RPC to the inbox fails, or the object is evicted before it.
AckLost(c) ==
  /\ Advance(c, {"stored"}, "acked")
  /\ Happens("unacked")
  /\ UNCHANGED <<disk, app, wire, acks, composed, enqueued, deleted>>

-----------------------------------------------------------------------------
\* The engine snapshot, and the app being killed

\* persistSnapshot(): MlsClient runs it after its own commits and welcomes.
Snapshot ==
  /\ snapshot # engine
  /\ Happens("snapshots")
  /\ snapshot' = engine
  /\ UNCHANGED <<outbox, order, attempts, saved, app, net, composed, enqueued, deleted>>

Crash ==
  /\ Happens("crashes")
  /\ bubble' = [m \in Msgs |-> {}]
  /\ hydrated' = FALSE
  /\ enqueueing' = << >>
  /\ work' = [c \in Chats |-> << >>]
  /\ stage' = [c \in Chats |-> "send"]
  /\ pending' = {}
  /\ engine' = snapshot
  /\ conn' = "closed"
  /\ wire' = << >>
  /\ acks' = {}
  /\ UNCHANGED <<disk, arrived, composed, enqueued, deleted>>

-----------------------------------------------------------------------------

Dispatch(c) == Transmit(c) \/ ShowFailed(c) \/ MarkSent(c) \/ Confirm(c)

Next ==
  \/ \E m \in Msgs : Compose(m) \/ Retry(m) \/ Delete(m) \/ Elapse(m) \/ AckIn(m)
  \/ Enqueue \/ EnqueueFails \/ Hydrate
  \/ Tick
  \/ \E c \in Chats :
       Dispatch(c) \/ SendFails(c) \/ Refuse(c) \/ Persist(c) \/ AckOut(c) \/ AckLost(c)
  \/ Open \/ Hello \/ Drop
  \/ Deliver \/ Reject
  \/ Snapshot \/ Crash

Spec == Init /\ [][Next]_vars

\* The periodic tick, the database, backoffs, reconnects and the server's own
\* steps happen.  Users, faults, the retry of a refused send and snapshots get
\* no fairness.
Fairness ==
  /\ WF_vars(Enqueue)
  /\ WF_vars(Tick)
  /\ \A c \in Chats : WF_vars(Dispatch(c))
  /\ \A m \in Msgs : WF_vars(Elapse(m)) /\ WF_vars(AckIn(m))
  /\ WF_vars(Open)
  /\ WF_vars(Hello)
  /\ WF_vars(Deliver)
  /\ \A c \in Chats : WF_vars(InState(c, {"buffered"}) # {} /\ Persist(c)) /\ WF_vars(AckOut(c))

FairSpec == Spec /\ Fairness

-----------------------------------------------------------------------------
\* Properties

Stored(m) ==
  \E i \in DOMAIN arrived : arrived[i].msg = m /\ arrived[i].state \in {"stored", "acked"}

\* A message whose outbox row was written is, until the user deletes it, in the
\* outbox or stored by its Chat object: through kills of the app between the ack
\* and markSent, lost connections, refusals and retries (outbox-worker.ts
\* dispatchOne(), client.ts handleFrame()).
NothingLost ==
  \A m \in enqueued \ deleted : outbox[m] # "none" \/ Stored(m)

\* A bubble, or a row of the messages table, says "sent" only of a message the
\* server has stored (store.ts confirmOptimisticMessage()).
SentIsStored ==
  \A m \in Msgs : "sent" \in bubble[m] \cup saved[m] => Stored(m)

\* Within one launch the sends of a chat reach the server in the order in which
\* they were encrypted, replays included (outbox-worker.ts:2 "per-chat FIFO gate
\* that preserves MLS generation order").
GenerationOrder ==
  \A i, j \in DOMAIN arrived :
    (/\ i < j
     /\ ChatOf[arrived[i].msg] = ChatOf[arrived[j].msg]
     /\ arrived[i].launch = arrived[j].launch) => arrived[i].gen <= arrived[j].gen

\* A row the worker will never dispatch again is shown as failed, so that the
\* user can retry it, as long as the app was not killed (chat-db/outbox.ts:48).
DeadIsShown ==
  \A m \in Msgs : outbox[m] = "dead" /\ faults["crashes"] = 0 =>
    "failed" \in bubble[m] \/ Dispatching(ChatOf[m], "dead", m)

\* A row the worker may dispatch leaves the outbox or is given up, unless the
\* server did not ack a send: no retry, backoff, lost connection or kill of the app
\* parks it for ever (outbox-worker.ts tick(), client.ts flushOnConnect()).
OutboxDrains ==
  \A m \in Msgs :
    outbox[m] \in {"due", "parked"} ~> (outbox[m] \in {"none", "dead"} \/ faults["unacked"] > 0)

\* No two messages of a chat are encrypted under the same generation (client/
\* index.ts "Called after every mutating engine op", of persistSnapshot()).
OneMsgPerGeneration ==
  \A i, j \in DOMAIN arrived :
    (/\ ChatOf[arrived[i].msg] = ChatOf[arrived[j].msg]
     /\ arrived[i].gen = arrived[j].gen) => arrived[i].msg = arrived[j].msg

\* Every bubble settles (hooks.ts:68 "flips the row to "sent" on server ack or
\* "failed" after MAX_ATTEMPTS retries").
EventuallySettled ==
  \A m \in Msgs : "sending" \in bubble[m] ~> "sending" \notin bubble[m]

=============================================================================
