--------------------------- MODULE SendPathProofs ---------------------------
(***************************************************************************)
(* Theorems about SendPath for all messages, chats, limits and numbers of  *)
(* faults: the state keeps its types, no written row is lost, "sent" is    *)
(* never shown of a message its Chat object has not stored, the sends of a *)
(* launch arrive in the order of their generations, and a row that was     *)
(* given up is shown as failed.                                            *)
(*                                                                         *)
(* The second and the third follow from what an ack can resolve.  An ack on*)
(* the socket is of a stored message (AckInv); a pending send is of the row*)
(* its chat's worker waits for, and of no other (PendingInv); so a worker  *)
(* that has left transport.send() has a stored message in hand (HandInv),  *)
(* through replays, duplicated acks, lost connections and restarts.  The   *)
(* others rest on which rows are ordered, held and tried (RowsInv, WorkInv,*)
(* AttemptsInv), on the generation a pending or travelling send carries    *)
(* (FreshInv, GenerationInv), and on what a bubble shows before the first  *)
(* restart (FirstLaunchInv).                                               *)
(***************************************************************************)
EXTENDS SendPath, RanksProofs

\* The types the arguments need; what is said of the rows and the workers is below.
Types ==
  /\ outbox \in [Msgs -> RowState]
  /\ attempts \in [Msgs -> Nat]
  /\ saved \in [Msgs -> SUBSET Status]
  /\ snapshot \in [Chats -> Nat]
  /\ bubble \in [Msgs -> SUBSET Status]
  /\ enqueueing \in Seq(Msgs)
  /\ work = [c \in Chats |-> work[c]]
  /\ stage \in [Chats -> Stage]
  /\ pending \subseteq Payload /\ IsFiniteSet(pending)
  /\ engine \in [Chats -> Nat]
  /\ wire \in Seq(Payload)
  /\ arrived \in Seq(Arrival)
  /\ acks \subseteq Msgs
  /\ enqueued \subseteq Msgs
  /\ faults \in [Kinds -> Nat]

AckInv == \A m \in acks : Stored(m)

PendingInv ==
  \A p \in pending :
    /\ work[ChatOf[p.msg]] # << >>
    /\ stage[ChatOf[p.msg]] = "await"
    /\ Head(work[ChatOf[p.msg]]) = p.msg

HandInv ==
  \A c \in Chats :
    work[c] # << >> /\ stage[c] \in {"acked", "sent"} => Stored(Head(work[c]))

\* The rows that are due are those that are ordered, each once.
RowsInv ==
  /\ order \in Seq(Msgs) /\ IsInjective(order)
  /\ \A m \in Msgs : outbox[m] = "due" <=> m \in Range(order)

\* A worker goes through rows of its own chat, each once.
WorkInv ==
  /\ work \in [Chats -> Seq(Msgs)]
  /\ \A c \in Chats : IsInjective(work[c]) /\ \A m \in Range(work[c]) : ChatOf[m] = c

InWork(m) == m \in Range(work[ChatOf[m]])

\* A message that is not composed yet, or whose enqueue() is still to come, has
\* left no trace: nothing else can touch it before its row is written.
Untouched(m) ==
  /\ outbox[m] = "none"
  /\ attempts[m] = 0
  /\ saved[m] = {}
  /\ ~InWork(m)

FreshInv ==
  /\ composed \subseteq Msgs
  /\ IsInjective(enqueueing)
  /\ \A m \in Range(enqueueing) : m \in composed /\ Untouched(m) /\ bubble[m] = {"sending"}
  /\ \A m \in Msgs \ composed : Untouched(m) /\ bubble[m] = {}

\* A row that will be tried again has not used up its attempts.
AttemptsInv ==
  /\ attempts \in [Msgs -> 0 .. MaxAttempts]
  /\ \A m \in Msgs : outbox[m] \in {"due", "parked"} => attempts[m] < MaxAttempts
  /\ \A c \in Chats : \A m \in Range(work[c]) :
       m # Head(work[c]) \/ stage[c] = "send" => attempts[m] < MaxAttempts

\* In the first launch: the bubble of a row the worker will dispatch, or has in
\* hand, says "sending", and only of such a row; that of a dead one "failed".
FirstLaunchInv ==
  faults["crashes"] = 0 =>
    /\ hydrated = TRUE
    /\ \A m \in Msgs :
         /\ outbox[m] \in {"due", "parked"} \/ InWork(m) => bubble[m] = {"sending"}
         /\ outbox[m] = "dead" => bubble[m] = {"failed"} \/ Dispatching(ChatOf[m], "dead", m)
         /\ InWork(m) => outbox[m] # "parked"
    /\ \A c \in Chats : work[c] # << >> =>
         /\ stage[c] = "dead" => outbox[Head(work[c])] = "dead"
         /\ stage[c] = "sent" => outbox[Head(work[c])] = "none"

\* Within a launch the generations of a chat only grow, along the sends its object
\* took, then those on the wire, up to the engine's; a pending send has the last.
GenerationInv ==
  /\ \A p \in pending : p.launch = faults["crashes"] /\ p.gen = engine[ChatOf[p.msg]]
  /\ \A i \in DOMAIN wire :
       wire[i].launch = faults["crashes"] /\ wire[i].gen <= engine[ChatOf[wire[i].msg]]
  /\ \A i \in DOMAIN arrived :
       /\ arrived[i].launch <= faults["crashes"]
       /\ arrived[i].launch = faults["crashes"] =>
            arrived[i].gen <= engine[ChatOf[arrived[i].msg]]
  /\ \A i, j \in DOMAIN wire :
       i < j /\ ChatOf[wire[i].msg] = ChatOf[wire[j].msg] => wire[i].gen <= wire[j].gen
  /\ \A i \in DOMAIN arrived, j \in DOMAIN wire :
       arrived[i].launch = wire[j].launch /\ ChatOf[arrived[i].msg] = ChatOf[wire[j].msg] =>
         arrived[i].gen <= wire[j].gen
  /\ GenerationOrder

-----------------------------------------------------------------------------
\* What the helpers return

LEMMA FaultsType ==
  ASSUME Types, NEW k \in Kinds, Happens(k)
  PROVE  faults' \in [Kinds -> Nat]
<1>1. faults' = [faults EXCEPT ![k] = @ + 1]
  BY Zenon DEF Happens
<1>2. QED BY <1>1 DEF Types

LEMMA FailedBubbleType ==
  ASSUME NEW b \in SUBSET Status
  PROVE  FailedBubble(b) \in SUBSET Status /\ ("sent" \in FailedBubble(b) => "sent" \in b)
  BY DEF FailedBubble, Status, Local

LEMMA RetriedBubbleType ==
  ASSUME NEW b \in SUBSET Status
  PROVE  RetriedBubble(b) \in SUBSET Status /\ ("sent" \in RetriedBubble(b) => "sent" \in b)
  BY DEF RetriedBubble, Status, Local

LEMMA ConfirmedBubbleType ==
  ASSUME NEW b \in SUBSET Status
  PROVE  ConfirmedBubble(b) \in SUBSET Status
  BY DEF ConfirmedBubble, Status, Local

\* What is written to the messages table, and for whom it may say "sent".
LEMMA PersistedType ==
  ASSUME Types, NEW m \in Msgs, NEW status \in Status
  PROVE  /\ Persisted(m, status) \in [Msgs -> SUBSET Status]
         /\ \A n \in Msgs : "sent" \in Persisted(m, status)[n] =>
              "sent" \in saved[n] \/ (n = m /\ status = "sent")
  BY DEF Types, Persisted, Status, Local

\* The Chat object moves sends forward and forgets none it has stored.
LEMMA AdvanceKeeps ==
  ASSUME Types, NEW c \in Chats, NEW states, NEW to \in {"refused", "stored", "acked"},
         Advance(c, states, to), states = {"buffered"} \/ to \in {"stored", "acked"}
  PROVE  arrived' \in Seq(Arrival) /\ \A m : Stored(m) => Stored(m)'
<1>1. arrived \in Seq(Arrival) /\ DOMAIN arrived' = DOMAIN arrived
  BY DEF Types, Advance
<1>2. \A i \in DOMAIN arrived :
        /\ arrived'[i] \in Arrival
        /\ arrived'[i].msg = arrived[i].msg
        /\ arrived[i].state \in {"stored", "acked"} => arrived'[i].state \in {"stored", "acked"}
  <2> SUFFICES ASSUME NEW i \in DOMAIN arrived
               PROVE  /\ arrived'[i] \in Arrival
                      /\ arrived'[i].msg = arrived[i].msg
                      /\ arrived[i].state \in {"stored", "acked"} =>
                           arrived'[i].state \in {"stored", "acked"}
    OBVIOUS
  <2>1. arrived[i] \in Arrival
    BY <1>1
  <2>2. CASE i \in InState(c, states)
    <3>1. arrived'[i] = [arrived[i] EXCEPT !.state = to]
      BY <2>2 DEF Advance
    <3>2. arrived[i].state \in states
      BY <2>2 DEF InState
    <3>3. QED BY <2>1, <3>1, <3>2 DEF Arrival
  <2>3. CASE i \notin InState(c, states)
    <3>1. arrived'[i] = arrived[i]
      BY <2>3 DEF Advance
    <3>2. QED BY <2>1, <3>1
  <2>4. QED BY <2>2, <2>3
<1>3. arrived' \in Seq(Arrival)
  <2>1. /\ Len(arrived) \in Nat
        /\ DOMAIN arrived' = 1 .. Len(arrived)
        /\ arrived' = [i \in 1 .. Len(arrived) |-> arrived'[i]]
    BY <1>1 DEF Advance
  <2>2. QED BY <1>1, <1>2, <2>1
<1>4. QED BY <1>1, <1>2, <1>3 DEF Stored

-----------------------------------------------------------------------------
\* Types

LEMMA TypesStep ==
  ASSUME Types, [Next]_vars
  PROVE  Types'
<1>1. CASE UNCHANGED vars
  BY <1>1 DEF Types, vars, disk, app, net, history
<1>2. ASSUME NEW m \in Msgs, Compose(m)
      PROVE  Types'
  BY <1>2 DEF Types, Compose, disk, net, Status, Local
<1>3. ASSUME NEW m \in Msgs, Retry(m)
      PROVE  Types'
  <2>1. bubble' \in [Msgs -> SUBSET Status] /\ saved' \in [Msgs -> SUBSET Status]
    BY <1>3, RetriedBubbleType, PersistedType DEF Types, Retry, Status, Local
  <2>2. faults' \in [Kinds -> Nat]
    BY <1>3, FaultsType DEF Retry, Kinds
  <2>3. outbox' \in [Msgs -> RowState]
    BY <1>3 DEF Types, Retry, RowState
  <2>4. QED BY <1>3, <2>1, <2>2, <2>3 DEF Types, Retry, net
<1>4. ASSUME NEW m \in Msgs, Delete(m)
      PROVE  Types'
  BY <1>4 DEF Types, Delete, net, RowState
<1>5. ASSUME NEW m \in Msgs, Elapse(m)
      PROVE  Types'
  BY <1>5 DEF Types, Elapse, app, net, history, RowState
<1>6. ASSUME NEW m \in Msgs, AckIn(m)
      PROVE  Types'
  <2>1. pending' \subseteq pending
    BY <1>6 DEF AckIn, SettledPending
  <2>2. IsFiniteSet(pending')
    BY <2>1, FS_Subset DEF Types
  <2>3. stage' \in [Chats -> Stage]
    BY <1>6 DEF Types, AckIn, Stage
  <2>4. QED BY <1>6, <2>1, <2>2, <2>3 DEF Types, AckIn, disk, history
<1>7. CASE Enqueue
  <2>1. Head(enqueueing) \in Msgs /\ Tail(enqueueing) \in Seq(Msgs)
    BY <1>7 DEF Enqueue, Types
  <2>2. outbox' \in [Msgs -> RowState] /\ enqueued' \subseteq Msgs
    BY <1>7, <2>1 DEF Types, Enqueue, RowState
  <2>3. QED BY <1>7, <2>1, <2>2 DEF Types, Enqueue, net
<1>8. CASE EnqueueFails
  <2>1. Head(enqueueing) \in Msgs /\ Tail(enqueueing) \in Seq(Msgs)
    BY <1>8 DEF EnqueueFails, Types
  <2>2. bubble' \in [Msgs -> SUBSET Status] /\ saved' \in [Msgs -> SUBSET Status]
    BY <1>8, <2>1, FailedBubbleType, PersistedType DEF Types, EnqueueFails, Status, Local
  <2>3. faults' \in [Kinds -> Nat]
    BY <1>8, FaultsType DEF EnqueueFails, Kinds
  <2>4. QED BY <1>8, <2>1, <2>2, <2>3 DEF Types, EnqueueFails, net
<1>9. CASE Hydrate
  BY <1>9 DEF Types, Hydrate, disk, net, history
<1>10. CASE Tick
  BY <1>10 DEF Types, Tick, disk, net, history, Stage
<1>11. ASSUME NEW c \in Chats, Transmit(c)
       PROVE  Types'
  <2>1. PICK m \in Msgs, p \in {[msg |-> n, gen |-> engine[c] + 1, launch |-> faults["crashes"]] :
                                n \in Msgs} :
          /\ pending' = pending \cup {p}
          /\ wire' = IF conn = "closed" THEN wire ELSE Append(wire, p)
    BY <1>11 DEF Transmit
  <2>2. p \in Payload
    <3>1. engine[c] + 1 \in Nat
      BY DEF Types
    <3>2. "crashes" \in Kinds
      BY DEF Kinds
    <3>3. faults["crashes"] \in Nat
      BY <3>2 DEF Types
    <3>4. QED BY <2>1, <3>1, <3>3 DEF Payload
  <2>3. pending' \subseteq Payload /\ IsFiniteSet(pending') /\ wire' \in Seq(Payload)
    <3>1. IsFiniteSet(pending')
      BY <2>1, FS_AddElement DEF Types
    <3>2. pending' \subseteq Payload /\ wire' \in Seq(Payload)
      BY <2>1, <2>2 DEF Types
    <3>3. QED BY <3>1, <3>2
  <2>4. engine' \in [Chats -> Nat] /\ stage' \in [Chats -> Stage]
    BY <1>11 DEF Types, Transmit, Stage
  <2>5. QED BY <1>11, <2>3, <2>4 DEF Types, Transmit, disk, history
<1>12. ASSUME NEW c \in Chats, SendFails(c)
       PROVE  Types'
  <2>1. faults' \in [Kinds -> Nat]
    BY <1>12, FaultsType DEF SendFails, Kinds
  <2>2. attempts' \in [Msgs -> Nat]
    BY <1>12 DEF Types, SendFails
  <2>3. outbox' \in [Msgs -> RowState] /\ stage' \in [Chats -> Stage]
        /\ work' = [d \in Chats |-> work'[d]]
    BY <1>12 DEF Types, SendFails, NextRow, RowState, Stage
  <2>4. QED BY <1>12, <2>1, <2>2, <2>3 DEF Types, SendFails, net
<1>13. ASSUME NEW c \in Chats, ShowFailed(c)
       PROVE  Types'
  <2>1. PICK m \in Msgs :
          /\ bubble' = [bubble EXCEPT ![m] = FailedBubble(@)]
          /\ saved' = IF bubble[m] \cap Local = {} THEN saved ELSE Persisted(m, "failed")
    BY <1>13 DEF ShowFailed
  <2>3. bubble' \in [Msgs -> SUBSET Status]
    BY <2>1, FailedBubbleType DEF Types
  <2>4. saved' \in [Msgs -> SUBSET Status]
    BY <2>1, PersistedType DEF Types, Status, Local
  <2>5. QED BY <1>13, <2>3, <2>4 DEF Types, ShowFailed, NextRow, net, history, Stage
<1>14. ASSUME NEW c \in Chats, MarkSent(c)
       PROVE  Types'
  BY <1>14 DEF Types, MarkSent, net, history, RowState, Stage
<1>15. ASSUME NEW c \in Chats, Confirm(c)
       PROVE  Types'
  <2>1. PICK m \in Msgs :
          /\ bubble' = [bubble EXCEPT ![m] = ConfirmedBubble(@)]
          /\ saved' = Persisted(m, "sent")
    BY <1>15 DEF Confirm
  <2>3. bubble' \in [Msgs -> SUBSET Status]
    BY <2>1, ConfirmedBubbleType DEF Types
  <2>4. saved' \in [Msgs -> SUBSET Status]
    BY <2>1, PersistedType DEF Types, Status
  <2>5. QED BY <1>15, <2>3, <2>4 DEF Types, Confirm, NextRow, net, history, Stage
<1>16. CASE Open
  BY <1>16 DEF Types, Open, disk, net, history
<1>17. CASE Hello
  <2>1. PICK frames \in Orders(pending) : wire' = wire \o frames
    BY <1>17 DEF Hello, Replayed
  <2>2. frames \in Seq(Payload)
    <3>1. Cardinality(pending) \in Nat
      BY FS_CardinalityType DEF Types
    <3>2. frames \in [1 .. Cardinality(pending) -> pending]
      BY <2>1 DEF Orders
    <3>3. frames \in [1 .. Cardinality(pending) -> Payload]
      BY <3>2 DEF Types
    <3>4. QED BY <3>1, <3>3
  <2>3. wire' \in Seq(Payload)
    BY <2>1, <2>2 DEF Types
  <2>4. QED BY <1>17, <2>3 DEF Types, Hello, disk, history
<1>18. CASE Drop
  <2>1. faults' \in [Kinds -> Nat]
    BY <1>18, FaultsType DEF Drop, Kinds
  <2>2. QED BY <1>18, <2>1 DEF Types, Drop, disk
<1>19. CASE Deliver
  <2>1. Head(wire) \in Payload /\ Tail(wire) \in Seq(Payload)
    BY <1>19 DEF Deliver, Types
  <2>2. arrived' \in Seq(Arrival)
    BY <1>19, <2>1 DEF Types, Deliver, Payload, Arrival
  <2>3. QED BY <1>19, <2>1, <2>2 DEF Types, Deliver, disk, app, history
<1>20. CASE Reject
  <2>1. faults' \in [Kinds -> Nat]
    BY <1>20, FaultsType DEF Reject, Kinds
  <2>2. QED BY <1>20, <2>1 DEF Types, Reject, disk, app
<1>21. ASSUME NEW c \in Chats, Refuse(c)
       PROVE  Types'
  <2>1. arrived' \in Seq(Arrival)
    BY <1>21, AdvanceKeeps DEF Refuse
  <2>2. faults' \in [Kinds -> Nat]
    BY <1>21, FaultsType DEF Refuse, Kinds
  <2>3. QED BY <1>21, <2>1, <2>2 DEF Types, Refuse, disk, app
<1>22. ASSUME NEW c \in Chats, Persist(c)
       PROVE  Types'
  <2>1. arrived' \in Seq(Arrival)
    BY <1>22, AdvanceKeeps DEF Persist
  <2>2. QED BY <1>22, <2>1 DEF Types, Persist, disk, app, history
<1>23. ASSUME NEW c \in Chats, AckOut(c)
       PROVE  Types'
  <2>1. arrived' \in Seq(Arrival)
    BY <1>23, AdvanceKeeps DEF AckOut
  <2>2. {arrived[i].msg : i \in InState(c, {"stored"})} \subseteq Msgs
    <3>1. \A i \in DOMAIN arrived : arrived[i] \in Arrival
      BY DEF Types
    <3>2. QED BY <3>1 DEF InState, Arrival
  <2>3. acks' \subseteq Msgs
    BY <1>23, <2>2 DEF Types, AckOut
  <2>4. QED BY <1>23, <2>1, <2>3 DEF Types, AckOut, disk, app, history
<1>24. ASSUME NEW c \in Chats, AckLost(c)
       PROVE  Types'
  <2>1. arrived' \in Seq(Arrival)
    BY <1>24, AdvanceKeeps DEF AckLost
  <2>2. faults' \in [Kinds -> Nat]
    BY <1>24, FaultsType DEF AckLost, Kinds
  <2>3. QED BY <1>24, <2>1, <2>2 DEF Types, AckLost, disk, app
<1>25. CASE Snapshot
  <2>1. faults' \in [Kinds -> Nat]
    BY <1>25, FaultsType DEF Snapshot, Kinds
  <2>2. QED BY <1>25, <2>1 DEF Types, Snapshot, app, net
<1>26. CASE Crash
  <2>1. faults' \in [Kinds -> Nat]
    BY <1>26, FaultsType DEF Crash, Kinds
  <2>2. QED BY <1>26, <2>1, FS_EmptySet DEF Types, Crash, disk, Stage
<1>27. QED
  BY <1>1, <1>2, <1>3, <1>4, <1>5, <1>6, <1>7, <1>8, <1>9, <1>10, <1>11, <1>12, <1>13, <1>14,
     <1>15, <1>16, <1>17, <1>18, <1>19, <1>20, <1>21, <1>22, <1>23, <1>24, <1>25, <1>26
     DEF Next, Dispatch

-----------------------------------------------------------------------------
\* What the Chat objects have stored stays stored

LEMMA StoredStep ==
  ASSUME Types, [Next]_vars, NEW m, Stored(m)
  PROVE  Stored(m)'
<1>1. CASE UNCHANGED arrived
  BY <1>1 DEF Stored
<1>2. CASE Deliver
  <2>1. PICK a : arrived' = Append(arrived, a)
    BY <1>2 DEF Deliver
  <2>2. arrived \in Seq(Arrival)
    BY DEF Types
  <2>3. \A i \in DOMAIN arrived : i \in DOMAIN arrived' /\ arrived'[i] = arrived[i]
    BY <2>1, <2>2
  <2>4. QED BY <2>3 DEF Stored
<1>3. ASSUME NEW c \in Chats, Refuse(c)
      PROVE  Stored(m)'
  BY <1>3, AdvanceKeeps DEF Refuse
<1>4. ASSUME NEW c \in Chats, Persist(c)
      PROVE  Stored(m)'
  BY <1>4, AdvanceKeeps DEF Persist
<1>5. ASSUME NEW c \in Chats, AckOut(c)
      PROVE  Stored(m)'
  BY <1>5, AdvanceKeeps DEF AckOut
<1>6. ASSUME NEW c \in Chats, AckLost(c)
      PROVE  Stored(m)'
  BY <1>6, AdvanceKeeps DEF AckLost
<1>7. \/ Deliver
      \/ \E c \in Chats : Refuse(c) \/ Persist(c) \/ AckOut(c) \/ AckLost(c)
      \/ UNCHANGED arrived
  BY DEF Next, vars, net, Compose, Retry, Delete, Elapse, AckIn, Enqueue, EnqueueFails, Hydrate,
         Tick, Dispatch, Transmit, ShowFailed, MarkSent, Confirm, SendFails, Open, Hello, Drop,
         Reject, Snapshot, Crash
<1>8. QED BY <1>1, <1>2, <1>3, <1>4, <1>5, <1>6, <1>7

\* Only AckOut puts acks on the socket, and of stored messages.
LEMMA AckStep ==
  ASSUME Types, AckInv, [Next]_vars
  PROVE  AckInv'
<1>1. \A m \in acks : Stored(m)'
  BY StoredStep DEF Types, AckInv
<1>2. CASE acks' \subseteq acks
  BY <1>1, <1>2 DEF AckInv
<1>3. ASSUME NEW c \in Chats, AckOut(c)
      PROVE  AckInv'
  <2>1. \A i \in DOMAIN arrived : arrived[i] \in Arrival
    BY DEF Types
  <2>2. SUFFICES ASSUME NEW m \in acks'
                 PROVE  Stored(m)'
    BY DEF AckInv
  <2>3. CASE m \in acks
    BY <1>1, <2>3
  <2>4. CASE m \notin acks
    <3>1. PICK i \in InState(c, {"stored"}) : m = arrived[i].msg
      BY <1>3, <2>4 DEF AckOut
    <3>2. Stored(m)
      BY <2>1, <3>1 DEF InState, Stored, Arrival
    <3>3. QED BY <3>2, StoredStep
  <2>5. QED BY <2>3, <2>4
<1>4. (\E c \in Chats : AckOut(c)) \/ acks' \subseteq acks
  BY DEF Next, vars, net, Compose, Retry, Delete, Elapse, AckIn, Enqueue, EnqueueFails, Hydrate,
         Tick, Dispatch, Transmit, ShowFailed, MarkSent, Confirm, SendFails, Open, Hello, Drop,
         Deliver, Reject, Refuse, Persist, AckLost, Snapshot, Crash
<1>5. QED BY <1>2, <1>3, <1>4

-----------------------------------------------------------------------------
\* What a worker waits for, and what it has in hand

\* A chat with a pending send has its worker in "await": no other step of that
\* chat's worker is possible, and no new tick.
LEMMA PendingStep ==
  ASSUME Types, PendingInv, [Next]_vars
  PROVE  PendingInv'
<1> USE SendAssumption
<1>1. \A p \in pending : p \in Payload /\ ChatOf[p.msg] \in Chats
  BY DEF Types, Payload
<1>2. CASE UNCHANGED <<work, stage, pending>>
  BY <1>2 DEF PendingInv
<1>3. ASSUME NEW m \in Msgs, AckIn(m)
      PROVE  PendingInv'
  <2>1. SUFFICES ASSUME NEW p \in pending, p.msg # m
                 PROVE  stage'[ChatOf[p.msg]] = "await"
    BY <1>3 DEF AckIn, SettledPending, PendingInv
  <2>2. CASE StillPending(m)
    <3>1. ChatOf[m] # ChatOf[p.msg]
      BY <2>1, <2>2 DEF StillPending, PendingInv
    <3>2. QED BY <1>1, <1>3, <3>1 DEF AckIn, Types, PendingInv
  <2>3. CASE ~StillPending(m)
    <3>1. stage' = stage
      BY <1>3, <2>3 DEF AckIn, Types
    <3>2. QED BY <3>1 DEF PendingInv
  <2>4. QED BY <2>2, <2>3
<1>4. CASE Tick
  <2>1. pending' = {}
    BY <1>1, <1>4 DEF Tick, Ticking, PendingInv
  <2>2. QED BY <2>1 DEF PendingInv
<1>5. ASSUME NEW c \in Chats, Transmit(c)
      PROVE  PendingInv'
  <2>1. PICK m \in Msgs, p \in {[msg |-> n, gen |-> engine[c] + 1, launch |-> faults["crashes"]] :
                                n \in Msgs} :
          p.msg = m /\ Dispatching(c, "send", m) /\ pending' = pending \cup {p}
    BY <1>5 DEF Transmit
  <2>2. work' = work /\ stage' = [stage EXCEPT ![c] = "await"]
    BY <1>5 DEF Transmit
  <2>3. \A q \in pending : ChatOf[q.msg] # c
    BY <2>1 DEF PendingInv, Dispatching
  <2>4. \A q \in pending : stage'[ChatOf[q.msg]] = "await"
    BY <1>1, <2>2, <2>3 DEF PendingInv, Types
  <2>5. ChatOf[p.msg] = c /\ work[c] # << >> /\ Head(work[c]) = p.msg /\ stage'[c] = "await"
    BY <2>1, <2>2 DEF Dispatching, Types
  <2>6. QED BY <2>1, <2>2, <2>4, <2>5 DEF PendingInv
<1>6. ASSUME NEW c \in Chats, SendFails(c) \/ ShowFailed(c) \/ MarkSent(c) \/ Confirm(c)
      PROVE  PendingInv'
  <2>1. stage[c] # "await" /\ pending' = pending
    BY <1>6 DEF SendFails, ShowFailed, MarkSent, Confirm, Dispatching
  <2>2. \A d \in Chats : d # c => work'[d] = work[d] /\ stage'[d] = stage[d]
    BY <1>6 DEF SendFails, ShowFailed, MarkSent, Confirm, NextRow, Types
  <2>3. \A p \in pending : ChatOf[p.msg] # c
    BY <2>1 DEF PendingInv
  <2>4. QED BY <1>1, <2>1, <2>2, <2>3 DEF PendingInv
<1>7. CASE Crash
  BY <1>7 DEF Crash, PendingInv
<1>8. QED
  <2>1. \/ \E m \in Msgs : AckIn(m)
        \/ Tick
        \/ \E c \in Chats : Transmit(c)
        \/ \E c \in Chats : SendFails(c) \/ ShowFailed(c) \/ MarkSent(c) \/ Confirm(c)
        \/ Crash
        \/ UNCHANGED <<work, stage, pending>>
    BY DEF Next, vars, app, Compose, Retry, Delete, Elapse, Enqueue, EnqueueFails, Hydrate,
           Dispatch, Open, Hello, Drop, Deliver, Reject, Refuse, Persist, AckOut, AckLost, Snapshot
  <2>2. QED BY <1>2, <1>3, <1>4, <1>5, <1>6, <1>7, <2>1

LEMMA HandStep ==
  ASSUME Types, AckInv, PendingInv, HandInv, [Next]_vars
  PROVE  HandInv'
<1> USE SendAssumption
<1>1. SUFFICES ASSUME NEW c \in Chats, work'[c] # << >>, stage'[c] \in {"acked", "sent"}
               PROVE  \E m : m = Head(work'[c]) /\ Stored(m)'
  BY DEF HandInv
<1>2. CASE work'[c] = work[c] /\ stage[c] \in {"acked", "sent"}
  <2>1. Stored(Head(work[c]))
    BY <1>1, <1>2 DEF HandInv
  <2>2. PICK m : m = Head(work[c]) /\ Stored(m)
    BY <2>1
  <2>3. QED BY <1>2, <2>2, StoredStep
<1>3. ASSUME NEW n \in Msgs, AckIn(n)
      PROVE  \E m : m = Head(work'[c]) /\ Stored(m)'
  <2>1. CASE StillPending(n) /\ c = ChatOf[n]
    <3>1. Head(work[c]) = n /\ Stored(n)
      BY <1>3, <2>1 DEF AckIn, AckInv, PendingInv, StillPending
    <3>2. work' = work
      BY <1>3 DEF AckIn
    <3>3. QED BY <3>1, <3>2, StoredStep
  <2>2. CASE ~(StillPending(n) /\ c = ChatOf[n])
    <3>1. work' = work /\ stage'[c] = stage[c]
      BY <1>3, <2>2 DEF AckIn, Types
    <3>2. QED BY <1>1, <1>2, <3>1
  <2>3. QED BY <2>1, <2>2
<1>4. ASSUME NEW d \in Chats,
             Transmit(d) \/ SendFails(d) \/ ShowFailed(d) \/ MarkSent(d) \/ Confirm(d)
      PROVE  \E m : m = Head(work'[c]) /\ Stored(m)'
  <2>1. CASE c # d
    <3>1. work'[c] = work[c] /\ stage'[c] = stage[c]
      BY <1>4, <2>1 DEF Transmit, SendFails, ShowFailed, MarkSent, Confirm, NextRow, Types
    <3>2. QED BY <1>1, <1>2, <3>1
  <2>2. CASE c = d
    <3>1. MarkSent(c)
      BY <1>1, <1>4, <2>2
         DEF Transmit, SendFails, ShowFailed, Confirm, NextRow, Types
    <3>2. work' = work /\ stage[c] = "acked"
      BY <3>1 DEF MarkSent, Dispatching
    <3>3. QED BY <1>2, <3>2
  <2>3. QED BY <2>1, <2>2
<1>5. CASE Tick \/ Crash
  BY <1>1, <1>5 DEF Tick, Crash
<1>6. CASE UNCHANGED <<work, stage>>
  BY <1>1, <1>2, <1>6
<1>7. QED
  <2>1. \/ \E n \in Msgs : AckIn(n)
        \/ Tick \/ Crash
        \/ \E d \in Chats :
             Transmit(d) \/ SendFails(d) \/ ShowFailed(d) \/ MarkSent(d) \/ Confirm(d)
        \/ UNCHANGED <<work, stage>>
    BY DEF Next, vars, app, Compose, Retry, Delete, Elapse, Enqueue, EnqueueFails, Hydrate,
           Dispatch, Open, Hello, Drop, Deliver, Reject, Refuse, Persist, AckOut, AckLost, Snapshot
  <2>2. QED BY <1>3, <1>4, <1>5, <1>6, <2>1

-----------------------------------------------------------------------------
\* The two properties

LEMMA NothingLostStep ==
  ASSUME Types, HandInv, NothingLost, [Next]_vars
  PROVE  NothingLost'
<1>1. CASE UNCHANGED <<outbox, enqueued, deleted>>
  BY <1>1, StoredStep DEF NothingLost
<1>2. CASE Enqueue
  <2>1. Head(enqueueing) \in Msgs
    BY <1>2 DEF Enqueue, Types
  <2>2. outbox' = [outbox EXCEPT ![Head(enqueueing)] = "due"]
        /\ enqueued' = enqueued \cup {Head(enqueueing)} /\ deleted' = deleted
    BY <1>2 DEF Enqueue
  <2>3. \A m \in enqueued' \ deleted' :
          outbox'[m] # "none" \/ (m \in enqueued \ deleted /\ outbox'[m] = outbox[m])
    BY <2>1, <2>2 DEF Types
  <2>4. QED BY <2>3, StoredStep DEF NothingLost
<1>3. ASSUME NEW m \in Msgs, Retry(m) \/ Elapse(m) \/ Delete(m)
      PROVE  NothingLost'
  <2>1. enqueued' = enqueued /\ deleted \subseteq deleted'
    BY <1>3 DEF Retry, Elapse, Delete, history
  <2>2. \A n \in enqueued' \ deleted' : outbox'[n] # "none" \/ outbox'[n] = outbox[n]
    <3>1. CASE Retry(m) \/ Elapse(m)
      <4>1. outbox' = outbox \/ outbox' = [outbox EXCEPT ![m] = "due"]
        BY <3>1 DEF Retry, Elapse
      <4>2. QED BY <2>1, <4>1 DEF Types
    <3>2. CASE Delete(m)
      <4>1. deleted' = deleted \cup {m} /\ outbox' = [outbox EXCEPT ![m] = "none"]
        BY <3>2 DEF Delete
      <4>2. \A n \in enqueued : n # m => outbox'[n] = outbox[n]
        BY <4>1 DEF Types
      <4>3. QED BY <2>1, <4>1, <4>2
    <3>3. QED BY <1>3, <3>1, <3>2
  <2>3. QED BY <2>1, <2>2, StoredStep DEF NothingLost
<1>4. ASSUME NEW c \in Chats, SendFails(c)
      PROVE  NothingLost'
  <2>1. enqueued' = enqueued /\ deleted' = deleted
    BY <1>4 DEF SendFails
  <2>2. \A n \in enqueued : outbox'[n] # "none" \/ outbox'[n] = outbox[n]
    BY <1>4 DEF SendFails, Types
  <2>3. QED BY <2>1, <2>2, StoredStep DEF NothingLost
<1>5. ASSUME NEW c \in Chats, MarkSent(c)
      PROVE  NothingLost'
  <2>1. PICK m \in Msgs : Dispatching(c, "acked", m) /\ outbox' = [outbox EXCEPT ![m] = "none"]
    BY <1>5 DEF MarkSent
  <2>2. Stored(m)'
    BY <2>1, StoredStep DEF Dispatching, HandInv
  <2>3. \A n \in enqueued : n = m \/ outbox'[n] = outbox[n]
    BY <2>1 DEF Types
  <2>4. enqueued' = enqueued /\ deleted' = deleted
    BY <1>5 DEF MarkSent, history
  <2>5. QED BY <2>2, <2>3, <2>4, StoredStep DEF NothingLost
<1>6. QED
  <2>1. \/ Enqueue
        \/ \E m \in Msgs : Retry(m) \/ Elapse(m) \/ Delete(m)
        \/ \E c \in Chats : SendFails(c) \/ MarkSent(c)
        \/ UNCHANGED <<outbox, enqueued, deleted>>
    BY DEF Next, vars, disk, history, Compose, AckIn, EnqueueFails, Hydrate, Tick, Dispatch,
           Transmit, ShowFailed, Confirm, Open, Hello, Drop, Deliver, Reject, Refuse, Persist,
           AckOut, AckLost, Snapshot, Crash
  <2>2. QED BY <1>1, <1>2, <1>3, <1>4, <1>5, <2>1

\* Only Confirm writes "sent", and Hydrate shows what the table says.
LEMMA SentIsStoredStep ==
  ASSUME Types, HandInv, SentIsStored, [Next]_vars
  PROVE  SentIsStored'
<1> DEFINE Sent(b, s, m) == "sent" \in b[m] \/ "sent" \in s[m]
<1>1. ASSUME \A m \in Msgs : Sent(bubble', saved', m) => Sent(bubble, saved, m)
      PROVE  SentIsStored'
  BY <1>1, StoredStep DEF SentIsStored
<1>2. CASE UNCHANGED <<bubble, saved>>
  BY <1>1, <1>2
<1>3. ASSUME NEW m \in Msgs, Compose(m) \/ Delete(m)
      PROVE  SentIsStored'
  <2>1. saved' = saved /\ \A n \in Msgs : bubble'[n] = bubble[n] \/ "sent" \notin bubble'[n]
    BY <1>3 DEF Compose, Delete, disk, Types
  <2>2. QED BY <1>1, <2>1
<1>4. ASSUME NEW m \in Msgs, Retry(m)
      PROVE  SentIsStored'
  <2>1. bubble' = [bubble EXCEPT ![m] = RetriedBubble(@)] /\ saved' = Persisted(m, "sending")
    BY <1>4 DEF Retry
  <2>2. \A n \in Msgs : "sent" \in bubble'[n] => "sent" \in bubble[n]
    BY <2>1, RetriedBubbleType DEF Types
  <2>3. \A n \in Msgs : "sent" \in saved'[n] => "sent" \in saved[n]
    BY <2>1, PersistedType DEF Status, Local
  <2>4. QED BY <1>1, <2>2, <2>3
<1>5. ASSUME NEW m \in Msgs, bubble' = [bubble EXCEPT ![m] = FailedBubble(@)],
             saved' = saved \/ saved' = Persisted(m, "failed")
      PROVE  SentIsStored'
  <2>1. \A n \in Msgs : "sent" \in bubble'[n] => "sent" \in bubble[n]
    BY <1>5, FailedBubbleType DEF Types
  <2>2. \A n \in Msgs : "sent" \in saved'[n] => "sent" \in saved[n]
    BY <1>5, PersistedType DEF Status, Local
  <2>3. QED BY <1>1, <2>1, <2>2
<1>6. CASE EnqueueFails
  <2>1. Head(enqueueing) \in Msgs
    BY <1>6 DEF EnqueueFails, Types
  <2>2. QED BY <1>5, <1>6, <2>1 DEF EnqueueFails
<1>7. ASSUME NEW c \in Chats, ShowFailed(c)
      PROVE  SentIsStored'
  <2>1. PICK m \in Msgs :
          /\ bubble' = [bubble EXCEPT ![m] = FailedBubble(@)]
          /\ saved' = saved \/ saved' = Persisted(m, "failed")
    BY <1>7 DEF ShowFailed
  <2>2. QED BY <1>5, <2>1
<1>8. CASE Hydrate
  <2>1. saved' = saved /\ \A n \in Msgs : bubble'[n] \subseteq bubble[n] \cup saved[n]
    BY <1>8 DEF Hydrate, disk
  <2>2. QED BY <1>1, <2>1
<1>9. ASSUME NEW c \in Chats, Confirm(c)
      PROVE  SentIsStored'
  <2>1. PICK m \in Msgs :
          /\ Dispatching(c, "sent", m)
          /\ bubble' = [bubble EXCEPT ![m] = ConfirmedBubble(@)]
          /\ saved' = Persisted(m, "sent")
    BY <1>9 DEF Confirm
  <2>2. Stored(m)'
    BY <2>1, StoredStep DEF Dispatching, HandInv
  <2>3. \A n \in Msgs : n # m => bubble'[n] = bubble[n]
    BY <2>1 DEF Types
  <2>4. \A n \in Msgs : "sent" \in saved'[n] => "sent" \in saved[n] \/ n = m
    BY <2>1, PersistedType DEF Status, Local
  <2>5. QED BY <2>2, <2>3, <2>4, StoredStep DEF SentIsStored
<1>10. CASE Crash
  <2>1. saved' = saved /\ \A n \in Msgs : bubble'[n] = {}
    BY <1>10 DEF Crash, disk
  <2>2. QED BY <1>1, <2>1
<1>11. QED
  <2>1. \/ \E m \in Msgs : Compose(m) \/ Delete(m)
        \/ \E m \in Msgs : Retry(m)
        \/ EnqueueFails \/ Hydrate \/ Crash
        \/ \E c \in Chats : ShowFailed(c) \/ Confirm(c)
        \/ UNCHANGED <<bubble, saved>>
    BY DEF Next, vars, disk, app, AckIn, Elapse, Enqueue, Tick, Dispatch, Transmit, MarkSent,
           SendFails, Open, Hello, Drop, Deliver, Reject, Refuse, Persist, AckOut, AckLost, Snapshot
  <2>2. QED BY <1>2, <1>3, <1>4, <1>6, <1>7, <1>8, <1>9, <1>10, <2>1

-----------------------------------------------------------------------------
\* The rows

LEMMA WithoutList ==
  ASSUME NEW X, NEW s \in Seq(X), NEW x
  PROVE  /\ Without(s, x) \in Seq(X)
         /\ Range(Without(s, x)) = Range(s) \ {x}
         /\ IsInjective(s) => IsInjective(Without(s, x))
<1> DEFINE P == {i \in DOMAIN s : s[i] # x}
<1>1. P \in SUBSET (1 .. Len(s)) /\ Without(s, x) = Picked(s, P)
  BY DEF Without
<1>2. {s[p] : p \in P} = Range(s) \ {x}
  BY DEF Range
<1> QED BY <1>1, <1>2, PickedList

LEMMA RowsRemoved ==
  ASSUME Types, RowsInv, NEW m \in Msgs, NEW state \in {"none", "parked", "dead"},
         outbox' = [outbox EXCEPT ![m] = state], order' = Without(order, m)
  PROVE  RowsInv'
<1>1. order' \in Seq(Msgs) /\ IsInjective(order') /\ Range(order') = Range(order) \ {m}
  BY WithoutList DEF RowsInv
<1>2. \A n \in Msgs : outbox'[n] = IF n = m THEN state ELSE outbox[n]
  BY DEF Types
<1>3. \A n \in Msgs : outbox'[n] = "due" <=> n \in Range(order')
  BY <1>1, <1>2 DEF RowsInv
<1> QED BY <1>1, <1>3 DEF RowsInv

LEMMA RowsAdded ==
  ASSUME Types, RowsInv, NEW m \in Msgs, NEW s \in {order, Without(order, m)}, m \notin Range(s),
         outbox' = [outbox EXCEPT ![m] = "due"], order' = Append(s, m)
  PROVE  RowsInv'
<1>1. s \in Seq(Msgs) /\ IsInjective(s) /\ Range(s) = Range(order) \ {m}
  BY WithoutList DEF RowsInv
<1>2. order' \in Seq(Msgs) /\ IsInjective(order') /\ Range(order') = Range(order) \cup {m}
  BY <1>1, AppendList
<1>3. \A n \in Msgs : outbox'[n] = IF n = m THEN "due" ELSE outbox[n]
  BY DEF Types
<1>4. \A n \in Msgs : outbox'[n] = "due" <=> n \in Range(order')
  BY <1>2, <1>3 DEF RowsInv
<1> QED BY <1>2, <1>4 DEF RowsInv

LEMMA RowsStep ==
  ASSUME Types, RowsInv, FreshInv, [Next]_vars
  PROVE  RowsInv'
<1>1. CASE UNCHANGED <<outbox, order>>
  BY <1>1 DEF RowsInv
<1>2. CASE Enqueue
  <2>1. Head(enqueueing) \in Msgs /\ Head(enqueueing) \in Range(enqueueing)
    BY <1>2, TailList DEF Enqueue, Types
  <2>2. Head(enqueueing) \notin Range(order)
    BY <2>1 DEF FreshInv, Untouched, RowsInv
  <2>3. outbox' = [outbox EXCEPT ![Head(enqueueing)] = "due"]
        /\ order' = Append(order, Head(enqueueing))
    BY <1>2 DEF Enqueue
  <2> QED BY <2>1, <2>2, <2>3, RowsAdded
<1>3. ASSUME NEW m \in Msgs, Retry(m), outbox[m] # "none"
      PROVE  RowsInv'
  <2>1. m \notin Range(Without(order, m))
    BY WithoutList DEF RowsInv
  <2>2. outbox' = [outbox EXCEPT ![m] = "due"] /\ order' = Append(Without(order, m), m)
    BY <1>3 DEF Retry
  <2> QED BY <2>1, <2>2, RowsAdded
<1>4. ASSUME NEW m \in Msgs, Elapse(m)
      PROVE  RowsInv'
  <2>1. m \notin Range(order)
    BY <1>4 DEF Elapse, RowsInv
  <2>2. outbox' = [outbox EXCEPT ![m] = "due"] /\ order' = Append(order, m)
    BY <1>4 DEF Elapse
  <2> QED BY <2>1, <2>2, RowsAdded
<1>5. ASSUME NEW m \in Msgs, Delete(m)
      PROVE  RowsInv'
  BY <1>5, RowsRemoved DEF Delete
<1>6. ASSUME NEW c \in Chats, SendFails(c)
      PROVE  RowsInv'
  <2>1. PICK m \in Msgs, state \in {"parked", "dead"} :
          outbox' = [outbox EXCEPT ![m] = state] /\ order' = Without(order, m)
    BY <1>6 DEF SendFails
  <2> QED BY <2>1, RowsRemoved
<1>7. ASSUME NEW c \in Chats, MarkSent(c)
      PROVE  RowsInv'
  BY <1>7, RowsRemoved DEF MarkSent
<1>8. \/ Enqueue
      \/ \E m \in Msgs : (Retry(m) /\ outbox[m] # "none") \/ Elapse(m) \/ Delete(m)
      \/ \E c \in Chats : SendFails(c) \/ MarkSent(c)
      \/ UNCHANGED <<outbox, order>>
  BY DEF Next, vars, disk, Compose, Retry, AckIn, EnqueueFails, Hydrate, Tick, Dispatch,
         Transmit, ShowFailed, Confirm, Open, Hello, Drop, Deliver, Reject, Refuse, Persist,
         AckOut, AckLost, Snapshot, Crash
<1> QED BY <1>1, <1>2, <1>3, <1>4, <1>5, <1>6, <1>7, <1>8

-----------------------------------------------------------------------------
\* The rows in the workers' hands

LEMMA HeadInWork ==
  ASSUME WorkInv, NEW c \in Chats, NEW m \in Msgs, NEW where, Dispatching(c, where, m)
  PROVE  /\ InWork(m) /\ ChatOf[m] = c /\ m \in Range(work[c])
         /\ work[c] # << >> /\ Head(work[c]) = m /\ stage[c] = where
<1>1. ChatOf[m] = c /\ work[c] # << >> /\ Head(work[c]) = m /\ stage[c] = where
  BY DEF Dispatching
<1>2. work[c] \in Seq(Msgs)
  BY DEF WorkInv
<1>3. m \in Range(work[c])
  BY <1>1, <1>2, TailList
<1> QED BY <1>1, <1>3 DEF InWork

\* NextRow takes the head out of one worker's hands and leaves the others alone.
LEMMA NextRowTakes ==
  ASSUME WorkInv, SendAssumption, NEW c \in Chats, work[c] # << >>,
         work' = [work EXCEPT ![c] = Tail(@)]
  PROVE  /\ WorkInv'
         /\ \A d \in Chats : d # c => work'[d] = work[d]
         /\ Range(work'[c]) \subseteq Range(work[c]) \ {Head(work[c])}
         /\ \A m \in Msgs : InWork(m)' => InWork(m) /\ (ChatOf[m] = c => m # Head(work[c]))
<1>1. work[c] \in Seq(Msgs) /\ IsInjective(work[c]) /\ work \in [Chats -> Seq(Msgs)]
  BY DEF WorkInv
<1>2. work'[c] = Tail(work[c]) /\ \A d \in Chats : d # c => work'[d] = work[d]
  BY <1>1
<1>3. /\ Tail(work[c]) \in Seq(Msgs) /\ IsInjective(Tail(work[c]))
      /\ Range(Tail(work[c])) \subseteq Range(work[c]) \ {Head(work[c])}
  BY <1>1, TailList
<1>4. work' \in [Chats -> Seq(Msgs)]
  BY <1>1, <1>3
<1>5. \A d \in Chats : IsInjective(work'[d]) /\ \A m \in Range(work'[d]) : ChatOf[m] = d
  BY <1>2, <1>3 DEF WorkInv
<1>6. WorkInv'
  BY <1>4, <1>5 DEF WorkInv
<1>7. ASSUME NEW m \in Msgs, m \in Range(work'[ChatOf[m]])
      PROVE  m \in Range(work[ChatOf[m]]) /\ (ChatOf[m] = c => m # Head(work[c]))
  <2>1. ChatOf[m] \in Chats
    BY DEF SendAssumption
  <2> QED BY <1>2, <1>3, <1>7, <2>1
<1> QED BY <1>2, <1>3, <1>6, <1>7 DEF InWork

\* A tick hands out rows that are due.
LEMMA TickTakes ==
  ASSUME Types, RowsInv, SendAssumption, Tick
  PROVE  /\ WorkInv'
         /\ \A c \in Chats : work[c] = << >> /\ stage'[c] = "send"
         /\ \A c \in Chats : \A m \in Range(work'[c]) : m \in Msgs /\ outbox[m] = "due"
<1> DEFINE last == IF Len(order) < TickLimit THEN Len(order) ELSE TickLimit
           P(c) == {i \in 1 .. last : ChatOf[order[i]] = c}
<1>1. order \in Seq(Msgs) /\ IsInjective(order) /\ last \in Nat /\ last <= Len(order)
  BY DEF RowsInv, SendAssumption
<1>2. work' = [c \in Chats |-> Picked(order, P(c))] /\ stage' = [c \in Chats |-> "send"]
  BY DEF Tick
<1> HIDE DEF last
<1>3. ASSUME NEW c \in Chats
      PROVE  /\ work'[c] \in Seq(Msgs) /\ IsInjective(work'[c])
             /\ \A m \in Range(work'[c]) : ChatOf[m] = c /\ m \in Range(order)
  <2>1. P(c) \in SUBSET (1 .. Len(order))
    BY <1>1
  <2>2. /\ Picked(order, P(c)) \in Seq(Msgs)
        /\ Range(Picked(order, P(c))) = {order[p] : p \in P(c)}
        /\ IsInjective(Picked(order, P(c)))
    BY <1>1, <2>1, PickedList
  <2>3. \A p \in P(c) : ChatOf[order[p]] = c /\ order[p] \in Range(order)
    BY <1>1, <2>1, RangeOf
  <2>4. work'[c] = Picked(order, P(c))
    BY <1>2
  <2> QED BY <2>2, <2>3, <2>4
<1>4. \A m \in Range(order) : m \in Msgs /\ outbox[m] = "due"
  BY <1>1, RangeOf DEF RowsInv
<1>5. work' \in [Chats -> Seq(Msgs)]
  BY <1>2, <1>3
<1>6. \A c \in Chats : work[c] = << >> /\ stage'[c] = "send"
  BY <1>2 DEF Tick, Ticking
<1> HIDE DEF P
<1> QED BY <1>3, <1>4, <1>5, <1>6 DEF WorkInv

LEMMA NoWork ==
  ASSUME NEW c \in Chats, work[c] = << >>
  PROVE  Range(work[c]) = {} /\ IsInjective(work[c])
  BY DEF Range, IsInjective

\* What can happen to work: nothing, a tick, a worker's next row, a kill of the app.
LEMMA WorkMoves ==
  ASSUME [Next]_vars
  PROVE  \/ Tick
         \/ \E c \in Chats : work[c] # << >> /\ work' = [work EXCEPT ![c] = Tail(@)]
         \/ Crash
         \/ work' = work
<1>1. ASSUME NEW c \in Chats, Dispatch(c) \/ SendFails(c)
      PROVE  \/ work[c] # << >> /\ work' = [work EXCEPT ![c] = Tail(@)]
             \/ work' = work
  BY <1>1 DEF Dispatch, Transmit, ShowFailed, MarkSent, Confirm, SendFails, NextRow, Dispatching
<1>2. ASSUME NEW c \in Chats, Refuse(c) \/ Persist(c) \/ AckOut(c) \/ AckLost(c)
      PROVE  work' = work
  BY <1>2 DEF Refuse, Persist, AckOut, AckLost, app
<1>3. ASSUME NEW m \in Msgs, Compose(m) \/ Retry(m) \/ Delete(m) \/ Elapse(m) \/ AckIn(m)
      PROVE  work' = work
  BY <1>3 DEF Compose, Retry, Delete, Elapse, AckIn, app
<1>4. ASSUME \/ Enqueue \/ EnqueueFails \/ Hydrate
             \/ Open \/ Hello \/ Drop \/ Deliver \/ Reject \/ Snapshot
      PROVE  work' = work
  BY <1>4 DEF Enqueue, EnqueueFails, Hydrate, Open, Hello, Drop, Deliver, Reject, Snapshot, app
<1>5. vars' = vars => work' = work
  BY DEF vars, app
<1> QED BY <1>1, <1>2, <1>3, <1>4, <1>5 DEF Next

LEMMA WorkStep ==
  ASSUME Types, RowsInv, WorkInv, SendAssumption, [Next]_vars
  PROVE  /\ WorkInv'
         /\ \A m \in Msgs : InWork(m)' => InWork(m) \/ outbox[m] = "due"
<1>1. CASE Tick
  <2>1. \A m \in Msgs : ChatOf[m] \in Chats
    BY DEF SendAssumption
  <2> QED BY <1>1, <2>1, TickTakes DEF InWork
<1>2. ASSUME NEW c \in Chats, work[c] # << >>, work' = [work EXCEPT ![c] = Tail(@)]
      PROVE  WorkInv' /\ \A m \in Msgs : InWork(m)' => InWork(m)
  BY <1>2, NextRowTakes
<1>3. CASE Crash
  <2>1. work' = [c \in Chats |-> << >>]
    BY <1>3 DEF Crash
  <2>2. << >> \in Seq(Msgs) /\ Range(<< >>) = {} /\ IsInjective(<< >>)
    BY DEF Range, IsInjective
  <2>3. \A c \in Chats : work'[c] = << >>
    BY <2>1
  <2>4. work' \in [Chats -> Seq(Msgs)]
    BY <2>1, <2>2
  <2>5. WorkInv'
    BY <2>2, <2>3, <2>4 DEF WorkInv
  <2>6. \A m \in Msgs : ChatOf[m] \in Chats
    BY DEF SendAssumption
  <2> QED BY <2>2, <2>3, <2>5, <2>6 DEF InWork
<1>4. CASE work' = work
  BY <1>4 DEF WorkInv, InWork
<1> QED BY <1>1, <1>2, <1>3, <1>4, WorkMoves

-----------------------------------------------------------------------------
\* Messages nobody has touched yet

LEMMA UntouchedStays ==
  ASSUME Types, RowsInv, WorkInv, SendAssumption, [Next]_vars, NEW m \in Msgs, Untouched(m),
         outbox'[m] = outbox[m], attempts'[m] = attempts[m], saved'[m] = saved[m]
  PROVE  Untouched(m)'
<1>1. ~InWork(m)'
  BY WorkStep DEF Untouched
<1>2. outbox[m] = "none" /\ attempts[m] = 0 /\ saved[m] = {}
  BY DEF Untouched
<1> QED BY <1>1, <1>2 DEF Untouched

LEMMA PersistedOthers ==
  ASSUME Types, NEW m \in Msgs, NEW status \in Status
  PROVE  \A n \in Msgs : n # m => Persisted(m, status)[n] = saved[n]
  BY DEF Types, Persisted

LEMMA FreshStep ==
  ASSUME Types, RowsInv, WorkInv, FreshInv, SendAssumption, [Next]_vars
  PROVE  FreshInv'
<1> DEFINE Same(m) == /\ outbox'[m] = outbox[m]
                      /\ attempts'[m] = attempts[m]
                      /\ saved'[m] = saved[m]
           Fresh(m) == m \in Range(enqueueing) \/ m \notin composed
<1>1. enqueueing \in Seq(Msgs) /\ Range(enqueueing) \subseteq Msgs
  BY RangeOf DEF Types
<1>2. \A m \in Msgs : Fresh(m) /\ Same(m) => Untouched(m)'
  BY UntouchedStays DEF FreshInv
<1>3. \A m \in Msgs : Fresh(m) => outbox[m] = "none" /\ ~InWork(m) /\ saved[m] = {}
                                  /\ (bubble[m] = {} \/ bubble[m] = {"sending"})
  BY DEF FreshInv, Untouched
<1>4. ASSUME UNCHANGED <<composed, enqueueing>>,
             \A m \in Msgs : Fresh(m) => Same(m) /\ bubble'[m] = bubble[m]
      PROVE  FreshInv'
  <2>1. \A m \in Range(enqueueing) :
          m \in Msgs /\ m \in composed /\ Untouched(m)' /\ bubble'[m] = {"sending"}
    BY <1>1, <1>2, <1>4 DEF FreshInv
  <2>2. \A m \in Msgs \ composed : Untouched(m)' /\ bubble'[m] = {}
    BY <1>2, <1>4 DEF FreshInv
  <2>3. composed \subseteq Msgs /\ IsInjective(enqueueing)
    BY DEF FreshInv
  <2> HIDE DEF Same, Fresh
  <2> QED BY <1>4, <2>1, <2>2, <2>3 DEF FreshInv
<1>5. ASSUME NEW m \in Msgs, Compose(m)
      PROVE  FreshInv'
  <2>1. /\ m \notin composed /\ composed' = composed \cup {m}
        /\ bubble' = [bubble EXCEPT ![m] = {"sending"}]
        /\ enqueueing' = Append(enqueueing, m)
        /\ \A n \in Msgs : Same(n)
    BY <1>5 DEF Compose, disk
  <2>2. m \notin Range(enqueueing)
    BY <1>1, <2>1 DEF FreshInv
  <2>3. IsInjective(enqueueing') /\ Range(enqueueing') = Range(enqueueing) \cup {m}
    BY <1>1, <2>1, <2>2, AppendList DEF FreshInv
  <2>4. bubble'[m] = {"sending"} /\ \A n \in Msgs : n # m => bubble'[n] = bubble[n]
    BY <2>1 DEF Types
  <2>5. \A n \in Range(enqueueing') :
          n \in composed' /\ Untouched(n)' /\ bubble'[n] = {"sending"}
    BY <1>1, <1>2, <2>1, <2>3, <2>4 DEF FreshInv
  <2>6. \A n \in Msgs \ composed' : Untouched(n)' /\ bubble'[n] = {}
    BY <1>2, <2>1, <2>4 DEF FreshInv
  <2>7. composed' \subseteq Msgs
    BY <2>1 DEF FreshInv
  <2> QED BY <2>3, <2>5, <2>6, <2>7 DEF FreshInv
<1>6. ASSUME enqueueing # << >>, enqueueing' = Tail(enqueueing), composed' = composed,
             \A m \in Msgs : m # Head(enqueueing) => Same(m) /\ bubble'[m] = bubble[m]
      PROVE  FreshInv'
  <2>1. /\ Head(enqueueing) \in composed
        /\ IsInjective(enqueueing')
        /\ Range(enqueueing') \subseteq Range(enqueueing) \ {Head(enqueueing)}
    BY <1>1, <1>6, TailList DEF FreshInv
  <2>2. \A n \in Range(enqueueing') :
          n \in composed' /\ Untouched(n)' /\ bubble'[n] = {"sending"}
    BY <1>1, <1>2, <1>6, <2>1 DEF FreshInv
  <2>3. \A n \in Msgs \ composed' : Untouched(n)' /\ bubble'[n] = {}
    BY <1>2, <1>6, <2>1 DEF FreshInv
  <2>4. composed' \subseteq Msgs
    BY <1>6 DEF FreshInv
  <2> QED BY <2>1, <2>2, <2>3, <2>4 DEF FreshInv
<1>7. CASE Enqueue
  <2>1. Head(enqueueing) \in Msgs
    BY <1>1, <1>7, TailList DEF Enqueue
  <2>2. \A m \in Msgs : m # Head(enqueueing) => Same(m) /\ bubble'[m] = bubble[m]
    BY <1>7, <2>1 DEF Enqueue, Types
  <2> QED BY <1>6, <1>7, <2>2 DEF Enqueue
<1>8. CASE EnqueueFails
  <2>1. Head(enqueueing) \in Msgs
    BY <1>1, <1>8, TailList DEF EnqueueFails
  <2>2. /\ bubble' = [bubble EXCEPT ![Head(enqueueing)] = FailedBubble(@)]
        /\ saved' = Persisted(Head(enqueueing), "failed")
        /\ UNCHANGED <<outbox, attempts>>
    BY <1>8 DEF EnqueueFails
  <2>3. \A m \in Msgs : m # Head(enqueueing) => saved'[m] = saved[m]
    BY <2>1, <2>2, PersistedOthers DEF Status, Local
  <2>4. \A m \in Msgs : m # Head(enqueueing) => Same(m) /\ bubble'[m] = bubble[m]
    BY <2>2, <2>3 DEF Types
  <2> QED BY <1>6, <1>8, <2>4 DEF EnqueueFails
<1>9. ASSUME NEW m \in Msgs, Retry(m)
      PROVE  FreshInv'
  <2>1. ~Fresh(m)
    BY <1>3, <1>9 DEF Retry
  <2>2. /\ \A n \in Msgs : n # m => outbox'[n] = outbox[n] /\ attempts'[n] = attempts[n]
        /\ \A n \in Msgs : n # m => bubble'[n] = bubble[n]
    BY <1>9 DEF Retry, Types
  <2>3. \A n \in Msgs : n # m => saved'[n] = saved[n]
    BY <1>9, PersistedOthers DEF Retry, Status, Local
  <2>4. UNCHANGED <<composed, enqueueing>>
    BY <1>9 DEF Retry
  <2> QED BY <1>4, <2>1, <2>2, <2>3, <2>4
<1>10. ASSUME NEW m \in Msgs, Delete(m)
       PROVE  FreshInv'
  <2>1. ~Fresh(m)
    BY <1>3, <1>10 DEF Delete
  <2>2. \A n \in Msgs : n # m => Same(n) /\ bubble'[n] = bubble[n]
    BY <1>10 DEF Delete, Types
  <2>3. UNCHANGED <<composed, enqueueing>>
    BY <1>10 DEF Delete
  <2> QED BY <1>4, <2>1, <2>2, <2>3
<1>11. ASSUME NEW m \in Msgs, Elapse(m)
       PROVE  FreshInv'
  <2>1. ~Fresh(m)
    BY <1>3, <1>11 DEF Elapse
  <2>2. \A n \in Msgs : n # m => Same(n) /\ bubble'[n] = bubble[n]
    BY <1>11 DEF Elapse, Types, app
  <2>3. UNCHANGED <<composed, enqueueing>>
    BY <1>11 DEF Elapse, app, history
  <2> QED BY <1>4, <2>1, <2>2, <2>3
<1>12. ASSUME NEW c \in Chats, SendFails(c) \/ ShowFailed(c) \/ MarkSent(c) \/ Confirm(c)
       PROVE  FreshInv'
  <2>1. PICK m \in Msgs, where \in Stage :
          /\ Dispatching(c, where, m)
          /\ \A n \in Msgs : n # m => outbox'[n] = outbox[n] /\ attempts'[n] = attempts[n]
          /\ \A n \in Msgs : n # m => bubble'[n] = bubble[n]
          /\ saved' = saved \/ saved' = Persisted(m, "failed") \/ saved' = Persisted(m, "sent")
    <3>1. CASE SendFails(c)
      BY <3>1 DEF SendFails, Stage, Types
    <3>2. CASE ShowFailed(c)
      BY <3>2 DEF ShowFailed, Stage, Types
    <3>3. CASE MarkSent(c)
      BY <3>3 DEF MarkSent, Stage, Types
    <3>4. CASE Confirm(c)
      BY <3>4 DEF Confirm, Stage, Types
    <3> QED BY <1>12, <3>1, <3>2, <3>3, <3>4
  <2>2. ~Fresh(m)
    BY <1>3, <2>1, HeadInWork
  <2>3. \A n \in Msgs : n # m => saved'[n] = saved[n]
    BY <2>1, PersistedOthers DEF Status, Local
  <2>4. UNCHANGED <<composed, enqueueing>>
    BY <1>12 DEF SendFails, ShowFailed, MarkSent, Confirm, history
  <2> QED BY <1>4, <2>1, <2>2, <2>3, <2>4
<1>13. CASE Hydrate
  <2>1. \A m \in Msgs : Fresh(m) => bubble'[m] = bubble[m]
    BY <1>3, <1>13 DEF Hydrate
  <2> QED BY <1>4, <1>13, <2>1 DEF Hydrate, disk, history
<1>14. CASE Crash
  <2>1. /\ enqueueing' = << >> /\ composed' = composed
        /\ \A m \in Msgs : Same(m) /\ bubble'[m] = {}
    BY <1>14 DEF Crash, disk
  <2>2. Range(enqueueing') = {} /\ IsInjective(enqueueing')
    BY <2>1 DEF Range, IsInjective
  <2>3. \A m \in Msgs \ composed' : Untouched(m)' /\ bubble'[m] = {}
    BY <1>2, <2>1
  <2>4. composed' \subseteq Msgs
    BY <2>1 DEF FreshInv
  <2> QED BY <2>2, <2>3, <2>4 DEF FreshInv
<1>15. CASE UNCHANGED <<outbox, attempts, saved, bubble, composed, enqueueing>>
  BY <1>4, <1>15
<1>16. \/ \E m \in Msgs : Compose(m) \/ Retry(m) \/ Delete(m) \/ Elapse(m)
       \/ Enqueue \/ EnqueueFails \/ Hydrate \/ Crash
       \/ \E c \in Chats : SendFails(c) \/ ShowFailed(c) \/ MarkSent(c) \/ Confirm(c)
       \/ UNCHANGED <<outbox, attempts, saved, bubble, composed, enqueueing>>
  BY DEF Next, vars, disk, app, history, AckIn, Tick, Dispatch, Transmit, Open, Hello, Drop,
         Deliver, Reject, Refuse, Persist, AckOut, AckLost, Snapshot
<1> HIDE DEF Same, Fresh
<1> QED BY <1>5, <1>7, <1>8, <1>9, <1>10, <1>11, <1>12, <1>13, <1>14, <1>15, <1>16

-----------------------------------------------------------------------------
\* Attempts

LEMMA AttemptsStep ==
  ASSUME Types, RowsInv, WorkInv, FreshInv, AttemptsInv, SendAssumption, [Next]_vars
  PROVE  AttemptsInv'
<1> DEFINE Tried(m) == outbox[m] \in {"due", "parked"}
           Coming(c, m) == m \in Range(work[c]) /\ (m # Head(work[c]) \/ stage[c] = "send")
<1>1. MaxAttempts \in Nat \ {0} /\ attempts \in [Msgs -> 0 .. MaxAttempts]
  BY DEF SendAssumption, AttemptsInv
<1>2. \A m \in Msgs : Tried(m) => attempts[m] < MaxAttempts
  BY DEF AttemptsInv
<1>3. \A c \in Chats : \A m \in Msgs : Coming(c, m) => attempts[m] < MaxAttempts
  BY DEF AttemptsInv
<1>4. \A c \in Chats : work[c] \in Seq(Msgs) /\ Range(work[c]) \subseteq Msgs
  BY RangeOf DEF WorkInv
<1>5. WorkInv' /\ \A c \in Chats : Range(work'[c]) \subseteq Msgs
  <2>1. WorkInv'
    BY WorkStep
  <2>2. \A c \in Chats : work'[c] \in Seq(Msgs)
    BY <2>1 DEF WorkInv
  <2> QED BY <2>1, <2>2, RangeOf
<1>6. ASSUME attempts' \in [Msgs -> 0 .. MaxAttempts],
             \A m \in Msgs : outbox'[m] \in {"due", "parked"} => attempts'[m] < MaxAttempts,
             \A c \in Chats : \A m \in Msgs :
               m \in Range(work'[c]) /\ (m # Head(work'[c]) \/ stage'[c] = "send") =>
                 attempts'[m] < MaxAttempts
      PROVE  AttemptsInv'
  BY <1>5, <1>6 DEF AttemptsInv
<1>7. ASSUME attempts' = attempts, work' = work,
             \A m \in Msgs : outbox'[m] \in {"due", "parked"} => attempts[m] < MaxAttempts,
             \A c \in Chats : stage'[c] = "send" => stage[c] = "send"
      PROVE  AttemptsInv'
  BY <1>1, <1>3, <1>6, <1>7
<1>8. CASE Enqueue
  <2>1. Head(enqueueing) \in Msgs /\ attempts[Head(enqueueing)] = 0
    BY <1>8, TailList DEF Enqueue, Types, FreshInv, Untouched
  <2>2. outbox' = [outbox EXCEPT ![Head(enqueueing)] = "due"]
        /\ UNCHANGED <<attempts, work, stage>>
    BY <1>8 DEF Enqueue
  <2>3. \A m \in Msgs : outbox'[m] \in {"due", "parked"} => Tried(m) \/ attempts[m] = 0
    BY <2>1, <2>2 DEF Types
  <2>4. \A m \in Msgs : outbox'[m] \in {"due", "parked"} => attempts[m] < MaxAttempts
    BY <1>1, <1>2, <2>3
  <2> QED BY <1>7, <2>2, <2>4
<1>9. ASSUME NEW m \in Msgs, Retry(m)
      PROVE  AttemptsInv'
  <2>1. work' = work /\ stage' = stage
    BY <1>9 DEF Retry
  <2>2. CASE outbox[m] = "none"
    BY <1>2, <1>7, <1>9, <2>1, <2>2 DEF Retry
  <2>3. CASE outbox[m] # "none"
    <3>1. attempts' = [attempts EXCEPT ![m] = 0] /\ outbox' = [outbox EXCEPT ![m] = "due"]
      BY <1>9, <2>3 DEF Retry
    <3>2. \A n \in Msgs : attempts'[n] = (IF n = m THEN 0 ELSE attempts[n])
                          /\ (n # m => outbox'[n] = outbox[n])
      BY <3>1 DEF Types
    <3>3. attempts' \in [Msgs -> 0 .. MaxAttempts]
      BY <1>1, <3>1
    <3> HIDE DEF Coming
    <3>4. \A n \in Msgs : outbox'[n] \in {"due", "parked"} => attempts'[n] < MaxAttempts
      BY <1>1, <1>2, <3>2
    <3>5. \A c \in Chats : \A n \in Msgs : Coming(c, n) => attempts'[n] < MaxAttempts
      BY <1>1, <1>3, <3>2
    <3> QED BY <1>6, <2>1, <3>3, <3>4, <3>5 DEF Coming
  <2> QED BY <2>2, <2>3
<1>10. ASSUME NEW m \in Msgs, Delete(m) \/ Elapse(m)
       PROVE  AttemptsInv'
  <2>1. attempts' = attempts /\ work' = work /\ stage' = stage
    BY <1>10 DEF Delete, Elapse, app
  <2>2. \A n \in Msgs : outbox'[n] \in {"due", "parked"} => Tried(n)
    BY <1>10 DEF Delete, Elapse, Types
  <2> QED BY <1>2, <1>7, <2>1, <2>2
<1>11. CASE Tick
  <2>1. \A c \in Chats : \A m \in Range(work'[c]) : outbox[m] = "due"
    BY <1>11, TickTakes
  <2>2. attempts' = attempts /\ outbox' = outbox
    BY <1>11 DEF Tick, disk
  <2>3. \A c \in Chats : \A m \in Msgs : m \in Range(work'[c]) => attempts'[m] < MaxAttempts
    BY <1>2, <2>1, <2>2
  <2> QED BY <1>1, <1>2, <1>6, <2>2, <2>3
<1>12. ASSUME NEW c \in Chats, work[c] # << >>, work' = [work EXCEPT ![c] = Tail(@)],
              stage' = [stage EXCEPT ![c] = "send"]
       PROVE  \A d \in Chats : \A m \in Msgs :
                m \in Range(work'[d]) /\ (m # Head(work'[d]) \/ stage'[d] = "send") =>
                  Coming(d, m) /\ (d = c => m # Head(work[c]))
  <2>1. /\ \A d \in Chats : d # c => work'[d] = work[d] /\ stage'[d] = stage[d]
        /\ Range(work'[c]) \subseteq Range(work[c]) \ {Head(work[c])}
    BY <1>12, NextRowTakes DEF Types
  <2> QED BY <2>1
<1>13. ASSUME NEW c \in Chats, SendFails(c)
       PROVE  AttemptsInv'
  <2>1. PICK m \in Msgs, terminal \in BOOLEAN :
          /\ Dispatching(c, "send", m)
          /\ attempts' = [attempts EXCEPT ![m] = @ + 1]
          /\ \/ /\ outbox' = [outbox EXCEPT ![m] = "dead"]
                /\ stage' = [stage EXCEPT ![c] = "dead"]
                /\ UNCHANGED work
             \/ /\ ~GivesUp(m)
                /\ outbox' = [outbox EXCEPT ![m] = "parked"]
                /\ NextRow(c)
    BY <1>13 DEF SendFails
  <2>2. /\ m \in Range(work[c]) /\ Head(work[c]) = m /\ work[c] # << >>
        /\ stage[c] = "send" /\ ChatOf[m] = c
    BY <2>1, HeadInWork
  <2>3. attempts[m] < MaxAttempts
    BY <1>3, <2>2
  <2>4. attempts' \in [Msgs -> 0 .. MaxAttempts]
    BY <1>1, <2>1, <2>3
  <2>5. \A n \in Msgs : attempts'[n] = IF n = m THEN attempts[m] + 1 ELSE attempts[n]
    BY <1>1, <2>1
  <2>6. \A d \in Chats : m \in Range(work[d]) => d = c
    BY <2>2 DEF WorkInv
  <2>7. CASE outbox' = [outbox EXCEPT ![m] = "dead"] /\ stage' = [stage EXCEPT ![c] = "dead"]
             /\ UNCHANGED work
    <3>1. \A n \in Msgs : outbox'[n] \in {"due", "parked"} => n # m /\ Tried(n)
      BY <2>7 DEF Types
    <3>2. stage'[c] = "dead" /\ \A d \in Chats : d # c => stage'[d] = stage[d]
      BY <2>7 DEF Types
    <3>3. \A d \in Chats : \A n \in Msgs :
            n \in Range(work'[d]) /\ (n # Head(work'[d]) \/ stage'[d] = "send") =>
              n # m /\ Coming(d, n)
      BY <2>2, <2>6, <2>7, <3>2
    <3> HIDE DEF Coming, Tried
    <3>4. /\ \A n \in Msgs : outbox'[n] \in {"due", "parked"} => attempts'[n] < MaxAttempts
          /\ \A d \in Chats : \A n \in Msgs :
               n \in Range(work'[d]) /\ (n # Head(work'[d]) \/ stage'[d] = "send") =>
                 attempts'[n] < MaxAttempts
      BY <1>2, <1>3, <2>5, <3>1, <3>3
    <3> QED BY <1>6, <2>4, <3>4
  <2>8. CASE ~GivesUp(m) /\ outbox' = [outbox EXCEPT ![m] = "parked"] /\ NextRow(c)
    <3>1. attempts[m] + 1 < MaxAttempts
      BY <1>1, <2>8 DEF GivesUp
    <3>2. \A n \in Msgs : outbox'[n] \in {"due", "parked"} => n = m \/ Tried(n)
      BY <2>8 DEF Types
    <3>3. \A d \in Chats : \A n \in Msgs :
            n \in Range(work'[d]) /\ (n # Head(work'[d]) \/ stage'[d] = "send") => Coming(d, n)
      BY <1>12, <2>2, <2>8 DEF NextRow
    <3> HIDE DEF Coming, Tried
    <3>4. /\ \A n \in Msgs : outbox'[n] \in {"due", "parked"} => attempts'[n] < MaxAttempts
          /\ \A d \in Chats : \A n \in Msgs :
               n \in Range(work'[d]) /\ (n # Head(work'[d]) \/ stage'[d] = "send") =>
                 attempts'[n] < MaxAttempts
      BY <1>2, <1>3, <2>5, <3>1, <3>2, <3>3
    <3> QED BY <1>6, <2>4, <3>4
  <2> QED BY <2>1, <2>7, <2>8
<1>14. ASSUME NEW c \in Chats, ShowFailed(c) \/ Confirm(c)
       PROVE  AttemptsInv'
  <2>1. work[c] # << >> /\ NextRow(c) /\ attempts' = attempts /\ outbox' = outbox
    BY <1>14 DEF ShowFailed, Confirm, Dispatching
  <2>2. \A d \in Chats : \A n \in Msgs :
          n \in Range(work'[d]) /\ (n # Head(work'[d]) \/ stage'[d] = "send") => Coming(d, n)
    BY <1>12, <2>1 DEF NextRow
  <2> HIDE DEF Coming
  <2> QED BY <1>1, <1>2, <1>3, <1>6, <2>1, <2>2
<1>15. ASSUME NEW c \in Chats, Transmit(c) \/ MarkSent(c)
       PROVE  AttemptsInv'
  <2>1. attempts' = attempts /\ work' = work
        /\ (stage' = [stage EXCEPT ![c] = "await"] \/ stage' = [stage EXCEPT ![c] = "sent"])
    BY <1>15 DEF Transmit, MarkSent, disk
  <2>2. \A n \in Msgs : outbox'[n] \in {"due", "parked"} => Tried(n)
    BY <1>15 DEF Transmit, MarkSent, disk, Types
  <2>3. \A d \in Chats : stage'[d] = "send" => stage[d] = "send"
    BY <2>1 DEF Types
  <2> QED BY <1>2, <1>7, <2>1, <2>2, <2>3
<1>16. ASSUME NEW m \in Msgs, AckIn(m)
       PROVE  AttemptsInv'
  <2>1. attempts' = attempts /\ work' = work /\ outbox' = outbox
    BY <1>16 DEF AckIn, disk
  <2>2. \A d \in Chats : stage'[d] = "send" => stage[d] = "send"
    BY <1>16 DEF AckIn, Types
  <2> QED BY <1>2, <1>7, <2>1, <2>2
<1>17. CASE Crash
  <2>1. attempts' = attempts /\ outbox' = outbox
    BY <1>17 DEF Crash, disk
  <2>2. \A c \in Chats : Range(work'[c]) = {}
    BY <1>17, NoWork DEF Crash, Range
  <2> QED BY <1>1, <1>2, <1>6, <2>1, <2>2
<1>18. CASE UNCHANGED <<outbox, attempts, work, stage>>
  BY <1>2, <1>7, <1>18
<1>19. \/ \E m \in Msgs : Retry(m) \/ Delete(m) \/ Elapse(m) \/ AckIn(m)
       \/ Enqueue \/ Tick \/ Crash
       \/ \E c \in Chats : SendFails(c) \/ ShowFailed(c) \/ Confirm(c)
       \/ \E c \in Chats : Transmit(c) \/ MarkSent(c)
       \/ UNCHANGED <<outbox, attempts, work, stage>>
  BY DEF Next, vars, disk, app, Compose, EnqueueFails, Hydrate, Dispatch, Open, Hello, Drop,
         Deliver, Reject, Refuse, Persist, AckOut, AckLost, Snapshot
<1> HIDE DEF Tried, Coming
<1> QED BY <1>8, <1>9, <1>10, <1>11, <1>13, <1>14, <1>15, <1>16, <1>17, <1>18, <1>19

-----------------------------------------------------------------------------
\* Launches

LEMMA OtherFault ==
  ASSUME Types, NEW k \in Kinds \ {"crashes"}, Happens(k)
  PROVE  faults'["crashes"] = faults["crashes"]
<1>1. faults' = [faults EXCEPT ![k] = @ + 1]
  BY Zenon DEF Happens
<1>2. "crashes" \in Kinds
  BY DEF Kinds
<1> QED BY <1>1, <1>2 DEF Types

LEMMA CrashCount ==
  ASSUME Types, [Next]_vars
  PROVE  Crash \/ faults'["crashes"] = faults["crashes"]
<1>1. \/ \E k \in Kinds \ {"crashes"} : Happens(k)
      \/ Crash
      \/ faults' = faults
  <2>1. {"drops", "fails", "unacked", "retries", "snapshots"} \subseteq Kinds \ {"crashes"}
    BY DEF Kinds
  <2> QED BY <2>1
     DEF Next, vars, history, Compose, Retry, Delete, Elapse, AckIn, Enqueue, EnqueueFails,
         Hydrate, Tick, Dispatch, Transmit, ShowFailed, MarkSent, Confirm, SendFails, Open, Hello,
         Drop, Deliver, Reject, Refuse, Persist, AckOut, AckLost, Snapshot
<1> QED BY <1>1, OtherFault

LEMMA CrashIsCounted ==
  ASSUME Types, Crash
  PROVE  faults'["crashes"] = faults["crashes"] + 1 /\ faults["crashes"] \in Nat
<1>1. faults' = [faults EXCEPT !["crashes"] = @ + 1] /\ "crashes" \in Kinds
  BY Zenon DEF Crash, Happens, Kinds
<1> QED BY <1>1 DEF Types

-----------------------------------------------------------------------------
\* The bubbles of the first launch

\* What the step of a worker leaves of FirstLaunchInv, for the messages it does not
\* concern, and for the rows it is not about.
LEMMA FirstLaunchKeeps ==
  ASSUME FirstLaunchInv, WorkInv, WorkInv', faults["crashes"] = 0, hydrated' = hydrated,
         SendAssumption, NEW m \in Msgs,
         \A n \in Msgs : n # m =>
           outbox'[n] = outbox[n] /\ bubble'[n] = bubble[n] /\ (InWork(n)' => InWork(n)),
         \A c \in Chats : work'[c] # << >> =>
           \/ /\ work'[c] = work[c] /\ stage'[c] = stage[c]
              /\ Head(work[c]) # m \/ outbox'[m] = outbox[m]
           \/ stage'[c] \in {"send", "await", "acked"}
           \/ stage'[c] = "dead" /\ outbox'[Head(work'[c])] = "dead"
           \/ stage'[c] = "sent" /\ outbox'[Head(work'[c])] = "none",
         \A n \in Msgs : n # m /\ Dispatching(ChatOf[n], "dead", n) =>
           Dispatching(ChatOf[n], "dead", n)',
         outbox'[m] \in {"due", "parked"} \/ InWork(m)' => bubble'[m] = {"sending"},
         outbox'[m] = "dead" => bubble'[m] = {"failed"} \/ Dispatching(ChatOf[m], "dead", m)',
         InWork(m)' => outbox'[m] # "parked"
  PROVE  FirstLaunchInv'
<1>1. hydrated' = TRUE
  BY Zenon DEF FirstLaunchInv
<1>2. ASSUME NEW n \in Msgs
      PROVE  /\ outbox'[n] \in {"due", "parked"} \/ InWork(n)' => bubble'[n] = {"sending"}
             /\ outbox'[n] = "dead" => bubble'[n] = {"failed"} \/ Dispatching(ChatOf[n], "dead", n)'
             /\ InWork(n)' => outbox'[n] # "parked"
  BY <1>2 DEF FirstLaunchInv
<1>3. ASSUME NEW c \in Chats, work'[c] # << >>
      PROVE  /\ stage'[c] = "dead" => outbox'[Head(work'[c])] = "dead"
             /\ stage'[c] = "sent" => outbox'[Head(work'[c])] = "none"
  <2>1. CASE /\ work'[c] = work[c] /\ stage'[c] = stage[c]
             /\ Head(work[c]) # m \/ outbox'[m] = outbox[m]
    <3>1. Head(work[c]) \in Msgs
      BY <1>3, <2>1, TailList DEF WorkInv
    <3> QED BY <1>3, <2>1, <3>1 DEF FirstLaunchInv
  <2> QED BY <1>3, <2>1
<1> QED BY <1>1, <1>2, <1>3 DEF FirstLaunchInv

LEMMA NotHead ==
  ASSUME WorkInv, NEW m \in Msgs, ~InWork(m), NEW c \in Chats, work[c] # << >>
  PROVE  Head(work[c]) # m
<1>1. Head(work[c]) \in Range(work[c])
  BY TailList DEF WorkInv
<1>2. \A n \in Range(work[c]) : ChatOf[n] = c
  BY DEF WorkInv
<1> QED BY <1>1, <1>2 DEF InWork

\* A step about a message that is in no worker's hands.
LEMMA FirstLaunchAside ==
  ASSUME FirstLaunchInv, WorkInv, faults["crashes"] = 0, SendAssumption,
         UNCHANGED <<hydrated, work, stage>>, NEW m \in Msgs, ~InWork(m),
         \A n \in Msgs : n # m => outbox'[n] = outbox[n] /\ bubble'[n] = bubble[n],
         outbox'[m] \in {"due", "parked"} => bubble'[m] = {"sending"},
         outbox'[m] # "dead"
  PROVE  FirstLaunchInv'
<1>1. WorkInv' /\ \A n \in Msgs : InWork(n)' <=> InWork(n)
  BY DEF WorkInv, InWork
<1>2. \A c \in Chats : work'[c] # << >> => work'[c] = work[c] /\ stage'[c] = stage[c]
                                           /\ Head(work[c]) # m
  BY NotHead
<1>3. \A n \in Msgs : Dispatching(ChatOf[n], "dead", n) => Dispatching(ChatOf[n], "dead", n)'
  BY DEF Dispatching
<1> QED BY <1>1, <1>2, <1>3, FirstLaunchKeeps

LEMMA FirstLaunchStep ==
  ASSUME Types, RowsInv, WorkInv, FreshInv, PendingInv, FirstLaunchInv, SendAssumption,
         [Next]_vars
  PROVE  FirstLaunchInv'
<1>1. SUFFICES ASSUME faults'["crashes"] = 0
               PROVE  FirstLaunchInv'
  BY DEF FirstLaunchInv
<1>2. faults["crashes"] = 0 /\ ~Crash
  BY <1>1, CrashCount, CrashIsCounted
<1>3. /\ hydrated = TRUE
      /\ \A m \in Msgs :
           /\ outbox[m] \in {"due", "parked"} \/ InWork(m) => bubble[m] = {"sending"}
           /\ outbox[m] = "dead" => bubble[m] = {"failed"} \/ Dispatching(ChatOf[m], "dead", m)
           /\ InWork(m) => outbox[m] # "parked"
      /\ \A c \in Chats : work[c] # << >> =>
           /\ stage[c] = "dead" => outbox[Head(work[c])] = "dead"
           /\ stage[c] = "sent" => outbox[Head(work[c])] = "none"
  BY <1>2, Zenon DEF FirstLaunchInv
<1>4. WorkInv'
  BY WorkStep
<1>5. CASE UNCHANGED <<outbox, bubble, hydrated, work, stage>>
  BY <1>2, <1>5 DEF FirstLaunchInv, InWork, Dispatching
<1>6. ASSUME NEW m \in Msgs, Compose(m)
      PROVE  FirstLaunchInv'
  <2>1. outbox[m] = "none" /\ ~InWork(m)
    BY <1>6 DEF Compose, FreshInv, Untouched
  <2>2. \A n \in Msgs : outbox'[n] = outbox[n] /\ (n # m => bubble'[n] = bubble[n])
    BY <1>6 DEF Compose, disk, Types
  <2>3. UNCHANGED <<hydrated, work, stage>>
    BY <1>6 DEF Compose
  <2> QED BY <1>2, <2>1, <2>2, <2>3, FirstLaunchAside
<1>7. CASE Enqueue
  <2>1. PICK m \in Msgs :
          m = Head(enqueueing) /\ outbox[m] = "none" /\ ~InWork(m) /\ bubble[m] = {"sending"}
    BY <1>7, TailList DEF Enqueue, Types, FreshInv, Untouched
  <2>2. bubble' = bubble /\ outbox'[m] = "due" /\ \A n \in Msgs : n # m => outbox'[n] = outbox[n]
    BY <1>7, <2>1 DEF Enqueue, Types
  <2>3. UNCHANGED <<hydrated, work, stage>>
    BY <1>7 DEF Enqueue
  <2> QED BY <1>2, <2>1, <2>2, <2>3, FirstLaunchAside
<1>8. CASE EnqueueFails
  <2>1. PICK m \in Msgs : m = Head(enqueueing) /\ outbox[m] = "none" /\ ~InWork(m)
    BY <1>8, TailList DEF EnqueueFails, Types, FreshInv, Untouched
  <2>2. outbox' = outbox /\ \A n \in Msgs : n # m => bubble'[n] = bubble[n]
    BY <1>8, <2>1 DEF EnqueueFails, Types
  <2>3. UNCHANGED <<hydrated, work, stage>>
    BY <1>8 DEF EnqueueFails
  <2> QED BY <1>2, <2>1, <2>2, <2>3, FirstLaunchAside
<1>9. ASSUME NEW m \in Msgs, "failed" \in bubble[m]
      PROVE  ~InWork(m) /\ outbox[m] \in {"none", "dead"}
             /\ (outbox[m] = "dead" => bubble[m] = {"failed"})
  <2>1. ~InWork(m) /\ outbox[m] \notin {"due", "parked"}
    BY <1>3, <1>9
  <2>2. ~Dispatching(ChatOf[m], "dead", m)
    BY <2>1, HeadInWork DEF SendAssumption
  <2>3. outbox[m] \in RowState
    BY DEF Types
  <2> QED BY <1>3, <2>1, <2>2, <2>3 DEF RowState
<1>10. ASSUME NEW m \in Msgs, Retry(m)
       PROVE  FirstLaunchInv'
  <2>1. ~InWork(m) /\ outbox[m] \in {"none", "dead"} /\ (outbox[m] = "dead" => bubble[m] = {"failed"})
    BY <1>9, <1>10 DEF Retry
  <2>2. /\ bubble'[m] = RetriedBubble(bubble[m])
        /\ outbox'[m] = (IF outbox[m] = "none" THEN "none" ELSE "due")
        /\ \A n \in Msgs : n # m => outbox'[n] = outbox[n] /\ bubble'[n] = bubble[n]
    BY <1>10 DEF Retry, Types
  <2>3. outbox'[m] = "due" => bubble'[m] = {"sending"}
    BY <2>1, <2>2 DEF RetriedBubble, Local
  <2>4. UNCHANGED <<hydrated, work, stage>>
    BY <1>10 DEF Retry
  <2>5. outbox'[m] # "dead" /\ outbox'[m] # "parked"
    BY <2>2
  <2> QED BY <1>2, <2>1, <2>2, <2>3, <2>4, <2>5, FirstLaunchAside
<1>11. ASSUME NEW m \in Msgs, Delete(m)
       PROVE  FirstLaunchInv'
  <2>1. ~InWork(m)
    BY <1>9, <1>11 DEF Delete
  <2>2. /\ outbox'[m] = "none"
        /\ \A n \in Msgs : n # m => outbox'[n] = outbox[n] /\ bubble'[n] = bubble[n]
    BY <1>11 DEF Delete, Types
  <2>3. UNCHANGED <<hydrated, work, stage>>
    BY <1>11 DEF Delete
  <2> QED BY <1>2, <2>1, <2>2, <2>3, FirstLaunchAside
<1>12. ASSUME NEW m \in Msgs, Elapse(m)
       PROVE  FirstLaunchInv'
  <2>1. ~InWork(m) /\ bubble[m] = {"sending"}
    BY <1>3, <1>12 DEF Elapse
  <2>2. /\ outbox'[m] = "due" /\ bubble' = bubble
        /\ \A n \in Msgs : n # m => outbox'[n] = outbox[n]
    BY <1>12 DEF Elapse, Types, app
  <2>3. UNCHANGED <<hydrated, work, stage>>
    BY <1>12 DEF Elapse, app
  <2> QED BY <1>2, <2>1, <2>2, <2>3, FirstLaunchAside
<1>13. ASSUME NEW m \in Msgs, AckIn(m)
       PROVE  FirstLaunchInv'
  <2>1. UNCHANGED <<outbox, bubble, hydrated, work>>
    BY <1>13 DEF AckIn, disk
  <2>2. ChatOf[m] \in Chats
    BY DEF SendAssumption
  <2>3. CASE stage' = stage
    BY <1>5, <2>1, <2>3
  <2>4. CASE stage' # stage
    <3>1. StillPending(m) /\ stage' = [stage EXCEPT ![ChatOf[m]] = "acked"]
      BY <1>13, <2>4 DEF AckIn, Types
    <3>2. stage[ChatOf[m]] = "await"
      BY <3>1 DEF StillPending, PendingInv
    <3>3. stage'[ChatOf[m]] = "acked" /\ \A c \in Chats : c # ChatOf[m] => stage'[c] = stage[c]
      BY <2>2, <3>1 DEF Types
    <3>4. \A n \in Msgs : InWork(n)' <=> InWork(n)
      BY <2>1 DEF InWork
    <3>5. \A n \in Msgs : Dispatching(ChatOf[n], "dead", n) => Dispatching(ChatOf[n], "dead", n)'
      BY <2>1, <3>2, <3>3 DEF Dispatching, SendAssumption
    <3>6. \A c \in Chats : work'[c] = work[c]
                           /\ (stage'[c] = stage[c] \/ stage'[c] \in {"send", "await", "acked"})
      BY <2>1, <3>3
    <3> QED BY <1>2, <1>3, <1>4, <2>1, <3>4, <3>5, <3>6, FirstLaunchKeeps
  <2> QED BY <2>3, <2>4
<1>14. CASE Hydrate
  <2>1. FALSE
    BY <1>3, <1>14, Zenon DEF Hydrate
  <2> QED BY <2>1
<1>15. CASE Tick
  <2>1. UNCHANGED <<outbox, bubble, hydrated>>
    BY <1>15 DEF Tick, disk
  <2>2. \A c \in Chats : work[c] = << >> /\ stage'[c] = "send"
    BY <1>15, TickTakes
  <2>3. \A m \in Msgs : InWork(m)' => outbox[m] = "due"
    BY <1>15, TickTakes DEF InWork, SendAssumption
  <2>4. \A m \in Msgs : ~Dispatching(ChatOf[m], "dead", m)
    BY <2>2 DEF Dispatching, SendAssumption
  <2>5. hydrated' = TRUE
    BY <1>3, <2>1, Zenon
  <2>6. \A m \in Msgs :
          /\ outbox'[m] \in {"due", "parked"} \/ InWork(m)' => bubble'[m] = {"sending"}
          /\ outbox'[m] = "dead" => bubble'[m] = {"failed"}
          /\ InWork(m)' => outbox'[m] # "parked"
    BY <1>3, <2>1, <2>3, <2>4
  <2> QED BY <2>2, <2>5, <2>6 DEF FirstLaunchInv
<1>16. ASSUME NEW c \in Chats, NEW m \in Msgs, NEW where, Dispatching(c, where, m),
              \A d \in Chats : d # c => work'[d] = work[d] /\ stage'[d] = stage[d]
       PROVE  /\ \A n \in Msgs : n # m /\ Dispatching(ChatOf[n], "dead", n) =>
                   Dispatching(ChatOf[n], "dead", n)'
              /\ \A d \in Chats : work'[d] # << >> /\ d # c =>
                   work'[d] = work[d] /\ stage'[d] = stage[d] /\ Head(work[d]) # m
  <2>1. /\ InWork(m) /\ ChatOf[m] = c /\ m \in Range(work[c])
        /\ work[c] # << >> /\ Head(work[c]) = m /\ stage[c] = where
    BY <1>16, HeadInWork
  <2>2. ASSUME NEW n \in Msgs, n # m, Dispatching(ChatOf[n], "dead", n)
        PROVE  Dispatching(ChatOf[n], "dead", n)'
    <3>1. ChatOf[n] \in Chats /\ ChatOf[n] # c
      BY <2>1, <2>2 DEF Dispatching, SendAssumption
    <3> QED BY <1>16, <2>2, <3>1 DEF Dispatching
  <2>3. ASSUME NEW d \in Chats, work'[d] # << >>, d # c
        PROVE  work'[d] = work[d] /\ stage'[d] = stage[d] /\ Head(work[d]) # m
    <3>1. work'[d] = work[d] /\ stage'[d] = stage[d]
      BY <1>16, <2>3
    <3>2. Head(work[d]) \in Range(work[d])
      BY <2>3, <3>1, TailList DEF WorkInv
    <3>3. ChatOf[Head(work[d])] = d
      BY <3>2 DEF WorkInv
    <3> QED BY <2>1, <2>3, <3>1, <3>3
  <2> QED BY <2>2, <2>3
<1>17. ASSUME NEW c \in Chats, NextRow(c), NEW m \in Msgs, NEW where, Dispatching(c, where, m)
       PROVE  /\ \A d \in Chats : d # c => work'[d] = work[d] /\ stage'[d] = stage[d]
              /\ stage'[c] = "send" /\ ~InWork(m)'
              /\ \A n \in Msgs : InWork(n)' => InWork(n)
  <2>1. ChatOf[m] = c /\ work[c] # << >> /\ Head(work[c]) = m
    BY <1>17, HeadInWork
  <2>2. work' = [work EXCEPT ![c] = Tail(@)] /\ stage' = [stage EXCEPT ![c] = "send"]
    BY <1>17 DEF NextRow
  <2>3. stage'[c] = "send" /\ \A d \in Chats : d # c => stage'[d] = stage[d]
    BY <2>2 DEF Types
  <2> QED BY <2>1, <2>2, <2>3, NextRowTakes
<1>18. ASSUME NEW c \in Chats, Transmit(c)
       PROVE  FirstLaunchInv'
  <2>1. PICK m \in Msgs : Dispatching(c, "send", m)
    BY <1>18 DEF Transmit
  <2>2. UNCHANGED <<outbox, bubble, hydrated, work>> /\ stage' = [stage EXCEPT ![c] = "await"]
    BY <1>18 DEF Transmit, disk
  <2>3. stage'[c] = "await" /\ \A d \in Chats : d # c => work'[d] = work[d] /\ stage'[d] = stage[d]
    BY <2>2 DEF Types
  <2>4. \A n \in Msgs : InWork(n)' <=> InWork(n)
    BY <2>2 DEF InWork
  <2>5. ~Dispatching(ChatOf[m], "dead", m)
    BY <2>1 DEF Dispatching
  <2>6. \A d \in Chats : work'[d] # << >> =>
          \/ work'[d] = work[d] /\ stage'[d] = stage[d] /\ Head(work[d]) # m
          \/ stage'[d] \in {"send", "await", "acked"}
    BY <1>16, <2>1, <2>3
  <2>7. \A n \in Msgs : n # m /\ Dispatching(ChatOf[n], "dead", n) =>
          Dispatching(ChatOf[n], "dead", n)'
    BY <1>16, <2>1, <2>3
  <2> QED BY <1>2, <1>3, <1>4, <2>2, <2>4, <2>5, <2>6, <2>7, FirstLaunchKeeps
<1>19. ASSUME NEW c \in Chats, SendFails(c)
       PROVE  FirstLaunchInv'
  <2>1. PICK m \in Msgs, state \in {"dead", "parked"} :
          /\ Dispatching(c, "send", m)
          /\ outbox' = [outbox EXCEPT ![m] = state]
          /\ \/ state = "dead" /\ stage' = [stage EXCEPT ![c] = "dead"] /\ UNCHANGED work
             \/ state = "parked" /\ NextRow(c)
    BY <1>19 DEF SendFails
  <2>2. UNCHANGED <<bubble, hydrated>>
    BY <1>19 DEF SendFails
  <2>3. outbox'[m] = state /\ \A n \in Msgs : n # m => outbox'[n] = outbox[n]
    BY <2>1 DEF Types
  <2>4. InWork(m) /\ ChatOf[m] = c /\ Head(work[c]) = m /\ work[c] # << >> /\ bubble[m] = {"sending"}
    BY <1>3, <2>1, HeadInWork
  <2>5. CASE state = "dead" /\ stage' = [stage EXCEPT ![c] = "dead"] /\ UNCHANGED work
    <3>1. stage'[c] = "dead" /\ \A d \in Chats : d # c => work'[d] = work[d] /\ stage'[d] = stage[d]
      BY <2>5 DEF Types
    <3>2. Dispatching(ChatOf[m], "dead", m)'
      BY <2>4, <2>5, <3>1 DEF Dispatching
    <3>3. \A n \in Msgs : InWork(n)' <=> InWork(n)
      BY <2>5 DEF InWork
    <3>4. \A d \in Chats : work'[d] # << >> =>
            \/ work'[d] = work[d] /\ stage'[d] = stage[d] /\ Head(work[d]) # m
            \/ stage'[d] = "dead" /\ outbox'[Head(work'[d])] = "dead"
      BY <1>16, <2>1, <2>3, <2>4, <2>5, <3>1
    <3>5. \A n \in Msgs : n # m /\ Dispatching(ChatOf[n], "dead", n) =>
            Dispatching(ChatOf[n], "dead", n)'
      BY <1>16, <2>1, <3>1
    <3>6. outbox'[m] = "dead" /\ bubble' = bubble
      BY <2>2, <2>3, <2>5
    <3> QED BY <1>2, <1>4, <2>2, <2>3, <2>4, <3>2, <3>3, <3>4, <3>5, <3>6, FirstLaunchKeeps
  <2>6. CASE state = "parked" /\ NextRow(c)
    <3>1. /\ \A d \in Chats : d # c => work'[d] = work[d] /\ stage'[d] = stage[d]
          /\ stage'[c] = "send" /\ ~InWork(m)' /\ \A n \in Msgs : InWork(n)' => InWork(n)
      BY <1>17, <2>1, <2>6
    <3>2. \A d \in Chats : work'[d] # << >> =>
            \/ work'[d] = work[d] /\ stage'[d] = stage[d] /\ Head(work[d]) # m
            \/ stage'[d] \in {"send", "await", "acked"}
      BY <1>16, <2>1, <3>1
    <3>3. \A n \in Msgs : n # m /\ Dispatching(ChatOf[n], "dead", n) =>
            Dispatching(ChatOf[n], "dead", n)'
      BY <1>16, <2>1, <3>1
    <3>4. outbox'[m] = "parked"
      BY <2>3, <2>6
    <3> QED BY <1>2, <1>4, <2>2, <2>3, <2>4, <3>1, <3>2, <3>3, <3>4, FirstLaunchKeeps
  <2> QED BY <2>1, <2>5, <2>6
<1>20. ASSUME NEW c \in Chats, MarkSent(c)
       PROVE  FirstLaunchInv'
  <2>1. PICK m \in Msgs : Dispatching(c, "acked", m) /\ outbox' = [outbox EXCEPT ![m] = "none"]
    BY <1>20 DEF MarkSent
  <2>2. UNCHANGED <<bubble, hydrated, work>> /\ stage' = [stage EXCEPT ![c] = "sent"]
    BY <1>20 DEF MarkSent
  <2>3. outbox'[m] = "none" /\ \A n \in Msgs : n # m => outbox'[n] = outbox[n]
    BY <2>1 DEF Types
  <2>4. InWork(m) /\ Head(work[c]) = m /\ bubble[m] = {"sending"}
    BY <1>3, <2>1, HeadInWork
  <2>5. stage'[c] = "sent" /\ \A d \in Chats : d # c => work'[d] = work[d] /\ stage'[d] = stage[d]
    BY <2>2 DEF Types
  <2>6. \A n \in Msgs : InWork(n)' <=> InWork(n)
    BY <2>2 DEF InWork
  <2>7. \A d \in Chats : work'[d] # << >> =>
          \/ work'[d] = work[d] /\ stage'[d] = stage[d] /\ Head(work[d]) # m
          \/ stage'[d] = "sent" /\ outbox'[Head(work'[d])] = "none"
    BY <1>16, <2>1, <2>2, <2>3, <2>4, <2>5
  <2>8. \A n \in Msgs : n # m /\ Dispatching(ChatOf[n], "dead", n) =>
          Dispatching(ChatOf[n], "dead", n)'
    BY <1>16, <2>1, <2>5
  <2> QED BY <1>2, <1>4, <2>2, <2>3, <2>4, <2>6, <2>7, <2>8, FirstLaunchKeeps
<1>21. ASSUME NEW c \in Chats, ShowFailed(c) \/ Confirm(c)
       PROVE  FirstLaunchInv'
  <2>1. PICK m \in Msgs, where \in {"dead", "sent"} :
          /\ Dispatching(c, where, m) /\ NextRow(c)
          /\ \/ where = "dead" /\ bubble' = [bubble EXCEPT ![m] = FailedBubble(@)]
             \/ where = "sent" /\ bubble' = [bubble EXCEPT ![m] = ConfirmedBubble(@)]
    BY <1>21 DEF ShowFailed, Confirm
  <2>2. UNCHANGED <<outbox, hydrated>>
    BY <1>21 DEF ShowFailed, Confirm
  <2>3. /\ InWork(m) /\ Head(work[c]) = m /\ work[c] # << >> /\ bubble[m] = {"sending"}
        /\ stage[c] = where
    BY <1>3, <2>1, HeadInWork
  <2>4. (where = "dead" => outbox[m] = "dead") /\ (where = "sent" => outbox[m] = "none")
    BY <1>3, <2>3
  <2>5. /\ \A d \in Chats : d # c => work'[d] = work[d] /\ stage'[d] = stage[d]
        /\ stage'[c] = "send" /\ ~InWork(m)' /\ \A n \in Msgs : InWork(n)' => InWork(n)
    BY <1>17, <2>1
  <2>6. \A n \in Msgs : n # m => bubble'[n] = bubble[n]
    BY <2>1 DEF Types
  <2>7. where = "dead" => bubble'[m] = {"failed"}
    <3>1. where = "dead" => bubble'[m] = FailedBubble(bubble[m])
      BY <2>1 DEF Types
    <3>2. FailedBubble({"sending"}) = {"failed"}
      BY DEF FailedBubble, Local
    <3> QED BY <2>3, <3>1, <3>2
  <2>8. \A d \in Chats : work'[d] # << >> =>
          \/ work'[d] = work[d] /\ stage'[d] = stage[d] /\ Head(work[d]) # m
          \/ stage'[d] \in {"send", "await", "acked"}
    BY <1>16, <2>1, <2>5
  <2>9. \A n \in Msgs : n # m /\ Dispatching(ChatOf[n], "dead", n) =>
          Dispatching(ChatOf[n], "dead", n)'
    BY <1>16, <2>1, <2>5
  <2>10. outbox'[m] \notin {"due", "parked"} /\ (outbox'[m] = "dead" => bubble'[m] = {"failed"})
    BY <2>1, <2>2, <2>4, <2>7
  <2> QED BY <1>2, <1>4, <2>2, <2>5, <2>6, <2>8, <2>9, <2>10, FirstLaunchKeeps
<1>22. \/ \E m \in Msgs : Compose(m) \/ Retry(m) \/ Delete(m) \/ Elapse(m) \/ AckIn(m)
       \/ Enqueue \/ EnqueueFails \/ Hydrate \/ Tick
       \/ \E c \in Chats : Transmit(c) \/ SendFails(c) \/ MarkSent(c)
       \/ \E c \in Chats : ShowFailed(c) \/ Confirm(c)
       \/ UNCHANGED <<outbox, bubble, hydrated, work, stage>>
  BY <1>2 DEF Next, vars, disk, app, Dispatch, Open, Hello, Drop, Deliver, Reject, Refuse, Persist,
              AckOut, AckLost, Snapshot
<1> QED BY <1>5, <1>6, <1>7, <1>8, <1>10, <1>11, <1>12, <1>13, <1>14, <1>15, <1>18, <1>19,
           <1>20, <1>21, <1>22

-----------------------------------------------------------------------------
\* Generations

LEMMA GenerationStep ==
  ASSUME Types, PendingInv, GenerationInv, SendAssumption, [Next]_vars
  PROVE  GenerationInv'
<1> DEFINE Launch == faults["crashes"]
           Chat(p) == ChatOf[p.msg]
<1>1. /\ wire \in Seq(Payload) /\ arrived \in Seq(Arrival)
      /\ Len(wire) \in Nat /\ Len(arrived) \in Nat
      /\ DOMAIN wire = 1 .. Len(wire) /\ DOMAIN arrived = 1 .. Len(arrived)
      /\ \A i \in DOMAIN wire :
           wire[i].gen \in Nat /\ wire[i].launch \in Nat /\ Chat(wire[i]) \in Chats
      /\ \A i \in DOMAIN arrived :
           arrived[i].gen \in Nat /\ arrived[i].launch \in Nat /\ Chat(arrived[i]) \in Chats
  <2>1. wire \in Seq(Payload) /\ arrived \in Seq(Arrival)
    BY DEF Types
  <2>2. \A i \in DOMAIN wire :
           wire[i].gen \in Nat /\ wire[i].launch \in Nat /\ wire[i].msg \in Msgs
    <3>1. \A i \in DOMAIN wire : wire[i] \in Payload
      BY <2>1
    <3> QED BY <3>1 DEF Payload
  <2>3. \A i \in DOMAIN arrived :
           arrived[i].gen \in Nat /\ arrived[i].launch \in Nat /\ arrived[i].msg \in Msgs
    <3>1. \A i \in DOMAIN arrived : arrived[i] \in Arrival
      BY <2>1
    <3> QED BY <3>1 DEF Arrival
  <2> QED BY <2>1, <2>2, <2>3 DEF SendAssumption
<1>2. \A p \in pending :
        p.gen \in Nat /\ Chat(p) \in Chats /\ p.launch = Launch /\ p.gen = engine[Chat(p)]
  <2>1. \A p \in pending : p.gen \in Nat /\ p.msg \in Msgs
    BY DEF Types, Payload
  <2> QED BY <2>1 DEF SendAssumption, GenerationInv
<1>3. \A i \in DOMAIN wire : wire[i].launch = Launch /\ wire[i].gen <= engine[Chat(wire[i])]
  BY DEF GenerationInv
<1>4. \A i \in DOMAIN arrived :
        /\ arrived[i].launch <= Launch
        /\ arrived[i].launch = Launch => arrived[i].gen <= engine[Chat(arrived[i])]
  BY DEF GenerationInv
<1>5. \A i, j \in DOMAIN wire :
        i < j /\ Chat(wire[i]) = Chat(wire[j]) => wire[i].gen <= wire[j].gen
  BY DEF GenerationInv
<1>6. \A i \in DOMAIN arrived, j \in DOMAIN wire :
        arrived[i].launch = wire[j].launch /\ Chat(arrived[i]) = Chat(wire[j]) =>
          arrived[i].gen <= wire[j].gen
  BY DEF GenerationInv
<1>7. \A i, j \in DOMAIN arrived :
        i < j /\ Chat(arrived[i]) = Chat(arrived[j]) /\ arrived[i].launch = arrived[j].launch =>
          arrived[i].gen <= arrived[j].gen
  BY DEF GenerationInv, GenerationOrder
<1>8. Launch \in Nat /\ \A c \in Chats : engine[c] \in Nat
  BY DEF Types, Kinds
<1>9. ASSUME UNCHANGED <<wire, arrived, engine>>, pending' \subseteq pending, Launch' = Launch
      PROVE  GenerationInv'
  BY <1>9 DEF GenerationInv, GenerationOrder
<1>10. ASSUME NEW c \in Chats, Transmit(c)
       PROVE  GenerationInv'
  <2>1. PICK m \in Msgs, p \in {[msg |-> n, gen |-> engine[c] + 1, launch |-> Launch] :
                                n \in Msgs} :
          /\ p.msg = m /\ p.gen = engine[c] + 1 /\ p.launch = Launch
          /\ Dispatching(c, "send", m)
          /\ pending' = pending \cup {p}
          /\ wire' = IF conn = "closed" THEN wire ELSE Append(wire, p)
    BY <1>10 DEF Transmit
  <2>2. /\ arrived' = arrived /\ Launch' = Launch
        /\ engine' = [engine EXCEPT ![c] = @ + 1]
    BY <1>10 DEF Transmit, history
  <2>3. Chat(p) = c /\ \A q \in pending : Chat(q) # c
    BY <2>1 DEF PendingInv, Dispatching
  <2>4. engine'[c] = engine[c] + 1 /\ \A d \in Chats : d # c => engine'[d] = engine[d]
    BY <2>2 DEF Types
  <2>5. \A d \in Chats : engine[d] <= engine'[d]
    BY <1>8, <2>4
  <2>6. \A q \in pending' : q.launch = Launch /\ q.gen = engine'[Chat(q)]
    BY <1>2, <2>1, <2>3, <2>4
  <2>7. \A i \in DOMAIN arrived :
          arrived[i].launch = Launch => arrived[i].gen <= engine'[Chat(arrived[i])]
    <3> SUFFICES ASSUME NEW i \in DOMAIN arrived, arrived[i].launch = Launch
                 PROVE  arrived[i].gen <= engine'[Chat(arrived[i])]
      OBVIOUS
    <3>1. Chat(arrived[i]) \in Chats /\ arrived[i].gen \in Nat
          /\ arrived[i].gen <= engine[Chat(arrived[i])]
      BY <1>1, <1>4
    <3>2. CASE Chat(arrived[i]) = c
      BY <1>8, <2>4, <3>1, <3>2
    <3>3. CASE Chat(arrived[i]) # c
      BY <1>8, <2>4, <3>1, <3>3
    <3> QED BY <3>2, <3>3
  <2>8. \A i \in DOMAIN wire : wire[i].gen <= engine'[Chat(wire[i])]
    <3> SUFFICES ASSUME NEW i \in DOMAIN wire PROVE wire[i].gen <= engine'[Chat(wire[i])]
      OBVIOUS
    <3>1. Chat(wire[i]) \in Chats /\ wire[i].gen \in Nat /\ wire[i].gen <= engine[Chat(wire[i])]
      BY <1>1, <1>3
    <3>2. CASE Chat(wire[i]) = c
      BY <1>8, <2>4, <3>1, <3>2
    <3>3. CASE Chat(wire[i]) # c
      BY <1>8, <2>4, <3>1, <3>3
    <3> QED BY <3>2, <3>3
  <2>9. CASE wire' = wire
    BY <1>3, <1>4, <1>5, <1>6, <1>7, <2>2, <2>6, <2>7, <2>8, <2>9
       DEF GenerationInv, GenerationOrder
  <2>10. CASE wire' = Append(wire, p)
    <3>1. /\ DOMAIN wire' = 1 .. Len(wire) + 1
          /\ \A i \in DOMAIN wire : wire'[i] = wire[i]
          /\ wire'[Len(wire) + 1] = p
          /\ \A i \in DOMAIN wire' : i \in DOMAIN wire \/ i = Len(wire) + 1
      BY <1>1, <2>10
    <3>2. \A i \in DOMAIN wire' : wire'[i].launch = Launch /\ wire'[i].gen <= engine'[Chat(wire'[i])]
      <4>1. p.gen <= engine'[Chat(p)]
        BY <1>8, <2>1, <2>3, <2>4
      <4> QED BY <1>3, <2>1, <2>8, <3>1, <4>1
    <3>3. \A i \in DOMAIN wire : Chat(wire[i]) = c => wire[i].gen <= p.gen
      BY <1>1, <1>3, <1>8, <2>1
    <3>4. \A i, j \in DOMAIN wire' :
            i < j /\ Chat(wire'[i]) = Chat(wire'[j]) => wire'[i].gen <= wire'[j].gen
      <4> SUFFICES ASSUME NEW i \in DOMAIN wire', NEW j \in DOMAIN wire', i < j,
                          Chat(wire'[i]) = Chat(wire'[j])
                   PROVE  wire'[i].gen <= wire'[j].gen
        OBVIOUS
      <4>1. i \in DOMAIN wire
        BY <1>1, <3>1
      <4>2. CASE j \in DOMAIN wire
        BY <1>5, <3>1, <4>1, <4>2
      <4>3. CASE j = Len(wire) + 1
        BY <2>3, <3>1, <3>3, <4>1, <4>3
      <4> QED BY <3>1, <4>2, <4>3
    <3>5. \A i \in DOMAIN arrived, j \in DOMAIN wire' :
            arrived[i].launch = wire'[j].launch /\ Chat(arrived[i]) = Chat(wire'[j]) =>
              arrived[i].gen <= wire'[j].gen
      <4>1. \A i \in DOMAIN arrived :
              arrived[i].launch = Launch /\ Chat(arrived[i]) = c => arrived[i].gen <= p.gen
        BY <1>1, <1>4, <1>8, <2>1
      <4> QED BY <1>6, <2>1, <2>3, <3>1, <4>1
    <3> HIDE DEF Chat, Launch
    <3> QED BY <1>4, <1>7, <2>2, <2>6, <2>7, <3>2, <3>4, <3>5
            DEF GenerationInv, GenerationOrder, Chat, Launch
  <2> QED BY <2>1, <2>9, <2>10
<1>11. CASE Hello
  <2>1. PICK frames \in Orders(pending) : wire' = wire \o frames
    BY <1>11 DEF Hello, Replayed
  <2>2. UNCHANGED <<pending, arrived, engine>> /\ Launch' = Launch
    BY <1>11 DEF Hello, history
  <2>3. Cardinality(pending) \in Nat /\ frames \in [1 .. Cardinality(pending) -> pending]
    BY <2>1, FS_CardinalityType DEF Types, Orders
  <2>4. frames \in Seq(Payload) /\ Len(frames) \in Nat
        /\ \A i \in 1 .. Len(frames) : frames[i] \in pending
    <3>1. pending \subseteq Payload
      BY DEF Types
    <3>2. frames \in [1 .. Cardinality(pending) -> Payload]
      BY <2>3, <3>1
    <3>3. frames \in Seq(Payload) /\ Len(frames) = Cardinality(pending)
      BY <2>3, <3>2
    <3> QED BY <2>3, <3>3
  <2>5. /\ DOMAIN wire' = 1 .. Len(wire) + Len(frames)
        /\ \A i \in DOMAIN wire : wire'[i] = wire[i]
        /\ \A i \in DOMAIN wire' :
             i \in DOMAIN wire \/ (i > Len(wire) /\ wire'[i] \in pending)
    <3>1. /\ DOMAIN wire' = 1 .. Len(wire) + Len(frames)
          /\ \A i \in DOMAIN wire' :
               wire'[i] = IF i <= Len(wire) THEN wire[i] ELSE frames[i - Len(wire)]
      BY <1>1, <2>1, <2>4
    <3>2. \A i \in DOMAIN wire' : i > Len(wire) => i - Len(wire) \in 1 .. Len(frames)
      BY <1>1, <2>4, <3>1
    <3>3. \A i \in DOMAIN wire : i \in DOMAIN wire' /\ i <= Len(wire)
      BY <1>1, <2>4, <3>1
    <3>4. \A i \in DOMAIN wire' : i \in DOMAIN wire \/ (i > Len(wire) /\ ~(i <= Len(wire)))
      BY <1>1, <2>4, <3>1
    <3>5. \A i \in DOMAIN wire : wire'[i] = wire[i]
      BY <3>1, <3>3
    <3>6. \A i \in DOMAIN wire' : i \in DOMAIN wire \/ (i > Len(wire) /\ wire'[i] \in pending)
      BY <2>4, <3>1, <3>2, <3>4
    <3> QED BY <3>1, <3>5, <3>6
  <2>6. \A i \in DOMAIN wire' : wire'[i].launch = Launch /\ wire'[i].gen <= engine[Chat(wire'[i])]
    BY <1>2, <1>3, <1>8, <2>5
  <2>7. \A i, j \in DOMAIN wire' :
          i < j /\ Chat(wire'[i]) = Chat(wire'[j]) => wire'[i].gen <= wire'[j].gen
    <3> SUFFICES ASSUME NEW i \in DOMAIN wire', NEW j \in DOMAIN wire', i < j,
                        Chat(wire'[i]) = Chat(wire'[j])
                 PROVE  wire'[i].gen <= wire'[j].gen
      OBVIOUS
    <3>1. CASE j \in DOMAIN wire
      <4>1. i \in DOMAIN wire
        BY <1>1, <2>5, <3>1
      <4> QED BY <1>5, <2>5, <3>1, <4>1
    <3>2. CASE wire'[j] \in pending
      BY <1>2, <2>6, <3>2
    <3> QED BY <2>5, <3>1, <3>2
  <2>8. \A i \in DOMAIN arrived, j \in DOMAIN wire' :
          arrived[i].launch = wire'[j].launch /\ Chat(arrived[i]) = Chat(wire'[j]) =>
            arrived[i].gen <= wire'[j].gen
    <3> SUFFICES ASSUME NEW i \in DOMAIN arrived, NEW j \in DOMAIN wire',
                        arrived[i].launch = wire'[j].launch, Chat(arrived[i]) = Chat(wire'[j])
                 PROVE  arrived[i].gen <= wire'[j].gen
      OBVIOUS
    <3>1. CASE j \in DOMAIN wire
      BY <1>6, <2>5, <3>1
    <3>2. CASE wire'[j] \in pending
      BY <1>2, <1>4, <3>2
    <3> QED BY <2>5, <3>1, <3>2
  <2> HIDE DEF Chat, Launch
  <2> QED BY <1>2, <1>4, <1>7, <2>2, <2>6, <2>7, <2>8
          DEF GenerationInv, GenerationOrder, Chat, Launch
<1>12. CASE Drop
  <2>1. wire' = << >> /\ UNCHANGED <<pending, arrived, engine>>
    BY <1>12 DEF Drop
  <2>2. Launch' = Launch
    BY <1>12, OtherFault DEF Drop, Kinds
  <2>3. DOMAIN wire' = {}
    BY <2>1
  <2> QED BY <1>2, <1>4, <1>7, <2>1, <2>2, <2>3 DEF GenerationInv, GenerationOrder
<1>13. ASSUME wire # << >>, wire' = Tail(wire)
       PROVE  /\ DOMAIN wire' = 1 .. Len(wire) - 1
              /\ \A i \in DOMAIN wire' : wire'[i] = wire[i + 1] /\ i + 1 \in DOMAIN wire
              /\ Head(wire) = wire[1] /\ 1 \in DOMAIN wire
              /\ \A i \in DOMAIN wire' : i \in Nat /\ 1 < i + 1
  <2>1. Len(wire) > 0
    BY <1>1, <1>13
  <2>2. Len(wire') = Len(wire) - 1 /\ DOMAIN wire' = 1 .. Len(wire')
        /\ \A i \in 1 .. Len(wire') : wire'[i] = wire[i + 1]
    BY <1>1, <1>13
  <2> QED BY <1>1, <2>1, <2>2
<1>14. CASE Deliver
  <2>1. /\ wire # << >> /\ wire' = Tail(wire)
        /\ UNCHANGED <<pending, engine>> /\ Launch' = Launch
    BY <1>14 DEF Deliver, app, history
  <2>2. PICK a : /\ arrived' = Append(arrived, a)
                 /\ a.msg = Head(wire).msg /\ a.gen = Head(wire).gen
                 /\ a.launch = Head(wire).launch
    BY <1>14 DEF Deliver
  <2>3. a.msg = wire[1].msg /\ a.gen = wire[1].gen /\ a.launch = wire[1].launch
        /\ 1 \in DOMAIN wire
    BY <1>13, <2>1, <2>2
  <2>4. /\ DOMAIN arrived' = 1 .. Len(arrived) + 1
        /\ \A i \in DOMAIN arrived : arrived'[i] = arrived[i]
        /\ arrived'[Len(arrived) + 1] = a
        /\ \A i \in DOMAIN arrived' : i \in DOMAIN arrived \/ i = Len(arrived) + 1
    BY <1>1, <2>2
  <2>5. \A i \in DOMAIN wire' : wire'[i].launch = Launch /\ wire'[i].gen <= engine[Chat(wire'[i])]
    BY <1>3, <1>13, <2>1
  <2>6. \A i \in DOMAIN arrived' :
          /\ arrived'[i].launch <= Launch
          /\ arrived'[i].launch = Launch => arrived'[i].gen <= engine[Chat(arrived'[i])]
    BY <1>3, <1>4, <1>8, <2>3, <2>4
  <2>7. \A i, j \in DOMAIN wire' :
          i < j /\ Chat(wire'[i]) = Chat(wire'[j]) => wire'[i].gen <= wire'[j].gen
    <3> SUFFICES ASSUME NEW i \in DOMAIN wire', NEW j \in DOMAIN wire', i < j,
                        Chat(wire'[i]) = Chat(wire'[j])
                 PROVE  wire'[i].gen <= wire'[j].gen
      OBVIOUS
    <3>1. wire'[i] = wire[i + 1] /\ wire'[j] = wire[j + 1] /\ i + 1 < j + 1
          /\ i + 1 \in DOMAIN wire /\ j + 1 \in DOMAIN wire
      BY <1>13, <2>1
    <3> QED BY <1>5, <3>1
  <2>8. \A i \in DOMAIN arrived', j \in DOMAIN wire' :
          arrived'[i].launch = wire'[j].launch /\ Chat(arrived'[i]) = Chat(wire'[j]) =>
            arrived'[i].gen <= wire'[j].gen
    <3> SUFFICES ASSUME NEW i \in DOMAIN arrived', NEW j \in DOMAIN wire',
                        arrived'[i].launch = wire'[j].launch, Chat(arrived'[i]) = Chat(wire'[j])
                 PROVE  arrived'[i].gen <= wire'[j].gen
      OBVIOUS
    <3>1. wire'[j] = wire[j + 1] /\ j + 1 \in DOMAIN wire /\ 1 < j + 1
      BY <1>13, <2>1
    <3>2. CASE i \in DOMAIN arrived
      BY <1>6, <2>4, <3>1, <3>2
    <3>3. CASE i = Len(arrived) + 1
      BY <1>5, <2>3, <2>4, <3>1, <3>3
    <3> QED BY <2>4, <3>2, <3>3
  <2>9. \A i, j \in DOMAIN arrived' :
          i < j /\ Chat(arrived'[i]) = Chat(arrived'[j])
            /\ arrived'[i].launch = arrived'[j].launch => arrived'[i].gen <= arrived'[j].gen
    <3> SUFFICES ASSUME NEW i \in DOMAIN arrived', NEW j \in DOMAIN arrived', i < j,
                        Chat(arrived'[i]) = Chat(arrived'[j]),
                        arrived'[i].launch = arrived'[j].launch
                 PROVE  arrived'[i].gen <= arrived'[j].gen
      OBVIOUS
    <3>1. i \in DOMAIN arrived
      BY <1>1, <2>4
    <3>2. CASE j \in DOMAIN arrived
      BY <1>7, <2>4, <3>1, <3>2
    <3>3. CASE j = Len(arrived) + 1
      BY <1>6, <2>3, <2>4, <3>1, <3>3
    <3> QED BY <2>4, <3>2, <3>3
  <2> HIDE DEF Chat, Launch
  <2> QED BY <1>2, <2>1, <2>5, <2>6, <2>7, <2>8, <2>9
          DEF GenerationInv, GenerationOrder, Chat, Launch
<1>15. CASE Reject
  <2>1. wire # << >> /\ wire' = Tail(wire) /\ UNCHANGED <<pending, engine, arrived>>
    BY <1>15 DEF Reject, app
  <2>2. Launch' = Launch
    BY <1>15, OtherFault DEF Reject, Kinds
  <2>3. \A i \in DOMAIN wire' : wire'[i].launch = Launch /\ wire'[i].gen <= engine[Chat(wire'[i])]
    BY <1>3, <1>13, <2>1
  <2>4. \A i, j \in DOMAIN wire' :
          i < j /\ Chat(wire'[i]) = Chat(wire'[j]) => wire'[i].gen <= wire'[j].gen
    <3> SUFFICES ASSUME NEW i \in DOMAIN wire', NEW j \in DOMAIN wire', i < j,
                        Chat(wire'[i]) = Chat(wire'[j])
                 PROVE  wire'[i].gen <= wire'[j].gen
      OBVIOUS
    <3>1. wire'[i] = wire[i + 1] /\ wire'[j] = wire[j + 1] /\ i + 1 < j + 1
          /\ i + 1 \in DOMAIN wire /\ j + 1 \in DOMAIN wire
      BY <1>13, <2>1
    <3> QED BY <1>5, <3>1
  <2>5. \A i \in DOMAIN arrived, j \in DOMAIN wire' :
          arrived[i].launch = wire'[j].launch /\ Chat(arrived[i]) = Chat(wire'[j]) =>
            arrived[i].gen <= wire'[j].gen
    BY <1>6, <1>13, <2>1
  <2> HIDE DEF Chat, Launch
  <2> QED BY <1>2, <1>4, <1>7, <2>1, <2>2, <2>3, <2>4, <2>5
          DEF GenerationInv, GenerationOrder, Chat, Launch
<1>16. ASSUME NEW c \in Chats, NEW states, NEW to, Advance(c, states, to)
       PROVE  /\ DOMAIN arrived' = DOMAIN arrived
              /\ \A i \in DOMAIN arrived :
                   /\ arrived'[i].msg = arrived[i].msg
                   /\ arrived'[i].gen = arrived[i].gen
                   /\ arrived'[i].launch = arrived[i].launch
  <2>1. DOMAIN arrived' = DOMAIN arrived
        /\ \A i \in DOMAIN arrived :
             arrived'[i] = [arrived[i] EXCEPT !.state = to] \/ arrived'[i] = arrived[i]
    BY <1>16 DEF Advance
  <2>2. \A i \in DOMAIN arrived : arrived[i] \in Arrival
    BY <1>1
  <2> QED BY <2>1, <2>2 DEF Arrival
<1>17. ASSUME NEW c \in Chats, Refuse(c) \/ Persist(c) \/ AckOut(c) \/ AckLost(c)
       PROVE  GenerationInv'
  <2>1. /\ DOMAIN arrived' = DOMAIN arrived
        /\ \A i \in DOMAIN arrived :
             /\ Chat(arrived'[i]) = Chat(arrived[i])
             /\ arrived'[i].gen = arrived[i].gen
             /\ arrived'[i].launch = arrived[i].launch
    BY <1>16, <1>17 DEF Refuse, Persist, AckOut, AckLost
  <2>2. UNCHANGED <<wire, engine, pending>>
    BY <1>17 DEF Refuse, Persist, AckOut, AckLost, app
  <2>3. Launch' = Launch
    <3>1. Happens("unacked") \/ faults' = faults
      BY <1>17 DEF Refuse, Persist, AckOut, AckLost, history
    <3> QED BY <3>1, OtherFault DEF Kinds
  <2> HIDE DEF Chat, Launch
  <2> QED BY <1>2, <1>3, <1>4, <1>5, <1>6, <1>7, <2>1, <2>2, <2>3
          DEF GenerationInv, GenerationOrder, Chat, Launch
<1>18. CASE Crash
  <2>1. pending' = {} /\ wire' = << >> /\ arrived' = arrived
    BY <1>18 DEF Crash
  <2>2. Launch' = Launch + 1
    BY <1>18, CrashIsCounted
  <2>3. DOMAIN wire' = {}
    BY <2>1
  <2>4. \A i \in DOMAIN arrived : arrived[i].launch < Launch'
    BY <1>1, <1>4, <1>8, <2>2
  <2>5. \A i \in DOMAIN arrived : arrived[i].launch <= Launch' /\ arrived[i].launch # Launch'
    BY <1>1, <1>8, <2>2, <2>4
  <2> QED BY <1>7, <2>1, <2>3, <2>5 DEF GenerationInv, GenerationOrder
<1>19. ASSUME NEW m \in Msgs, AckIn(m)
       PROVE  GenerationInv'
  BY <1>9, <1>19 DEF AckIn, SettledPending, history
<1>20. \/ \E c \in Chats : Transmit(c)
       \/ Hello \/ Drop \/ Deliver \/ Reject \/ Crash
       \/ \E c \in Chats : Refuse(c) \/ Persist(c) \/ AckOut(c) \/ AckLost(c)
       \/ \E m \in Msgs : AckIn(m)
       \/ UNCHANGED <<wire, arrived, engine, pending>>
  BY DEF Next, vars, app, net, Compose, Retry, Delete, Elapse, Enqueue, EnqueueFails, Hydrate,
         Tick, Dispatch, ShowFailed, MarkSent, Confirm, SendFails, Open, Snapshot
<1>21. CASE UNCHANGED <<wire, arrived, engine, pending>>
  BY <1>9, <1>18, <1>21, CrashCount
<1> HIDE DEF Chat, Launch
<1> QED BY <1>10, <1>11, <1>12, <1>14, <1>15, <1>17, <1>18, <1>19, <1>20, <1>21

-----------------------------------------------------------------------------
\* The invariant

\* What no argument but the type invariant needs.
RestTypes ==
  /\ hydrated \in BOOLEAN
  /\ conn \in {"closed", "open", "ready"}
  /\ deleted \subseteq Msgs

LEMMA RestTypesStep == ASSUME RestTypes, [Next]_vars PROVE RestTypes'
<1>1. hydrated' \in BOOLEAN
  <2>1. hydrated' \in {hydrated, TRUE, FALSE}
    BY Zenon
       DEF Next, vars, app, Compose, Retry, Delete, Elapse, AckIn, Enqueue, EnqueueFails, Hydrate,
           Tick, Dispatch, Transmit, ShowFailed, MarkSent, Confirm, SendFails, Open, Hello, Drop,
           Deliver, Reject, Refuse, Persist, AckOut, AckLost, Snapshot, Crash
  <2> QED BY <2>1, Zenon DEF RestTypes
<1>2. conn' \in {conn, "closed", "open", "ready"}
  BY DEF Next, vars, app, Compose, Retry, Delete, Elapse, AckIn, Enqueue, EnqueueFails, Hydrate,
         Tick, Dispatch, Transmit, ShowFailed, MarkSent, Confirm, SendFails, Open, Hello, Drop,
         Deliver, Reject, Refuse, Persist, AckOut, AckLost, Snapshot, Crash
<1>3. deleted' = deleted \/ \E m \in Msgs : deleted' = deleted \cup {m}
  BY DEF Next, vars, history, Compose, Retry, Delete, Elapse, AckIn, Enqueue, EnqueueFails,
         Hydrate, Tick, Dispatch, Transmit, ShowFailed, MarkSent, Confirm, SendFails, Open, Hello,
         Drop, Deliver, Reject, Refuse, Persist, AckOut, AckLost, Snapshot, Crash
<1>4. conn' \in {"closed", "open", "ready"} /\ deleted' \subseteq Msgs
  BY <1>2, <1>3 DEF RestTypes
<1> QED BY <1>1, <1>4, Zenon DEF RestTypes

SendInv ==
  /\ Types /\ RestTypes
  /\ AckInv /\ PendingInv /\ HandInv
  /\ RowsInv /\ WorkInv /\ FreshInv /\ AttemptsInv
  /\ FirstLaunchInv
  /\ GenerationInv
  /\ NothingLost /\ SentIsStored

LEMMA SendInit == Init => SendInv
<1> SUFFICES ASSUME Init PROVE SendInv
  OBVIOUS
<1>1. Types
  BY FS_EmptySet DEF Init, Types, RowState, Stage, Kinds, Payload, Arrival
<1>2. hydrated = TRUE
  BY Zenon DEF Init
<1>3. RestTypes
  <2>1. conn = "closed" /\ deleted = {}
    BY DEF Init
  <2> QED BY <1>2, <2>1, Zenon DEF RestTypes
<1>4. AckInv /\ PendingInv /\ HandInv /\ NothingLost /\ SentIsStored
  BY DEF Init, AckInv, PendingInv, HandInv, NothingLost, SentIsStored
<1>5. << >> \in Seq(Msgs) /\ Range(<< >>) = {} /\ IsInjective(<< >>) /\ DOMAIN << >> = {}
  BY DEF Range, IsInjective
<1>6. /\ order = << >> /\ enqueueing = << >> /\ wire = << >> /\ arrived = << >>
      /\ outbox = [m \in Msgs |-> "none"] /\ attempts = [m \in Msgs |-> 0]
      /\ saved = [m \in Msgs |-> {}] /\ bubble = [m \in Msgs |-> {}]
      /\ work = [c \in Chats |-> << >>] /\ pending = {} /\ composed = {}
      /\ stage = [c \in Chats |-> "send"]
  BY DEF Init
<1>7. WorkInv /\ \A c \in Chats : work[c] = << >>
  BY <1>5, <1>6 DEF WorkInv
<1>8. \A m \in Msgs : ~InWork(m)
  BY <1>5, <1>7, SendAssumption DEF InWork, SendAssumption
<1>9. RowsInv
  BY <1>5, <1>6 DEF RowsInv
<1>10. FreshInv
  BY <1>5, <1>6, <1>8 DEF FreshInv, Untouched
<1>11. AttemptsInv
  BY <1>5, <1>6, <1>7, SendAssumption DEF AttemptsInv, SendAssumption
<1>12. FirstLaunchInv
  <2>1. \A m \in Msgs : outbox[m] = "none"
    BY <1>6
  <2> QED BY <1>2, <1>7, <1>8, <2>1 DEF FirstLaunchInv
<1>13. GenerationInv
  BY <1>5, <1>6 DEF GenerationInv, GenerationOrder
<1> QED BY <1>1, <1>3, <1>4, <1>7, <1>9, <1>10, <1>11, <1>12, <1>13 DEF SendInv

LEMMA SendStep == SendInv /\ [Next]_vars => SendInv'
  BY SendAssumption, TypesStep, RestTypesStep, AckStep, PendingStep, HandStep, RowsStep, WorkStep,
     FreshStep, AttemptsStep, FirstLaunchStep, GenerationStep, NothingLostStep, SentIsStoredStep
  DEF SendInv

LEMMA SendInvariant == Spec => []SendInv
  BY SendInit, SendStep, PTL DEF Spec

-----------------------------------------------------------------------------
\* Theorems

\* The state keeps its types: a row is ordered once if it is due and not at all
\* if it is not, and no row is tried more often than MAX_ATTEMPTS (TypeOK).
THEOREM TypeCorrect == Spec => []TypeOK
<1>1. ASSUME SendInv PROVE TypeOK
  <2>1. \A m \in Msgs :
          Cardinality({i \in DOMAIN order : order[i] = m}) = IF outbox[m] = "due" THEN 1 ELSE 0
    <3> SUFFICES ASSUME NEW m \in Msgs
                 PROVE  Cardinality({i \in DOMAIN order : order[i] = m}) =
                          IF outbox[m] = "due" THEN 1 ELSE 0
      OBVIOUS
    <3>1. order \in Seq(Msgs) /\ IsInjective(order) /\ (outbox[m] = "due" <=> m \in Range(order))
      BY <1>1 DEF SendInv, RowsInv
    <3>2. CASE m \in Range(order)
      <4>1. PICK i \in DOMAIN order : order[i] = m
        BY <3>2 DEF Range
      <4>2. {j \in DOMAIN order : order[j] = m} = {i}
        BY <3>1, <4>1 DEF IsInjective
      <4> QED BY <3>1, <3>2, <4>2, FS_Singleton
    <3>3. CASE m \notin Range(order)
      <4>1. {j \in DOMAIN order : order[j] = m} = {}
        BY <3>3 DEF Range
      <4> QED BY <3>1, <3>3, <4>1, FS_EmptySet
    <3> QED BY <3>2, <3>3
  <2>2. order \in Seq(Msgs) /\ work \in [Chats -> Seq(Msgs)] /\ composed \subseteq Msgs
        /\ attempts \in [Msgs -> 0 .. MaxAttempts]
    BY <1>1 DEF SendInv, RowsInv, WorkInv, FreshInv, AttemptsInv
  <2>3. hydrated \in BOOLEAN /\ conn \in {"closed", "open", "ready"} /\ deleted \subseteq Msgs
    BY <1>1, Zenon DEF SendInv, RestTypes
  <2>4. /\ outbox \in [Msgs -> RowState]
        /\ saved \in [Msgs -> SUBSET Status]
        /\ snapshot \in [Chats -> Nat]
        /\ bubble \in [Msgs -> SUBSET Status]
        /\ enqueueing \in Seq(Msgs)
        /\ stage \in [Chats -> Stage]
        /\ pending \subseteq Payload
        /\ engine \in [Chats -> Nat]
        /\ wire \in Seq(Payload)
        /\ arrived \in Seq(Arrival)
        /\ acks \subseteq Msgs
        /\ enqueued \subseteq Msgs
        /\ faults \in [Kinds -> Nat]
    BY <1>1 DEF SendInv, Types
  <2> QED BY <2>1, <2>2, <2>3, <2>4, Zenon DEF TypeOK
<1>2. QED BY SendInvariant, <1>1, PTL

\* No message whose row was written is lost, for any number of messages, chats,
\* kills of the app, lost connections, refusals and lost acks (NothingLost).
THEOREM NothingLostCorrect == Spec => []NothingLost
<1>1. SendInv => NothingLost
  BY DEF SendInv
<1>2. QED BY SendInvariant, <1>1, PTL

\* "sent", in a bubble or in the messages table, is only said of a message its
\* Chat object has stored (SentIsStored).
THEOREM SentIsStoredCorrect == Spec => []SentIsStored
<1>1. SendInv => SentIsStored
  BY DEF SendInv
<1>2. QED BY SendInvariant, <1>1, PTL

\* Within one launch the sends of a chat reach the server in the order of their
\* generations, replays after a reconnect included (GenerationOrder).
THEOREM GenerationOrderCorrect == Spec => []GenerationOrder
<1>1. SendInv => GenerationOrder
  BY DEF SendInv, GenerationInv
<1>2. QED BY SendInvariant, <1>1, PTL

\* As long as the app was not killed, a row that was given up is shown as failed,
\* or is about to be (DeadIsShown).
THEOREM DeadIsShownCorrect == Spec => []DeadIsShown
<1>1. SendInv => DeadIsShown
  BY DEF SendInv, FirstLaunchInv, DeadIsShown
<1>2. QED BY SendInvariant, <1>1, PTL

=============================================================================
