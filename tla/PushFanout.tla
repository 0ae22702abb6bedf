----------------------------- MODULE PushFanout -----------------------------
(***************************************************************************)
(* What a chat's members learn of the messages of one flush: frames to the *)
(* members attached to the chat, then one push event for each message      *)
(* (chat-ws durable/chat.ts, push-publish.ts), which the queue's consumer  *)
(* sends to the devices that had no socket (chat-push lambda.ts, apns.ts,  *)
(* fcm.ts). The sockets open, subscribe, fetch and close meanwhile.        *)
(*                                                                         *)
(* One device for each member.                                             *)
(***************************************************************************)
EXTENDS Naturals, Sequences

CONSTANTS
  Addressees,      \* the chat's members
  Authors,      \* the authors of the flushed messages, in their order
  Reached,      \* members with a push token
  MaxOutages,   \* bound: calls that fail or are lost
  MaxToggles    \* bound: sockets that open, close or break

ASSUME PushFanoutAssumption ==
  /\ Authors \in Seq(Addressees) /\ Authors # <<>> /\ Reached \subseteq Addressees
  /\ MaxOutages \in Nat /\ MaxToggles \in Nat

Messages == DOMAIN Authors

VARIABLES
  fan,          \* where flush() is
  todo,         \* members whose inbox has not answered yet
  attachedIds,  \* the presence hint: members whose device has a socket
  record,       \* record[i]: the event of message i, from SNS to the consumer
  sending,      \* sending[i]: devices the running dispatch of it has yet to push to
  uplink,       \* uplink[u]: the socket of u's device, "gone" when only the server has it
  room,         \* the members attached to the chat
  entering,     \* members whose `sub` frame is on its way
  fetching,     \* members whose backfill request is on its way
  tokens,       \* members with an active PushToken row
  has,          \* has[u]: messages u's device got through its socket
  alerted,      \* alerted[u]: messages it was pushed
  outages, toggles,     \* counters of the bounds
  presumed,     \* history: <<u, i>>, the hint named u when it did not have i
  swallowed     \* history: <<u, i>>, the push of i to u failed, or its token was dead

pushFanoutVars == <<fan, todo, attachedIds, record, sending, uplink, room, entering, fetching,
                    tokens, has, alerted, outages, toggles, presumed, swallowed>>

flushing == <<fan, todo, attachedIds, presumed>>
queued   == <<record, sending, tokens, alerted, swallowed>>
sockets  == <<uplink, room, entering, fetching>>

\* The devices are offline or on; those that subscribed once stay attached.
PushFanoutInit ==
  /\ fan = "insert" /\ todo = {} /\ attachedIds = {}
  /\ record = [i \in Messages |-> "none"] /\ sending = [i \in Messages |-> {}]
  /\ uplink \in [Addressees -> {"off", "open"}]
  /\ room \in SUBSET Addressees /\ {u \in Addressees : uplink[u] = "open"} \subseteq room
  /\ entering = {} /\ fetching = {}
  /\ tokens = Reached
  /\ has = [u \in Addressees |-> {}] /\ alerted = [u \in Addressees |-> {}]
  /\ outages = 0 /\ toggles = 0 /\ presumed = {} /\ swallowed = {}

Outage == outages < MaxOutages /\ outages' = outages + 1
Toggle == toggles < MaxToggles /\ toggles' = toggles + 1

OthersOf(i) == Addressees \ {Authors[i]}
Missing(u) == {i \in Messages : u \in OthersOf(i)} \ has[u]

-----------------------------------------------------------------------------
\* flush(), from the INSERTs on

Inserted ==
  /\ fan = "insert" /\ fan' = "deliver"
  /\ todo' = {u \in room : Missing(u) # {}}
  /\ UNCHANGED <<attachedIds, presumed, queued, sockets, has, outages, toggles>>

\* deliverBatch()
Deliver(u) ==
  /\ fan = "deliver" /\ u \in todo /\ todo' = todo \ {u}
  /\ has' = IF uplink[u] = "open" THEN [has EXCEPT ![u] = @ \cup Missing(u)] ELSE has
  /\ UNCHANGED <<fan, attachedIds, presumed, queued, sockets, outages, toggles>>

\* An inbox or memberIds() rejects: nothing is published.
FlushFails ==
  /\ Outage /\ fan = "deliver" /\ fan' = "failed" /\ todo' = {}
  /\ UNCHANGED <<attachedIds, presumed, queued, sockets, has, toggles>>

Delivered ==
  /\ fan = "deliver" /\ todo = {} /\ fan' = "hint"
  /\ todo' = OthersOf(1)
  /\ UNCHANGED <<attachedIds, presumed, queued, sockets, has, outages, toggles>>

\* attachedDeviceIds(); one that rejects counts as no device.
Hint(u) ==
  /\ fan = "hint" /\ u \in todo /\ todo' = todo \ {u}
  /\ \/ /\ uplink[u] = "off" /\ UNCHANGED <<attachedIds, presumed, outages>>
     \/ /\ uplink[u] # "off" /\ UNCHANGED outages
        /\ attachedIds' = attachedIds \cup {u}
        /\ presumed' = presumed \cup ({u} \X Missing(u))
     \/ Outage /\ UNCHANGED <<attachedIds, presumed>>
  /\ UNCHANGED <<fan, queued, sockets, has, toggles>>

\* publishChatDelivered() for each message; no answer is awaited.
Recipients(i) == OthersOf(i)

PublishEvents ==
  /\ fan = "hint" /\ todo = {} /\ fan' = "published"
  /\ record' = [i \in Messages |-> IF Recipients(i) = {} THEN "none" ELSE "queued"]
  /\ UNCHANGED <<todo, attachedIds, presumed, sending, tokens, alerted, swallowed, sockets, has,
                 outages, toggles>>

PublishLost(i) ==
  /\ Outage /\ record[i] = "queued" /\ record' = [record EXCEPT ![i] = "lost"]
  /\ UNCHANGED <<flushing, sending, tokens, alerted, swallowed, sockets, has, toggles>>

-----------------------------------------------------------------------------
\* The consumer of the queue

Dispatch(i) ==
  /\ record[i] = "queued" /\ record' = [record EXCEPT ![i] = "sending"]
  /\ sending' = [sending EXCEPT ![i] = (Recipients(i) \cap tokens) \ attachedIds]
  /\ UNCHANGED <<flushing, tokens, alerted, swallowed, sockets, has, outages, toggles>>

\* The notification service takes it, or an error is swallowed, or the token is dead
\* and its row is deleted.
Notify(i, u) ==
  /\ u \in sending[i] /\ sending' = [sending EXCEPT ![i] = @ \ {u}]
  /\ \/ alerted' = [alerted EXCEPT ![u] = @ \cup {i}] /\ UNCHANGED <<tokens, swallowed, outages>>
     \/ Outage /\ swallowed' = swallowed \cup {<<u, i>>} /\ UNCHANGED <<tokens, alerted>>
     \/ Outage /\ swallowed' = swallowed \cup ({u} \X Messages) /\ tokens' = tokens \ {u}
        /\ UNCHANGED alerted
  /\ UNCHANGED <<flushing, record, sockets, has, toggles>>

\* The query or the provider's access token fails: the record alone is redriven,
\* whatever of it was sent.
DroppedRecord == "done"                 \* a mutant: a failed record is not handed back
Redriven == "queued"

DispatchFails(i) ==
  /\ Outage /\ record[i] = "sending"
  /\ record' = [record EXCEPT ![i] = Redriven] /\ sending' = [sending EXCEPT ![i] = {}]
  /\ UNCHANGED <<flushing, tokens, alerted, swallowed, sockets, has, toggles>>

Dispatched(i) ==
  /\ record[i] = "sending" /\ sending[i] = {} /\ record' = [record EXCEPT ![i] = "done"]
  /\ UNCHANGED <<flushing, sending, tokens, alerted, swallowed, sockets, has, outages, toggles>>

-----------------------------------------------------------------------------
\* The devices. A device that connects subscribes and asks for what it missed; the
\* two frames are handled in any order, one awaiting other objects.

SocketOpens(u) ==
  /\ Toggle /\ uplink[u] # "open" /\ uplink' = [uplink EXCEPT ![u] = "open"]
  /\ entering' = entering \cup {u} /\ fetching' = fetching \cup {u}
  /\ UNCHANGED <<flushing, queued, room, has, outages>>

SubHandled(u) ==
  /\ u \in entering /\ entering' = entering \ {u} /\ room' = room \cup {u}
  /\ UNCHANGED <<flushing, queued, uplink, fetching, has, outages, toggles>>

BackfillServed(u) ==
  /\ u \in fetching /\ fetching' = fetching \ {u}
  /\ has' = IF fan = "insert" THEN has ELSE [has EXCEPT ![u] = @ \cup Missing(u)]
  /\ UNCHANGED <<flushing, queued, uplink, room, entering, outages, toggles>>

SocketCloses(u) ==
  /\ Toggle /\ uplink[u] = "open"
  /\ \E l \in {"off", "gone"} : uplink' = [uplink EXCEPT ![u] = l]
  /\ entering' = entering \ {u} /\ fetching' = fetching \ {u}
  /\ UNCHANGED <<flushing, queued, room, has, outages>>

-----------------------------------------------------------------------------
PushFanoutNext ==
  \/ Inserted \/ FlushFails \/ Delivered \/ PublishEvents
  \/ \E i \in Messages : \/ PublishLost(i) \/ Dispatch(i) \/ DispatchFails(i) \/ Dispatched(i)
                         \/ \E u \in Addressees : Notify(i, u)
  \/ \E u \in Addressees : \/ Deliver(u) \/ Hint(u)
                        \/ SocketOpens(u) \/ SubHandled(u) \/ BackfillServed(u) \/ SocketCloses(u)

PushFanoutSpec == PushFanoutInit /\ [][PushFanoutNext]_pushFanoutVars

-----------------------------------------------------------------------------
\* Properties

PushFanoutTypeOK ==
  /\ fan \in {"insert", "deliver", "hint", "published", "failed"}
  /\ todo \cup attachedIds \cup room \cup entering \cup fetching \cup tokens \subseteq Addressees
  /\ record \in [Messages -> {"none", "queued", "lost", "sending", "done"}]
  /\ \A i \in Messages : sending[i] \subseteq OthersOf(i)
  /\ uplink \in [Addressees -> {"off", "open", "gone"}]
  /\ has \in [Addressees -> SUBSET Messages] /\ alerted \in [Addressees -> SUBSET Messages]
  /\ presumed \cup swallowed \subseteq Addressees \X Messages

\* When its event is handled, a message has reached each recipient with a push token
\* through its socket or as a push: in a batch of any authors, whatever socket opened
\* or closed in between, whatever call of the hint failed, and although the event is
\* sent again when the database or the provider's login fails. What remains is an
\* error of the push itself, which is swallowed, and a device the hint took for
\* served that was not. That had a broken socket, or one whose `sub` came too late for
\* the frames and whose backfill was served before the INSERT or not yet: no push, and
\* no frame, until it connects again (chat.ts:281-330, user-inbox.ts:293-304,
\* lambda.ts dispatch()).
NobodyIsMissed ==
  \A i \in Messages : record[i] = "done" =>
    \A u \in OthersOf(i) \cap Reached :
      i \in has[u] \cup alerted[u] \/ <<u, i>> \in presumed \cup swallowed

=============================================================================
