---------------------------- MODULE Subscriptions ----------------------------
(***************************************************************************)
(* The chats whose live messages reach one user: each device sends the     *)
(* chats it subscribed to, the user's inbox object keeps one list for all  *)
(* of them and attaches itself to the chats' objects and detaches itself   *)
(* (chat-transport/client.ts subscribe() and flushOnConnect(),             *)
(* chat-ws/durable/user-inbox.ts handleSubscribe(), chat.ts attachInbox()  *)
(* and detachInbox()).                                                     *)
(*                                                                         *)
(* A handler awaits calls of other objects, and the next `sub` frame is    *)
(* handled meanwhile.                                                      *)
(***************************************************************************)
EXTENDS Naturals, Sequences, FiniteSets

CONSTANTS
  Devices,      \* the devices of the user
  Rooms,        \* the chats
  Handlers,     \* bound: `sub` frames handled at the same time
  MaxFrames,    \* bound: `sub` frames on the way from a device
  MaxRpcFaults  \* bound: failed calls, lost sockets and restarts of devices

ASSUME SubscriptionAssumption == Handlers \subseteq Nat /\ MaxFrames \in Nat /\ MaxRpcFaults \in Nat

VARIABLES
  wanted,       \* wanted[d]: the `subscriptions` of device d's transport
  online,       \* the devices with an open socket
  frames,       \* frames[d]: `sub` frames on their way
  subs,         \* SUB_KEY of the inbox object
  attachedChats, \* the chats whose attached set has the user
  handler,      \* handler[h]: a handleSubscribe() under way
  rpcFaults,    \* counter of the bound
  crossed,      \* history: two handlers were under way
  failed,       \* history: a call of a handler failed
  displaced     \* history: devices whose chats another device's frame left out

subscriptionVars == <<wanted, online, frames, subs, attachedChats, handler, rpcFaults, crossed,
                      failed, displaced>>

NoHandler == [pc |-> "none", want |-> {}, adding |-> {}, removing |-> {}, broken |-> FALSE]

SubscriptionInit ==
  /\ wanted = [d \in Devices |-> {}] /\ online = {}
  /\ frames = [d \in Devices |-> <<>>]
  /\ subs = {} /\ attachedChats = {}
  /\ handler = [h \in Handlers |-> NoHandler]
  /\ rpcFaults = 0 /\ crossed = FALSE /\ failed = FALSE /\ displaced = {}

Fault == rpcFaults < MaxRpcFaults /\ rpcFaults' = rpcFaults + 1

-----------------------------------------------------------------------------
\* The devices

\* Only a chat that is new to the device makes a frame.
Subscribe(d, c) ==
  /\ c \notin wanted[d]
  /\ wanted' = [wanted EXCEPT ![d] = @ \cup {c}]
  /\ IF d \in online
     THEN /\ Len(frames[d]) < MaxFrames
          /\ frames' = [frames EXCEPT ![d] = Append(@, wanted'[d])]
     ELSE UNCHANGED frames
  /\ UNCHANGED <<online, subs, attachedChats, handler, rpcFaults, crossed, failed, displaced>>

\* flushOnConnect(), on the hello.
FlushNothing(d) == <<>>                 \* a mutant: the list is not sent again
Flush(d) == IF wanted[d] = {} THEN <<>> ELSE <<wanted[d]>>

Hello(d) ==
  /\ d \notin online /\ online' = online \cup {d}
  /\ frames' = [frames EXCEPT ![d] = Flush(d)]
  /\ UNCHANGED <<wanted, subs, attachedChats, handler, rpcFaults, crossed, failed, displaced>>

SocketDrops(d) ==
  /\ Fault /\ d \in online /\ online' = online \ {d}
  /\ frames' = [frames EXCEPT ![d] = <<>>]
  /\ UNCHANGED <<wanted, subs, attachedChats, handler, crossed, failed, displaced>>

DeviceRestarts(d) ==
  /\ Fault
  /\ wanted' = [wanted EXCEPT ![d] = {}]
  /\ online' = online \ {d} /\ frames' = [frames EXCEPT ![d] = <<>>]
  /\ UNCHANGED <<subs, attachedChats, handler, crossed, failed, displaced>>

-----------------------------------------------------------------------------
\* handleSubscribe

Running == {h \in Handlers : handler[h].pc # "none"}

\* The list is read; what the frame names and what it leaves out follow from it.
Start(d, h) ==
  /\ handler[h].pc = "none" /\ frames[d] # <<>>
  /\ \A g \in Handlers \ Running : h <= g
  /\ LET want == Head(frames[d])
     IN  /\ handler' = [handler EXCEPT ![h] =
              [pc |-> "attach", want |-> want, adding |-> want \ subs,
               removing |-> subs \ want, broken |-> FALSE]]
         /\ displaced' = (displaced \ {d})
              \cup {e \in Devices \ {d} : ~(wanted[e] \subseteq want)}
  /\ frames' = [frames EXCEPT ![d] = Tail(@)]
  /\ crossed' = (crossed \/ Running # {})
  /\ UNCHANGED <<wanted, online, subs, attachedChats, rpcFaults, failed>>

\* attachInbox() and detachInbox() of the chats, in any order.
Attach(h, c) ==
  /\ handler[h].pc = "attach" /\ c \in handler[h].adding
  /\ attachedChats' = attachedChats \cup {c}
  /\ handler' = [handler EXCEPT ![h].adding = @ \ {c}]
  /\ UNCHANGED <<wanted, online, frames, subs, rpcFaults, crossed, failed, displaced>>

Detach(h, c) ==
  /\ handler[h].pc = "detach" /\ c \in handler[h].removing
  /\ attachedChats' = attachedChats \ {c}
  /\ handler' = [handler EXCEPT ![h].removing = @ \ {c}]
  /\ UNCHANGED <<wanted, online, frames, subs, rpcFaults, crossed, failed, displaced>>

\* A call fails, before or after it had its effect. Those made with it go on.
RoomFails(h, c) ==
  /\ Fault /\ failed' = TRUE
  /\ \/ /\ handler[h].pc = "attach" /\ c \in handler[h].adding
        /\ attachedChats' \in {attachedChats, attachedChats \cup {c}}
     \/ /\ handler[h].pc = "detach" /\ c \in handler[h].removing
        /\ attachedChats' \in {attachedChats, attachedChats \ {c}}
  /\ handler' = [handler EXCEPT ![h].adding = @ \ {c}, ![h].removing = @ \ {c},
                                ![h].broken = TRUE]
  /\ UNCHANGED <<wanted, online, frames, subs, crossed, displaced>>

Attached(h) ==
  /\ handler[h].pc = "attach" /\ handler[h].adding = {}
  /\ handler' = [handler EXCEPT ![h] = IF @.broken THEN NoHandler ELSE [@ EXCEPT !.pc = "detach"]]
  /\ UNCHANGED <<wanted, online, frames, subs, attachedChats, rpcFaults, crossed, failed,
                 displaced>>

\* The list is written when all calls have been answered well.
DetachedFrom(h) ==
  /\ handler[h].pc = "detach" /\ handler[h].removing = {}
  /\ subs' = IF handler[h].broken THEN subs ELSE handler[h].want
  /\ handler' = [handler EXCEPT ![h] = NoHandler]
  /\ UNCHANGED <<wanted, online, frames, attachedChats, rpcFaults, crossed, failed, displaced>>

-----------------------------------------------------------------------------
SubscriptionNext ==
  \/ \E d \in Devices :
       \/ Hello(d) \/ SocketDrops(d) \/ DeviceRestarts(d)
       \/ \E c \in Rooms : Subscribe(d, c)
       \/ \E h \in Handlers : Start(d, h)
  \/ \E h \in Handlers :
       \/ Attached(h) \/ DetachedFrom(h)
       \/ \E c \in Rooms : Attach(h, c) \/ Detach(h, c) \/ RoomFails(h, c)

SubscriptionSpec == SubscriptionInit /\ [][SubscriptionNext]_subscriptionVars

-----------------------------------------------------------------------------
\* Properties

SubscriptionTypeOK ==
  /\ wanted \in [Devices -> SUBSET Rooms] /\ online \subseteq Devices
  /\ \A d \in Devices : \A i \in DOMAIN frames[d] : frames[d][i] \subseteq wanted[d]
  /\ subs \subseteq Rooms /\ attachedChats \subseteq Rooms
  /\ \A h \in Handlers :
       /\ handler[h].pc \in {"none", "attach", "detach"}
       /\ handler[h].adding \subseteq handler[h].want
       /\ handler[h].removing \cap handler[h].want = {}
  /\ rpcFaults \in 0 .. MaxRpcFaults /\ displaced \subseteq Devices

\* Once its frames are handled, the chats of a connected device have its user
\* attached, so that their messages reach it live, whatever was lost with its socket.
\* There are three ways to a chat that stays silent for good: two frames handled at
\* once, a call that failed after others of the same frame were made (what the list
\* has is not attached again), and a frame of another device, which replaces the
\* whole list (user-inbox.ts:149-176).
ConnectedIsAttached ==
  \A d \in online :
    frames[d] = <<>> /\ Running = {} =>
      wanted[d] \subseteq attachedChats \/ crossed \/ failed \/ d \in displaced

=============================================================================
