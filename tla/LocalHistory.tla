---------------------------- MODULE LocalHistory ----------------------------
(***************************************************************************)
(* The message lists of one device and the table behind them: optimistic   *)
(* bubbles, their confirmation, failure, retry and deletion, received      *)
(* rows, restarts and the hydration from the table (chat/store.ts,         *)
(* hooks.ts and provider.tsx, chat-db/messages-store.ts).                  *)
(*                                                                         *)
(* The outbox and the server appear by what they do to a list: a row of    *)
(* the outbox is stored by the server, acked or given up (see SendPath).   *)
(* Rows arrive in any order and more than once (see Receive). A list is    *)
(* the bag of its bubbles: their order is left out.                        *)
(***************************************************************************)
EXTENDS Naturals, Sequences, FiniteSets, Bags

CONSTANTS
  Chats,
  Written,      \* the messages this user writes
  ChatOf,       \* the chat of a written message
  MaxRows,      \* bound: rows of each chat on the server
  MaxRetries,   \* bound: retries by the user
  MaxRestarts   \* bound: restarts of the app

\* A client id is a uuid: no serial, no peer's row, no text of one.
ASSUME HistoryAssumption ==
  /\ ChatOf \in [Written -> Chats]
  /\ \A m \in Written : m # "peer" /\ m \notin Nat /\ m \notin Chats \X Nat
  /\ MaxRows \in [Chats -> Nat] /\ MaxRetries \in Nat /\ MaxRestarts \in Nat

VARIABLES
  server,       \* server[c]: the rows of chat c, a written message or "peer"
  outbox,       \* outbox[m]: none, queued, stored (not acked yet), dead, gone
  list,         \* list[c]: the bubbles of chat c in memory
  table,        \* the messages table, a function from id to row
  loaded,       \* loaded[c]: how far the hydration of chat c is, and what it has read
  retries, restarts,
  failedOnce,   \* history: messages whose bubble failed once
  interrupted   \* history: messages the app died on before they were acked

historyVars == <<server, outbox, list, table, loaded, retries, restarts, failedOnce,
                 interrupted>>

Unread  == [pc |-> "unread", rows |-> {}]
Skipped == [pc |-> "skipped", rows |-> {}]
Hydrated == [pc |-> "hydrated", rows |-> {}]
Loaded(rows) == [pc |-> "loaded", rows |-> rows]

\* The text of a row: a written message, or <<chat, serial>> for a peer's.
Text(c, s) == IF server[c][s] = "peer" THEN <<c, s>> ELSE server[c][s]

\* A bubble has the id of its row: the serial in its chat, or the client id
\* until it has one.
Received(c, s) ==
  [id |-> s, text |-> Text(c, s), serial |-> s, status |-> "sent", cid |-> s]

Optimistic(m) == [id |-> m, text |-> m, serial |-> 0, status |-> "sending", cid |-> m]

HistoryInit ==
  /\ server = [c \in Chats |-> <<>>]
  /\ outbox = [m \in Written |-> "none"]
  /\ list = [c \in Chats |-> EmptyBag]
  /\ table = [id \in {} |-> {}]
  /\ loaded = [c \in Chats |-> Hydrated]
  /\ retries = 0 /\ restarts = 0
  /\ failedOnce = {} /\ interrupted = {}

-----------------------------------------------------------------------------
\* persistMessage of bubbles with different ids: an upsert on the id. A row that
\* is there keeps its chat.
Row(c, b) == [chat |-> c, text |-> b.text, status |-> b.status, cid |-> b.cid]

UpsertNothing(t, c, bs) == t            \* a mutant: the bubbles stay in memory
Upsert(t, c, bs) ==
  [id \in DOMAIN t \cup {b.id : b \in bs} |->
     IF \E b \in bs : b.id = id
     THEN Row(IF id \in DOMAIN t THEN t[id].chat ELSE c, CHOOSE b \in bs : b.id = id)
     ELSE t[id]]

\* loadMessagesForChat: the chat's rows as bubbles; a sent row's id is its serial.
Bubble(id) ==
  [id |-> id, text |-> table[id].text, serial |-> IF table[id].status = "sent" THEN id ELSE 0,
   status |-> table[id].status, cid |-> table[id].cid]

RowsOfAll(c) == {Bubble(id) : id \in DOMAIN table}   \* a mutant: no WHERE chat_id
RowsOf(c) == {Bubble(id) : id \in {i \in DOMAIN table : table[i].chat = c}}

-----------------------------------------------------------------------------
\* The server and the outbox

PeerSend(c) ==
  /\ Len(server[c]) < MaxRows[c]
  /\ server' = [server EXCEPT ![c] = Append(@, "peer")]
  /\ UNCHANGED <<outbox, list, table, loaded, retries, restarts, failedOnce, interrupted>>

\* An attempt of the worker reaches the chat and is stored.
Stored(m) ==
  /\ outbox[m] = "queued" /\ Len(server[ChatOf[m]]) < MaxRows[ChatOf[m]]
  /\ server' = [server EXCEPT ![ChatOf[m]] = Append(@, m)]
  /\ outbox' = [outbox EXCEPT ![m] = "stored"]
  /\ UNCHANGED <<list, table, loaded, retries, restarts, failedOnce, interrupted>>

-----------------------------------------------------------------------------
\* Own messages (addOptimistic-, confirmOptimistic-, failOptimistic-,
\* retryOptimisticMessage, removeMessageByClientMsgId)

Shown(c) == BagToSet(list[c])

OwnBubbles(m) == {b \in Shown(ChatOf[m]) : b.cid = m}

\* A changed bubble takes the place of the old one and is persisted. The reducers
\* change the first bubble of the client id; after a hydration there may be two.
Change(m, old, new) ==
  /\ list' = [list EXCEPT ![ChatOf[m]] = (@ (-) SetToBag({old})) (+) SetToBag({new})]
  /\ table' = Upsert(table, ChatOf[m], {new})

Compose(m) ==
  /\ outbox[m] = "none" /\ OwnBubbles(m) = {}
  /\ outbox' = [outbox EXCEPT ![m] = "queued"]
  /\ list' = [list EXCEPT ![ChatOf[m]] = @ (+) SetToBag({Optimistic(m)})]
  /\ UNCHANGED <<server, table, loaded, retries, restarts, failedOnce, interrupted>>

\* The ack of the last row stored. Without a bubble nothing is recorded.
AckedSerial(m) ==
  CHOOSE s \in DOMAIN server[ChatOf[m]] :
    /\ server[ChatOf[m]][s] = m
    /\ \A r \in DOMAIN server[ChatOf[m]] : server[ChatOf[m]][r] = m => r <= s

Confirmed(b, s) == [b EXCEPT !.id = s, !.status = "sent", !.serial = s]

Confirm(m) ==
  /\ outbox[m] = "stored"
  /\ outbox' = [outbox EXCEPT ![m] = "gone"]
  /\ IF OwnBubbles(m) = {} THEN UNCHANGED <<list, table>>
     ELSE \E b \in OwnBubbles(m) : Change(m, b, Confirmed(b, AckedSerial(m)))
  /\ UNCHANGED <<server, loaded, retries, restarts, failedOnce, interrupted>>

\* The worker gives up: not encrypted, not enqueued, or not acked.
Fail(m) ==
  /\ outbox[m] \in {"queued", "stored"}
  /\ outbox' = [outbox EXCEPT ![m] = "dead"]
  /\ IF OwnBubbles(m) = {} THEN UNCHANGED <<list, table, failedOnce>>
     ELSE \E b \in OwnBubbles(m) :
            IF b.status = "sent" THEN UNCHANGED <<list, table, failedOnce>>
            ELSE /\ Change(m, b, [b EXCEPT !.status = "failed"])
                 /\ failedOnce' = failedOnce \cup {m}
  /\ UNCHANGED <<server, loaded, retries, restarts, interrupted>>

Retry(m) ==
  /\ retries < MaxRetries /\ retries' = retries + 1
  /\ outbox[m] = "dead"
  /\ \E b \in OwnBubbles(m) :
       /\ b.status = "failed"
       /\ Change(m, b, [b EXCEPT !.status = "sending"])
  /\ outbox' = [outbox EXCEPT ![m] = "queued"]
  /\ UNCHANGED <<server, loaded, restarts, failedOnce, interrupted>>

\* The bubbles and the outbox row go; the table is the caller's concern, and no
\* caller has it.
Delete(m) ==
  /\ outbox[m] = "dead" /\ \E b \in OwnBubbles(m) : b.status = "failed"
  /\ list' = [list EXCEPT ![ChatOf[m]] = [b \in Shown(ChatOf[m]) \ OwnBubbles(m) |-> @[b]]]
  /\ outbox' = [outbox EXCEPT ![m] = "gone"]
  /\ UNCHANGED <<server, table, loaded, retries, restarts, failedOnce, interrupted>>

-----------------------------------------------------------------------------
\* Received rows (addIncomingMessage, ingestBackfill)

PeerRows(c) == {s \in DOMAIN server[c] : server[c][s] = "peer"}
HasSerial(c, s) == \E b \in Shown(c) : b.serial = s

\* A frame, or a page of a backfill: what the list has is skipped, the rest is
\* shown and persisted.
ReceiveRows(c, page) ==
  /\ page \subseteq PeerRows(c) /\ page # {}
  /\ LET new == {Received(c, s) : s \in {x \in page : ~HasSerial(c, x)}}
     IN  /\ list' = [list EXCEPT ![c] = @ (+) SetToBag(new)]
         /\ table' = Upsert(table, c, new)
  /\ UNCHANGED <<server, outbox, loaded, retries, restarts, failedOnce, interrupted>>

-----------------------------------------------------------------------------
\* Restart and hydration

\* Memory is gone and unacked rows are sent again. The lists are hydrated after
\* the first chat.list; when that fails (an offline start) nothing hydrates them
\* in this launch.
Restart ==
  /\ restarts < MaxRestarts /\ restarts' = restarts + 1
  /\ list' = [c \in Chats |-> EmptyBag]
  /\ outbox' = [m \in Written |-> IF outbox[m] = "stored" THEN "queued" ELSE outbox[m]]
  /\ interrupted' = interrupted \cup {m \in Written : outbox[m] \in {"queued", "stored"}}
  /\ loaded' \in {[c \in Chats |-> Unread], [c \in Chats |-> Skipped]}
  /\ UNCHANGED <<server, table, retries, failedOnce>>

\* The query answers, and the answer is merged later.
Load(c) ==
  /\ loaded[c] = Unread
  /\ loaded' = [loaded EXCEPT ![c] = Loaded(RowsOf(c))]
  /\ UNCHANGED <<server, outbox, list, table, retries, restarts, failedOnce, interrupted>>

\* hydrateMessages: rows whose id the list has are skipped.
AdditionsUnchecked(c) == loaded[c].rows     \* a mutant: no dedupe
AdditionsIfEmpty(c) ==                      \* a mutant: only a list that is empty is hydrated
  IF list[c] = EmptyBag THEN loaded[c].rows ELSE {}
Additions(c) == {b \in loaded[c].rows : \A x \in Shown(c) : x.id # b.id}

Hydrate(c) ==
  /\ loaded[c].pc = "loaded"
  /\ list' = [list EXCEPT ![c] = @ (+) SetToBag(Additions(c))]
  /\ loaded' = [loaded EXCEPT ![c] = Hydrated]
  /\ UNCHANGED <<server, outbox, table, retries, restarts, failedOnce, interrupted>>

-----------------------------------------------------------------------------
HistoryNext ==
  \/ \E c \in Chats :
       \/ PeerSend(c) \/ Load(c) \/ Hydrate(c)
       \/ \E page \in SUBSET PeerRows(c) : ReceiveRows(c, page)
  \/ \E m \in Written :
       Compose(m) \/ Stored(m) \/ Confirm(m) \/ Fail(m) \/ Retry(m) \/ Delete(m)
  \/ Restart

HistorySpec == HistoryInit /\ [][HistoryNext]_historyVars

-----------------------------------------------------------------------------
\* Properties

HistoryTypeOK ==
  /\ \A c \in Chats : \A i \in DOMAIN server[c] : server[c][i] \in Written \cup {"peer"}
  /\ outbox \in [Written -> {"none", "queued", "stored", "dead", "gone"}]
  /\ \A c \in Chats : \A b \in Shown(c) :
       /\ b.serial \in 0 .. Len(server[c])
       /\ b.status \in {"sending", "failed"} => b.serial = 0 /\ b.id \in Written
       /\ b.status = "sent" => b.id = b.serial
  /\ \A id \in DOMAIN table :
       /\ table[id].chat \in Chats /\ table[id].status \in {"sending", "sent", "failed"}
       /\ id \in Written <=> table[id].status # "sent"
  /\ failedOnce \subseteq Written /\ interrupted \subseteq Written

\* A list shows a text once, through frames that come again in a page, hydrations
\* that race frames and acks, and restarts. The exception is a message that once
\* failed: its failed row stays in the table under its client id when a retry is
\* confirmed under the serial (store.ts:342-361, messages-store.ts:43-45).
ShownOnce ==
  \A c \in Chats : \A a \in Shown(c) :
    a.text \notin failedOnce =>
      list[c][a] = 1 /\ \A b \in Shown(c) : a # b => a.text # b.text

\* The rows of two chats with the same serial have the same id in the table.
Collides(c, s) == \E d \in Chats \ {c} : s \in DOMAIN server[d]

\* What the list shows as sent is in the table, so that it is shown again after a
\* restart; the rows of two chats with one serial take each other's place
\* (firePersist, messages-store.ts:50).
ShownIsStored ==
  \A c \in Chats : \A b \in Shown(c) :
    b.status = "sent" =>
      /\ b.id \in DOMAIN table
      /\ ~Collides(c, b.serial) => table[b.id].chat = c /\ table[b.id].text = b.text

ChatOfText(t) == IF t \in Written THEN ChatOf[t] ELSE t[1]

\* A chat shows another chat's text only at a serial both have, and after a
\* restart (loadMessagesForChat, hydrateMessages).
OwnTextsOnly ==
  \A c \in Chats : \A b \in Shown(c) :
    ChatOfText(b.text) # c =>
      restarts > 0 /\ b.serial \in DOMAIN server[c] /\ Collides(c, b.serial)

\* Each chat shows its texts, each of them once.
TextsAreShownOnce == ShownOnce /\ OwnTextsOnly

\* A message of this user that the server has acked is in the table, unless the
\* app died between its composing and the ack: its author never sees it again
\* (store.ts:346-349; MLS does not let him read it back).
OwnIsStored ==
  \A m \in Written :
    outbox[m] = "gone" /\ m \notin failedOnce \cup interrupted
      => \E s \in DOMAIN server[ChatOf[m]] :
           /\ server[ChatOf[m]][s] = m
           /\ ~Collides(ChatOf[m], s) => s \in DOMAIN table /\ table[s].text = m

\* After the hydration the list shows what the table has for its chat
\* (provider.tsx:170-200).
HydratedShowsTable ==
  \A c \in Chats : loaded[c] = Hydrated =>
    \A id \in DOMAIN table :
      table[id].chat = c /\ table[id].status = "sent" => HasSerial(c, id)

\* The lists in memory and the table agree, in the three ways above.
ListsMatchTable == ShownIsStored /\ OwnIsStored /\ HydratedShowsTable

\* What the chats show is what there is, and the table has it.
HistoryIsSound == TextsAreShownOnce /\ ListsMatchTable

=============================================================================
