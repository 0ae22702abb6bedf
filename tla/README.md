# Verification of mortstack's messaging core

mortstack is an end-to-end encrypted group chat: a React Native client, two
kinds of Cloudflare durable objects (one per chat, one per user), a Postgres
database (Neon), a tRPC API and a push pipeline. This directory models the parts
that decide whether a message is stored once, in order, and seen by everybody it
is meant for, and by nobody else's account on the same phone. TLC checks the
models on small instances; TLAPS proves theorems for every instance.

`PROJECT.json` holds the tables: which definition stands for which lines
("map"), what can go wrong at which line ("hazards"), the runs, the theorems, and
one mutation of the model that breaks each property ("mutants"). Where a property
is a conjunction the modules define further ones (their comments say "a mutant"),
each of which TLC finds to violate the same property when it takes the place of the
definition after it.

## 1. Inventory

Paths are under `src/`.

| Component | State it keeps | Operations | Module |
| --- | --- | --- | --- |
| **Chat durable object** `services/chat-ws/src/durable/chat.ts` | memory: `buffer`, `nextSerial`, `flushTimer`, `memberCache`; `ctx.storage`: `attached`, `buffer`, `nextSerial` | `attachInbox`, `detachInbox`, `acceptSend`, the 100 ms `flush`, `acceptTyping`, `acceptRead` | `ChatDO`, `Signals` |
| **UserInbox durable object** `.../user-inbox.ts` | sockets, the user's subscription list | frames `sub`, `send`, `typ`, `read`, `bf`; RPCs `deliverBatch`, `ackBatch`, `error` | `Subscriptions`, `Receive`, `PushFanout` |
| **Persistence** `packages/db-edge/src/chat-persist.ts`, migration `20260514120000` | `ChatMessage` rows, `ChatMember.lastReadSerial` | `insertMessage`, `maxSerial`, `messagesSince`, `memberIds`, `updateLastReadSerial` | `ChatDO`, `Receive`, `Signals` |
| **Transport** `packages/chat-transport/src/client.ts` | socket, connection state, `pending` sends, timers | `connect`, `close`, `send`, frame handlers, reconnect | `Connection`, `SendPath` |
| **Outbox worker** `packages/chat/src/outbox-worker.ts`, `packages/chat-db/src/outbox.ts` | `pending_outbox` rows, `inflightChats`, `ticking` | `tick`, `dispatchOne`, `retry` | `SendPath`, `Reactions` |
| **Message store** `packages/chat/src/store.ts`, `packages/chat-db/src/messages-store.ts` | bubbles, statuses, reactions, typing, receipts; the `messages` table | add, confirm, fail, retry, hydrate, ingest | `LocalHistory`, `Reactions`, `Signals` |
| **List of chats** `packages/chat/src/store.ts`, `provider.tsx`, `store-provider.tsx`, `chat.list`, `chat.get`, `chat.leave` | `chats`, `chatOrder`, `bootstrapStatus`, requests under way, the mirror in the local database | bootstrap, refresh, remove, reset, wake-ups | `ChatList` |
| **Backfill** `durable/backfill.ts`, `packages/chat/src/provider.tsx`, `encrypted-transport.ts` | a cursor per chat, the KV skip-cache | `resolveBackfillPage`, `decryptBackfill`, `runBackfill`, `onBackfill` | `Receive` |
| **MLS client** `packages/chat-mls-core/src/client/index.ts`, `services/api/src/routers/mls` | engine epoch, snapshot, `last_applied_epoch`; server: commits by epoch, welcomes | publish and poll commits and welcomes, add, remove | `MlsGroup` |
| **KeyPackage pool** same files | private halves, KeyPackage rows, `lastKnownPoolSize` | `topUp`, `reset`, publish, fetch, `deleteAll` | `KeyPool` |
| **Engine loop of the app** `apps/mobile/lib/chat/mls-auto-publish.ts`, `nse-snapshot.ts` | the client, `bootstrappedForUserId`, the sealed copy for the extension | bootstrap, poll, snapshot | `EngineLoop` |
| **Chat API router** `services/api/src/routers/chat.ts`, `apps/mobile/lib/chat/create-chat.ts` | `Chat`, `ChatMember`, blocks | find or create, add members, leave, link the MLS group | `ChatDirectory` |
| **Local database** `packages/chat-db/src/client.ts`, `key.ts`, `legacy-import.ts` | one encrypted file for each account, one passphrase | open, close, wait, import | `AccountDb` |
| **Identity** `apps/mobile/lib/chat/identity.ts`, `me.ts`, the keystore modules, `publish.ts` | device id, seed, wrapping key, `UserDevice` row | resolve, clear, publish | `Identity` |
| **Push registration** `push-register.ts`, `push-auto-register.ts` | `PushToken`, `registeredForUserId` | publish, register | `PushTokens` |
| **Peer keys** `apps/mobile/lib/chat/peer-keys.ts`, `packages/chat-db/src/peer-keys.ts` | `peer_keys` rows, the open transaction | fetch, replace, read | `PeerKeys` |
| **Sealing** `packages/chat/src/crypto-pipe.ts`, `encrypted-transport.ts`, `group-resolver.ts` | the cached group of a chat | seal, post, open | `Sealing` |
| **Session cache** `services/chat-ws/src/auth.ts` | a KV entry for each token | verify, purge | `Sessions` |
| **Push pipeline** `push-publish.ts`, `services/chat-push/src/lambda.ts`, `apns.ts`, `fcm.ts` | SNS/SQS records, `PushToken` rows, the HTTP/2 client, logins | publish, dispatch, delete dead rows | `PushFanout`, `PushAdapters` |
| **Notification extensions** `NotificationService.swift`, `MlsNseDecryptor.swift` and the Kotlin twins | the alert under way, the tray | decrypt, post, expire; read a MessagePack map | `PushAlert`, `FrameReader` |
| **Other API routers** `profile.ts`, `post.ts`, `reports.ts`, `account.ts` | accounts, profiles, posts, follows, marks, counts, reports | create, follow, like, report, `deleteSelf`; feed, post and profile queries | `Social` |
| **Demo bot** `services/demo-bot` | its state file, the lobby | `bot add` | `DemoBot` |

How a message travels: the composer writes an outbox row and an optimistic
bubble; the worker encrypts the row and hands it to the transport, which keeps
it in `pending` and sends a frame (again after every reconnect); the author's
UserInbox calls `acceptSend` on the Chat object, which buffers it, stores the
buffer and sets a timer; `flush` gives every buffered entry the next
`serverSerial`, inserts it in Neon, stores the counter and clears the buffer in
one transaction, then acks authors and delivers to attached inboxes, and
publishes push events. Inboxes drop frames of users without a socket; those
users catch up by paging Neon from their cursor (backfill), and their devices
are pushed an alert, which an extension decrypts with a sealed copy of the
engine.

What is hard here: a flush waits for the network and other events of the same
object run meanwhile; every network call may fail, or succeed and lose its
answer, or be executed after its caller is gone; a durable object may be
evicted at any moment and keeps only `ctx.storage`; clients replay; KV writes
are not awaited. On the device every step between two awaits may find another
account signed in, another call of the same function half way, or the process
killed with memory, database and keystore at different points.

What makes each component correct:

* Chat object: accepted sends become rows; nobody is told of a message that has
  no row; serials have no gaps and one message each; acks reach the authors; the
  skip-cache never runs ahead of Neon.
* Send path: a composed message is never lost, is sent in order per chat, and
  its bubble ends as "sent" or "failed" in agreement with the server.
* Receiving: no message is skipped by a cursor, none whose key is used up is
  lost, each text is shown once.
* Groups: members of an epoch have applied the same commits; nobody applies a
  commit twice or skips one; the tree has the accounts of the server's list.
* Accounts: what belongs to one account never reaches another's file, engine,
  device row or push token.
* List of chats: it shows the account's own chats as the newest answer has them, and all
  of them once nothing is under way.
* Server: one direct chat for two people, blocks respected, sessions honoured
  after their end no longer than the cache allows, nobody without a socket left
  out of the push, deleted accounts gone.

## 2. Modules

One module for each component, and modules that compose them for TLC and state
what a reader wants of several of them together.

| Module | Composes | Theorems in |
| --- | --- | --- |
| `ChatDO`, `DurableLog`; `MCChatDO` | the Chat object, what it promises, and the refinement mapping between them | `ChatDOProofs` |
| `SendPath`; `MCSendPath` | one device that sends; the Chat objects as an environment | `SendPathProofs` |
| `MlsGroup`, `KeyPool`; `MCMlsGroup` | one MLS group on several devices; one device's KeyPackages | `MlsGroupProofs` |
| `ChatDirectory`, `Subscriptions`, `Pushes` (`PushFanout`, `PushAdapters`), `Signals`, `Sessions`, `Social`; `MCServer` | the server's parts, beside `ChatDO` | `ServerProofs` |
| `Receive`, `Connection`; `MCParts` | the device that receives, and its socket | `ReceiveProofs`, `DeviceProofs` |
| `Accounts` (`AccountDb`, `EngineLoop`), `Registration` (`Identity`, `PushTokens`), `Ciphers` (`Sealing`, `PeerKeys`), `DemoBot`; `MCParts` | what a device keeps for its accounts | `DeviceProofs` |
| `Screens` (`LocalHistory`, `Reactions`, `PushAlert`, `ChatList`); `MCParts` | what is shown of texts, reactions, alerts and chats | `ReceiveProofs` |
| `FrameReader`; `MCParts` | what the notification extension reads of a frame | none |
| `MCParts` | the parts of the app side by side | `PartsProofs` |
| `Ranks` | subsequences by position, used by `SendPath`, `MlsGroup` and `Reactions` | `RanksProofs` |

`ChatDO` and `SendPath` meet at `acceptSend` and `ackBatch`. `SendPath` uses of
the Chat object what `DurableLog` states (only durable sends are acked), plus
what `ChatDO` shows can go wrong: err frames, sends that stay in the buffer
after one (`Refuse`, then perhaps `Persist`), and acks that are never sent
(`AckLost`). `NoLostSend`, without which a stored buffer could vanish, is not
used: `Stored` counts rows only. `Receive` takes of the server the rows
1 .. n, which is `DenseSerials`, and a cached maximum that may lag, which is
`KvNeverAhead`. `PushFanout` starts where `flush` has inserted, and an event it
notifies a device of is a request of `PushAdapters`.

**History variables and exceptions.** Many properties hold except after certain
overlaps that the code does allow. A history variable records the overlap and the
property names it, so that it says both what is guaranteed and the only ways
around it; section 6 says what those ways are. Each of the exceptions is needed:
without it TLC finds the property violated. A property that names an overlap does not
catch the harm of that overlap, which the code does allow; it catches every other way to
the same harm. The notes of the hazards in PROJECT.json say where that is so.

### ChatDO and the code

| Model | Code (`chat.ts`) |
| --- | --- |
| `buffer`, `loaded`, `nextSerial` (0 = null), `timer` | `this.buffer`, `bufferLoaded`, `nextSerial`, `flushTimer` |
| `storedBuffer`, `storedNext`, `attached` | `ctx.storage` keys `buffer`, `nextSerial`, `attached` |
| `rows`, `now` | `ChatMessage` rows of the chat and `CURRENT_TIMESTAMP` |
| `flush[f]` | one call of `flush()` in progress: where it waits (`pc`), the batch it iterates, the loop variable, `insertWithRetry`'s attempt and serial, `assigned` |
| `orphans` | statements whose caller has crashed or given up |
| `kv`, `kvPending` | `chatmax:<chatId>`, and puts not landed yet |
| `accepted`, `sent`, `faults` | history: what acceptSend took, what inboxes and push were told, and the counters of the bounds |

A durable object runs one event at a time and delivers none while a
`ctx.storage` call is pending, so the code between two awaits of a *network*
call is one action: `FlushTimer` (timer callback up to the first query),
`NeonMax`/`Recovered`, `NeonInsert` (the statement), `InsertThrew`,
`InsertConflict`/`Bumped` (the two ways `insertWithRetry` goes round its loop),
`InsertedMore` (next entry), `InsertedLast` (transaction, new buffer array, KV
put started), `Fanout`, `Push`. Each network call has its failing twin
(`NeonMaxFails`, `InsertFails`, `InsertAnswerLost`, `FanoutFails`,
`PushFails`); `Crash` is an eviction at any point and leaves statements in
flight behind as orphans.

Two details of JavaScript matter and are kept. `const batch = this.buffer` is
an alias: entries pushed while the loop runs are visited by it (`aliased`), until
some flush assigns a *new* array, from which point the others keep the old one
(`Detached`). And `nextSerial` is read before an await and assigned after it.

Neon's two unique constraints are modelled as they are: both contain
`createdAt`, which the database sets, so they only bite for two statements in
the same clock tick (`NeonInsert` lets the clock stand still or advance).

Left out here: ciphertexts and timestamps in frames. The presence hint of a push
event is in `PushFanout`, typing and read signals with the member cache in
`Signals`.

### SendPath and the code

| Model | Code (under `packages/`) |
| --- | --- |
| `outbox`, `attempts`, `order` | `pending_outbox`: a row is `due`, `parked` (backing off) or `dead` (`next_attempt_at` out of reach); `order` lists the due rows by `next_attempt_at` |
| `bubble[m]`, `saved[m]` | the store's entries, and the `messages` table's rows, with clientMsgId `m`, as a set of statuses: the entry under the clientMsgId is `sending` or `failed`, the one under the serverMsgId `sent`; both can exist |
| `work`, `stage` | the running tick: rows left per chat, and where `dispatchOne` waits (`send`, `await` the ack, `acked` before `markSent`, `sent` before the confirm, `dead` before the bubble fails) |
| `pending`, `conn`, `wire`, `acks` | the transport's map, its socket (before and after `hello`), frames in both directions; frames to the server are delivered in order |
| `engine`, `snapshot` | generations used per chat, in memory and in the stored snapshot |
| `arrived` | what the Chat objects took: `buffered`, `refused`, `stored`, `acked` |
| `composed`, `enqueued`, `deleted`, `faults` | history and bounds |

| Action | Code |
| --- | --- |
| `Compose`, `Enqueue`, `EnqueueFails`, `Retry`, `Delete`, `Hydrate` | `useSendMessage`, `useRetryMessage`, `useDeleteMessage`, `hydrateMessages` |
| `Tick`, `Transmit`, `SendFails`, `ShowFailed`, `MarkSent`, `Confirm`, `Elapse` | `tick`, `processChat`, `dispatchOne`, backoff |
| `Open`, `Hello`, `Drop`, `AckIn` | `connect`, `flushOnConnect`, `onclose`, `handleFrame` |
| `Deliver`, `Reject`, `Refuse`, `Persist`, `AckOut`, `AckLost` | `handleSend`, `flush`, `ackBatch` |
| `Snapshot`, `Crash` | `persistSnapshot`; the app is killed and launched again |

`Snapshot` may happen at any moment, as MLS commits and welcomes do, and need
not happen: no caller follows an encryption. `Hello` replays the pending sends
in any order, which allows more than the map's insertion order. The rows of
reactions, which have no bubble, are in `Reactions`. Left out: stopping and
replacing the worker, failing disk writes other than `enqueue`, the v1 fan-out;
`close()` is in `Connection`.

### The device

| Module | State | Actions and the code they stand for |
| --- | --- | --- |
| `Receive` | the chat's rows 1 .. `issued`, the cached `chatMax`, `live` frames, the engine's `epoch` and `used` keys with its `snapshot`, `bubbles`, `disk`, `cursor`, `pass[p]` | a pass asks (`runBackfill`), is served a page (`resolveBackfillPage`, with the KV skip), decrypts it row by row (`decryptBackfill`: shown, unreadable for good, to be retried) and ingests it (`onBackfill`: bubbles, table, then the cursor); `Live`, `Open`, `Drop`, `PollCommit`, `DeviceDies`; with `Heal` the engine has booted and the chat is linked to a group it holds, from which its epochs begin |
| `LocalHistory` | `outbox`, `list` (bubbles), `table`, `loaded` | compose, confirm, fail, retry, delete, ingest, the two steps of a hydration (read the table, put it into the list), restart |
| `Reactions` | `pill`, `tapRows`, `inFlight` of the sender; `thread` on the server; `readTo`, `spent`, `shown` of the peer | tap, enqueue, pick, ack, reject, backoff; live frame, page, ingest; both apps may die |
| `ChatList` | `revision` and `joined` (the rows), `record` and `places` (`chats`, `chatOrder`), `bootstrapStatus`, `request[k]`, `mirrored` | sign-in and sign-out, `bootstrap`, `refresh`, `removeChat`, `leave`, the wake-up from `addMembers` to the refetch; requests are read and answered in any order, or fail; the list is cut at its limit |
| `Connection` | `state`, `ws`, `socket[s]` for every socket ever opened, `timer` and `timers`, `awaiting` connects | `connect()` up to and after its token, the socket's callbacks, `close()`, timeouts, and the effects of sign-in, sign-out and the AppState (`transport.tsx`) |
| `AccountDb` | `active`, `opens[k]` with its connection, `cached` and `current`, the `gate`, `storedKey`, `file[u]` | `setActiveUser`, `getChatDb`, the awaits of `openForUser` one by one (key, file, migrations, import), reads and writes through a handle, relaunch |
| `EngineLoop` | `loggedIn`, `client`, `engine`, `row[d][u]` (snapshots), `tmp` and `sealed` copies | `onAuthChange` and `bootstrap`, `persistSnapshot`, `writeNseSnapshot`, account switches |
| `Identity` | `deviceId`, the stored seed as the process and as the disk has it, `wrapping` key, `run[r]`, `directory` | `resolveIdentity` step by step, `clearChatIdentity`, `keys.publish`, the process dying between `apply()` and the disk |
| `PushTokens` | `bearer`, `signed`, `doneFor`, `attempt[t]`, `rows`, `owner` | `maybePublish`, `maybeRegister`, the server's two requests, sign-in, account deletion |
| `Sealing` | `link`, `native` engine, `resolved` cache, `work[w]` | a send or an opening from its lookup to the frame posted or the verdict on the row; links written, caches cleared, accounts switched meanwhile |
| `PeerKeys` | published `edition`, `keyRows`, `tx`, `call[c]` | `getPeerDevices`: staleness, fetch, `BEGIN` .. `COMMIT` statement by statement, `ROLLBACK`, read |
| `PushAlert` | `appGroups` (each at its epoch), `read`, `sealedCopy`, `draft`, `handling[h]`, `tray` | a push arrives, is decrypted by the copy if that has the group at the message's epoch and the key, assigned and posted or ended by the system, while the app reads messages, joins groups, merges commits and writes a new copy |
| `FrameReader` | `bytes`, `pos`, `found`, `stage` | the hand-written reader of MessagePack maps, entry by entry, on whole, cut and malformed encodings |

### Groups

`MlsGroup` takes the state of a group at a device to be the sequence of commits
that led to it: two engines understand each other iff the sequences are equal.
`op[d]` is a membership change from the server's list through the local merge and
the publishing of the commit to the Welcome; `tick[t]` is one `tick()`: welcomes
fetched (and deleted by the fetch), joined, saved; commits fetched a page at a
time, applied, the cursor written, the snapshot saved. The server stores a
commit if nobody has stored one of that epoch (`log`). `KeyPool` has the check of
the cap and the insert as separate steps, as `publish` has them, and the
snapshot that follows a top-up.

### The server

| Module | State | Actions and the code they stand for |
| --- | --- | --- |
| `ChatDirectory` | `chats`, `groups`, `link`, `blocks`, `start[u]` | `createNewChat` on the device: `chat.create` with its query and insert, the group, `linkMlsGroup` with its read and update, the invitations; `addMembers`, `leave`, blocking |
| `Subscriptions` | `wanted[d]`, `frames[d]`, the list `subs`, `attachedChats`, `handler[h]` | `subscribe`, `flushOnConnect`, `handleSubscribe` with an RPC for each chat that came or went |
| `PushFanout` | where the flush is (`fan`), the hint, `record[i]`, `uplink`, `room`, `tokens`, `has`, `alerted` | deliveries, publishing, dispatch with redelivery, sockets that open, subscribe, fetch and close |
| `PushAdapters` | `tokenRow`, `job[d]`, `login`, `client`, `up`, `closing` | one dispatch: rows, login, one request for each token, answers, deletion of rows; sessions that close; apps that register and go |
| `Signals` | `roster`, `watermark`, `memo`, `relay[r]`, `typers`, `receipts` | the two emitters, `acceptTyping` and `acceptRead` with the query they await, sweeps, members removed and added; `ShownTyping`, `ReadByPeer` and `PeerWatermark` are what the hooks show |
| `Sessions` | `sessionRow`, `edge[i]` (the KV as each location serves it), `verify[v]` | verification through cache and origin, the put, sign-out, purge, the KV's delay |
| `Social` | `accounts`, `profiles`, `members`, `posts`, `follows`, `marks`, `counts`, `deletion[a]`, `inquiry[h]` | requests beside the statements of `deleteSelf`, which others see at its commit; reports with their hourly count; `Feed`, `PostShown` (a page of the comments that are not hidden), `ProfileShown` and `MyProfiles` are what queries answer |
| `DemoBot` | `lobbies`, `mirror`, `engineNow`, `engineSaved`, `commits`, `welcomed`, `job` | one run of `bot add`, write by write, cut short anywhere |

## 3. Runs

Components that share no state are checked side by side in one run: a variable
(`part` in `MCParts`, `component` in `MCServer`, `half` in `MCMlsGroup`) is chosen
at the start and names the only one that steps. The state space is the sum of
theirs, not the product, and every property is checked in every state. `TypesOK`
is then the type invariant of the one that steps.

| Run | Checks | Distinct states |
| --- | --- | --- |
| `chat_faults` | `TypesOK`; of the Chat object `SentIsDurable`, `DenseSerials`, `KvNeverAhead`; `DirectoryIsSound`, `LinkIsSetOnce`, `ConnectedIsAttached`, `PushesArrive`, `SignalsAreSound`, `SessionsAreHonoured`, `AccountsAreSound` | 1.9 million |
| `chat_log` | `NoLostSend`, and that `ChatDO` implements `DurableLog` (`ImplementsDurableLog`) | 2.9 million |
| `chat_live` | `ExactlyOnce`, `FlushDrains` | 0.33 million |
| `chat_stranded` | violation of `EventuallyAcked` | |
| `chat_replay` | violation of `OneRowPerClientMsg` | |
| `chat_overlap` | violation of `NoLostSend` | |
| `send_path` | `TypeOK`, `NothingLost`, `SentIsStored`, `GenerationOrder`, `DeadIsShown` | 1.6 million |
| `send_live` | `OutboxDrains` | 0.37 million |
| `send_settles` | violation of `EventuallySettled` | |
| `send_generation` | violation of `OneMsgPerGeneration` | |
| `mls_group` | `TypesOK`, `OneHistory`, `CursorBacked`, `TreeFollowsRoster`, `DevicesConverge`; of the pool `PoolIsSound`, `KeysAreStocked` | 0.49 million |
| `parts` | `TypesOK`, `CursorCovers`, `ConsumedIsKept`, `ReceiveCatchesUp`, `SeenIsTrue`, `FramesAreReadRight`, `OpenIsUsable`, `ClosedIsQuiet`, `OneAccountAtATime`, `DeviceIsRegistered`, `SealedIsOpened`, `LobbyIsSound` | 1.4 million |

Several names are conjunctions over a composition: `SeenIsTrue` (`HistoryIsSound`,
`ReactionsAgree`, `PushAlertsAreRight`, `ListIsSound`), `OneAccountAtATime` (`DatabaseIsSound`,
`EngineIsSound`), `DeviceIsRegistered` (`IdentityIsKept`, `RegisteredIsBound`),
`SealedIsOpened` (`SealingIsSound`, `PeersAreKnown`),
`PushesArrive` (`NobodyIsMissed`, `OnlyDeadRowsGo`, `OneClient`), `SignalsAreSound` and
`AccountsAreSound`.

### Bounds

All bounds are constants of the modules; the configurations give their values.

* `ChatDO`: sends (`MaxSends`), calls with the same clientMsgId (`MaxCopies`),
  crashes, lost answers, failed calls, all of these (`MaxFaults`), and the slots
  for flushes under way. In `chat_faults` two overlapping flushes, two sends, any
  one fault: two slots already give every way in which one flush runs between two
  steps of another. In `chat_log` one flush at a time, three sends by two authors,
  a crash, a lost answer and a failed call in any order. In `chat_live` one failed
  call, members attaching and detaching. The slots are symmetric in `chat_faults`.
* `SendPath`: two messages of one chat (symmetric), two attempts, any four of:
  a kill, a lost connection, two failed enqueues or encryptions, an unacked send,
  a retry, a snapshot. Enough for a replay or a restart between any two steps of a
  dispatch, for a row to be given up, retried and sent, and for duplicate acks of
  one message while the other is under way. `send_settles` has two chats.
* `MlsGroup`: three devices, three events (changes and faults together),
  overlapping ticks on one of them, pages of two commits. `KeyPool`: two top-ups at a
  time, a target of two and a cap of three, so that the cap is met.
* Receiving: three rows in two epochs, one of them the device's own, pages of two,
  two passes at a time, one loss.
* `LocalHistory`: two chats, of two rows and one, one written message, a retry and
  a restart. `ChatList`: two accounts and two chats with a limit of one in a list, three
  requests of which two are under way, one change of rows by others, two sign-ins.
  `Connection`: two sockets, two timers and two waiting connects, so that
  each callback can meet its successor.
* Accounts: two of them, A to B and back to A (three switches), two opens and two
  readers; two bootstraps and two saves at a time; one mishap. Identity: two
  resolutions, two jolts. Push tokens: a publish and two registers, three changes of
  account. With a third open, four jolts or four attempts TLC found the same properties
  true in 0.1, 17 and more than 15 million states.
* Sealing: two accounts, one send and one opening at a time, three rows (an MLS message,
  an MLS frame of unknown kind, a version 1 reaction), a slip, a switch. Peer keys: two calls at a time, two editions.
  `PushAlert`: two messages of one sender and epoch whose keys are one generation apart,
  with a tolerance of one, and one of another chat with the same serial and another epoch;
  two epochs, two pushes handled one after the other, one new copy.
  `FrameReader`: every map of at most two entries from a few keys and values, whole and
  cut at every byte. `Reactions`: three taps, two tries, one upset. `DemoBot`: two
  visitors, three launches.
* Server: three people, one direct chat asked for from both sides and one group; two
  devices, two chats and two handlers; two authors and members, one outage, two socket
  changes; one APNs and one FCM token, two clients; two peers and two relayed calls;
  two verifications over a clock of three ticks with a TTL of one; two citizens, a like
  and two comments of a post with one comment to a page, two inquiries and one report
  allowed in an hour.

Deadlock checking is off in every run: a chat or a device on which nobody acts has
nothing to do, and the bounds end every behaviour.

### Fairness

* `ChatDO`, `FairSpec`: weak fairness of `FlushStep(f)` for each slot, that is,
  while the object is up its timers fire and Neon and the inboxes answer calls
  that do not fail. Clients, faults, late statements and KV get none. `FlushDrains`
  therefore says what the flush loop itself guarantees, and `EventuallyAcked` is
  refuted by a behaviour in which nothing waits for the environment.
* `SendPath`: weak fairness of the database (`Enqueue`), the worker (`Tick` repeats
  every 30 s and after every enqueue; `Dispatch` is its code between awaits), the end
  of backoffs, reconnecting and its hello, delivery on an open socket, and the
  server's flush and ack. None of users, faults, snapshots, or the storing of a refused
  send, which only another send to the chat brings about.
* `MlsGroup`: weak fairness of each device's change (`OpStep`) and each tick (`TickStep`):
  calls are answered or fail, and the 30 s timer ticks. `KeyPool`: weak fairness of the
  app being started (`Ready`) and of each top-up.
* `Receive`: weak fairness of the engine's boot (`Heal`) and of each pass's own steps;
  strong fairness of asking and of serving, which a socket that keeps opening and closing
  enables again and again. `ReceiveCatchesUp` has two premises: the socket opens and
  closes again and again, and the cached maximum is right from some time on. The code
  reconnects and asks on every hello; the maximum is set right by the put of a later
  send's flush, for which no fairness is assumed.

### What the violations show

Details are in "findings". A failed query strands accepted sends, because
`PERSIST_FAILED` schedules no further flush although the comment says the next
scheduled one picks them up (`chat_stranded`); a replayed send gets a second row,
because the unique index contains `createdAt` (`chat_replay`); overlapping flushes
clear stored sends that have no row yet (`chat_overlap`). On the device, an unacked
send never settles while the connection lasts (`send_settles`), because err frames
carry no clientMsgId and there is no ack timeout; and a restart reuses MLS
generations (`send_generation`), because no snapshot follows an encryption.

## 4. Proofs

Eight modules hold theorems. They speak of the specifications the runs check, with any
sets of users, devices, messages, chats, calls and so on, and any bounds. Assumptions
are the named ones of the constants (`ChatAssumption`, `SendAssumption`, ...): types, and
facts such as that 0 is no socket; every run evaluates those of its modules. Three
theorems of `ChatDO` have a hypothesis of their own:

* `NoLostSendCorrect`: `OneFlush`, flushes do not overlap. `chat_overlap` shows that
  it does not hold otherwise.
* `DurableLogImplemented`: `OneFlush`, and no replay (`MaxCopies = 1`), because the
  abstract log has each send once.
* `ExactlyOnceCorrect`: `NoTrouble`, that is the two, no lost answer, no restart, and at
  most one failed call. With two failed calls a flush gives up in the middle, leaves
  the entries it has written in the buffer, and the next flush writes them again.

The hypotheses are those of the instances in `chat_log.cfg` and `chat_live.cfg`.

Every safety theorem has the same shape: an inductive invariant, a lemma that it holds
at the start, one lemma for each action (`...Keeps`) under which each part is shown to
be kept, and a last step that joins them. Each inductive invariant was checked by TLC
as an invariant of the component before it was proved. A component's types are an
invariant of that kind too, seldom inductive alone; each has a section of its own
(`...TypesHold`).

**`ChatDOProofs`**

* `TypeCorrect`. `TypeOK` needs `HandInv`: a flush that waits for Neon holds a message,
  so what it inserts and what it tells is one.
* `DenseSerialsCorrect`, `SentIsDurableCorrect`, `KvNeverAheadCorrect`, by `SerialInv`:
  the counters in memory and in storage are at most one above a serial in Neon
  (`CounterInv`), although late answers may move them back; so is the serial each flush has in
  flight, and what it has assigned has its row (`FlushInv`); the same of statements
  nobody waits for (`OrphanInv`). An INSERT thus never leaves a gap: the row below it
  exists already, and rows are never removed.
* `NoLostSendCorrect`, by `LogInv`: what was accepted is, in order, what has a row and
  then the stored buffer, and a flush has written what lies before its place.
* `DurableLogImplemented`, by `LogInv`, `OrderInv` (rows come in the order of
  acceptance, statements under way included) and `SerialInv`: the initial state maps
  to the initial state, and every step to an accept, a persist, an ack or a stutter.
* `ExactlyOnceCorrect`, by `OnceInv`: every serial in Neon is below the counter a
  flush uses next, and the entries of the stored buffer have no row before their turn.

**`SendPathProofs`** (and `RanksProofs`, lemmas about subsequences by position, for the
table's ORDER BY)

* `TypeCorrect`: the due rows are those that are ordered, each once (`RowsInv`); a worker
  has rows of its chat, each once (`WorkInv`); no row is tried too often (`AttemptsInv`).
* `NothingLostCorrect`, `SentIsStoredCorrect`: acks on the socket are of stored
  messages (`AckInv`); a pending send is of the row its chat's worker waits for
  (`PendingInv`), so an ack, or its duplicate after a replay, never resolves another
  row's wait; a worker past its wait holds a stored message (`HandInv`). The properties
  alone are not inductive: `MarkSent` deletes a row on the strength of `stage` only.
* `GenerationOrderCorrect`: within a launch the generations of a chat grow along what its
  object took, then what is on the wire, up to the engine's (`GenerationInv`, `FreshInv`).
* `DeadIsShownCorrect`: in the first launch bubbles, rows and the worker's hand agree
  (`FirstLaunchInv`).

**`ReceiveProofs`**: `CursorNeverSkips`, `ConsumedRowsAreKept`, by `KeptInv`, which follows
a row whose key is used from the page it came in to the list and the table. `SeenHolds`
has four parts:

* Texts (`HistoryInv`): everything in a chat's list, in its table or in a hydration under
  way is an item, which is a peer's row, an own row that was acked or an own bubble that
  is not sent, with the id that goes with it (`BubblesInv`); the table has what the list
  shows as sent, and what the table has is shown or will be hydrated (`TableInv`,
  `LoadsInv`); a text that never failed is one item, shown once (`OwnInv`). It assumes
  that the client's ids are neither serials nor a peer's text, as uuids are not.
* Reactions (`ReactionsInv`): as long as nothing excused has happened, the pill is of the
  last tap if that is an add not given up, the server has the taps in their order, and
  the peer shows the newest it has applied.
* Alerts (`PushAlertInv`): an alert's two texts become what decrypting came to, and a
  copy only knows what the app had read; a handling that nothing excuses has read a copy
  with the group at the message's epoch, so it failed for a spent key or a reaction, and a
  key once spent stays so.
* The list of chats (`ListInv`): what each request has read, or will read, against what has
  come in since; a chat of the account that is not shown is one a request under way will
  bring, or one that the history variables name.

The types that need an argument: a reaction's rows that are due stand before those that
wait (`ReactionsFit`; a failed send is put back behind the due rows, and `InsertedDue`
says that this keeps them first), and a handling has both its texts before its alert is
posted, while there is one sealed copy at most (`AlertsFit`).

**`MlsGroupProofs`**

* `EnginesShareHistory`: every copy of a group state somebody could take up (engine,
  snapshot, Welcome, commit under way) is a stored commit or a stray one (`HistoryInv`).
* `CursorIsBacked` (`CursorInv`).
* `TreeIsFollowing`: what a change under way has done so far (`ChangeInv`), that trees have
  accounts of the list (`RosterInv`), and where each invitation is (`InviteInv`).
* `PoolHolds` (`BackedInv`, `CapInv`): who has checked the cap has room for his batch.
* `GroupTypesHold` (`DepthInv`): there is a number `n` such that no copy of a group state
  is deeper than `n`, and `n` and the changes whose commit is not made yet are together
  no more than the membership events so far. The guard of `publishCommit`'s model
  that the commit's epoch is one of `Epochs` therefore never keeps a commit back. `PoolTypesHold` is of the pool.
* `MlsIsSafe`: all of this of the specification that `mls_group` checks.

**`ServerProofs`**

* `SessionsHonoured` (`SessionInv`): what a verification has in hand, and every KV entry,
  was true of the session before its end.
* `DirectoryHolds`, `LinkStays` (`DirectoryInv`): what each call rests on at each of its
  awaits, and that two direct chats never have the same pair.
* `ConnectedStaysAttached` (`SubscriptionInv`): what a handler that runs alone has left of
  its frame.
* `PushesDoArrive` (`FanoutInv`, `RowsInv`, `ClientInv`).
* `SignalsHold` (`SignalsInv`, `ScreenInv`): a memo is as old as it says, and so is what it
  admits; an entry of a screen ends no later than the signals on their way to it allow, and
  the greatest watermark is one of a finite set.
* `AccountsHold` (`AccountInv`, `CountInv`, `ReferInv`, `ReportInv`): counters are
  cardinalities of the marks, and a page has as many comments as the counter says exactly
  when nothing is hidden or cut off (`PagesAreHonest`); what refers to a profile is gone with it; the reports of the hour are bounded by those counted and those under way.
* `ServerTypesHold` and `ServerIsSafe`: the types of all eight components, and the
  properties above, of the specification that `server` checks.

**`DeviceProofs`**

* `OpenStateIsUsable`, `ClosedStateIsQuiet` (`ConnectionInv`): as long as neither of the named
  races has come, one connect waits, one socket lives and one timer is set at most.
* `AccountsAreApart` (`DatabaseInv`, `EngineInv`): every file has its key; an open whose
  account is no longer active gives out nothing; a save that can reach a database
  reaches its own account's.
* `InstallIsRegistered` (`IdentityInv`, `PushTokensInv`): the stored seed is wrapped with
  the key that is there, everybody was given the stored identity, and the directory
  row has its keys.
* `LobbyHolds` (`BotInv`): the engine, its snapshot, the state file, the server's rows and
  the published commits, at each place a run may be cut.
* `CiphersAgree` (`SealInv`, `PeerInv`): what a send or an opening has in hand fits the chat
  whatever the cached group says; while a transaction is open the rows it saved are
  those of an edition and a time, and what a call will put is an edition published
  since it started.
* Each part's types. The one that needs an argument is the demo bot's: its group is no
  deeper than its runs, because a run commits once at most (`BotDepthInv`).

**`PartsProofs`**: a step of `MCParts` is a step of one part and a stutter of every other,
so the composed specification implements each part's own, and what is proved of the parts
holds of them together (`PartsAreSafe`, `PartsTypesHold`).

Trying to prove the types found four that did not hold for all constants, or were about a
bound of the model and nothing else. A typing signal of the only member is told to nobody
(`SignalsTypeOK`); `Sealing`'s rows are positions of `Inbound`; `Identity` had a bound on
the numbers of seeds that no code has; and without a pushed message there is none an alert
could be of (`PushAlertAssumption`).

**Only model-checked**

* Liveness: `FlushDrains`, `OutboxDrains`, `DevicesConverge`, `KeysAreStocked`,
  `ReceiveCatchesUp`. tlapm does not reason about ENABLED, hence not about
  fairness.
* `FramesAreReadRight`: what folds over the bytes of a frame compute, hence induction
  over data, which is out of the provers' reach.
* The frame reader's types: its position and the number of entries left are folded from
  length bytes as well. `PartsTypesHold` therefore excepts that part.

## 5. What is not modelled

PROJECT.json says of each component what is left out. In short: the layout of screens, the docs
site, calls (an empty stub), the upload service (one presigned URL); the ciphers
themselves, which are behind native libraries; texts, pictures and paging of the API;
the encoder of frames and the size limits no property is about; several groups on one
device, several installs of one person, the v1 fan-out, stopping the outbox worker on
sign-out, paging over several chats at the same time, and the schema migrations. Of the
alerts, OpenMLS's limit on how far ahead of the copy a message may be (1,000 generations)
and an app that returns to an older snapshot of its engine.

## 6. What the models showed

Beside the five findings, modelling, checking and proving turned up the following.
Where a property has an exception, this is it.

*Chat object and send path.*

* `outbox-worker.ts:85-95` treats "group not found" as terminal, `encrypted-transport.ts:41-46`
  as something a pending Welcome cures.
* `confirmOptimistic` after a restart finds nothing; fail, retry and confirm leave a stale
  row under the client id; deleting a failed bubble leaves its row.
* Reactions: a retry may be overtaken by a later tap (`hooks.ts:231` says the order is
  kept); a page overtaken by a live frame of a later tap leaves the wrong pill; reactions
  are in memory only while the cursor passes them.

*Receiving and the connection.*

* Rows of another epoch are classed as unreadable for good, the cursor passes them, and
  they are never read (`provider.tsx:277-279` says "never silently lost").
* An alert is generic after every commit until both the app and its sealed copy are at the
  message's epoch, because no group keeps past epochs (`engine.rs:571-573`,
  `NotificationService.swift:9-13`); so it is for a message that is further behind what
  the app has read of its sender than OpenMLS tolerates.
* `connect()` does not look again after its token came; the close event of an old socket
  drops a newer one; a throwing `getToken` leaves "connecting" for ever.
* An answer of `chat.list` or `chat.get` that comes after the sign-out is put into the
  emptied list, and the next account sees it; an answer read before a newer one and heard
  after it brings back a chat that was left; a chat past the limit of `chat.list` is shown
  only once it is refreshed; the local database of one account may get the list of the
  next (`store-provider.tsx:47-68`).
* Two `sub` frames interleave, a call that fails after others leaves the list and the
  attached sets different, and the frame of one device replaces the list of all.

*Groups.*

* A commit made on top of a refused one is accepted for its free epoch, and brings back
  removed accounts, or accounts nobody invited. An earlier form of `TreeFollowsRoster`
  without that exception fails with three devices and four events.
* `addMembers` merges locally before it publishes: a conflict or a lost request forks
  the device.
* `keys.ts` speaks of `SELECT ... FOR UPDATE` and takes no lock: overlapping publishes
  overshoot the cap. A crash between `publish` and the snapshot leaves KeyPackages on the
  server that nobody can use; a reset under a top-up leaves a stale size behind.

*The account on the device.*

* A to B and back to A during an open leaks the first handle; overlapping first opens
  can lose the passphrase; calls made after a sign-out wait and land in the next account's file.
* Nothing resets the engine on an account switch: the second account of a process never
  gets a client. Overlapping bootstraps reload an older snapshot; two copies for the
  extension share one temporary file.
* A publish or a register that is served after the account changed binds the install to
  the wrong account. `RegisteredIsBound` once named a narrower exception, which four
  changes of account refute: a register overtaken by another account's whole session also
  leaves the app believing it is registered.
* Clearing the Android seed deletes the key while the removal of the seed is pending:
  after a crash there is a seed nobody can read. After a clear nothing publishes until
  the next start, and the old device row stays.
* A lookup of a chat's group under way across an account switch caches the other
  database's answer. A peer-key call that sees rows another call's transaction has put and
  then rolls back serves old rows as fresh.

*The server.*

* Two people who start a chat with each other at the same time get two; a block that
  comes after the check is not seen; `linkMlsGroup` reads and updates without a transaction
  although it is meant to set once; a chat is reported as provisioned although an earlier
  invitation failed.
* The push hint trusts a socket whose device has not been served yet; FCM errors are
  swallowed, and its `INVALID_ARGUMENT` deletes a live token; deleting a dead row races its
  registration; nothing calls `push.unregister`.
* A session revoked while a verification is under way is cached for a full TTL after the
  purge (`auth.ts:6` says revocation is bounded by the TTL); open sockets stay.
* A removed member's typing and read signals pass while the memo lives, and his inbox stays
  attached. Typing on and off may overtake each other.
* A post's `commentsCount` says more than `post.getPost` lists from the 21st comment on, or
  as soon as a comment is hidden (`post.ts:90-93`); nothing in the repository hides one.
* `profile.create` and `chat.create` beside a `deleteSelf` leave rows of nobody; an unlike
  without a like, and the cascades, make the counters drift; the hourly limit of reports is
  checked without a lock.
* The demo bot, killed between its writes, founds a second lobby, loses a group, or leaves
  a gap in the commits.

## 7. Plan

Done: the components above, their runs, and the theorems, those of the composed
specifications included. Left: paging over several chats in `Receive`, and stopping the
outbox worker in `SendPath`.
