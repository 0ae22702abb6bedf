------------------------------ MODULE Sealing ------------------------------
(***************************************************************************)
(* How one chat's messages become ciphertext and plaintext again on one    *)
(* device: which of the two ciphers a send takes, what a row that cannot   *)
(* be opened is held for, and the cached answer to "which MLS group has    *)
(* this chat" that both depend on (chat/crypto-pipe.ts, chat/encrypted-    *)
(* transport.ts, chat-ws/validators.ts, mobile/lib/chat/group-resolver.ts, *)
(* store-provider.tsx, create-chat.ts).                                    *)
(*                                                                         *)
(* A frame is a function from the fields it has to the types of their      *)
(* values. Epochs and pages are the subject of module Receive, the ratchet *)
(* that of SendPath.                                                       *)
(***************************************************************************)
EXTENDS Naturals, Sequences

CONSTANTS
  Holders,  \* accounts that use the device; all are members of the chat
  Senders,  \* the outbox worker: it sends the chat's messages one after another
  Openers,  \* bound: rows being opened at the same time, live and from a backfill
  Inbound,  \* the rows that come: the cipher's version, whether this device wrote the row,
            \* whether a box is for it, and the frame inside
  MaxSlips, \* bound: reads and calls that fail
  MaxShifts \* bound: account switches

ASSUME SealingAssumption ==
  /\ \A i \in DOMAIN Inbound :
       Inbound[i].version \in {1, 2} /\ Inbound[i].own \in BOOLEAN /\ Inbound[i].mine \in BOOLEAN
  /\ Senders \cap Openers = {} /\ MaxSlips \in Nat /\ MaxShifts \in Nat

Works == Senders \cup Openers

VARIABLES
  holder,        \* the account signed in
  link,          \* link[h]: chats.mls_group_id is set in h's database
  native,        \* the native engine: off, without the chat's group, or with it
  resolved,      \* the resolver's cache entry of the chat: absent, null, group
  mirroring,     \* a write of the link and the clearing of the cache that follows it
  work,          \* work[w]: a send or an opening
  consumed,      \* rows whose MLS key is used up
  slips, shifts, \* counters of the bounds
  lateAnswer,    \* history: the cache entry is an answer of another account's database
  halfLinked     \* history: a link was written and the clearing never came

sealingVars == <<holder, link, native, resolved, mirroring, work, consumed, slips, shifts,
                 lateAnswer, halfLinked>>

NoWork == [pc |-> "idle", body |-> "none", row |-> 0, db |-> 0, wire |-> <<>>,
            result |-> "none", why |-> "none"]

SealingInit ==
  /\ holder \in Holders /\ link = [h \in Holders |-> FALSE] /\ native = "off"
  /\ resolved = "absent" /\ mirroring = [pc |-> "idle", db |-> 0]
  /\ work = [w \in Works |-> NoWork] /\ consumed = {}
  /\ slips = 0 /\ shifts = 0 /\ lateAnswer = FALSE /\ halfLinked = FALSE

Slip == slips < MaxSlips /\ slips' = slips + 1

-----------------------------------------------------------------------------
\* Frames (crypto-pipe.ts)

\* buildFrame(): a message carries no `kind`, and `sender` only when there is a name.
BuildFrame(v, body, named) ==
  IF body = "rx"
  THEN [v |-> v, ts |-> "number", kind |-> "rx", target |-> "string", emoji |-> "string",
        op |-> "add"]
  ELSE IF named THEN [v |-> v, ts |-> "number", text |-> "string", sender |-> "string"]
                ELSE [v |-> v, ts |-> "number", text |-> "string"]

Has(f, field, types) == field \in DOMAIN f /\ f[field] \in types

\* parseFrame(): what is handed on, "bad" when it throws.
ParseFrame(f, v) ==
  IF ~(Has(f, "v", {v}) /\ Has(f, "ts", {"number"})) THEN "bad"
  ELSE IF Has(f, "kind", {"rx"})
       THEN IF /\ Has(f, "target", {"string"}) /\ Has(f, "emoji", {"string"})
               /\ Has(f, "op", {"add", "del"})
            THEN "rx" ELSE "bad"
  ELSE IF Has(f, "text", {"string"}) /\ ("sender" \in DOMAIN f => f["sender"] = "string")
       THEN "msg" ELSE "bad"

\* encryptOutboundMls(): the version byte, then the MLS message, and no nonce.
SealGroup(body, named) ==
  [version |-> 2, nonce |-> 0, size |-> 1 + 1, frame |-> BuildFrame(2, body, named)]

\* ChatCrypto.box(): 16 bytes of MAC before what is sealed, here of one byte.
NonceBytes == 24
MacBytes == 16
Box(frame, d) == [nonce |-> NonceBytes, size |-> MacBytes + 1, to |-> d, frame |-> frame]

\* ChatCrypto.boxOpen(): with the key it was sealed for, and not too short.
BoxOpens(row) == row.mine

\* encryptOutbound(): a box for each device, none for no device.
SealBoxes(body, devices) ==
  LET box(d) == Box(BuildFrame(1, body, FALSE), d)
  IN  {[version |-> 1, nonce |-> box(d).nonce, size |-> 1 + box(d).size, to |-> d,
        frame |-> box(d).frame] : d \in devices}

\* validateSendFrame(), of the object the frame goes to.
ValidSendFrame(wire) ==
  \/ wire.version = 2 /\ wire.nonce = 0 /\ wire.size >= 2
  \/ wire.version = 1 /\ wire.nonce = NonceBytes /\ wire.size >= MacBytes + 1

\* isRecoverableDecryptReason()
RecoverableButEngine(why) == why \in {"no link", "no group"}   \* a mutant: no engine is final
RecoverableReason(why) == why \in {"no link", "no group", "no engine"}

-----------------------------------------------------------------------------
\* Steps of a call

WorkIs(w, r) == work' = [work EXCEPT ![w] = r]
WorkEnds(w, result, why) ==
  WorkIs(w, [NoWork EXCEPT !.pc = "done", !.body = work[w].body, !.row = work[w].row,
                             !.wire = work[w].wire, !.result = result, !.why = why])
FailsToOpen(w, why) ==
  IF RecoverableReason(why) THEN WorkIs(w, [NoWork EXCEPT !.pc = "done", !.result = "later"])
  ELSE WorkEnds(w, "never", why)
FailsToSend(w, result) == WorkIs(w, [NoWork EXCEPT !.pc = "done", !.result = result])
HandsOn(w, body) == IF body = "bad" THEN FailsToOpen(w, "format") ELSE WorkEnds(w, "shown", body)
world == <<holder, link, native, mirroring, shifts, halfLinked>>

\* Where a call goes on with the resolver's answer.
AfterLookup(r, linked) ==
  [r EXCEPT !.pc = CASE r.body = "none" -> (IF linked THEN "opening" ELSE "unlinked")
                     [] r.body = "rx"   -> (IF linked THEN "sealing" ELSE "boxing")
                     [] r.body = "msg"  -> (IF linked THEN "naming" ELSE "boxing")]

Starts(w, r) ==
  /\ work[w].pc \in {"idle", "done"}
  /\ WorkIs(w, IF resolved = "absent" THEN [r EXCEPT !.pc = "asking"]
                ELSE AfterLookup(r, resolved = "group"))
  /\ UNCHANGED <<world, resolved, consumed, slips, lateAnswer>>

\* send(), and decryptOne() of a row of either cipher.
SendBody(w, body) == Starts(w, [NoWork EXCEPT !.body = body])
OpenGroupRow(w, i) == Inbound[i].version = 2 /\ Starts(w, [NoWork EXCEPT !.row = i])
OpenBoxRow(w, i) ==
  /\ Inbound[i].version = 1 /\ work[w].pc \in {"idle", "done"}
  /\ WorkIs(w, [NoWork EXCEPT !.row = i, !.pc = "keys"])
  /\ UNCHANGED <<world, resolved, consumed, slips, lateAnswer>>

\* resolveChatGroupId(): the handle, then the row, and its answer goes to the cache.
LooksUp(w) ==
  /\ work[w].pc = "asking"
  /\ WorkIs(w, [work[w] EXCEPT !.pc = "reading", !.db = holder])
  /\ UNCHANGED <<world, resolved, consumed, slips, lateAnswer>>

Resolves(w) ==
  /\ work[w].pc = "reading"
  /\ LET linked == link[work[w].db]
     IN  /\ resolved' = IF linked THEN "group" ELSE "null"
         /\ WorkIs(w, AfterLookup([work[w] EXCEPT !.db = 0], linked))
         /\ lateAnswer' = (work[w].db # holder)
  /\ UNCHANGED <<world, consumed, slips>>

LookupFails(w) ==
  /\ Slip /\ work[w].pc = "reading"
  /\ IF work[w].body = "none" THEN FailsToOpen(w, "lookup") ELSE FailsToSend(w, "retry")
  /\ UNCHANGED <<world, resolved, consumed, lateAnswer>>

\* frameBody(): a name that cannot be had is left out.
Names(w) ==
  /\ work[w].pc = "naming"
  /\ \E named \in BOOLEAN :
       WorkIs(w, [work[w] EXCEPT !.pc = "sealing", !.db = IF named THEN 1 ELSE 0])
  /\ UNCHANGED <<world, resolved, consumed, slips, lateAnswer>>

Seals(w) ==
  /\ work[w].pc = "sealing"
  /\ CASE native = "off"   -> FailsToSend(w, "retry")
       [] native = "empty" -> FailsToSend(w, "dead")
       [] native = "group" -> WorkIs(w, [work[w] EXCEPT !.pc = "posting",
                                            !.wire = SealGroup(work[w].body, work[w].db = 1)])
  /\ UNCHANGED <<world, resolved, consumed, slips, lateAnswer>>

Posts(w) ==
  /\ work[w].pc = "posting"
  /\ WorkEnds(w, IF ValidSendFrame(work[w].wire) THEN "sent" ELSE "refused", "none")
  /\ UNCHANGED <<world, resolved, consumed, slips, lateAnswer>>

\* The worker names no device: no result, which it takes for a failure to retry.
Boxes(w) ==
  /\ work[w].pc = "boxing" /\ SealBoxes(work[w].body, {}) = {}
  /\ FailsToSend(w, "retry")
  /\ UNCHANGED <<world, resolved, consumed, slips, lateAnswer>>

\* decryptInbound() of an MLS message; its key is used up whatever the frame says.
OpensGroup(w) ==
  /\ work[w].pc \in {"opening", "unlinked"}
  /\ LET i == work[w].row
         there == work[w].pc = "opening" /\ native = "group"
         body == ParseFrame(Inbound[i].frame, 2)
     IN  /\ CASE work[w].pc = "unlinked" -> FailsToOpen(w, "no link")
              [] work[w].pc = "opening" /\ native = "off"   -> FailsToOpen(w, "no engine")
              [] work[w].pc = "opening" /\ native = "empty" -> FailsToOpen(w, "no group")
              [] there /\ (Inbound[i].own \/ i \in consumed) -> FailsToOpen(w, "key gone")
              [] there /\ i \notin consumed /\ ~Inbound[i].own -> HandsOn(w, body)
         /\ consumed' = IF there /\ ~Inbound[i].own THEN consumed \cup {i} ELSE consumed
  /\ UNCHANGED <<world, resolved, slips, lateAnswer>>

\* decryptInbound() of a box, with whatever keys the directory has for the sender.
OpensBox(w) ==
  /\ work[w].pc = "keys"
  /\ LET row == Inbound[work[w].row] IN
     \/ FailsToOpen(w, "keys") /\ Slip
     \/ UNCHANGED slips /\ ~BoxOpens(row) /\ FailsToOpen(w, "box")
     \/ UNCHANGED slips /\ BoxOpens(row) /\ HandsOn(w, ParseFrame(row.frame, 1))
  /\ UNCHANGED <<world, resolved, consumed, lateAnswer>>

-----------------------------------------------------------------------------
\* The link, the engine and the account

callVars == <<work, consumed>>

\* chat.list names the group, or it was created here: the row is written, in the
\* database of the handle, and then the cache entry is cleared.
GroupKnown ==
  /\ mirroring.pc = "idle" /\ mirroring' = [pc |-> "writing", db |-> holder]
  /\ UNCHANGED <<holder, link, native, resolved, callVars, slips, shifts, lateAnswer, halfLinked>>

LinkWritten ==
  /\ mirroring.pc = "writing" /\ mirroring' = [mirroring EXCEPT !.pc = "clearing"]
  /\ link' = [link EXCEPT ![mirroring.db] = TRUE]
  /\ UNCHANGED <<holder, native, resolved, callVars, slips, shifts, lateAnswer, halfLinked>>

ClearedNothing == UNCHANGED <<resolved, lateAnswer, halfLinked>>   \* a mutant: no entry goes
Cleared == resolved' = "absent" /\ lateAnswer' = FALSE /\ halfLinked' = FALSE

CacheCleared ==
  /\ mirroring.pc = "clearing" /\ mirroring' = [pc |-> "idle", db |-> 0]
  /\ Cleared
  /\ UNCHANGED <<holder, link, native, callVars, slips, shifts>>

\* relinkGroupChatId or linkMlsGroup throws between the two.
ClearingFails ==
  /\ Slip /\ mirroring.pc = "clearing" /\ mirroring' = [pc |-> "idle", db |-> 0]
  /\ halfLinked' = (halfLinked \/ mirroring.db = holder)
  /\ UNCHANGED <<holder, link, native, resolved, callVars, shifts, lateAnswer>>

EngineGains ==
  /\ \/ native = "off" /\ native' = "empty"
     \/ native = "empty" /\ native' = "group"
  /\ UNCHANGED <<holder, link, resolved, mirroring, callVars, slips, shifts, lateAnswer,
                 halfLinked>>

\* onUserChange(): the database and the cache entry go, the calls under way go on.
SwitchAccount ==
  /\ shifts < MaxShifts /\ shifts' = shifts + 1
  /\ \E h \in Holders \ {holder} : holder' = h
  /\ Cleared
  /\ UNCHANGED <<link, native, mirroring, callVars, slips>>

-----------------------------------------------------------------------------
SealingNext ==
  \/ \E w \in Senders, body \in {"msg", "rx"} : SendBody(w, body)
  \/ \E w \in Openers, i \in DOMAIN Inbound : OpenGroupRow(w, i) \/ OpenBoxRow(w, i)
  \/ \E w \in Works :
       \/ LooksUp(w) \/ Resolves(w) \/ LookupFails(w) \/ Names(w) \/ Seals(w) \/ Posts(w)
       \/ Boxes(w) \/ OpensGroup(w) \/ OpensBox(w)
  \/ GroupKnown \/ LinkWritten \/ CacheCleared \/ ClearingFails \/ EngineGains \/ SwitchAccount

SealingSpec == SealingInit /\ [][SealingNext]_sealingVars

-----------------------------------------------------------------------------
\* Properties

SealingTypeOK ==
  /\ holder \in Holders /\ link \in [Holders -> BOOLEAN]
  /\ native \in {"off", "empty", "group"} /\ resolved \in {"absent", "null", "group"}
  /\ mirroring.pc \in {"idle", "writing", "clearing"} /\ consumed \subseteq DOMAIN Inbound
  /\ \A w \in Works :
       /\ work[w].body \in {"none", "msg", "rx"} /\ work[w].row \in {0} \cup DOMAIN Inbound
       /\ work[w].result \in {"none", "sent", "refused", "retry", "dead", "shown", "later",
                             "never"}

\* The cached answer is that of the account's own database, or the entry is about to
\* be cleared. Except: a lookup that was under way when the account changed brings the
\* other database's answer, and a failed call keeps an entry from being cleared.
CacheIsRight ==
  /\ resolved = "null" /\ link[holder] =>
       lateAnswer \/ halfLinked \/ mirroring = [pc |-> "clearing", db |-> holder]
  /\ resolved = "group" /\ ~link[holder] => lateAnswer

\* A row that is given up for good could never have been opened by this device: its own,
\* read before, another device's box, or a frame of a kind it does not know. Except: the
\* database or the key directory failed to answer, which the code takes for final.
LostForGood(w) == work[w].result = "never" /\ work[w].why \notin {"lookup", "keys"}
RowsAreHeld ==
  \A w \in Works : LostForGood(w) =>
    LET i == work[w].row IN
    \/ Inbound[i].version = 2 /\ (Inbound[i].own \/ i \in consumed)
    \/ Inbound[i].version = 1 /\ ~Inbound[i].mine
    \/ ParseFrame(Inbound[i].frame, Inbound[i].version) = "bad"

\* What is sent passes the object's validation and reads as what was sealed, a
\* reaction without a name.
SentIsReadable ==
  \A w \in Works : work[w].wire # <<>> /\ work[w].pc = "done" =>
    /\ work[w].result = "sent"
    /\ ParseFrame(work[w].wire.frame, work[w].wire.version) = work[w].body
    /\ "sender" \in DOMAIN work[w].wire.frame => work[w].body = "msg"

\* Sealing and opening agree about the chat's group, about the frames, and about what
\* may still be read (group-resolver.ts, crypto-pipe.ts, encrypted-transport.ts:44-53).
SealingIsSound == CacheIsRight /\ RowsAreHeld /\ SentIsReadable
=============================================================================
