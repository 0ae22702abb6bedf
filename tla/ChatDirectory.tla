---------------------------- MODULE ChatDirectory ----------------------------
(***************************************************************************)
(* The rows of chats and their members behind the API, and the sequence of *)
(* calls by which an app starts a chat: create the row or find it, create  *)
(* an MLS group, link the two, invite the others (api/routers/chat.ts and  *)
(* blocks.ts, mobile create-chat.ts and store-provider.tsx).               *)
(*                                                                         *)
(* The handlers of create and linkMlsGroup read and write without a        *)
(* transaction, so their queries are steps of their own.                   *)
(***************************************************************************)
EXTENDS Naturals, Sequences, FiniteSets

CONSTANTS
  Persons,
  Callers,      \* bound: the users who start chats, block and leave
  Asked,        \* bound: the chats asked for, <<kind, the others>>
  MaxChats,     \* bound: chat rows
  MaxCalls,     \* bound: calls of createNewChat
  MaxEdits      \* bound: membership changes, blocks and lost calls

ASSUME DirectoryAssumption ==
  /\ Callers \subseteq Persons
  /\ Asked \subseteq {"direct", "group"} \X SUBSET Persons
  /\ \A ask \in Asked : IsFiniteSet(ask[2])
  /\ MaxChats \in Nat /\ MaxCalls \in Nat /\ MaxEdits \in Nat

VARIABLES
  chats,        \* the Chat rows: kind, members, mlsGroupId (0 for null), and who created it
  groups,       \* groups[g]: who founded MLS group g or was invited to it
  link,         \* link[u]: chats.mls_group_id on u's device, by chat
  blocks,       \* the Blocklist rows <<blocker, blocked>>
  start,        \* start[u]: u's call of createNewChat
  calls, edits, \* counters of the bounds
  met,          \* history: <<chat, pair>> when one of a pair in the chat blocked the other
  createRaced,  \* history: a row was created while another was for the same pair
  blockRaced,   \* history: a block came after the check of a create for the pair
  linkRaced,    \* history: two links of one chat overlapped
  grown,        \* history: addMembers was called
  uninvited     \* history: chats whose founder failed to invite everybody

directoryVars == <<chats, groups, link, blocks, start, calls, edits, met, createRaced,
                   blockRaced, linkRaced, grown, uninvited>>
past == <<met, createRaced, blockRaced, linkRaced, grown, uninvited>>

NoStart == [pc |-> "idle", kind |-> "direct", peers |-> {}, chat |-> 0, group |-> 0,
            provisioned |-> FALSE]

DirectoryInit ==
  /\ chats = <<>> /\ groups = <<>>
  /\ link = [u \in Persons |-> [c \in 1 .. MaxChats |-> 0]]
  /\ blocks = {} /\ start = [u \in Callers |-> NoStart]
  /\ calls = 0 /\ edits = 0
  /\ met = {} /\ createRaced = FALSE /\ blockRaced = FALSE /\ linkRaced = FALSE
  /\ grown = FALSE /\ uninvited = {}

-----------------------------------------------------------------------------
\* chat.create

At(u, pc) == start[u].pc = pc
Go(u, changed) == start' = [start EXCEPT ![u] = changed]

NewChat(u, kind, peers) ==
  /\ At(u, "idle") /\ calls < MaxCalls /\ calls' = calls + 1
  /\ u \notin peers /\ peers # {} /\ (kind = "direct" => Cardinality(peers) = 1)
  /\ Go(u, [NoStart EXCEPT !.pc = "asked", !.kind = kind, !.peers = peers])
  /\ UNCHANGED <<chats, groups, link, blocks, edits, past>>

BlockedOneWay(u, v) == <<u, v>> \in blocks          \* a mutant: only the caller's blocks count
Blocked(u, v) == <<u, v>> \in blocks \/ <<v, u>> \in blocks

CheckBlocks(u) ==
  /\ At(u, "asked")
  /\ Go(u, IF \E v \in start[u].peers : Blocked(u, v) THEN NoStart
           ELSE [start[u] EXCEPT !.pc = "allowed"])
  /\ UNCHANGED <<chats, groups, link, blocks, calls, edits, past>>

\* findFirst: a direct chat with both of them among its members, whoever else is.
CandidatesNone(u) == {}                             \* a mutant: direct chats are created afresh
Candidates(u) ==
  IF start[u].kind = "group" THEN {}
  ELSE {c \in DOMAIN chats : chats[c].kind = "direct"
                             /\ start[u].peers \cup {u} \subseteq chats[c].members}

FindDirect(u) ==
  /\ At(u, "allowed")
  /\ IF Candidates(u) = {} THEN Go(u, [start[u] EXCEPT !.pc = "absent"])
     ELSE \E c \in Candidates(u) : Go(u, [start[u] EXCEPT !.pc = "found", !.chat = c])
  /\ UNCHANGED <<chats, groups, link, blocks, calls, edits, past>>

SamePair(u, v) ==
  /\ start[u].kind = "direct" /\ start[v].kind = "direct"
  /\ start[u].peers \cup {u} = start[v].peers \cup {v}

CreateRow(u) ==
  /\ At(u, "absent") /\ Len(chats) < MaxChats
  /\ chats' = Append(chats, [kind |-> start[u].kind, members |-> start[u].peers \cup {u},
                             by |-> u, group |-> 0])
  /\ Go(u, [start[u] EXCEPT !.pc = "created", !.chat = Len(chats) + 1])
  /\ createRaced' = (createRaced \/ \E v \in Callers \ {u} : At(v, "absent") /\ SamePair(u, v))
  /\ UNCHANGED <<groups, link, blocks, calls, edits, met, blockRaced, linkRaced, grown,
                 uninvited>>

-----------------------------------------------------------------------------
\* createNewChat after the row

\* mirrorChatsToLocalDb: a null from the server keeps the local link.
Mirrored(u) ==
  [c \in 1 .. MaxChats |->
     IF c \in DOMAIN chats /\ u \in chats[c].members /\ chats[c].group # 0
     THEN chats[c].group ELSE link[u][c]]

Mirror(u) == link' = [link EXCEPT ![u] = Mirrored(u)]

\* chat.get, of a member: an existing chat that is linked needs nothing more.
ProvisionedIfThere(c) == TRUE                       \* a mutant: every existing chat counts
Provisioned(c) == chats[c].group # 0

GetChat(u) ==
  /\ At(u, "found")
  /\ IF u \notin chats[start[u].chat].members
     THEN Go(u, NoStart) /\ UNCHANGED link
     ELSE IF Provisioned(start[u].chat)
     THEN Go(u, [start[u] EXCEPT !.pc = "done", !.provisioned = TRUE]) /\ Mirror(u)
     ELSE Go(u, [start[u] EXCEPT !.pc = "created"]) /\ UNCHANGED link
  /\ UNCHANGED <<chats, groups, blocks, calls, edits, past>>

\* MlsClient.createGroup links the chat on the device at once.
CreateGroup(u) ==
  /\ At(u, "created")
  /\ groups' = Append(groups, {u})
  /\ link' = [link EXCEPT ![u][start[u].chat] = Len(groups) + 1]
  /\ Go(u, [start[u] EXCEPT !.pc = "grouped", !.group = Len(groups) + 1])
  /\ UNCHANGED <<chats, blocks, calls, edits, past>>

\* linkMlsGroup reads the row: only a member, only a chat without a group.
UnlinkedAlways(c) == TRUE                           \* a mutant: the conflict is not checked
Unlinked(c) == chats[c].group = 0

LinkRead(u) ==
  /\ At(u, "grouped")
  /\ LET c == start[u].chat
     IN  Go(u, IF u \in chats[c].members /\ Unlinked(c)
               THEN [start[u] EXCEPT !.pc = "linking"] ELSE NoStart)
  /\ UNCHANGED <<chats, groups, link, blocks, calls, edits, past>>

LinkWrite(u) ==
  /\ At(u, "linking")
  /\ chats' = [chats EXCEPT ![start[u].chat].group = start[u].group]
  /\ Go(u, [start[u] EXCEPT !.pc = "linked"])
  /\ linkRaced' = (linkRaced \/ \E v \in Callers \ {u} :
                                  At(v, "linking") /\ start[v].chat = start[u].chat)
  /\ UNCHANGED <<groups, link, blocks, calls, edits, met, createRaced, blockRaced, grown,
                 uninvited>>

\* addMembersByAccounts invites those for whom it finds a KeyPackage and skips the
\* rest; without any it fails, and the call reports that.
Invite(u) ==
  /\ At(u, "linked")
  /\ \E invited \in SUBSET start[u].peers :
       /\ groups' = [groups EXCEPT ![start[u].group] = @ \cup invited]
       /\ Go(u, [start[u] EXCEPT !.pc = "done", !.provisioned = invited # {}])
       /\ uninvited' = IF invited = start[u].peers THEN uninvited
                       ELSE uninvited \cup {start[u].chat}
  /\ Mirror(u)
  /\ UNCHANGED <<chats, blocks, calls, edits, met, createRaced, blockRaced, linkRaced, grown>>

\* The result is used and the next chat can be started.
Finish(u) ==
  /\ At(u, "done") /\ Go(u, NoStart)
  /\ UNCHANGED <<chats, groups, link, blocks, calls, edits, past>>

\* chat.list, on a reconnect or a push.
Refresh(u) ==
  /\ Mirrored(u) # link[u] /\ Mirror(u)
  /\ UNCHANGED <<chats, groups, blocks, start, calls, edits, past>>

-----------------------------------------------------------------------------
\* Membership, blocks, failures

Edit == edits < MaxEdits /\ edits' = edits + 1

\* The call ends where it is: an answer is lost, or the app dies.
Abandon(u) ==
  /\ Edit /\ start[u].pc \notin {"idle", "done"}
  /\ uninvited' = IF At(u, "linked") THEN uninvited \cup {start[u].chat} ELSE uninvited
  /\ Go(u, NoStart)
  /\ UNCHANGED <<chats, groups, link, blocks, calls, met, createRaced, blockRaced, linkRaced,
                 grown>>

LeaveChat(u, c) ==
  /\ Edit /\ u \in chats[c].members
  /\ chats' = [chats EXCEPT ![c].members = @ \ {u}]
  /\ UNCHANGED <<groups, link, blocks, start, calls, past>>

\* Any member may add anybody, to a direct chat too, blocked or not.
AddMember(u, c, v) ==
  /\ Edit /\ u \in chats[c].members /\ v \notin chats[c].members
  /\ chats' = [chats EXCEPT ![c].members = @ \cup {v}]
  /\ grown' = TRUE
  /\ UNCHANGED <<groups, link, blocks, start, calls, met, createRaced, blockRaced, linkRaced,
                 uninvited>>

RemoveMember(u, c, v) ==
  /\ Edit /\ {u, v} \subseteq chats[c].members /\ u # v
  /\ chats' = [chats EXCEPT ![c].members = @ \ {v}]
  /\ UNCHANGED <<groups, link, blocks, start, calls, past>>

PastCheck == {"allowed", "absent"}

Block(u, v) ==
  /\ Edit /\ u # v /\ <<u, v>> \notin blocks
  /\ blocks' = blocks \cup {<<u, v>>}
  /\ LET both == {c \in DOMAIN chats : {u, v} \subseteq chats[c].members}
     IN  met' = met \cup {<<c, {u, v}>> : c \in both}
  /\ blockRaced' = (blockRaced \/ \E w \in Callers :
       start[w].pc \in PastCheck /\ {u, v} \subseteq start[w].peers \cup {w})
  /\ UNCHANGED <<chats, groups, link, start, calls, createRaced, linkRaced, grown, uninvited>>

Unblock(u, v) ==
  /\ Edit /\ <<u, v>> \in blocks
  /\ blocks' = blocks \ {<<u, v>>}
  /\ UNCHANGED <<chats, groups, link, start, calls, past>>

-----------------------------------------------------------------------------
StartStep(u) ==
  \/ CheckBlocks(u) \/ FindDirect(u) \/ CreateRow(u) \/ GetChat(u) \/ CreateGroup(u)
  \/ LinkRead(u) \/ LinkWrite(u) \/ Invite(u) \/ Finish(u)

EditStep(u) ==
  \/ Abandon(u)
  \/ \E v \in Persons : Block(u, v) \/ Unblock(u, v)
  \/ \E c \in DOMAIN chats :
       \/ LeaveChat(u, c)
       \/ \E v \in Persons : AddMember(u, c, v) \/ RemoveMember(u, c, v)

DirectoryNext ==
  \/ \E u \in Callers :
       \/ StartStep(u) \/ EditStep(u)
       \/ \E ask \in Asked : NewChat(u, ask[1], ask[2])
  \/ \E u \in Persons : Refresh(u)

DirectorySpec == DirectoryInit /\ [][DirectoryNext]_directoryVars

-----------------------------------------------------------------------------
\* Properties

DirectoryTypeOK ==
  /\ \A c \in DOMAIN chats :
       /\ chats[c].kind \in {"direct", "group"} /\ chats[c].by \in Callers
       /\ chats[c].members \subseteq Persons
       /\ chats[c].group \in 0 .. Len(groups)
  /\ \A g \in DOMAIN groups : groups[g] \subseteq Persons
  /\ \A u \in Persons, c \in 1 .. MaxChats : link[u][c] \in 0 .. Len(groups)
  /\ blocks \subseteq Persons \X Persons
  /\ \A u \in Callers : start[u].chat \in 0 .. Len(chats) /\ start[u].group \in 0 .. Len(groups)
  /\ met \subseteq (DOMAIN chats) \X (SUBSET Persons) /\ uninvited \subseteq DOMAIN chats

\* Two users share one direct chat, whoever of them starts it and however often.
\* There are two ways to a second one: two creates that both looked before either
\* inserted, and a direct chat that addMembers widened (chat.ts:192-234, 449-454).
OneDirectChat ==
  \A c, d \in DOMAIN chats :
    /\ c # d /\ chats[c].kind = "direct" /\ chats[d].kind = "direct"
    /\ Cardinality(chats[c].members \cap chats[d].members) > 1
    => createRaced \/ grown

\* A chat keeps the group it was linked to, unless two first links overlapped: the
\* later update wins, and the winner of the check has invited its peers elsewhere
\* (chat.ts:239-240, 250-276).
LinkIsSetOnce ==
  [][\A c \in DOMAIN chats :
       chats[c].group # 0 => chats'[c].group = chats[c].group \/ linkRaced']_directoryVars

\* Nobody is in a chat with its creator after a block between the two, unless they
\* were in it before, the block came between the check and the insert, or addMembers
\* put him there, which looks at no block; create does not look at the blocks among
\* the others either (chat.ts:162-190, 449-454).
NoChatAcrossBlock ==
  \A c \in DOMAIN chats : \A v \in chats[c].members :
    /\ chats[c].by \in chats[c].members
    /\ {<<chats[c].by, v>>, <<v, chats[c].by>>} \cap blocks # {}
    => <<c, {chats[c].by, v}>> \in met \/ blockRaced \/ grown

\* What create refuses is not there afterwards.
ChatsMayExist == OneDirectChat /\ NoChatAcrossBlock

\* When createNewChat says that the group is provisioned, the caller and the peers
\* are in the group the chat is linked to, or the call that links it is about to
\* invite them. It is wrong when an earlier call could not invite them all, because
\* a linked chat counts as provisioned, when two links overlapped, and in a chat
\* that addMembers widened (create-chat.ts:62-82, 113-127).
ProvisionedIsInvited ==
  \A u \in Callers :
    LET c == start[u].chat
    IN  At(u, "done") /\ start[u].provisioned =>
          \/ chats[c].group # 0
             /\ start[u].peers \cup {u} \subseteq groups[chats[c].group]
          \/ \E v \in Callers : At(v, "linked") /\ start[v].chat = c
          \/ c \in uninvited \/ linkRaced \/ grown

\* The chats that are there may be, and those reported as provisioned are.
DirectoryIsSound == ChatsMayExist /\ ProvisionedIsInvited

=============================================================================
