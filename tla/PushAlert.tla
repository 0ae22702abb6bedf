------------------------------ MODULE PushAlert ------------------------------
(***************************************************************************)
(* The alerts of chat pushes on one device (NotificationService.swift,     *)
(* MlsNseDecryptor.swift, SessionsFirebaseMessagingService.kt,             *)
(* MlsAndroidDecryptor.kt, engine.rs NseEngine), beside the app that uses  *)
(* up message keys, goes from one epoch of a group to another, and replaces *)
(* the sealed copy of its engine (nse-snapshot.ts).                        *)
(*                                                                         *)
(* A message may be pushed several times, pushes are handled side by side, *)
(* and the system ends a handling that takes too long from another thread.  *)
(***************************************************************************)
EXTENDS Naturals, FiniteSets

CONSTANTS
  Pushed,      \* the messages: records [chat, epoch, by, gen, serial, rx], where gen is the
               \* generation in the epoch of by's ratchet
  Epochs,      \* bound: the epochs of a group, each standing for its secrets
  Tolerance,   \* OpenMLS's out-of-order tolerance, which nothing overrides
  Extensions,  \* bound: pushes handled at one time
  MaxPushes,   \* bound: pushes delivered
  MaxCopies    \* bound: copies written after the first

ASSUME PushAlertAssumption ==
  /\ Pushed # {} /\ MaxPushes \in Nat /\ MaxCopies \in Nat
  /\ Epochs \subseteq Nat /\ \A m \in Pushed : m.epoch \in Epochs

VARIABLES
  appGroups,   \* the MLS groups of the app's engine, each at its epoch: [chat, epoch]
  read,        \* messages the app's engine has decrypted
  sealedCopy,  \* mls-snapshot-v1.bin: a set of at most one copy [groups, read]
  draft,       \* writeNseSnapshot() under way: the copy in the .tmp file, and whether
               \* the old file was deleted
  handling,    \* handling[h]: a push being handled
  tray,        \* alerts on the screen: [for, title, body]
  delivered,   \* counter of the bound: pushes
  written,     \* counter of the bound: copies
  excusedFor   \* history: messages whose handling found no file or no seed, or was
               \* ended by the system, or whose chat the copy did not have, or had
               \* at another epoch than the message's

pushAlertVars ==
  <<appGroups, read, sealedCopy, draft, handling, tray, delivered, written, excusedFor>>

NoDraft == [there |-> FALSE, deleted |-> FALSE, copy |-> [groups |-> {}, read |-> {}]]

\* pc: none; opened (the file was read); text or failed (what decrypt() came to).
\* `changed` and `ending` count the assignments to the notification's title and body
\* that didReceive() and serviceExtensionTimeWillExpire() have made.
NoPush == [pc |-> "none", for |-> CHOOSE m \in Pushed : TRUE, copy |-> {},
              title |-> "", body |-> "", changed |-> 0, ending |-> 0]

\* The group that encrypted a message, and what an engine may have.
GroupOf(m)  == [chat |-> m.chat, epoch |-> m.epoch]
GroupStates == [chat : {m.chat : m \in Pushed}, epoch : Epochs]

\* Among the messages that an engine has decrypted one took the key of m, or one by the
\* same sender is so much later that the key has been deleted.
Spent(taken, m) ==
  \E x \in taken : /\ GroupOf(x) = GroupOf(m) /\ x.by = m.by
                   /\ x.gen = m.gen \/ x.gen >= m.gen + Tolerance

PushAlertInit ==
  /\ appGroups = {GroupOf(CHOOSE m \in Pushed : TRUE)} /\ read = {}
  /\ sealedCopy = {[groups |-> appGroups, read |-> {}]} /\ draft = NoDraft
  /\ handling = [h \in Extensions |-> NoPush] /\ tray = {}
  /\ delivered = 0 /\ written = 0 /\ excusedFor = {}

appVars  == <<appGroups, read>>
fileVars == <<sealedCopy, draft, written>>

-----------------------------------------------------------------------------
\* The app

\* It takes a message in, live or by backfill, or joins a chat's group.
AppReads(m) ==
  /\ GroupOf(m) \in appGroups /\ ~Spent(read, m) /\ read' = read \cup {m}
  /\ UNCHANGED <<appGroups, fileVars, handling, tray, delivered, excusedFor>>

AppJoins(g) ==
  /\ ~\E h \in appGroups : h.chat = g.chat
  /\ appGroups' = appGroups \cup {g}
  /\ UNCHANGED <<read, fileVars, handling, tray, delivered, excusedFor>>

\* It merges a commit, its own or another's, and the old epoch's keys are gone: no group
\* is built with past epochs. The epochs of a fork have numbers of their own.
AppCommits(g, e) ==
  /\ e > g.epoch
  /\ appGroups' = (appGroups \ {g}) \cup {[chat |-> g.chat, epoch |-> e]}
  /\ UNCHANGED <<read, fileVars, handling, tray, delivered, excusedFor>>

\* writeNseSnapshot(): the temporary file, the deletion of the old one, the move.
WriteDraft ==
  /\ ~draft.there /\ written < MaxCopies /\ written' = written + 1
  /\ draft' = [there |-> TRUE, deleted |-> FALSE, copy |-> [groups |-> appGroups, read |-> read]]
  /\ UNCHANGED <<appVars, sealedCopy, handling, tray, delivered, excusedFor>>

DeleteCopy ==
  /\ draft.there /\ ~draft.deleted /\ draft' = [draft EXCEPT !.deleted = TRUE]
  /\ sealedCopy' = {}
  /\ UNCHANGED <<appVars, written, handling, tray, delivered, excusedFor>>

MoveDraft ==
  /\ draft.deleted /\ sealedCopy' = {draft.copy} /\ draft' = NoDraft
  /\ UNCHANGED <<appVars, written, handling, tray, delivered, excusedFor>>

-----------------------------------------------------------------------------
\* The extension

Excused(m) == excusedFor' = excusedFor \cup {m}

\* didReceive(), onMessageReceived(): loadSealedSnapshot().
PushArrives(h, m) ==
  /\ delivered < MaxPushes /\ delivered' = delivered + 1
  /\ handling[h] = NoPush
  /\ handling' = [handling EXCEPT ![h] =
        [NoPush EXCEPT !.pc = "opened", !.for = m, !.copy = sealedCopy]]
  /\ IF \E c \in sealedCopy : GroupOf(m) \in c.groups THEN UNCHANGED excusedFor ELSE Excused(m)
  /\ UNCHANGED <<appVars, fileVars, tray>>

\* process_nse_application() and parsePlaintext(): the copy has the group at the epoch of
\* the message, the key is there, and the frame has a text. What decrypting does to the
\* copy's engine dies with it.
Decrypts(c, m) == GroupOf(m) \in c.groups /\ ~Spent(c.read, m) /\ ~m.rx
WrittenBack(c, m) ==                  \* a mutant: the engine's state is stored again
  IF c \in sealedCopy THEN {[c EXCEPT !.read = @ \cup {m}]} ELSE sealedCopy
Discarded(c, m) == sealedCopy

DecryptPush(h) ==
  /\ handling[h].pc = "opened"
  /\ \/ \E c \in handling[h].copy :
          /\ Decrypts(c, handling[h].for)
          /\ handling' = [handling EXCEPT ![h].pc = "text"]
          /\ sealedCopy' = Discarded(c, handling[h].for)
          /\ UNCHANGED excusedFor
     \/ /\ ~\E c \in handling[h].copy : Decrypts(c, handling[h].for)
        /\ handling' = [handling EXCEPT ![h].pc = "failed"]
        /\ UNCHANGED <<sealedCopy, excusedFor>>
     \/ /\ handling' = [handling EXCEPT ![h].pc = "failed"]          \* no seed
        /\ Excused(handling[h].for) /\ UNCHANGED sealedCopy
  /\ UNCHANGED <<appVars, draft, written, tray, delivered>>

\* Title, then body: of the text and its sender, or the generic ones.
Changed(c, n, what) == IF n = 0 THEN [c EXCEPT !.title = what] ELSE [c EXCEPT !.body = what]

Assign(h) ==
  /\ handling[h].pc \in {"text", "failed"} /\ handling[h].changed < 2
  /\ LET c == handling[h]
     IN  handling' = [handling EXCEPT ![h] =
                        [Changed(c, c.changed, c.pc) EXCEPT !.changed = c.changed + 1]]
  /\ UNCHANGED <<appVars, fileVars, tray, delivered, excusedFor>>

\* iOS ends the extension: another thread puts the generic texts in the same object.
End(h) ==
  /\ handling[h].pc # "none" /\ handling[h].ending < 2
  /\ LET c == handling[h]
     IN  handling' = [handling EXCEPT ![h] =
                        [Changed(c, c.ending, "failed") EXCEPT !.ending = c.ending + 1]]
  /\ Excused(handling[h].for)
  /\ UNCHANGED <<appVars, fileVars, tray, delivered>>

\* The content is handed over once, by the thread that is first; an alert takes the
\* place of one with the same collapse id, which is the serial alone.
ReplacesNone(a, m) == FALSE           \* a mutant: every push has an alert of its own
Replaces(a, m) == a.for.serial = m.serial

Post(h) ==
  /\ handling[h].pc # "none" /\ (handling[h].changed = 2 \/ handling[h].ending = 2)
  /\ LET c == handling[h]
     IN  tray' = {a \in tray : ~Replaces(a, c.for)} \cup
                   {[for |-> c.for, title |-> c.title, body |-> c.body]}
  /\ handling' = [handling EXCEPT ![h] = NoPush]
  /\ UNCHANGED <<appVars, fileVars, delivered, excusedFor>>

-----------------------------------------------------------------------------
PushAlertNext ==
  \/ \E m \in Pushed : AppReads(m) \/ AppJoins(GroupOf(m)) \/ \E h \in Extensions : PushArrives(h, m)
  \/ \E g \in appGroups, e \in Epochs : AppCommits(g, e)
  \/ WriteDraft \/ DeleteCopy \/ MoveDraft
  \/ \E h \in Extensions : DecryptPush(h) \/ Assign(h) \/ End(h) \/ Post(h)

PushAlertSpec == PushAlertInit /\ [][PushAlertNext]_pushAlertVars

-----------------------------------------------------------------------------
\* Properties

PushAlertTypeOK ==
  /\ appGroups \subseteq GroupStates /\ read \subseteq Pushed
  /\ Cardinality(sealedCopy) <= 1
  /\ \A c \in sealedCopy : c.groups \subseteq GroupStates /\ c.read \subseteq Pushed
  /\ \A h \in Extensions : handling[h].pc \in {"none", "opened", "text", "failed"}
                             /\ handling[h].changed \in 0 .. 2 /\ handling[h].ending \in 0 .. 2
  /\ \A a \in tray : a.title \in {"text", "failed"} /\ a.body \in {"text", "failed"}
  /\ delivered \in 0 .. MaxPushes /\ written \in 0 .. MaxCopies /\ excusedFor \subseteq Pushed

\* An alert shows its message, sender and text, also when the message is pushed again
\* or the app goes on meanwhile: the extension spends no key of the copy it reads
\* (engine.rs:478-481). It is generic for a reaction, for a message whose key the app
\* has spent, and after a mishap: no copy or no seed, a copy without the chat's group
\* or with another epoch of it, as after every commit until both the app and its copy
\* are at the message's epoch (NotificationService.swift:9-13). Only the end of the
\* extension's time may leave it with the title of the one and the body of the other.
AlertsAreRight ==
  \A a \in tray : a.for \notin excusedFor =>
    /\ a.title = a.body
    /\ a.title = "failed" => a.for.rx \/ Spent(read, a.for)
    /\ a.title = "text" => ~a.for.rx

\* A push that is delivered again takes its alert's place (the comment at
\* SessionsFirebaseMessagingService.kt:67-69).
AlertsDoNotStack == \A a, b \in tray : a.for = b.for => a = b

PushAlertsAreRight == AlertsAreRight /\ AlertsDoNotStack

=============================================================================
