----------------------------- MODULE EngineLoop -----------------------------
(***************************************************************************)
(* The MLS engine of the signed-in account in the app: its bootstrap on    *)
(* every change of the auth store and the poll timer (mobile               *)
(* mls-auto-publish.ts), its restore and its snapshots (chat-mls-core      *)
(* client/index.ts), and the sealed copy of each snapshot for the push     *)
(* extension (nse-snapshot.ts).                                            *)
(*                                                                         *)
(* The native engine is one for the process, and bound to the first        *)
(* account that bootstraps: nothing in the app resets it on a sign-out.    *)
(***************************************************************************)
EXTENDS Naturals

CONSTANTS
  Owners,       \* the accounts that sign in
  Boots,        \* bound: onAuthChange() calls under way
  Saves,        \* bound: operations that have changed the engine and save it
  MaxChanges,   \* bound: changes of the engine
  MaxTurns,     \* bound: changes of the auth store and failures, but for the first
                \* sign-in of a launch
  NoOwner       \* null

ASSUME EngineLoopAssumption ==
  /\ NoOwner \notin Owners
  /\ MaxChanges \in Nat /\ MaxTurns \in Nat

VARIABLES
  loggedIn,     \* the user of the auth store, whose bearer and database are in use
  client,       \* the MlsClient: its account, and the account whose database it
                \* writes, NoOwner when that handle is closed
  readyFor,     \* bootstrappedForUserId
  polling,      \* pollTimer # null
  engine,       \* the native engine: its account, and the changes it holds
  boot,         \* boot[b]: an onAuthChange() past its guard
  save,         \* save[w]: an operation of the client, up to its persistSnapshot()
  row,          \* row[d][u]: the snapshot of u in d's database, {} for none
  tmp, sealed,  \* the two files of writeNseSnapshot(): whose snapshot, and its changes
  changes,      \* changes so far
  turns,        \* counter of the bound
  kept,         \* history: kept[u]: changes of u that some snapshot held
  newest,       \* history: the snapshot saved last
  strayed,      \* history: the account changed under a bootstrap
  doubled,      \* history: a bootstrap began under another one
  broken,       \* history: a bootstrap failed for another reason than the engine's account
  mixed         \* history: the copies overlapped or broke off, and none went
                \* through alone since

engineLoopVars == <<loggedIn, client, readyFor, polling, engine, boot, save, row, tmp, sealed,
                    changes, turns, kept, newest, strayed, doubled, broken, mixed>>

NoClient == [of |-> NoOwner, db |-> NoOwner]
NoBoot   == [pc |-> "none", user |-> NoOwner, of |-> NoOwner, db |-> NoOwner, got |-> {}]
NoSave   == [pc |-> "none", of |-> NoOwner, db |-> NoOwner, has |-> {}]
NoCopy   == [of |-> NoOwner, has |-> {}]

EngineLoopInit ==
  /\ loggedIn = NoOwner /\ client = NoClient /\ readyFor = NoOwner /\ polling = FALSE
  /\ engine = NoCopy
  /\ boot = [b \in Boots |-> NoBoot] /\ save = [w \in Saves |-> NoSave]
  /\ row = [d \in Owners |-> [u \in Owners |-> {}]]
  /\ tmp = NoCopy /\ sealed = NoCopy
  /\ changes = 0 /\ turns = 0
  /\ kept = [u \in Owners |-> {}] /\ newest = NoCopy
  /\ strayed = FALSE /\ doubled = FALSE /\ broken = FALSE /\ mixed = FALSE

Turn == turns < MaxTurns /\ turns' = turns + 1

Booting == {b \in Boots : boot[b].pc \in {"asking", "opening", "loading"}}
Copying == {w \in Saves : save[w].pc \in {"seal", "delete", "move"}}

files == <<row, tmp, sealed, kept, newest, mixed>>

-----------------------------------------------------------------------------
\* onAuthChange()

\* The database of an account that has left is closed.
Closed(r) == [r EXCEPT !.db = NoOwner]

Begins(boots) ==
  \E b \in Boots :
    /\ boots[b] = NoBoot /\ \A c \in Boots : c < b => boots[c] # NoBoot
    /\ boot' = [boots EXCEPT ![b] = [NoBoot EXCEPT !.pc = "asking", !.user = loggedIn']]

TornDownTimer == /\ polling' = FALSE      \* a mutant: a sign-out only stops the timer
                 /\ UNCHANGED <<client, readyFor>>
TornDown == polling' = FALSE /\ client' = NoClient /\ readyFor' = NoOwner

Leaves ==
  /\ Turn /\ loggedIn # NoOwner /\ loggedIn' = NoOwner
  /\ TornDown
  /\ boot' = [b \in Boots |-> Closed(boot[b])] /\ save' = [w \in Saves |-> Closed(save[w])]
  /\ strayed' = (strayed \/ Booting # {})
  /\ UNCHANGED <<engine, files, changes, doubled, broken>>

Enters(u) ==
  /\ IF engine = NoCopy /\ Booting = {} THEN UNCHANGED turns ELSE Turn
  /\ u # loggedIn /\ loggedIn' = u
  /\ client' = NoClient
  /\ Begins([b \in Boots |-> Closed(boot[b])]) /\ save' = [w \in Saves |-> Closed(save[w])]
  /\ strayed' = (strayed \/ Booting # {})
  /\ UNCHANGED <<readyFor, polling, engine, files, changes, doubled, broken>>

\* The store changes for the same user: a bootstrap under way is not looked at.
StoreTurns ==
  /\ Turn /\ loggedIn # NoOwner /\ (readyFor # loggedIn \/ client = NoClient)
  /\ client' = NoClient /\ UNCHANGED loggedIn
  /\ Begins(boot)
  /\ doubled' = (doubled \/ Booting # {})
  /\ UNCHANGED <<readyFor, polling, engine, save, files, changes, strayed, broken>>

-----------------------------------------------------------------------------
\* bootstrap()

Others == UNCHANGED <<loggedIn, save, changes, doubled, strayed>>

\* Token, identity, device row and account.me: the bearer's account by now.
AccountKnown(b) ==
  /\ boot[b].pc = "asking" /\ loggedIn # NoOwner
  /\ boot' = [boot EXCEPT ![b].pc = "opening", ![b].of = loggedIn]
  /\ UNCHANGED <<client, readyFor, polling, engine, files, turns, broken>> /\ Others

BootFails(b) ==
  /\ boot' = [boot EXCEPT ![b] = NoBoot] /\ readyFor' = NoOwner
  /\ UNCHANGED <<client, polling, engine, files>> /\ Others

\* getChatDb(), initEngine() and the query for the snapshot.
Bindable(u) == engine.of \in {NoOwner, u}

Opened(b) ==
  LET u == boot[b].of
  IN  /\ boot[b].pc = "opening" /\ loggedIn # NoOwner /\ UNCHANGED <<turns, broken>>
      /\ IF Bindable(u)
         THEN /\ engine' = [engine EXCEPT !.of = u]
              /\ boot' = [boot EXCEPT ![b] =
                   [@ EXCEPT !.pc = "loading", !.db = loggedIn, !.got = row[loggedIn][u]]]
              /\ UNCHANGED <<client, readyFor, polling, files>> /\ Others
         ELSE BootFails(b)

RestoredNothing(got) == engine          \* a mutant: the snapshot is not loaded
Restored(got) == IF got = {} THEN engine ELSE [engine EXCEPT !.has = got]

Restores(b) ==
  /\ boot[b].pc = "loading"
  /\ engine' = Restored(boot[b].got)
  /\ readyFor' = boot[b].user /\ client' = [of |-> boot[b].of, db |-> boot[b].db]
  /\ boot' = [boot EXCEPT ![b] = [NoBoot EXCEPT !.pc = "ticking"]]
  /\ UNCHANGED <<polling, files, turns, broken>> /\ Others

BootCallFails(b) == Turn /\ b \in Booting /\ BootFails(b) /\ broken' = TRUE

\* The first tick is over, however it went.
Ticked(b) ==
  /\ boot[b].pc = "ticking" /\ boot' = [boot EXCEPT ![b] = NoBoot] /\ polling' = TRUE
  /\ UNCHANGED <<client, readyFor, engine, files, turns, broken>> /\ Others

-----------------------------------------------------------------------------
\* The client's operations

Rest == UNCHANGED <<loggedIn, client, readyFor, polling, boot, strayed, doubled, broken>>

\* It creates KeyPackages, joins, encrypts, decrypts, adds, removes or merges.
Operate(w) ==
  /\ save[w] = NoSave /\ \A v \in Saves : v < w => save[v] # NoSave
  /\ client # NoClient
  /\ changes < MaxChanges /\ changes' = changes + 1
  /\ engine' = [engine EXCEPT !.has = @ \cup {changes + 1}]
  /\ save' = [save EXCEPT ![w] = [pc |-> "changed", of |-> client.of, db |-> client.db,
                                       has |-> {}]]
  /\ UNCHANGED <<files, turns>> /\ Rest

\* persistSnapshot(): the dump and its upsert, which fails on a closed handle.
Persist(w) ==
  LET s == save[w]
      u == s.of
  IN  /\ s.pc = "changed" /\ UNCHANGED <<engine, tmp, sealed, changes, turns>> /\ Rest
      /\ IF s.db = NoOwner
         THEN save' = [save EXCEPT ![w] = NoSave] /\ UNCHANGED <<row, kept, newest, mixed>>
         ELSE /\ row' = [row EXCEPT ![s.db][u] = engine.has]
              /\ save' = [save EXCEPT ![w] = [pc |-> "seal", of |-> u, db |-> NoOwner,
                                            has |-> engine.has]]
              /\ kept' = [kept EXCEPT ![u] = @ \cup engine.has]
              /\ newest' = [of |-> u, has |-> engine.has]
              /\ mixed' = (Copying # {})

\* writeNseSnapshot(): the temporary file, the deletion of the old one, the move.
FileUnchanged == UNCHANGED <<engine, row, kept, newest, changes>> /\ Rest

Seal(w) ==
  /\ save[w].pc = "seal" /\ tmp' = [of |-> save[w].of, has |-> save[w].has]
  /\ save' = [save EXCEPT ![w].pc = "delete"]
  /\ UNCHANGED <<sealed, mixed, turns>> /\ FileUnchanged

DeleteOld(w) ==
  /\ save[w].pc = "delete" /\ sealed' = NoCopy
  /\ save' = [save EXCEPT ![w].pc = "move"]
  /\ UNCHANGED <<tmp, mixed, turns>> /\ FileUnchanged

\* A move of a file that another one has moved fails, and the failure is swallowed.
MovedCopy == IF tmp = NoCopy THEN sealed ELSE tmp

Move(w) ==
  /\ save[w].pc = "move" /\ sealed' = MovedCopy /\ tmp' = NoCopy
  /\ save' = [save EXCEPT ![w] = NoSave]
  /\ UNCHANGED <<mixed, turns>> /\ FileUnchanged

\* A file operation fails.
CopyFails(w) ==
  /\ Turn /\ w \in Copying /\ save' = [save EXCEPT ![w] = NoSave] /\ mixed' = TRUE
  /\ UNCHANGED <<tmp, sealed>> /\ FileUnchanged

ProcessEnds ==
  /\ loggedIn' = NoOwner /\ client' = NoClient /\ readyFor' = NoOwner /\ polling' = FALSE
  /\ engine' = NoCopy
  /\ boot' = [b \in Boots |-> NoBoot] /\ save' = [w \in Saves |-> NoSave]
  /\ mixed' = (mixed \/ Copying # {})
  /\ UNCHANGED <<row, tmp, sealed, kept, newest, changes, turns, strayed, doubled, broken>>

-----------------------------------------------------------------------------
BootStep(b) == AccountKnown(b) \/ Opened(b) \/ Restores(b) \/ Ticked(b) \/ BootCallFails(b)

SaveStep(w) ==
  Operate(w) \/ Persist(w) \/ Seal(w) \/ DeleteOld(w) \/ Move(w) \/ CopyFails(w)

EngineLoopNext ==
  \/ Leaves \/ StoreTurns \/ ProcessEnds
  \/ \E u \in Owners : Enters(u)
  \/ \E b \in Boots : BootStep(b)
  \/ \E w \in Saves : SaveStep(w)

EngineLoopSpec == EngineLoopInit /\ [][EngineLoopNext]_engineLoopVars

-----------------------------------------------------------------------------
\* Properties

EngineLoopTypeOK ==
  /\ {loggedIn, readyFor, engine.of, client.of, client.db} \subseteq Owners \cup {NoOwner}
  /\ engine.has \subseteq 1 .. changes /\ polling \in BOOLEAN
  /\ \A b \in Boots : boot[b].pc \in {"none", "asking", "opening", "loading", "ticking"}
  /\ \A w \in Saves : save[w].pc \in {"none", "changed", "seal", "delete", "move"}
  /\ \A d, u \in Owners : row[d][u] \subseteq 1 .. changes

\* What an account's snapshot once held, it holds for good, and the engine in use
\* holds it too: a key that was spent is not there again, and one that was published
\* is not gone. A bootstrap that begins under another one may break that, as it loads
\* a snapshot that the first one's client has gone beyond, and one under which the
\* account changes, as it writes another account's file (mls-auto-publish.ts:258-265,
\* client/index.ts:240-247, 693-695).
SnapshotsOnlyGrow ==
  doubled \/ strayed \/
    /\ \A u \in Owners : kept[u] \subseteq row[u][u]
    /\ client # NoClient => kept[client.of] \subseteq engine.has

\* The copy for the push extension is that of the snapshot saved last, whenever no
\* save is under way and the last one overlapped no other and did not break off. Two
\* at once share the temporary file, and may leave none (nse-snapshot.ts:83-90).
CopyIsNewest == Copying = {} /\ ~mixed => sealed = newest

\* Snapshots and their copy keep what the engine did.
SnapshotsAreKept == SnapshotsOnlyGrow /\ CopyIsNewest

\* The client and the engine are those of the account that is signed in, and poll for
\* it, and that account has a client once its bootstrap is over, unless one failed.
\* Two things break that: an account that changes under a bootstrap, whose result is
\* taken for the new one, and an engine bound to an account that was signed in before,
\* which every bootstrap fails on until the app is launched again
\* (mls-auto-publish.ts:248-281, ChatMlsCoreModule.kt initEngine).
ClientIsSignedIn ==
  /\ client # NoClient =>
       /\ engine.of = client.of
       /\ polling \/ \E b \in Boots : boot[b].pc = "ticking"
       /\ strayed \/ {client.of, client.db} = {loggedIn}
  /\ loggedIn # NoOwner /\ Booting = {} =>
       client # NoClient \/ ~Bindable(loggedIn) \/ broken

\* The account that is signed in has its own engine, and what the engine did is kept.
EngineIsSound == SnapshotsAreKept /\ ClientIsSignedIn

=============================================================================
