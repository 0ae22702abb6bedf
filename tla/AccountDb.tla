------------------------------ MODULE AccountDb ------------------------------
(***************************************************************************)
(* The local database of the signed-in account: one file for each account, *)
(* one passphrase for all of them, and the import of the file all accounts *)
(* once shared (chat-db client.ts, key.ts, migrations.ts, legacy-import.ts;*)
(* mobile store/auth.ts, which switches the account).                      *)
(*                                                                         *)
(* Opening takes a dozen awaits. The account may change at any of them, to *)
(* another one and back.                                                   *)
(***************************************************************************)
EXTENDS Naturals

CONSTANTS
  Accounts,     \* the accounts that sign in on this device
  Legacy,       \* those with rows in the file all accounts shared
  Opens,        \* bound: openForUser() calls whose connection is not closed
  Readers,      \* bound: getChatDb() calls that wait at one time
  MaxSwitches,  \* bound: changes of the account
  MaxMishaps,   \* bound: failed opens and restarts
  Nobody        \* activeUserId is null

ASSUME AccountDbAssumption ==
  /\ Opens \subseteq Nat \ {0} /\ Nobody \notin Accounts /\ Legacy \subseteq Accounts
  /\ MaxSwitches \in Nat /\ MaxMishaps \in Nat

VARIABLES
  active,       \* activeUserId
  cached,       \* the open whose handle is cached, 0 for null
  current,      \* `opening`: the open that calls join, 0 for null
  opens,        \* opens[k]: a call of openForUser(), and its connection afterwards
  gate,         \* the calls in waitForActiveUser()
  reader,       \* reader[r]: the open that call awaits, 0 for none
  storedKey,    \* the passphrase in SecureStore, 0 for none
  file,         \* file[u]: its passphrase (0: no file yet), schema, marker, and one of
                \* the rows the shared file had for the account
  made,         \* passphrases generated
  switches, mishaps,    \* counters of the bounds
  touched,      \* history: accounts whose row the app has rewritten or deleted
  rivals,       \* history: accounts opened again while a connection of theirs was there
  raced         \* history: a passphrase was generated while another was being stored

accountDbVars == <<active, cached, current, opens, gate, reader, storedKey, file, made,
                   switches, mishaps, touched, rivals, raced>>

NoOpen  == [pc |-> "none", user |-> Nobody, key |-> 0]
NewFile == [key |-> 0, migrated |-> FALSE, marked |-> FALSE, row |-> "absent"]

AccountDbInit ==
  /\ active = Nobody /\ cached = 0 /\ current = 0
  /\ opens = [k \in Opens |-> NoOpen]
  /\ gate = {} /\ reader = [r \in Readers |-> 0]
  /\ storedKey = 0 /\ file = [u \in Accounts |-> NewFile] /\ made = 0
  /\ switches = 0 /\ mishaps = 0
  /\ touched = {} /\ rivals = {} /\ raced = FALSE

Mishap == mishaps < MaxMishaps /\ mishaps' = mishaps + 1

-----------------------------------------------------------------------------
\* getChatDb()

Waiting(k) == {r \in Readers : reader[r] = k}
Moved(who, to) == [r \in Readers |-> IF r \in who THEN to ELSE reader[r]]

\* Calls enter the loop, or go round it, with these opens and this `opening`: they
\* return what is cached, wait for a user, join the open or start it.
Loop(who, os, op) ==
  \/ /\ who = {} \/ cached' # 0
     /\ reader' = Moved(who, 0) /\ gate' = gate \ who
     /\ opens' = os /\ current' = op /\ UNCHANGED rivals
  \/ /\ who # {} /\ cached' = 0 /\ active' = Nobody
     /\ reader' = Moved(who, 0) /\ gate' = gate \cup who
     /\ opens' = os /\ current' = op /\ UNCHANGED rivals
  \/ /\ who # {} /\ cached' = 0 /\ active' # Nobody
     /\ gate' = gate \ who
     /\ \/ op # 0 /\ opens' = os /\ current' = op /\ UNCHANGED rivals
        \/ /\ op = 0 /\ current' \in Opens /\ os[current'] = NoOpen
           /\ \A k \in Opens : k < current' => os[k] # NoOpen
           /\ opens' = [os EXCEPT ![current'] = [pc |-> "key", user |-> active', key |-> 0]]
           /\ rivals' = rivals \cup ({active'} \cap {os[k].user : k \in Opens})
     /\ reader' = Moved(who, current')

GetChatDb(r) ==
  /\ reader[r] = 0 /\ r \notin gate /\ cached = 0
  /\ UNCHANGED <<active, cached>> /\ Loop({r}, opens, current)
  /\ UNCHANGED <<storedKey, file, made, switches, mishaps, touched, raced>>

\* setActiveChatDbUser(): sign-in, sign-out or another account.
SetActive(u) ==
  /\ u # active /\ switches < MaxSwitches /\ switches' = switches + 1
  /\ active' = u /\ cached' = 0
  /\ LET left == IF cached = 0 THEN opens ELSE [opens EXCEPT ![cached] = NoOpen]
     IN  Loop(IF u = Nobody THEN {} ELSE gate, left, 0)
  /\ UNCHANGED <<storedKey, file, made, mishaps, touched, raced>>

-----------------------------------------------------------------------------
\* openForUser()

Advances(k, pc) == opens' = [opens EXCEPT ![k].pc = pc]
OpenUnchanged ==
  UNCHANGED <<active, cached, current, gate, reader, switches, mishaps, touched, rivals>>

\* getOrCreatePassphrase()
ReadKey(k) ==
  /\ opens[k].pc = "key"
  /\ IF storedKey # 0
     THEN opens' = [opens EXCEPT ![k] = [@ EXCEPT !.pc = "open", !.key = storedKey]]
          /\ UNCHANGED <<made, raced>>
     ELSE /\ made' = made + 1
          /\ opens' = [opens EXCEPT ![k] = [@ EXCEPT !.pc = "store", !.key = made + 1]]
          /\ raced' = (raced \/ \E j \in Opens : opens[j].pc = "store")
  /\ OpenUnchanged /\ UNCHANGED <<storedKey, file>>

KeptNothing(key) == storedKey           \* a mutant: the passphrase is used and not kept
Kept(key) == key

StoreKey(k) ==
  /\ opens[k].pc = "store" /\ storedKey' = Kept(opens[k].key) /\ Advances(k, "open")
  /\ OpenUnchanged /\ UNCHANGED <<file, made, raced>>

\* The first statements: a new file gets the passphrase, a file of another one is
\* no database. A failed open leaves its connection open.
Throws(k) ==
  /\ opens' = [opens EXCEPT ![k] = IF @.pc \in {"key", "store"} THEN NoOpen
                                   ELSE [@ EXCEPT !.pc = "broken"]]
  /\ reader' = Moved(Waiting(k), 0)
  /\ current' = IF current = k THEN 0 ELSE current
  /\ UNCHANGED <<active, cached, gate, switches, touched, rivals, storedKey, made, raced>>

OpenFile(k) ==
  LET u == opens[k].user
  IN  /\ opens[k].pc = "open" /\ UNCHANGED mishaps
      /\ IF file[u].key \in {0, opens[k].key}
         THEN /\ file' = [file EXCEPT ![u].key = opens[k].key]
              /\ Advances(k, IF file[u].migrated THEN "marker" ELSE "migrate")
              /\ OpenUnchanged /\ UNCHANGED <<storedKey, made, raced>>
         ELSE Throws(k) /\ UNCHANGED file

\* runMigrations(), one transaction; its first CREATE fails when another connection
\* has migrated the file since the version was read.
Migrate(k) ==
  LET u == opens[k].user
  IN  /\ opens[k].pc = "migrate" /\ UNCHANGED mishaps
      /\ IF file[u].migrated
         THEN Throws(k) /\ UNCHANGED file
         ELSE /\ file' = [file EXCEPT ![u].migrated = TRUE] /\ Advances(k, "marker")
              /\ OpenUnchanged /\ UNCHANGED <<storedKey, made, raced>>

ReadMarker(k) ==
  /\ opens[k].pc = "marker"
  /\ Advances(k, IF file[opens[k].user].marked THEN "ready" ELSE "import")
  /\ OpenUnchanged /\ UNCHANGED <<storedKey, file, made, raced>>

\* importLegacyChatDb(): INSERT OR IGNORE, one transaction.
Copied(u, row) == IF row = "absent" /\ u \in Legacy THEN "legacy" ELSE row

Import(k) ==
  /\ opens[k].pc = "import" /\ Advances(k, "mark")
  /\ file' = [file EXCEPT ![opens[k].user].row = Copied(opens[k].user, @)]
  /\ OpenUnchanged /\ UNCHANGED <<storedKey, made, raced>>

MarkedNothing(f) == f                   \* a mutant: the marker is not written
Marked(f) == [f EXCEPT !.marked = TRUE]

Mark(k) ==
  /\ opens[k].pc = "mark" /\ Advances(k, "ready")
  /\ file' = [file EXCEPT ![opens[k].user] = Marked(@)]
  /\ OpenUnchanged /\ UNCHANGED <<storedKey, made, raced>>

\* The promise resolves and all its calls go on: they cache the handle and return
\* it, or close it and go round the loop when the account is another one by now.
SwitchedNever(k) == FALSE               \* a mutant: the account is not looked at again
Switched(k) == active # opens[k].user

Resolve(k) ==
  /\ opens[k].pc = "ready" /\ UNCHANGED active
  /\ LET op == IF current = k THEN 0 ELSE current
     IN  IF Switched(k)
         THEN UNCHANGED cached /\ Loop(Waiting(k), [opens EXCEPT ![k] = NoOpen], op)
         ELSE cached' = k /\ Loop(Waiting(k), [opens EXCEPT ![k].pc = "held"], op)
  /\ UNCHANGED <<storedKey, file, made, switches, mishaps, touched, raced>>

\* SecureStore or a statement fails.
OpenFails(k) ==
  /\ Mishap /\ opens[k].pc \notin {"none", "held", "broken"}
  /\ Throws(k) /\ UNCHANGED file

-----------------------------------------------------------------------------
\* The app rewrites or deletes the row over a handle it was given.
Touch(k, row) ==
  /\ opens[k].pc = "held" /\ opens[k].user \in Legacy
  /\ file' = [file EXCEPT ![opens[k].user].row = row]
  /\ touched' = touched \cup {opens[k].user}
  /\ UNCHANGED <<active, cached, current, opens, gate, reader, storedKey, made, switches,
                 mishaps, rivals, raced>>

Relaunch ==
  /\ Mishap
  /\ active' = Nobody /\ cached' = 0 /\ current' = 0
  /\ opens' = [k \in Opens |-> NoOpen] /\ gate' = {} /\ reader' = [r \in Readers |-> 0]
  /\ UNCHANGED <<storedKey, file, made, switches, touched, rivals, raced>>

-----------------------------------------------------------------------------
OpenStep(k) ==
  \/ ReadKey(k) \/ StoreKey(k) \/ OpenFile(k) \/ Migrate(k) \/ ReadMarker(k) \/ Import(k)
  \/ Mark(k) \/ Resolve(k) \/ OpenFails(k)

AccountDbNext ==
  \/ \E u \in Accounts \cup {Nobody} : SetActive(u)
  \/ \E r \in Readers : GetChatDb(r)
  \/ \E k \in Opens : OpenStep(k) \/ Touch(k, "own") \/ Touch(k, "absent")
  \/ Relaunch

AccountDbSpec == AccountDbInit /\ [][AccountDbNext]_accountDbVars

-----------------------------------------------------------------------------
\* Properties

AccountDbTypeOK ==
  /\ active \in Accounts \cup {Nobody} /\ cached \in Opens \cup {0} /\ current \in Opens \cup {0}
  /\ opens \in [Opens ->
       [pc : {"none", "key", "store", "open", "migrate", "marker", "import", "mark", "ready",
              "held", "broken"}, user : Accounts \cup {Nobody}, key : 0 .. made]]
  /\ gate \subseteq Readers /\ reader \in [Readers -> Opens \cup {0}]
  /\ file \in [Accounts -> [key : 0 .. made, migrated : BOOLEAN, marked : BOOLEAN,
                            row : {"absent", "legacy", "own"}]]
  /\ touched \cup rivals \subseteq Accounts /\ storedKey \in 0 .. made /\ raced \in BOOLEAN

\* What getChatDb() hands out is the database of the account that is signed in, and
\* the connection of an account that is no longer is closed. A handle survives when
\* its account left and came back while it was being opened: the second open takes
\* the place of the first, which nobody closes then (client.ts:47-64, 95-124).
HandlesAreActive ==
  /\ cached # 0 => opens[cached].pc = "held" /\ opens[cached].user = active
  /\ \A k \in Opens : opens[k].pc = "held" /\ k # cached => opens[k].user \in rivals

\* The passphrase that is kept opens every file there is, through switches, failed
\* opens and restarts. Two first opens at once may lose one: both generate, and
\* the file of the first to store is never readable again (key.ts:32-44).
KeyOpensFiles == \A u \in Accounts : file[u].key \in {0, storedKey} \/ raced

\* The shared file's rows are not lost, and once imported they never come back over
\* what the app did with them since, unless two opens of the file overlapped: the
\* later one imports with the marker it has read before (client.ts:80-92).
ImportedOnce ==
  \A u \in Accounts :
    /\ u \in Legacy /\ file[u].marked => file[u].row # "absent" \/ u \in touched
    /\ u \in touched /\ file[u].row = "legacy" => u \in rivals

\* An account's file stays readable and keeps its rows.
FilesAreKept == KeyOpensFiles /\ ImportedOnce

\* The app works on the file of the account that is signed in, and every account's
\* file keeps its rows and its key.
DatabaseIsSound == HandlesAreActive /\ FilesAreKept

=============================================================================
