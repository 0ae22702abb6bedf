------------------------------ MODULE Identity ------------------------------
(***************************************************************************)
(* The device's own chat identity: a public device id in the secure store  *)
(* and a secret seed the native module keeps, both drawn on first use, and  *)
(* the row of the key directory published from them (mobile/lib/chat/      *)
(* identity.ts, publish.ts, chat-crypto's two native modules, api/routers/ *)
(* user.ts).                                                               *)
(*                                                                         *)
(* On iOS the keychain is durable at once. On Android the seed is wrapped  *)
(* with a keystore key and edited with apply(): the memory of the          *)
(* preferences changes now, their file later.                              *)
(***************************************************************************)
EXTENDS Naturals

CONSTANTS
  Runs,    \* bound: resolutions of the identity alive at the same time
  MaxJolts \* bound: failing calls, process deaths, and presses of the debug screen's
           \* "Clear identity"

ASSUME IdentityAssumption ==
  Runs \subseteq Nat \ {0} /\ MaxJolts \in Nat

VARIABLES
  platform,  \* "ios" or "android"
  deviceId,  \* the id in the secure store, 0 for none
  seedPrefs, \* the stored seed as the process sees it, and the key it is wrapped with
  seedFile,  \* the stored seed as the next process will see it
  wrapping,  \* the keystore's wrapping key, 0 for none
  shared,    \* `cached`: the resolution every caller shares, 0 for none
  run,       \* run[r]: a resolution and the identity it has put together so far
  clearing,  \* clearChatIdentity() between its awaits
  announced, \* publishedForUserId: this process has published, or is about to
  posts,     \* publish requests on their way: the id, the keys and the signature
  directory, \* directory[d]: the keys in the row of device id d, of those that were published
  drawn,     \* how many ids, seeds and keys were drawn
  jolts,     \* counter of the bound
  given,     \* history: identities handed out since the last clear or torn save
  mingled,   \* history: a resolution and a clear overlapped
  tornEdit   \* history: the process died with an edit of the preferences unwritten

identityVars == <<platform, deviceId, seedPrefs, seedFile, wrapping, shared, run, clearing,
                  announced, posts, directory, drawn, jolts, given, mingled, tornEdit>>

onDevice  == <<deviceId, seedPrefs, seedFile, wrapping>>
callers   == <<shared, run, given>>
listing   == <<announced, posts, directory>>

NoSeed == [seed |-> 0, key |-> 0]

\* deriveSignKeypair(), deriveBoxKeypair(), derivePublicKeys()
SignKey(seed) == <<"ed25519", seed>>
BoxKey(seed)  == <<"x25519", seed>>
PublicKeys(seed) == [ed25519Pub |-> SignKey(seed), x25519Pub |-> BoxKey(seed)]
Fresh  == [ids |-> 0, seeds |-> 0, keys |-> 0]
Off    == [pc |-> "off", id |-> 0, seed |-> 0]

IdentityInit ==
  /\ platform \in {"ios", "android"}
  /\ deviceId = 0 /\ seedPrefs = NoSeed /\ seedFile = NoSeed /\ wrapping = 0
  /\ shared = 0 /\ run = [r \in Runs |-> Off] /\ clearing = "no"
  /\ announced = FALSE /\ posts = {}
  /\ directory = <<>> /\ drawn = Fresh
  /\ jolts = 0
  /\ given = {} /\ mingled = FALSE /\ tornEdit = FALSE

Running(r) == run[r].pc \in {"reading", "writing", "seeding"}
RunIs(r, now) == run' = [run EXCEPT ![r] = now]
\* Only the shared resolution is looked at once it has ended.
RunEnds(r, seed) ==
  /\ RunIs(r, IF shared = r THEN [pc |-> "done", id |-> run[r].id, seed |-> seed] ELSE Off)
  /\ given' = given \cup {[id |-> run[r].id, seed |-> seed]}
Jolt == jolts < MaxJolts /\ jolts' = jolts + 1

-----------------------------------------------------------------------------
\* Resolving the identity

\* getOrCreateChatIdentity(): a caller gets the shared resolution, or starts it.
AloneAlways == TRUE   \* a mutant: every caller resolves the identity for itself
Alone == shared = 0
Ask(r) ==
  /\ Alone /\ run[r].pc = "off" /\ (\A q \in Runs : q < r => Running(q))
  /\ shared' = r
  /\ RunIs(r, [Off EXCEPT !.pc = "reading"])
  /\ mingled' = (mingled \/ clearing # "no")
  /\ UNCHANGED <<platform, onDevice, given, listing, drawn, jolts, clearing, tornEdit>>

\* getOrCreateDeviceId()
ReadId(r) ==
  /\ run[r].pc = "reading"
  /\ IF deviceId # 0
     THEN RunIs(r, [run[r] EXCEPT !.pc = "seeding", !.id = deviceId]) /\ UNCHANGED drawn
     ELSE /\ drawn' = [drawn EXCEPT !.ids = @ + 1]
          /\ RunIs(r, [run[r] EXCEPT !.pc = "writing", !.id = drawn.ids + 1])
  /\ UNCHANGED <<platform, onDevice, shared, given, listing, jolts, clearing, mingled, tornEdit>>

WriteId(r) ==
  /\ run[r].pc = "writing"
  /\ deviceId' = run[r].id
  /\ RunIs(r, [run[r] EXCEPT !.pc = "seeding"])
  /\ UNCHANGED <<platform, seedPrefs, seedFile, wrapping, shared, given, listing, drawn,
                 jolts, clearing, mingled, tornEdit>>

\* getOrCreateKeystoreKey()
KeyOrNew == IF platform = "ios" THEN 0 ELSE IF wrapping # 0 THEN wrapping ELSE drawn.keys + 1

\* keychainLoadSeed, keystoreLoadSeed: a seed wrapped with a key that is gone cannot be read.
SeedOpens == seedPrefs.key = KeyOrNew

\* resolve() after the id: the seed is loaded, or drawn and saved, in one turn.
LoadSeed(r) ==
  /\ seedPrefs # NoSeed /\ SeedOpens
  /\ RunEnds(r, seedPrefs.seed)
  /\ UNCHANGED <<onDevice, shared, drawn, jolts>>

\* keychainSaveSeed, keychainClearSeed write at once; the preferences' edit is queued.
OnceSaved(wrapped) == IF platform = "ios" THEN wrapped ELSE seedFile
OnceCleared == IF platform = "ios" THEN NoSeed ELSE seedFile

SaveSeed(r) ==
  /\ seedPrefs = NoSeed
  /\ LET seed == drawn.seeds + 1
         wrapped == [seed |-> seed, key |-> KeyOrNew]
     IN  /\ drawn' = [drawn EXCEPT !.seeds = seed,
                                 !.keys = IF KeyOrNew > drawn.keys THEN KeyOrNew ELSE @]
         /\ wrapping' = KeyOrNew /\ seedPrefs' = wrapped
         /\ seedFile' = OnceSaved(wrapped)
         /\ RunEnds(r, seed)
  /\ UNCHANGED <<deviceId, shared, jolts>>

\* The rejection drops the shared resolution, whichever it is by then.
Unwrappable(r) ==
  /\ seedPrefs # NoSeed /\ ~SeedOpens
  /\ wrapping' = KeyOrNew /\ drawn' = [drawn EXCEPT !.keys = IF KeyOrNew > @ THEN KeyOrNew ELSE @]
  /\ shared' = 0 /\ RunIs(r, Off)
  /\ UNCHANGED <<deviceId, seedPrefs, seedFile, given, jolts>>

Seed(r) ==
  /\ run[r].pc = "seeding"
  /\ LoadSeed(r) \/ SaveSeed(r) \/ Unwrappable(r)
  /\ UNCHANGED <<platform, listing, clearing, mingled, tornEdit>>

StorageFails(r) ==
  /\ Running(r) /\ Jolt
  /\ shared' = 0 /\ RunIs(r, Off)
  /\ UNCHANGED <<platform, onDevice, given, listing, drawn, clearing, mingled, tornEdit>>

-----------------------------------------------------------------------------
\* Publishing it

\* canonicalBundleBytes(), of the device and of the server; signDetached(), verifyAsync()
Bundle(id, keys) == <<1, id, keys.ed25519Pub, keys.x25519Pub>>
Signed(bytes, seed) == [by |-> SignKey(seed), of |-> bytes]
Verifies(p) == p.sig = [by |-> p.keys.ed25519Pub, of |-> Bundle(p.id, p.keys)]

\* publishMyChatDevice(): the id and the keys, signed with the seed.
SignedPost(id, seed) ==
  [id |-> id, keys |-> PublicKeys(seed), sig |-> Signed(Bundle(id, PublicKeys(seed)), seed)]

\* maybePublish(): once a process.
Publish ==
  /\ ~announced /\ announced' = TRUE
  /\ shared # 0 /\ run[shared].pc = "done"
  /\ posts' = posts \cup {SignedPost(run[shared].id, run[shared].seed)}
  /\ UNCHANGED <<platform, onDevice, callers, directory, drawn, jolts, clearing, mingled,
                 tornEdit>>

Put(p) == [d \in DOMAIN directory \cup {p.id} |-> IF d = p.id THEN p.keys ELSE directory[d]]

\* keys.publish: the row of (account, device id) is put, if the signature verifies.
Published(p) ==
  /\ posts' = posts \ {p}
  /\ directory' = IF Verifies(p) THEN Put(p) ELSE directory
  /\ UNCHANGED <<platform, onDevice, callers, announced, drawn, jolts, clearing, mingled,
                 tornEdit>>

\* An answer that does not come: the next change of the store publishes again.
PublishLost(p) ==
  /\ Jolt /\ posts' = posts \ {p} /\ announced' = FALSE
  /\ UNCHANGED <<platform, onDevice, callers, directory, drawn, clearing, mingled, tornEdit>>

-----------------------------------------------------------------------------
\* Clearing it, and process death

\* clearChatIdentity()
BeginClear ==
  /\ clearing = "no" /\ Jolt
  /\ shared' = 0 /\ clearing' = "deleting" /\ given' = {}
  /\ mingled' = (mingled \/ \E r \in Runs : Running(r))
  /\ run' = [r \in Runs |-> IF Running(r) THEN run[r] ELSE Off]
  /\ UNCHANGED <<platform, onDevice, listing, drawn, tornEdit>>

DeleteId ==
  /\ clearing = "deleting" /\ clearing' = "seed" /\ deviceId' = 0
  /\ UNCHANGED <<platform, seedPrefs, seedFile, wrapping, callers, listing, drawn, jolts,
                 mingled, tornEdit>>

\* keychainClearSeed, keystoreClearSeed: the key goes now, or stays when that fails.
ClearSeed ==
  /\ clearing = "seed" /\ clearing' = "no" /\ seedPrefs' = NoSeed
  /\ seedFile' = OnceCleared
  /\ wrapping' \in {0, wrapping}
  /\ UNCHANGED <<platform, deviceId, callers, listing, drawn, jolts, mingled, tornEdit>>

ClearFails ==
  /\ clearing # "no" /\ clearing' = "no" /\ Jolt
  /\ UNCHANGED <<platform, onDevice, callers, listing, drawn, mingled, tornEdit>>

\* The queued edit reaches the file.
Flush ==
  /\ seedFile # seedPrefs /\ seedFile' = seedPrefs
  /\ UNCHANGED <<platform, deviceId, seedPrefs, wrapping, callers, listing, drawn, jolts,
                 clearing, mingled, tornEdit>>

ProcessDies ==
  /\ Jolt
  /\ seedPrefs' = seedFile /\ shared' = 0 /\ run' = [r \in Runs |-> Off] /\ clearing' = "no"
  /\ tornEdit' = (tornEdit \/ seedPrefs # seedFile)
  /\ given' = IF seedPrefs # seedFile THEN {} ELSE given
  /\ announced' = FALSE
  /\ UNCHANGED <<platform, deviceId, seedFile, wrapping, posts, directory, drawn, mingled>>

-----------------------------------------------------------------------------
IdentityNext ==
  \/ \E r \in Runs : Ask(r) \/ ReadId(r) \/ WriteId(r) \/ Seed(r) \/ StorageFails(r)
  \/ Publish \/ \E p \in posts : Published(p) \/ PublishLost(p)
  \/ BeginClear \/ DeleteId \/ ClearSeed \/ ClearFails \/ Flush \/ ProcessDies

IdentitySpec == IdentityInit /\ [][IdentityNext]_identityVars

-----------------------------------------------------------------------------
\* Properties

IdentityTypeOK ==
  /\ platform \in {"ios", "android"} /\ deviceId \in Nat /\ announced \in BOOLEAN
  /\ {seedPrefs, seedFile} \subseteq [seed : Nat, key : Nat]
  /\ shared \in Runs \cup {0} /\ clearing \in {"no", "deleting", "seed"}
  /\ \A r \in Runs : run[r].pc \in {"off", "reading", "writing", "seeding", "done"}
  /\ platform = "ios" => seedPrefs = seedFile /\ wrapping = 0

\* Everyone is given the identity that is stored, through failing storage and restarts,
\* unless a resolution and a clear overlapped.
OneIdentity ==
  clearing = "no" /\ ~mingled =>
    \A i \in given : i = [id |-> deviceId, seed |-> seedPrefs.seed]

\* A stored seed can be read: the key it is wrapped with is there, unless the process
\* died between deleting the key and writing the preferences.
SeedIsReadable == seedPrefs # NoSeed => SeedOpens \/ tornEdit

\* What the directory says of the device is what the device holds. Except: Android lost
\* a seed it had already published, or a clear was mingled up with a resolution.
DirectoryIsMine ==
  deviceId \in DOMAIN directory /\ ~tornEdit /\ ~mingled =>
    directory[deviceId] = PublicKeys(seedPrefs.seed)

\* The device has one identity and keeps it (identity.ts:38-50, ChatCryptoModule.ts:60-64).
IdentityIsKept == OneIdentity /\ SeedIsReadable /\ DirectoryIsMine

=============================================================================
