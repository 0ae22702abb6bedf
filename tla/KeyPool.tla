------------------------------- MODULE KeyPool -------------------------------
(***************************************************************************)
(* The KeyPackages of one device: a pool of public halves on the server,   *)
(* from which peers take one per invitation, and the private halves in the *)
(* device's engine and its snapshot (chat-mls-core/client/index.ts         *)
(* bootstrap(), topUpKeyPackagesIfBelow(), publishKeyPackagesBatch(),      *)
(* reset(); api/routers/mls/keys.ts).                                      *)
(*                                                                         *)
(* A KeyPackage is a number, which is used again when nothing is left of    *)
(* it. Every tick of the device's MLS loop tops the pool up, and ticks      *)
(* overlap.                                                                *)
(***************************************************************************)
EXTENDS Naturals, FiniteSets

CONSTANTS
  TopUps,       \* bound: calls of topUpKeyPackagesIfBelow() under way at once
  Target,       \* DEFAULT_KP_POOL_TARGET
  Threshold,    \* DEFAULT_KP_POOL_THRESHOLD
  Cap,          \* KEY_PACKAGE_PER_DEVICE_CAP
  BatchMax,     \* KEY_PACKAGE_PUBLISH_BATCH_MAX
  MaxKeys,      \* bound: KeyPackages there are at one time
  MaxTroubles,  \* bound: crashes, resets and failed calls
  MaxTaken      \* bound: KeyPackages taken by peers

ASSUME KeyPoolAssumption ==
  /\ Target \in Nat /\ Threshold \in Nat /\ Cap \in Nat /\ BatchMax \in Nat \ {0}
  /\ Threshold < Target /\ Target <= Cap
  /\ MaxKeys \in Nat /\ MaxTroubles \in Nat /\ MaxTaken \in Nat

VARIABLES
  pool,         \* the KeyPackage rows of the device
  taken,        \* KeyPackages a peer got, all and in this launch
  private,      \* the private halves in the engine
  saved,        \* the private halves in the stored snapshot, if there is one
  known,        \* lastKnownPoolSize, or Unknown
  ready,        \* the engine is initialised
  topUp,        \* topUp[t]: a call
  troubles,     \* counter of the bound
  unsaved,      \* history: keys were created since the last snapshot
  overlapped,   \* history: two publishes were in their check at the same time
  orphans,      \* history: private halves were lost without their rows
  misled        \* history: a reset went on under a top-up

keyVars == <<pool, taken, private, saved, known, ready, topUp, troubles,
             unsaved, overlapped, orphans, misled>>

Unknown == [sure |-> FALSE, size |-> 0]
Known(n) == [sure |-> TRUE, size |-> n]
NoSnapshot == [there |-> FALSE, keys |-> {}]

\* pc: idle; asked, counted (keys.count); publish, checked, done (keys.publish).
\* `adrift`: the device no longer waits for the answer.
Quiet == [pc |-> "idle", batch |-> {}, count |-> 0, adrift |-> FALSE]

KeyPoolInit ==
  /\ pool = {} /\ taken = [all |-> 0, launch |-> 0]
  /\ private = {} /\ saved = NoSnapshot
  /\ known = Unknown /\ ready = TRUE
  /\ topUp = [t \in TopUps |-> Quiet]
  /\ troubles = 0 /\ unsaved = FALSE /\ overlapped = FALSE /\ orphans = FALSE /\ misled = FALSE

-----------------------------------------------------------------------------
\* The server (keys.ts). The row lock that the comments of publish name is not
\* taken: findUnique locks nothing, so two publishes check before either inserts.

ServerCount(t) ==
  /\ topUp[t].pc = "asked"
  /\ topUp' = [topUp EXCEPT ![t] =
       IF @.adrift THEN Quiet ELSE [@ EXCEPT !.pc = "counted", !.count = Cardinality(pool)]]
  /\ UNCHANGED <<pool, taken, private, saved, known, ready, troubles, unsaved,
                 overlapped, orphans, misled>>

FitsAlways(t) == TRUE                                   \* a mutant: no cap
Fits(t) == Cardinality(pool) + Cardinality(topUp[t].batch) <= Cap

\* TOO_MANY_REQUESTS ends the call; the refused batch is of no further use.
PublishCheck(t) ==
  /\ topUp[t].pc = "publish"
  /\ topUp' = [topUp EXCEPT ![t] =
       IF Fits(t) THEN [@ EXCEPT !.pc = "checked", !.count = Cardinality(pool)] ELSE Quiet]
  /\ overlapped' = (overlapped \/ \E u \in TopUps \ {t} : topUp[u].pc = "checked")
  /\ private' = IF Fits(t) THEN private ELSE private \ topUp[t].batch
  /\ UNCHANGED <<pool, taken, saved, known, ready, troubles, unsaved, orphans, misled>>

PublishInsert(t) ==
  /\ topUp[t].pc = "checked"
  /\ pool' = pool \cup topUp[t].batch
  /\ LET size == topUp[t].count + Cardinality(topUp[t].batch)
     IN  topUp' = [topUp EXCEPT ![t] =
           IF @.adrift THEN Quiet ELSE [@ EXCEPT !.pc = "done", !.count = size]]
  /\ UNCHANGED <<taken, private, saved, known, ready, troubles, unsaved, overlapped,
                 orphans, misled>>

\* fetchForAccounts: DELETE ... RETURNING of one row. The private half is used up
\* by the join, which is the taker's and the group's business (see MlsGroup).
Fetch ==
  /\ taken.all < MaxTaken
  /\ \E k \in pool :
       /\ \A j \in pool : k <= j
       /\ pool' = pool \ {k} /\ private' = private \ {k}
       /\ saved' = [saved EXCEPT !.keys = @ \ {k}]
  /\ taken' = [all |-> taken.all + 1, launch |-> taken.launch + 1]
  /\ UNCHANGED <<known, ready, topUp, troubles, unsaved, overlapped, orphans, misled>>

-----------------------------------------------------------------------------
\* The device

Smallest(a, b) == IF a < b THEN a ELSE b

InUse == pool \cup private \cup saved.keys \cup UNION {topUp[t].batch : t \in TopUps}
Unused == (1 .. MaxKeys) \ InUse

\* publishKeyPackagesBatch up to its first await: the keys are created.
PublishBatch(t, size) ==
  LET n     == Smallest(Target - size, BatchMax)
      batch == {k \in Unused : Cardinality({j \in Unused : j <= k}) <= n}
  IN  /\ Cardinality(batch) = n
      /\ topUp' = [topUp EXCEPT ![t] = [Quiet EXCEPT !.pc = "publish", !.batch = batch]]
      /\ private' = private \cup batch
      /\ unsaved' = TRUE

Stop(t) ==
  /\ topUp' = [topUp EXCEPT ![t] = Quiet]
  /\ UNCHANGED <<private, unsaved>>

\* topUpKeyPackagesIfBelow with a known size: nothing to do near the target.
Enough(size) == (size + Threshold >= Target /\ size >= Threshold) \/ size >= Target

Proceed(t, size) == IF Enough(size) \/ ~ready THEN Stop(t) ELSE PublishBatch(t, size)

Tick(t) ==
  /\ ready /\ topUp[t].pc = "idle"
  /\ IF known.sure
     THEN ~Enough(known.size) /\ PublishBatch(t, known.size)
     ELSE /\ topUp' = [topUp EXCEPT ![t] = [Quiet EXCEPT !.pc = "asked"]]
          /\ UNCHANGED <<private, unsaved>>
  /\ UNCHANGED <<pool, taken, saved, known, ready, troubles, overlapped, orphans, misled>>

Counted(t) ==
  /\ topUp[t].pc = "counted"
  /\ known' = Known(topUp[t].count)
  /\ Proceed(t, topUp[t].count)
  /\ UNCHANGED <<pool, taken, saved, ready, troubles, overlapped, orphans, misled>>

\* The snapshot of the engine as it is now.
PersistNothing == saved' = [there |-> TRUE, keys |-> saved.keys]    \* a mutant: no new keys
PersistPool == saved' = [there |-> TRUE, keys |-> private]

\* publish was answered: snapshot first, then the loop goes on below the target.
BatchPublished(t) ==
  /\ topUp[t].pc = "done"
  /\ IF ready
     THEN /\ PersistPool
          /\ known' = Known(topUp[t].count)
          /\ IF topUp[t].count < Target
             THEN PublishBatch(t, topUp[t].count)
             ELSE /\ topUp' = [topUp EXCEPT ![t] = Quiet] /\ unsaved' = FALSE
                  /\ UNCHANGED <<private>>
     ELSE Stop(t) /\ UNCHANGED <<saved, known>>
  /\ UNCHANGED <<pool, taken, ready, troubles, overlapped, orphans, misled>>

-----------------------------------------------------------------------------
\* Trouble

Trouble == troubles < MaxTroubles /\ troubles' = troubles + 1

InFlight(t) == topUp[t].pc \in {"publish", "checked"}

\* A request or an answer is lost; the server may still do what it was asked.
CallFails(t) ==
  /\ Trouble
  /\ topUp[t].pc # "idle" /\ ~topUp[t].adrift
  /\ topUp' \in {[topUp EXCEPT ![t] = Quiet],
                 [topUp EXCEPT ![t] = IF InFlight(t) THEN [@ EXCEPT !.adrift = TRUE] ELSE Quiet]}
  /\ UNCHANGED <<pool, taken, private, saved, known, ready, unsaved, overlapped,
                 orphans, misled>>

\* The calls whose publish is with the server go on without the device.
Abandoned == [t \in TopUps |-> IF InFlight(t) THEN [topUp[t] EXCEPT !.adrift = TRUE] ELSE Quiet]

\* The app dies: the engine is the stored one, and keys made since are gone.
CrashPool ==
  /\ Trouble
  /\ private' = saved.keys
  /\ orphans' = (orphans \/ (saved.there /\ unsaved))
  /\ unsaved' = FALSE
  /\ known' = Unknown /\ ready' = FALSE
  /\ topUp' = Abandoned
  /\ UNCHANGED <<pool, taken, saved, overlapped, misled>>

Remember == UNCHANGED known             \* a mutant: the size of the old pool is kept
Forget == known' = Unknown

\* reset(): engine and snapshot go at once, the server's rows after them.
Reset ==
  /\ Trouble /\ ready
  /\ private' = {} /\ saved' = NoSnapshot /\ unsaved' = FALSE
  /\ Forget /\ ready' = FALSE
  /\ misled' = (misled \/ \E t \in TopUps : topUp[t].pc # "idle" /\ ~topUp[t].adrift)
  /\ UNCHANGED <<pool, taken, topUp, overlapped, orphans>>

\* bootstrap() with a snapshot keeps the pool. Without one, and at the end of
\* reset(), deleteAllForDevice empties it, best effort; a publish that is still
\* with the server lands after it.
Wipes == IF saved.there THEN {FALSE} ELSE {TRUE, FALSE}

Ready ==
  /\ ~ready /\ ready' = TRUE
  /\ \E wiped \in Wipes :
       /\ pool' = IF wiped THEN {} ELSE pool
       /\ orphans' = (orphans \/ (~saved.there /\ (~wiped \/ \E t \in TopUps : InFlight(t))))
  /\ taken' = [taken EXCEPT !.launch = 0]
  /\ UNCHANGED <<private, saved, known, topUp, troubles, unsaved, overlapped, misled>>

-----------------------------------------------------------------------------
CallStep(t) ==
  ServerCount(t) \/ PublishCheck(t) \/ PublishInsert(t) \/ Counted(t) \/ BatchPublished(t)

KeyPoolNext ==
  \/ \E t \in TopUps : Tick(t) \/ CallStep(t) \/ CallFails(t)
  \/ Fetch \/ CrashPool \/ Reset \/ Ready

\* The app is started again, the 30 s timer ticks, and calls are answered.
TopsUp(t) == Tick(t) \/ CallStep(t)

KeyPoolFairness == WF_keyVars(Ready) /\ \A t \in TopUps : WF_keyVars(TopsUp(t))

KeyPoolSpec == KeyPoolInit /\ [][KeyPoolNext]_keyVars
KeyPoolFairSpec == KeyPoolSpec /\ KeyPoolFairness

-----------------------------------------------------------------------------
\* Properties

KeyPoolTypeOK ==
  /\ pool \subseteq 1 .. MaxKeys /\ private \subseteq 1 .. MaxKeys
  /\ saved.there \in BOOLEAN /\ saved.keys \subseteq 1 .. MaxKeys
  /\ known.sure \in BOOLEAN /\ known.size \in Nat
  /\ ready \in BOOLEAN
  /\ \A t \in TopUps :
       /\ topUp[t].pc \in {"idle", "asked", "counted", "publish", "checked", "done"}
       /\ topUp[t].batch \subseteq 1 .. MaxKeys /\ topUp[t].count \in Nat
       /\ topUp[t].adrift \in BOOLEAN
  /\ taken.all \in 0 .. MaxTaken /\ taken.launch \in 0 .. MaxTaken
  /\ troubles \in 0 .. MaxTroubles

\* A KeyPackage that peers can take has its private half in the engine, or its
\* taker cannot be joined with. There are two ways to lose it, through any overlap
\* of top-ups, lost calls, restarts and resets: a kill between the creation of a
\* batch and the next snapshot, which is written only after the server has the rows,
\* and a wipe of the pool that failed or that a publish under way outlived
\* (client/index.ts:240-274, 651-673, 768-778).
PoolIsBacked == ready /\ ~orphans => pool \subseteq private

\* The cap holds as long as two publishes do not check at the same time
\* (keys.ts:94-98, 117-157).
PoolWithinCap == Cardinality(pool) <= Cap \/ overlapped

\* The server's pool is one the device can use and within its cap.
PoolIsSound == PoolIsBacked /\ PoolWithinCap

\* Every launch gets the pool to where top-ups stop, KeyPackages taken meanwhile
\* counted, or it ends; what is taken later is not noticed before the next launch.
\* A top-up that a reset goes on under may put its size of the old pool in place of
\* none, and the new pool stays empty (client/index.ts:284-317, 651-655).
Stocked ==
  misled \/ orphans \/ (ready /\ Cardinality(pool) + taken.launch >= Target - Threshold)
PoolIsStocked == []<>Stocked

=============================================================================
