--------------------------- MODULE MlsGroupProofs ---------------------------
(***************************************************************************)
(* Proofs about MlsGroup and KeyPool, whatever the devices, the ticks, the *)
(* faults and the number of changes and top-ups:                           *)
(*   EnginesShareHistory  every engine is on the history the server stored,*)
(*                        on its own commit under way, or on a commit      *)
(*                        whose publication failed (HistoryInv);           *)
(*   CursorIsBacked       the cursor is backed by engine and snapshot      *)
(*                        (HistoryInv, CursorInv);                         *)
(*   TreeIsFollowing      the tree and the server's list of members go     *)
(*                        together (ChangeInv, RosterInv, InviteInv);      *)
(*   PoolHolds            KeyPackages have their private halves, and their *)
(*                        number its cap (BackedInv, CapInv);              *)
(*   GroupTypesHold, PoolTypesHold  the types (DepthInv, PoolBounds);      *)
(*   MlsIsSafe            all of it of the two together.                   *)
(***************************************************************************)
EXTENDS MCMlsGroup, RanksProofs, SequenceTheorems, FiniteSetTheorems

Path == Seq(Commit)

Changing == [pc : {"idle", "keys", "remove", "publish", "published", "welcome"},
             who : SUBSET Devices, commit : Path \cup {None}]
Polling  == [pc : {"idle", "join", "joined", "apply", "save"},
             got : SUBSET Path, page : Seq(Path)]

\* Types that the invariant needs.
Shapes ==
  /\ log \in [Epochs -> Path \cup {None}]
  /\ welcomes \in [Devices -> SUBSET Path]
  /\ engine \in [Devices -> Path \cup {None}]
  /\ snapshot \in [Devices -> Path \cup {None}]
  /\ op \in [Devices -> Changing]
  /\ tick \in [Ticks -> Polling]
  /\ stray \subseteq Path

\* The history of path goes through a commit of st, or is what l stores.
Settled(path, l, st) ==
  \/ \E s \in st : Len(s) <= Len(path) /\ SubSeq(path, 1, Len(s)) = s
  \/ Len(path) <= MaxEvents /\ \A e \in 1 .. Len(path) : l[e] = SubSeq(path, 1, e)

\* What a device with the membership change o may hold.
Holds(path, o, l, st) ==
  path = None \/ Settled(path, l, st) \/ (o.pc = "publish" /\ path = o.commit)

\* A membership change starts from a settled history, and its commit is settled once
\* it is published.
Orderly(o, l, st) ==
  /\ o.pc = "publish" =>
       o.commit \in Path /\ Len(o.commit) > 0 /\ Settled(Parent(o.commit), l, st)
  /\ o.pc \in {"published", "welcome"} => o.commit \in Path /\ Settled(o.commit, l, st)

\* The inductive invariant: every copy of a group state that somebody could take up
\* is settled, and every device is where its change says.
HistoryInv ==
  /\ Shapes
  /\ \A e \in Epochs : log[e] # None => Settled(log[e], log, stray)
  /\ \A d \in Devices : \A p \in welcomes[d] : Settled(p, log, stray)
  /\ \A t \in Ticks :
       /\ \A p \in tick[t].got : Settled(p, log, stray)
       /\ \A i \in 1 .. Len(tick[t].page) : Settled(tick[t].page[i], log, stray)
  /\ \A d \in Devices :
       /\ Orderly(op[d], log, stray)
       /\ Holds(engine[d], op[d], log, stray)
       /\ Holds(snapshot[d], op[d], log, stray)

-----------------------------------------------------------------------------
\* Lemmas about paths and pages

LEMMA ParentOfAppend ==
  ASSUME NEW path \in Path, NEW c \in Commit
  PROVE  /\ Append(path, c) \in Path /\ Len(Append(path, c)) > 0
         /\ Parent(Append(path, c)) = path
<1>1. /\ Append(path, c) \in Path /\ Len(Append(path, c)) = Len(path) + 1
      /\ \A i \in 1 .. Len(path) : Append(path, c)[i] = path[i]
      /\ Len(path) \in Nat
  BY DEF Path
<1>2. /\ Parent(Append(path, c)) \in Path /\ Len(Parent(Append(path, c))) = Len(path)
      /\ \A i \in 1 .. Len(path) : Parent(Append(path, c))[i] = path[i]
  <2>1. \A i \in 1 .. Len(path) : Append(path, c)[i] \in Commit
    BY <1>1 DEF Path
  <2>2. /\ SubSeq(Append(path, c), 1, Len(path)) \in Path
        /\ Len(SubSeq(Append(path, c), 1, Len(path))) = Len(path)
        /\ \A i \in 1 .. Len(path) : SubSeq(Append(path, c), 1, Len(path))[i] = path[i]
    BY <1>1, <2>1, SubSeqProperties DEF Path
  <2> QED BY <1>1, <2>2 DEF Parent
<1> QED BY <1>1, <1>2, SeqEqual DEF Path

LEMMA PrefixOfParent ==
  ASSUME NEW path \in Path, Len(path) > 0
  PROVE  /\ Parent(path) \in Path /\ Len(Parent(path)) = Len(path) - 1
         /\ SubSeq(path, 1, Len(path)) = path
         /\ \A e \in 1 .. Len(path) - 1 : SubSeq(Parent(path), 1, e) = SubSeq(path, 1, e)
<1>1. /\ Parent(path) \in Path /\ Len(Parent(path)) = Len(path) - 1
      /\ \A i \in 1 .. Len(path) - 1 : Parent(path)[i] = path[i]
  <2>1. Len(path) \in Nat \ {0} /\ \A i \in 1 .. Len(path) - 1 : path[i] \in Commit
    BY DEF Path
  <2>2. /\ SubSeq(path, 1, Len(path) - 1) \in Path
        /\ Len(SubSeq(path, 1, Len(path) - 1)) = Len(path) - 1
        /\ \A i \in 1 .. Len(path) - 1 : SubSeq(path, 1, Len(path) - 1)[i] = path[i]
    <3> DEFINE n == Len(path) - 1
    <3>1. n \in Nat /\ \A i \in 1 .. n : path[i] \in Commit
      BY <2>1
    <3> HIDE DEF n
    <3>2. /\ SubSeq(path, 1, n) \in Path /\ Len(SubSeq(path, 1, n)) = n
          /\ \A i \in 1 .. n : SubSeq(path, 1, n)[i] = path[i]
      BY <3>1, SubSeqProperties DEF Path
    <3> QED BY <3>2 DEF n
  <2> QED BY <2>2 DEF Parent
<1>2. SubSeq(path, 1, Len(path)) = path
  BY SubSeqFull DEF Path
<1>3. ASSUME NEW e \in 1 .. Len(path) - 1
      PROVE  SubSeq(Parent(path), 1, e) = SubSeq(path, 1, e)
  <2>1. SubSeq(Parent(path), 1, e) \in Path /\ Len(SubSeq(Parent(path), 1, e)) = e
        /\ \A i \in 1 .. e : SubSeq(Parent(path), 1, e)[i] = Parent(path)[i]
    BY <1>1 DEF Path
  <2>2. SubSeq(path, 1, e) \in Path /\ Len(SubSeq(path, 1, e)) = e
        /\ \A i \in 1 .. e : SubSeq(path, 1, e)[i] = path[i]
    BY DEF Path
  <2>3. \A i \in 1 .. e : SubSeq(Parent(path), 1, e)[i] = SubSeq(path, 1, e)[i]
    BY <1>1, <2>1, <2>2
  <2> QED BY <2>1, <2>2, <2>3, SeqEqual DEF Path
<1> QED BY <1>1, <1>2, <1>3

\* A page holds stored commits.
LEMMA PageIsStored ==
  ASSUME NEW S \in SUBSET Epochs, GroupAssumption, Shapes, \A e \in S : log[e] # None
  PROVE  /\ Page(S) \in Seq(Path)
         /\ \A i \in 1 .. Len(Page(S)) : \E e \in S : Page(S)[i] = log[e]
<1> DEFINE size == IF Cardinality(S) < PageMax THEN Cardinality(S) ELSE PageMax
           which(i) == CHOOSE e \in S : Rank(S, e) = i
<1>1. IsFiniteSet(S) /\ S \in SUBSET Nat /\ Cardinality(S) \in Nat
  <2>1. IsFiniteSet(Epochs) /\ Epochs \in SUBSET Nat
    BY FS_Interval DEF Epochs, GroupAssumption
  <2> QED BY <2>1, FS_Subset, FS_CardinalityType
<1>2. size \in Nat /\ size <= Cardinality(S)
  BY <1>1 DEF GroupAssumption
<1>3. ASSUME NEW i \in 1 .. size PROVE which(i) \in S
  <2>1. i \in 1 .. Cardinality(S)
    BY <1>1, <1>2
  <2>2. \E e \in S : Rank(S, e) = i
    BY <1>1, <2>1, Ranked
  <2> QED BY <2>2
<1>4. Page(S) = [i \in 1 .. size |-> log[which(i)]]
  BY DEF Page
<1> HIDE DEF size, which
<1>5. \A i \in 1 .. size : log[which(i)] \in Path
  BY <1>3 DEF Shapes
<1>6. Page(S) \in Seq(Path) /\ Len(Page(S)) = size
  BY <1>2, <1>4, <1>5
<1> QED BY <1>3, <1>4, <1>6

\* A path that is its own stray commit, or whose parent goes through one.
LEMMA StrayCommits ==
  ASSUME NEW path \in Path, Len(path) > 0, NEW st \in SUBSET Path
  PROVE  /\ path \in st => \A l : Settled(path, l, st)
         /\ (\E s \in st : Len(s) <= Len(Parent(path)) /\ SubSeq(Parent(path), 1, Len(s)) = s)
              => \E s \in st : Len(s) <= Len(path) /\ SubSeq(path, 1, Len(s)) = s
<1>1. Len(path) \in Nat /\ SubSeq(path, 1, Len(path)) = path
  BY PrefixOfParent DEF Path
<1>2. path \in st => \A l : Settled(path, l, st)
  BY <1>1 DEF Settled
<1>3. ASSUME NEW s \in st, Len(s) <= Len(Parent(path)), SubSeq(Parent(path), 1, Len(s)) = s
      PROVE  Len(s) <= Len(path) /\ SubSeq(path, 1, Len(s)) = s
  <2>1. Len(s) \in Nat /\ Len(s) <= Len(path) - 1
    BY <1>3, PrefixOfParent DEF Path
  <2>2. CASE Len(s) = 0
    BY <1>1, <1>3, <2>1, <2>2, SubSeqEmpty
  <2>3. CASE Len(s) # 0
    <3>1. Len(s) \in 1 .. Len(path) - 1
      BY <1>1, <2>1, <2>3
    <3>2. SubSeq(path, 1, Len(s)) = s
      BY <1>3, <3>1, PrefixOfParent
    <3> QED BY <1>1, <2>1, <3>2
  <2> QED BY <2>2, <2>3
<1> QED BY <1>2, <1>3

\* What is settled stays so when stored commits stay and strays are only added.
LEMMA SettledGrows ==
  ASSUME NEW path \in Path, NEW l \in [Epochs -> Path \cup {None}], NEW m, NEW st, NEW su,
         GroupAssumption, Settled(path, l, st), st \subseteq su,
         \A e \in Epochs : l[e] # None => m[e] = l[e]
  PROVE  Settled(path, m, su)
<1>1. CASE \E s \in st : Len(s) <= Len(path) /\ SubSeq(path, 1, Len(s)) = s
  BY <1>1 DEF Settled
<1>2. CASE Len(path) <= MaxEvents /\ \A e \in 1 .. Len(path) : l[e] = SubSeq(path, 1, e)
  <2>1. ASSUME NEW e \in 1 .. Len(path) PROVE m[e] = SubSeq(path, 1, e)
    <3>1. e \in Epochs /\ Len(path) \in Nat
      BY <1>2 DEF Epochs, GroupAssumption, Path
    <3>2. SubSeq(path, 1, e) \in Path
      <4>1. \A i \in 1 .. e : path[i] \in Commit
        BY <3>1 DEF Path
      <4> QED BY <4>1, <3>1, SubSeqProperties DEF Path
    <3>3. l[e] # None
      BY <1>2, <3>2 DEF Path, Commit, GroupAssumption
    <3> QED BY <1>2, <3>1, <3>3
  <2> QED BY <1>2, <2>1 DEF Settled
<1> QED BY <1>1, <1>2 DEF Settled

-----------------------------------------------------------------------------
\* What a step has to show: what it changes is settled.
LEMMA StepKeeps ==
  ASSUME HistoryInv, GroupAssumption, Shapes', stray \subseteq stray',
         \A e \in Epochs : log[e] # None => log'[e] = log[e],
         \A e \in Epochs :
           log'[e] = log[e] \/ log'[e] = None \/ Settled(log'[e], log', stray'),
         \A d \in Devices : \A p \in welcomes'[d] :
           p \in welcomes[d] \/ Settled(p, log', stray'),
         \A t \in Ticks : \A p \in tick'[t].got :
           p \in tick[t].got \/ Settled(p, log', stray'),
         \A t \in Ticks : \/ tick'[t].page = tick[t].page
                          \/ \A i \in 1 .. Len(tick'[t].page) :
                               Settled(tick'[t].page[i], log', stray'),
         \A d \in Devices : op'[d] = op[d] \/ Orderly(op'[d], log', stray'),
         \A d \in Devices : (op'[d] = op[d] /\ engine'[d] = engine[d])
                            \/ Holds(engine'[d], op'[d], log', stray'),
         \A d \in Devices : (op'[d] = op[d] /\ snapshot'[d] = snapshot[d])
                            \/ Holds(snapshot'[d], op'[d], log', stray')
  PROVE  HistoryInv'
<1>0. Shapes
  BY DEF HistoryInv
<1>1. \A p \in Path : Settled(p, log, stray) => Settled(p, log', stray')
  BY <1>0, SettledGrows DEF Shapes
<1>2. ASSUME NEW e \in Epochs, log'[e] # None PROVE Settled(log'[e], log', stray')
  BY <1>0, <1>1, <1>2 DEF HistoryInv, Shapes
<1>3. ASSUME NEW d \in Devices, NEW p \in welcomes'[d] PROVE Settled(p, log', stray')
  BY <1>0, <1>1 DEF HistoryInv, Shapes
<1>4. ASSUME NEW t \in Ticks, NEW p \in tick'[t].got PROVE Settled(p, log', stray')
  <2>1. p \in tick[t].got => p \in Path /\ Settled(p, log, stray)
    BY <1>0 DEF HistoryInv, Shapes, Polling
  <2> QED BY <1>1, <2>1
<1>5. ASSUME NEW t \in Ticks, NEW i \in 1 .. Len(tick'[t].page)
      PROVE  Settled(tick'[t].page[i], log', stray')
  <2>1. CASE tick'[t].page = tick[t].page
    <3>1. tick[t].page \in Seq(Path) /\ i \in 1 .. Len(tick[t].page)
      BY <1>0, <2>1 DEF Shapes, Polling
    <3>2. tick[t].page[i] \in Path /\ Settled(tick[t].page[i], log, stray)
      BY <3>1 DEF HistoryInv
    <3> QED BY <1>1, <2>1, <3>2
  <2>2. CASE tick'[t].page # tick[t].page
    BY <2>2
  <2> QED BY <2>1, <2>2
<1>6. ASSUME NEW d \in Devices PROVE Orderly(op'[d], log', stray')
  <2>1. Orderly(op[d], log, stray)
    BY DEF HistoryInv
  <2>2. op[d].pc = "publish" => Parent(op[d].commit) \in Path
    BY <2>1, PrefixOfParent DEF Orderly
  <2>3. Orderly(op[d], log', stray')
    BY <1>1, <2>1, <2>2 DEF Orderly
  <2> QED BY <2>3
<1>7. ASSUME NEW d \in Devices, NEW path \in Path \cup {None}, Holds(path, op[d], log, stray)
      PROVE  Holds(path, op[d], log', stray')
  BY <1>1, <1>7 DEF Holds
<1>8. ASSUME NEW d \in Devices
      PROVE  Holds(engine'[d], op'[d], log', stray') /\ Holds(snapshot'[d], op'[d], log', stray')
  <2>1. /\ engine[d] \in Path \cup {None} /\ snapshot[d] \in Path \cup {None}
        /\ Holds(engine[d], op[d], log, stray) /\ Holds(snapshot[d], op[d], log, stray)
    BY <1>0 DEF HistoryInv, Shapes
  <2>2. Holds(engine[d], op[d], log', stray') /\ Holds(snapshot[d], op[d], log', stray')
    BY <1>7, <2>1
  <2> QED BY <2>2
<1> QED BY <1>2, <1>3, <1>4, <1>5, <1>6, <1>8 DEF HistoryInv

\* A step of the membership change of device d, which leaves the stored commits alone.
LEMMA ChangeKeeps ==
  ASSUME HistoryInv, GroupAssumption, NEW d \in Devices, NEW o \in Changing,
         op' = [op EXCEPT ![d] = o],
         UNCHANGED <<log, tick>>, stray \subseteq stray', stray' \subseteq Path,
         welcomes' \in [Devices -> SUBSET Path],
         \A x \in Devices : \A p \in welcomes'[x] :
           p \in welcomes[x] \/ Settled(p, log, stray'),
         engine' \in [Devices -> Path \cup {None}],
         snapshot' \in [Devices -> Path \cup {None}],
         \A x \in Devices \ {d} : engine'[x] = engine[x] /\ snapshot'[x] = snapshot[x],
         Orderly(o, log, stray'),
         Holds(engine'[d], o, log, stray'), Holds(snapshot'[d], o, log, stray')
  PROVE  HistoryInv'
<1>1. Shapes
  BY DEF HistoryInv
<1>2. op' \in [Devices -> Changing] /\ op'[d] = o /\ \A x \in Devices \ {d} : op'[x] = op[x]
  BY <1>1 DEF Shapes
<1>3. Shapes'
  BY <1>1, <1>2 DEF Shapes
<1>4. \A x \in Devices :
        /\ op'[x] = op[x] \/ Orderly(op'[x], log', stray')
        /\ (op'[x] = op[x] /\ engine'[x] = engine[x]) \/ Holds(engine'[x], op'[x], log', stray')
        /\ (op'[x] = op[x] /\ snapshot'[x] = snapshot[x])
           \/ Holds(snapshot'[x], op'[x], log', stray')
  BY <1>2
<1> QED BY <1>3, <1>4, StepKeeps

\* A change that starts, or that is given up before it has a commit, or after.
LEMMA IdleOpIsChanging == IdleOp \in Changing /\ IdleOp.pc = "idle"
BY DEF IdleOp, Changing

\* What a device holds when its change has no commit under way.
LEMMA SettledHeld ==
  ASSUME HistoryInv, NEW d \in Devices, op[d].pc # "publish", NEW o
  PROVE  /\ engine[d] = None \/ (engine[d] \in Path /\ Settled(engine[d], log, stray))
         /\ Holds(engine[d], o, log, stray) /\ Holds(snapshot[d], o, log, stray)
BY DEF HistoryInv, Shapes, Holds

LEMMA StartKeeps ==
  ASSUME HistoryInv, GroupAssumption, NEW d \in Devices, NEW who \in SUBSET Devices,
         StartAdd(d, who) \/ StartRemove(d, who)
  PROVE  HistoryInv'
<1>1. Shapes /\ op[d] = IdleOp
  BY DEF HistoryInv, StartAdd, StartRemove
<1>2. UNCHANGED <<log, welcomes, engine, snapshot, tick, stray>>
  BY DEF StartAdd, StartRemove, deviceVars, history
<1>3. PICK pc \in {"keys", "remove"} :
        op' = [op EXCEPT ![d] = [pc |-> pc, who |-> who, commit |-> None]]
  BY DEF StartAdd, StartRemove
<1> DEFINE o == [pc |-> pc, who |-> who, commit |-> None]
<1>4. o \in Changing /\ o.pc = pc
  BY DEF Changing
<1> HIDE DEF o
<1>5. Orderly(o, log, stray')
  BY <1>4 DEF Orderly
<1>6. Holds(engine[d], o, log, stray) /\ Holds(snapshot[d], o, log, stray)
  BY <1>1, IdleOpIsChanging, SettledHeld
<1>7. op' = [op EXCEPT ![d] = o]
  BY <1>3 DEF o
<1>8. /\ welcomes' \in [Devices -> SUBSET Path] /\ engine' \in [Devices -> Path \cup {None}]
      /\ snapshot' \in [Devices -> Path \cup {None}] /\ stray' \subseteq Path
  BY <1>1, <1>2 DEF Shapes
<1> QED BY <1>2, <1>4, <1>5, <1>6, <1>7, <1>8, ChangeKeeps

\* AddRefused, RemoveRefused: the change is given up before it has a commit.
LEMMA RefusedKeeps ==
  ASSUME HistoryInv, GroupAssumption, NEW d \in Devices, AddRefused(d) \/ RemoveRefused(d)
  PROVE  HistoryInv'
<1>1. Shapes /\ op[d].pc # "publish" /\ op' = [op EXCEPT ![d] = IdleOp]
  BY DEF HistoryInv, AddRefused, RemoveRefused
<1>2. UNCHANGED <<log, welcomes, engine, snapshot, tick, stray>>
  BY DEF AddRefused, RemoveRefused, serverVars, deviceVars, history
<1>3. Orderly(IdleOp, log, stray')
  BY IdleOpIsChanging DEF Orderly
<1>4. Holds(engine[d], IdleOp, log, stray) /\ Holds(snapshot[d], IdleOp, log, stray)
  BY <1>1, SettledHeld
<1>5. /\ welcomes' \in [Devices -> SUBSET Path] /\ engine' \in [Devices -> Path \cup {None}]
      /\ snapshot' \in [Devices -> Path \cup {None}] /\ stray' \subseteq Path
  BY <1>1, <1>2 DEF Shapes
<1> QED BY <1>1, <1>2, <1>3, <1>4, <1>5, IdleOpIsChanging, ChangeKeeps

\* The engine merges the commit of a change before it is published.
LEMMA MergeKeeps ==
  ASSUME HistoryInv, GroupAssumption, NEW d \in Devices, AddMembers(d) \/ RemoveMembers(d)
  PROVE  HistoryInv'
<1>1. Shapes /\ op[d] \in Changing /\ op[d].pc # "publish"
  BY DEF HistoryInv, Shapes, AddMembers, RemoveMembers
<1>2. PICK c \in Commit, who \in SUBSET Devices :
        /\ op' = [op EXCEPT ![d] = [pc |-> "publish", who |-> who,
                                    commit |-> Append(engine[d], c)]]
        /\ engine' = [engine EXCEPT ![d] = Append(engine[d], c)]
        /\ engine[d] # None
  <2>1. CASE AddMembers(d)
    <3>1. PICK got \in SUBSET op[d].who \ {{}} :
            /\ CanAdd(d, got)
            /\ engine' = [engine EXCEPT ![d] = EngineAdd(d, got)]
            /\ op' = [op EXCEPT ![d] = [pc |-> "publish", who |-> got,
                                        commit |-> EngineAdd(d, got)]]
      BY <2>1 DEF AddMembers
    <3>2. got \in SUBSET Devices
      BY <1>1, <3>1 DEF Changing
    <3>3. [by |-> d, adds |-> got, removes |-> {}] \in Commit
      BY <3>2 DEF Commit
    <3> QED BY <3>1, <3>2, <3>3 DEF EngineAdd, CanAdd, Active
  <2>2. CASE RemoveMembers(d)
    <3>1. /\ CanRemove(d, op[d].who)
          /\ engine' = [engine EXCEPT ![d] = EngineRemove(d, op[d].who)]
          /\ op' = [op EXCEPT ![d] = [pc |-> "publish", who |-> op[d].who,
                                      commit |-> EngineRemove(d, op[d].who)]]
      BY <2>2 DEF RemoveMembers
    <3>2. op[d].who \in SUBSET Devices
      BY <1>1 DEF Changing
    <3>3. [by |-> d, adds |-> {}, removes |-> op[d].who] \in Commit
      BY <3>2 DEF Commit
    <3> QED BY <3>1, <3>2, <3>3 DEF EngineRemove, CanRemove, Active
  <2> QED BY <2>1, <2>2
<1> DEFINE commit == Append(engine[d], c)
           o == [pc |-> "publish", who |-> who, commit |-> commit]
<1>3. engine[d] \in Path /\ Settled(engine[d], log, stray)
  BY <1>1, <1>2, SettledHeld
<1>4. commit \in Path /\ Len(commit) > 0 /\ Parent(commit) = engine[d]
  BY <1>3, ParentOfAppend
<1> HIDE DEF commit
<1>5. o \in Changing /\ o.pc = "publish" /\ o.commit = commit
  BY <1>4 DEF Changing
<1> HIDE DEF o
<1>6. /\ UNCHANGED <<log, welcomes, tick, stray>>
      /\ snapshot' = [snapshot EXCEPT ![d] = engine'[d]]
  BY DEF AddMembers, RemoveMembers, serverVars, history, PersistSnapshot
<1>7. op' = [op EXCEPT ![d] = o] /\ engine' = [engine EXCEPT ![d] = commit]
  BY <1>2 DEF o, commit
<1>8. engine'[d] = commit /\ snapshot'[d] = commit
  BY <1>1, <1>6, <1>7 DEF Shapes
<1>9. /\ welcomes' \in [Devices -> SUBSET Path] /\ engine' \in [Devices -> Path \cup {None}]
      /\ snapshot' \in [Devices -> Path \cup {None}] /\ stray' \subseteq Path
      /\ \A x \in Devices \ {d} : engine'[x] = engine[x] /\ snapshot'[x] = snapshot[x]
  BY <1>1, <1>4, <1>6, <1>7, <1>8 DEF Shapes
<1>10. Orderly(o, log, stray')
  BY <1>3, <1>4, <1>5, <1>6 DEF Orderly
<1>11. Holds(engine'[d], o, log, stray') /\ Holds(snapshot'[d], o, log, stray')
  BY <1>5, <1>8 DEF Holds
<1> QED BY <1>5, <1>6, <1>7, <1>9, <1>10, <1>11, ChangeKeeps

\* The answers: PublishFails, CommitAccepted, PublishWelcomes.

LEMMA PublishFailsKeeps ==
  ASSUME HistoryInv, GroupAssumption, NEW d \in Devices, PublishFails(d)
  PROVE  HistoryInv'
<1>1. /\ Shapes /\ op[d].pc = "publish" /\ op' = [op EXCEPT ![d] = IdleOp]
      /\ stray' = stray \cup {op[d].commit}
      /\ UNCHANGED <<log, welcomes, engine, snapshot, tick>>
  BY DEF HistoryInv, PublishFails, serverVars, deviceVars
<1>2. /\ op[d].commit \in Path /\ Len(op[d].commit) > 0
      /\ Holds(engine[d], op[d], log, stray) /\ Holds(snapshot[d], op[d], log, stray)
  BY <1>1 DEF HistoryInv, Orderly
<1>3. stray \subseteq stray' /\ stray' \subseteq Path
  BY <1>1, <1>2 DEF Shapes
<1>4. Settled(op[d].commit, log, stray')
  BY <1>1, <1>2, <1>3, StrayCommits
<1>5. ASSUME NEW path \in Path \cup {None}, Holds(path, op[d], log, stray)
      PROVE  Holds(path, IdleOp, log, stray')
  BY <1>1, <1>3, <1>4, <1>5, SettledGrows DEF Holds, Shapes
<1>6. Holds(engine'[d], IdleOp, log, stray') /\ Holds(snapshot'[d], IdleOp, log, stray')
  BY <1>1, <1>2, <1>5 DEF Shapes
<1>7. Orderly(IdleOp, log, stray')
  BY IdleOpIsChanging DEF Orderly
<1>8. /\ welcomes' \in [Devices -> SUBSET Path] /\ engine' \in [Devices -> Path \cup {None}]
      /\ snapshot' \in [Devices -> Path \cup {None}]
  BY <1>1 DEF Shapes
<1> QED BY <1>1, <1>3, <1>6, <1>7, <1>8, IdleOpIsChanging, ChangeKeeps

LEMMA AcceptedKeeps ==
  ASSUME HistoryInv, GroupAssumption, NEW d \in Devices, CommitAccepted(d)
  PROVE  HistoryInv'
<1> DEFINE o == IF op[d].commit[Len(op[d].commit)].adds = {}
                THEN IdleOp ELSE [op[d] EXCEPT !.pc = "welcome"]
<1>1. /\ Shapes /\ op[d].pc = "published" /\ op[d] \in Changing
      /\ op' = [op EXCEPT ![d] = o]
      /\ UNCHANGED <<log, welcomes, engine, stray, tick>>
      /\ snapshot' = [snapshot EXCEPT ![d] = engine'[d]]
  BY DEF HistoryInv, Shapes, CommitAccepted, serverVars, history, PersistSnapshot
<1>2. o \in Changing /\ o.pc # "publish" /\ (o.pc = "welcome" => o.commit = op[d].commit)
      /\ o.pc # "published"
  BY <1>1, IdleOpIsChanging DEF Changing
<1> HIDE DEF o
<1>3. Orderly(o, log, stray')
  BY <1>1, <1>2 DEF HistoryInv, Orderly
<1>4. engine'[d] = engine[d] /\ snapshot'[d] = engine[d]
  BY <1>1 DEF Shapes
<1>5. Holds(engine'[d], o, log, stray') /\ Holds(snapshot'[d], o, log, stray')
  BY <1>1, <1>4, SettledHeld
<1>6. /\ welcomes' \in [Devices -> SUBSET Path] /\ engine' \in [Devices -> Path \cup {None}]
      /\ snapshot' \in [Devices -> Path \cup {None}] /\ stray' \subseteq Path
      /\ \A x \in Devices \ {d} : engine'[x] = engine[x] /\ snapshot'[x] = snapshot[x]
  BY <1>1, <1>4 DEF Shapes
<1> QED BY <1>1, <1>2, <1>3, <1>5, <1>6, ChangeKeeps

LEMMA WelcomesKeep ==
  ASSUME HistoryInv, GroupAssumption, NEW d \in Devices, PublishWelcomes(d)
  PROVE  HistoryInv'
<1>1. /\ Shapes /\ op[d].pc = "welcome" /\ op' = [op EXCEPT ![d] = IdleOp]
      /\ UNCHANGED <<log, engine, snapshot, stray, tick>>
      /\ UNCHANGED welcomes \/ StoreWelcomes(op[d].who, op[d].commit)
  BY DEF HistoryInv, PublishWelcomes, deviceVars, history
<1>2. op[d].commit \in Path /\ Settled(op[d].commit, log, stray)
  BY <1>1 DEF HistoryInv, Orderly
<1>3. /\ welcomes' \in [Devices -> SUBSET Path]
      /\ \A x \in Devices : \A p \in welcomes'[x] : p \in welcomes[x] \/ p = op[d].commit
  <2>1. CASE UNCHANGED welcomes
    BY <1>1, <2>1 DEF Shapes
  <2>2. CASE StoreWelcomes(op[d].who, op[d].commit)
    BY <1>1, <1>2, <2>2 DEF Shapes, StoreWelcomes
  <2> QED BY <1>1, <2>1, <2>2
<1>4. Orderly(IdleOp, log, stray')
  BY IdleOpIsChanging DEF Orderly
<1>5. Holds(engine[d], IdleOp, log, stray) /\ Holds(snapshot[d], IdleOp, log, stray)
  BY <1>1, SettledHeld
<1>6. /\ engine' \in [Devices -> Path \cup {None}]
      /\ snapshot' \in [Devices -> Path \cup {None}] /\ stray' \subseteq Path
  BY <1>1 DEF Shapes
<1> QED BY <1>1, <1>2, <1>3, <1>4, <1>5, <1>6, IdleOpIsChanging, ChangeKeeps

\* The server stores a commit on top of a settled history.
LEMMA PublishKeeps ==
  ASSUME HistoryInv, GroupAssumption, NEW d \in Devices, PublishCommit(d)
  PROVE  HistoryInv'
<1> DEFINE commit == op[d].commit
           n == Len(commit)
<1>1. /\ Shapes /\ op[d] \in Changing /\ op[d].pc = "publish"
      /\ n \in Epochs /\ log[n] = None /\ log' = [log EXCEPT ![n] = commit]
      /\ UNCHANGED <<welcomes, engine, snapshot, tick, stray>>
      /\ \/ op' = [op EXCEPT ![d].pc = "published"] \/ op' = [op EXCEPT ![d] = IdleOp]
  BY DEF HistoryInv, Shapes, PublishCommit, Accepts, EpochFree, StoreCommit, deviceVars, history
<1>2. /\ commit \in Path /\ n > 0 /\ Settled(Parent(commit), log, stray)
  BY <1>1 DEF HistoryInv, Orderly
<1>3. n \in Nat \ {0} /\ n <= MaxEvents
  BY <1>1 DEF Epochs, GroupAssumption
<1>4. log' \in [Epochs -> Path \cup {None}] /\ \A e \in Epochs : log[e] # None => log'[e] = log[e]
  BY <1>1, <1>2 DEF Shapes
<1>5. Settled(commit, log', stray')
  <2>1. CASE \E s \in stray : /\ Len(s) <= Len(Parent(commit))
                              /\ SubSeq(Parent(commit), 1, Len(s)) = s
    <3>1. \E s \in stray : Len(s) <= Len(commit) /\ SubSeq(commit, 1, Len(s)) = s
      BY <1>1, <1>2, <2>1, StrayCommits DEF Shapes
    <3> QED BY <1>1, <3>1 DEF Settled
  <2>2. CASE /\ Len(Parent(commit)) <= MaxEvents
             /\ \A e \in 1 .. Len(Parent(commit)) : log[e] = SubSeq(Parent(commit), 1, e)
    <3>1. ASSUME NEW e \in 1 .. n PROVE log'[e] = SubSeq(commit, 1, e)
      <4>1. CASE e = n
        BY <1>1, <1>2, <4>1, PrefixOfParent DEF Shapes
      <4>2. CASE e # n
        <5>1. e \in 1 .. n - 1 /\ e \in Epochs
          BY <1>3, <4>2 DEF Epochs, GroupAssumption
        <5>2. SubSeq(Parent(commit), 1, e) = SubSeq(commit, 1, e) /\ Len(Parent(commit)) = n - 1
          BY <1>2, <5>1, PrefixOfParent
        <5>3. log[e] = SubSeq(commit, 1, e)
          BY <2>2, <5>1, <5>2
        <5> QED BY <1>1, <4>2, <5>1, <5>3 DEF Shapes
      <4> QED BY <4>1, <4>2
    <3> QED BY <1>3, <3>1 DEF Settled
  <2> QED BY <1>2, <2>1, <2>2 DEF Settled
<1> HIDE DEF n
<1>6. ASSUME NEW e \in Epochs PROVE log'[e] = log[e] \/ Settled(log'[e], log', stray')
  BY <1>1, <1>5 DEF Shapes
<1>7. /\ op' \in [Devices -> Changing]
      /\ op'[d].pc # "publish"
      /\ op'[d].pc \in {"published", "welcome"} => op'[d].commit = commit
      /\ \A x \in Devices \ {d} : op'[x] = op[x]
  <2>1. CASE op' = [op EXCEPT ![d].pc = "published"]
    <3>1. [op[d] EXCEPT !.pc = "published"] \in Changing
      BY <1>1 DEF Changing
    <3>2. op' = [op EXCEPT ![d] = [op[d] EXCEPT !.pc = "published"]]
      BY <2>1
    <3> QED BY <1>1, <3>1, <3>2 DEF Shapes, Changing
  <2>2. CASE op' = [op EXCEPT ![d] = IdleOp]
    BY <1>1, <2>2, IdleOpIsChanging DEF Shapes
  <2> QED BY <1>1, <2>1, <2>2
<1>8. Orderly(op'[d], log', stray')
  BY <1>2, <1>5, <1>7 DEF Orderly
<1>9. Holds(engine'[d], op'[d], log', stray') /\ Holds(snapshot'[d], op'[d], log', stray')
  <2>1. ASSUME NEW path \in Path \cup {None}, Holds(path, op[d], log, stray)
        PROVE  Holds(path, op'[d], log', stray')
    BY <1>1, <1>4, <1>5, <2>1, SettledGrows DEF Holds, Shapes
  <2> QED BY <1>1, <2>1 DEF HistoryInv, Shapes
<1>10. Shapes'
  BY <1>1, <1>4, <1>7 DEF Shapes
<1>11. \A x \in Devices :
        /\ op'[x] = op[x] \/ Orderly(op'[x], log', stray')
        /\ (op'[x] = op[x] /\ engine'[x] = engine[x]) \/ Holds(engine'[x], op'[x], log', stray')
        /\ (op'[x] = op[x] /\ snapshot'[x] = snapshot[x])
           \/ Holds(snapshot'[x], op'[x], log', stray')
  BY <1>1, <1>7, <1>8, <1>9
<1> QED BY <1>1, <1>4, <1>6, <1>10, <1>11, StepKeeps

-----------------------------------------------------------------------------
\* A step of tick t.
LEMMA TickKeeps ==
  ASSUME HistoryInv, GroupAssumption, NEW t \in Ticks, NEW k \in Polling,
         tick' = [tick EXCEPT ![t] = k], UNCHANGED <<log, op, stray>>,
         welcomes' \in [Devices -> SUBSET Path],
         \A x \in Devices : welcomes'[x] \subseteq welcomes[x],
         \A p \in k.got : Settled(p, log, stray),
         \A i \in 1 .. Len(k.page) : Settled(k.page[i], log, stray),
         engine' \in [Devices -> Path \cup {None}],
         snapshot' \in [Devices -> Path \cup {None}],
         \A x \in Devices : engine'[x] = engine[x] \/ Holds(engine'[x], op[x], log, stray),
         \A x \in Devices : snapshot'[x] = snapshot[x] \/ Holds(snapshot'[x], op[x], log, stray)
  PROVE  HistoryInv'
<1>1. Shapes
  BY DEF HistoryInv
<1>2. tick' \in [Ticks -> Polling] /\ tick'[t] = k /\ \A u \in Ticks \ {t} : tick'[u] = tick[u]
  BY <1>1 DEF Shapes
<1>3. Shapes'
  BY <1>1, <1>2 DEF Shapes
<1>4. ASSUME NEW u \in Ticks
      PROVE  /\ \A p \in tick'[u].got : p \in tick[u].got \/ Settled(p, log', stray')
             /\ \/ tick'[u].page = tick[u].page
                \/ \A i \in 1 .. Len(tick'[u].page) : Settled(tick'[u].page[i], log', stray')
  BY <1>2
<1>5. ASSUME NEW x \in Devices
      PROVE  /\ op'[x] = op[x]
             /\ engine'[x] = engine[x] \/ Holds(engine'[x], op'[x], log', stray')
             /\ snapshot'[x] = snapshot[x] \/ Holds(snapshot'[x], op'[x], log', stray')
             /\ \A p \in welcomes'[x] : p \in welcomes[x]
  OBVIOUS
<1> QED BY <1>3, <1>4, <1>5, StepKeeps

LEMMA IdleTickIsPolling ==
  IdleTick \in Polling /\ IdleTick.got = {} /\ IdleTick.page = <<>> /\ 1 .. Len(<<>>) = {}
BY DEF IdleTick, Polling

LEMMA TickDevice == ASSUME GroupAssumption, NEW t \in Ticks PROVE t[1] \in Devices
BY DEF GroupAssumption

LEMMA FetchWelcomesKeeps ==
  ASSUME HistoryInv, GroupAssumption, NEW t \in Ticks, FetchWelcomes(t)
  PROVE  HistoryInv'
<1> DEFINE d == t[1]
           k == [pc |-> "join", got |-> welcomes[d], page |-> <<>>]
<1>1. /\ Shapes /\ d \in Devices
      /\ welcomes' = [welcomes EXCEPT ![d] = {}]
      /\ UNCHANGED <<log, engine, snapshot, op, stray>>
      /\ tick[t] = IdleTick
      /\ tick' = [tick EXCEPT ![t] = k] \/ UNCHANGED tick
  BY TickDevice DEF HistoryInv, FetchWelcomes, deviceVars
<1>2. k \in Polling /\ k.got = welcomes[d] /\ k.page = <<>>
  BY <1>1 DEF Shapes, Polling
<1>3. \A p \in welcomes[d] : Settled(p, log, stray)
  BY <1>1 DEF HistoryInv
<1> HIDE DEF k, d
<1>4. /\ welcomes' \in [Devices -> SUBSET Path]
      /\ \A x \in Devices : welcomes'[x] \subseteq welcomes[x]
  BY <1>1 DEF Shapes
<1>5. engine' \in [Devices -> Path \cup {None}] /\ snapshot' \in [Devices -> Path \cup {None}]
  BY <1>1 DEF Shapes
<1>6. CASE tick' = [tick EXCEPT ![t] = k]
  <2>1. /\ \A p \in k.got : Settled(p, log, stray)
        /\ \A i \in 1 .. Len(k.page) : Settled(k.page[i], log, stray)
        /\ \A x \in Devices : engine'[x] = engine[x] /\ snapshot'[x] = snapshot[x]
    BY <1>1, <1>2, <1>3, IdleTickIsPolling
  <2> QED BY <1>1, <1>2, <1>4, <1>5, <1>6, <2>1, TickKeeps
<1>7. CASE UNCHANGED tick
  <2>1. tick' = [tick EXCEPT ![t] = IdleTick]
    BY <1>1, <1>7 DEF Shapes
  <2>2. /\ \A p \in IdleTick.got : Settled(p, log, stray)
        /\ \A i \in 1 .. Len(IdleTick.page) : Settled(IdleTick.page[i], log, stray)
        /\ \A x \in Devices : engine'[x] = engine[x] /\ snapshot'[x] = snapshot[x]
    BY <1>1, IdleTickIsPolling
  <2> QED BY <1>1, <1>4, <1>5, <2>1, <2>2, IdleTickIsPolling, TickKeeps
<1> QED BY <1>1, <1>6, <1>7

LEMMA JoinKeeps ==
  ASSUME HistoryInv, GroupAssumption, NEW t \in Ticks, Join(t)
  PROVE  HistoryInv'
<1> DEFINE d == t[1]
<1>1. /\ Shapes /\ d \in Devices /\ tick[t] \in Polling
      /\ UNCHANGED <<log, welcomes, snapshot, op, stray>>
  BY TickDevice DEF HistoryInv, Shapes, Join, serverVars, history
<1>2. PICK path \in tick[t].got :
        /\ tick' = [tick EXCEPT ![t] =
             [pc |-> IF tick[t].got = {path} THEN "joined" ELSE "join",
              got |-> tick[t].got \ {path}, page |-> <<>>]]
        /\ engine' = [engine EXCEPT ![d] = path] \/ UNCHANGED engine
  BY <1>1 DEF Join, Shapes
<1> DEFINE k == [pc |-> IF tick[t].got = {path} THEN "joined" ELSE "join",
                 got |-> tick[t].got \ {path}, page |-> <<>>]
<1>3. path \in Path /\ Settled(path, log, stray)
  BY <1>1 DEF HistoryInv, Polling
<1>4. k \in Polling /\ k.got \subseteq tick[t].got /\ k.page = <<>>
  BY <1>1 DEF Polling
<1>5. tick' = [tick EXCEPT ![t] = k]
  BY <1>2
<1> HIDE DEF k
<1>6. \A p \in k.got : Settled(p, log, stray)
  BY <1>4 DEF HistoryInv
<1>7. /\ engine' \in [Devices -> Path \cup {None}] /\ snapshot' \in [Devices -> Path \cup {None}]
      /\ \A x \in Devices : engine'[x] = engine[x] \/ engine'[x] = path
  BY <1>1, <1>2, <1>3 DEF Shapes
<1>8. \A x \in Devices : engine'[x] = engine[x] \/ Holds(engine'[x], op[x], log, stray)
  BY <1>3, <1>7 DEF Holds
<1>9. /\ welcomes' \in [Devices -> SUBSET Path]
      /\ \A x \in Devices : welcomes'[x] \subseteq welcomes[x]
      /\ \A x \in Devices : snapshot'[x] = snapshot[x]
  BY <1>1 DEF Shapes
<1>10. \A i \in 1 .. Len(k.page) : Settled(k.page[i], log, stray)
  BY <1>4
<1> QED BY <1>1, <1>4, <1>5, <1>6, <1>7, <1>8, <1>9, <1>10, TickKeeps

\* PersistJoined, PersistApplied: the snapshot catches up with the engine.
LEMMA PersistKeeps ==
  ASSUME HistoryInv, GroupAssumption, NEW t \in Ticks, PersistJoined(t) \/ PersistApplied(t)
  PROVE  HistoryInv'
<1> DEFINE d == t[1]
<1>1. /\ Shapes /\ d \in Devices /\ tick[t] \in Polling
      /\ UNCHANGED <<log, welcomes, engine, op, stray>>
      /\ snapshot' = [snapshot EXCEPT ![d] = engine'[d]]
      /\ \/ tick' = [tick EXCEPT ![t].pc = "join"]
         \/ tick' = [tick EXCEPT ![t] = IdleTick]
  BY TickDevice DEF HistoryInv, Shapes, PersistJoined, PersistApplied, serverVars, history,
     PersistSnapshot
<1>2. PICK k \in Polling : /\ tick' = [tick EXCEPT ![t] = k]
                           /\ k.got \subseteq tick[t].got
                           /\ k.page = tick[t].page \/ k.page = <<>>
  <2>1. CASE tick' = [tick EXCEPT ![t].pc = "join"]
    <3>1. /\ [tick[t] EXCEPT !.pc = "join"] \in Polling
          /\ [tick[t] EXCEPT !.pc = "join"].got = tick[t].got
          /\ [tick[t] EXCEPT !.pc = "join"].page = tick[t].page
      BY <1>1 DEF Polling
    <3>2. tick' = [tick EXCEPT ![t] = [tick[t] EXCEPT !.pc = "join"]]
      BY <2>1
    <3> QED BY <3>1, <3>2
  <2>2. CASE tick' = [tick EXCEPT ![t] = IdleTick]
    BY <2>2, IdleTickIsPolling
  <2> QED BY <1>1, <2>1, <2>2
<1>3. /\ \A p \in k.got : Settled(p, log, stray)
      /\ \A i \in 1 .. Len(k.page) : Settled(k.page[i], log, stray)
  BY <1>2 DEF HistoryInv
<1>4. /\ engine' \in [Devices -> Path \cup {None}] /\ snapshot' \in [Devices -> Path \cup {None}]
      /\ \A x \in Devices : snapshot'[x] = snapshot[x] \/ snapshot'[x] = engine[x]
      /\ \A x \in Devices : engine'[x] = engine[x]
  BY <1>1 DEF Shapes
<1>5. \A x \in Devices : snapshot'[x] = snapshot[x] \/ Holds(snapshot'[x], op[x], log, stray)
  BY <1>4 DEF HistoryInv
<1>6. /\ welcomes' \in [Devices -> SUBSET Path]
      /\ \A x \in Devices : welcomes'[x] \subseteq welcomes[x]
  BY <1>1 DEF Shapes
<1> QED BY <1>1, <1>2, <1>3, <1>4, <1>5, <1>6, TickKeeps

LEMMA FetchCommitsKeeps ==
  ASSUME HistoryInv, GroupAssumption, NEW t \in Ticks, FetchCommits(t)
  PROVE  HistoryInv'
<1> DEFINE since == cursor[t[1]]
           stored == {e \in Epochs : e >= since + 1 /\ ~EpochFree(e)}
           page == IF since = None THEN <<>> ELSE Page(stored)
           k == IF page = <<>> THEN IdleTick ELSE [pc |-> "apply", got |-> {}, page |-> page]
<1>1. /\ Shapes /\ tick' = [tick EXCEPT ![t] = k]
      /\ UNCHANGED <<log, welcomes, engine, snapshot, op, stray>>
  BY DEF HistoryInv, FetchCommits, FetchPendingCommits, serverVars, deviceVars, history
<1>2. /\ page \in Seq(Path)
      /\ \A i \in 1 .. Len(page) : Settled(page[i], log, stray)
  <2>1. CASE page = <<>>
    <3> HIDE DEF page
    <3>1. <<>> \in Seq(Path)
      OBVIOUS
    <3> QED BY <2>1, <3>1, IdleTickIsPolling
  <2>2. CASE page = Page(stored)
    <3>1. stored \in SUBSET Epochs /\ \A e \in stored : log[e] # None
      BY DEF EpochFree
    <3> HIDE DEF stored
    <3>2. Page(stored) \in Seq(Path)
          /\ \A i \in 1 .. Len(Page(stored)) : \E e \in stored : Page(stored)[i] = log[e]
      BY <1>1, <3>1, PageIsStored
    <3> QED BY <2>2, <3>1, <3>2 DEF HistoryInv
  <2> QED BY <2>1, <2>2
<1> HIDE DEF page
<1>3. k \in Polling /\ k.got = {} /\ (k.page = page \/ k.page = <<>>)
  BY <1>2, IdleTickIsPolling DEF Polling
<1> HIDE DEF k
<1>4. /\ \A p \in k.got : Settled(p, log, stray)
      /\ \A i \in 1 .. Len(k.page) : Settled(k.page[i], log, stray)
  BY <1>2, <1>3
<1>5. /\ engine' \in [Devices -> Path \cup {None}] /\ snapshot' \in [Devices -> Path \cup {None}]
      /\ welcomes' \in [Devices -> SUBSET Path]
  BY <1>1 DEF Shapes
<1> QED BY <1>1, <1>3, <1>4, <1>5, TickKeeps

LEMMA ApplyKeeps ==
  ASSUME HistoryInv, GroupAssumption, NEW t \in Ticks, ApplyCommits(t)
  PROVE  HistoryInv'
<1> DEFINE d == t[1]
           page == tick[t].page
<1>1. /\ Shapes /\ d \in Devices /\ tick[t] \in Polling
      /\ UNCHANGED <<log, welcomes, snapshot, op, stray>>
  BY TickDevice DEF HistoryInv, Shapes, ApplyCommits, serverVars, history
<1>2. PICK n \in 0 .. Len(page) :
        /\ engine' = IF n = 0 THEN engine ELSE [engine EXCEPT ![d] = page[n]]
        /\ \/ tick' = [tick EXCEPT ![t].pc = "save"] \/ tick' = [tick EXCEPT ![t] = IdleTick]
  BY DEF ApplyCommits
<1>3. PICK k \in Polling : /\ tick' = [tick EXCEPT ![t] = k]
                           /\ k.got \subseteq tick[t].got
                           /\ k.page = tick[t].page \/ k.page = <<>>
  <2>1. CASE tick' = [tick EXCEPT ![t].pc = "save"]
    <3>1. /\ [tick[t] EXCEPT !.pc = "save"] \in Polling
          /\ [tick[t] EXCEPT !.pc = "save"].got = tick[t].got
          /\ [tick[t] EXCEPT !.pc = "save"].page = tick[t].page
      BY <1>1 DEF Polling
    <3>2. tick' = [tick EXCEPT ![t] = [tick[t] EXCEPT !.pc = "save"]]
      BY <2>1
    <3> QED BY <3>1, <3>2
  <2>2. CASE tick' = [tick EXCEPT ![t] = IdleTick]
    BY <2>2, IdleTickIsPolling
  <2> QED BY <1>2, <2>1, <2>2
<1>4. /\ \A p \in k.got : Settled(p, log, stray)
      /\ \A i \in 1 .. Len(k.page) : Settled(k.page[i], log, stray)
  BY <1>3 DEF HistoryInv
<1>5. n # 0 => page[n] \in Path /\ Settled(page[n], log, stray)
  BY <1>1 DEF HistoryInv, Polling
<1>6. /\ engine' \in [Devices -> Path \cup {None}] /\ snapshot' \in [Devices -> Path \cup {None}]
      /\ welcomes' \in [Devices -> SUBSET Path]
      /\ \A x \in Devices : engine'[x] = engine[x] \/ (n # 0 /\ engine'[x] = page[n])
      /\ \A x \in Devices : snapshot'[x] = snapshot[x] /\ welcomes'[x] \subseteq welcomes[x]
  BY <1>1, <1>2, <1>5 DEF Shapes
<1>7. \A x \in Devices : engine'[x] = engine[x] \/ Holds(engine'[x], op[x], log, stray)
  BY <1>5, <1>6 DEF Holds
<1> QED BY <1>1, <1>3, <1>4, <1>6, <1>7, TickKeeps

-----------------------------------------------------------------------------
\* A commit that was merged and not sent is a stray after the restart.
LEMMA CrashKeeps ==
  ASSUME HistoryInv, GroupAssumption, NEW d \in Devices, Crash(d)
  PROVE  HistoryInv'
<1>1. /\ Shapes /\ op' = [op EXCEPT ![d] = IdleOp]
      /\ engine' = [engine EXCEPT ![d] = snapshot[d]]
      /\ tick' = [t \in Ticks |-> IF t[1] = d THEN IdleTick ELSE tick[t]]
      /\ stray' = stray \cup (IF op[d].pc = "publish" THEN {op[d].commit} ELSE {})
      /\ UNCHANGED <<log, welcomes, snapshot>>
  BY DEF HistoryInv, Crash, serverVars
<1>2. Orderly(op[d], log, stray)
  BY DEF HistoryInv
<1>3. stray \subseteq stray' /\ stray' \subseteq Path
  BY <1>1, <1>2 DEF Shapes, Orderly
<1>4. op[d].pc = "publish" => Settled(op[d].commit, log, stray')
  BY <1>1, <1>2, <1>3, StrayCommits DEF Orderly
<1>5. Holds(snapshot[d], IdleOp, log, stray')
  <2>1. Holds(snapshot[d], op[d], log, stray) /\ snapshot[d] \in Path \cup {None}
    BY <1>1 DEF HistoryInv, Shapes
  <2>2. CASE snapshot[d] = None
    BY <2>2 DEF Holds
  <2>3. CASE snapshot[d] \in Path /\ Settled(snapshot[d], log, stray)
    <3>1. Settled(snapshot[d], log, stray')
      BY <1>1, <1>3, <2>3, SettledGrows DEF Shapes
    <3> QED BY <2>3, <3>1 DEF Holds
  <2>4. CASE op[d].pc = "publish" /\ snapshot[d] = op[d].commit
    BY <1>4, <2>4 DEF Holds
  <2> QED BY <2>1, <2>2, <2>3, <2>4 DEF Holds
<1>6. /\ op' \in [Devices -> Changing] /\ op'[d] = IdleOp
      /\ \A x \in Devices \ {d} : op'[x] = op[x]
  BY <1>1, IdleOpIsChanging DEF Shapes
<1>7. /\ tick' \in [Ticks -> Polling]
      /\ \A t \in Ticks : tick'[t] = tick[t] \/ tick'[t] = IdleTick
  BY <1>1, IdleTickIsPolling DEF Shapes
<1>8. /\ engine' \in [Devices -> Path \cup {None}]
      /\ engine'[d] = snapshot[d] /\ \A x \in Devices \ {d} : engine'[x] = engine[x]
  BY <1>1 DEF Shapes
<1>9. Shapes'
  BY <1>1, <1>3, <1>6, <1>7, <1>8 DEF Shapes
<1>10. Orderly(IdleOp, log', stray')
  BY IdleOpIsChanging DEF Orderly
<1>11. \A x \in Devices :
         /\ op'[x] = op[x] \/ Orderly(op'[x], log', stray')
         /\ (op'[x] = op[x] /\ engine'[x] = engine[x]) \/ Holds(engine'[x], op'[x], log', stray')
         /\ (op'[x] = op[x] /\ snapshot'[x] = snapshot[x])
            \/ Holds(snapshot'[x], op'[x], log', stray')
  BY <1>1, <1>5, <1>6, <1>8, <1>10
<1>12. \A t \in Ticks : /\ \A p \in tick'[t].got : p \in tick[t].got
                        /\ \/ tick'[t].page = tick[t].page
                           \/ \A i \in 1 .. Len(tick'[t].page) :
                                Settled(tick'[t].page[i], log', stray')
  BY <1>7, IdleTickIsPolling
<1> QED BY <1>1, <1>3, <1>9, <1>11, <1>12, StepKeeps

LEMMA HistoryStarts == ASSUME Init, GroupAssumption PROVE HistoryInv
<1>1. <<>> \in Path /\ Settled(<<>>, log, stray)
  BY DEF Path, Settled, GroupAssumption
<1>2. Shapes
  BY <1>1, IdleOpIsChanging, IdleTickIsPolling DEF Init, Shapes
<1>3. ASSUME NEW d \in Devices
      PROVE  /\ Orderly(op[d], log, stray)
             /\ Holds(engine[d], op[d], log, stray) /\ Holds(snapshot[d], op[d], log, stray)
  BY <1>1, IdleOpIsChanging DEF Init, Orderly, Holds
<1>4. \A t \in Ticks : tick[t].got = {} /\ tick[t].page = <<>>
  BY IdleTickIsPolling DEF Init
<1> QED BY <1>2, <1>3, <1>4 DEF Init, HistoryInv

LEMMA HistoryStep ==
  ASSUME HistoryInv, [Next]_vars, GroupAssumption
  PROVE  HistoryInv'
<1>1. ASSUME NEW d \in Devices, UserStep(d) PROVE HistoryInv'
  BY <1>1, StartKeeps DEF UserStep
<1>2. ASSUME NEW d \in Devices, OpStep(d) PROVE HistoryInv'
  BY <1>2, MergeKeeps, RefusedKeeps, PublishKeeps, PublishFailsKeeps, AcceptedKeeps,
     WelcomesKeep DEF OpStep
<1>3. ASSUME NEW t \in Ticks, TickStep(t) PROVE HistoryInv'
  BY <1>3, FetchWelcomesKeeps, JoinKeeps, PersistKeeps, FetchCommitsKeeps, ApplyKeeps
     DEF TickStep
<1>4. CASE UNCHANGED vars
  BY <1>4 DEF vars, HistoryInv, Shapes
<1> QED BY <1>1, <1>2, <1>3, <1>4, CrashKeeps DEF Next

\* Every engine is on the stored history, on its own commit under way on top of it, or
\* on a commit whose publication was refused or lost: two members at one epoch who see
\* different groups are traced to such a commit (routers/mls/groups.ts publishCommit,
\* chat-mls-core/client/index.ts addMembersByAccounts, pollPendingCommits).
THEOREM EnginesShareHistory == Spec => []OneHistory
<1>1. ASSUME HistoryInv PROVE OneHistory
  <2>1. ASSUME NEW d \in Devices, engine[d] # None
        PROVE  \/ OnStray(engine[d]) \/ Stored(engine[d])
               \/ op[d].pc = "publish" /\ engine[d] = op[d].commit /\ Stored(Parent(engine[d]))
    <3>1. engine[d] \in Path /\ Holds(engine[d], op[d], log, stray) /\ Shapes
          /\ Orderly(op[d], log, stray)
      BY <1>1, <2>1 DEF HistoryInv, Shapes
    <3>2. CASE Settled(engine[d], log, stray)
      BY <3>2 DEF Settled, OnStray, Stored
    <3>3. CASE op[d].pc = "publish" /\ engine[d] = op[d].commit
      <4>1. Len(engine[d]) > 0 /\ Settled(Parent(engine[d]), log, stray)
        BY <3>1, <3>3 DEF Orderly
      <4>2. CASE \E s \in stray : /\ Len(s) <= Len(Parent(engine[d]))
                                  /\ SubSeq(Parent(engine[d]), 1, Len(s)) = s
        <5>1. \E s \in stray : Len(s) <= Len(engine[d]) /\ SubSeq(engine[d], 1, Len(s)) = s
          BY <3>1, <4>1, <4>2, StrayCommits DEF Shapes
        <5> QED BY <5>1 DEF OnStray
      <4>3. CASE \A e \in 1 .. Len(Parent(engine[d])) : log[e] = SubSeq(Parent(engine[d]), 1, e)
        BY <3>3, <4>3 DEF Stored
      <4> QED BY <4>1, <4>2, <4>3 DEF Settled
    <3> QED BY <2>1, <3>1, <3>2, <3>3 DEF Holds
  <2> QED BY <2>1 DEF OneHistory
<1>2. Init => HistoryInv
  BY HistoryStarts, GroupAssumption
<1>3. HistoryInv /\ [Next]_vars => HistoryInv'
  BY HistoryStep, GroupAssumption
<1> QED BY <1>1, <1>2, <1>3, PTL DEF Spec

-----------------------------------------------------------------------------
\* The cursor

Sent == {"publish", "published", "welcome"}

\* The group state path goes as far as the epoch c.
Reaches(path, c) == path # None /\ c <= Len(path)

CursorTypes ==
  /\ cursor \in [Devices -> Nat \cup {None}]
  /\ faults \in Nat
  /\ \A d \in Devices : IsFiniteSet(welcomes[d])
  /\ \A t \in Ticks : tick[t].pc = "apply" => tick[t].page # <<>>

\* While nothing fails, a device has a cursor if it has the group, and unless it was
\* invited back, its engine is behind neither the cursor nor the commit of its own
\* change, and one tick at most holds its one invitation, which comes before both.
DeviceCursor(d) ==
  /\ engine[d] = None <=> cursor[d] = None
  /\ op[d].pc \in Sent => engine[d] # None
  /\ d \notin rejoins =>
       /\ cursor[d] # None =>
            /\ Reaches(engine[d], cursor[d])
            /\ \/ Reaches(snapshot[d], cursor[d])
               \/ \E t \in TicksOf(d) : tick[t].pc \in {"joined", "save"}
       /\ op[d].pc \in Sent => Reaches(engine[d], Len(op[d].commit))
       /\ \A t \in TicksOf(d) : tick[t].got # {} =>
            /\ cursor[d] = None
            /\ \E p \in tick[t].got : tick[t].got = {p}
            /\ \A u \in TicksOf(d) : u # t => tick[u].got = {}

CursorInv ==
  /\ CursorTypes
  /\ faults = 0 => \A d \in Devices : DeviceCursor(d)

\* What a step does not touch of a device, it keeps.
LEMMA OtherCursor ==
  ASSUME NEW d \in Devices, DeviceCursor(d), rejoins \subseteq rejoins',
         cursor'[d] = cursor[d], engine'[d] = engine[d], snapshot'[d] = snapshot[d],
         op'[d].pc \in Sent => op[d].pc \in Sent /\ op'[d].commit = op[d].commit,
         \A t \in TicksOf(d) : tick'[t] = tick[t]
  PROVE  DeviceCursor(d)'
BY DEF DeviceCursor, TicksOf

\* The steps of a change that leave the engine alone.
LEMMA ChangeCursor ==
  ASSUME CursorInv, faults = 0, rejoins' = rejoins, UNCHANGED <<deviceVars, tick>>, Shapes,
         NEW d \in Devices, NEW o, op' = [op EXCEPT ![d] = o],
         o.pc \in Sent => op[d].pc \in Sent /\ o.commit = op[d].commit
  PROVE  \A e \in Devices : DeviceCursor(e)'
<1> SUFFICES ASSUME NEW e \in Devices PROVE DeviceCursor(e)'
  OBVIOUS
<1>1. DeviceCursor(e)
  BY DEF CursorInv
<1>2. op'[e].pc \in Sent => op[e].pc \in Sent /\ op'[e].commit = op[e].commit
  BY DEF Shapes
<1> QED BY <1>1, <1>2, OtherCursor DEF deviceVars

\* AddMembers, RemoveMembers: the engine and the snapshot are on the new commit.
LEMMA MergeCursor ==
  ASSUME CursorInv, HistoryInv, faults = 0, GroupAssumption, NEW d \in Devices,
         AddMembers(d) \/ RemoveMembers(d)
  PROVE  \A e \in Devices : DeviceCursor(e)'
<1>0. Shapes
  BY DEF HistoryInv
<1> USE <1>0
<1>1. PICK c \in Commit, who \in SUBSET Devices :
        /\ engine[d] # None
        /\ op' = [op EXCEPT ![d] = [pc |-> "publish", who |-> who,
                                    commit |-> Append(engine[d], c)]]
        /\ engine' = [engine EXCEPT ![d] = Append(engine[d], c)]
        /\ snapshot' = [snapshot EXCEPT ![d] = engine'[d]]
        /\ UNCHANGED <<cursor, tick, rejoins>>
  <2>1. CASE AddMembers(d)
    <3>1. PICK got \in SUBSET op[d].who \ {{}} :
            /\ CanAdd(d, got)
            /\ engine' = [engine EXCEPT ![d] = EngineAdd(d, got)]
            /\ PersistSnapshot(d)
            /\ op' = [op EXCEPT ![d] = [pc |-> "publish", who |-> got,
                                        commit |-> EngineAdd(d, got)]]
      BY <2>1 DEF AddMembers
    <3>2. op[d].who \in SUBSET Devices
      BY DEF Shapes, Changing
    <3>3. [by |-> d, adds |-> got, removes |-> {}] \in Commit /\ got \in SUBSET Devices
      BY <3>2 DEF Commit
    <3> QED BY <2>1, <3>1, <3>3
         DEF AddMembers, EngineAdd, CanAdd, Active, PersistSnapshot, history
  <2>2. CASE RemoveMembers(d)
    <3>1. op[d].who \in SUBSET Devices
      BY DEF Shapes, Changing
    <3>2. [by |-> d, adds |-> {}, removes |-> op[d].who] \in Commit
      BY <3>1 DEF Commit
    <3> QED BY <2>2, <3>1, <3>2
         DEF RemoveMembers, EngineRemove, CanRemove, Active, PersistSnapshot, history
  <2> QED BY <2>1, <2>2
<1>2. engine[d] \in Path /\ Append(engine[d], c) \in Path
      /\ Len(Append(engine[d], c)) = Len(engine[d]) + 1 /\ Len(engine[d]) \in Nat
  BY <1>1 DEF Shapes, Path
<1>3. Append(engine[d], c) # None
  BY <1>2 DEF GroupAssumption, Path, Commit
<1> DEFINE longer == Append(engine[d], c)
<1>4. ASSUME NEW e \in Devices, e # d PROVE DeviceCursor(e)'
  <2>1. DeviceCursor(e)
    BY DEF CursorInv
  <2>2. engine'[e] = engine[e] /\ snapshot'[e] = snapshot[e] /\ op'[e] = op[e]
    BY <1>1, <1>4 DEF Shapes
  <2> QED BY <1>1, <2>1, <2>2, OtherCursor
<1>5. engine'[d] = longer /\ snapshot'[d] = longer /\ op'[d].commit = longer
  BY <1>1 DEF Shapes
<1>6. DeviceCursor(d) /\ cursor[d] \in Nat \cup {None}
  BY DEF CursorInv, CursorTypes
<1> HIDE DEF longer
<1>7. cursor'[d] # None /\ d \notin rejoins =>
        Reaches(engine'[d], cursor'[d]) /\ Reaches(snapshot'[d], cursor'[d])
  BY <1>1, <1>2, <1>3, <1>5, <1>6 DEF DeviceCursor, Reaches, longer
<1>8. Reaches(engine'[d], Len(op'[d].commit))
  BY <1>2, <1>3, <1>5 DEF Reaches, longer
<1>9. engine'[d] = None <=> cursor'[d] = None
  BY <1>1, <1>3, <1>5, <1>6 DEF DeviceCursor, longer
<1>10. DeviceCursor(d)'
  BY <1>1, <1>6, <1>7, <1>8, <1>9 DEF DeviceCursor, TicksOf
<1> QED BY <1>4, <1>10

LEMMA PublishedCommit ==
  ASSUME HistoryInv, NEW d \in Devices, op[d].pc \in Sent
  PROVE  op[d].commit \in Path
BY DEF HistoryInv, Orderly, Sent

\* The accepted answer: the cursor is on the commit, and the snapshot is the engine's.
LEMMA AcceptedCursor ==
  ASSUME CursorInv, HistoryInv, faults = 0, GroupAssumption, NEW d \in Devices, CommitAccepted(d)
  PROVE  \A e \in Devices : DeviceCursor(e)'
<1>1. /\ op[d].pc = "published" /\ UNCHANGED <<engine, tick, rejoins>>
      /\ cursor' = [cursor EXCEPT ![d] = Len(op[d].commit)]
      /\ snapshot' = [snapshot EXCEPT ![d] = engine[d]]
      /\ op[d] \in Changing
  BY DEF CommitAccepted, SetLastAppliedEpoch, PersistSnapshot, history, HistoryInv, Shapes
<1>0. Shapes
  BY DEF HistoryInv
<1> USE <1>0
<1>2. \A e \in Devices : op'[e].pc \in Sent =>
        op[e].pc \in Sent /\ op'[e].commit = op[e].commit
  <2>1. op' = [op EXCEPT ![d] = IF op[d].commit[Len(op[d].commit)].adds = {}
                                THEN IdleOp ELSE [op[d] EXCEPT !.pc = "welcome"]]
    BY DEF CommitAccepted
  <2>2. op'[d] = IdleOp \/ op'[d] = [op[d] EXCEPT !.pc = "welcome"]
    BY <2>1 DEF Shapes
  <2>3. op'[d].pc \in Sent => op'[d].commit = op[d].commit
    BY <1>1, <2>2, IdleOpIsChanging DEF Changing, Sent
  <2> QED BY <1>1, <2>1, <2>3 DEF Shapes, Sent
<1>3. ASSUME NEW e \in Devices, e # d PROVE DeviceCursor(e)'
  <2>1. DeviceCursor(e) /\ cursor'[e] = cursor[e] /\ snapshot'[e] = snapshot[e]
    BY <1>1, <1>3 DEF CursorInv, CursorTypes, Shapes
  <2> QED BY <1>1, <1>2, <2>1, OtherCursor
<1>4. DeviceCursor(d) /\ cursor'[d] = Len(op[d].commit) /\ snapshot'[d] = engine[d]
  BY <1>1 DEF CursorInv, CursorTypes, Shapes
<1>5. d \notin rejoins => Reaches(engine[d], Len(op[d].commit))
  BY <1>1, <1>4 DEF DeviceCursor, Sent
<1>6. engine[d] # None /\ cursor[d] # None /\ cursor'[d] # None
  <2>1. Len(op[d].commit) \in Nat
    BY <1>1, PublishedCommit DEF Sent, Path
  <2> QED BY <1>1, <1>4, <2>1 DEF DeviceCursor, Sent, GroupAssumption
<1>7. DeviceCursor(d)'
  BY <1>1, <1>2, <1>4, <1>5, <1>6 DEF DeviceCursor, TicksOf, Reaches
<1> QED BY <1>3, <1>7

LEMMA NoFault == ASSUME CursorTypes PROVE ~(Fault /\ faults' = 0)
BY DEF CursorTypes, Fault

\* What a tick does to the other devices.
LEMMA TickAside ==
  ASSUME CursorInv, faults = 0, GroupAssumption, Shapes, NEW t \in Ticks, NEW d \in Devices, d = t[1],
         rejoins \subseteq rejoins', UNCHANGED op,
         \A e \in Devices : e # d =>
           cursor'[e] = cursor[e] /\ engine'[e] = engine[e] /\ snapshot'[e] = snapshot[e],
         \A u \in Ticks : u # t => tick'[u] = tick[u],
         DeviceCursor(d)'
  PROVE  \A e \in Devices : DeviceCursor(e)'
<1> SUFFICES ASSUME NEW e \in Devices, e # d PROVE DeviceCursor(e)'
  OBVIOUS
<1>1. DeviceCursor(e)
  BY DEF CursorInv
<1>2. \A u \in TicksOf(e) : tick'[u] = tick[u]
  BY DEF TicksOf
<1> QED BY <1>1, <1>2, OtherCursor

LEMMA FetchWelcomesCursor ==
  ASSUME CursorInv, faults = 0, faults' = 0, GroupAssumption, Shapes, NEW t \in Ticks,
         FetchWelcomes(t)
  PROVE  \A e \in Devices : DeviceCursor(e)'
<1> DEFINE d == t[1]
           again == \/ cursor[d] # None \/ Cardinality(welcomes[d]) > 1
                    \/ \E u \in TicksOf(d) : tick[u].got # {}
<1>1. d \in Devices
  BY TickDevice
<1>2. /\ tick[t] = IdleTick /\ welcomes[d] # {}
      /\ rejoins' = rejoins \cup (IF again THEN {d} ELSE {})
      /\ tick' = [tick EXCEPT ![t] = [pc |-> "join", got |-> welcomes[d], page |-> <<>>]]
      /\ UNCHANGED <<cursor, engine, snapshot, op>>
  BY NoFault DEF FetchWelcomes, deviceVars, CursorInv
<1>3. DeviceCursor(d) /\ IsFiniteSet(welcomes[d])
  BY <1>1 DEF CursorInv, CursorTypes
<1>4. ASSUME d \notin rejoins'
      PROVE  /\ cursor[d] = None /\ \A u \in TicksOf(d) : tick[u].got = {}
             /\ \E p \in welcomes[d] : welcomes[d] = {p}
  <2>1. ~again
    BY <1>2, <1>4
  <2>2. Cardinality(welcomes[d]) \in Nat /\ Cardinality(welcomes[d]) # 0
    BY <1>2, <1>3, FS_CardinalityType, FS_EmptySet
  <2>3. Cardinality(welcomes[d]) = 1
    BY <2>1, <2>2
  <2>4. \E p : welcomes[d] = {p}
    BY <1>3, <2>3, FS_Singleton
  <2> QED BY <2>1, <2>4
<1> HIDE DEF again
<1>5. tick'[t].pc = "join" /\ tick'[t].got = welcomes[d] /\ \A u \in Ticks : u # t => tick'[u] = tick[u]
  BY <1>2 DEF Shapes
<1>6. \A u \in TicksOf(d) : tick[u].pc \in {"joined", "save"} => u # t
  BY <1>2 DEF IdleTick
<1>7. DeviceCursor(d)'
  <2>1. d \notin rejoins' => d \notin rejoins
    BY <1>2
  <2>2. \A u \in TicksOf(d) : tick[u].pc \in {"joined", "save"} => tick'[u] = tick[u]
    BY <1>5, <1>6 DEF TicksOf
  <2>3. ASSUME d \notin rejoins', NEW u \in TicksOf(d), tick'[u].got # {}
        PROVE  /\ cursor'[d] = None
               /\ \E p \in tick'[u].got : tick'[u].got = {p}
               /\ \A v \in TicksOf(d) : v # u => tick'[v].got = {}
    BY <1>2, <1>4, <1>5, <2>3 DEF TicksOf
  <2>4. cursor'[d] = cursor[d] /\ engine'[d] = engine[d] /\ snapshot'[d] = snapshot[d]
        /\ op'[d] = op[d]
    BY <1>2
  <2> HIDE DEF d
  <2> QED BY <1>3, <2>1, <2>2, <2>3, <2>4 DEF DeviceCursor, TicksOf
<1>8. rejoins \subseteq rejoins'
  BY <1>2
<1> HIDE DEF d
<1> QED BY <1>1, <1>2, <1>5, <1>7, <1>8, TickAside DEF d

LEMMA JoinCursor ==
  ASSUME CursorInv, faults = 0, GroupAssumption, Shapes, NEW t \in Ticks, Join(t)
  PROVE  \A e \in Devices : DeviceCursor(e)'
<1> DEFINE d == t[1]
<1>1. d \in Devices
  BY TickDevice
<1>2. PICK path \in tick[t].got :
        /\ tick' = [tick EXCEPT ![t] = [pc |-> IF @.got = {path} THEN "joined" ELSE "join",
                                        got |-> @.got \ {path}, page |-> <<>>]]
        /\ \/ engine' = [engine EXCEPT ![d] = path] /\ UpsertGroup(d, Len(path))
           \/ engine[d] # None /\ UNCHANGED <<engine, cursor>>
  BY DEF Join
<1>3. UNCHANGED <<snapshot, op, rejoins>>
  BY DEF Join, history
<1>4. DeviceCursor(d) /\ t \in TicksOf(d)
  BY <1>1 DEF CursorInv, TicksOf
<1>5. path \in Path /\ path # None /\ Len(path) \in Nat /\ Len(path) # None
  <2>1. path \in Path
    BY <1>2 DEF Shapes, Polling
  <2> QED BY <2>1 DEF Path, Commit, GroupAssumption
<1>6. /\ tick'[t].pc = IF tick[t].got = {path} THEN "joined" ELSE "join"
      /\ tick'[t].got = tick[t].got \ {path}
      /\ \A u \in Ticks : u # t => tick'[u] = tick[u]
  BY <1>2 DEF Shapes
<1>7. \/ engine'[d] = path /\ cursor'[d] = (IF cursor[d] = None THEN Len(path) ELSE cursor[d])
      \/ engine[d] # None /\ engine'[d] = engine[d] /\ cursor'[d] = cursor[d]
  BY <1>1, <1>2 DEF Shapes, UpsertGroup, CursorInv, CursorTypes
<1>8. ASSUME d \notin rejoins
      PROVE  /\ cursor[d] = None /\ tick[t].got = {path} /\ engine[d] = None
             /\ \A u \in TicksOf(d) : tick'[u].got = {}
  <2>1. cursor[d] = None /\ tick[t].got = {path}
        /\ \A u \in TicksOf(d) : u # t => tick[u].got = {}
    BY <1>2, <1>4, <1>8 DEF DeviceCursor
  <2>2. \A u \in TicksOf(d) : tick'[u].got = {}
    BY <1>6, <2>1 DEF TicksOf
  <2> QED BY <1>4, <2>1, <2>2 DEF DeviceCursor
<1>9. engine'[d] # None /\ cursor'[d] # None
  BY <1>4, <1>5, <1>7 DEF DeviceCursor
<1>10. d \notin rejoins => engine'[d] = path /\ cursor'[d] = Len(path) /\ op[d].pc \notin Sent
                          /\ tick'[t].pc = "joined"
  BY <1>4, <1>6, <1>7, <1>8 DEF DeviceCursor
<1>11. DeviceCursor(d)'
  <2>1. \A u \in TicksOf(d) : d \notin rejoins => tick'[u].got = {}
    BY <1>8
  <2>2. d \notin rejoins => Reaches(engine'[d], cursor'[d])
    BY <1>5, <1>10 DEF Reaches
  <2>3. op'[d] = op[d] /\ rejoins' = rejoins
    BY <1>3
  <2> HIDE DEF d
  <2> QED BY <1>4, <1>9, <1>10, <2>1, <2>2, <2>3 DEF DeviceCursor, TicksOf
<1>12. \A e \in Devices : e # d =>
         cursor'[e] = cursor[e] /\ engine'[e] = engine[e] /\ snapshot'[e] = snapshot[e]
  BY <1>1, <1>2, <1>3 DEF UpsertGroup, CursorInv, CursorTypes, Shapes
<1> HIDE DEF d
<1> QED BY <1>1, <1>3, <1>6, <1>11, <1>12, TickAside DEF d

\* PersistJoined, PersistApplied: the snapshot is the engine's state.
LEMMA PersistCursor ==
  ASSUME CursorInv, faults = 0, GroupAssumption, Shapes, NEW t \in Ticks,
         PersistJoined(t) \/ PersistApplied(t)
  PROVE  \A e \in Devices : DeviceCursor(e)'
<1> DEFINE d == t[1]
<1>1. d \in Devices
  BY TickDevice
<1>2. /\ snapshot' = [snapshot EXCEPT ![d] = engine[d]]
      /\ UNCHANGED <<cursor, engine, op, rejoins>>
      /\ \/ tick' = [tick EXCEPT ![t].pc = "join"]
         \/ tick' = [tick EXCEPT ![t] = IdleTick]
  BY DEF PersistJoined, PersistApplied, PersistSnapshot, history
<1>3. DeviceCursor(d)
  BY <1>1 DEF CursorInv
<1>4. /\ tick'[t].got \in {tick[t].got, {}}
      /\ \A u \in Ticks : u # t => tick'[u] = tick[u]
  BY <1>2, IdleTickIsPolling DEF Shapes, Polling
<1>5. snapshot'[d] = engine[d] /\ \A e \in Devices : e # d => snapshot'[e] = snapshot[e]
  BY <1>1, <1>2 DEF Shapes
<1>6. \A u \in TicksOf(d) : tick'[u].got \in {tick[u].got, {}}
  BY <1>4 DEF TicksOf
<1>7. DeviceCursor(d)'
  <2>1. cursor'[d] = cursor[d] /\ engine'[d] = engine[d] /\ op'[d] = op[d] /\ rejoins' = rejoins
    BY <1>2
  <2>2. ASSUME d \notin rejoins, NEW u \in TicksOf(d), tick'[u].got # {}
        PROVE  /\ cursor[d] = None
               /\ \E p \in tick'[u].got : tick'[u].got = {p}
               /\ \A v \in TicksOf(d) : v # u => tick'[v].got = {}
    <3>1. tick'[u].got = tick[u].got /\ tick[u].got # {}
      BY <1>6, <2>2
    <3>2. /\ cursor[d] = None
          /\ \E p \in tick[u].got : tick[u].got = {p}
          /\ \A v \in TicksOf(d) : v # u => tick[v].got = {}
      BY <1>3, <2>2, <3>1 DEF DeviceCursor
    <3> QED BY <1>6, <3>1, <3>2
  <2> HIDE DEF d
  <2> QED BY <1>3, <1>5, <2>1, <2>2 DEF DeviceCursor, TicksOf
<1> HIDE DEF d
<1> QED BY <1>1, <1>2, <1>4, <1>5, <1>7, TickAside DEF d

LEMMA FetchCommitsCursor ==
  ASSUME CursorInv, faults = 0, GroupAssumption, Shapes, NEW t \in Ticks, FetchCommits(t)
  PROVE  \A e \in Devices : DeviceCursor(e)'
<1> DEFINE d == t[1]
<1>1. d \in Devices
  BY TickDevice
<1>2. tick[t].pc \in {"idle", "join"} /\ UNCHANGED <<cursor, engine, snapshot, op, rejoins>>
  BY DEF FetchCommits, deviceVars, history, IdleTick
<1>3. DeviceCursor(d)
  BY <1>1 DEF CursorInv
<1>4. tick'[t].got = {} /\ \A u \in Ticks : u # t => tick'[u] = tick[u]
  BY IdleTickIsPolling DEF FetchCommits, Shapes
<1>5. \A u \in TicksOf(d) : tick[u].pc \in {"joined", "save"} => tick'[u] = tick[u]
  BY <1>2, <1>4 DEF TicksOf
<1>6. DeviceCursor(d)'
  <2>1. /\ cursor'[d] = cursor[d] /\ engine'[d] = engine[d] /\ snapshot'[d] = snapshot[d]
        /\ op'[d] = op[d] /\ rejoins' = rejoins
    BY <1>2
  <2>2. \A u \in TicksOf(d) : tick'[u] = tick[u] \/ tick'[u].got = {}
    BY <1>4 DEF TicksOf
  <2> HIDE DEF d
  <2> QED BY <1>3, <1>5, <2>1, <2>2 DEF DeviceCursor, TicksOf
<1> HIDE DEF d
<1> QED BY <1>1, <1>2, <1>4, <1>6, TickAside DEF d

\* The engine is longer by every commit it takes.
LEMMA TakesGrow ==
  ASSUME Shapes, GroupAssumption, NEW t \in Ticks, NEW n \in 1 .. Len(tick[t].page), Takes(t, n)
  PROVE  /\ engine[t[1]] \in Path /\ tick[t].page[n] \in Path
         /\ Len(tick[t].page[n]) = Len(engine[t[1]]) + n
<1> DEFINE page == tick[t].page
           before(i) == IF i = 1 THEN engine[t[1]] ELSE page[i - 1]
           start == engine[t[1]]
           Grown == {k \in Nat : k \in 1 .. n => Len(page[k]) = Len(start) + k}
<1>1. page \in Seq(Path) /\ n \in Nat /\ n <= Len(page) /\ Len(page) \in Nat
  BY DEF Shapes, Polling
<1>2. \A i \in 1 .. n : page[i] \in Path
  BY <1>1
<1>3. ASSUME NEW i \in 1 .. n
      PROVE  before(i) # None /\ Parent(page[i]) = before(i) /\ Len(page[i]) > 0
  BY <1>1 DEF Takes, CanProcess
<1>4. start \in Path
  <2>1. start # None
    BY <1>1, <1>3
  <2> QED BY <2>1, TickDevice DEF Shapes
<1>5. ASSUME NEW i \in 1 .. n PROVE Len(page[i]) = Len(before(i)) + 1
  <2> DEFINE commit == page[i]
             prior == before(i)
  <2>1. commit \in Path /\ Len(commit) > 0 /\ Parent(commit) = prior
    BY <1>2, <1>3
  <2> HIDE DEF page, before, commit, prior
  <2>2. Len(Parent(commit)) = Len(commit) - 1 /\ Len(commit) \in Nat
    BY <2>1, PrefixOfParent DEF Path
  <2> QED BY <2>1, <2>2 DEF commit, prior
<1>6. 0 \in Grown
  OBVIOUS
<1>7. ASSUME NEW k \in Grown PROVE k + 1 \in Grown
  <2>1. k \in Nat /\ k + 1 \in Nat
    BY <1>7
  <2> SUFFICES ASSUME k + 1 \in 1 .. n PROVE Len(page[k + 1]) = Len(start) + (k + 1)
    BY <2>1
  <2>2. Len(start) \in Nat
    BY <1>4 DEF Path
  <2>3. CASE k = 0
    <3>1. before(k + 1) = start
      BY <2>3
    <3> HIDE DEF page, before, start
    <3> QED BY <1>5, <2>2, <2>3, <3>1
  <2>4. CASE k # 0
    <3>1. k \in 1 .. n /\ before(k + 1) = page[k]
      BY <1>1, <2>1, <2>4
    <3>2. Len(page[k]) = Len(start) + k
      BY <1>7, <3>1
    <3> HIDE DEF page, before, start
    <3>3. Len(page[k + 1]) = Len(page[k]) + 1
      BY <1>5, <3>1
    <3> QED BY <2>1, <2>2, <3>2, <3>3
  <2> QED BY <2>3, <2>4
<1>8. n \in Grown
  <2>1. Grown \in SUBSET Nat
    OBVIOUS
  <2> HIDE DEF Grown
  <2> QED BY <1>1, <1>6, <1>7, <2>1, Induction
<1> QED BY <1>2, <1>4, <1>8

LEMMA ApplyCursor ==
  ASSUME CursorInv, faults = 0, GroupAssumption, Shapes, HistoryInv, NEW t \in Ticks, ApplyCommits(t)
  PROVE  \A e \in Devices : DeviceCursor(e)'
<1> DEFINE d == t[1]
           page == tick[t].page
<1>1. d \in Devices
  BY TickDevice
<1>2. PICK n \in 0 .. Len(page) :
        /\ Takes(t, n)
        /\ engine' = IF n = 0 THEN engine ELSE [engine EXCEPT ![d] = page[n]]
        /\ IF n = Len(page)
           THEN SetLastAppliedEpoch(d, Len(page[n])) /\ tick' = [tick EXCEPT ![t].pc = "save"]
           ELSE UNCHANGED cursor /\ tick' = [tick EXCEPT ![t] = IdleTick]
  BY DEF ApplyCommits
<1>3. tick[t].pc = "apply" /\ UNCHANGED <<snapshot, op, rejoins>>
  BY DEF ApplyCommits, history
<1>4. DeviceCursor(d) /\ page \in Seq(Path) /\ page # <<>> /\ Len(page) \in Nat /\ Len(page) > 0
  <2>1. page \in Seq(Path) /\ page # <<>>
    BY <1>3 DEF CursorInv, CursorTypes, Shapes, Polling
  <2> QED BY <1>1, <2>1 DEF CursorInv
<1>5. ASSUME n # 0
      PROVE  /\ engine[d] \in Path /\ page[n] \in Path /\ engine'[d] = page[n]
             /\ Len(page[n]) = Len(engine[d]) + n /\ page[n] # None /\ Len(page[n]) # None
             /\ Len(page[n]) \in Nat /\ Len(engine[d]) \in Nat /\ engine[d] # None
  <2>1. n \in 1 .. Len(page)
    BY <1>4, <1>5
  <2>2. engine[d] \in Path /\ page[n] \in Path /\ Len(page[n]) = Len(engine[d]) + n
    BY <1>2, <2>1, TakesGrow
  <2>3. engine'[d] = page[n]
    BY <1>1, <1>2, <1>5 DEF Shapes
  <2> QED BY <2>2, <2>3 DEF Path, Commit, GroupAssumption
<1>6. \A c \in Nat : Reaches(engine[d], c) => Reaches(engine'[d], c)
  <2>1. CASE n = 0
    BY <1>2, <2>1
  <2>2. CASE n # 0
    <3>1. n \in Nat
      BY <1>4
    <3> HIDE DEF page, d
    <3> QED BY <1>5, <2>2, <3>1 DEF Reaches
  <2> QED BY <2>1, <2>2
<1>7. \/ cursor'[d] = cursor[d] /\ (engine'[d] = None <=> engine[d] = None)
      \/ cursor'[d] \in Nat /\ cursor'[d] # None /\ Reaches(engine'[d], cursor'[d])
         /\ engine'[d] # None /\ tick'[t].pc = "save"
  <2>1. CASE n = Len(page)
    <3>1. n # 0
      BY <1>4, <2>1
    <3>2. cursor'[d] = Len(page[n]) /\ tick'[t].pc = "save"
      BY <1>1, <1>2, <2>1 DEF SetLastAppliedEpoch, CursorInv, CursorTypes, Shapes, Polling
    <3> QED BY <1>5, <3>1, <3>2 DEF Reaches
  <2>2. CASE n # Len(page)
    BY <1>2, <1>5, <2>2
  <2> QED BY <2>1, <2>2
<1>8. /\ tick'[t].got \in {tick[t].got, {}}
      /\ \A u \in Ticks : u # t => tick'[u] = tick[u]
  BY <1>2, IdleTickIsPolling DEF Shapes, Polling
<1>9. \A u \in TicksOf(d) : tick'[u].got \in {tick[u].got, {}}
  BY <1>8 DEF TicksOf
<1>10. \A u \in TicksOf(d) : tick[u].pc \in {"joined", "save"} => tick'[u] = tick[u]
  BY <1>3, <1>8 DEF TicksOf
<1>11. op[d].commit \in Path \cup {None} /\ cursor[d] \in Nat \cup {None} /\ t \in TicksOf(d)
  BY <1>1 DEF Shapes, Changing, CursorInv, CursorTypes, TicksOf
<1>12. op[d].pc \in Sent /\ d \notin rejoins => Reaches(engine'[d], Len(op[d].commit))
  <2>1. op[d].pc \in Sent => op[d].commit \in Path
    BY <1>1, PublishedCommit
  <2> QED BY <1>4, <1>6, <2>1 DEF DeviceCursor, Path
<1>13. DeviceCursor(d)'
  <2>1. ASSUME d \notin rejoins, NEW u \in TicksOf(d), tick'[u].got # {}
        PROVE  /\ cursor'[d] = None
               /\ \E p \in tick'[u].got : tick'[u].got = {p}
               /\ \A v \in TicksOf(d) : v # u => tick'[v].got = {}
    <3>1. tick'[u].got = tick[u].got /\ tick[u].got # {}
      BY <1>9, <2>1
    <3>2. /\ cursor[d] = None
          /\ \E p \in tick[u].got : tick[u].got = {p}
          /\ \A v \in TicksOf(d) : v # u => tick[v].got = {}
      BY <1>4, <2>1, <3>1 DEF DeviceCursor
    <3>3. n = 0 /\ cursor'[d] = None
      <4>1. engine[d] = None
        BY <1>4, <3>2 DEF DeviceCursor
      <4> QED BY <1>2, <1>4, <1>5, <3>2, <4>1
    <3> QED BY <1>9, <3>1, <3>2, <3>3
  <2>2. op'[d] = op[d] /\ snapshot'[d] = snapshot[d] /\ rejoins' = rejoins
    BY <1>3
  <2>3. op[d].pc \in Sent => engine'[d] # None
    BY <1>4, <1>7 DEF DeviceCursor
  <2> HIDE DEF d, page
  <2> QED BY <1>4, <1>6, <1>7, <1>10, <1>11, <1>12, <2>1, <2>2, <2>3 DEF DeviceCursor, TicksOf
<1>14. \A e \in Devices : e # d =>
         cursor'[e] = cursor[e] /\ engine'[e] = engine[e] /\ snapshot'[e] = snapshot[e]
  BY <1>1, <1>2, <1>3 DEF SetLastAppliedEpoch, CursorInv, CursorTypes, Shapes
<1> HIDE DEF d
<1> QED BY <1>1, <1>3, <1>8, <1>13, <1>14, TickAside DEF d

LEMMA CursorTypesStep ==
  ASSUME HistoryInv, CursorTypes, GroupAssumption, [Next]_vars
  PROVE  CursorTypes'
<1>0. Shapes
  BY DEF HistoryInv
<1> USE <1>0
<1>1. \A e \in Devices : IsFiniteSet(welcomes'[e])
  <2>1. ASSUME NEW d \in Devices, PublishWelcomes(d) PROVE \A e \in Devices : IsFiniteSet(welcomes'[e])
    <3>1. ASSUME NEW e \in Devices
          PROVE  welcomes'[e] \in {welcomes[e], welcomes[e] \cup {op[d].commit}}
      BY <2>1 DEF PublishWelcomes, StoreWelcomes
    <3>2. ASSUME NEW e \in Devices
          PROVE  IsFiniteSet(welcomes[e]) /\ IsFiniteSet(welcomes[e] \cup {op[d].commit})
      BY FS_AddElement DEF CursorTypes
    <3> QED BY <3>1, <3>2
  <2>2. ASSUME NEW t \in Ticks, FetchWelcomes(t) PROVE \A e \in Devices : IsFiniteSet(welcomes'[e])
    <3>1. ASSUME NEW e \in Devices PROVE welcomes'[e] \in {welcomes[e], {}}
      BY <2>2 DEF FetchWelcomes, Shapes
    <3> QED BY <3>1, FS_EmptySet DEF CursorTypes
  <2>3. \/ UNCHANGED welcomes
        \/ \E d \in Devices : PublishWelcomes(d)
        \/ \E t \in Ticks : FetchWelcomes(t)
    BY DEF Next, vars, UserStep, OpStep, TickStep, StartAdd, StartRemove, AddMembers, AddRefused,
           RemoveMembers, RemoveRefused, PublishCommit, PublishFails, CommitAccepted, Join,
           PersistJoined, FetchCommits, ApplyCommits, PersistApplied, Crash, serverVars
  <2> QED BY <2>1, <2>2, <2>3 DEF CursorTypes
<1>2. cursor' \in [Devices -> Nat \cup {None}]
  <2>1. ASSUME NEW d \in Devices, CommitAccepted(d) PROVE cursor' \in [Devices -> Nat \cup {None}]
    <3>1. Len(op[d].commit) \in Nat
      BY <2>1, PublishedCommit DEF CommitAccepted, Sent, Path
    <3> QED BY <2>1, <3>1 DEF CommitAccepted, SetLastAppliedEpoch, CursorTypes
  <2>2. ASSUME NEW t \in Ticks, Join(t) PROVE cursor' \in [Devices -> Nat \cup {None}]
    <3>1. PICK path \in tick[t].got : UpsertGroup(t[1], Len(path)) \/ UNCHANGED cursor
      BY <2>2 DEF Join
    <3>2. Len(path) \in Nat
      BY <3>1 DEF Shapes, Polling, Path
    <3> QED BY <3>1, <3>2 DEF UpsertGroup, CursorTypes
  <2>3. ASSUME NEW t \in Ticks, ApplyCommits(t) PROVE cursor' \in [Devices -> Nat \cup {None}]
    <3> DEFINE page == tick[t].page
    <3>1. PICK n \in 0 .. Len(page) :
            IF n = Len(page) THEN SetLastAppliedEpoch(t[1], Len(page[n])) ELSE UNCHANGED cursor
      BY <2>3 DEF ApplyCommits
    <3>2. page \in Seq(Path) /\ page # <<>>
      BY <2>3 DEF ApplyCommits, CursorTypes, Shapes, Polling
    <3>3. page[Len(page)] \in Path
      BY <3>2
    <3>4. Len(page[Len(page)]) \in Nat
      BY <3>3 DEF Path
    <3> HIDE DEF page
    <3> QED BY <3>1, <3>4 DEF SetLastAppliedEpoch, CursorTypes
  <2>4. \/ UNCHANGED cursor
        \/ \E d \in Devices : CommitAccepted(d)
        \/ \E t \in Ticks : Join(t) \/ ApplyCommits(t)
    BY DEF Next, vars, UserStep, OpStep, TickStep, StartAdd, StartRemove, AddMembers, AddRefused,
           RemoveMembers, RemoveRefused, PublishCommit, PublishFails, PublishWelcomes, FetchWelcomes,
           PersistJoined, FetchCommits, PersistApplied, Crash, deviceVars
  <2> QED BY <2>1, <2>2, <2>3, <2>4 DEF CursorTypes
<1>3. faults' \in Nat
  <2>1. UNCHANGED faults \/ Fault
    BY DEF Next, vars, UserStep, OpStep, TickStep, StartAdd, StartRemove, AddMembers, AddRefused,
           RemoveMembers, RemoveRefused, PublishCommit, PublishFails, CommitAccepted, PublishWelcomes,
           FetchWelcomes, Join, PersistJoined, FetchCommits, ApplyCommits, PersistApplied, Crash
  <2> QED BY <2>1 DEF Fault, CursorTypes
<1>4. \A u \in Ticks : tick'[u].pc = "apply" => tick'[u].page # <<>>
  <2> SUFFICES ASSUME NEW u \in Ticks PROVE tick'[u].pc = "apply" => tick'[u].page # <<>>
    OBVIOUS
  <2>1. ASSUME NEW t \in Ticks, FetchWelcomes(t) \/ Join(t) \/ PersistJoined(t) \/ PersistApplied(t)
        PROVE  tick'[u] = tick[u] \/ tick'[u].pc \in {"idle", "join", "joined"}
    BY <2>1 DEF FetchWelcomes, Join, PersistJoined, PersistApplied, Shapes, Polling, IdleTick
  <2>2. ASSUME NEW t \in Ticks, ApplyCommits(t)
        PROVE  tick'[u] = tick[u] \/ tick'[u].pc \in {"idle", "save"}
    BY <2>2 DEF ApplyCommits, Shapes, Polling, IdleTick
  <2>3. ASSUME NEW t \in Ticks, FetchCommits(t)
        PROVE  tick'[u] = tick[u] \/ tick'[u].pc = "idle" \/ tick'[u].page # <<>>
    BY <2>3 DEF FetchCommits, Shapes, IdleTick
  <2>4. ASSUME NEW d \in Devices, Crash(d) PROVE tick'[u] = tick[u] \/ tick'[u].pc = "idle"
    BY <2>4 DEF Crash, IdleTick
  <2>5. \/ UNCHANGED tick
        \/ \E d \in Devices : Crash(d)
        \/ \E t \in Ticks : TickStep(t)
    BY DEF Next, vars, UserStep, OpStep, StartAdd, StartRemove, AddMembers, AddRefused,
           RemoveMembers, RemoveRefused, PublishCommit, PublishFails, CommitAccepted, PublishWelcomes
  <2> QED BY <2>1, <2>2, <2>3, <2>4, <2>5 DEF TickStep, CursorTypes
<1> QED BY <1>1, <1>2, <1>3, <1>4 DEF CursorTypes

LEMMA CursorStep ==
  ASSUME HistoryInv, CursorInv, GroupAssumption, [Next]_vars
  PROVE  CursorInv'
<1>0. Shapes /\ CursorTypes /\ CursorTypes'
  BY CursorTypesStep DEF HistoryInv, CursorInv
<1> SUFFICES ASSUME faults' = 0 PROVE \A e \in Devices : DeviceCursor(e)'
  BY <1>0 DEF CursorInv
<1>1. ~Fault
  BY <1>0, NoFault
<1>2. faults = 0
  BY <1>1 DEF Next, vars, UserStep, OpStep, TickStep, StartAdd, StartRemove, AddMembers, AddRefused,
     RemoveMembers, RemoveRefused, PublishCommit, PublishFails, CommitAccepted, PublishWelcomes,
     FetchWelcomes, Join, PersistJoined, FetchCommits, ApplyCommits, PersistApplied, Crash
<1>3. ASSUME NEW d \in Devices, UserStep(d) PROVE \A e \in Devices : DeviceCursor(e)'
  <2>1. PICK who \in SUBSET Devices : StartAdd(d, who) \/ StartRemove(d, who)
    BY <1>3 DEF UserStep
  <2>2. PICK pc \in {"keys", "remove"} :
          op' = [op EXCEPT ![d] = [pc |-> pc, who |-> who, commit |-> None]]
    BY <2>1 DEF StartAdd, StartRemove
  <2>3. rejoins' = rejoins /\ UNCHANGED <<deviceVars, tick>>
    BY <2>1 DEF StartAdd, StartRemove, history
  <2> QED BY <1>0, <1>2, <2>2, <2>3, ChangeCursor DEF Sent
<1>4. ASSUME NEW d \in Devices, OpStep(d) PROVE \A e \in Devices : DeviceCursor(e)'
  <2>1. CASE AddRefused(d) \/ RemoveRefused(d) \/ PublishFails(d) \/ PublishWelcomes(d)
    <3>1. /\ op' = [op EXCEPT ![d] = IdleOp] /\ IdleOp.pc \notin Sent
          /\ rejoins' = rejoins /\ UNCHANGED <<deviceVars, tick>>
      BY <2>1, IdleOpIsChanging
         DEF AddRefused, RemoveRefused, PublishFails, PublishWelcomes, Sent, history
    <3> QED BY <1>0, <1>2, <3>1, ChangeCursor
  <2>2. CASE PublishCommit(d)
    <3> DEFINE o == [op[d] EXCEPT !.pc = "published"]
    <3>1. /\ op' = [op EXCEPT ![d] = o] /\ op[d].pc = "publish"
          /\ rejoins' = rejoins /\ UNCHANGED <<deviceVars, tick>>
      BY <1>1, <2>2 DEF PublishCommit, history
    <3>2. o.pc \in Sent => op[d].pc \in Sent /\ o.commit = op[d].commit
      BY <1>0, <3>1 DEF Sent, Shapes, Changing
    <3> HIDE DEF o
    <3> QED BY <1>0, <1>2, <3>1, <3>2, ChangeCursor
  <2> QED BY <1>0, <1>2, <1>4, <2>1, <2>2, MergeCursor, AcceptedCursor DEF OpStep
<1>5. ASSUME NEW t \in Ticks, TickStep(t) PROVE \A e \in Devices : DeviceCursor(e)'
  BY <1>0, <1>2, <1>5, FetchWelcomesCursor, JoinCursor, PersistCursor, FetchCommitsCursor, ApplyCursor
     DEF TickStep
<1>6. \A d \in Devices : ~Crash(d)
  BY <1>1 DEF Crash
<1>7. CASE UNCHANGED vars
  <2>1. ASSUME NEW e \in Devices PROVE DeviceCursor(e)'
    <3>1. DeviceCursor(e)
      BY <1>2 DEF CursorInv
    <3> QED BY <1>7, <3>1, OtherCursor DEF vars
  <2> QED BY <2>1
<1> QED BY <1>3, <1>4, <1>5, <1>6, <1>7 DEF Next

LEMMA CursorStarts == ASSUME Init, GroupAssumption PROVE CursorInv
<1>1. CursorTypes
  BY FS_EmptySet DEF Init, CursorTypes, IdleTick
<1>2. ASSUME NEW d \in Devices PROVE DeviceCursor(d)
  <2>1. <<>> # None /\ 0 # None /\ Len(<<>>) = 0
    <3>1. <<>> \in Seq(Commit) /\ None \notin Seq(Commit)
      BY DEF GroupAssumption, Commit
    <3>2. <<>> # None
      BY <3>1, Zenon
    <3>3. 0 # None /\ Len(<<>>) = 0
      BY DEF GroupAssumption
    <3> QED BY <3>2, <3>3
  <2>2. op[d].pc = "idle" /\ \A t \in Ticks : tick[t].got = {}
    BY IdleOpIsChanging, IdleTickIsPolling DEF Init
  <2>3. /\ engine[d] = (IF d = Founder THEN <<>> ELSE None) /\ snapshot[d] = engine[d]
        /\ cursor[d] = (IF d = Founder THEN 0 ELSE None)
    BY DEF Init
  <2> QED BY <2>1, <2>2, <2>3 DEF DeviceCursor, Reaches, Sent, TicksOf
<1> QED BY <1>1, <1>2 DEF CursorInv

\* For any devices, ticks and number of changes: while no call fails, the cursor of a
\* device that was invited once is backed by its engine, and by its snapshot except
\* between the two writes of a poll (mls-store.ts, client/index.ts:389-401).
THEOREM CursorIsBacked == Spec => []CursorBacked
<1>1. HistoryInv /\ CursorInv => CursorBacked
  BY DEF CursorInv, DeviceCursor, CursorBacked, Reaches
<1>2. Init => HistoryInv /\ CursorInv
  BY HistoryStarts, CursorStarts, GroupAssumption
<1>3. HistoryInv /\ CursorInv /\ [Next]_vars => (HistoryInv /\ CursorInv)'
  BY HistoryStep, CursorStep, GroupAssumption
<1> QED BY <1>1, <1>2, <1>3, PTL DEF Spec

-----------------------------------------------------------------------------
\* The tree and the server's list

Final(path) == path[Len(path)]

\* A change adds or removes the accounts it was started for, and nobody else.
OneSided(o) ==
  o.pc \in Sent =>
    /\ o.commit \in Path /\ Len(o.commit) > 0
    /\ \/ Final(o.commit).adds = o.who /\ Final(o.commit).removes = {}
       \/ Final(o.commit).adds = {} /\ Final(o.commit).removes = o.who

ChangeInv ==
  /\ \A d \in Devices : OneSided(op[d])
  /\ \A e \in Epochs : ~EpochFree(e) => Len(log[e]) = e
  /\ \A t \in Ticks : tick[t].pc \notin {"join", "joined"} => tick[t].got = {}

\* path goes through a commit of st, the refused ones.
Strays(path, st) == \E s \in st : Len(s) <= Len(path) /\ SubSeq(path, 1, Len(s)) = s

\* No commit was stored on top of a refused one.
Clean(l, st) == \A e \in Epochs : l[e] # None => ~Strays(l[e], st)

NewestOf(l) == {e \in Epochs : l[e] # None /\ \A f \in Epochs : f > e => l[f] = None}

\* The commit of the change o can still be stored.
Storable(o, l, st) ==
  /\ o.pc = "publish" /\ ~Strays(o.commit, st)
  /\ Len(o.commit) \in Epochs /\ l[Len(o.commit)] = None

\* Who is on the server's list, or off it with the removal under way or broken off.
Accounted == roster \cup unremoved \cup UNION {Removing(d) : d \in Devices}

\* The tree of the newest stored commit, and a commit that can still be stored, have
\* only such accounts; an add that has not made its commit has listed ones.
RosterInv ==
  /\ \A d \in Devices : op[d].pc = "keys" => op[d].who \subseteq roster \cup unremoved
  /\ Clean(log, stray) =>
       /\ \A e \in NewestOf(log) : Members(log[e]) \subseteq Accounted
       /\ (\A e \in Epochs : log[e] = None) => Founder \in Accounted
       /\ \A d \in Devices :
            Storable(op[d], log, stray) => Final(op[d].commit).adds \subseteq Accounted

LEMMA MembersGrow ==
  ASSUME NEW path \in Path, Len(path) > 0
  PROVE  /\ \A x \in Members(path) :
              /\ x \notin Final(path).removes
              /\ x \in Final(path).adds \/ x \in Members(Parent(path))
         /\ Final(path).removes = {} => \A x \in Devices : x \in Final(path).adds => x \in Members(path)
<1> DEFINE n == Len(path)
<1>1. n \in Nat /\ Len(Parent(path)) = n - 1 /\ \A i \in 1 .. n - 1 : Parent(path)[i] = path[i]
  <2>1. n \in Nat /\ Len(Parent(path)) = n - 1
    BY PrefixOfParent DEF Path
  <2>2. \A i \in 1 .. n - 1 : i \in 1 .. Len(path)
    BY <2>1
  <2>3. /\ Len(SubSeq(path, 1, n - 1)) = n - 1
        /\ \A i \in 1 .. n - 1 : SubSeq(path, 1, n - 1)[i] = path[i]
    BY <2>1 DEF Path
  <2> QED BY <2>1, <2>3 DEF Parent
<1>2. ASSUME NEW x \in Members(path)
      PROVE  x \notin Final(path).removes /\ (x \in Final(path).adds \/ x \in Members(Parent(path)))
  <2>1. PICK i \in 0 .. n :
          PutIn(path, i, x) /\ \A j \in 1 .. n : i <= j => x \notin path[j].removes
    BY DEF Members
  <2>2. x \notin path[n].removes
    BY <1>1, <2>1
  <2>3. CASE i = n
    <3>1. x \in path[n].adds
      BY <1>1, <2>1, <2>3 DEF PutIn
    <3> QED BY <2>2, <3>1 DEF Final
  <2>4. CASE i # n
    <3>1. i \in 0 .. n - 1
      BY <1>1, <2>1, <2>4
    <3>2. PutIn(Parent(path), i, x)
      BY <1>1, <2>1, <3>1 DEF PutIn
    <3>3. \A j \in 1 .. n - 1 : i <= j => x \notin Parent(path)[j].removes
      BY <1>1, <2>1
    <3>4. x \in Members(Parent(path))
      BY <1>1, <3>1, <3>2, <3>3 DEF Members
    <3> QED BY <2>2, <3>4 DEF Final
  <2> QED BY <2>3, <2>4
<1>3. ASSUME Final(path).removes = {}, NEW x \in Devices, x \in Final(path).adds PROVE x \in Members(path)
  <2>1. n \in 0 .. n /\ PutIn(path, n, x)
    BY <1>1, <1>3 DEF PutIn, Final
  <2>2. \A j \in 1 .. n : n <= j => x \notin path[j].removes
    BY <1>1, <1>3 DEF Final
  <2> QED BY <2>1, <2>2 DEF Members
<1> QED BY <1>2, <1>3

LEMMA MembersFirst == \A x \in Members(<<>>) : x = Founder
BY DEF Members, PutIn

\* A commit that is not on a refused one is on the stored history.
LEMMA CommitOnHistory ==
  ASSUME HistoryInv, ChangeInv, GroupAssumption, NEW d \in Devices, op[d].pc = "publish",
         ~Strays(op[d].commit, stray)
  PROVE  LET c == op[d].commit IN
         /\ c \in Path /\ Len(c) \in Nat \ {0} /\ Parent(c) \in Path
         /\ ~Strays(Parent(c), stray)
         /\ \A e \in 1 .. Len(c) - 1 : e \in Epochs /\ log[e] = SubSeq(c, 1, e) /\ log[e] # None
         /\ Len(c) > 1 => log[Len(c) - 1] = Parent(c)
         /\ Len(c) = 1 => Parent(c) = <<>>
<1> DEFINE c == op[d].commit
<1>1. c \in Path /\ Len(c) > 0 /\ Settled(Parent(c), log, stray) /\ Len(c) \in Nat /\ stray \in SUBSET Path
  BY DEF HistoryInv, Orderly, Path, Shapes
<1>2. /\ Parent(c) \in Path /\ Len(Parent(c)) = Len(c) - 1
      /\ \A e \in 1 .. Len(c) - 1 : SubSeq(Parent(c), 1, e) = SubSeq(c, 1, e)
  BY <1>1, PrefixOfParent
<1>3. ~Strays(Parent(c), stray)
  BY <1>1, StrayCommits DEF Strays
<1>4. Len(c) - 1 <= MaxEvents /\ \A e \in 1 .. Len(c) - 1 : log[e] = SubSeq(c, 1, e)
  BY <1>1, <1>2, <1>3 DEF Settled, Strays
<1>5. \A e \in 1 .. Len(c) - 1 : e \in Epochs /\ log[e] # None
  <2> SUFFICES ASSUME NEW e \in 1 .. Len(c) - 1 PROVE e \in Epochs /\ log[e] # None
    OBVIOUS
  <2>1. e \in Epochs
    BY <1>1, <1>4 DEF Epochs, GroupAssumption
  <2>2. SubSeq(c, 1, e) \in Path
    <3>1. e \in 1 .. Len(c) /\ \A i \in 1 .. e : c[i] \in Commit
      BY <1>1 DEF Path
    <3> HIDE DEF c
    <3> QED BY <3>1, SubSeqProperties DEF Path
  <2> QED BY <1>4, <2>1, <2>2 DEF GroupAssumption, Path, Commit
<1>6. Len(c) > 1 => log[Len(c) - 1] = Parent(c)
  <2>1. ASSUME Len(c) > 1 PROVE Len(c) - 1 \in 1 .. Len(c) - 1
    <3>1. Len(c) \in Nat
      BY <1>1 DEF Path
    <3> HIDE DEF c
    <3> QED BY <2>1, <3>1
  <2>2. ASSUME Len(c) > 1 PROVE log[Len(c) - 1] = SubSeq(c, 1, Len(c) - 1)
    BY <1>4, <2>1, <2>2
  <2> QED BY <2>2 DEF Parent
<1>7. Len(c) = 1 => Parent(c) = <<>>
  <2>1. ASSUME Len(c) = 1 PROVE Parent(c) = <<>>
    <3>1. Len(Parent(c)) = 0
      BY <1>2, <2>1
    <3> HIDE DEF c
    <3> QED BY <1>2, <3>1 DEF Path
  <2> QED BY <2>1
<1> QED BY <1>1, <1>2, <1>3, <1>4, <1>5, <1>6, <1>7

LEMMA ChangeStep ==
  ASSUME HistoryInv, ChangeInv, GroupAssumption, [Next]_vars
  PROVE  ChangeInv'
<1>0. Shapes
  BY DEF HistoryInv
<1> USE <1>0
<1>1. ASSUME NEW d \in Devices, UserStep(d) \/ AddRefused(d) \/ RemoveRefused(d) \/ PublishFails(d)
                                \/ PublishWelcomes(d) \/ Crash(d)
      PROVE  \A e \in Devices : OneSided(op'[e])
  <2>1. op'[d].pc \notin Sent /\ \A e \in Devices : e # d => op'[e] = op[e]
    BY <1>1, IdleOpIsChanging DEF UserStep, StartAdd, StartRemove, AddRefused, RemoveRefused,
       PublishFails, PublishWelcomes, Crash, Shapes, Sent
  <2> QED BY <2>1 DEF ChangeInv, OneSided
<1>2. ASSUME NEW d \in Devices, AddMembers(d) PROVE \A e \in Devices : OneSided(op'[e])
  <2>1. PICK got \in SUBSET op[d].who :
          /\ op' = [op EXCEPT ![d] = [pc |-> "publish", who |-> got, commit |-> EngineAdd(d, got)]]
          /\ engine[d] # None
    BY <1>2 DEF AddMembers, CanAdd, Active
  <2> DEFINE c == [by |-> d, adds |-> got, removes |-> {}]
  <2>2. c \in Commit /\ engine[d] \in Path
    BY <2>1 DEF Commit, Shapes, Changing
  <2>3. Append(engine[d], c) \in Path /\ Len(Append(engine[d], c)) > 0
        /\ Final(Append(engine[d], c)) = c
    BY <2>2 DEF Path, Final
  <2>5. Final(Append(engine[d], c)).adds = got /\ Final(Append(engine[d], c)).removes = {}
    <3>1. c.adds = got /\ c.removes = {}
      OBVIOUS
    <3> HIDE DEF c
    <3> QED BY <2>3, <3>1
  <2>4. op'[d].who = got /\ op'[d].commit = Append(engine[d], c)
        /\ \A e \in Devices : e # d => op'[e] = op[e]
    BY <2>1 DEF EngineAdd, Shapes
  <2> HIDE DEF c
  <2> QED BY <2>3, <2>4, <2>5 DEF ChangeInv, OneSided
<1>3. ASSUME NEW d \in Devices, RemoveMembers(d) PROVE \A e \in Devices : OneSided(op'[e])
  <2> DEFINE c == [by |-> d, adds |-> {}, removes |-> op[d].who]
  <2>1. c \in Commit /\ engine[d] \in Path
    BY <1>3 DEF RemoveMembers, CanRemove, Active, Commit, Shapes, Changing
  <2>2. Append(engine[d], c) \in Path /\ Len(Append(engine[d], c)) > 0
        /\ Final(Append(engine[d], c)) = c
    BY <2>1 DEF Path, Final
  <2>4. /\ Final(Append(engine[d], c)).adds = {}
        /\ Final(Append(engine[d], c)).removes = op[d].who
    BY <2>2
  <2>3. op'[d].who = op[d].who /\ op'[d].commit = Append(engine[d], c)
        /\ \A e \in Devices : e # d => op'[e] = op[e]
    BY <1>3 DEF RemoveMembers, EngineRemove, Shapes
  <2> HIDE DEF c
  <2> QED BY <2>2, <2>3, <2>4 DEF ChangeInv, OneSided
<1>4. ASSUME NEW d \in Devices, PublishCommit(d) \/ CommitAccepted(d)
      PROVE  \A e \in Devices : OneSided(op'[e])
  <2>1. /\ op'[d].pc \notin Sent \/ (op'[d].who = op[d].who /\ op'[d].commit = op[d].commit)
        /\ op[d].pc \in Sent
        /\ \A e \in Devices : e # d => op'[e] = op[e]
    BY <1>4, IdleOpIsChanging DEF PublishCommit, CommitAccepted, Shapes, Changing, Sent
  <2> QED BY <2>1 DEF ChangeInv, OneSided
<1>5. \A e \in Devices : OneSided(op'[e])
  <2>1. \/ UNCHANGED op
        \/ \E d \in Devices : UserStep(d) \/ OpStep(d) \/ Crash(d)
    BY DEF Next, vars, TickStep, FetchWelcomes, Join, PersistJoined, FetchCommits, ApplyCommits,
           PersistApplied
  <2>2. CASE UNCHANGED op
    BY <2>2 DEF ChangeInv
  <2> QED BY <2>1, <2>2, <1>1, <1>2, <1>3, <1>4 DEF OpStep
<1>6. \A e \in Epochs : log'[e] # None => Len(log'[e]) = e
  <2>1. UNCHANGED log \/ \E d \in Devices : PublishCommit(d)
    BY DEF Next, vars, UserStep, OpStep, TickStep, StartAdd, StartRemove, AddMembers, AddRefused,
           RemoveMembers, RemoveRefused, PublishFails, CommitAccepted, PublishWelcomes, FetchWelcomes,
           Join, PersistJoined, FetchCommits, ApplyCommits, PersistApplied, Crash, serverVars
  <2>2. ASSUME NEW d \in Devices, PublishCommit(d)
        PROVE  log' = [log EXCEPT ![Len(op[d].commit)] = op[d].commit]
    BY <2>2 DEF PublishCommit, StoreCommit
  <2> QED BY <2>1, <2>2 DEF ChangeInv, EpochFree, Shapes
<1>7. \A u \in Ticks : tick'[u].pc \notin {"join", "joined"} => tick'[u].got = {}
  <2> SUFFICES ASSUME NEW u \in Ticks
               PROVE  tick'[u].pc \notin {"join", "joined"} => tick'[u].got = {}
    OBVIOUS
  <2>1. ASSUME NEW t \in Ticks, FetchWelcomes(t) \/ Join(t) \/ PersistJoined(t) \/ PersistApplied(t)
        PROVE  tick'[u] = tick[u] \/ tick'[u].got = {} \/ tick'[u].pc \in {"join", "joined"}
    BY <2>1 DEF FetchWelcomes, Join, PersistJoined, PersistApplied, Shapes, Polling, IdleTick
  <2>2. ASSUME NEW t \in Ticks, ApplyCommits(t)
        PROVE  \/ tick'[u] = tick[u] \/ tick'[u].got = {}
               \/ tick[u].pc = "apply" /\ tick'[u].got = tick[u].got
    BY <2>2 DEF ApplyCommits, Shapes, Polling, IdleTick
  <2>3. ASSUME NEW t \in Ticks, FetchCommits(t) PROVE tick'[u] = tick[u] \/ tick'[u].got = {}
    BY <2>3 DEF FetchCommits, Shapes, IdleTick
  <2>4. ASSUME NEW d \in Devices, Crash(d) PROVE tick'[u] = tick[u] \/ tick'[u].got = {}
    BY <2>4 DEF Crash, IdleTick
  <2>5. \/ UNCHANGED tick
        \/ \E d \in Devices : Crash(d)
        \/ \E t \in Ticks : TickStep(t)
    BY DEF Next, vars, UserStep, OpStep, StartAdd, StartRemove, AddMembers, AddRefused,
           RemoveMembers, RemoveRefused, PublishCommit, PublishFails, CommitAccepted, PublishWelcomes
  <2> QED BY <2>1, <2>2, <2>3, <2>4, <2>5 DEF TickStep, ChangeInv
<1> QED BY <1>5, <1>6, <1>7 DEF ChangeInv, EpochFree

\* A step that stores no commit keeps RosterInv if whoever was accounted for still is.
LEMMA RosterKeeps ==
  ASSUME RosterInv, Accounted \subseteq Accounted', UNCHANGED log, stray \subseteq stray',
         \A d \in Devices : op'[d].pc = "keys" => op'[d].who \subseteq roster' \cup unremoved',
         \A d \in Devices : op'[d].pc = "publish" =>
           \/ op[d].pc = "publish" /\ op'[d].commit = op[d].commit
           \/ Final(op'[d].commit).adds \subseteq Accounted'
  PROVE  RosterInv'
<1>1. \A path : Strays(path, stray) => Strays(path, stray')
  BY DEF Strays
<1>2. Clean(log', stray') => Clean(log, stray)
  BY <1>1 DEF Clean
<1>3. ASSUME Clean(log', stray'), NEW d \in Devices, Storable(op'[d], log', stray')
      PROVE  Final(op'[d].commit).adds \subseteq Accounted'
  <2>1. CASE op[d].pc = "publish" /\ op'[d].commit = op[d].commit
    <3>1. Storable(op[d], log, stray)
      BY <1>1, <1>3, <2>1 DEF Storable
    <3> QED BY <1>2, <1>3, <2>1, <3>1 DEF RosterInv
  <2> QED BY <1>3, <2>1 DEF Storable
<1>4. ASSUME Clean(log', stray')
      PROVE  /\ \A e \in NewestOf(log') : Members(log'[e]) \subseteq Accounted'
             /\ (\A e \in Epochs : log'[e] = None) => Founder \in Accounted'
  BY <1>2, <1>4 DEF RosterInv
<1> QED BY <1>3, <1>4 DEF RosterInv

LEMMA PublishRoster ==
  ASSUME HistoryInv, ChangeInv, RosterInv, GroupAssumption, NEW d \in Devices, PublishCommit(d)
  PROVE  RosterInv'
<1> DEFINE c == op[d].commit
           n == Len(c)
<1>1. /\ op[d].pc = "publish" /\ n \in Epochs /\ log[n] = None
      /\ log' = [log EXCEPT ![n] = c]
      /\ UNCHANGED <<roster, unremoved, stray>>
      /\ op'[d].pc \in {"published", "idle"}
      /\ \A b \in Devices : b # d => op'[b] = op[b]
  BY IdleOpIsChanging
     DEF PublishCommit, Accepts, EpochFree, StoreCommit, history, HistoryInv, Shapes, Changing
<1>2. \A b \in Devices : op'[b].pc = "keys" => op'[b].who \subseteq roster' \cup unremoved'
  BY <1>1 DEF RosterInv
<1> SUFFICES ASSUME Clean(log', stray')
             PROVE  /\ \A e \in NewestOf(log') : Members(log'[e]) \subseteq Accounted'
                    /\ ~\A e \in Epochs : log'[e] = None
                    /\ \A b \in Devices : ~Storable(op'[b], log', stray')
  BY <1>2 DEF RosterInv
<1>3. c \in Path /\ n \in Nat \ {0} /\ c # None /\ Shapes
  <2>1. c \in Path /\ Len(c) > 0 /\ Len(c) \in Nat
    BY <1>1 DEF HistoryInv, Orderly, Path
  <2> QED BY <2>1 DEF GroupAssumption, Path, Commit, HistoryInv
<1>4. log'[n] = c /\ \A e \in Epochs : e # n => log'[e] = log[e]
  BY <1>1, <1>3 DEF Shapes
<1>5. ~Strays(c, stray)
  BY <1>1, <1>3, <1>4 DEF Clean
<1>6. /\ \A e \in 1 .. n - 1 : e \in Epochs /\ log[e] = SubSeq(c, 1, e) /\ log[e] # None
      /\ n > 1 => log[n - 1] = Parent(c)
      /\ n = 1 => Parent(c) = <<>>
  BY <1>1, <1>5, CommitOnHistory
<1>7. Clean(log, stray)
  BY <1>1, <1>4 DEF Clean
<1> HIDE DEF n
<1>8. ASSUME NEW e \in Epochs, e > n PROVE log[e] = None
  <2> SUFFICES ASSUME log[e] # None PROVE FALSE
    OBVIOUS
  <2>1. log[e] \in Path /\ Len(log[e]) = e /\ Settled(log[e], log, stray)
        /\ ~Strays(log[e], stray)
    BY <1>3, <1>7 DEF ChangeInv, HistoryInv, Clean, EpochFree, Shapes
  <2>2. n \in 1 .. e
    BY <1>3, <1>8 DEF Epochs, GroupAssumption
  <2>3. log[n] = SubSeq(log[e], 1, n)
    BY <2>1, <2>2 DEF Settled, Strays
  <2>4. SubSeq(log[e], 1, n) \in Path
    <3>1. \A i \in 1 .. n : log[e][i] \in Commit
      BY <2>1, <2>2, <1>3 DEF Path
    <3> QED BY <1>3, <3>1, SubSeqProperties DEF Path
  <2> QED BY <1>1, <2>3, <2>4 DEF GroupAssumption, Path, Commit
<1>9. NewestOf(log') \subseteq {n}
  <2>1. ASSUME NEW e \in NewestOf(log'), e # n PROVE FALSE
    <3>1. e \in Epochs /\ log[e] # None /\ ~(n > e)
      BY <1>1, <1>3, <1>4, <2>1 DEF NewestOf
    <3>2. e \in Nat /\ ~(e > n)
      BY <1>8, <3>1 DEF Epochs
    <3> QED BY <1>3, <2>1, <3>1, <3>2
  <2> QED BY <2>1
<1>10. Final(c).adds \subseteq Accounted /\ Members(Parent(c)) \subseteq Accounted
  <2>1. Final(c).adds \subseteq Accounted
    <3>1. Storable(op[d], log, stray)
      BY <1>1, <1>5 DEF Storable, n
    <3> QED BY <1>7, <3>1 DEF RosterInv
  <2>2. CASE n = 1
    <3>1. \A e \in Epochs : log[e] = None
      <4>1. \A e \in Epochs : e = n \/ e > n
        BY <2>2 DEF Epochs, GroupAssumption
      <4> QED BY <1>1, <1>8, <4>1
    <3>2. Founder \in Accounted
      BY <1>7, <3>1 DEF RosterInv
    <3> QED BY <1>6, <2>1, <2>2, <3>2, MembersFirst
  <2>3. CASE n > 1
    <3>1. n - 1 \in Epochs /\ log[n - 1] # None
      BY <1>3, <1>6, <2>3
    <3>2. \A f \in Epochs : f > n - 1 => log[f] = None
      <4>1. \A f \in Epochs : f > n - 1 => f = n \/ f > n
        BY <1>3 DEF Epochs
      <4> QED BY <1>1, <1>8, <4>1
    <3>3. n - 1 \in NewestOf(log)
      BY <3>1, <3>2 DEF NewestOf
    <3> QED BY <1>6, <1>7, <2>1, <2>3, <3>3 DEF RosterInv
  <2>4. n = 1 \/ n > 1
    BY <1>3
  <2> QED BY <2>2, <2>3, <2>4
<1>11. Accounted \ Final(c).removes \subseteq Accounted'
  <2>1. Removing(d) = Final(c).removes
    BY <1>1 DEF Removing, Final
  <2>2. \A b \in Devices : b # d => Removing(b)' = Removing(b)
    BY <1>1 DEF Removing
  <2> QED BY <1>1, <2>1, <2>2 DEF Accounted
<1>12. Members(c) \subseteq Accounted'
  BY <1>3, <1>10, <1>11, MembersGrow DEF n
<1>13. ASSUME NEW b \in Devices, Storable(op'[b], log', stray') PROVE FALSE
  <2> DEFINE m == Len(op[b].commit)
  <2>1. b # d /\ op'[b] = op[b]
    BY <1>1, <1>13 DEF Storable
  <2>2. op[b].pc = "publish" /\ ~Strays(op[b].commit, stray) /\ m \in Epochs /\ log'[m] = None
    BY <1>1, <1>13, <2>1 DEF Storable
  <2>3. m # n /\ log[m] = None
    BY <1>3, <1>4, <2>2
  <2>4. \A e \in 1 .. m - 1 : log[e] # None
    BY <2>2, CommitOnHistory
  <2> HIDE DEF m
  <2>5. ~(n \in 1 .. m - 1) /\ ~(m \in 1 .. n - 1)
    BY <1>1, <1>6, <2>3, <2>4
  <2>6. m \in Nat \ {0}
    BY <2>2 DEF Epochs
  <2> QED BY <1>3, <2>3, <2>5, <2>6
<1> QED BY <1>1, <1>3, <1>4, <1>9, <1>12, <1>13

LEMMA RosterStep ==
  ASSUME HistoryInv, ChangeInv, RosterInv, GroupAssumption, [Next]_vars
  PROVE  RosterInv'
<1>0. Shapes
  BY DEF HistoryInv
<1> USE <1>0
<1>1. ASSUME NEW d \in Devices, NEW who \in SUBSET Devices, StartAdd(d, who) PROVE RosterInv'
  <2>1. /\ op[d].pc = "idle" /\ roster' = roster \cup (who \ roster)
        /\ op' = [op EXCEPT ![d] = [pc |-> "keys", who |-> who, commit |-> None]]
        /\ UNCHANGED <<log, stray, unremoved>>
    BY <1>1, IdleOpIsChanging DEF StartAdd, AddRows, history
  <2>2. op'[d].pc = "keys" /\ op'[d].who = who /\ \A e \in Devices : e # d => op'[e] = op[e]
    BY <2>1 DEF Shapes
  <2>3. \A e \in Devices : Removing(e) \subseteq Removing(e)'
    BY <2>1, <2>2 DEF Removing
  <2>4. \A e \in Devices : op'[e].pc = "keys" => op'[e].who \subseteq roster' \cup unremoved'
    BY <2>1, <2>2 DEF RosterInv
  <2>5. Accounted \subseteq Accounted'
    BY <2>1, <2>3 DEF Accounted
  <2> QED BY <2>1, <2>2, <2>4, <2>5, RosterKeeps
<1>2. ASSUME NEW d \in Devices, NEW who \in SUBSET Devices, StartRemove(d, who) PROVE RosterInv'
  <2>1. /\ op[d].pc = "idle" /\ roster' = roster \ who
        /\ op' = [op EXCEPT ![d] = [pc |-> "remove", who |-> who, commit |-> None]]
        /\ unremoved' = unremoved \cup (who \cap UNION {op[a].who : a \in Adding})
        /\ UNCHANGED <<log, stray>>
    BY <1>2, IdleOpIsChanging DEF StartRemove, RemoveRows
  <2>2. op'[d].pc = "remove" /\ op'[d].who = who /\ \A e \in Devices : e # d => op'[e] = op[e]
    BY <2>1 DEF Shapes
  <2>3. Removing(d)' = who /\ \A e \in Devices : Removing(e) \subseteq Removing(e)'
    BY <2>1, <2>2 DEF Removing
  <2>4. ASSUME NEW e \in Devices, op'[e].pc = "keys" PROVE op'[e].who \subseteq roster' \cup unremoved'
    <3>1. op'[e] = op[e] /\ op[e].pc = "keys"
      BY <2>2, <2>4
    <3>2. op[e].who \subseteq roster \cup unremoved /\ e \in Adding
      BY <3>1 DEF RosterInv, Adding
    <3> QED BY <2>1, <3>1, <3>2
  <2>5. Accounted \subseteq Accounted'
    BY <2>1, <2>3 DEF Accounted
  <2> QED BY <2>1, <2>2, <2>4, <2>5, RosterKeeps
<1>3. ASSUME NEW d \in Devices, AddMembers(d) PROVE RosterInv'
  <2>1. PICK got \in SUBSET op[d].who :
          /\ op' = [op EXCEPT ![d] = [pc |-> "publish", who |-> got, commit |-> EngineAdd(d, got)]]
          /\ op[d].pc = "keys" /\ engine[d] # None
          /\ UNCHANGED <<log, stray, roster, unremoved>>
    BY <1>3 DEF AddMembers, CanAdd, Active, serverVars, history
  <2>2. op'[d].pc = "publish" /\ \A e \in Devices : e # d => op'[e] = op[e]
    BY <2>1 DEF Shapes
  <2>3. Final(op'[d].commit).adds = got
    <3> DEFINE c == [by |-> d, adds |-> got, removes |-> {}]
    <3>1. c \in Commit /\ engine[d] \in Path /\ c.adds = got
      BY <2>1 DEF Commit, Shapes, Changing
    <3>2. op'[d].commit = Append(engine[d], c)
      BY <2>1 DEF EngineAdd, Shapes
    <3> HIDE DEF c
    <3> QED BY <3>1, <3>2 DEF Path, Final
  <2>4. \A e \in Devices : Removing(e) \subseteq Removing(e)'
    BY <2>1, <2>2 DEF Removing
  <2>5. Accounted \subseteq Accounted' /\ got \subseteq Accounted'
    BY <2>1, <2>4 DEF Accounted, RosterInv
  <2>6. \A e \in Devices : op'[e].pc = "keys" => op'[e].who \subseteq roster' \cup unremoved'
    BY <2>1, <2>2 DEF RosterInv
  <2> QED BY <2>1, <2>2, <2>3, <2>5, <2>6, RosterKeeps
<1>4. ASSUME NEW d \in Devices, RemoveMembers(d) PROVE RosterInv'
  <2> DEFINE c == [by |-> d, adds |-> {}, removes |-> op[d].who]
  <2>1. /\ op[d].pc = "remove" /\ engine[d] \in Path /\ c \in Commit
        /\ c.adds = {} /\ c.removes = op[d].who
        /\ UNCHANGED <<log, stray, roster, unremoved>>
    BY <1>4 DEF RemoveMembers, CanRemove, Active, Commit, Shapes, Changing, serverVars, history
  <2>2. /\ op'[d].pc = "publish" /\ op'[d].commit = Append(engine[d], c)
        /\ \A e \in Devices : e # d => op'[e] = op[e]
    BY <1>4 DEF RemoveMembers, EngineRemove, Shapes
  <2> HIDE DEF c
  <2>3. Final(op'[d].commit) = c
    BY <2>1, <2>2 DEF Path, Final
  <2>4. \A e \in Devices : Removing(e) \subseteq Removing(e)'
    BY <2>1, <2>2, <2>3 DEF Removing, Final
  <2>5. Accounted \subseteq Accounted'
    BY <2>1, <2>4 DEF Accounted
  <2>6. \A e \in Devices : op'[e].pc = "keys" => op'[e].who \subseteq roster' \cup unremoved'
    BY <2>1, <2>2 DEF RosterInv
  <2> QED BY <2>1, <2>2, <2>3, <2>5, <2>6, RosterKeeps
\* The change ends, or goes on where nothing is being removed.
<1>5. ASSUME NEW d \in Devices,
             \/ AddRefused(d) \/ RemoveRefused(d) \/ PublishFails(d) \/ CommitAccepted(d)
             \/ PublishWelcomes(d) \/ Crash(d)
      PROVE  RosterInv'
  <2>1. /\ UNCHANGED <<log, roster>> /\ stray \subseteq stray'
        /\ op'[d].pc \notin {"keys", "publish", "remove"}
        /\ \A e \in Devices : e # d => op'[e] = op[e]
    BY <1>5, IdleOpIsChanging DEF AddRefused, RemoveRefused, PublishFails, CommitAccepted,
       PublishWelcomes, Crash, Shapes, Changing, serverVars, history
  <2>2. unremoved \subseteq unremoved' /\ Removing(d) \subseteq unremoved'
    BY <1>5 DEF AddRefused, RemoveRefused, PublishFails, CommitAccepted, PublishWelcomes, Crash,
       AbandonRemoval, Removing, history
  <2>3. \A e \in Devices : e # d => Removing(e)' = Removing(e)
    BY <2>1 DEF Removing
  <2>4. Accounted \subseteq Accounted'
    BY <2>1, <2>2, <2>3 DEF Accounted
  <2>5. \A e \in Devices : op'[e].pc = "keys" => op'[e].who \subseteq roster' \cup unremoved'
    BY <2>1, <2>2 DEF RosterInv
  <2> QED BY <2>1, <2>4, <2>5, RosterKeeps
<1>6. CASE UNCHANGED <<roster, log, op, stray, unremoved>>
  BY <1>6 DEF RosterInv, Accounted, Removing
<1>7. ASSUME NEW t \in Ticks, TickStep(t) PROVE UNCHANGED <<roster, log, op, stray, unremoved>>
  BY <1>7 DEF TickStep, FetchWelcomes, Join, PersistJoined, FetchCommits, ApplyCommits,
     PersistApplied, serverVars, history
<1> QED BY <1>1, <1>2, <1>3, <1>4, <1>5, <1>6, <1>7, PublishRoster DEF Next, vars, UserStep, OpStep

-----------------------------------------------------------------------------
\* The invitations

Invitations(x) == welcomes[x] \cup UNION {tick[t].got : t \in TicksOf(x)}

\* x holds the group, or its invitation is on the way.
Reached(x) ==
  \/ engine[x] # None
  \/ \E p \in Invitations(x) : x \in Members(p)
  \/ \E a \in Devices : op[a].pc \in {"published", "welcome"} /\ x \in Final(op[a].commit).adds

InviteInv ==
  faults = 0 =>
    /\ engine[Founder] # None
    /\ \A e \in Epochs : log[e] # None /\ ~Strays(log[e], stray) =>
         \A x \in Members(log[e]) : Reached(x)

LEMMA EngineStays ==
  ASSUME HistoryInv, GroupAssumption, [Next]_vars, ~Fault, NEW x \in Devices, engine[x] # None
  PROVE  engine'[x] # None
<1>0. Shapes
  BY DEF HistoryInv
<1> USE <1>0
<1>1. ASSUME NEW d \in Devices, AddMembers(d) \/ RemoveMembers(d) PROVE engine'[x] # None
  <2>1. PICK c \in Commit : engine' = [engine EXCEPT ![d] = Append(engine[d], c)] /\ engine[d] # None
    <3>1. CASE AddMembers(d)
      <4>1. PICK got \in SUBSET op[d].who :
              engine' = [engine EXCEPT ![d] = EngineAdd(d, got)] /\ engine[d] # None
        BY <3>1 DEF AddMembers, CanAdd, Active
      <4>2. [by |-> d, adds |-> got, removes |-> {}] \in Commit
        BY DEF Commit, Shapes, Changing
      <4> QED BY <4>1, <4>2 DEF EngineAdd
    <3>2. CASE RemoveMembers(d)
      <4>1. [by |-> d, adds |-> {}, removes |-> op[d].who] \in Commit
        BY DEF Commit, Shapes, Changing
      <4> QED BY <3>2, <4>1 DEF RemoveMembers, EngineRemove, CanRemove, Active
    <3> QED BY <1>1, <3>1, <3>2
  <2>2. Append(engine[d], c) # None
    <3>1. Append(engine[d], c) \in Path
      BY <2>1 DEF Shapes, Path
    <3> QED BY <3>1 DEF GroupAssumption, Path, Commit
  <2> QED BY <2>1, <2>2 DEF Shapes
<1>2. ASSUME NEW t \in Ticks, Join(t) PROVE engine'[x] # None
  <2>1. PICK path \in tick[t].got : engine' = [engine EXCEPT ![t[1]] = path] \/ UNCHANGED engine
    BY <1>2 DEF Join
  <2>2. path \in Path
    BY <2>1 DEF Shapes, Polling
  <2>3. path # None
    BY <2>2 DEF GroupAssumption, Path, Commit
  <2> QED BY <2>1, <2>3 DEF Shapes
<1>3. ASSUME NEW t \in Ticks, ApplyCommits(t) PROVE engine'[x] # None
  <2>1. PICK n \in 0 .. Len(tick[t].page) :
            /\ Takes(t, n)
            /\ engine' = IF n = 0 THEN engine ELSE [engine EXCEPT ![t[1]] = tick[t].page[n]]
    BY <1>3 DEF ApplyCommits
  <2>2. n # 0 => tick[t].page[n] \in Path
    BY <2>1, TakesGrow
  <2>3. n # 0 => tick[t].page[n] # None
    BY <2>2 DEF GroupAssumption, Path, Commit
  <2> QED BY <2>1, <2>3 DEF Shapes
<1>4. \/ UNCHANGED engine
      \/ \E d \in Devices : AddMembers(d) \/ RemoveMembers(d)
      \/ \E t \in Ticks : Join(t) \/ ApplyCommits(t)
  BY DEF Next, vars, UserStep, OpStep, TickStep, StartAdd, StartRemove, AddRefused, RemoveRefused,
         PublishCommit, PublishFails, CommitAccepted, PublishWelcomes, FetchWelcomes, PersistJoined,
         FetchCommits, PersistApplied, Crash, deviceVars
<1> QED BY <1>1, <1>2, <1>3, <1>4

\* Whoever is reached stays so, as long as nothing fails.
LEMMA ReachedStays ==
  ASSUME HistoryInv, CursorTypes, ChangeInv, GroupAssumption, [Next]_vars, ~Fault,
         NEW x \in Devices, Reached(x)
  PROVE  Reached(x)'
<1>0. Shapes /\ (engine[x] # None => engine'[x] # None)
  BY EngineStays DEF HistoryInv
<1> USE <1>0
<1>1. ASSUME NEW d \in Devices, UserStep(d) PROVE Reached(x)'
  <2>1. op[d].pc = "idle" /\ op'[d].pc # "idle" /\ \A e \in Devices : e # d => op'[e] = op[e]
    BY <1>1, IdleOpIsChanging DEF UserStep, StartAdd, StartRemove, Shapes
  <2>2. UNCHANGED <<engine, welcomes, tick>>
    BY <1>1 DEF UserStep, StartAdd, StartRemove, deviceVars
  <2> QED BY <2>1, <2>2 DEF Reached, Invitations
<1>2. ASSUME NEW d \in Devices, AddMembers(d) \/ RemoveMembers(d) PROVE Reached(x)'
  <2>1. /\ op[d].pc \notin {"published", "welcome"} /\ \A e \in Devices : e # d => op'[e] = op[e]
        /\ UNCHANGED <<welcomes, tick>>
    BY <1>2 DEF AddMembers, RemoveMembers, Shapes, serverVars
  <2> QED BY <1>0, <2>1 DEF Reached, Invitations
<1>3. ASSUME NEW d \in Devices,
             AddRefused(d) \/ RemoveRefused(d) \/ PublishCommit(d) \/ PublishFails(d)
      PROVE  Reached(x)'
  <2>1. /\ op[d].pc \notin {"published", "welcome"} /\ \A e \in Devices : e # d => op'[e] = op[e]
        /\ UNCHANGED <<engine, welcomes, tick>>
    BY <1>3 DEF AddRefused, RemoveRefused, PublishCommit, PublishFails, Shapes, serverVars, deviceVars
  <2> QED BY <2>1 DEF Reached, Invitations
<1>4. ASSUME NEW d \in Devices, CommitAccepted(d) PROVE Reached(x)'
  <2>1. /\ op[d].pc = "published" /\ UNCHANGED <<engine, welcomes, tick>>
        /\ op' = [op EXCEPT ![d] = IF Final(op[d].commit).adds = {}
                                   THEN IdleOp ELSE [op[d] EXCEPT !.pc = "welcome"]]
    BY <1>4 DEF CommitAccepted, Final, serverVars
  <2>2. /\ \A e \in Devices : e # d => op'[e] = op[e]
        /\ \/ Final(op[d].commit).adds = {}
           \/ op'[d].pc = "welcome" /\ op'[d].commit = op[d].commit
    BY <2>1 DEF Shapes, Changing
  <2> QED BY <2>1, <2>2 DEF Reached, Invitations
<1>5. ASSUME NEW d \in Devices, PublishWelcomes(d) PROVE Reached(x)'
  <2>1. /\ op[d].pc = "welcome" /\ StoreWelcomes(op[d].who, op[d].commit)
        /\ UNCHANGED <<engine, tick>> /\ \A e \in Devices : e # d => op'[e] = op[e]
    BY <1>5 DEF PublishWelcomes, deviceVars, Shapes
  <2>2. welcomes[x] \subseteq welcomes'[x] /\ (x \in op[d].who => op[d].commit \in welcomes'[x])
    BY <2>1 DEF StoreWelcomes
  <2>3. CASE x \in Final(op[d].commit).adds
    <3>1. OneSided(op[d])
      BY DEF ChangeInv
    <3>2. op[d].commit \in Path /\ Len(op[d].commit) > 0
      BY <2>1, <3>1 DEF OneSided, Sent
    <3>3. x \in op[d].who /\ Final(op[d].commit).removes = {}
      BY <2>1, <2>3, <3>1 DEF OneSided, Sent
    <3>4. x \in Members(op[d].commit)
      BY <2>3, <3>2, <3>3, MembersGrow
    <3> QED BY <2>2, <3>3, <3>4 DEF Reached, Invitations
  <2>4. CASE x \notin Final(op[d].commit).adds
    BY <2>1, <2>2, <2>4 DEF Reached, Invitations
  <2> QED BY <2>3, <2>4
<1>6. ASSUME NEW t \in Ticks, FetchWelcomes(t) PROVE Reached(x)'
  <2>1. /\ tick[t] = IdleTick /\ UNCHANGED <<engine, op>>
        /\ welcomes' = [welcomes EXCEPT ![t[1]] = {}]
        /\ tick' = [tick EXCEPT ![t] = [pc |-> "join", got |-> welcomes[t[1]], page |-> <<>>]]
    BY <1>6 DEF FetchWelcomes, Fault, deviceVars
  <2>2. tick[t].got = {} /\ tick'[t].got = welcomes[t[1]] /\ \A u \in Ticks : u # t => tick'[u] = tick[u]
    BY <2>1, IdleTickIsPolling DEF Shapes
  <2>3. x # t[1] => welcomes'[x] = welcomes[x]
    BY <2>1 DEF Shapes
  <2>4. Invitations(x) \subseteq Invitations(x)'
    BY <2>2, <2>3 DEF Invitations, TicksOf
  <2> QED BY <2>1, <2>4 DEF Reached
<1>7. ASSUME NEW t \in Ticks, Join(t) PROVE Reached(x)'
  <2>1. PICK path \in tick[t].got :
          /\ tick' = [tick EXCEPT ![t] = [pc |-> IF @.got = {path} THEN "joined" ELSE "join",
                                          got |-> @.got \ {path}, page |-> <<>>]]
          /\ \/ engine' = [engine EXCEPT ![t[1]] = path]
             \/ engine[t[1]] # None /\ UNCHANGED engine
    BY <1>7 DEF Join
  <2>2. path # None
    <3>1. path \in Path
      BY <2>1 DEF Shapes, Polling
    <3> QED BY <3>1 DEF GroupAssumption, Path, Commit
  <2>3. engine'[t[1]] # None
    BY <2>1, <2>2, TickDevice DEF Shapes
  <2>4. \A u \in Ticks : u # t => tick'[u] = tick[u]
    BY <2>1 DEF Shapes
  <2>5. UNCHANGED <<op, welcomes>>
    BY <1>7 DEF Join, serverVars
  <2>6. x # t[1] => Invitations(x)' = Invitations(x)
    BY <2>4, <2>5 DEF Invitations, TicksOf
  <2> QED BY <2>3, <2>5, <2>6 DEF Reached
<1>8. ASSUME NEW t \in Ticks, PersistJoined(t) \/ PersistApplied(t) \/ FetchCommits(t) PROVE Reached(x)'
  <2>1. UNCHANGED <<engine, op, welcomes>>
    BY <1>8 DEF PersistJoined, PersistApplied, FetchCommits, serverVars, deviceVars
  <2>2. \A u \in Ticks : tick[u].got \subseteq tick'[u].got
    <3>1. CASE PersistJoined(t)
      BY <3>1 DEF PersistJoined, Shapes, Polling
    <3>2. CASE PersistApplied(t)
      <4>1. tick[t].got = {} /\ tick' = [tick EXCEPT ![t] = IdleTick]
        BY <3>2 DEF PersistApplied, ChangeInv
      <4> QED BY <4>1 DEF Shapes
    <3>3. CASE FetchCommits(t)
      <4>1. tick[t].got = {} /\ \A u \in Ticks : u # t => tick'[u] = tick[u]
        BY <3>3, IdleTickIsPolling DEF FetchCommits, Shapes
      <4> QED BY <4>1
    <3> QED BY <1>8, <3>1, <3>2, <3>3
  <2>3. Invitations(x) \subseteq Invitations(x)'
    BY <2>1, <2>2 DEF Invitations, TicksOf
  <2> QED BY <2>1, <2>3 DEF Reached
<1>9. ASSUME NEW t \in Ticks, ApplyCommits(t) PROVE Reached(x)'
  <2>1. UNCHANGED <<op, welcomes>> /\ tick[t].got = {} /\ \A u \in Ticks : u # t => tick'[u] = tick[u]
    BY <1>9 DEF ApplyCommits, serverVars, ChangeInv, Shapes
  <2>2. Invitations(x) \subseteq Invitations(x)'
    BY <2>1 DEF Invitations, TicksOf
  <2> QED BY <1>0, <2>1, <2>2 DEF Reached
<1>10. CASE UNCHANGED vars
  BY <1>10 DEF vars, Reached, Invitations
<1>11. \A d \in Devices : ~Crash(d)
  BY DEF Crash
<1> QED BY <1>1, <1>2, <1>3, <1>4, <1>5, <1>6, <1>7, <1>8, <1>9, <1>10, <1>11
     DEF Next, OpStep, TickStep

LEMMA InviteStep ==
  ASSUME HistoryInv, CursorTypes, ChangeInv, InviteInv, GroupAssumption, [Next]_vars
  PROVE  InviteInv'
<1> SUFFICES ASSUME faults' = 0
             PROVE  /\ engine'[Founder] # None
                    /\ \A e \in Epochs : log'[e] # None /\ ~Strays(log'[e], stray') =>
                         \A x \in Members(log'[e]) : Reached(x)'
  BY DEF InviteInv
<1>0. Shapes /\ CursorTypes
  BY DEF HistoryInv
<1>1. ~Fault
  BY <1>0, NoFault
<1>2. faults = 0
  BY <1>1 DEF Next, vars, UserStep, OpStep, TickStep, StartAdd, StartRemove, AddMembers, AddRefused,
     RemoveMembers, RemoveRefused, PublishCommit, PublishFails, CommitAccepted, PublishWelcomes,
     FetchWelcomes, Join, PersistJoined, FetchCommits, ApplyCommits, PersistApplied, Crash
<1>3. /\ engine[Founder] # None
      /\ \A e \in Epochs : log[e] # None /\ ~Strays(log[e], stray) =>
           \A x \in Members(log[e]) : Reached(x)
  BY <1>2 DEF InviteInv
<1>4. \A x \in Devices : Reached(x) => Reached(x)'
  BY <1>1, ReachedStays
<1>5. engine'[Founder] # None
  BY <1>1, <1>3, EngineStays DEF GroupAssumption
<1>6. /\ stray \subseteq stray'
      /\ UNCHANGED log \/ \E d \in Devices : PublishCommit(d)
  BY DEF Next, vars, UserStep, OpStep, TickStep, StartAdd, StartRemove, AddMembers, AddRefused,
         RemoveMembers, RemoveRefused, PublishCommit, PublishFails, CommitAccepted, PublishWelcomes,
         FetchWelcomes, Join, PersistJoined, FetchCommits, ApplyCommits, PersistApplied, Crash,
         serverVars, history
<1>7. \A path : Strays(path, stray) => Strays(path, stray')
  BY <1>6 DEF Strays
<1>8. \A path : \A x \in Members(path) : x \in Devices
  BY DEF Members
<1>9. CASE UNCHANGED log
  BY <1>3, <1>4, <1>5, <1>7, <1>8, <1>9
<1>10. ASSUME NEW d \in Devices, PublishCommit(d),
              NEW e \in Epochs, log'[e] # None, ~Strays(log'[e], stray'),
              NEW x \in Members(log'[e])
       PROVE  Reached(x)'
  <2> DEFINE c == op[d].commit
             n == Len(c)
  <2>1. /\ op[d].pc = "publish" /\ n \in Epochs
        /\ log' = [log EXCEPT ![n] = c]
        /\ op' = [op EXCEPT ![d].pc = "published"]
        /\ UNCHANGED stray
    BY <1>1, <1>10 DEF PublishCommit, StoreCommit, history
  <2>2. CASE e # n
    <3>1. log'[e] = log[e]
      BY <1>0, <2>1, <2>2 DEF Shapes
    <3> QED BY <1>3, <1>4, <1>7, <1>8, <1>10, <3>1
  <2>3. CASE e = n
    <3>1. log'[e] = c /\ c \in Path /\ n > 0 /\ ~Strays(c, stray)
      BY <1>0, <1>7, <1>10, <2>1, <2>3 DEF Shapes, HistoryInv, Orderly
    <3>2. x \in Final(c).adds \/ x \in Members(Parent(c))
      BY <1>10, <3>1, MembersGrow
    <3>3. CASE x \in Final(c).adds
      <4>1. op'[d].pc = "published" /\ op'[d].commit = c
        BY <1>0, <2>1 DEF Shapes, Changing
      <4> HIDE DEF c
      <4> QED BY <3>3, <4>1 DEF Reached
    <3>4. CASE x \in Members(Parent(c))
      <4>1. /\ n \in Nat \ {0} /\ ~Strays(Parent(c), stray)
            /\ \A f \in 1 .. n - 1 : f \in Epochs /\ log[f] # None
            /\ n > 1 => log[n - 1] = Parent(c)
            /\ n = 1 => Parent(c) = <<>>
        BY <2>1, <3>1, CommitOnHistory
      <4> HIDE DEF c, n
      <4>2. CASE n = 1
        BY <1>5, <3>4, <4>1, <4>2, MembersFirst DEF Reached
      <4>3. CASE n > 1
        <5>1. n - 1 \in 1 .. n - 1
          BY <4>1, <4>3
        <5>2. n - 1 \in Epochs /\ log[n - 1] # None /\ log[n - 1] = Parent(c)
          BY <4>1, <4>3, <5>1
        <5> QED BY <1>3, <1>4, <1>8, <3>4, <4>1, <5>2
      <4>4. n = 1 \/ n > 1
        BY <4>1
      <4> QED BY <4>2, <4>3, <4>4
    <3> QED BY <3>2, <3>3, <3>4
  <2> QED BY <2>2, <2>3
<1> QED BY <1>5, <1>6, <1>9, <1>10

-----------------------------------------------------------------------------
\* The tree follows the server's list

LEMMA PrefixOfPrefix ==
  ASSUME NEW path \in Path, NEW m \in 1 .. Len(path), NEW k \in 0 .. m
  PROVE  SubSeq(SubSeq(path, 1, m), 1, k) = SubSeq(path, 1, k)
<1> DEFINE p == SubSeq(path, 1, m)
<1>1. Len(path) \in Nat /\ m \in Nat /\ k \in Nat /\ \A i \in 1 .. m : path[i] \in Commit
  BY DEF Path
<1>2. p \in Path /\ Len(p) = m /\ \A i \in 1 .. m : p[i] = path[i]
  BY <1>1, SubSeqProperties DEF Path
<1> HIDE DEF p
<1>3. \A i \in 1 .. k : p[i] \in Commit /\ path[i] \in Commit /\ p[i] = path[i]
  BY <1>1, <1>2
<1>4. /\ SubSeq(p, 1, k) \in Path /\ Len(SubSeq(p, 1, k)) = k
      /\ \A i \in 1 .. k : SubSeq(p, 1, k)[i] = p[i]
  BY <1>1, <1>2, <1>3, SubSeqProperties DEF Path
<1>5. /\ SubSeq(path, 1, k) \in Path /\ Len(SubSeq(path, 1, k)) = k
      /\ \A i \in 1 .. k : SubSeq(path, 1, k)[i] = path[i]
  BY <1>1, <1>3, SubSeqProperties DEF Path
<1>6. \A i \in 1 .. k : SubSeq(p, 1, k)[i] = SubSeq(path, 1, k)[i]
  BY <1>3, <1>4, <1>5
<1>7. SubSeq(p, 1, k) = SubSeq(path, 1, k)
  BY <1>4, <1>5, <1>6, SeqEqual DEF Path
<1> QED BY <1>7 DEF p

\* When the newest commit is not on a refused one, no stored commit is.
LEMMA NewestIsClean ==
  ASSUME HistoryInv, ChangeInv, GroupAssumption,
         NEW e \in NewestOf(log), ~Strays(log[e], stray)
  PROVE  Clean(log, stray)
<1> SUFFICES ASSUME NEW m \in Epochs, log[m] # None, Strays(log[m], stray) PROVE FALSE
  BY DEF Clean
<1>1. /\ e \in Epochs /\ log[e] \in Path /\ Len(log[e]) = e
      /\ log[m] \in Path /\ Len(log[m]) = m
      /\ Settled(log[e], log, stray)
  BY DEF NewestOf, ChangeInv, EpochFree, HistoryInv, Shapes
<1>2. m \in 1 .. Len(log[e])
  BY <1>1 DEF NewestOf, Epochs, GroupAssumption
<1>3. log[m] = SubSeq(log[e], 1, m)
  BY <1>1, <1>2 DEF Settled, Strays
<1>4. PICK s \in stray : Len(s) <= m /\ SubSeq(log[m], 1, Len(s)) = s
  BY <1>1 DEF Strays
<1>5. Len(s) \in 0 .. m
  BY <1>4, <1>2 DEF HistoryInv, Shapes, Path
<1>6. SubSeq(log[e], 1, Len(s)) = s
  BY <1>1, <1>2, <1>3, <1>4, <1>5, PrefixOfPrefix
<1>7. Len(s) <= Len(log[e])
  BY <1>1, <1>2, <1>5
<1> QED BY <1>6, <1>7 DEF Strays

LEMMA RosterStarts == ASSUME Init, GroupAssumption PROVE ChangeInv /\ RosterInv /\ InviteInv
<1>1. /\ \A d \in Devices : op[d].pc = "idle"
      /\ \A t \in Ticks : tick[t].got = {}
      /\ \A e \in Epochs : log[e] = None
      /\ Founder \in roster /\ engine[Founder] = <<>>
  BY IdleOpIsChanging DEF Init, IdleTick, GroupAssumption
<1>2. <<>> # None
  <2>1. <<>> \in Seq(Commit) /\ None \notin Seq(Commit)
    BY DEF GroupAssumption, Commit
  <2> QED BY <2>1
<1>3. ChangeInv
  BY <1>1 DEF ChangeInv, OneSided, Sent, EpochFree
<1>4. RosterInv
  BY <1>1 DEF RosterInv, Accounted, NewestOf, Storable
<1>5. InviteInv
  BY <1>1, <1>2 DEF InviteInv
<1> QED BY <1>3, <1>4, <1>5

\* For any devices, ticks and number of changes: the accounts of the newest stored
\* commit are on the server's list or accounted for, and while no call fails each
\* member of a stored commit holds the group or has its invitation on the way
\* (groups.ts publishCommit and publishWelcomes, chat.addMembers, info.tsx).
THEOREM TreeIsFollowing == Spec => []TreeFollowsRoster
<1> DEFINE IInv == HistoryInv /\ CursorInv /\ ChangeInv /\ RosterInv /\ InviteInv
<1>1. \A path : OnStray(path) = Strays(path, stray)
  BY DEF OnStray, Strays
<1>2. IInv => Invited
  BY <1>1, Zenon DEF InviteInv, Reached, Invitations, Invited, EpochFree, Final
<1>3. IInv => TreeWithinRoster
  <2> SUFFICES ASSUME IInv, NEW e \in Newest, ~OnStray(log[e])
               PROVE  Members(log[e]) \subseteq Accounted
    BY DEF TreeWithinRoster, Accounted
  <2>1. e \in NewestOf(log)
    BY DEF Newest, NewestOf, EpochFree
  <2>2. Clean(log, stray)
    BY <1>1, <2>1, NewestIsClean, GroupAssumption
  <2> QED BY <2>1, <2>2 DEF RosterInv
<1>4. Init => IInv
  BY HistoryStarts, CursorStarts, RosterStarts, GroupAssumption
<1>5. IInv /\ [Next]_vars => IInv'
  <2> SUFFICES ASSUME IInv, [Next]_vars PROVE IInv'
    OBVIOUS
  <2>1. HistoryInv' /\ CursorInv' /\ ChangeInv' /\ RosterInv'
    BY HistoryStep, CursorStep, ChangeStep, RosterStep, GroupAssumption
  <2>2. InviteInv'
    BY InviteStep, GroupAssumption DEF CursorInv
  <2> QED BY <2>1, <2>2
<1> QED
  <2>1. IInv => TreeFollowsRoster
    BY <1>2, <1>3 DEF TreeFollowsRoster
  <2> HIDE DEF IInv
  <2> QED BY <1>4, <1>5, <2>1, PTL DEF Spec

-----------------------------------------------------------------------------
(***************************************************************************)
(* The types.  Every copy of a group state is at most as deep as the       *)
(* number of changes that have made their commit, so the bound on events   *)
(* keeps every commit within Epochs.                                       *)
(***************************************************************************)

\* No copy of a group state, and no cursor, is past the epoch n.
Within(n) ==
  /\ \A e \in Epochs : log[e] # None => Len(log[e]) <= n
  /\ \A d \in Devices :
       /\ \A p \in welcomes[d] : Len(p) <= n
       /\ engine[d] # None => Len(engine[d]) <= n
       /\ snapshot[d] # None => Len(snapshot[d]) <= n
       /\ cursor[d] # None => cursor[d] <= n
       /\ op[d].commit # None => Len(op[d].commit) <= n
  /\ \A t \in Ticks :
       /\ \A p \in tick[t].got : Len(p) <= n
       /\ \A i \in 1 .. Len(tick[t].page) : Len(tick[t].page[i]) <= n

\* The changes that may still make their commit.
Unmade == {d \in Devices : op[d].pc \in {"keys", "remove"}}

DepthInv ==
  /\ roster \subseteq Devices /\ ops \in 0 .. MaxEvents /\ faults \in 0 .. MaxEvents
  /\ IsFiniteSet(Unmade)
  /\ \E n \in Nat : Within(n) /\ n + Cardinality(Unmade) <= ops

\* The steps of a change that copy a group state, or none.
LEMMA ChangeCopies ==
  ASSUME HistoryInv, GroupAssumption, NEW n \in Nat, Within(n), NEW d \in Devices,
         \/ \E who \in SUBSET Devices : StartAdd(d, who) \/ StartRemove(d, who)
         \/ AddRefused(d) \/ RemoveRefused(d) \/ PublishCommit(d) \/ PublishFails(d)
         \/ CommitAccepted(d) \/ PublishWelcomes(d)
  PROVE  Within(n)'
<1>0. Shapes
  BY DEF HistoryInv
<1>1. CASE \/ \E who \in SUBSET Devices : StartAdd(d, who) \/ StartRemove(d, who)
           \/ AddRefused(d) \/ RemoveRefused(d) \/ PublishFails(d)
  <2>1. UNCHANGED <<log, welcomes, engine, snapshot, cursor, tick>>
    BY <1>1 DEF StartAdd, StartRemove, AddRefused, RemoveRefused, PublishFails, serverVars, deviceVars
  <2>2. \A x \in Devices : op'[x] = op[x] \/ op'[x].commit = None
    BY <1>0, <1>1 DEF StartAdd, StartRemove, AddRefused, RemoveRefused, PublishFails, Shapes, IdleOp
  <2> QED BY <2>1, <2>2 DEF Within
<1>2. CASE PublishCommit(d)
  <2>1. /\ op[d].pc = "publish" /\ UNCHANGED <<welcomes, engine, snapshot, cursor, tick>>
        /\ log' = [log EXCEPT ![Len(op[d].commit)] = op[d].commit]
    BY <1>2 DEF PublishCommit, StoreCommit, deviceVars
  <2>2. \A x \in Devices : op'[x].commit = op[x].commit \/ op'[x].commit = None
    <3> DEFINE o == [op[d] EXCEPT !.pc = "published"]
    <3>1. op' = [op EXCEPT ![d] = o] \/ op' = [op EXCEPT ![d] = IdleOp]
      BY <1>2 DEF PublishCommit
    <3>2. o.commit = op[d].commit /\ IdleOp.commit = None
      BY <1>0 DEF Shapes, Changing, IdleOp
    <3> HIDE DEF o
    <3> QED BY <1>0, <3>1, <3>2 DEF Shapes
  <2>3. op[d].commit # None
    BY <2>1 DEF HistoryInv, Orderly, Path, GroupAssumption, Commit
  <2>4. \A e \in Epochs : log'[e] = log[e] \/ log'[e] = op[d].commit
    BY <1>0, <2>1 DEF Shapes
  <2> QED BY <2>1, <2>2, <2>3, <2>4 DEF Within
<1>3. CASE CommitAccepted(d)
  <2>1. /\ op[d].pc = "published" /\ UNCHANGED <<log, welcomes, engine, tick>>
        /\ cursor' = [cursor EXCEPT ![d] = Len(op[d].commit)]
        /\ snapshot' = [snapshot EXCEPT ![d] = engine[d]]
    BY <1>3 DEF CommitAccepted, SetLastAppliedEpoch, PersistSnapshot, serverVars
  <2>2. \A x \in Devices : op'[x].commit = op[x].commit \/ op'[x].commit = None
    BY <1>0, <1>3 DEF CommitAccepted, Shapes, Changing, IdleOp
  <2>3. op[d].commit # None
    BY <2>1 DEF HistoryInv, Orderly, Path, GroupAssumption, Commit
  <2>4. \A x \in Devices : /\ cursor'[x] = cursor[x] \/ cursor'[x] = Len(op[d].commit)
                           /\ snapshot'[x] = snapshot[x] \/ snapshot'[x] = engine[d]
    BY <1>0, <2>1 DEF Shapes
  <2> QED BY <2>1, <2>2, <2>3, <2>4 DEF Within
<1>4. CASE PublishWelcomes(d)
  <2>1. /\ op[d].pc = "welcome" /\ op' = [op EXCEPT ![d] = IdleOp]
        /\ UNCHANGED <<log, engine, snapshot, cursor, tick>>
        /\ StoreWelcomes(op[d].who, op[d].commit) \/ UNCHANGED welcomes
    BY <1>4 DEF PublishWelcomes, deviceVars
  <2>2. \A x \in Devices : op'[x] = op[x] \/ op'[x].commit = None
    BY <1>0, <2>1 DEF Shapes, IdleOp
  <2>3. op[d].commit # None
    BY <2>1 DEF HistoryInv, Orderly, Path, GroupAssumption, Commit
  <2>4. \A x \in Devices : \A p \in welcomes'[x] : p \in welcomes[x] \/ p = op[d].commit
    BY <2>1 DEF StoreWelcomes
  <2> QED BY <2>1, <2>2, <2>3, <2>4 DEF Within
<1> QED BY <1>1, <1>2, <1>3, <1>4

\* A tick hands on what it was given.
LEMMA TickCopies ==
  ASSUME HistoryInv, CursorTypes, GroupAssumption, NEW n \in Nat, Within(n),
         NEW t \in Ticks, TickStep(t)
  PROVE  Within(n)'
<1> DEFINE d == t[1]
<1>0. Shapes /\ d \in Devices
  BY TickDevice DEF HistoryInv
<1>1. CASE FetchWelcomes(t)
  <2>1. /\ welcomes' = [welcomes EXCEPT ![d] = {}]
        /\ UNCHANGED <<log, engine, snapshot, cursor, op>>
        /\ \/ tick' = [tick EXCEPT ![t] = [pc |-> "join", got |-> welcomes[d], page |-> <<>>]]
           \/ UNCHANGED tick
    BY <1>1 DEF FetchWelcomes, deviceVars
  <2>2. \A x \in Devices : welcomes'[x] \subseteq welcomes[x]
    BY <1>0, <2>1 DEF Shapes
  <2>3. \A u \in Ticks : \/ tick'[u] = tick[u]
                         \/ tick'[u].got = welcomes[d] /\ tick'[u].page = <<>>
    BY <1>0, <2>1 DEF Shapes
  <2> QED BY <1>0, <2>1, <2>2, <2>3, IdleTickIsPolling DEF Within
<1>2. CASE Join(t)
  <2>1. UNCHANGED <<log, welcomes, snapshot, op>>
    BY <1>2 DEF Join, serverVars
  <2>2. PICK path \in tick[t].got :
          /\ tick' = [tick EXCEPT ![t] = [pc |-> IF @.got = {path} THEN "joined" ELSE "join",
                                          got |-> @.got \ {path}, page |-> <<>>]]
          /\ \/ engine' = [engine EXCEPT ![d] = path] /\ UpsertGroup(d, Len(path))
             \/ UNCHANGED <<engine, cursor>>
    BY <1>2 DEF Join
  <2>3. \A u \in Ticks : \/ tick'[u] = tick[u]
                         \/ tick'[u].got \subseteq tick[t].got /\ tick'[u].page = <<>>
    BY <1>0, <2>2 DEF Shapes
  <2>4. \A x \in Devices : /\ engine'[x] = engine[x] \/ engine'[x] = path
                           /\ cursor'[x] = cursor[x] \/ cursor'[x] = Len(path)
    BY <1>0, <2>2 DEF Shapes, UpsertGroup, CursorTypes
  <2>5. Len(path) <= n
    BY DEF Within
  <2> QED BY <2>1, <2>3, <2>4, <2>5, IdleTickIsPolling DEF Within
<1>3. CASE PersistJoined(t) \/ PersistApplied(t)
  <2>1. /\ UNCHANGED <<log, welcomes, engine, cursor, op>>
        /\ snapshot' = [snapshot EXCEPT ![d] = engine[d]]
        /\ tick' = [tick EXCEPT ![t].pc = "join"] \/ tick' = [tick EXCEPT ![t] = IdleTick]
    BY <1>3 DEF PersistJoined, PersistApplied, PersistSnapshot, serverVars
  <2>2. \A x \in Devices : snapshot'[x] = snapshot[x] \/ snapshot'[x] = engine[d]
    BY <1>0, <2>1 DEF Shapes
  <2>3. \A u \in Ticks : \/ tick'[u].got = tick[u].got /\ tick'[u].page = tick[u].page
                         \/ tick'[u].got = {} /\ tick'[u].page = <<>>
    <3> DEFINE k == [tick[t] EXCEPT !.pc = "join"]
    <3>1. tick' = [tick EXCEPT ![t] = k] \/ tick' = [tick EXCEPT ![t] = IdleTick]
      BY <2>1
    <3>2. k.got = tick[t].got /\ k.page = tick[t].page
      BY <1>0 DEF Shapes, Polling
    <3> HIDE DEF k
    <3> QED BY <1>0, <3>1, <3>2, IdleTickIsPolling DEF Shapes
  <2> QED BY <1>0, <2>1, <2>2, <2>3, IdleTickIsPolling DEF Within
<1>4. CASE FetchCommits(t)
  <2> DEFINE since == cursor[d]
             stored == {e \in Epochs : e >= since + 1 /\ ~EpochFree(e)}
             page == IF since = None THEN <<>> ELSE Page(stored)
  <2>1. /\ UNCHANGED <<log, welcomes, engine, snapshot, cursor, op>>
        /\ tick' = [tick EXCEPT ![t] = IF page = <<>> THEN IdleTick
                                       ELSE [pc |-> "apply", got |-> {}, page |-> page]]
    BY <1>4 DEF FetchCommits, FetchPendingCommits, serverVars, deviceVars
  <2>2. \A i \in 1 .. Len(page) : \E e \in stored : page[i] = log[e]
    <3>1. stored \in SUBSET Epochs /\ \A e \in stored : log[e] # None
      BY DEF EpochFree
    <3> HIDE DEF stored
    <3>2. \A i \in 1 .. Len(Page(stored)) : \E e \in stored : Page(stored)[i] = log[e]
      BY <1>0, <3>1, PageIsStored
    <3> QED BY <3>2, IdleTickIsPolling
  <2>3. \A e \in stored : Len(log[e]) <= n
    BY DEF Within, EpochFree
  <2> HIDE DEF stored, page
  <2>4. \A u \in Ticks : \/ tick'[u] = tick[u]
                         \/ tick'[u].got = {} /\ tick'[u].page = <<>>
                         \/ tick'[u].got = {} /\ tick'[u].page = page
    BY <1>0, <2>1, IdleTickIsPolling DEF Shapes
  <2>5. \A i \in 1 .. Len(page) : Len(page[i]) <= n
    BY <2>2, <2>3
  <2> QED BY <2>1, <2>4, <2>5, IdleTickIsPolling DEF Within
<1>5. CASE ApplyCommits(t)
  <2> DEFINE page == tick[t].page
  <2>1. /\ tick[t].pc = "apply" /\ page \in Seq(Path) /\ page # <<>>
        /\ UNCHANGED <<log, welcomes, snapshot, op>>
    BY <1>0, <1>5 DEF ApplyCommits, serverVars, CursorTypes, Shapes, Polling
  <2>2. PICK m \in 0 .. Len(page) :
          /\ engine' = IF m = 0 THEN engine ELSE [engine EXCEPT ![d] = page[m]]
          /\ IF m = Len(page)
             THEN SetLastAppliedEpoch(d, Len(page[m])) /\ tick' = [tick EXCEPT ![t].pc = "save"]
             ELSE UNCHANGED cursor /\ tick' = [tick EXCEPT ![t] = IdleTick]
    BY <1>5 DEF ApplyCommits
  <2>3. \A i \in 1 .. Len(page) : Len(page[i]) <= n
    BY DEF Within
  <2>4. \A u \in Ticks : \/ tick'[u].got = tick[u].got /\ tick'[u].page = tick[u].page
                         \/ tick'[u].got = {} /\ tick'[u].page = <<>>
    <3> DEFINE k == [tick[t] EXCEPT !.pc = "save"]
    <3>1. tick' = [tick EXCEPT ![t] = k] \/ tick' = [tick EXCEPT ![t] = IdleTick]
      BY <2>2
    <3>2. k.got = tick[t].got /\ k.page = tick[t].page
      BY <1>0 DEF Shapes, Polling
    <3> HIDE DEF k
    <3> QED BY <1>0, <3>1, <3>2, IdleTickIsPolling DEF Shapes
  <2>5. Len(page) \in Nat \ {0}
    BY <2>1
  <2>6. /\ m # 0 => m \in 1 .. Len(page)
        /\ m = Len(page) => m \in 1 .. Len(page)
    BY <2>5
  <2> HIDE DEF page
  <2>7. \A x \in Devices : /\ engine'[x] = engine[x] \/ Len(engine'[x]) <= n
                           /\ cursor'[x] = cursor[x] \/ cursor'[x] <= n
    BY <1>0, <2>2, <2>3, <2>6 DEF Shapes, SetLastAppliedEpoch, CursorTypes
  <2> QED BY <2>1, <2>4, <2>7, IdleTickIsPolling DEF Within
<1> QED BY <1>1, <1>2, <1>3, <1>4, <1>5 DEF TickStep

LEMMA CrashCopies ==
  ASSUME HistoryInv, NEW n \in Nat, Within(n), NEW d \in Devices, Crash(d)
  PROVE  Within(n)'
<1>1. UNCHANGED <<log, welcomes, snapshot, cursor>>
  BY DEF Crash, serverVars
<1>2. \A x \in Devices : /\ engine'[x] = engine[x] \/ engine'[x] = snapshot[x]
                         /\ op'[x] = op[x] \/ op'[x].commit = None
  BY DEF Crash, HistoryInv, Shapes, IdleOp
<1>3. \A u \in Ticks : tick'[u] = tick[u] \/ (tick'[u].got = {} /\ tick'[u].page = <<>>)
  BY IdleTickIsPolling DEF Crash
<1> QED BY <1>1, <1>2, <1>3, IdleTickIsPolling DEF Within

\* What is within n is within what follows.
LEMMA WithinMore ==
  ASSUME Shapes, CursorTypes, NEW n \in Nat, Within(n)
  PROVE  Within(n + 1)
<1>1. \A p \in Path : Len(p) <= n => Len(p) <= n + 1
  <2>1. \A p \in Path : Len(p) \in Nat
    BY DEF Path
  <2> QED BY <2>1
<1>2. \A c \in Nat : c <= n => c <= n + 1
  OBVIOUS
<1>3. \A e \in Epochs : log[e] # None => log[e] \in Path
  BY DEF Shapes
<1>4. \A d \in Devices :
        /\ welcomes[d] \subseteq Path
        /\ engine[d] # None => engine[d] \in Path
        /\ snapshot[d] # None => snapshot[d] \in Path
        /\ cursor[d] # None => cursor[d] \in Nat
        /\ op[d].commit # None => op[d].commit \in Path
  BY DEF Shapes, Changing, CursorTypes
<1>5. ASSUME NEW t \in Ticks
      PROVE  /\ tick[t].got \subseteq Path
             /\ \A i \in 1 .. Len(tick[t].page) : tick[t].page[i] \in Path
  <2>1. tick[t].got \subseteq Path /\ tick[t].page \in Seq(Path)
    BY DEF Shapes, Polling
  <2> QED BY <2>1
<1> HIDE DEF Shapes, CursorTypes
<1> QED BY <1>1, <1>2, <1>3, <1>4, <1>5, Zenon DEF Within

\* A new commit is one epoch deeper than the state it is made on.
LEMMA MergeDeepens ==
  ASSUME HistoryInv, GroupAssumption, CursorTypes, NEW n \in Nat, Within(n), NEW d \in Devices,
         AddMembers(d) \/ RemoveMembers(d)
  PROVE  Within(n + 1)'
<1>0. Shapes
  BY DEF HistoryInv
<1>1. PICK c \in Commit, who \in SUBSET Devices :
        /\ engine[d] # None
        /\ op' = [op EXCEPT ![d] = [pc |-> "publish", who |-> who,
                                    commit |-> Append(engine[d], c)]]
        /\ engine' = [engine EXCEPT ![d] = Append(engine[d], c)]
        /\ snapshot' = [snapshot EXCEPT ![d] = engine'[d]]
  <2>1. CASE AddMembers(d)
    <3>1. PICK got \in SUBSET op[d].who \ {{}} :
            /\ CanAdd(d, got) /\ engine' = [engine EXCEPT ![d] = EngineAdd(d, got)]
            /\ PersistSnapshot(d)
            /\ op' = [op EXCEPT ![d] = [pc |-> "publish", who |-> got, commit |-> EngineAdd(d, got)]]
      BY <2>1 DEF AddMembers
    <3>2. got \in SUBSET Devices
      BY <1>0 DEF Shapes, Changing
    <3>3. [by |-> d, adds |-> got, removes |-> {}] \in Commit
      BY <3>2 DEF Commit
    <3> QED BY <3>1, <3>2, <3>3 DEF CanAdd, Active, EngineAdd, PersistSnapshot
  <2>2. CASE RemoveMembers(d)
    <3>1. op[d].who \in SUBSET Devices
      BY <1>0 DEF Shapes, Changing
    <3>2. [by |-> d, adds |-> {}, removes |-> op[d].who] \in Commit
      BY <3>1 DEF Commit
    <3> QED BY <2>2, <3>1, <3>2 DEF RemoveMembers, CanRemove, Active, EngineRemove, PersistSnapshot
  <2> QED BY <2>1, <2>2
<1>2. UNCHANGED <<log, welcomes, cursor, tick>>
  BY DEF AddMembers, RemoveMembers, serverVars
<1> DEFINE path == Append(engine[d], c)
<1>3. engine[d] \in Path /\ Len(engine[d]) <= n /\ Len(path) = Len(engine[d]) + 1
  BY <1>0, <1>1 DEF Shapes, Within, Path
<1>4. Len(engine[d]) \in Nat
  BY <1>3 DEF Path
<1>5. Len(path) <= n + 1
  BY <1>3, <1>4
<1> HIDE DEF path
<1>6. \A x \in Devices : /\ engine'[x] = engine[x] \/ engine'[x] = path
                         /\ snapshot'[x] = snapshot[x] \/ snapshot'[x] = path
                         /\ op'[x] = op[x] \/ op'[x].commit = path
  BY <1>0, <1>1 DEF Shapes, path
<1>7. Within(n + 1)
  BY <1>0, WithinMore
<1> QED BY <1>2, <1>5, <1>6, <1>7 DEF Within

\* StartAdd and StartRemove count one event more, and one change that may still make
\* its commit; AddMembers and RemoveMembers make it.
LEMMA DepthStep ==
  ASSUME HistoryInv, CursorTypes, CursorTypes', DepthInv, GroupAssumption, [Next]_vars
  PROVE  DepthInv'
<1>0. Shapes /\ faults \in Nat /\ faults' \in Nat /\ MaxEvents \in Nat
  BY DEF HistoryInv, CursorTypes, GroupAssumption
<1>1. PICK n \in Nat : Within(n) /\ n + Cardinality(Unmade) <= ops
  BY DEF DepthInv
<1>2. IsFiniteSet(Unmade) /\ Cardinality(Unmade) \in Nat
      /\ ops \in 0 .. MaxEvents /\ faults \in 0 .. MaxEvents
  BY FS_CardinalityType DEF DepthInv
<1>3. roster' \subseteq Devices
  <2>1. roster \subseteq Devices
    BY DEF DepthInv
  <2>2. \/ UNCHANGED roster
        \/ \E d \in Devices : \E who \in SUBSET Devices : StartAdd(d, who) \/ StartRemove(d, who)
    BY DEF Next, vars, UserStep, OpStep, TickStep, AddMembers, AddRefused, RemoveMembers,
           RemoveRefused, PublishCommit, PublishFails, CommitAccepted, PublishWelcomes,
           FetchWelcomes, Join, PersistJoined, FetchCommits, ApplyCommits, PersistApplied, Crash,
           serverVars
  <2> QED BY <2>1, <2>2 DEF StartAdd, StartRemove, AddRows, RemoveRows
<1>4. ops' \in 0 .. MaxEvents /\ faults' \in 0 .. MaxEvents /\ ops <= ops'
  <2>1. \/ UNCHANGED <<ops, faults>>
        \/ Budget /\ ops' = ops + 1 /\ UNCHANGED faults
        \/ Fault /\ UNCHANGED ops
        \/ Budget /\ ops' = ops + 1 /\ Fault
    BY DEF Next, vars, UserStep, OpStep, TickStep, StartAdd, StartRemove, AddMembers, AddRefused,
           RemoveMembers, RemoveRefused, PublishCommit, PublishFails, CommitAccepted, PublishWelcomes,
           FetchWelcomes, Join, PersistJoined, FetchCommits, ApplyCommits, PersistApplied, Crash,
           Started
  <2> QED BY <1>0, <1>2, <2>1 DEF Budget, Fault
<1>5. ASSUME Within(n)', Unmade' \subseteq Unmade PROVE DepthInv'
  <2>1. /\ IsFiniteSet(Unmade') /\ Cardinality(Unmade') \in Nat
        /\ Cardinality(Unmade') <= Cardinality(Unmade)
    BY <1>2, <1>5, FS_Subset, FS_CardinalityType
  <2>2. n + Cardinality(Unmade') <= ops'
    BY <1>1, <1>2, <1>4, <2>1
  <2> QED BY <1>3, <1>4, <1>5, <2>1, <2>2 DEF DepthInv
<1>6. ASSUME NEW d \in Devices, NEW who \in SUBSET Devices, StartAdd(d, who) \/ StartRemove(d, who)
      PROVE  DepthInv'
  <2>1. Within(n)'
    BY <1>1, <1>6, ChangeCopies
  <2>2. /\ op[d] = IdleOp /\ ops' = ops + 1
        /\ \E pc \in {"keys", "remove"} :
             op' = [op EXCEPT ![d] = [pc |-> pc, who |-> who, commit |-> None]]
    BY <1>6 DEF StartAdd, StartRemove
  <2>3. Unmade' = Unmade \cup {d} /\ d \notin Unmade
    BY <1>0, <2>2, IdleOpIsChanging DEF Shapes, Unmade
  <2>4. IsFiniteSet(Unmade') /\ Cardinality(Unmade') = Cardinality(Unmade) + 1
    BY <1>2, <2>3, FS_AddElement
  <2>5. n + Cardinality(Unmade') <= ops'
    BY <1>1, <1>2, <2>2, <2>4
  <2> QED BY <1>3, <1>4, <2>1, <2>4, <2>5 DEF DepthInv
<1>7. ASSUME NEW d \in Devices, AddMembers(d) \/ RemoveMembers(d) PROVE DepthInv'
  <2>1. Within(n + 1)'
    BY <1>0, <1>1, <1>7, MergeDeepens
  <2>2. /\ op[d].pc \in {"keys", "remove"} /\ UNCHANGED ops
        /\ \E who, commit :
             op' = [op EXCEPT ![d] = [pc |-> "publish", who |-> who, commit |-> commit]]
    BY <1>7 DEF AddMembers, RemoveMembers
  <2>3. Unmade' = Unmade \ {d} /\ d \in Unmade
    BY <1>0, <2>2 DEF Shapes, Unmade
  <2>4. IsFiniteSet(Unmade') /\ Cardinality(Unmade') = Cardinality(Unmade) - 1
    BY <1>2, <2>3, FS_RemoveElement
  <2>5. n + 1 \in Nat /\ n + 1 + Cardinality(Unmade') <= ops'
    BY <1>1, <1>2, <2>2, <2>4
  <2> QED BY <1>3, <1>4, <2>1, <2>4, <2>5 DEF DepthInv
<1>8. ASSUME NEW d \in Devices, OpStep(d) PROVE DepthInv'
  <2>1. CASE \/ AddRefused(d) \/ RemoveRefused(d) \/ PublishCommit(d) \/ PublishFails(d)
             \/ CommitAccepted(d) \/ PublishWelcomes(d)
    <3>1. Within(n)'
      BY <1>1, <2>1, ChangeCopies
    <3>2. \A x \in Devices : op'[x] = op[x] \/ op'[x].pc \in {"idle", "published", "welcome"}
      BY <1>0, <2>1, IdleOpIsChanging
         DEF AddRefused, RemoveRefused, PublishCommit, PublishFails, CommitAccepted,
             PublishWelcomes, Shapes, Changing
    <3>3. Unmade' \subseteq Unmade
      BY <3>2 DEF Unmade
    <3> QED BY <1>5, <3>1, <3>3
  <2> QED BY <1>7, <1>8, <2>1 DEF OpStep
<1>9. ASSUME NEW t \in Ticks, TickStep(t) PROVE DepthInv'
  <2>1. Within(n)'
    BY <1>1, <1>9, TickCopies
  <2>2. UNCHANGED op
    BY <1>9 DEF TickStep, FetchWelcomes, Join, PersistJoined, FetchCommits, ApplyCommits, PersistApplied
  <2> QED BY <1>5, <2>1, <2>2 DEF Unmade
<1>10. ASSUME NEW d \in Devices, Crash(d) PROVE DepthInv'
  <2>1. Within(n)'
    BY <1>1, <1>10, CrashCopies
  <2>2. \A x \in Devices : op'[x] = op[x] \/ op'[x].pc = "idle"
    BY <1>0, <1>10, IdleOpIsChanging DEF Crash, Shapes
  <2> QED BY <1>5, <2>1, <2>2 DEF Unmade
<1>11. CASE UNCHANGED vars
  <2>1. Within(n)' /\ Unmade' = Unmade
    BY <1>1, <1>11 DEF vars, Within, Unmade
  <2> QED BY <1>5, <2>1
<1> QED BY <1>6, <1>8, <1>9, <1>10, <1>11 DEF Next, UserStep

LEMMA DepthStarts == ASSUME Init, GroupAssumption PROVE DepthInv
<1>1. Within(0)
  BY IdleTickIsPolling DEF Init, Within, IdleOp
<1>2. Unmade = {}
  BY IdleOpIsChanging DEF Init, Unmade
<1>3. IsFiniteSet(Unmade) /\ Cardinality(Unmade) = 0
  BY <1>2, FS_EmptySet
<1> QED BY <1>1, <1>3 DEF DepthInv, Init, GroupAssumption

\* The types, with every group state within the bound on events: the guard by which
\* publishCommit's model asks for an epoch there is never keeps a commit back
\* (client/index.ts addMembersByAccounts, routers/mls/groups.ts publishCommit).
THEOREM GroupTypesHold == Spec => []TypeOK
<1> DEFINE IInv == HistoryInv /\ CursorInv /\ DepthInv
<1>1. IInv => TypeOK
  <2> SUFFICES ASSUME HistoryInv, CursorInv, DepthInv PROVE TypeOK
    OBVIOUS
  <2>0. Shapes /\ CursorTypes
    BY DEF HistoryInv, CursorInv
  <2>1. PICK n \in Nat : Within(n) /\ n <= MaxEvents
    <3>1. PICK n \in Nat : Within(n) /\ n + Cardinality(Unmade) <= ops
      BY DEF DepthInv
    <3>2. Cardinality(Unmade) \in Nat /\ ops \in 0 .. MaxEvents
      BY FS_CardinalityType DEF DepthInv
    <3> QED BY <3>1, <3>2, GroupAssumption DEF GroupAssumption
  <2>2. \A p \in Path : Len(p) <= n => MaybePath(p)
    <3> SUFFICES ASSUME NEW p \in Path, Len(p) <= n PROVE MaybePath(p)
      OBVIOUS
    <3>1. Len(p) \in Nat /\ p \in Seq(Commit) /\ MaxEvents \in Nat
      BY GroupAssumption DEF Path, GroupAssumption
    <3> QED BY <2>1, <3>1 DEF MaybePath
  <2>3. /\ DOMAIN log = Epochs /\ \A e \in Epochs : MaybePath(log[e])
    BY <2>0, <2>1, <2>2 DEF Shapes, Within, MaybePath
  <2>4. ASSUME NEW d \in Devices
        PROVE  /\ \A p \in welcomes[d] : p \in Seq(Commit)
               /\ MaybePath(engine[d]) /\ MaybePath(snapshot[d])
               /\ cursor[d] \in Epochs \cup {0, None}
               /\ op[d].pc \in {"idle", "keys", "remove", "publish", "published", "welcome"}
               /\ op[d].who \subseteq Devices /\ MaybePath(op[d].commit)
    <3>1. /\ engine[d] \in Path \cup {None} /\ snapshot[d] \in Path \cup {None}
          /\ op[d] \in Changing /\ welcomes[d] \subseteq Path /\ cursor[d] \in Nat \cup {None}
      BY <2>0 DEF Shapes, CursorTypes
    <3>2. MaybePath(engine[d]) /\ MaybePath(snapshot[d]) /\ MaybePath(op[d].commit)
      BY <2>1, <2>2, <3>1 DEF Within, Changing, MaybePath
    <3>3. cursor[d] \in Epochs \cup {0, None}
      <4>1. cursor[d] # None => cursor[d] <= n
        BY <2>1 DEF Within
      <4> QED BY <2>1, <3>1, <4>1, GroupAssumption DEF Epochs, GroupAssumption
    <3> QED BY <3>1, <3>2, <3>3 DEF Changing, Path
  <2>5. ASSUME NEW t \in Ticks
        PROVE  /\ tick[t].pc \in {"idle", "join", "joined", "apply", "save"}
               /\ \A p \in tick[t].got : p \in Seq(Commit)
               /\ \A i \in DOMAIN tick[t].page : tick[t].page[i] \in Seq(Commit)
    <3>1. tick[t] \in Polling
      BY <2>0 DEF Shapes
    <3>2. tick[t].page \in Seq(Seq(Commit)) /\ tick[t].got \subseteq Seq(Commit)
      BY <3>1 DEF Polling, Path
    <3>3. \A i \in DOMAIN tick[t].page : tick[t].page[i] \in Seq(Commit)
      BY <3>2
    <3> QED BY <3>1, <3>2, <3>3 DEF Polling
  <2> QED BY <2>3, <2>4, <2>5 DEF TypeOK, DepthInv
<1>2. Init => IInv
  BY HistoryStarts, CursorStarts, DepthStarts, GroupAssumption
<1>3. IInv /\ [Next]_vars => IInv'
  <2> SUFFICES ASSUME HistoryInv, CursorInv, DepthInv, [Next]_vars PROVE IInv'
    OBVIOUS
  <2>1. HistoryInv' /\ CursorInv'
    BY HistoryStep, CursorStep, GroupAssumption
  <2>2. CursorTypes /\ CursorTypes'
    BY <2>1 DEF CursorInv
  <2> QED BY <2>1, <2>2, DepthStep, GroupAssumption
<1> HIDE DEF IInv
<1> QED BY <1>1, <1>2, <1>3, PTL DEF Spec

-----------------------------------------------------------------------------
(***************************************************************************)
(* The KeyPackage pool.  A batch whose publish is with the server belongs  *)
(* to the pool already: the server may insert it at any time, so its       *)
(* private halves must be as safe as those of the rows.                    *)
(***************************************************************************)

Keys == 1 .. MaxKeys
TopUpCall == [pc : {"idle", "asked", "counted", "publish", "checked", "done"},
              batch : SUBSET Keys, count : Nat, adrift : BOOLEAN]

KeyTypes ==
  /\ pool \subseteq Keys /\ private \subseteq Keys
  /\ saved \in [there : BOOLEAN, keys : SUBSET Keys]
  /\ topUp \in [TopUps -> TopUpCall]

Flies(c) == c.pc \in {"publish", "checked"}

\* The engine, or the snapshot it will be made of, has what the server may give away.
Holding == ~orphans /\ (ready \/ saved.there)

BackedInv ==
  /\ KeyTypes
  /\ Holding => pool \subseteq private
  /\ \A t \in TopUps : Flies(topUp[t]) =>
       /\ Holding => topUp[t].batch \subseteq private
       /\ topUp[t].batch \cap pool = {}
       /\ \A u \in TopUps \ {t} : Flies(topUp[u]) => topUp[t].batch \cap topUp[u].batch = {}
  /\ saved.there /\ ~unsaved => private \subseteq saved.keys

\* Whoever has checked the cap has room for his batch.
CapInv ==
  KeyTypes /\
  (~overlapped =>
    /\ Cardinality(pool) <= Cap
    /\ \A t \in TopUps : topUp[t].pc = "checked" =>
         /\ Cardinality(pool) + Cardinality(topUp[t].batch) <= Cap
         /\ \A u \in TopUps \ {t} : topUp[u].pc # "checked")

LEMMA KeysAreFinite ==
  ASSUME NEW S, S \subseteq Keys PROVE IsFiniteSet(S) /\ Cardinality(S) \in Nat
<1>1. IsFiniteSet(Keys)
  BY KeyPoolAssumption, FS_Interval DEF Keys
<1> QED BY <1>1, FS_Subset, FS_CardinalityType

LEMMA QuietIsACall == Quiet \in TopUpCall /\ Quiet.pc = "idle"
  BY DEF Quiet, TopUpCall

LEMMA PoolStarts == KeyPoolInit => BackedInv /\ CapInv
<1> SUFFICES ASSUME KeyPoolInit PROVE BackedInv /\ CapInv
  OBVIOUS
<1>1. NoSnapshot \in [there : BOOLEAN, keys : SUBSET Keys] /\ ~ NoSnapshot.there
  BY DEF NoSnapshot
<1>2. KeyTypes /\ \A t \in TopUps : topUp[t] = Quiet
  BY <1>1, QuietIsACall DEF KeyPoolInit, KeyTypes
<1>3. \A t \in TopUps : topUp[t].pc = "idle"
  BY <1>2, QuietIsACall
<1>4. pool = {} /\ saved = NoSnapshot /\ Cardinality({}) = 0
  BY FS_EmptySet DEF KeyPoolInit
<1> QED BY <1>1, <1>2, <1>3, <1>4, KeyPoolAssumption DEF BackedInv, CapInv, Flies

-----------------------------------------------------------------------------
\* What a step of one call makes of it

LEMMA BatchIsUnused ==
  ASSUME KeyTypes, NEW t \in TopUps, NEW size, PublishBatch(t, size)
  PROVE  \E c \in TopUpCall :
           /\ topUp' = [topUp EXCEPT ![t] = c] /\ c.pc = "publish"
           /\ c.batch \cap pool = {}
           /\ \A u \in TopUps : c.batch \cap topUp[u].batch = {}
           /\ private' = private \cup c.batch /\ unsaved' = TRUE
<1>1. PICK batch \in SUBSET Unused :
        /\ topUp' = [topUp EXCEPT ![t] = [Quiet EXCEPT !.pc = "publish", !.batch = batch]]
        /\ private' = private \cup batch /\ unsaved' = TRUE
  BY DEF PublishBatch
<1> DEFINE c == [Quiet EXCEPT !.pc = "publish", !.batch = batch]
<1>2. batch \subseteq Keys /\ batch \cap pool = {} /\ \A u \in TopUps : batch \cap topUp[u].batch = {}
  BY <1>1 DEF Unused, InUse, Keys
<1>3. c \in TopUpCall /\ c.pc = "publish" /\ c.batch = batch
  BY <1>2, QuietIsACall DEF TopUpCall
<1>4. topUp' = [topUp EXCEPT ![t] = c]
  BY <1>1
<1> HIDE DEF c
<1> QED BY <1>1, <1>2, <1>3, <1>4

\* One call goes on, and creates keys at most.
LEMMA BatchKeeps ==
  ASSUME BackedInv, NEW t \in TopUps, NEW c \in TopUpCall, topUp' = [topUp EXCEPT ![t] = c],
         UNCHANGED <<pool, ready, orphans>>, KeyTypes', Holding' => Holding,
         private \subseteq private',
         Flies(c) => /\ Holding' => c.batch \subseteq private'
                     /\ c.batch \cap pool = {}
                     /\ \A u \in TopUps \ {t} :
                          Flies(topUp[u]) => c.batch \cap topUp[u].batch = {},
         saved'.there /\ ~unsaved' => private' \subseteq saved'.keys
  PROVE  BackedInv'
<1>1. topUp'[t] = c /\ \A u \in TopUps \ {t} : topUp'[u] = topUp[u]
  BY DEF BackedInv, KeyTypes
<1>2. Holding' => pool' \subseteq private'
  BY <1>1 DEF BackedInv
<1>3. ASSUME NEW u \in TopUps, Flies(topUp'[u])
      PROVE  /\ Holding' => topUp'[u].batch \subseteq private'
             /\ topUp'[u].batch \cap pool' = {}
             /\ \A v \in TopUps \ {u} : Flies(topUp'[v]) => topUp'[u].batch \cap topUp'[v].batch = {}
  <2>1. CASE u = t
    BY <1>1, <1>3, <2>1
  <2>2. CASE u # t
    <3>1. topUp'[u] = topUp[u]
      BY <1>1, <2>2
    <3>2. \A v \in TopUps \ {u} : Flies(topUp'[v]) => topUp[u].batch \cap topUp'[v].batch = {}
      BY <1>1, <1>3, <2>2, <3>1 DEF BackedInv
    <3> QED BY <1>1, <1>3, <3>1, <3>2 DEF BackedInv
  <2> QED BY <2>1, <2>2
<1> QED BY <1>2, <1>3 DEF BackedInv, Flies

LEMMA TicksKeepBacked ==
  ASSUME BackedInv, NEW t \in TopUps,
         Tick(t) \/ ServerCount(t) \/ Counted(t) \/ BatchPublished(t) \/ CallFails(t)
  PROVE  BackedInv'
<1>1. UNCHANGED <<pool, ready, orphans>> /\ KeyTypes /\ topUp[t] \in TopUpCall
  BY DEF Tick, ServerCount, Counted, BatchPublished, CallFails, BackedInv, KeyTypes
<1>2. /\ UNCHANGED saved \/ saved' = [there |-> TRUE, keys |-> private]
      /\ Holding' => Holding
  BY <1>1 DEF Tick, ServerCount, Counted, BatchPublished, PersistPool, CallFails, Holding
<1>3. saved' \in [there : BOOLEAN, keys : SUBSET Keys]
  <2>1. [there |-> TRUE, keys |-> private] \in [there : BOOLEAN, keys : SUBSET Keys]
    BY <1>1 DEF KeyTypes
  <2> QED BY <1>1, <1>2, <2>1 DEF KeyTypes
<1>4. ASSUME NEW size, PublishBatch(t, size) PROVE BackedInv'
  <2>1. PICK c \in TopUpCall :
          /\ topUp' = [topUp EXCEPT ![t] = c]
          /\ c.batch \cap pool = {} /\ \A u \in TopUps : c.batch \cap topUp[u].batch = {}
          /\ private' = private \cup c.batch /\ unsaved' = TRUE
    BY <1>1, <1>4, BatchIsUnused
  <2>2. c.batch \subseteq Keys
    BY DEF TopUpCall
  <2>3. KeyTypes'
    BY <1>1, <1>3, <2>1, <2>2 DEF KeyTypes
  <2>4. /\ private \subseteq private' /\ c.batch \subseteq private' /\ unsaved'
        /\ c.batch \cap pool = {} /\ \A u \in TopUps : c.batch \cap topUp[u].batch = {}
        /\ topUp' = [topUp EXCEPT ![t] = c]
    BY <2>1
  <2> QED BY <1>1, <1>2, <2>3, <2>4, BatchKeeps
<1>5. ASSUME NEW c \in TopUpCall, ~ Flies(c), topUp' = [topUp EXCEPT ![t] = c],
             private' = private, saved'.there /\ ~unsaved' => private' \subseteq saved'.keys
      PROVE  BackedInv'
  <2>1. KeyTypes'
    BY <1>1, <1>3, <1>5 DEF KeyTypes
  <2>2. private \subseteq private'
    BY <1>5
  <2> QED BY <1>1, <1>2, <1>5, <2>1, <2>2, BatchKeeps
<1>6. Quiet \in TopUpCall /\ ~ Flies(Quiet)
  BY QuietIsACall DEF Flies
<1>7. ASSUME Stop(t), UNCHANGED saved PROVE BackedInv'
  BY <1>5, <1>6, <1>7 DEF Stop, BackedInv
<1>8. CASE Tick(t)
  <2>1. CASE known.sure
    BY <1>4, <1>8, <2>1 DEF Tick
  <2>2. CASE ~ known.sure
    <3> DEFINE c == [Quiet EXCEPT !.pc = "asked"]
    <3>1. c \in TopUpCall /\ c.pc = "asked"
      BY QuietIsACall DEF TopUpCall
    <3>2. topUp' = [topUp EXCEPT ![t] = c] /\ UNCHANGED <<private, unsaved, saved>>
      BY <1>8, <2>2 DEF Tick
    <3> HIDE DEF c
    <3> QED BY <1>5, <3>1, <3>2 DEF Flies, BackedInv
  <2> QED BY <2>1, <2>2
<1>9. CASE ServerCount(t)
  <2>1. UNCHANGED <<private, unsaved, saved>>
    BY <1>9 DEF ServerCount
  <2>2. PICK c \in TopUpCall : topUp' = [topUp EXCEPT ![t] = c] /\ ~ Flies(c)
    <3> DEFINE n == [topUp[t] EXCEPT !.pc = "counted", !.count = Cardinality(pool)]
    <3>1. Cardinality(pool) \in Nat
      BY <1>1, KeysAreFinite DEF KeyTypes
    <3>2. n \in TopUpCall /\ n.pc = "counted"
      BY <1>1, <3>1 DEF TopUpCall
    <3>3. topUp' = [topUp EXCEPT ![t] = Quiet] \/ topUp' = [topUp EXCEPT ![t] = n]
      BY <1>9 DEF ServerCount
    <3> HIDE DEF n
    <3> QED BY <1>6, <3>2, <3>3 DEF Flies
  <2> QED BY <1>5, <2>1, <2>2 DEF BackedInv
<1>10. CASE Counted(t)
  BY <1>4, <1>7, <1>10 DEF Counted, Proceed
<1>11. CASE BatchPublished(t)
  <2>1. CASE ready /\ ~ (topUp[t].count < Target)
    <3>1. /\ topUp' = [topUp EXCEPT ![t] = Quiet] /\ private' = private
          /\ saved' = [there |-> TRUE, keys |-> private]
      BY <1>11, <2>1 DEF BatchPublished, PersistPool
    <3>2. private' \subseteq saved'.keys
      BY <3>1
    <3> QED BY <1>5, <1>6, <3>1, <3>2
  <2> QED BY <1>4, <1>7, <1>11, <2>1 DEF BatchPublished
<1>12. CASE CallFails(t)
  <2>1. UNCHANGED <<private, unsaved, saved>>
    BY <1>12 DEF CallFails
  <2>2. CASE topUp' = [topUp EXCEPT ![t] = Quiet]
    BY <1>5, <1>6, <2>1, <2>2 DEF BackedInv
  <2>3. CASE topUp' # [topUp EXCEPT ![t] = Quiet]
    <3> DEFINE c == [topUp[t] EXCEPT !.adrift = TRUE]
    <3>1. c \in TopUpCall /\ c.pc = topUp[t].pc /\ c.batch = topUp[t].batch
      BY <1>1 DEF TopUpCall
    <3>2. topUp' = [topUp EXCEPT ![t] = c] /\ Flies(topUp[t])
      BY <1>12, <2>3 DEF CallFails, InFlight, Flies
    <3> HIDE DEF c
    <3>3. KeyTypes'
      BY <1>1, <2>1, <3>1, <3>2 DEF KeyTypes
    <3> QED BY <1>1, <1>2, <2>1, <3>1, <3>2, <3>3, BatchKeeps DEF BackedInv
  <2> QED BY <2>2, <2>3
<1> QED BY <1>8, <1>9, <1>10, <1>11, <1>12

LEMMA CheckKeepsBacked == ASSUME BackedInv, NEW t \in TopUps, PublishCheck(t) PROVE BackedInv'
<1>1. /\ UNCHANGED <<pool, ready, orphans, saved, unsaved>> /\ Holding' = Holding
      /\ KeyTypes /\ topUp[t] \in TopUpCall /\ Flies(topUp[t])
  BY DEF PublishCheck, BackedInv, KeyTypes, Holding, Flies
<1>2. CASE Fits(t)
  <2> DEFINE c == [topUp[t] EXCEPT !.pc = "checked", !.count = Cardinality(pool)]
  <2>1. Cardinality(pool) \in Nat
    BY <1>1, KeysAreFinite DEF KeyTypes
  <2>2. c \in TopUpCall /\ c.pc = "checked" /\ c.batch = topUp[t].batch
    BY <1>1, <2>1 DEF TopUpCall
  <2>3. topUp' = [topUp EXCEPT ![t] = c] /\ private' = private
    BY <1>2 DEF PublishCheck
  <2> HIDE DEF c
  <2>4. KeyTypes'
    BY <1>1, <2>2, <2>3 DEF KeyTypes
  <2> QED BY <1>1, <2>2, <2>3, <2>4, BatchKeeps DEF BackedInv
<1>3. CASE ~ Fits(t)
  <2>1. topUp' = [topUp EXCEPT ![t] = Quiet] /\ private' = private \ topUp[t].batch
    BY <1>3 DEF PublishCheck
  <2>2. /\ topUp'[t] = Quiet /\ ~ Flies(topUp'[t]) /\ \A u \in TopUps \ {t} : topUp'[u] = topUp[u]
    BY <1>1, <2>1, QuietIsACall DEF KeyTypes, Flies
  <2>3. KeyTypes'
    BY <1>1, <2>1, QuietIsACall DEF KeyTypes
  <2>4. Holding' => pool' \subseteq private'
    BY <1>1, <2>1 DEF BackedInv
  <2>5. ASSUME NEW u \in TopUps, Flies(topUp'[u])
        PROVE  /\ Holding' => topUp'[u].batch \subseteq private'
               /\ topUp'[u].batch \cap pool' = {}
               /\ \A v \in TopUps \ {u} :
                    Flies(topUp'[v]) => topUp'[u].batch \cap topUp'[v].batch = {}
    <3>1. u # t /\ topUp'[u] = topUp[u]
      BY <2>2, <2>5
    <3>2. topUp[u].batch \cap topUp[t].batch = {}
      BY <1>1, <2>5, <3>1 DEF BackedInv
    <3>3. \A v \in TopUps \ {u} : Flies(topUp'[v]) => topUp[u].batch \cap topUp'[v].batch = {}
      BY <2>2, <2>5, <3>1 DEF BackedInv
    <3> QED BY <1>1, <2>1, <2>5, <3>1, <3>2, <3>3 DEF BackedInv
  <2> QED BY <1>1, <2>1, <2>3, <2>4, <2>5 DEF BackedInv, Flies
<1> QED BY <1>2, <1>3

LEMMA InsertKeepsBacked == ASSUME BackedInv, NEW t \in TopUps, PublishInsert(t) PROVE BackedInv'
<1>1. /\ UNCHANGED <<private, ready, orphans, saved, unsaved>> /\ Holding' = Holding
      /\ KeyTypes /\ topUp[t] \in TopUpCall /\ Flies(topUp[t]) /\ topUp[t].batch \subseteq Keys
      /\ pool' = pool \cup topUp[t].batch
  BY DEF PublishInsert, BackedInv, KeyTypes, Holding, Flies, TopUpCall
<1>2. PICK c \in TopUpCall : topUp' = [topUp EXCEPT ![t] = c] /\ ~ Flies(c)
  <2>1. PICK size \in Nat : topUp' = [topUp EXCEPT ![t] =
          IF topUp[t].adrift THEN Quiet ELSE [topUp[t] EXCEPT !.pc = "done", !.count = size]]
    <3>1. Cardinality(topUp[t].batch) \in Nat /\ topUp[t].count \in Nat
      BY <1>1, KeysAreFinite DEF TopUpCall
    <3>2. PICK size \in Nat : size = topUp[t].count + Cardinality(topUp[t].batch)
      BY <3>1
    <3>3. topUp' = [topUp EXCEPT ![t] =
            IF topUp[t].adrift THEN Quiet ELSE [topUp[t] EXCEPT !.pc = "done", !.count = size]]
      BY <3>2 DEF PublishInsert
    <3> QED BY <3>3
  <2> DEFINE n == [topUp[t] EXCEPT !.pc = "done", !.count = size]
  <2>2. n \in TopUpCall /\ n.pc = "done"
    BY <1>1 DEF TopUpCall
  <2>3. topUp' = [topUp EXCEPT ![t] = Quiet] \/ topUp' = [topUp EXCEPT ![t] = n]
    BY <2>1
  <2> HIDE DEF n
  <2> QED BY <2>2, <2>3, QuietIsACall DEF Flies
<1>3. topUp'[t] = c /\ \A u \in TopUps \ {t} : topUp'[u] = topUp[u]
  BY <1>1, <1>2 DEF KeyTypes
<1>4. KeyTypes'
  BY <1>1, <1>2 DEF KeyTypes
<1>5. Holding' => pool' \subseteq private'
  BY <1>1 DEF BackedInv
<1>6. ASSUME NEW u \in TopUps, Flies(topUp'[u])
      PROVE  /\ Holding' => topUp'[u].batch \subseteq private'
             /\ topUp'[u].batch \cap pool' = {}
             /\ \A v \in TopUps \ {u} : Flies(topUp'[v]) => topUp'[u].batch \cap topUp'[v].batch = {}
  <2>1. u # t /\ topUp'[u] = topUp[u]
    BY <1>2, <1>3, <1>6
  <2>2. topUp[u].batch \cap topUp[t].batch = {}
    BY <1>1, <1>6, <2>1 DEF BackedInv
  <2>3. \A v \in TopUps \ {u} : Flies(topUp'[v]) => topUp[u].batch \cap topUp'[v].batch = {}
    BY <1>2, <1>3, <1>6, <2>1 DEF BackedInv
  <2> QED BY <1>1, <1>6, <2>1, <2>2, <2>3 DEF BackedInv
<1> QED BY <1>1, <1>4, <1>5, <1>6 DEF BackedInv, Flies

LEMMA FetchKeepsBacked == ASSUME BackedInv, Fetch PROVE BackedInv'
<1>1. /\ UNCHANGED <<ready, topUp, unsaved, orphans>>
      /\ KeyTypes
  BY DEF Fetch, BackedInv
<1>2. PICK k \in pool : /\ pool' = pool \ {k} /\ private' = private \ {k}
                        /\ saved' = [saved EXCEPT !.keys = saved.keys \ {k}]
  BY DEF Fetch
<1>3. /\ saved' \in [there : BOOLEAN, keys : SUBSET Keys]
      /\ saved'.there = saved.there /\ saved'.keys = saved.keys \ {k}
  BY <1>1, <1>2 DEF KeyTypes
<1>4. KeyTypes'
  BY <1>1, <1>2, <1>3 DEF KeyTypes
<1>5. Holding' => Holding
  BY <1>1, <1>3 DEF Holding
<1>6. saved'.there /\ ~unsaved' => private' \subseteq saved'.keys
  BY <1>1, <1>2, <1>3 DEF BackedInv
<1>7. ASSUME NEW t \in TopUps, Flies(topUp[t])
      PROVE  /\ Holding' => topUp[t].batch \subseteq private'
             /\ topUp[t].batch \cap pool' = {}
  BY <1>2, <1>5, <1>7 DEF BackedInv
<1>8. Holding' => pool' \subseteq private'
  BY <1>2, <1>5 DEF BackedInv
<1> QED BY <1>1, <1>4, <1>6, <1>7, <1>8 DEF BackedInv, Flies

LEMMA AbandonedCalls ==
  ASSUME KeyTypes, topUp' = Abandoned
  PROVE  /\ topUp' \in [TopUps -> TopUpCall]
         /\ \A t \in TopUps : Flies(topUp'[t]) => Flies(topUp[t]) /\ topUp'[t].batch = topUp[t].batch
         /\ \A t \in TopUps : topUp'[t].pc = "checked" => topUp[t].pc = "checked"
<1>1. ASSUME NEW t \in TopUps
      PROVE  /\ topUp'[t] \in TopUpCall
             /\ topUp'[t].pc # "idle" => /\ Flies(topUp[t]) /\ topUp'[t].batch = topUp[t].batch
                                         /\ topUp'[t].pc = topUp[t].pc
  <2>1. topUp[t] \in TopUpCall
    BY DEF KeyTypes
  <2>2. CASE InFlight(t)
    <3> DEFINE c == [topUp[t] EXCEPT !.adrift = TRUE]
    <3>1. c \in TopUpCall /\ c.pc = topUp[t].pc /\ c.batch = topUp[t].batch
      BY <2>1 DEF TopUpCall
    <3>2. topUp'[t] = c
      BY <2>2 DEF Abandoned
    <3> HIDE DEF c
    <3> QED BY <2>2, <3>1, <3>2 DEF InFlight, Flies
  <2>3. CASE ~ InFlight(t)
    BY <2>3, QuietIsACall DEF Abandoned
  <2> QED BY <2>2, <2>3
<1>2. topUp' \in [TopUps -> TopUpCall]
  BY <1>1 DEF Abandoned
<1> QED BY <1>1, <1>2 DEF Flies

LEMMA CrashKeepsBacked == ASSUME BackedInv, CrashPool PROVE BackedInv'
<1>1. /\ UNCHANGED <<pool, saved>> /\ private' = saved.keys /\ ~ ready'
      /\ orphans' = (orphans \/ (saved.there /\ unsaved)) /\ KeyTypes /\ topUp' = Abandoned
  BY DEF CrashPool, BackedInv
<1>2. KeyTypes'
  BY <1>1, AbandonedCalls DEF KeyTypes
<1>3. Holding' => Holding /\ saved.there /\ ~unsaved
  BY <1>1 DEF Holding
<1>4. Holding' => private \subseteq private'
  BY <1>1, <1>3 DEF BackedInv
<1>5. Holding' => pool' \subseteq private'
  BY <1>1, <1>3, <1>4 DEF BackedInv
<1>6. ASSUME NEW t \in TopUps, Flies(topUp'[t])
      PROVE  /\ Holding' => topUp'[t].batch \subseteq private'
             /\ topUp'[t].batch \cap pool' = {}
             /\ \A u \in TopUps \ {t} : Flies(topUp'[u]) => topUp'[t].batch \cap topUp'[u].batch = {}
  <2>1. Flies(topUp[t]) /\ topUp'[t].batch = topUp[t].batch
    BY <1>1, <1>6, AbandonedCalls
  <2>2. ASSUME NEW u \in TopUps \ {t}, Flies(topUp'[u])
        PROVE  topUp'[t].batch \cap topUp'[u].batch = {}
    <3>1. Flies(topUp[u]) /\ topUp'[u].batch = topUp[u].batch
      BY <1>1, <2>2, AbandonedCalls
    <3> QED BY <2>1, <3>1 DEF BackedInv
  <2> QED BY <1>1, <1>3, <1>4, <2>1, <2>2 DEF BackedInv
<1> QED BY <1>1, <1>2, <1>5, <1>6 DEF BackedInv, Flies

LEMMA ReadyKeepsBacked == ASSUME BackedInv, Ready \/ Reset PROVE BackedInv'
<1>1. CASE Reset
  <2>1. /\ UNCHANGED <<pool, topUp>> /\ private' = {} /\ saved' = NoSnapshot /\ ~ ready' /\ KeyTypes
    BY <1>1 DEF Reset, BackedInv
  <2>2. NoSnapshot \in [there : BOOLEAN, keys : SUBSET Keys] /\ ~ NoSnapshot.there
    BY DEF NoSnapshot
  <2>3. KeyTypes' /\ ~ Holding'
    BY <2>1, <2>2 DEF KeyTypes, Holding
  <2> QED BY <2>1, <2>2, <2>3 DEF BackedInv, Flies
<1>2. CASE Ready
  <2>1. UNCHANGED <<private, saved, topUp, unsaved>> /\ KeyTypes /\ ~ ready
    BY <1>2 DEF Ready, BackedInv
  <2>2. PICK wiped \in Wipes :
          /\ pool' = IF wiped THEN {} ELSE pool
          /\ orphans' = (orphans \/ (~saved.there /\ (~wiped \/ \E t \in TopUps : InFlight(t))))
    BY <1>2 DEF Ready
  <2>3. pool' \subseteq pool
    BY <2>2
  <2>4. KeyTypes'
    BY <2>1, <2>3 DEF KeyTypes
  <2>5. CASE saved.there
    <3>1. ~ wiped
      BY <2>5 DEF Wipes
    <3>2. pool' = pool
      BY <2>2, <3>1
    <3>3. Holding' => Holding
      BY <2>1, <2>2, <2>5 DEF Holding
    <3> QED BY <2>1, <2>4, <3>2, <3>3 DEF BackedInv, Flies
  <2>6. CASE ~ saved.there
    <3>1. Holding' => pool' = {} /\ \A t \in TopUps : ~ Flies(topUp[t])
      BY <2>1, <2>2, <2>6 DEF Holding, InFlight, Flies
    <3>2. saved'.there => private' \subseteq saved'.keys
      BY <2>1, <2>6
    <3> QED BY <2>1, <2>3, <2>4, <3>1, <3>2 DEF BackedInv, Flies
  <2> QED BY <2>5, <2>6
<1> QED BY <1>1, <1>2

LEMMA BackedStep == BackedInv /\ [KeyPoolNext]_keyVars => BackedInv'
<1> SUFFICES ASSUME BackedInv, [KeyPoolNext]_keyVars PROVE BackedInv'
  OBVIOUS
<1>1. CASE UNCHANGED keyVars
  BY <1>1 DEF keyVars, BackedInv, KeyTypes, Holding, Flies
<1>2. ASSUME NEW t \in TopUps, Tick(t) \/ CallStep(t) \/ CallFails(t) PROVE BackedInv'
  BY <1>2, TicksKeepBacked, CheckKeepsBacked, InsertKeepsBacked DEF CallStep
<1>3. CASE Fetch \/ CrashPool \/ Reset \/ Ready
  BY <1>3, FetchKeepsBacked, CrashKeepsBacked, ReadyKeepsBacked
<1> QED BY <1>1, <1>2, <1>3 DEF KeyPoolNext

-----------------------------------------------------------------------------
\* The cap

\* What one call does when it has not checked afterwards, and puts no row in the pool.
LEMMA CapStays ==
  ASSUME CapInv, KeyTypes', pool' \subseteq pool, overlapped => overlapped',
         \A t \in TopUps : topUp'[t].pc = "checked" =>
           topUp[t].pc = "checked" /\ topUp'[t].batch = topUp[t].batch
  PROVE  CapInv'
<1> SUFFICES ASSUME ~ overlapped'
             PROVE  /\ Cardinality(pool') <= Cap
                    /\ \A t \in TopUps : topUp'[t].pc = "checked" =>
                         /\ Cardinality(pool') + Cardinality(topUp'[t].batch) <= Cap
                         /\ \A u \in TopUps \ {t} : topUp'[u].pc # "checked"
  BY DEF CapInv
<1>1. /\ Cardinality(pool) \in Nat /\ Cardinality(pool') \in Nat
      /\ Cardinality(pool') <= Cardinality(pool)
  <2>1. pool \subseteq Keys
    BY DEF CapInv, KeyTypes
  <2> QED BY <2>1, KeysAreFinite, FS_Subset
<1>2. Cardinality(pool') <= Cap
  BY <1>1, KeyPoolAssumption DEF CapInv
<1>3. ASSUME NEW t \in TopUps, topUp'[t].pc = "checked"
      PROVE  /\ Cardinality(pool') + Cardinality(topUp'[t].batch) <= Cap
             /\ \A u \in TopUps \ {t} : topUp'[u].pc # "checked"
  <2>1. /\ topUp[t].pc = "checked" /\ topUp'[t].batch = topUp[t].batch
        /\ Cardinality(pool) + Cardinality(topUp[t].batch) <= Cap
        /\ \A u \in TopUps \ {t} : topUp[u].pc # "checked"
    BY <1>3 DEF CapInv
  <2>2. Cardinality(topUp[t].batch) \in Nat
    <3>1. topUp[t].batch \subseteq Keys
      BY DEF CapInv, KeyTypes, TopUpCall
    <3> QED BY <3>1, KeysAreFinite
  <2> QED BY <1>1, <2>1, <2>2, KeyPoolAssumption
<1> QED BY <1>2, <1>3

LEMMA CheckKeepsCap ==
  ASSUME CapInv, KeyTypes', NEW t \in TopUps, PublishCheck(t) PROVE CapInv'
<1>1. /\ KeyTypes /\ topUp[t] \in TopUpCall /\ UNCHANGED pool
      /\ overlapped' = (overlapped \/ \E u \in TopUps \ {t} : topUp[u].pc = "checked")
  BY DEF CapInv, KeyTypes, PublishCheck
<1>2. CASE Fits(t)
  <2> DEFINE c == [topUp[t] EXCEPT !.pc = "checked", !.count = Cardinality(pool)]
  <2>1. c.pc = "checked" /\ c.batch = topUp[t].batch
    BY <1>1 DEF TopUpCall
  <2>2. topUp' = [topUp EXCEPT ![t] = c]
    BY <1>2 DEF PublishCheck
  <2> HIDE DEF c
  <2>3. topUp'[t] = c /\ \A u \in TopUps \ {t} : topUp'[u] = topUp[u]
    BY <1>1, <2>2 DEF KeyTypes
  <2>4. Cardinality(pool) + Cardinality(topUp[t].batch) <= Cap
    BY <1>2 DEF Fits
  <2> QED BY <1>1, <2>1, <2>3, <2>4 DEF CapInv
<1>3. CASE ~ Fits(t)
  <2>1. topUp' = [topUp EXCEPT ![t] = Quiet]
    BY <1>3 DEF PublishCheck
  <2>2. \A u \in TopUps : topUp'[u].pc = "checked" => topUp'[u] = topUp[u]
    BY <1>1, <2>1, QuietIsACall DEF KeyTypes
  <2> QED BY <1>1, <2>2, CapStays
<1> QED BY <1>2, <1>3

LEMMA InsertKeepsCap ==
  ASSUME CapInv, KeyTypes', NEW t \in TopUps, PublishInsert(t) PROVE CapInv'
<1>1. /\ KeyTypes /\ topUp[t].pc = "checked" /\ UNCHANGED overlapped
      /\ pool' = pool \cup topUp[t].batch
      /\ \A u \in TopUps \ {t} : topUp'[u] = topUp[u]
  BY DEF CapInv, KeyTypes, PublishInsert
<1>2. topUp'[t].pc # "checked"
  <2>1. PICK size : topUp'[t] =
          IF topUp[t].adrift THEN Quiet ELSE [topUp[t] EXCEPT !.pc = "done", !.count = size]
    BY <1>1 DEF PublishInsert, KeyTypes
  <2>2. [topUp[t] EXCEPT !.pc = "done", !.count = size].pc = "done"
    BY <1>1 DEF KeyTypes, TopUpCall
  <2> QED BY <2>1, <2>2, QuietIsACall
<1>3. CASE ~ overlapped
  <2>1. /\ Cardinality(pool) + Cardinality(topUp[t].batch) <= Cap
        /\ \A u \in TopUps \ {t} : topUp[u].pc # "checked"
    BY <1>1, <1>3 DEF CapInv
  <2>2. pool \subseteq Keys /\ topUp[t].batch \subseteq Keys
    BY <1>1 DEF KeyTypes, TopUpCall
  <2>3. PICK S, T : S = pool /\ T = topUp[t].batch
    OBVIOUS
  <2>4. IsFiniteSet(S) /\ IsFiniteSet(T) /\ Cardinality(S) \in Nat /\ Cardinality(T) \in Nat
    BY <2>2, <2>3, KeysAreFinite
  <2>5. Cardinality(S \cup T) <= Cardinality(S) + Cardinality(T) /\ Cardinality(S \cup T) \in Nat
    <3>1. IsFiniteSet(S \cup T) /\ IsFiniteSet(S \cap T)
      BY <2>4, FS_Union, FS_Intersection
    <3>2. /\ Cardinality(S \cup T) = Cardinality(S) + Cardinality(T) - Cardinality(S \cap T)
          /\ Cardinality(S \cap T) \in Nat /\ Cardinality(S \cup T) \in Nat
      BY <2>4, <3>1, FS_Union, FS_CardinalityType
    <3> QED BY <2>4, <3>2
  <2>6. Cardinality(pool') <= Cap
    BY <1>1, <2>1, <2>3, <2>4, <2>5, KeyPoolAssumption
  <2>7. \A u \in TopUps : topUp'[u].pc # "checked"
    BY <1>1, <1>2, <2>1
  <2> QED BY <2>6, <2>7 DEF CapInv
<1>4. CASE overlapped
  BY <1>1, <1>4 DEF CapInv
<1> QED BY <1>3, <1>4

LEMMA CapStep == CapInv /\ KeyTypes' /\ [KeyPoolNext]_keyVars => CapInv'
<1> SUFFICES ASSUME CapInv, KeyTypes', [KeyPoolNext]_keyVars PROVE CapInv'
  OBVIOUS
<1>0. KeyTypes
  BY DEF CapInv
<1>1. CASE UNCHANGED keyVars \/ Fetch \/ Ready \/ Reset
  <2>1. UNCHANGED <<topUp, overlapped>> /\ pool' \subseteq pool
    BY <1>1 DEF keyVars, Fetch, Ready, Reset
  <2> QED BY <2>1, CapStays
<1>2. CASE CrashPool
  <2>1. UNCHANGED <<pool, overlapped>> /\ topUp' = Abandoned
    BY <1>2 DEF CrashPool
  <2>2. \A t \in TopUps : topUp'[t].pc = "checked" =>
          topUp[t].pc = "checked" /\ topUp'[t].batch = topUp[t].batch
    BY <1>0, <2>1, AbandonedCalls DEF Flies
  <2> QED BY <2>1, <2>2, CapStays
<1>3. ASSUME NEW t \in TopUps,
             Tick(t) \/ ServerCount(t) \/ Counted(t) \/ BatchPublished(t) \/ CallFails(t)
      PROVE  CapInv'
  <2>1. UNCHANGED <<pool, overlapped>> /\ topUp[t] \in TopUpCall
    BY <1>0, <1>3 DEF Tick, ServerCount, Counted, BatchPublished, CallFails, KeyTypes
  <2>2. PICK c : /\ topUp' = [topUp EXCEPT ![t] = c]
                 /\ c.pc = "checked" => topUp[t].pc = "checked" /\ c.batch = topUp[t].batch
    <3>1. ASSUME NEW size, PublishBatch(t, size)
          PROVE  \E c : topUp' = [topUp EXCEPT ![t] = c] /\ c.pc # "checked"
      BY <1>0, <3>1, BatchIsUnused
    <3>2. ASSUME topUp' = [topUp EXCEPT ![t] = Quiet]
          PROVE  \E c : topUp' = [topUp EXCEPT ![t] = c] /\ c.pc # "checked"
      BY <3>2, QuietIsACall
    <3>3. CASE Tick(t)
      <4> DEFINE n == [Quiet EXCEPT !.pc = "asked"]
      <4>1. n.pc = "asked"
        BY QuietIsACall DEF TopUpCall
      <4>2. topUp' = [topUp EXCEPT ![t] = n] \/ PublishBatch(t, known.size)
        BY <3>3 DEF Tick
      <4> HIDE DEF n
      <4> QED BY <3>1, <4>1, <4>2
    <3>4. CASE ServerCount(t)
      <4> DEFINE n == [topUp[t] EXCEPT !.pc = "counted", !.count = Cardinality(pool)]
      <4>1. n.pc = "counted"
        BY <2>1 DEF TopUpCall
      <4>2. topUp' = [topUp EXCEPT ![t] = n] \/ topUp' = [topUp EXCEPT ![t] = Quiet]
        BY <3>4 DEF ServerCount
      <4> HIDE DEF n
      <4> QED BY <3>2, <4>1, <4>2
    <3>5. CASE Counted(t) \/ BatchPublished(t)
      BY <3>1, <3>2, <3>5 DEF Counted, Proceed, BatchPublished, Stop
    <3>6. CASE CallFails(t)
      <4> DEFINE n == [topUp[t] EXCEPT !.adrift = TRUE]
      <4>1. n.pc = topUp[t].pc /\ n.batch = topUp[t].batch
        BY <2>1 DEF TopUpCall
      <4>2. topUp' = [topUp EXCEPT ![t] = n] \/ topUp' = [topUp EXCEPT ![t] = Quiet]
        BY <3>6 DEF CallFails
      <4> HIDE DEF n
      <4> QED BY <3>2, <4>1, <4>2
    <3> QED BY <1>3, <3>3, <3>4, <3>5, <3>6
  <2>3. \A u \in TopUps : topUp'[u].pc = "checked" =>
          topUp[u].pc = "checked" /\ topUp'[u].batch = topUp[u].batch
    BY <1>0, <2>2 DEF KeyTypes
  <2> QED BY <2>1, <2>3, CapStays
<1>4. ASSUME NEW t \in TopUps, PublishCheck(t) \/ PublishInsert(t) PROVE CapInv'
  BY <1>4, CheckKeepsCap, InsertKeepsCap
<1> QED BY <1>1, <1>2, <1>3, <1>4 DEF KeyPoolNext, CallStep

\* What peers can take has its private half on the device, and the pool is within the
\* server's cap, for any number of top-ups at once, of troubles and of KeyPackages
\* (client/index.ts:240-274, 651-673, keys.ts:94-98, 117-157).
THEOREM PoolHolds == KeyPoolSpec => []PoolIsSound
<1>1. BackedInv => PoolIsBacked
  BY DEF BackedInv, Holding, PoolIsBacked
<1>2. CapInv => PoolWithinCap
  BY DEF CapInv, PoolWithinCap
<1>3. BackedInv /\ CapInv => PoolIsSound
  BY <1>1, <1>2 DEF PoolIsSound
<1>4. BackedInv => KeyTypes
  BY DEF BackedInv
<1>5. BackedInv /\ CapInv /\ [KeyPoolNext]_keyVars => (BackedInv /\ CapInv)'
  <2> SUFFICES ASSUME BackedInv, CapInv, [KeyPoolNext]_keyVars PROVE BackedInv' /\ CapInv'
    OBVIOUS
  <2>1. BackedInv'
    BY BackedStep
  <2>2. KeyTypes'
    BY <2>1 DEF BackedInv
  <2> QED BY <2>1, <2>2, CapStep
<1> QED BY PoolStarts, <1>3, <1>5, PTL DEF KeyPoolSpec

\* The types of what BackedInv leaves out; a launch takes no more than all of them.
PoolBounds ==
  /\ known \in [sure : BOOLEAN, size : Nat] /\ ready \in BOOLEAN
  /\ taken \in [all : 0 .. MaxTaken, launch : Nat] /\ taken.launch <= taken.all
  /\ troubles \in 0 .. MaxTroubles

LEMMA BoundsStep ==
  ASSUME KeyTypes, PoolBounds, [KeyPoolNext]_keyVars
  PROVE  PoolBounds'
<1>1. known' \in [sure : BOOLEAN, size : Nat]
  <2>1. \A t \in TopUps : topUp[t].count \in Nat
    BY DEF KeyTypes, TopUpCall
  <2>2. \/ known' \in {known, Unknown}
        \/ \E t \in TopUps : known' = Known(topUp[t].count)
    BY DEF KeyPoolNext, keyVars, CallStep, Tick, ServerCount, PublishCheck, PublishInsert, Counted,
           BatchPublished, CallFails, Fetch, CrashPool, Reset, Ready, Forget
  <2>3. Unknown \in [sure : BOOLEAN, size : Nat]
    BY DEF Unknown
  <2>4. \A c \in Nat : Known(c) \in [sure : BOOLEAN, size : Nat]
    BY DEF Known
  <2> QED BY <2>1, <2>2, <2>3, <2>4 DEF PoolBounds
<1>2. ready' \in BOOLEAN
  <2>1. ready' \in {ready, TRUE, FALSE}
    BY DEF KeyPoolNext, keyVars, CallStep, Tick, ServerCount, PublishCheck, PublishInsert, Counted,
           BatchPublished, CallFails, Fetch, CrashPool, Reset, Ready
  <2> QED BY <2>1 DEF PoolBounds
<1>3. taken' \in [all : 0 .. MaxTaken, launch : Nat] /\ taken'.launch <= taken'.all
  <2>1. \/ UNCHANGED taken
        \/ taken' = [taken EXCEPT !.launch = 0]
        \/ /\ taken.all < MaxTaken
           /\ taken' = [all |-> taken.all + 1, launch |-> taken.launch + 1]
    BY DEF KeyPoolNext, keyVars, CallStep, Tick, ServerCount, PublishCheck, PublishInsert, Counted,
           BatchPublished, CallFails, Fetch, CrashPool, Reset, Ready
  <2> QED BY <2>1, KeyPoolAssumption DEF PoolBounds
<1>4. troubles' \in 0 .. MaxTroubles
  <2>1. UNCHANGED troubles \/ Trouble
    BY DEF KeyPoolNext, keyVars, CallStep, Tick, ServerCount, PublishCheck, PublishInsert, Counted,
           BatchPublished, CallFails, Fetch, CrashPool, Reset, Ready
  <2> QED BY <2>1, KeyPoolAssumption DEF PoolBounds, Trouble
<1> QED BY <1>1, <1>2, <1>3, <1>4 DEF PoolBounds

\* The types of the pool's state: every top-up's batch is of keys there are, and peers
\* take no more in one launch than in all of them (client/index.ts
\* topUpKeyPackagesIfBelow(), keys.ts publish, fetchForAccounts).
THEOREM PoolTypesHold == KeyPoolSpec => []KeyPoolTypeOK
<1>1. KeyTypes /\ PoolBounds => KeyPoolTypeOK
  <2> SUFFICES ASSUME KeyTypes, PoolBounds PROVE KeyPoolTypeOK
    OBVIOUS
  <2>1. \A t \in TopUps :
          /\ topUp[t].pc \in {"idle", "asked", "counted", "publish", "checked", "done"}
          /\ topUp[t].batch \subseteq 1 .. MaxKeys /\ topUp[t].count \in Nat
          /\ topUp[t].adrift \in BOOLEAN
    BY DEF KeyTypes, TopUpCall, Keys
  <2>2. /\ pool \subseteq 1 .. MaxKeys /\ private \subseteq 1 .. MaxKeys
        /\ saved.there \in BOOLEAN /\ saved.keys \subseteq 1 .. MaxKeys
    BY DEF KeyTypes, Keys
  <2>3. /\ known.sure \in BOOLEAN /\ known.size \in Nat /\ ready \in BOOLEAN
        /\ taken.all \in 0 .. MaxTaken /\ taken.launch \in 0 .. MaxTaken
        /\ troubles \in 0 .. MaxTroubles
    BY KeyPoolAssumption DEF PoolBounds
  <2> QED BY <2>1, <2>2, <2>3 DEF KeyPoolTypeOK
<1>2. BackedInv => KeyTypes
  BY DEF BackedInv
<1>3. KeyPoolInit => BackedInv /\ PoolBounds
  BY PoolStarts, KeyPoolAssumption DEF KeyPoolInit, PoolBounds, Unknown
<1>4. BackedInv /\ PoolBounds /\ [KeyPoolNext]_keyVars => (BackedInv /\ PoolBounds)'
  BY <1>2, BackedStep, BoundsStep
<1> QED BY <1>1, <1>2, <1>3, <1>4, PTL DEF KeyPoolSpec

-----------------------------------------------------------------------------
\* The two halves side by side

\* Each half does beside the other what it does alone.
LEMMA HalvesAreLocal ==
  MlsSpec => Spec /\ KeyPoolSpec
<1>1. MlsInit => Init /\ KeyPoolInit
  BY DEF MlsInit
<1>2. [MlsNext]_<<half, vars, keyVars>> => [Next]_vars /\ [KeyPoolNext]_keyVars
  BY DEF MlsNext
<1> QED BY <1>1, <1>2, PTL DEF MlsSpec, Spec, KeyPoolSpec

\* Whatever the group's devices and the pool's do, every device's state has its type, the
\* devices share the server's history, and their cursors, the tree and the pool are as
\* the theorems above say (client/index.ts, mls-auto-publish.ts, routers/mls/).
THEOREM MlsIsSafe ==
  MlsSpec => [](TypesOK /\ OneHistory /\ CursorBacked /\ TreeFollowsRoster /\ PoolIsSound)
<1>1. TypeOK /\ KeyPoolTypeOK => TypesOK
  BY DEF TypesOK
<1> QED BY <1>1, HalvesAreLocal, GroupTypesHold, PoolTypesHold, EnginesShareHistory,
           CursorIsBacked, TreeIsFollowing, PoolHolds, PTL

=============================================================================
