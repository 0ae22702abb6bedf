---------------------------- MODULE ChatDOProofs ----------------------------
(***************************************************************************)
(* Theorems about ChatDO for every set of users, messages and concurrent   *)
(* flushes and every number of sends and faults.                           *)
(*                                                                         *)
(* TypeOK needs to know what a flush has in hand (HandInv).  DenseSerials, *)
(* KvNeverAhead and SentIsDurable follow from SerialInv: whatever the      *)
(* object is about to use as a serial, in memory, in storage, in a query   *)
(* under way or in one its caller gave up on, comes right after a serial   *)
(* that Neon already holds, even when another flush moved the counter.     *)
(*                                                                         *)
(* While flushes do not overlap, LogInv says what lies between acceptance  *)
(* and the rows: an accepted send that has no row is in the stored buffer, *)
(* and a flush has written what lies before its place in the buffer.       *)
(* NoLostSend follows.  OrderInv (rows in acceptance order) and SerialInv  *)
(* map every step to one of DurableLog or to a stutter.  OnceInv adds that *)
(* without faults but one failed call nothing is ever written twice.       *)
(***************************************************************************)
EXTENDS ChatDO, FiniteSetTheorems, TLAPS

InLoop   == {"insert", "inserted", "conflict", "error", "bumping", "bumped"}
AskedMax == {"recover", "recovered"}

\* A flush inside its loop holds an entry, and one that waits for the counter
\* has something to iterate over.
HandInv ==
  \A f \in Flushes :
    /\ flush[f].pc \in InLoop => flush[f].entry \in Msgs
    /\ flush[f].pc \in AskedMax => Batch(f) # << >>

TypeInv == TypeOK /\ HandInv

-----------------------------------------------------------------------------
\* What the helpers return

LEMMA NotFlushingType == NotFlushing \in FlushState
  BY DEF NotFlushing, FlushState, Pcs

LEMMA InsertingType ==
  ASSUME NEW fl \in FlushState, NEW k \in Nat, NEW m \in Msgs, NEW tries \in {0, 1},
         NEW s \in Nat
  PROVE  Inserting(fl, k, m, tries, s) \in FlushState
  BY DEF Inserting, FlushState, Pcs

LEMMA SetPcType ==
  ASSUME NEW fl \in FlushState, NEW p \in Pcs
  PROVE  [fl EXCEPT !.pc = p] \in FlushState
  BY DEF FlushState

\* One flush changes, to a well-typed state.
LEMMA FlushStepType ==
  ASSUME flush \in [Flushes -> FlushState], NEW f \in Flushes, NEW fl \in FlushState,
         flush' = [flush EXCEPT ![f] = fl]
  PROVE  flush' \in [Flushes -> FlushState]
  OBVIOUS

LEMMA AssignType ==
  ASSUME TypeInv, NEW f \in Flushes, flush[f].pc = "inserted"
  PROVE  Assign(f) \in FlushState
<1>1. flush[f] \in FlushState
  BY DEF TypeInv, TypeOK
<1>2. [msg |-> flush[f].entry, serial |-> flush[f].serial] \in AssignedSend
  BY <1>1 DEF TypeInv, HandInv, InLoop, FlushState, AssignedSend
<1>3. Append(flush[f].assigned, [msg |-> flush[f].entry, serial |-> flush[f].serial])
        \in Seq(AssignedSend)
  BY <1>1, <1>2 DEF FlushState
<1>4. QED
  BY <1>1, <1>3 DEF Assign, FlushState

LEMMA BatchType ==
  ASSUME TypeInv, NEW f \in Flushes
  PROVE  Batch(f) \in Seq(Msgs)
  BY DEF TypeInv, TypeOK, FlushState, Batch

LEMMA DetachedType ==
  ASSUME TypeInv, NEW fl \in FlushState
  PROVE  Detached(fl) \in FlushState
  BY DEF TypeInv, TypeOK, FlushState, Detached

LEMMA AssignedType ==
  ASSUME TypeInv, NEW f \in Flushes
  PROVE  Assigned(f) \subseteq AssignedSend
  BY DEF TypeInv, TypeOK, FlushState, Assigned

LEMMA FrameOfType ==
  ASSUME NEW kind \in {"ack", "msg", "push"}, NEW u \in Users, NEW a \in AssignedSend
  PROVE  FrameOf(kind, u, a) \in Frame
  BY DEF FrameOf, Frame, AssignedSend

LEMMA FanoutFramesType ==
  ASSUME TypeInv, NEW f \in Flushes
  PROVE  FanoutFrames(f) \subseteq Frame
<1>1. Acks(f) \subseteq Frame
  <2>1. \A a \in Assigned(f) : FrameOf("ack", Sender[a.msg], a) \in Frame
    BY AssignedType, FrameOfType, ChatAssumption DEF AssignedSend
  <2>2. QED BY <2>1 DEF Acks
<1>2. ToOthers(f, "msg", attached) \subseteq Frame
  <2>1. \A a \in Assigned(f), u \in attached : FrameOf("msg", u, a) \in Frame
    BY AssignedType, FrameOfType DEF TypeInv, TypeOK
  <2>2. QED BY <2>1 DEF ToOthers
<1>3. QED BY <1>1, <1>2 DEF FanoutFrames

LEMMA PushFramesType ==
  ASSUME TypeInv, NEW f \in Flushes
  PROVE  ToOthers(f, "push", Members) \subseteq Frame
<1>1. \A a \in Assigned(f), u \in Members : FrameOf("push", u, a) \in Frame
  BY AssignedType, FrameOfType, ChatAssumption
<1>2. QED BY <1>1 DEF ToOthers

LEMMA ErrFrameType ==
  ASSUME NEW m \in Msgs
  PROVE  ErrFrame(m) \in Frame
  BY ChatAssumption DEF ErrFrame, Frame

LEMMA FaultsType ==
  ASSUME TypeOK
  PROVE  /\ Fail => faults' \in Faults
         /\ Lose => faults' \in Faults
<1>1. faults \in Faults
  BY DEF TypeOK
<1>2. faults.fails + 1 \in Nat /\ faults.lost + 1 \in Nat
  BY <1>1 DEF Faults
<1>3. QED
  BY <1>1, <1>2, Zenon DEF Fail, Lose, Faults

\* Giving up, in a state whose flush f has an entry in hand.
LEMMA GiveUpType ==
  ASSUME TypeInv, NEW f \in Flushes, flush[f].pc \in InLoop, GiveUp(f)
  PROVE  /\ flush' \in [Flushes -> FlushState]
         /\ sent' \subseteq Frame
  BY NotFlushingType, ErrFrameType DEF TypeInv, TypeOK, HandInv, GiveUp

\* HandInv survives a step that changes flush f alone and keeps this.buffer.
LEMMA HandStep ==
  ASSUME TypeInv, NEW f \in Flushes, NEW fl \in FlushState,
         flush' = [flush EXCEPT ![f] = fl], buffer' = buffer,
         fl.pc \in InLoop => fl.entry \in Msgs,
         fl.pc \in AskedMax => (IF fl.aliased THEN buffer ELSE fl.batch) # << >>
  PROVE  HandInv'
<1>1. flush \in [Flushes -> FlushState]
  BY DEF TypeInv, TypeOK
<1>2. ASSUME NEW g \in Flushes
      PROVE  /\ flush'[g].pc \in InLoop => flush'[g].entry \in Msgs
             /\ flush'[g].pc \in AskedMax => Batch(g)' # << >>
  <2>1. CASE g = f
    <3>1. flush'[g] = fl
      BY <2>1, <1>1
    <3>2. QED BY <3>1 DEF Batch
  <2>2. CASE g # f
    <3>1. flush'[g] = flush[g]
      BY <2>2, <1>1
    <3>2. Batch(g)' = Batch(g)
      BY <3>1 DEF Batch
    <3>3. QED BY <3>1, <3>2 DEF TypeInv, HandInv
  <2>3. QED BY <2>1, <2>2
<1>3. QED BY <1>2 DEF HandInv

\* The same for the two states a finished or a new request leaves behind.
LEMMA HandIdle ==
  ASSUME TypeInv, NEW f \in Flushes, flush' = [flush EXCEPT ![f] = NotFlushing],
         buffer' = buffer
  PROVE  HandInv'
<1>1. NotFlushing.pc \notin InLoop /\ NotFlushing.pc \notin AskedMax
  BY DEF NotFlushing, InLoop, AskedMax
<1>2. QED BY <1>1, NotFlushingType, HandStep

LEMMA HandInserting ==
  ASSUME TypeInv, NEW f \in Flushes, NEW fl \in FlushState, NEW k \in Nat,
         NEW m \in Msgs, NEW tries \in {0, 1}, NEW s \in Nat,
         flush' = [flush EXCEPT ![f] = Inserting(fl, k, m, tries, s)], buffer' = buffer
  PROVE  HandInv' /\ flush' \in [Flushes -> FlushState]
<1>1. Inserting(fl, k, m, tries, s) \in FlushState
  BY InsertingType
<1>2. /\ Inserting(fl, k, m, tries, s).pc = "insert"
      /\ Inserting(fl, k, m, tries, s).entry = m
  BY DEF Inserting, FlushState
<1>3. QED BY <1>1, <1>2, HandStep DEF InLoop, AskedMax, TypeInv, TypeOK

LEMMA HandSetPc ==
  ASSUME TypeInv, NEW f \in Flushes, NEW p \in Pcs, SetPc(f, p), buffer' = buffer,
         flush[f].pc \in InLoop, p \notin AskedMax
  PROVE  HandInv' /\ flush' \in [Flushes -> FlushState]
<1>1. flush[f] \in FlushState
  BY DEF TypeInv, TypeOK
<1>2. PICK fl : fl = [flush[f] EXCEPT !.pc = p]
  OBVIOUS
<1>3. fl \in FlushState /\ fl.pc = p /\ fl.entry = flush[f].entry
  BY <1>1, <1>2, SetPcType DEF FlushState
<1>4. flush' = [flush EXCEPT ![f] = fl]
  BY <1>2 DEF SetPc
<1>5. flush[f].entry \in Msgs
  BY DEF TypeInv, HandInv
<1>6. QED BY <1>3, <1>4, <1>5, HandStep DEF TypeInv, TypeOK

-----------------------------------------------------------------------------
\* Every step keeps TypeInv

LEMMA TypeStep ==
  ASSUME TypeInv, [Next]_vars
  PROVE  TypeInv'
<1>. USE DEF memory, storage, outside, history
<1>ty. TypeOK /\ HandInv
  BY DEF TypeInv
<1>1. ASSUME NEW u \in Users, AttachInbox(u) \/ DetachInbox(u)
      PROVE  TypeInv'
  <2>1. faults \in Faults /\ attached \subseteq Users
    BY <1>ty DEF TypeOK
  <2>2. faults' \in Faults /\ attached' \subseteq Users
    <3>1. CASE AttachInbox(u)
      BY <2>1, <3>1 DEF AttachInbox, Faults
    <3>2. CASE DetachInbox(u)
      BY <2>1, <3>2 DEF DetachInbox, Faults
    <3> QED BY <1>1, <3>1, <3>2
  <2>3. UNCHANGED <<memory, storedBuffer, storedNext, outside, accepted, sent>>
    BY <1>1 DEF AttachInbox, DetachInbox
  <2>4. TypeOK'
    BY <2>2, <2>3, <1>ty DEF TypeOK
  <2>5. HandInv'
    BY <2>3, <1>ty DEF HandInv, Batch
  <2>6. QED BY <2>4, <2>5 DEF TypeInv
<1>2. ASSUME NEW m \in Msgs, AcceptSend(m)
      PROVE  TypeInv'
  <2>1. Held \in Seq(Msgs)
    BY <1>ty DEF TypeOK, Held
  <2>2. BufferWith(m) \in Seq(Msgs) /\ BufferWith(m) # << >>
    <3>1. Append(Held, m) \in Seq(Msgs) /\ Len(Append(Held, m)) = Len(Held) + 1
      BY <2>1
    <3>2. Len(Held) \in Nat /\ Len(<< >>) = 0
      BY <2>1
    <3>3. QED BY <3>1, <3>2 DEF BufferWith
  <2>3. TypeOK'
    BY <1>2, <1>ty, <2>2 DEF TypeOK, AcceptSend, StoredWith
  <2>4. HandInv'
    BY <1>2, <1>ty, <2>2 DEF HandInv, Batch, AcceptSend
  <2>5. QED BY <2>3, <2>4 DEF TypeInv
<1>3. ASSUME NEW f \in Flushes, FlushStep(f)
      PROVE  TypeInv'
  <2>. USE DEF InLoop, AskedMax
  <2>fl. flush \in [Flushes -> FlushState] /\ flush[f] \in FlushState
    BY <1>ty DEF TypeOK
  <2>in. /\ flush[f].pos \in Nat /\ flush[f].serial \in Nat /\ flush[f].max \in Nat
         /\ flush[f].serial + 1 \in Nat /\ flush[f].max + 1 \in Nat /\ flush[f].pos + 1 \in Nat
    BY <2>fl DEF FlushState
  <2>1. CASE FlushTimer(f)
    <3>. DEFINE started == [NotFlushing EXCEPT !.aliased = TRUE]
                known   == IF nextSerial # 0 THEN nextSerial ELSE storedNext
    <3>1. started \in FlushState
      BY NotFlushingType DEF FlushState
    <3>2. known \in Nat
      BY <1>ty DEF TypeOK
    <3>3. CASE buffer = << >> /\ UNCHANGED <<flush, nextSerial>>
      <4>1. TypeOK' BY <2>1, <3>3, <1>ty DEF FlushTimer, TypeOK
      <4>2. HandInv' BY <2>1, <3>3, <1>ty DEF FlushTimer, HandInv, Batch
      <4>3. QED BY <4>1, <4>2 DEF TypeInv
    <3>4. CASE /\ buffer # << >>
               /\ known # 0
               /\ nextSerial' = known
               /\ flush' = [flush EXCEPT ![f] = Inserting(started, 1, buffer[1], 0, known)]
      <4>1. buffer[1] \in Msgs
        BY <3>4, <1>ty DEF TypeOK
      <4>2. HandInv' /\ flush' \in [Flushes -> FlushState]
        BY <2>1, <3>1, <3>2, <3>4, <4>1, HandInserting DEF FlushTimer
      <4>3. TypeOK' BY <2>1, <3>2, <3>4, <4>2, <1>ty DEF FlushTimer, TypeOK
      <4>4. QED BY <4>2, <4>3 DEF TypeInv
    <3>5. CASE /\ buffer # << >>
               /\ flush' = [flush EXCEPT ![f] = [started EXCEPT !.pc = "recover"]]
               /\ UNCHANGED nextSerial
      <4>1. [started EXCEPT !.pc = "recover"] \in FlushState
        BY <3>1, SetPcType DEF Pcs
      <4>2. /\ [started EXCEPT !.pc = "recover"].pc = "recover"
            /\ [started EXCEPT !.pc = "recover"].aliased = TRUE
        BY DEF NotFlushing
      <4>3. HandInv'
        BY <2>1, <3>5, <4>1, <4>2, HandStep DEF FlushTimer
      <4>4. TypeOK' BY <2>1, <3>5, <4>1, <2>fl, <1>ty DEF FlushTimer, TypeOK
      <4>5. QED BY <4>3, <4>4 DEF TypeInv
    <3>6. QED BY <2>1, <3>3, <3>4, <3>5 DEF FlushTimer
  <2>2. CASE NeonMax(f)
    <3>1. PICK n \in {0} \cup {r.serial : r \in rows} :
            flush' = [flush EXCEPT
              ![f].pc = IF @ = "recover" THEN "recovered" ELSE "bumped",
              ![f].max = n]
      BY <2>2 DEF NeonMax
    <3>2. n \in Nat
      BY <3>1, <1>ty DEF TypeOK, Row
    <3>3. PICK fl : fl = [flush[f] EXCEPT
            !.pc = IF @ = "recover" THEN "recovered" ELSE "bumped", !.max = n]
      OBVIOUS
    <3>4. flush' = [flush EXCEPT ![f] = fl]
      BY <3>1, <3>3, <2>fl
    <3>5. /\ fl \in FlushState
          /\ fl.entry = flush[f].entry /\ fl.aliased = flush[f].aliased
          /\ fl.batch = flush[f].batch
          /\ fl.pc = IF flush[f].pc = "recover" THEN "recovered" ELSE "bumped"
      BY <3>2, <3>3, <2>fl DEF FlushState, Pcs
    <3>6. HandInv'
      BY <2>2, <3>4, <3>5, <1>ty, HandStep DEF NeonMax, HandInv, Batch
    <3>7. TypeOK'
      BY <2>2, <3>4, <3>5, <2>fl, <1>ty DEF NeonMax, TypeOK
    <3>8. QED BY <3>6, <3>7 DEF TypeInv
  <2>3. CASE Recovered(f)
    <3>1. Batch(f) \in Seq(Msgs) /\ Batch(f) # << >>
      BY <2>3, <1>ty, BatchType DEF Recovered, HandInv
    <3>2. Batch(f)[1] \in Msgs
      BY <3>1
    <3>3. HandInv' /\ flush' \in [Flushes -> FlushState]
      BY <2>3, <2>fl, <2>in, <3>2, HandInserting DEF Recovered
    <3>4. TypeOK'
      BY <2>3, <2>in, <3>3, <1>ty DEF Recovered, TypeOK
    <3>5. QED BY <3>3, <3>4 DEF TypeInv
  <2>4. CASE NeonInsert(f)
    <3>1. PICK at \in {now, now + 1}, outcome \in {"inserted", "conflict", "error"} :
            /\ InsertRow(flush[f].serial, flush[f].entry, at, outcome)
            /\ SetPc(f, outcome)
      BY <2>4 DEF NeonInsert
    <3>2. at \in Nat
      BY <3>1, <1>ty DEF TypeOK
    <3>3. flush[f].entry \in Msgs
      BY <2>4, <1>ty DEF NeonInsert, HandInv
    <3>4. rows' \subseteq Row /\ now' \in Nat
      BY <3>1, <3>2, <3>3, <2>in, <1>ty DEF InsertRow, Row, TypeOK
    <3>5. HandInv' /\ flush' \in [Flushes -> FlushState]
      BY <2>4, <3>1, HandSetPc DEF NeonInsert, Pcs
    <3>6. TypeOK'
      BY <2>4, <3>4, <3>5, <1>ty DEF NeonInsert, TypeOK
    <3>7. QED BY <3>5, <3>6 DEF TypeInv
  <2>5. CASE InsertThrew(f)
    <3>1. flush[f].entry \in Msgs
      BY <2>5, <1>ty DEF InsertThrew, HandInv
    <3>2. CASE /\ flush' = [flush EXCEPT ![f] = Inserting(@, @.pos, @.entry, 1, RetrySerial)]
               /\ UNCHANGED sent
      <4>1. HandInv' /\ flush' \in [Flushes -> FlushState]
        BY <2>5, <3>1, <3>2, <2>fl, <2>in, <1>ty, HandInserting
           DEF InsertThrew, RetrySerial, TypeOK
      <4>2. TypeOK' BY <2>5, <3>2, <4>1, <1>ty DEF InsertThrew, TypeOK
      <4>3. QED BY <4>1, <4>2 DEF TypeInv
    <3>3. CASE GiveUp(f)
      <4>1. HandInv' BY <2>5, <3>3, HandIdle DEF InsertThrew, GiveUp
      <4>2. TypeOK' BY <2>5, <3>3, <1>ty, GiveUpType DEF InsertThrew, TypeOK
      <4>3. QED BY <4>1, <4>2 DEF TypeInv
    <3>4. QED BY <2>5, <3>2, <3>3 DEF InsertThrew
  <2>6. CASE InsertConflict(f)
    <3>1. HandInv' /\ flush' \in [Flushes -> FlushState]
      BY <2>6, HandSetPc DEF InsertConflict, Pcs
    <3>2. TypeOK' BY <2>6, <3>1, <1>ty DEF InsertConflict, TypeOK
    <3>3. QED BY <3>1, <3>2 DEF TypeInv
  <2>7. CASE Bumped(f)
    <3>1. flush[f].entry \in Msgs
      BY <2>7, <1>ty DEF Bumped, HandInv
    <3>2. CASE /\ flush' = [flush EXCEPT ![f] = Inserting(@, @.pos, @.entry, 1, @.max + 1)]
               /\ UNCHANGED sent
      <4>1. HandInv' /\ flush' \in [Flushes -> FlushState]
        BY <2>7, <3>1, <3>2, <2>fl, <2>in, HandInserting DEF Bumped
      <4>2. TypeOK' BY <2>7, <2>in, <3>2, <4>1, <1>ty DEF Bumped, TypeOK
      <4>3. QED BY <4>1, <4>2 DEF TypeInv
    <3>3. CASE GiveUp(f)
      <4>1. HandInv' BY <2>7, <3>3, HandIdle DEF Bumped, GiveUp
      <4>2. TypeOK' BY <2>7, <2>in, <3>3, <1>ty, GiveUpType DEF Bumped, TypeOK
      <4>3. QED BY <4>1, <4>2 DEF TypeInv
    <3>4. QED BY <2>7, <3>2, <3>3 DEF Bumped
  <2>8. CASE InsertedMore(f)
    <3>1. Assign(f) \in FlushState
      BY <2>8, AssignType DEF InsertedMore
    <3>2. Batch(f)[flush[f].pos + 1] \in Msgs
      BY <2>8, <2>in, BatchType DEF InsertedMore
    <3>3. HandInv' /\ flush' \in [Flushes -> FlushState]
      BY <2>8, <2>in, <3>1, <3>2, HandInserting DEF InsertedMore
    <3>4. TypeOK' BY <2>8, <2>in, <3>3, <1>ty DEF InsertedMore, TypeOK
    <3>5. QED BY <3>3, <3>4 DEF TypeInv
  <2>9. CASE InsertedLast(f)
    <3>1. Assign(f) \in FlushState
      BY <2>9, AssignType DEF InsertedLast
    <3>2. [Assign(f) EXCEPT !.pc = "fanout"] \in FlushState
      BY <3>1, SetPcType DEF Pcs
    <3>3. flush' \in [Flushes -> FlushState]
      BY <2>9, <2>fl, <3>2, DetachedType DEF InsertedLast
    <3>b. buffer' \in Seq(Msgs) /\ storedBuffer' \in Seq(Msgs)
      BY <2>9 DEF InsertedLast, NewArray
    <3>k. kvPending' \subseteq Nat
      BY <2>9, <2>in, <1>ty DEF InsertedLast, LastServed, TypeOK
    <3>4. TypeOK'
      BY <2>9, <2>in, <3>3, <3>b, <3>k, <1>ty DEF InsertedLast, TypeOK
    <3>5. ASSUME NEW g \in Flushes
          PROVE  /\ flush'[g].pc \in InLoop => flush'[g].entry \in Msgs
                 /\ flush'[g].pc \in AskedMax => Batch(g)' # << >>
      <4>1. CASE g = f
        <5>1. flush'[g] = [Assign(f) EXCEPT !.pc = "fanout"]
          BY <2>9, <4>1 DEF InsertedLast
        <5>2. flush'[g].pc = "fanout"
          BY <3>1, <5>1 DEF FlushState
        <5>3. QED BY <5>2
      <4>2. CASE g # f
        <5>1. flush'[g] = Detached(flush[g]) /\ flush[g] \in FlushState
          BY <2>9, <4>2, <2>fl DEF InsertedLast
        <5>2. flush'[g].pc = flush[g].pc /\ flush'[g].entry = flush[g].entry
          BY <5>1 DEF Detached, FlushState
        <5>3. Batch(g)' = Batch(g)
          BY <5>1 DEF Batch, Detached, FlushState
        <5>4. QED BY <5>2, <5>3, <1>ty DEF HandInv
      <4>3. QED BY <4>1, <4>2
    <3>6. HandInv' BY <3>5 DEF HandInv
    <3>7. QED BY <3>4, <3>6 DEF TypeInv
  <2>10. CASE Fanout(f)
    <3>1. sent' \subseteq Frame
      BY <2>10, <1>ty, FanoutFramesType DEF Fanout, TypeOK
    <3>2. PICK fl : fl = [flush[f] EXCEPT !.pc = "push"]
      OBVIOUS
    <3>t. fl \in FlushState /\ fl.pc = "push"
      <4>1. "push" \in Pcs
        BY DEF Pcs
      <4>2. QED BY <3>2, <4>1, <2>fl DEF FlushState
    <3>3. fl \in FlushState /\ fl.pc = "push" /\ flush' = [flush EXCEPT ![f] = fl]
      BY <2>10, <3>2, <3>t DEF Fanout, SetPc
    <3>4. HandInv' BY <2>10, <3>3, HandStep DEF Fanout
    <3>5. TypeOK' BY <2>10, <3>1, <3>3, <2>fl, <1>ty DEF Fanout, TypeOK
    <3>6. QED BY <3>4, <3>5 DEF TypeInv
  <2>11. CASE Push(f)
    <3>1. sent' \subseteq Frame
      BY <2>11, <1>ty, PushFramesType DEF Push, TypeOK
    <3>2. HandInv' BY <2>11, HandIdle DEF Push
    <3>3. TypeOK'
      BY <2>11, <3>1, <2>fl, <1>ty, NotFlushingType DEF Push, TypeOK
    <3>4. QED BY <3>2, <3>3 DEF TypeInv
  <2>12. QED
    BY <1>3, <2>1, <2>2, <2>3, <2>4, <2>5, <2>6, <2>7, <2>8, <2>9, <2>10, <2>11 DEF FlushStep
<1>4. ASSUME NEW f \in Flushes, FlushFault(f)
      PROVE  TypeInv'
  <2>. USE DEF InLoop, AskedMax
  <2>fl. flush \in [Flushes -> FlushState] /\ flush[f] \in FlushState
    BY <1>ty DEF TypeOK
  <2>1. faults' \in Faults
    BY <1>4, <1>ty, FaultsType
       DEF FlushFault, NeonMaxFails, InsertFails, InsertAnswerLost, FanoutFails, PushFails
  <2>2. CASE NeonMaxFails(f) \/ PushFails(f)
    <3>1. HandInv' BY <2>2, HandIdle DEF NeonMaxFails, PushFails
    <3>2. TypeOK'
      BY <2>1, <2>2, <2>fl, <1>ty, NotFlushingType DEF NeonMaxFails, PushFails, TypeOK
    <3>3. QED BY <3>1, <3>2 DEF TypeInv
  <2>3. CASE InsertFails(f)
    <3>1. HandInv' /\ flush' \in [Flushes -> FlushState]
      BY <2>3, HandSetPc DEF InsertFails, Thrown, Pcs
    <3>2. TypeOK' BY <2>1, <2>3, <3>1, <1>ty DEF InsertFails, TypeOK
    <3>3. QED BY <3>1, <3>2 DEF TypeInv
  <2>4. CASE InsertAnswerLost(f)
    <3>1. HandInv' /\ flush' \in [Flushes -> FlushState]
      BY <2>4, HandSetPc DEF InsertAnswerLost, Thrown, Pcs
    <3>2. flush[f].entry \in Msgs /\ flush[f].serial \in Nat
      BY <2>4, <1>ty, <2>fl DEF InsertAnswerLost, HandInv, FlushState
    <3>3. orphans' \subseteq Orphan
      BY <2>4, <3>2, <1>ty DEF InsertAnswerLost, TypeOK, Orphan
    <3>4. TypeOK' BY <2>1, <2>4, <3>1, <3>3, <1>ty DEF InsertAnswerLost, TypeOK
    <3>5. QED BY <3>1, <3>4 DEF TypeInv
  <2>5. CASE FanoutFails(f)
    <3>1. sent' \subseteq Frame
      BY <2>5, <1>ty, FanoutFramesType DEF FanoutFails, TypeOK
    <3>2. HandInv' BY <2>5, HandIdle DEF FanoutFails
    <3>3. TypeOK'
      BY <2>1, <2>5, <3>1, <2>fl, <1>ty, NotFlushingType DEF FanoutFails, TypeOK
    <3>4. QED BY <3>2, <3>3 DEF TypeInv
  <2>6. QED BY <1>4, <2>2, <2>3, <2>4, <2>5 DEF FlushFault
<1>5. ASSUME NEW o \in orphans, NeonOrphan(o)
      PROVE  TypeInv'
  <2>1. PICK at \in {now, now + 1}, outcome \in {"inserted", "conflict", "error"} :
          InsertRow(o.serial, o.msg, at, outcome)
    BY <1>5 DEF NeonOrphan
  <2>2. o.serial \in Nat /\ o.msg \in Msgs /\ at \in Nat
    BY <2>1, <1>ty DEF TypeOK, Orphan
  <2>3. rows' \subseteq Row /\ now' \in Nat
    BY <2>1, <2>2, <1>ty DEF InsertRow, Row, TypeOK
  <2>4. TypeOK' BY <1>5, <2>3, <1>ty DEF NeonOrphan, TypeOK
  <2>5. HandInv' BY <1>5, <1>ty DEF NeonOrphan, HandInv, Batch
  <2>6. QED BY <2>4, <2>5 DEF TypeInv
<1>6. ASSUME NEW v \in kvPending, KvPut(v)
      PROVE  TypeInv'
  <2>1. TypeOK' BY <1>6, <1>ty DEF KvPut, TypeOK
  <2>2. HandInv' BY <1>6, <1>ty DEF KvPut, HandInv, Batch
  <2>3. QED BY <2>1, <2>2 DEF TypeInv
<1>7. CASE Crash
  <2>1. faults' \in Faults
    <3>1. faults \in Faults
      BY <1>ty DEF TypeOK
    <3>2. faults.crashes + 1 \in Nat
      BY <3>1 DEF Faults
    <3>3. QED BY <1>7, <3>1, <3>2, Zenon DEF Crash, Faults
  <2>2. flush' \in [Flushes -> FlushState] /\ \A f \in Flushes : flush'[f].pc = "idle"
    BY <1>7, NotFlushingType DEF Crash, NotFlushing
  <2>3. \A f \in Flushes : flush[f].pc = "insert" =>
          flush[f].entry \in Msgs /\ flush[f].serial \in Nat
    BY <1>ty DEF HandInv, InLoop, TypeOK, FlushState
  <2>4. orphans' \subseteq Orphan
    BY <1>7, <2>3, <1>ty DEF Crash, Orphan, TypeOK
  <2>b. buffer' \in Seq(Msgs)
    BY <1>7 DEF Crash
  <2>5. TypeOK' BY <1>7, <2>1, <2>2, <2>4, <2>b, <1>ty DEF Crash, TypeOK
  <2>6. HandInv' BY <2>2 DEF HandInv, InLoop, AskedMax
  <2>7. QED BY <2>5, <2>6 DEF TypeInv
<1>8. CASE UNCHANGED vars
  BY <1>8, <1>ty DEF vars, TypeInv, TypeOK, HandInv, Batch
<1>9. QED
  BY <1>1, <1>2, <1>3, <1>4, <1>5, <1>6, <1>7, <1>8 DEF Next

LEMMA TypeInit == Init => TypeInv
<1>. SUFFICES ASSUME Init PROVE TypeInv
  OBVIOUS
<1>i. NotFlushing.pc = "idle"
  BY DEF NotFlushing
<1>2. flush \in [Flushes -> FlushState] /\ \A f \in Flushes : flush[f].pc = "idle"
  BY <1>i, NotFlushingType DEF Init
<1>b. buffer \in Seq(Msgs) /\ storedBuffer \in Seq(Msgs) /\ accepted \in Seq(Msgs)
  BY DEF Init
<1>f. faults \in Faults
  BY DEF Init, Faults
<1>3. TypeOK
  BY <1>2, <1>b, <1>f DEF Init, TypeOK
<1>4. HandInv
  BY <1>2 DEF HandInv, InLoop, AskedMax
<1>5. QED BY <1>3, <1>4 DEF TypeInv

LEMMA TypeInvariant == Spec => []TypeInv
  BY TypeInit, TypeStep, PTL DEF Spec

\* The variables keep their types: no flush ever hands out a serial that is not
\* a number, inserts an entry that is not a message, or addresses a frame to
\* something that is not a user (chat.ts flush(), insertWithRetry()).
THEOREM TypeCorrect == Spec => []TypeOK
<1>1. TypeInv => TypeOK
  BY DEF TypeInv
<1>2. QED BY <1>1, TypeInvariant, PTL

-----------------------------------------------------------------------------
\* Serials come one after the other

\* n is 0 or the serial of a row.
ServedHere(n) == n = 0 \/ \E r \in rows : r.serial = n

\* n is a serial that may be used next, or was used already.
Follows(n) == n \in Nat /\ n # 0 /\ ServedHere(n - 1)

RowFor(s, m) == \E r \in rows : r.serial = s /\ r.msg = m

CounterInv ==
  /\ nextSerial # 0 => Follows(nextSerial)
  /\ storedNext # 0 => Follows(storedNext)

FlushOK(fl) ==
  /\ fl.pc \in InLoop => nextSerial # 0
  /\ fl.pc = "insert" => Follows(fl.serial)
  /\ fl.pc = "inserted" => RowFor(fl.serial, fl.entry)
  /\ fl.pc \in {"recovered", "bumped"} => ServedHere(fl.max)
  /\ \A i \in DOMAIN fl.assigned : RowFor(fl.assigned[i].serial, fl.assigned[i].msg)

FlushInv  == \A f \in Flushes : FlushOK(flush[f])
OrphanInv == \A o \in orphans : Follows(o.serial)

SerialInv ==
  /\ CounterInv
  /\ FlushInv
  /\ OrphanInv
  /\ KvNeverAhead
  /\ DenseSerials
  /\ SentIsDurable

\* Rows are never deleted, so what is known of them stays known.
LEMMA RowsGrow ==
  ASSUME rows \subseteq rows'
  PROVE  /\ \A n : ServedHere(n) => ServedHere(n)'
         /\ \A n : Follows(n) => Follows(n)'
         /\ \A s, m : RowFor(s, m) => RowFor(s, m)'
  BY DEF ServedHere, Follows, RowFor

LEMMA Keeps ==
  ASSUME SerialInv, rows \subseteq rows'
  PROVE  /\ UNCHANGED <<nextSerial, storedNext>> => CounterInv'
         /\ orphans' \subseteq orphans => OrphanInv'
         /\ kvPending' \cup {kv'} \subseteq kvPending \cup {kv} => KvNeverAhead'
         /\ sent' = sent => SentIsDurable'
         /\ rows' = rows => DenseSerials'
<1>1. UNCHANGED <<nextSerial, storedNext>> => CounterInv'
  BY RowsGrow DEF SerialInv, CounterInv
<1>2. orphans' \subseteq orphans => OrphanInv'
  BY RowsGrow DEF SerialInv, OrphanInv
<1>3. kvPending' \cup {kv'} \subseteq kvPending \cup {kv} => KvNeverAhead'
  BY DEF SerialInv, KvNeverAhead
<1>4. sent' = sent => SentIsDurable'
  BY DEF SerialInv, SentIsDurable
<1>5. rows' = rows => DenseSerials'
  BY DEF SerialInv, DenseSerials
<1>6. QED BY <1>1, <1>2, <1>3, <1>4, <1>5

\* FlushInv survives a step that changes flush f alone.
LEMMA FlushInvStep ==
  ASSUME TypeInv, SerialInv, rows \subseteq rows', NEW f \in Flushes,
         NEW fl \in FlushState, flush' = [flush EXCEPT ![f] = fl],
         nextSerial # 0 => nextSerial' # 0, FlushOK(fl)'
  PROVE  FlushInv'
<1>1. flush \in [Flushes -> FlushState]
  BY DEF TypeInv, TypeOK
<1>2. ASSUME NEW g \in Flushes PROVE FlushOK(flush[g])'
  <2>1. CASE g = f
    <3>1. flush'[g] = fl
      BY <1>1, <2>1
    <3>2. QED BY <3>1 DEF FlushOK, ServedHere, Follows, RowFor
  <2>2. CASE g # f
    <3>1. flush'[g] = flush[g]
      BY <1>1, <2>2
    <3>2. FlushOK(flush[g])
      BY DEF SerialInv, FlushInv
    <3>3. QED BY <3>1, <3>2, RowsGrow DEF FlushOK
  <2>3. QED BY <2>1, <2>2
<1>3. QED BY <1>2 DEF FlushInv

\* A flush that returns leaves nothing to be kept.
LEMMA IdleInvStep ==
  ASSUME TypeInv, SerialInv, rows \subseteq rows', NEW f \in Flushes,
         flush' = [flush EXCEPT ![f] = NotFlushing], nextSerial # 0 => nextSerial' # 0
  PROVE  FlushInv'
<1>1. PICK fl : fl = NotFlushing
  OBVIOUS
<1>2. fl \in FlushState
  BY <1>1, NotFlushingType
<1>3. fl.pc = "idle" /\ DOMAIN fl.assigned = {}
  BY <1>1 DEF NotFlushing
<1>4. FlushOK(fl)'
  BY <1>3 DEF FlushOK, InLoop
<1>5. QED BY <1>1, <1>2, <1>4, FlushInvStep

\* Sending an INSERT with a serial that follows.
LEMMA InsertingInvStep ==
  ASSUME TypeInv, SerialInv, rows \subseteq rows', NEW f \in Flushes, NEW fl \in FlushState,
         NEW k \in Nat, NEW m \in Msgs, NEW tries \in {0, 1}, NEW s \in Nat,
         flush' = [flush EXCEPT ![f] = Inserting(fl, k, m, tries, s)],
         nextSerial' # 0, Follows(s)',
         \A i \in DOMAIN fl.assigned : RowFor(fl.assigned[i].serial, fl.assigned[i].msg)'
  PROVE  FlushInv'
<1>1. PICK gl : gl = Inserting(fl, k, m, tries, s)
  OBVIOUS
<1>2. gl \in FlushState
  BY <1>1, InsertingType
<1>3. gl.pc = "insert" /\ gl.serial = s /\ gl.assigned = fl.assigned
  BY <1>1 DEF Inserting, FlushState
<1>4. FlushOK(gl)'
  BY <1>3 DEF FlushOK
<1>5. QED BY <1>1, <1>2, <1>4, FlushInvStep

\* An INSERT whose serial follows keeps the serials without a gap.
LEMMA InsertRowKeeps ==
  ASSUME TypeOK, DenseSerials, NEW s \in Nat, NEW m \in Msgs, NEW at \in Nat, NEW outcome,
         Follows(s), InsertRow(s, m, at, outcome)
  PROVE  /\ rows \subseteq rows'
         /\ DenseSerials'
         /\ outcome = "inserted" => RowFor(s, m)'
<1>1. rows \subseteq rows'
  BY DEF InsertRow
<1>d. PICK new : new = [serial |-> s, msg |-> m, createdAt |-> at]
  OBVIOUS
<1>e. new.serial = s /\ new.msg = m
  BY <1>d
<1>2. outcome = "inserted" => RowFor(s, m)'
  <2>1. outcome = "inserted" => new \in rows'
    BY <1>d DEF InsertRow
  <2>2. QED BY <1>e, <2>1 DEF RowFor
<1>3. DenseSerials'
  <2>1. CASE rows' = rows
    BY <2>1 DEF DenseSerials
  <2>2. CASE rows' = rows \cup {new}
    <3>1. SUFFICES ASSUME NEW r \in rows', NEW t \in 1 .. r.serial
                   PROVE  \E q \in rows' : q.serial = t
      BY DEF DenseSerials
    <3>2. CASE r \in rows
      BY <1>1, <3>2 DEF DenseSerials
    <3>3. CASE r = new
      <4>1. CASE t = s
        BY <1>e, <2>2, <4>1
      <4>2. CASE t # s
        <5>1. t \in 1 .. (s - 1) /\ s - 1 # 0
          BY <1>e, <3>1, <3>3, <4>2
        <5>2. PICK q \in rows : q.serial = s - 1
          BY <5>1 DEF Follows, ServedHere
        <5>3. \E p \in rows : p.serial = t
          BY <5>1, <5>2 DEF DenseSerials
        <5>4. QED BY <1>1, <5>3
      <4>3. QED BY <4>1, <4>2
    <3>4. QED BY <2>2, <3>2, <3>3
  <2>3. QED BY <1>d, <2>1, <2>2 DEF InsertRow
<1>4. QED BY <1>1, <1>2, <1>3

\* The frames that announce assigned serials name rows.
LEMMA FramesDurable ==
  ASSUME TypeInv, SerialInv, NEW f \in Flushes
  PROVE  /\ \A m \in FanoutFrames(f) : RowFor(m.serial, m.msg)
         /\ \A m \in ToOthers(f, "push", Members) : RowFor(m.serial, m.msg)
<1>1. \A a \in Assigned(f) : RowFor(a.serial, a.msg)
  BY DEF SerialInv, FlushInv, FlushOK, Assigned
<1>2. \A kind, u, a : FrameOf(kind, u, a).serial = a.serial /\ FrameOf(kind, u, a).msg = a.msg
  BY DEF FrameOf
<1>3. \A m \in Acks(f) : RowFor(m.serial, m.msg)
  BY <1>1, <1>2 DEF Acks
<1>4. ASSUME NEW kind, NEW S, NEW m \in ToOthers(f, kind, S)
      PROVE  RowFor(m.serial, m.msg)
  <2>1. PICK a \in Assigned(f) : m \in {FrameOf(kind, u, a) : u \in S \ {Sender[a.msg]}}
    BY <1>4 DEF ToOthers
  <2>2. QED BY <1>1, <1>2, <2>1
<1>5. QED BY <1>3, <1>4 DEF FanoutFrames

LEMMA SentKeeps ==
  ASSUME SerialInv, rows \subseteq rows', NEW F,
         sent' \subseteq sent \cup F, \A m \in F : m.kind # "err" => RowFor(m.serial, m.msg)
  PROVE  SentIsDurable'
<1>1. SUFFICES ASSUME NEW m \in sent', m.kind # "err"
               PROVE  \E r \in rows' : r.serial = m.serial /\ r.msg = m.msg
  BY DEF SentIsDurable
<1>2. CASE m \in sent
  BY <1>1, <1>2 DEF SerialInv, SentIsDurable
<1>3. CASE m \in F
  BY <1>1, <1>3 DEF RowFor
<1>4. QED BY <1>1, <1>2, <1>3

LEMMA FlushInvSame ==
  ASSUME SerialInv, rows \subseteq rows', flush' = flush, nextSerial # 0 => nextSerial' # 0
  PROVE  FlushInv'
<1>1. ASSUME NEW g \in Flushes PROVE FlushOK(flush[g])'
  <2>1. FlushOK(flush[g])
    BY DEF SerialInv, FlushInv
  <2>2. QED BY <2>1, RowsGrow DEF FlushOK
<1>2. QED BY <1>1 DEF FlushInv

\* Changing only the pc of a flush: what the new pc calls for is left to show.
LEMMA SetPcInvStep ==
  ASSUME TypeInv, SerialInv, rows \subseteq rows', NEW f \in Flushes, NEW p \in Pcs,
         SetPc(f, p), nextSerial' = nextSerial,
         p \in InLoop => flush[f].pc \in InLoop,
         p \notin {"insert", "recovered", "bumped"},
         p = "inserted" => RowFor(flush[f].serial, flush[f].entry)'
  PROVE  FlushInv'
<1>0. flush[f] \in FlushState
  BY DEF TypeInv, TypeOK
<1>1. PICK old : old = flush[f]
  OBVIOUS
<1>2. PICK s, m : s = flush[f].serial /\ m = flush[f].entry
  OBVIOUS
<1>3. PICK fl : fl = [old EXCEPT !.pc = p]
  OBVIOUS
<1>4. fl \in FlushState
  BY <1>0, <1>1, <1>3, SetPcType
<1>5. fl.pc = p /\ fl.serial = s /\ fl.entry = m /\ fl.assigned = old.assigned
  BY <1>0, <1>1, <1>2, <1>3 DEF FlushState
<1>6. FlushOK(old)
  BY <1>1 DEF SerialInv, FlushInv
<1>7. p = "inserted" => \E r \in rows' : r.serial = s /\ r.msg = m
  <2>1. CASE p # "inserted"
    BY <2>1
  <2>2. CASE p = "inserted" /\ flush'[f] = fl
    BY <1>5, <2>2 DEF RowFor
  <2>3. flush'[f] = fl
    BY <1>1, <1>3 DEF SetPc, TypeInv, TypeOK
  <2>4. QED BY <2>1, <2>2, <2>3
<1>8. \A i \in DOMAIN fl.assigned : RowFor(fl.assigned[i].serial, fl.assigned[i].msg)'
  BY <1>5, <1>6, RowsGrow DEF FlushOK
<1>9. p \in InLoop => nextSerial' # 0
  BY <1>1, <1>6 DEF FlushOK
<1>10. FlushOK(fl)'
  BY <1>5, <1>7, <1>8, <1>9 DEF FlushOK, RowFor
<1>11. flush' = [flush EXCEPT ![f] = fl]
  BY <1>1, <1>3 DEF SetPc
<1>12. QED BY <1>4, <1>10, <1>11, FlushInvStep

\* The serial of a row just inserted is served, and the next one follows.
LEMMA NextFollows ==
  ASSUME NEW n \in Nat, ServedHere(n), rows \subseteq rows'
  PROVE  /\ n + 1 \in Nat
         /\ n + 1 # 0
         /\ Follows(n + 1)
         /\ Follows(n + 1)'
<1>1. n + 1 \in Nat /\ n + 1 # 0 /\ (n + 1) - 1 = n
  OBVIOUS
<1>2. Follows(n + 1)
  BY <1>1 DEF Follows
<1>3. ServedHere(n)'
  BY RowsGrow
<1>4. Follows(n + 1)'
  BY <1>1, <1>3 DEF Follows
<1>5. QED BY <1>1, <1>2, <1>4

-----------------------------------------------------------------------------
\* Every step keeps SerialInv

LEMMA SerialFlushStep ==
  ASSUME TypeInv, SerialInv, NEW f \in Flushes, FlushStep(f)
  PROVE  SerialInv'
<1>. USE DEF storage, outside, history
<1>ty. TypeOK /\ HandInv
  BY DEF TypeInv
<1>fl. flush \in [Flushes -> FlushState] /\ flush[f] \in FlushState
  BY <1>ty DEF TypeOK
<1>in. /\ flush[f].pos \in Nat /\ flush[f].serial \in Nat /\ flush[f].max \in Nat
       /\ flush[f].pos + 1 \in Nat
  BY <1>fl DEF FlushState
<1>ok. FlushOK(flush[f])
  BY DEF SerialInv, FlushInv
<1>as. ASSUME rows \subseteq rows'
       PROVE  \A i \in DOMAIN flush[f].assigned :
                \E r \in rows' : /\ r.serial = flush[f].assigned[i].serial
                                 /\ r.msg = flush[f].assigned[i].msg
  BY <1>ok, <1>as DEF FlushOK, RowFor
<1>1. CASE FlushTimer(f)
  <2>. DEFINE started == [NotFlushing EXCEPT !.aliased = TRUE]
              known   == IF nextSerial # 0 THEN nextSerial ELSE storedNext
  <2>r. rows \subseteq rows' /\ rows' = rows /\ orphans' \subseteq orphans /\ sent' = sent
        /\ kvPending' \cup {kv'} \subseteq kvPending \cup {kv} /\ buffer' = buffer
        /\ storedNext' = storedNext
    BY <1>1 DEF FlushTimer
  <2>s. started \in FlushState /\ started.assigned = << >>
    BY NotFlushingType DEF FlushState, NotFlushing
  <2>1. CASE UNCHANGED <<flush, nextSerial>>
    <3>1. FlushInv' BY <2>1, <2>r, FlushInvSame
    <3>2. CounterInv' BY <2>1, <2>r, Keeps
    <3>3. QED BY <2>r, <3>1, <3>2, Keeps DEF SerialInv
  <2>2. CASE /\ buffer # << >>
             /\ known # 0
             /\ nextSerial' = known
             /\ flush' = [flush EXCEPT ![f] = Inserting(started, 1, buffer[1], 0, known)]
    <3>1. PICK k : k = known
      OBVIOUS
    <3>2. k \in Nat /\ k # 0 /\ Follows(k) /\ buffer[1] \in Msgs
      BY <2>2, <3>1, <1>ty DEF SerialInv, CounterInv, TypeOK
    <3>3. Follows(k)'
      BY <2>r, <3>2, RowsGrow
    <3>4. FlushInv'
      <4>1. PICK fl, m : fl = started /\ m = buffer[1]
        OBVIOUS
      <4>2. fl \in FlushState /\ m \in Msgs /\ DOMAIN fl.assigned = {}
        BY <2>s, <3>2, <4>1
      <4>3. flush' = [flush EXCEPT ![f] = Inserting(fl, 1, m, 0, k)]
        BY <2>2, <3>1, <4>1
      <4>4. nextSerial' # 0
        BY <2>2
      <4>5. QED BY <2>r, <3>2, <3>3, <4>2, <4>3, <4>4, InsertingInvStep
    <3>5. CounterInv'
      <4>1. nextSerial' # 0 => Follows(nextSerial)'
        BY <2>2, <3>1, <3>3 DEF Follows, ServedHere
      <4>2. storedNext' # 0 => Follows(storedNext)'
        BY <2>r DEF SerialInv, CounterInv, Follows, ServedHere
      <4>3. QED BY <4>1, <4>2 DEF CounterInv
    <3>6. QED BY <2>r, <3>4, <3>5, Keeps DEF SerialInv
  <2>3. CASE /\ flush' = [flush EXCEPT ![f] = [started EXCEPT !.pc = "recover"]]
             /\ UNCHANGED nextSerial
    <3>1. PICK fl : fl = [started EXCEPT !.pc = "recover"]
      OBVIOUS
    <3>2. fl \in FlushState /\ fl.pc = "recover" /\ DOMAIN fl.assigned = {}
      <4>1. PICK old : old = started
        OBVIOUS
      <4>2. old \in FlushState /\ DOMAIN old.assigned = {}
        BY <2>s, <4>1
      <4>3. fl = [old EXCEPT !.pc = "recover"]
        BY <3>1, <4>1
      <4>4. QED BY <4>2, <4>3 DEF FlushState, Pcs
    <3>3. FlushOK(fl)'
      BY <3>2 DEF FlushOK, InLoop
    <3>4. FlushInv'
      BY <2>3, <2>r, <3>1, <3>2, <3>3, FlushInvStep
    <3>5. CounterInv' BY <2>3, <2>r, Keeps
    <3>6. QED BY <2>r, <3>4, <3>5, Keeps DEF SerialInv
  <2>4. QED BY <1>1, <2>1, <2>2, <2>3 DEF FlushTimer
<1>2. CASE NeonMax(f)
  <2>r. rows \subseteq rows' /\ rows' = rows /\ orphans' \subseteq orphans /\ sent' = sent
        /\ kvPending' \cup {kv'} \subseteq kvPending \cup {kv}
        /\ UNCHANGED <<nextSerial, storedNext>>
    BY <1>2 DEF NeonMax
  <2>1. PICK n \in {0} \cup {r.serial : r \in rows} :
          /\ IsMaxSerial(n)
          /\ flush' = [flush EXCEPT
               ![f].pc = IF @ = "recover" THEN "recovered" ELSE "bumped",
               ![f].max = n]
    BY <1>2 DEF NeonMax
  <2>2. n \in Nat /\ ServedHere(n)
    BY <2>1, <1>ty DEF IsMaxSerial, ServedHere, TypeOK, Row
  <2>3. PICK old : old = flush[f]
    OBVIOUS
  <2>4. PICK fl : fl = [old EXCEPT
          !.pc = IF @ = "recover" THEN "recovered" ELSE "bumped", !.max = n]
    OBVIOUS
  <2>5. flush' = [flush EXCEPT ![f] = fl]
    BY <2>1, <2>3, <2>4, <1>fl
  <2>6. /\ fl \in FlushState
        /\ fl.pc = IF old.pc = "recover" THEN "recovered" ELSE "bumped"
        /\ fl.max = n /\ fl.assigned = old.assigned
    BY <2>2, <2>3, <2>4, <1>fl DEF FlushState, Pcs
  <2>7. FlushOK(old) /\ old.pc \in {"recover", "bumping"}
    BY <1>2, <1>ok, <2>3 DEF NeonMax
  <2>8. FlushOK(fl)'
    BY <2>2, <2>6, <2>7, <2>r, RowsGrow DEF FlushOK, InLoop
  <2>9. FlushInv'
    BY <2>5, <2>6, <2>8, <2>r, FlushInvStep
  <2>10. QED BY <2>9, <2>r, Keeps DEF SerialInv
<1>3. CASE Recovered(f)
  <2>r. rows \subseteq rows' /\ rows' = rows /\ orphans' \subseteq orphans /\ sent' = sent
        /\ kvPending' \cup {kv'} \subseteq kvPending \cup {kv} /\ storedNext' = storedNext
    BY <1>3 DEF Recovered
  <2>1. PICK n : n = flush[f].max
    OBVIOUS
  <2>2. n \in Nat /\ ServedHere(n)
    BY <1>3, <1>in, <1>ok, <2>1 DEF Recovered, FlushOK
  <2>3. n + 1 \in Nat /\ n + 1 # 0 /\ Follows(n + 1)'
    BY <2>2, <2>r, NextFollows
  <2>4. PICK fl, m : fl = flush[f] /\ m = Batch(f)[1]
    OBVIOUS
  <2>5. m \in Msgs
    <3>1. Batch(f) \in Seq(Msgs) /\ Batch(f) # << >>
      BY <1>3, <1>ty, BatchType DEF Recovered, HandInv, AskedMax
    <3>2. QED BY <2>4, <3>1
  <2>6. flush' = [flush EXCEPT ![f] = Inserting(fl, 1, m, 0, n + 1)] /\ nextSerial' = n + 1
    BY <1>3, <1>fl, <2>1, <2>4 DEF Recovered
  <2>7. fl \in FlushState
        /\ \A i \in DOMAIN fl.assigned : RowFor(fl.assigned[i].serial, fl.assigned[i].msg)'
    BY <1>fl, <1>as, <2>4, <2>r DEF RowFor
  <2>8. FlushInv'
    BY <2>3, <2>5, <2>6, <2>7, <2>r, InsertingInvStep
  <2>9. CounterInv'
    BY <2>3, <2>6, <2>r DEF SerialInv, CounterInv, Follows, ServedHere
  <2>10. QED BY <2>8, <2>9, <2>r, Keeps DEF SerialInv
<1>4. CASE NeonInsert(f)
  <2>1. PICK at \in {now, now + 1}, outcome \in {"inserted", "conflict", "error"} :
          /\ InsertRow(flush[f].serial, flush[f].entry, at, outcome)
          /\ SetPc(f, outcome)
    BY <1>4 DEF NeonInsert
  <2>2. PICK s, m : s = flush[f].serial /\ m = flush[f].entry
    OBVIOUS
  <2>3. s \in Nat /\ m \in Msgs /\ at \in Nat /\ Follows(s)
    BY <1>4, <1>ty, <1>in, <1>ok, <2>1, <2>2 DEF NeonInsert, HandInv, InLoop, FlushOK, TypeOK
  <2>4. InsertRow(s, m, at, outcome)
    BY <2>1, <2>2
  <2>5. rows \subseteq rows' /\ DenseSerials' /\ (outcome = "inserted" => RowFor(s, m)')
    BY <1>ty, <2>3, <2>4, InsertRowKeeps DEF SerialInv
  <2>r. orphans' \subseteq orphans /\ sent' = sent
        /\ kvPending' \cup {kv'} \subseteq kvPending \cup {kv}
        /\ UNCHANGED <<nextSerial, storedNext>>
    BY <1>4 DEF NeonInsert
  <2>6. flush'[f].serial = s /\ flush'[f].entry = m
    BY <1>fl, <2>1, <2>2 DEF SetPc, FlushState
  <2>7. outcome = "inserted" => RowFor(flush[f].serial, flush[f].entry)'
    BY <2>5, <2>6 DEF RowFor
  <2>8. FlushInv'
    <3>1. flush[f].pc \in InLoop /\ outcome \in Pcs
          /\ outcome \notin {"insert", "recovered", "bumped"}
      BY <1>4 DEF NeonInsert, InLoop, Pcs
    <3>2. QED BY <2>1, <2>5, <2>7, <2>r, <3>1, SetPcInvStep
  <2>9. QED BY <2>5, <2>8, <2>r, Keeps DEF SerialInv
<1>5. CASE InsertThrew(f)
  <2>r. rows \subseteq rows' /\ rows' = rows /\ orphans' \subseteq orphans
        /\ kvPending' \cup {kv'} \subseteq kvPending \cup {kv}
        /\ UNCHANGED <<nextSerial, storedNext>>
    BY <1>5 DEF InsertThrew
  <2>h. flush[f].entry \in Msgs
    BY <1>5, <1>ty DEF InsertThrew, HandInv, InLoop
  <2>1. CASE /\ flush' = [flush EXCEPT ![f] = Inserting(@, @.pos, @.entry, 1, RetrySerial)]
             /\ UNCHANGED sent
    <3>1. PICK fl, k, m, s :
            fl = flush[f] /\ k = flush[f].pos /\ m = flush[f].entry /\ s = nextSerial
      OBVIOUS
    <3>2. flush' = [flush EXCEPT ![f] = Inserting(fl, k, m, 1, s)]
      BY <2>1, <3>1, <1>fl DEF RetrySerial
    <3>3. s \in Nat /\ s # 0 /\ Follows(s)
      BY <1>5, <1>ty, <1>ok, <3>1 DEF InsertThrew, FlushOK, InLoop, SerialInv, CounterInv, TypeOK
    <3>4. Follows(s)' /\ nextSerial' # 0
      BY <2>r, <3>1, <3>3, RowsGrow
    <3>5. fl \in FlushState /\ k \in Nat /\ m \in Msgs
          /\ \A i \in DOMAIN fl.assigned : RowFor(fl.assigned[i].serial, fl.assigned[i].msg)'
      BY <1>fl, <1>in, <1>as, <2>h, <3>1, <2>r DEF RowFor
    <3>6. FlushInv'
      BY <2>r, <3>2, <3>3, <3>4, <3>5, InsertingInvStep
    <3>7. QED BY <2>1, <2>r, <3>6, Keeps DEF SerialInv
  <2>2. CASE GiveUp(f)
    <3>1. FlushInv' BY <2>2, <2>r, IdleInvStep DEF GiveUp
    <3>2. SentIsDurable'
      <4>1. PICK F : F = {ErrFrame(flush[f].entry)}
        OBVIOUS
      <4>2. sent' \subseteq sent \cup F /\ \A m \in F : m.kind = "err"
        BY <2>2, <4>1 DEF GiveUp, ErrFrame
      <4>3. QED BY <2>r, <4>2, SentKeeps
    <3>3. QED BY <2>r, <3>1, <3>2, Keeps DEF SerialInv
  <2>3. QED BY <1>5, <2>1, <2>2 DEF InsertThrew
<1>6. CASE InsertConflict(f)
  <2>r. rows \subseteq rows' /\ rows' = rows /\ orphans' \subseteq orphans /\ sent' = sent
        /\ kvPending' \cup {kv'} \subseteq kvPending \cup {kv}
        /\ UNCHANGED <<nextSerial, storedNext>>
    BY <1>6 DEF InsertConflict
  <2>1. FlushInv'
    BY <1>6, <2>r, SetPcInvStep DEF InsertConflict, InLoop, Pcs
  <2>2. QED BY <2>1, <2>r, Keeps DEF SerialInv
<1>7. CASE Bumped(f)
  <2>r. rows \subseteq rows' /\ rows' = rows /\ orphans' \subseteq orphans
        /\ kvPending' \cup {kv'} \subseteq kvPending \cup {kv} /\ storedNext' = storedNext
    BY <1>7 DEF Bumped
  <2>1. PICK n : n = flush[f].max
    OBVIOUS
  <2>2. n \in Nat /\ ServedHere(n)
    BY <1>7, <1>in, <1>ok, <2>1 DEF Bumped, FlushOK
  <2>3. n + 1 \in Nat /\ n + 1 # 0 /\ Follows(n + 1)'
    BY <2>2, <2>r, NextFollows
  <2>4. nextSerial' = n + 1
    BY <1>7, <2>1 DEF Bumped
  <2>5. CounterInv'
    BY <2>3, <2>4, <2>r DEF SerialInv, CounterInv, Follows, ServedHere
  <2>6. CASE /\ flush' = [flush EXCEPT ![f] = Inserting(@, @.pos, @.entry, 1, @.max + 1)]
             /\ UNCHANGED sent
    <3>1. PICK fl, k, m : fl = flush[f] /\ k = flush[f].pos /\ m = flush[f].entry
      OBVIOUS
    <3>2. flush' = [flush EXCEPT ![f] = Inserting(fl, k, m, 1, n + 1)]
      BY <1>fl, <2>1, <2>6, <3>1
    <3>3. fl \in FlushState /\ k \in Nat /\ m \in Msgs
          /\ \A i \in DOMAIN fl.assigned : RowFor(fl.assigned[i].serial, fl.assigned[i].msg)'
      <4>1. m \in Msgs
        BY <1>7, <1>ty, <3>1 DEF Bumped, HandInv, InLoop
      <4>2. QED BY <1>fl, <1>in, <1>as, <2>r, <3>1, <4>1 DEF RowFor
    <3>4. FlushInv'
      BY <2>3, <2>4, <2>r, <3>2, <3>3, InsertingInvStep
    <3>5. QED BY <2>5, <2>6, <2>r, <3>4, Keeps DEF SerialInv
  <2>7. CASE GiveUp(f)
    <3>1. FlushInv' BY <2>3, <2>4, <2>7, <2>r, IdleInvStep DEF GiveUp
    <3>2. SentIsDurable'
      <4>1. PICK F : F = {ErrFrame(flush[f].entry)}
        OBVIOUS
      <4>2. sent' \subseteq sent \cup F /\ \A m \in F : m.kind = "err"
        BY <2>7, <4>1 DEF GiveUp, ErrFrame
      <4>3. QED BY <2>r, <4>2, SentKeeps
    <3>3. QED BY <2>5, <2>r, <3>1, <3>2, Keeps DEF SerialInv
  <2>8. QED BY <1>7, <2>6, <2>7 DEF Bumped
<1>8. CASE InsertedMore(f) \/ InsertedLast(f)
  <2>r. rows \subseteq rows' /\ rows' = rows /\ orphans' \subseteq orphans /\ sent' = sent
    BY <1>8 DEF InsertedMore, InsertedLast
  <2>1. PICK n, m, old, fl :
          n = flush[f].serial /\ m = flush[f].entry /\ old = flush[f] /\ fl = Assign(f)
    OBVIOUS
  <2>p. flush[f].pc = "inserted"
    BY <1>8 DEF InsertedMore, InsertedLast
  <2>2. n \in Nat /\ RowFor(n, m) /\ ServedHere(n)
    BY <1>in, <1>ok, <2>1, <2>p DEF FlushOK, RowFor, ServedHere
  <2>3. n + 1 \in Nat /\ n + 1 # 0 /\ Follows(n + 1)'
    BY <2>2, <2>r, NextFollows
  <2>4. fl \in FlushState
    BY <2>1, <2>p, AssignType
  <2>5. fl.assigned = Append(old.assigned, [msg |-> m, serial |-> n])
    BY <1>fl, <2>1 DEF Assign, FlushState
  <2>6. \A i \in DOMAIN fl.assigned : RowFor(fl.assigned[i].serial, fl.assigned[i].msg)'
    <3>1. PICK a : a = [msg |-> m, serial |-> n]
      OBVIOUS
    <3>2. a.msg = m /\ a.serial = n /\ a \in AssignedSend
      <4>1. m \in Msgs
        BY <1>ty, <2>1, <2>p DEF HandInv, InLoop
      <4>2. QED BY <2>2, <3>1, <4>1 DEF AssignedSend
    <3>3. old.assigned \in Seq(AssignedSend)
      BY <1>fl, <2>1 DEF FlushState
    <3>4. ASSUME NEW i \in DOMAIN fl.assigned
          PROVE  (i \in DOMAIN old.assigned /\ fl.assigned[i] = old.assigned[i])
                 \/ fl.assigned[i] = a
      BY <2>5, <3>1, <3>2, <3>3
    <3>5. \A i \in DOMAIN old.assigned : RowFor(old.assigned[i].serial, old.assigned[i].msg)'
      BY <1>as, <2>1, <2>r DEF RowFor
    <3>6. RowFor(a.serial, a.msg)'
      BY <2>2, <2>r, <3>2, RowsGrow
    <3>7. QED BY <3>4, <3>5, <3>6
  <2>7. CASE InsertedMore(f)
    <3>1. PICK e, k : e = Batch(f)[flush[f].pos + 1] /\ k = flush[f].pos + 1
      OBVIOUS
    <3>2. e \in Msgs /\ k \in Nat
      BY <1>in, <2>7, <3>1, BatchType DEF InsertedMore
    <3>3. flush' = [flush EXCEPT ![f] = Inserting(fl, k, e, 0, n + 1)] /\ nextSerial' = n + 1
      BY <1>fl, <2>1, <2>7, <3>1 DEF InsertedMore
    <3>4. FlushInv'
      BY <2>3, <2>4, <2>6, <2>r, <3>2, <3>3, InsertingInvStep
    <3>5. storedNext' = storedNext /\ kvPending' \cup {kv'} \subseteq kvPending \cup {kv}
      BY <2>7 DEF InsertedMore
    <3>6. CounterInv'
      BY <2>3, <2>r, <3>3, <3>5 DEF SerialInv, CounterInv, Follows, ServedHere
    <3>7. QED BY <2>r, <3>4, <3>5, <3>6, Keeps DEF SerialInv
  <2>8. CASE InsertedLast(f)
    <3>1. nextSerial' = n + 1 /\ storedNext' = n + 1
      BY <2>1, <2>8 DEF InsertedLast
    <3>2. CounterInv'
      BY <2>3, <3>1 DEF CounterInv, Follows, ServedHere
    <3>3. KvNeverAhead'
      <4>1. kvPending' = kvPending \cup {n} /\ kv' = kv
        BY <2>1, <2>8 DEF InsertedLast, LastServed
      <4>2. QED BY <2>2, <2>r, <4>1 DEF SerialInv, KvNeverAhead, ServedHere
    <3>4. ASSUME NEW g \in Flushes PROVE FlushOK(flush[g])'
      <4>1. CASE g = f
        <5>1. PICK gl : gl = [fl EXCEPT !.pc = "fanout"]
          OBVIOUS
        <5>2. gl.pc = "fanout" /\ gl.assigned = fl.assigned
          BY <2>4, <5>1 DEF FlushState
        <5>3. flush'[g] = gl
          BY <2>1, <2>8, <4>1, <5>1 DEF InsertedLast
        <5>4. FlushOK(gl)'
          BY <2>6, <5>2 DEF FlushOK, InLoop
        <5>5. QED BY <5>3, <5>4 DEF FlushOK, ServedHere, Follows, RowFor
      <4>2. CASE g # f
        <5>1. PICK ol, gl : ol = flush[g] /\ gl = Detached(flush[g])
          OBVIOUS
        <5>2. /\ gl.pc = ol.pc /\ gl.serial = ol.serial /\ gl.entry = ol.entry
              /\ gl.max = ol.max /\ gl.assigned = ol.assigned
          BY <1>fl, <5>1 DEF Detached, FlushState
        <5>3. flush'[g] = gl
          BY <2>8, <4>2, <5>1 DEF InsertedLast
        <5>4. FlushOK(ol)
          BY <5>1 DEF SerialInv, FlushInv
        <5>5. FlushOK(gl)'
          BY <2>3, <2>r, <3>1, <5>2, <5>4, RowsGrow DEF FlushOK
        <5>6. QED BY <5>3, <5>5 DEF FlushOK, ServedHere, Follows, RowFor
      <4>3. QED BY <4>1, <4>2
    <3>5. FlushInv' BY <3>4 DEF FlushInv
    <3>6. QED BY <2>r, <3>2, <3>3, <3>5, Keeps DEF SerialInv
  <2>9. QED BY <1>8, <2>7, <2>8
<1>9. CASE Fanout(f)
  <2>r. rows \subseteq rows' /\ rows' = rows /\ orphans' \subseteq orphans
        /\ kvPending' \cup {kv'} \subseteq kvPending \cup {kv}
        /\ UNCHANGED <<nextSerial, storedNext>>
    BY <1>9 DEF Fanout
  <2>1. FlushInv'
    BY <1>9, <2>r, SetPcInvStep DEF Fanout, InLoop, Pcs
  <2>2. SentIsDurable'
    <3>1. PICK F : F = FanoutFrames(f)
      OBVIOUS
    <3>2. sent' \subseteq sent \cup F /\ \A m \in F : RowFor(m.serial, m.msg)
      BY <1>9, <3>1, FramesDurable DEF Fanout
    <3>3. QED BY <2>r, <3>2, SentKeeps
  <2>3. QED BY <2>r, <2>1, <2>2, Keeps DEF SerialInv
<1>10. CASE Push(f)
  <2>r. rows \subseteq rows' /\ rows' = rows /\ orphans' \subseteq orphans
        /\ kvPending' \cup {kv'} \subseteq kvPending \cup {kv}
        /\ UNCHANGED <<nextSerial, storedNext>>
    BY <1>10 DEF Push
  <2>1. FlushInv'
    BY <1>10, <2>r, IdleInvStep DEF Push
  <2>2. SentIsDurable'
    <3>1. PICK F : F = ToOthers(f, "push", Members)
      OBVIOUS
    <3>2. sent' \subseteq sent \cup F /\ \A m \in F : RowFor(m.serial, m.msg)
      BY <1>10, <3>1, FramesDurable DEF Push
    <3>3. QED BY <2>r, <3>2, SentKeeps
  <2>3. QED BY <2>r, <2>1, <2>2, Keeps DEF SerialInv
<1>11. QED
  BY <1>1, <1>2, <1>3, <1>4, <1>5, <1>6, <1>7, <1>8, <1>9, <1>10 DEF FlushStep

LEMMA SerialFlushFault ==
  ASSUME TypeInv, SerialInv, NEW f \in Flushes, FlushFault(f)
  PROVE  SerialInv'
<1>. USE DEF storage, outside
<1>r. rows \subseteq rows' /\ rows' = rows
      /\ kvPending' \cup {kv'} \subseteq kvPending \cup {kv}
      /\ UNCHANGED <<nextSerial, storedNext>>
  BY DEF FlushFault, NeonMaxFails, InsertFails, InsertAnswerLost, FanoutFails, PushFails
<1>1. CASE NeonMaxFails(f) \/ PushFails(f)
  <2>1. orphans' \subseteq orphans /\ sent' = sent
    BY <1>1 DEF NeonMaxFails, PushFails
  <2>2. FlushInv'
    BY <1>1, <1>r, IdleInvStep DEF NeonMaxFails, PushFails
  <2>3. QED BY <1>r, <2>1, <2>2, Keeps DEF SerialInv
<1>2. CASE InsertFails(f)
  <2>1. orphans' \subseteq orphans /\ sent' = sent
    BY <1>2 DEF InsertFails
  <2>2. FlushInv'
    BY <1>2, <1>r, SetPcInvStep DEF InsertFails, Thrown, InLoop, Pcs
  <2>3. QED BY <1>r, <2>1, <2>2, Keeps DEF SerialInv
<1>3. CASE InsertAnswerLost(f)
  <2>1. FlushInv'
    BY <1>3, <1>r, SetPcInvStep DEF InsertAnswerLost, Thrown, InLoop, Pcs
  <2>2. OrphanInv'
    <3>1. flush[f].pc = "insert" => Follows(flush[f].serial)
      BY DEF SerialInv, FlushInv, FlushOK
    <3>2. \A o \in orphans' : Follows(o.serial)
      BY <1>3, <3>1 DEF InsertAnswerLost, SerialInv, OrphanInv
    <3>3. QED BY <1>r, <3>2, RowsGrow DEF OrphanInv
  <2>3. sent' = sent
    BY <1>3 DEF InsertAnswerLost
  <2>4. QED BY <1>r, <2>1, <2>2, <2>3, Keeps DEF SerialInv
<1>4. CASE FanoutFails(f)
  <2>1. orphans' \subseteq orphans
    BY <1>4 DEF FanoutFails
  <2>2. FlushInv'
    BY <1>4, <1>r, IdleInvStep DEF FanoutFails
  <2>3. SentIsDurable'
    <3>1. PICK F : F = FanoutFrames(f)
      OBVIOUS
    <3>2. sent' \subseteq sent \cup F /\ \A m \in F : RowFor(m.serial, m.msg)
      BY <1>4, <3>1, FramesDurable DEF FanoutFails
    <3>3. QED BY <1>r, <3>2, SentKeeps
  <2>4. QED BY <1>r, <2>1, <2>2, <2>3, Keeps DEF SerialInv
<1>5. QED BY <1>1, <1>2, <1>3, <1>4 DEF FlushFault

LEMMA SerialStep ==
  ASSUME TypeInv, SerialInv, [Next]_vars
  PROVE  SerialInv'
<1>. USE DEF memory, storage, outside, history
<1>ty. TypeOK /\ HandInv
  BY DEF TypeInv
<1>1. CASE \/ \E u \in Users : AttachInbox(u) \/ DetachInbox(u)
           \/ \E m \in Msgs : AcceptSend(m)
           \/ UNCHANGED vars
  <2>1. rows' = rows /\ orphans' = orphans /\ kvPending' = kvPending /\ kv' = kv
        /\ sent' = sent /\ flush' = flush /\ UNCHANGED <<nextSerial, storedNext>>
    BY <1>1 DEF AttachInbox, DetachInbox, AcceptSend, vars
  <2>2. FlushInv'
    BY <2>1, FlushInvSame
  <2>3. QED BY <2>1, <2>2, Keeps DEF SerialInv
<1>2. CASE \E f \in Flushes : FlushStep(f) \/ FlushFault(f)
  BY <1>2, SerialFlushStep, SerialFlushFault
<1>3. ASSUME NEW o \in orphans, NeonOrphan(o)
      PROVE  SerialInv'
  <2>1. PICK at \in {now, now + 1}, outcome \in {"inserted", "conflict", "error"} :
          InsertRow(o.serial, o.msg, at, outcome)
    BY <1>3 DEF NeonOrphan
  <2>2. o.serial \in Nat /\ o.msg \in Msgs /\ at \in Nat /\ Follows(o.serial)
    BY <2>1, <1>ty DEF TypeOK, Orphan, SerialInv, OrphanInv
  <2>3. rows \subseteq rows' /\ DenseSerials'
    BY <1>ty, <2>1, <2>2, InsertRowKeeps DEF SerialInv
  <2>4. orphans' \subseteq orphans /\ kvPending' = kvPending /\ kv' = kv /\ sent' = sent
        /\ flush' = flush /\ UNCHANGED <<nextSerial, storedNext>>
    BY <1>3 DEF NeonOrphan
  <2>5. FlushInv'
    BY <2>3, <2>4, FlushInvSame
  <2>6. QED BY <2>3, <2>4, <2>5, Keeps DEF SerialInv
<1>4. ASSUME NEW v \in kvPending, KvPut(v)
      PROVE  SerialInv'
  <2>1. rows' = rows /\ orphans' = orphans /\ sent' = sent /\ flush' = flush
        /\ kvPending' \cup {kv'} \subseteq kvPending \cup {kv}
        /\ UNCHANGED <<nextSerial, storedNext>>
    BY <1>4 DEF KvPut
  <2>2. FlushInv'
    BY <2>1, FlushInvSame
  <2>3. QED BY <2>1, <2>2, Keeps DEF SerialInv
<1>5. CASE Crash
  <2>1. rows' = rows /\ kvPending' = kvPending /\ kv' = kv /\ sent' = sent
        /\ storedNext' = storedNext /\ nextSerial' = 0
    BY <1>5 DEF Crash
  <2>2. ASSUME NEW f \in Flushes PROVE FlushOK(flush[f])'
    <3>1. flush'[f] = NotFlushing
      BY <1>5 DEF Crash
    <3>2. NotFlushing.pc = "idle" /\ DOMAIN NotFlushing.assigned = {}
      BY DEF NotFlushing
    <3>3. QED BY <3>1, <3>2 DEF FlushOK, InLoop
  <2>3. FlushInv' BY <2>2 DEF FlushInv
  <2>4. CounterInv'
    BY <2>1 DEF SerialInv, CounterInv, Follows, ServedHere
  <2>5. OrphanInv'
    <3>1. \A f \in Flushes : flush[f].pc = "insert" => Follows(flush[f].serial)
      BY DEF SerialInv, FlushInv, FlushOK
    <3>2. \A o \in orphans' : Follows(o.serial)
      BY <1>5, <3>1 DEF Crash, SerialInv, OrphanInv
    <3>3. QED BY <2>1, <3>2, RowsGrow DEF OrphanInv
  <2>6. QED BY <2>1, <2>3, <2>4, <2>5, Keeps DEF SerialInv
<1>6. QED
  BY <1>1, <1>2, <1>3, <1>4, <1>5 DEF Next

LEMMA SerialInit == Init => SerialInv
<1>. SUFFICES ASSUME Init PROVE SerialInv
  OBVIOUS
<1>1. CounterInv /\ OrphanInv /\ KvNeverAhead /\ DenseSerials /\ SentIsDurable
  BY DEF Init, CounterInv, OrphanInv, KvNeverAhead, DenseSerials, SentIsDurable
<1>2. NotFlushing.pc = "idle" /\ DOMAIN NotFlushing.assigned = {}
  BY DEF NotFlushing
<1>3. FlushInv
  BY <1>2 DEF Init, FlushInv, FlushOK, InLoop
<1>4. QED BY <1>1, <1>3 DEF SerialInv

LEMMA SerialInvariant == Spec => []SerialInv
  BY TypeInvariant, SerialInit, SerialStep, PTL DEF Spec

-----------------------------------------------------------------------------
\* What readers and senders rely on

\* The serials in Neon have no gap, whatever number of flushes overlap, answers
\* get lost, statements are executed after their caller gave up, and restarts
\* lose the counter (chat.ts insertWithRetry(), ensureSerialRecovered()).
THEOREM DenseSerialsCorrect == Spec => []DenseSerials
<1>1. SerialInv => DenseSerials
  BY DEF SerialInv
<1>2. QED BY <1>1, SerialInvariant, PTL

\* No ack, msg frame or push event names a (serial, message) pair that is not a
\* row in Neon (chat.ts flush(), the steps after the storage transaction).
THEOREM SentIsDurableCorrect == Spec => []SentIsDurable
<1>1. SerialInv => SentIsDurable
  BY DEF SerialInv
<1>2. QED BY <1>1, SerialInvariant, PTL

\* Neither the skip-cache nor a put still on its way to it is ever ahead of
\* Neon, in whatever order the puts land (chat.ts:212-221).
THEOREM KvNeverAheadCorrect == Spec => []KvNeverAhead
<1>1. SerialInv => KvNeverAhead
  BY DEF SerialInv
<1>2. QED BY <1>1, SerialInvariant, PTL

-----------------------------------------------------------------------------
\* One flush at a time

OneFlush == \A f, g \in Flushes : f = g

DurableIn(m, R) == \E r \in R : r.msg = m

\* The flush fl works through the buffer b and has written everything before its place.
InTurn(fl, b, R) ==
  /\ fl.pc \in AskedMax => fl.aliased
  /\ fl.pc \in InLoop =>
       /\ fl.aliased /\ fl.pos \in 1 .. Len(b) /\ fl.entry = b[fl.pos]
       /\ \A i \in 1 .. fl.pos - 1 : DurableIn(b[i], R)
       /\ fl.pc = "inserted" => DurableIn(fl.entry, R)

\* b holds what was accepted last, and everything before it is durable.
Unwritten(b, acc, R) ==
  \E n \in Nat :
    /\ Len(acc) = n + Len(b)
    /\ \A j \in 1 .. Len(b) : b[j] = acc[n + j]
    /\ \A i \in 1 .. n : DurableIn(acc[i], R)

MemoryInv ==
  /\ loaded => storedBuffer = buffer
  /\ ~loaded => /\ buffer = << >> /\ ~timer
                /\ \A f \in Flushes : flush[f].pc = "idle"

LogInv ==
  /\ MemoryInv
  /\ \A f \in Flushes : InTurn(flush[f], buffer, rows)
  /\ Unwritten(storedBuffer, accepted, rows)

LEMMA IdleInTurn == \A b, R : InTurn(NotFlushing, b, R)
  BY DEF InTurn, NotFlushing, AskedMax, InLoop

LEMMA InTurnStays ==
  ASSUME NEW fl \in FlushState, NEW b \in Seq(Msgs), NEW R, NEW S, R \subseteq S, InTurn(fl, b, R)
  PROVE  /\ InTurn(fl, b, S)
         /\ \A m \in Msgs : InTurn(fl, Append(b, m), S)
<1>1. \A m : DurableIn(m, R) => DurableIn(m, S)
  BY DEF DurableIn
<1>2. InTurn(fl, b, S)
  BY <1>1 DEF InTurn
<1>3. ASSUME NEW m \in Msgs PROVE InTurn(fl, Append(b, m), S)
  <2>1. /\ Len(Append(b, m)) = Len(b) + 1 /\ Len(b) \in Nat
        /\ \A i \in 1 .. Len(b) : Append(b, m)[i] = b[i]
    OBVIOUS
  <2>2. fl.pos \in 1 .. Len(b) => fl.pos \in 1 .. Len(Append(b, m))
    BY <2>1
  <2>3. fl.pos \in 1 .. Len(b) => \A i \in 1 .. fl.pos - 1 : Append(b, m)[i] = b[i]
    BY <2>1
  <2> QED BY <1>2, <2>1, <2>2, <2>3 DEF InTurn
<1> QED BY <1>2, <1>3

LEMMA UnwrittenStays ==
  ASSUME NEW b \in Seq(Msgs), NEW acc \in Seq(Msgs), NEW R, NEW S, R \subseteq S, Unwritten(b, acc, R)
  PROVE  /\ Unwritten(b, acc, S)
         /\ \A m \in Msgs : Unwritten(Append(b, m), Append(acc, m), S)
<1>1. PICK n \in Nat : /\ Len(acc) = n + Len(b)
                       /\ \A j \in 1 .. Len(b) : b[j] = acc[n + j]
                       /\ \A i \in 1 .. n : DurableIn(acc[i], R)
  BY DEF Unwritten
<1>2. \A i \in 1 .. n : DurableIn(acc[i], S)
  BY <1>1 DEF DurableIn
<1>3. Unwritten(b, acc, S)
  BY <1>1, <1>2 DEF Unwritten
<1>4. ASSUME NEW m \in Msgs PROVE Unwritten(Append(b, m), Append(acc, m), S)
  <2>1. /\ Len(Append(b, m)) = Len(b) + 1 /\ Len(Append(acc, m)) = Len(acc) + 1
        /\ Len(b) \in Nat /\ Len(acc) \in Nat
        /\ \A j \in 1 .. Len(b) : Append(b, m)[j] = b[j]
        /\ \A j \in 1 .. Len(acc) : Append(acc, m)[j] = acc[j]
        /\ Append(b, m)[Len(b) + 1] = m /\ Append(acc, m)[Len(acc) + 1] = m
    OBVIOUS
  <2>2. Len(Append(acc, m)) = n + Len(Append(b, m))
    BY <1>1, <2>1
  <2>3. \A j \in 1 .. Len(Append(b, m)) : Append(b, m)[j] = Append(acc, m)[n + j]
    <3> SUFFICES ASSUME NEW j \in 1 .. Len(b) + 1 PROVE Append(b, m)[j] = Append(acc, m)[n + j]
      BY <2>1
    <3>1. CASE j = Len(b) + 1
      BY <1>1, <2>1, <3>1
    <3>2. CASE j \in 1 .. Len(b)
      <4>1. n + j \in 1 .. Len(acc)
        BY <1>1, <2>1, <3>2
      <4> QED BY <1>1, <2>1, <3>2, <4>1
    <3>3. j = Len(b) + 1 \/ j \in 1 .. Len(b)
      BY <2>1
    <3> QED BY <3>1, <3>2, <3>3
  <2>4. \A i \in 1 .. n : DurableIn(Append(acc, m)[i], S)
    <3>1. \A i \in 1 .. n : i \in 1 .. Len(acc)
      BY <1>1, <2>1
    <3> QED BY <1>2, <2>1, <3>1
  <2> QED BY <2>2, <2>3, <2>4 DEF Unwritten
<1> QED BY <1>3, <1>4

\* When the last entry is in Neon nothing is unwritten.
LEMMA NothingUnwritten ==
  ASSUME NEW b \in Seq(Msgs), NEW acc \in Seq(Msgs), NEW R, Unwritten(b, acc, R),
         \A j \in 1 .. Len(b) : DurableIn(b[j], R)
  PROVE  Unwritten(<< >>, acc, R)
<1>1. PICK n \in Nat : /\ Len(acc) = n + Len(b)
                       /\ \A j \in 1 .. Len(b) : b[j] = acc[n + j]
                       /\ \A i \in 1 .. n : DurableIn(acc[i], R)
  BY DEF Unwritten
<1>2. Len(b) \in Nat /\ Len(acc) \in Nat /\ Len(<< >>) = 0 /\ 1 .. 0 = {}
  OBVIOUS
<1>3. ASSUME NEW i \in 1 .. Len(acc) PROVE DurableIn(acc[i], R)
  <2>1. CASE i \in 1 .. n
    BY <1>1, <2>1
  <2>2. CASE i \notin 1 .. n
    <3>1. i - n \in 1 .. Len(b) /\ n + (i - n) = i
      BY <1>1, <1>2, <2>2
    <3> QED BY <1>1, <3>1
  <2> QED BY <2>1, <2>2
<1>4. Len(acc) = Len(acc) + Len(<< >>)
  BY <1>2
<1> QED BY <1>2, <1>3, <1>4 DEF Unwritten

\* A step that changes flush f alone and leaves the buffers as they are.
LEMMA LogKeeps ==
  ASSUME TypeInv, LogInv, NEW f \in Flushes,
         \A g \in Flushes : g # f => flush'[g] = flush[g], rows \subseteq rows',
         UNCHANGED <<buffer, loaded, storedBuffer, accepted>>,
         timer' => timer, loaded \/ flush'[f].pc = "idle", InTurn(flush'[f], buffer, rows')
  PROVE  LogInv'
<1>1. /\ flush \in [Flushes -> FlushState] /\ buffer \in Seq(Msgs)
      /\ storedBuffer \in Seq(Msgs) /\ accepted \in Seq(Msgs)
  BY DEF TypeInv, TypeOK
<1>2. MemoryInv'
  BY DEF LogInv, MemoryInv
<1>3. \A g \in Flushes : InTurn(flush[g], buffer, rows')
  BY <1>1, InTurnStays DEF LogInv
<1>4. \A g \in Flushes : InTurn(flush'[g], buffer', rows')
  BY <1>3
<1>5. Unwritten(storedBuffer', accepted', rows')
  BY <1>1, UnwrittenStays DEF LogInv
<1> QED BY <1>2, <1>4, <1>5 DEF LogInv

\* A step that leaves the flushes alone too.
LEMMA LogSame ==
  ASSUME TypeInv, LogInv, rows \subseteq rows',
         UNCHANGED <<flush, buffer, loaded, storedBuffer, accepted>>, timer' => timer
  PROVE  LogInv'
<1>1. /\ flush \in [Flushes -> FlushState] /\ buffer \in Seq(Msgs)
      /\ storedBuffer \in Seq(Msgs) /\ accepted \in Seq(Msgs)
  BY DEF TypeInv, TypeOK
<1>2. \A g \in Flushes : InTurn(flush[g], buffer, rows')
  BY <1>1, InTurnStays DEF LogInv
<1>3. Unwritten(storedBuffer', accepted', rows')
  BY <1>1, UnwrittenStays DEF LogInv
<1>4. MemoryInv'
  BY DEF LogInv, MemoryInv
<1> QED BY <1>2, <1>3, <1>4 DEF LogInv

LEMMA InsertingInTurn ==
  ASSUME NEW fl \in FlushState, fl.aliased, NEW b, NEW k \in 1 .. Len(b), NEW R,
         \A i \in 1 .. k - 1 : DurableIn(b[i], R), NEW tries, NEW s
  PROVE  InTurn(Inserting(fl, k, b[k], tries, s), b, R)
<1>1. PICK gl : gl = Inserting(fl, k, b[k], tries, s)
  OBVIOUS
<1>2. gl.pc = "insert" /\ gl.pos = k /\ gl.entry = b[k] /\ gl.aliased
  BY <1>1 DEF Inserting, FlushState
<1>3. InTurn(gl, b, R)
  BY <1>2 DEF InTurn, AskedMax
<1> QED BY <1>1, <1>3

\* Another pc, with the same entry in hand.
LEMMA PcInTurn ==
  ASSUME NEW fl \in FlushState, NEW gl, NEW b, NEW R, InTurn(fl, b, R),
         gl.aliased = fl.aliased, gl.pos = fl.pos, gl.entry = fl.entry,
         gl.pc \in InLoop => fl.pc \in InLoop,
         gl.pc \in AskedMax => fl.pc \in AskedMax,
         gl.pc = "inserted" => DurableIn(fl.entry, R)
  PROVE  InTurn(gl, b, R)
  BY DEF InTurn

LEMMA SetPcInTurn ==
  ASSUME TypeInv, LogInv, NEW f \in Flushes, NEW p \in Pcs, SetPc(f, p), rows \subseteq rows',
         UNCHANGED <<buffer, loaded, storedBuffer, accepted, timer>>,
         flush[f].pc # "idle", p \notin AskedMax,
         p \in InLoop => flush[f].pc \in InLoop,
         p = "inserted" => DurableIn(flush[f].entry, rows')
  PROVE  LogInv'
<1>1. flush \in [Flushes -> FlushState] /\ buffer \in Seq(Msgs)
  BY DEF TypeInv, TypeOK
<1>2. /\ flush'[f].pc = p /\ flush'[f].aliased = flush[f].aliased
      /\ flush'[f].pos = flush[f].pos /\ flush'[f].entry = flush[f].entry
      /\ \A g \in Flushes : g # f => flush'[g] = flush[g]
  BY <1>1 DEF SetPc, FlushState
<1>3. InTurn(flush[f], buffer, rows')
  BY <1>1, InTurnStays DEF LogInv
<1>4. InTurn(flush'[f], buffer, rows')
  BY <1>1, <1>2, <1>3, PcInTurn
<1>5. loaded
  BY DEF LogInv, MemoryInv
<1> QED BY <1>2, <1>4, <1>5, LogKeeps

\* The flush returns.
LEMMA IdleKeeps ==
  ASSUME TypeInv, LogInv, NEW f \in Flushes, flush' = [flush EXCEPT ![f] = NotFlushing],
         rows \subseteq rows', UNCHANGED <<buffer, loaded, storedBuffer, accepted, timer>>
  PROVE  LogInv'
<1>1. flush'[f] = NotFlushing /\ \A g \in Flushes : g # f => flush'[g] = flush[g]
  BY DEF TypeInv, TypeOK
<1>2. NotFlushing.pc = "idle"
  BY DEF NotFlushing
<1> QED BY <1>1, <1>2, IdleInTurn, LogKeeps

LEMMA LogFlushStep ==
  ASSUME TypeInv, LogInv, NEW f \in Flushes, FlushStep(f) \/ FlushFault(f), OneFlush
  PROVE  LogInv'
<1>1. /\ flush \in [Flushes -> FlushState] /\ flush[f] \in FlushState /\ buffer \in Seq(Msgs)
      /\ storedBuffer \in Seq(Msgs) /\ accepted \in Seq(Msgs)
  BY DEF TypeInv, TypeOK
<1>2. /\ InTurn(flush[f], buffer, rows)
      /\ flush[f].pc # "idle" => loaded
      /\ timer => loaded
      /\ loaded => storedBuffer = buffer
  BY DEF LogInv, MemoryInv
<1>3. flush[f].pc \in AskedMax \cup InLoop => Batch(f) = buffer /\ flush[f].aliased
  BY <1>2 DEF InTurn, Batch
<1> USE DEF storage, outside, history
<1>4. CASE FlushTimer(f)
  <2> DEFINE started == [NotFlushing EXCEPT !.aliased = TRUE]
             known   == IF nextSerial # 0 THEN nextSerial ELSE storedNext
  <2>1. started \in FlushState /\ started.aliased
    BY NotFlushingType DEF FlushState, NotFlushing
  <2>2. UNCHANGED <<buffer, loaded, storedBuffer, accepted, rows>> /\ timer' = FALSE /\ loaded
    BY <1>2, <1>4 DEF FlushTimer
  <2>3. CASE UNCHANGED flush
    BY <2>2, <2>3, LogSame
  <2>4. CASE buffer # << >> /\ flush' = [flush EXCEPT ![f] = Inserting(started, 1, buffer[1], 0, known)]
    <3>1. 1 \in 1 .. Len(buffer) /\ 1 .. 1 - 1 = {}
      BY <1>1, <2>4
    <3>2. InTurn(Inserting(started, 1, buffer[1], 0, known), buffer, rows)
      BY <2>1, <3>1, InsertingInTurn
    <3> HIDE DEF started, known
    <3>3. /\ flush'[f] = Inserting(started, 1, buffer[1], 0, known)
          /\ \A g \in Flushes : g # f => flush'[g] = flush[g]
      BY <1>1, <2>4
    <3> QED BY <2>2, <3>2, <3>3, LogKeeps
  <2>5. CASE flush' = [flush EXCEPT ![f] = [started EXCEPT !.pc = "recover"]]
    <3>1. flush'[f].pc = "recover" /\ flush'[f].aliased
          /\ \A g \in Flushes : g # f => flush'[g] = flush[g]
      BY <1>1, <2>5 DEF NotFlushing
    <3>2. InTurn(flush'[f], buffer, rows)
      BY <3>1 DEF InTurn, InLoop
    <3> QED BY <2>2, <3>1, <3>2, LogKeeps
  <2> QED BY <1>4, <2>3, <2>4, <2>5 DEF FlushTimer
<1>5. CASE NeonMax(f)
  <2>1. /\ flush[f].pc \in {"recover", "bumping"}
        /\ UNCHANGED <<buffer, loaded, storedBuffer, accepted, rows, timer>>
    BY <1>5 DEF NeonMax
  <2>2. /\ flush'[f].pc = IF flush[f].pc = "recover" THEN "recovered" ELSE "bumped"
        /\ flush'[f].aliased = flush[f].aliased
        /\ flush'[f].pos = flush[f].pos /\ flush'[f].entry = flush[f].entry
        /\ \A g \in Flushes : g # f => flush'[g] = flush[g]
    BY <1>1, <1>5 DEF NeonMax, FlushState
  <2>3. InTurn(flush'[f], buffer, rows)
    BY <1>2, <2>1, <2>2 DEF InTurn, InLoop, AskedMax
  <2> QED BY <1>2, <2>1, <2>2, <2>3, LogKeeps
<1>6. CASE NeonMaxFails(f) \/ FanoutFails(f) \/ PushFails(f) \/ Push(f)
  BY <1>6, IdleKeeps DEF NeonMaxFails, FanoutFails, PushFails, Push
<1>7. CASE Recovered(f)
  <2>1. /\ flush[f].pc = "recovered" /\ UNCHANGED <<buffer, loaded, storedBuffer, accepted, rows, timer>>
        /\ flush' = [flush EXCEPT ![f] = Inserting(@, 1, Batch(f)[1], 0, @.max + 1)]
    BY <1>7 DEF Recovered
  <2>2. Batch(f) = buffer /\ flush[f].aliased /\ buffer # << >>
    BY <1>3, <2>1 DEF AskedMax, TypeInv, HandInv
  <2>3. 1 \in 1 .. Len(buffer) /\ 1 .. 1 - 1 = {}
    BY <1>1, <2>2
  <2>4. flush'[f] = Inserting(flush[f], 1, buffer[1], 0, flush[f].max + 1)
        /\ \A g \in Flushes : g # f => flush'[g] = flush[g]
    BY <1>1, <2>1, <2>2
  <2>5. InTurn(flush'[f], buffer, rows')
    BY <1>1, <2>1, <2>2, <2>3, <2>4, InsertingInTurn
  <2> QED BY <1>2, <2>1, <2>4, <2>5, LogKeeps
<1>8. CASE NeonInsert(f)
  <2>1. PICK at \in {now, now + 1}, outcome \in {"inserted", "conflict", "error"} :
          InsertRow(flush[f].serial, flush[f].entry, at, outcome) /\ SetPc(f, outcome)
    BY <1>8 DEF NeonInsert
  <2>2. rows \subseteq rows' /\ (outcome = "inserted" => DurableIn(flush[f].entry, rows'))
    <3>1. PICK r : r = [serial |-> flush[f].serial, msg |-> flush[f].entry, createdAt |-> at]
      OBVIOUS
    <3>2. r.msg = flush[f].entry
      BY <3>1
    <3>3. rows' = IF outcome = "inserted" THEN rows \cup {r} ELSE rows
      BY <2>1, <3>1 DEF InsertRow
    <3> QED BY <3>2, <3>3 DEF DurableIn
  <2>3. /\ flush[f].pc = "insert" /\ UNCHANGED <<buffer, loaded, storedBuffer, accepted, timer>>
        /\ outcome \in Pcs /\ outcome \notin AskedMax
    BY <1>8 DEF NeonInsert, Pcs, AskedMax
  <2> QED BY <2>1, <2>2, <2>3, SetPcInTurn DEF InLoop
<1>9. CASE InsertFails(f) \/ InsertAnswerLost(f) \/ InsertConflict(f) \/ Fanout(f)
  <2>1. PICK p \in {"error", "bumping", "push"} :
          /\ SetPc(f, p) /\ flush[f].pc # "idle"
          /\ p \in InLoop => flush[f].pc \in InLoop
    BY <1>9 DEF InsertFails, InsertAnswerLost, InsertConflict, Fanout, Thrown, InLoop
  <2>2. UNCHANGED <<buffer, loaded, storedBuffer, accepted, timer, rows>>
    BY <1>9 DEF InsertFails, InsertAnswerLost, InsertConflict, Fanout
  <2> QED BY <2>1, <2>2, SetPcInTurn DEF Pcs, AskedMax
<1>10. CASE InsertThrew(f) \/ Bumped(f)
  <2>1. /\ flush[f].pc \in InLoop /\ UNCHANGED <<buffer, loaded, storedBuffer, accepted, timer, rows>>
    BY <1>10 DEF InsertThrew, Bumped, InLoop
  <2>2. CASE GiveUp(f)
    BY <2>1, <2>2, IdleKeeps DEF GiveUp
  <2>3. CASE \E s : flush' = [flush EXCEPT ![f] = Inserting(@, @.pos, @.entry, 1, s)]
    <3>1. PICK s : flush' = [flush EXCEPT ![f] = Inserting(@, @.pos, @.entry, 1, s)]
      BY <2>3
    <3> DEFINE k == flush[f].pos
    <3>2. /\ flush[f].aliased /\ k \in 1 .. Len(buffer) /\ flush[f].entry = buffer[k]
          /\ \A i \in 1 .. k - 1 : DurableIn(buffer[i], rows)
      BY <1>2, <2>1 DEF InTurn
    <3>3. flush'[f] = Inserting(flush[f], k, buffer[k], 1, s)
          /\ \A g \in Flushes : g # f => flush'[g] = flush[g]
      BY <1>1, <3>1, <3>2
    <3> HIDE DEF k
    <3>4. InTurn(flush'[f], buffer, rows')
      BY <1>1, <2>1, <3>2, <3>3, InsertingInTurn
    <3>5. loaded
      BY <1>2, <2>1 DEF InLoop
    <3> QED BY <2>1, <3>3, <3>4, <3>5, LogKeeps
  <2> QED BY <1>10, <2>2, <2>3 DEF InsertThrew, Bumped
<1>11. CASE InsertedMore(f)
  <2>1. /\ flush[f].pc = "inserted" /\ UNCHANGED <<buffer, loaded, storedBuffer, accepted, timer, rows>>
        /\ flush[f].pos < Len(Batch(f))
        /\ flush' = [flush EXCEPT ![f] =
             Inserting(Assign(f), @.pos + 1, Batch(f)[@.pos + 1], 0, @.serial + 1)]
    BY <1>11 DEF InsertedMore
  <2>2. /\ Batch(f) = buffer /\ flush[f].aliased /\ flush[f].pos \in 1 .. Len(buffer) /\ loaded
        /\ flush[f].entry = buffer[flush[f].pos] /\ DurableIn(flush[f].entry, rows)
        /\ \A i \in 1 .. flush[f].pos - 1 : DurableIn(buffer[i], rows)
    BY <1>2, <1>3, <2>1 DEF InTurn, InLoop
  <2> DEFINE k == flush[f].pos + 1
  <2>3. k \in 1 .. Len(buffer) /\ \A i \in 1 .. k - 1 : DurableIn(buffer[i], rows)
    <3>1. flush[f].pos \in Nat /\ Len(buffer) \in Nat
      BY <1>1, <2>2
    <3>2. \A i \in 1 .. k - 1 : i = flush[f].pos \/ i \in 1 .. flush[f].pos - 1
      BY <3>1
    <3>3. k \in 1 .. Len(buffer)
      BY <2>1, <2>2, <3>1
    <3> QED BY <2>2, <3>2, <3>3
  <2>4. Assign(f) \in FlushState /\ Assign(f).aliased
    BY <1>1, <2>1, <2>2, AssignType DEF Assign, FlushState
  <2>5. flush'[f] = Inserting(Assign(f), k, buffer[k], 0, flush[f].serial + 1)
        /\ \A g \in Flushes : g # f => flush'[g] = flush[g]
    BY <1>1, <2>1, <2>2
  <2> HIDE DEF k
  <2>6. InTurn(flush'[f], buffer, rows')
    BY <2>1, <2>3, <2>4, <2>5, InsertingInTurn
  <2> QED BY <2>1, <2>2, <2>5, <2>6, LogKeeps
<1>12. CASE InsertedLast(f)
  <2>1. /\ flush[f].pc = "inserted" /\ UNCHANGED <<loaded, timer, accepted, rows>>
        /\ flush[f].pos >= Len(Batch(f)) /\ storedBuffer' = << >> /\ buffer' = << >>
        /\ flush' = [g \in Flushes |->
             IF g = f THEN [Assign(f) EXCEPT !.pc = "fanout"] ELSE Detached(flush[g])]
    BY <1>12 DEF InsertedLast, NewArray
  <2>2. /\ Batch(f) = buffer /\ flush[f].pos \in 1 .. Len(buffer) /\ loaded /\ storedBuffer = buffer
        /\ flush[f].entry = buffer[flush[f].pos] /\ DurableIn(flush[f].entry, rows)
        /\ \A i \in 1 .. flush[f].pos - 1 : DurableIn(buffer[i], rows)
    BY <1>2, <1>3, <2>1 DEF InTurn, InLoop
  <2>3. \A i \in 1 .. Len(buffer) : DurableIn(buffer[i], rows)
    <3>1. flush[f].pos \in Nat /\ Len(buffer) \in Nat
      BY <1>1, <2>2
    <3>2. \A i \in 1 .. Len(buffer) : i = flush[f].pos \/ i \in 1 .. flush[f].pos - 1
      BY <2>1, <2>2, <3>1
    <3> QED BY <2>2, <3>2
  <2>4. Unwritten(storedBuffer', accepted', rows')
    BY <1>1, <2>1, <2>2, <2>3, NothingUnwritten DEF LogInv
  <2>5. \A g \in Flushes : flush'[g].pc = "fanout"
    <3>1. Assign(f) \in FlushState
      BY <2>1, AssignType
    <3>2. [Assign(f) EXCEPT !.pc = "fanout"].pc = "fanout"
      BY <3>1 DEF FlushState
    <3> QED BY <2>1, <3>2 DEF OneFlush
  <2>6. \A g \in Flushes : InTurn(flush'[g], buffer', rows')
    BY <2>5 DEF InTurn, InLoop, AskedMax
  <2>7. MemoryInv'
    BY <2>1, <2>2 DEF MemoryInv
  <2> QED BY <2>4, <2>6, <2>7 DEF LogInv
<1> QED BY <1>4, <1>5, <1>6, <1>7, <1>8, <1>9, <1>10, <1>11, <1>12 DEF FlushStep, FlushFault

LEMMA LogStep ==
  ASSUME TypeInv, LogInv, OneFlush, [Next]_vars
  PROVE  LogInv'
<1>0. /\ flush \in [Flushes -> FlushState] /\ buffer \in Seq(Msgs)
      /\ storedBuffer \in Seq(Msgs) /\ accepted \in Seq(Msgs)
  BY DEF TypeInv, TypeOK
<1>1. ASSUME NEW m \in Msgs, AcceptSend(m) PROVE LogInv'
  <2>1. /\ buffer' = Append(storedBuffer, m) /\ storedBuffer' = buffer' /\ loaded' = TRUE
        /\ accepted' = Append(accepted, m) /\ UNCHANGED <<flush, rows>>
    BY <1>1 DEF AcceptSend, BufferWith, StoredWith, Held, LogInv, MemoryInv, outside
  <2>2. Unwritten(storedBuffer', accepted', rows')
    BY <1>0, <2>1, UnwrittenStays DEF LogInv
  <2>3. ASSUME NEW g \in Flushes PROVE InTurn(flush'[g], buffer', rows')
    <3>1. CASE loaded
      BY <1>0, <2>1, <3>1, InTurnStays DEF LogInv, MemoryInv
    <3>2. CASE ~loaded
      BY <2>1, <3>2 DEF LogInv, MemoryInv, InTurn, InLoop, AskedMax
    <3> QED BY <3>1, <3>2
  <2>4. MemoryInv'
    BY <2>1 DEF MemoryInv
  <2> QED BY <2>2, <2>3, <2>4 DEF LogInv
<1>2. ASSUME NEW o \in orphans, NeonOrphan(o) PROVE LogInv'
  <2>1. rows \subseteq rows' /\ UNCHANGED <<flush, buffer, loaded, storedBuffer, accepted, timer>>
    BY <1>2 DEF NeonOrphan, InsertRow, memory, storage, history
  <2> QED BY <2>1, LogSame
<1>3. CASE \/ UNCHANGED vars \/ \E u \in Users : AttachInbox(u) \/ DetachInbox(u)
           \/ \E v \in kvPending : KvPut(v)
  <2>1. UNCHANGED <<flush, buffer, loaded, storedBuffer, accepted, timer, rows>>
    BY <1>3 DEF vars, AttachInbox, DetachInbox, KvPut, memory, storage, outside, history
  <2> QED BY <2>1, LogSame
<1>4. CASE Crash
  <2>1. /\ buffer' = << >> /\ loaded' = FALSE /\ timer' = FALSE
        /\ UNCHANGED <<storedBuffer, accepted, rows>>
        /\ \A g \in Flushes : flush'[g] = NotFlushing
    BY <1>4 DEF Crash, storage
  <2>2. MemoryInv'
    BY <2>1 DEF MemoryInv, NotFlushing
  <2> QED BY <2>1, <2>2, IdleInTurn DEF LogInv
<1> QED BY <1>1, <1>2, <1>3, <1>4, LogFlushStep DEF Next

LEMMA LogStarts == Init => LogInv
<1> SUFFICES ASSUME Init PROVE LogInv
  OBVIOUS
<1>1. MemoryInv
  BY DEF Init, MemoryInv, NotFlushing
<1>2. Unwritten(storedBuffer, accepted, rows)
  <2>1. Len(<< >>) = 0 + 0 /\ 1 .. 0 = {} /\ Len(<< >>) = 0
    OBVIOUS
  <2> QED BY <2>1 DEF Init, Unwritten
<1>3. \A f \in Flushes : InTurn(flush[f], buffer, rows)
  BY IdleInTurn DEF Init
<1> QED BY <1>1, <1>2, <1>3 DEF LogInv

LEMMA LogInvariant == ASSUME OneFlush PROVE Spec => []LogInv
<1>1. TypeInv /\ LogInv /\ [Next]_vars => LogInv'
  BY LogStep
<1> QED BY TypeInvariant, LogStarts, <1>1, PTL DEF Spec

\* As long as flushes do not overlap, an accepted send is in Neon or in the stored
\* buffer at every moment, for any number of sends, copies, failed calls, lost answers
\* and restarts (chat.ts acceptSend(), flush()); run chat_overlap shows that two
\* flushes at a time lose one.
THEOREM NoLostSendCorrect == ASSUME OneFlush PROVE Spec => []NoLostSend
<1>1. TypeInv /\ LogInv => NoLostSend
  <2> SUFFICES ASSUME TypeInv, LogInv, NEW i \in DOMAIN accepted
               PROVE  \/ \E r \in rows : r.msg = accepted[i]
                      \/ \E j \in DOMAIN storedBuffer : storedBuffer[j] = accepted[i]
    BY DEF NoLostSend
  <2>1. PICK n \in Nat : /\ Len(accepted) = n + Len(storedBuffer)
                         /\ \A j \in 1 .. Len(storedBuffer) : storedBuffer[j] = accepted[n + j]
                         /\ \A k \in 1 .. n : DurableIn(accepted[k], rows)
    BY DEF LogInv, Unwritten
  <2>2. i \in 1 .. Len(accepted) /\ Len(storedBuffer) \in Nat
        /\ DOMAIN storedBuffer = 1 .. Len(storedBuffer)
    BY DEF TypeInv, TypeOK
  <2>3. CASE i \in 1 .. n
    BY <2>1, <2>3 DEF DurableIn
  <2>4. CASE i \notin 1 .. n
    <3>1. i - n \in 1 .. Len(storedBuffer) /\ n + (i - n) = i
      BY <2>1, <2>2, <2>4
    <3> QED BY <2>1, <2>2, <3>1
  <2> QED BY <2>3, <2>4
<1> QED BY <1>1, TypeInvariant, LogInvariant, PTL

-----------------------------------------------------------------------------
\* The object implements DurableLog

\* m was accepted, and everything accepted before it is durable.
Ready(m, acc, R) ==
  \E p \in DOMAIN acc : acc[p] = m /\ \A q \in 1 .. p - 1 : DurableIn(acc[q], R)

\* Each message was accepted once, rows are of accepted messages and come in the
\* order of acceptance, statements that are still on their way included.
OrderInv ==
  /\ \A i, j \in DOMAIN accepted : accepted[i] = accepted[j] => i = j
  /\ \A r \in rows : Ready(r.msg, accepted, rows)
  /\ \A o \in orphans : Ready(o.msg, accepted, rows)

LEMMA ReadyStays ==
  ASSUME NEW m, NEW acc \in Seq(Msgs), NEW R, NEW S, R \subseteq S, Ready(m, acc, R)
  PROVE  /\ Ready(m, acc, S)
         /\ \A x \in Msgs : Ready(m, Append(acc, x), S)
<1>1. PICK p \in DOMAIN acc : acc[p] = m /\ \A q \in 1 .. p - 1 : DurableIn(acc[q], R)
  BY DEF Ready
<1>2. p \in 1 .. Len(acc) /\ Len(acc) \in Nat /\ \A q \in 1 .. p - 1 : DurableIn(acc[q], S)
  BY <1>1 DEF DurableIn
<1>3. ASSUME NEW x \in Msgs PROVE Ready(m, Append(acc, x), S)
  <2>1. /\ DOMAIN Append(acc, x) = 1 .. Len(acc) + 1
        /\ \A i \in 1 .. Len(acc) : Append(acc, x)[i] = acc[i]
    OBVIOUS
  <2>2. p \in 1 .. Len(acc) + 1 /\ \A q \in 1 .. p - 1 : q \in 1 .. Len(acc)
    BY <1>2
  <2>3. Append(acc, x)[p] = m /\ \A q \in 1 .. p - 1 : DurableIn(Append(acc, x)[q], S)
    BY <1>1, <1>2, <2>1, <2>2
  <2> QED BY <2>1, <2>2, <2>3 DEF Ready
<1> QED BY <1>1, <1>2, <1>3 DEF Ready

\* The entry of an INSERT under way is the oldest that is not durable, or durable.
LEMMA HandIsReady ==
  ASSUME TypeInv, LogInv, NEW f \in Flushes, flush[f].pc = "insert"
  PROVE  Ready(flush[f].entry, accepted, rows)
<1>1. /\ accepted \in Seq(Msgs) /\ buffer \in Seq(Msgs) /\ flush[f].pos \in Nat
  BY DEF TypeInv, TypeOK, FlushState
<1>2. PICK n \in Nat : /\ Len(accepted) = n + Len(buffer)
                       /\ \A j \in 1 .. Len(buffer) : buffer[j] = accepted[n + j]
                       /\ \A i \in 1 .. n : DurableIn(accepted[i], rows)
  <2>1. loaded /\ storedBuffer = buffer
    BY DEF LogInv, MemoryInv
  <2> QED BY <2>1 DEF LogInv, Unwritten
<1> DEFINE k == flush[f].pos
<1>3. /\ k \in 1 .. Len(buffer) /\ flush[f].entry = buffer[k]
      /\ \A i \in 1 .. k - 1 : DurableIn(buffer[i], rows)
  BY DEF LogInv, InTurn, InLoop
<1> HIDE DEF k
<1>4. /\ n + k \in DOMAIN accepted /\ accepted[n + k] = flush[f].entry /\ k \in Nat
      /\ Len(buffer) \in Nat
  BY <1>1, <1>2, <1>3
<1>5. ASSUME NEW q \in 1 .. n + k - 1 PROVE DurableIn(accepted[q], rows)
  <2>1. CASE q \in 1 .. n
    BY <1>2, <2>1
  <2>2. CASE q \notin 1 .. n
    <3>1. q - n \in 1 .. k - 1 /\ q - n \in 1 .. Len(buffer) /\ n + (q - n) = q
      BY <1>3, <1>4, <2>2
    <3> QED BY <1>2, <1>3, <3>1
  <2> QED BY <2>1, <2>2
<1> QED BY <1>4, <1>5 DEF Ready

\* One row of a message that is ready, or none.
Writes ==
  /\ UNCHANGED <<accepted, sent>> /\ orphans' \subseteq orphans
  /\ \E r : rows' = rows \cup {r} /\ Ready(r.msg, accepted, rows)

Rests ==
  /\ UNCHANGED <<accepted, rows>> /\ sent \subseteq sent'
  /\ \A o \in orphans' : Ready(o.msg, accepted, rows)

LEMMA InsertWrites ==
  ASSUME NEW s, NEW m, NEW at, NEW outcome, InsertRow(s, m, at, outcome), OrderInv,
         Ready(m, accepted, rows), UNCHANGED <<accepted, sent>>, orphans' \subseteq orphans
  PROVE  Writes \/ Rests
<1>1. PICK r : r = [serial |-> s, msg |-> m, createdAt |-> at]
  OBVIOUS
<1>2. r.msg = m
  BY <1>1
<1>3. rows' = rows \/ rows' = rows \cup {r}
  BY <1>1 DEF InsertRow
<1> QED BY <1>2, <1>3 DEF Writes, Rests, OrderInv

LEMMA StepKinds ==
  ASSUME TypeInv, LogInv, OrderInv, [Next]_vars
  PROVE  (\E m \in Msgs : AcceptSend(m)) \/ Writes \/ Rests
<1> USE DEF memory, storage, outside, history
<1>1. ASSUME NEW f \in Flushes, NeonInsert(f) PROVE Writes \/ Rests
  <2>1. PICK at \in {now, now + 1}, outcome \in {"inserted", "conflict", "error"} :
          InsertRow(flush[f].serial, flush[f].entry, at, outcome)
    BY <1>1 DEF NeonInsert
  <2>2. Ready(flush[f].entry, accepted, rows) /\ UNCHANGED <<accepted, sent, orphans>>
    BY <1>1, HandIsReady DEF NeonInsert
  <2> QED BY <2>1, <2>2, InsertWrites
<1>2. ASSUME NEW o \in orphans, NeonOrphan(o) PROVE Writes \/ Rests
  <2>1. PICK at \in {now, now + 1}, outcome \in {"inserted", "conflict", "error"} :
          InsertRow(o.serial, o.msg, at, outcome)
    BY <1>2 DEF NeonOrphan
  <2>2. Ready(o.msg, accepted, rows) /\ UNCHANGED <<accepted, sent>> /\ orphans' \subseteq orphans
    BY <1>2 DEF NeonOrphan, OrderInv
  <2> QED BY <2>1, <2>2, InsertWrites
<1>3. ASSUME NEW f \in Flushes, InsertAnswerLost(f) PROVE Rests
  <2>1. UNCHANGED <<accepted, rows, sent>>
    BY <1>3 DEF InsertAnswerLost
  <2>2. CASE flush[f].pc = "insert"
    <3>1. PICK new : new = [serial |-> flush[f].serial, msg |-> flush[f].entry]
      OBVIOUS
    <3>2. new.msg = flush[f].entry /\ orphans' = orphans \cup {new}
      BY <1>3, <2>2, <3>1 DEF InsertAnswerLost
    <3> QED BY <2>1, <2>2, <3>2, HandIsReady DEF Rests, OrderInv
  <2>3. CASE flush[f].pc # "insert"
    BY <1>3, <2>1, <2>3 DEF InsertAnswerLost, Rests, OrderInv
  <2> QED BY <2>2, <2>3
<1>4. CASE Crash
  <2>1. \A f \in Flushes : flush[f].pc = "insert" => Ready(flush[f].entry, accepted, rows)
    BY HandIsReady
  <2>2. \A o \in orphans' : Ready(o.msg, accepted, rows)
    BY <1>4, <2>1 DEF Crash, OrderInv
  <2> QED BY <1>4, <2>2 DEF Crash, Rests
<1>5. ASSUME \/ UNCHANGED vars \/ \E u \in Users : AttachInbox(u) \/ DetachInbox(u)
             \/ \E v \in kvPending : KvPut(v)
      PROVE  Rests
  BY <1>5 DEF vars, AttachInbox, DetachInbox, KvPut, Rests, OrderInv
<1>6. ASSUME NEW f \in Flushes,
             \/ FlushTimer(f) \/ NeonMax(f) \/ Recovered(f) \/ InsertThrew(f) \/ InsertConflict(f)
             \/ Bumped(f) \/ InsertedMore(f) \/ InsertedLast(f) \/ Fanout(f) \/ Push(f)
             \/ NeonMaxFails(f) \/ InsertFails(f) \/ FanoutFails(f) \/ PushFails(f)
      PROVE  Rests
  <2>1. UNCHANGED <<accepted, rows, orphans>> /\ sent \subseteq sent'
    BY <1>6 DEF FlushTimer, NeonMax, Recovered, InsertThrew, GiveUp, InsertConflict, Bumped,
       InsertedMore, InsertedLast, Fanout, Push, NeonMaxFails, InsertFails, FanoutFails, PushFails
  <2> QED BY <2>1 DEF Rests, OrderInv
<1> QED BY <1>1, <1>2, <1>3, <1>4, <1>5, <1>6 DEF Next, FlushStep, FlushFault

LEMMA AcceptedIsNew ==
  ASSUME TypeInv, MaxCopies = 1, NEW m \in Msgs, AcceptSend(m)
  PROVE  \A i \in DOMAIN accepted : accepted[i] # m
<1> DEFINE S == {i \in DOMAIN accepted : accepted[i] = m}
<1>1. IsFiniteSet(S) /\ DOMAIN accepted = 1 .. Len(accepted)
  <2>1. Len(accepted) \in Nat /\ DOMAIN accepted = 1 .. Len(accepted)
    BY DEF TypeInv, TypeOK
  <2>2. IsFiniteSet(1 .. Len(accepted)) /\ S \subseteq 1 .. Len(accepted)
    BY <2>1, FS_Interval
  <2> QED BY <2>1, <2>2, FS_Subset
<1>2. Cardinality(S) < 1
  BY DEF AcceptSend, Copies
<1> HIDE DEF S
<1>3. Cardinality(S) \in Nat
  BY <1>1, FS_CardinalityType
<1>4. S = {}
  BY <1>1, <1>2, <1>3, FS_EmptySet
<1> QED BY <1>4 DEF S

LEMMA OrderStep ==
  ASSUME TypeInv, LogInv, OrderInv, MaxCopies = 1, [Next]_vars
  PROVE  OrderInv'
<1>0. accepted \in Seq(Msgs)
  BY DEF TypeInv, TypeOK
<1>1. ASSUME NEW m \in Msgs, AcceptSend(m) PROVE OrderInv'
  <2>1. accepted' = Append(accepted, m) /\ UNCHANGED <<rows, orphans>>
    BY <1>1 DEF AcceptSend, outside
  <2>2. \A i, j \in DOMAIN accepted' : accepted'[i] = accepted'[j] => i = j
    <3>1. /\ DOMAIN accepted = 1 .. Len(accepted) /\ Len(accepted) \in Nat
          /\ DOMAIN accepted' = 1 .. Len(accepted) + 1
          /\ \A i \in 1 .. Len(accepted) : accepted'[i] = accepted[i]
          /\ accepted'[Len(accepted) + 1] = m
      BY <1>0, <2>1
    <3>2. \A i \in DOMAIN accepted' : i = Len(accepted) + 1 \/ i \in DOMAIN accepted
      BY <3>1
    <3> QED BY <1>1, <3>1, <3>2, AcceptedIsNew DEF OrderInv
  <2> QED BY <1>0, <2>1, <2>2, ReadyStays DEF OrderInv
<1>2. ASSUME Writes PROVE OrderInv'
  <2>1. PICK r : rows' = rows \cup {r} /\ Ready(r.msg, accepted, rows)
    BY <1>2 DEF Writes
  <2> QED BY <1>0, <1>2, <2>1, ReadyStays DEF OrderInv, Writes
<1>3. ASSUME Rests PROVE OrderInv'
  BY <1>3 DEF Rests, OrderInv
<1> QED BY <1>1, <1>2, <1>3, StepKinds

LEMMA OrderStarts == Init => OrderInv
  BY DEF Init, OrderInv

\* What is acked is durable, and what is durable was accepted.
LEMMA AckedIsPersisted ==
  ASSUME SerialInv, TypeInv
  PROVE  AckedAt \subseteq PersistedAt /\ \A m : Acked(m) => DurableIn(m, rows)
<1>1. ASSUME NEW m, Acked(m) PROVE DurableIn(m, rows)
  BY <1>1 DEF Acked, SerialInv, SentIsDurable, DurableIn
<1> QED BY <1>1 DEF AckedAt, PersistedAt, DurableIn

LEMMA LogRefines ==
  ASSUME TypeInv, LogInv, OrderInv, SerialInv, SerialInv', TypeInv', MaxCopies = 1, [Next]_vars
  PROVE  Log!Next \/ UNCHANGED Log!vars
<1>0. /\ accepted \in Seq(Msgs) /\ Len(accepted) \in Nat /\ DOMAIN accepted = 1 .. Len(accepted)
      /\ \A i \in DOMAIN accepted : accepted[i] \in Msgs
  BY DEF TypeInv, TypeOK
<1>1. ASSUME NEW m \in Msgs, AcceptSend(m) PROVE Log!Accept(m)
  <2>1. accepted' = Append(accepted, m) /\ UNCHANGED <<rows, sent>>
    BY <1>1 DEF AcceptSend, outside
  <2>2. /\ DOMAIN accepted' = 1 .. Len(accepted) + 1
        /\ \A i \in 1 .. Len(accepted) : accepted'[i] = accepted[i]
        /\ accepted'[Len(accepted) + 1] = m
    BY <1>0, <2>1
  <2>3. ~DurableIn(m, rows)
    <3>1. ASSUME NEW r \in rows, r.msg = m PROVE FALSE
      BY <1>1, <3>1, AcceptedIsNew DEF OrderInv, Ready
    <3> QED BY <3>1 DEF DurableIn
  <2>4. ~Acked(m)
    BY <2>3, AckedIsPersisted
  <2>5. \A i \in 1 .. Len(accepted) + 1 : i = Len(accepted) + 1 \/ i \in 1 .. Len(accepted)
    BY <1>0
  <2>6. \A i \in 1 .. Len(accepted) : i \in 1 .. Len(accepted) + 1
    BY <1>0
  <2>7. PersistedAt' = PersistedAt
    <3>1. \A i \in DOMAIN accepted' : DurableIn(accepted'[i], rows) => i \in 1 .. Len(accepted)
      BY <2>2, <2>3, <2>5
    <3> QED BY <1>0, <2>1, <2>2, <2>6, <3>1 DEF PersistedAt, DurableIn
  <2>8. AckedAt' = AckedAt
    <3>1. \A x : Acked(x)' <=> Acked(x)
      BY <2>1 DEF Acked
    <3>2. AckedAt' = {i \in DOMAIN accepted' : Acked(accepted'[i])}
      BY <2>1 DEF AckedAt, Acked
    <3> QED BY <1>0, <2>2, <2>4, <2>5, <2>6, <3>2 DEF AckedAt
  <2> QED BY <2>1, <2>7, <2>8 DEF Log!Accept
<1>2. ASSUME Writes PROVE Log!Persist \/ UNCHANGED Log!vars
  <2>1. PICK r : rows' = rows \cup {r} /\ Ready(r.msg, accepted, rows)
    BY <1>2 DEF Writes
  <2>2. PICK p \in DOMAIN accepted :
          accepted[p] = r.msg /\ \A q \in 1 .. p - 1 : DurableIn(accepted[q], rows)
    BY <2>1 DEF Ready
  <2>3. accepted' = accepted /\ AckedAt' = AckedAt
    BY <1>2 DEF Writes, AckedAt, Acked
  <2>4. PersistedAt' = PersistedAt \cup {p}
    <3>1. \A i \in DOMAIN accepted : accepted[i] = r.msg <=> i = p
      BY <2>2 DEF OrderInv
    <3>2. PersistedAt' = {i \in DOMAIN accepted : \E q \in rows \cup {r} : q.msg = accepted[i]}
      BY <2>1, <2>3 DEF PersistedAt
    <3> QED BY <3>1, <3>2 DEF PersistedAt
  <2>5. CASE p \in PersistedAt
    <3>1. PersistedAt' = PersistedAt
      BY <2>4, <2>5
    <3> QED BY <2>3, <3>1 DEF Log!vars
  <2>6. CASE p \notin PersistedAt
    <3>1. \A i \in 1 .. p - 1 : i \in DOMAIN accepted
      BY <1>0
    <3>2. 1 .. p - 1 \subseteq PersistedAt
      BY <2>2, <3>1 DEF PersistedAt, DurableIn
    <3> QED BY <2>3, <2>4, <2>6, <3>2 DEF Log!Persist
  <2> QED BY <2>5, <2>6
<1>3. ASSUME Rests PROVE Log!Ack
  <2>1. accepted' = accepted /\ PersistedAt' = PersistedAt
    BY <1>3 DEF Rests, PersistedAt
  <2>2. AckedAt \subseteq AckedAt'
    BY <1>3 DEF Rests, AckedAt, Acked
  <2>3. AckedAt' \subseteq PersistedAt
    <3>1. (AckedAt \subseteq PersistedAt)'
      BY AckedIsPersisted DEF AckedAt, PersistedAt, Acked, DurableIn, SerialInv, SentIsDurable
    <3> QED BY <2>1, <3>1
  <2> QED BY <2>1, <2>2, <2>3 DEF Log!Ack
<1> QED BY <1>1, <1>2, <1>3, StepKinds DEF Log!Next

LEMMA LogInitRefines == Init => Log!Init
  BY DEF Init, Log!Init, PersistedAt, AckedAt

\* As long as flushes do not overlap and the transport hands over each message once,
\* the object is a durable log: what it accepts becomes durable in that order, one by
\* one, and only durable sends are acked, through restarts, lost answers, statements
\* that are executed late and failed calls (chat.ts acceptSend(), flush()).
THEOREM DurableLogImplemented == ASSUME OneFlush, MaxCopies = 1 PROVE Spec => ImplementsDurableLog
<1> DEFINE IInv == TypeInv /\ LogInv /\ OrderInv /\ SerialInv
<1>1. IInv /\ [Next]_vars => OrderInv'
  BY OrderStep
<1>2. Spec => []IInv
  BY <1>1, TypeInvariant, LogInvariant, SerialInvariant, OrderStarts, PTL DEF Spec
<1>3. IInv /\ IInv' /\ [Next]_vars => [Log!Next]_(Log!vars)
  BY LogRefines
<1> HIDE DEF IInv
<1> QED BY <1>2, <1>3, LogInitRefines, PTL DEF Spec, ImplementsDurableLog, Log!Spec

-----------------------------------------------------------------------------
\* One row for each send

\* Nothing but one failed call happens, which the retry of insertWithRetry() covers.
NoTrouble == OneFlush /\ MaxCopies = 1 /\ MaxLost = 0 /\ MaxCrashes = 0 /\ MaxFails \in {0, 1}

\* The flush fl uses the counter next, and has a failed call behind it if it retries.
Once(fl, next, fails) ==
  /\ fl.pc \notin {"conflict", "bumping", "bumped"}
  /\ fl.pc \in {"insert", "inserted", "error"} => fl.serial = next /\ next # 0
  /\ fl.pc \in AskedMax => next = 0
  /\ fl.pc = "recovered" => fl.max = 0
  /\ fl.pc = "error" => fails = 1 /\ fl.attempt = 0
  /\ fl.pc = "insert" /\ fl.attempt # 0 => fails = 1

\* fl has written the entry j of its buffer.
Wrote(fl, j) == fl.pc \in InLoop /\ (j < fl.pos \/ (j = fl.pos /\ fl.pc = "inserted"))

\* Every serial in Neon is below the counter, which a row just written has reached;
\* the entries of the stored buffer have no row before their turn.
OnceInv ==
  /\ orphans = {}
  /\ nextSerial = 0 => rows = {} /\ storedNext = 0
  /\ \A r \in rows : r.serial < nextSerial \/ (r.serial = nextSerial /\ \E f \in Flushes : flush[f].pc = "inserted")
  /\ \A f \in Flushes : Once(flush[f], nextSerial, faults.fails)
  /\ \A j \in DOMAIN storedBuffer : DurableIn(storedBuffer[j], rows) =>
       \E f \in Flushes : Wrote(flush[f], j)
  /\ ExactlyOnce

LEMMA BufferIsDistinct ==
  ASSUME TypeInv, LogInv, OrderInv, NEW i \in DOMAIN storedBuffer, NEW j \in DOMAIN storedBuffer,
         storedBuffer[i] = storedBuffer[j]
  PROVE  i = j
<1>1. PICK n \in Nat : /\ Len(accepted) = n + Len(storedBuffer)
                       /\ \A k \in 1 .. Len(storedBuffer) : storedBuffer[k] = accepted[n + k]
  BY DEF LogInv, Unwritten
<1>2. /\ DOMAIN storedBuffer = 1 .. Len(storedBuffer) /\ Len(storedBuffer) \in Nat
      /\ DOMAIN accepted = 1 .. Len(accepted)
  BY DEF TypeInv, TypeOK
<1>3. n + i \in DOMAIN accepted /\ n + j \in DOMAIN accepted /\ accepted[n + i] = accepted[n + j]
  BY <1>1, <1>2
<1>4. n + i = n + j
  BY <1>3 DEF OrderInv
<1> QED BY <1>2, <1>4

\* The entry of an INSERT under way has no row yet, and is nowhere else in the buffer.
LEMMA HandIsNew ==
  ASSUME TypeInv, LogInv, OrderInv, OnceInv, OneFlush, NEW f \in Flushes, flush[f].pc = "insert"
  PROVE  /\ ~DurableIn(flush[f].entry, rows)
         /\ \A j \in DOMAIN storedBuffer : storedBuffer[j] = flush[f].entry => j = flush[f].pos
<1>1. loaded /\ storedBuffer = buffer /\ DOMAIN storedBuffer = 1 .. Len(storedBuffer)
  BY DEF LogInv, MemoryInv, TypeInv, TypeOK
<1>2. flush[f].pos \in DOMAIN storedBuffer /\ flush[f].entry = storedBuffer[flush[f].pos]
  BY <1>1 DEF LogInv, InTurn, InLoop
<1>3. flush[f].pos \in Nat
  BY DEF TypeInv, TypeOK, FlushState
<1>4. \A g \in Flushes : ~Wrote(flush[g], flush[f].pos)
  BY <1>3 DEF OneFlush, Wrote
<1> QED BY <1>2, <1>4, BufferIsDistinct DEF OnceInv

\* A step of the one flush f that writes no row.
LEMMA OnceKeeps ==
  ASSUME OnceInv, OneFlush, NEW f \in Flushes, UNCHANGED <<rows, orphans, storedBuffer>>,
         nextSerial' = 0 => rows = {} /\ storedNext' = 0,
         \A r \in rows : \/ r.serial < nextSerial'
                         \/ r.serial = nextSerial' /\ flush'[f].pc = "inserted",
         Once(flush'[f], nextSerial', faults'.fails),
         \A j \in DOMAIN storedBuffer : Wrote(flush[f], j) => Wrote(flush'[f], j)
  PROVE  OnceInv'
<1>1. \A g \in Flushes : g = f
  BY DEF OneFlush
<1>2. \A g \in Flushes : Once(flush'[g], nextSerial', faults'.fails)
  BY <1>1
<1>3. \A j \in DOMAIN storedBuffer' : DurableIn(storedBuffer'[j], rows') =>
        \E g \in Flushes : Wrote(flush'[g], j)
  BY <1>1 DEF OnceInv
<1>4. ExactlyOnce'
  BY DEF OnceInv, ExactlyOnce, OneRowPerClientMsg, OneMsgPerSerial
<1> QED BY <1>2, <1>3, <1>4 DEF OnceInv

\* The flush is outside its loop before and after.
LEMMA OnceOutside ==
  ASSUME OnceInv, OneFlush, NEW f \in Flushes, flush[f].pc \notin InLoop,
         flush'[f].pc \notin InLoop, flush'[f].pc \in AskedMax => nextSerial = 0,
         flush'[f].pc = "recovered" => flush'[f].max = 0,
         UNCHANGED <<rows, orphans, storedBuffer, storedNext, nextSerial>>
  PROVE  OnceInv'
<1>1. Once(flush'[f], nextSerial', faults'.fails)
  BY DEF Once, InLoop
<1>2. \A r \in rows : r.serial < nextSerial
  BY DEF OnceInv, OneFlush, InLoop
<1>3. \A j \in DOMAIN storedBuffer : ~Wrote(flush[f], j)
  BY DEF Wrote
<1> QED BY <1>1, <1>2, <1>3, OnceKeeps DEF OnceInv

LEMMA OnceFlushStep ==
  ASSUME TypeInv, LogInv, OrderInv, OnceInv, NoTrouble, NEW f \in Flushes,
         FlushStep(f) \/ FlushFault(f)
  PROVE  OnceInv'
<1>0. /\ OneFlush /\ MaxFails \in {0, 1} /\ MaxLost = 0
  BY DEF NoTrouble
<1>1. /\ flush \in [Flushes -> FlushState] /\ flush[f] \in FlushState /\ nextSerial \in Nat
      /\ flush[f].serial \in Nat /\ flush[f].pos \in Nat /\ flush[f].attempt \in {0, 1}
      /\ faults.fails \in Nat /\ faults.lost \in Nat /\ \A r \in rows : r.serial \in Nat
  BY DEF TypeInv, TypeOK, FlushState, Faults, Row
<1>2. /\ Once(flush[f], nextSerial, faults.fails)
      /\ nextSerial = 0 => rows = {} /\ storedNext = 0
      /\ \A r \in rows : r.serial < nextSerial \/ (r.serial = nextSerial /\ flush[f].pc = "inserted")
  BY <1>0 DEF OnceInv, OneFlush
<1>3. flush[f].pc \in InLoop => flush[f].pc \in {"insert", "inserted", "error"}
  BY <1>2 DEF Once, InLoop
<1>4. ~Lose
  BY <1>0, <1>1 DEF Lose
<1> USE DEF storage, outside, history
<1>5. CASE FlushTimer(f)
  <2> DEFINE started == [NotFlushing EXCEPT !.aliased = TRUE]
             known   == IF nextSerial # 0 THEN nextSerial ELSE storedNext
  <2>1. UNCHANGED <<rows, orphans, storedBuffer, storedNext, faults>> /\ flush[f].pc = "idle"
    BY <1>5 DEF FlushTimer
  <2>2. CASE UNCHANGED <<flush, nextSerial>>
    BY <1>0, <2>1, <2>2, OnceOutside DEF InLoop, AskedMax
  <2>3. CASE /\ known # 0 /\ nextSerial' = known
             /\ flush' = [flush EXCEPT ![f] = Inserting(started, 1, buffer[1], 0, known)]
    <3>1. known = nextSerial /\ nextSerial' = nextSerial /\ nextSerial # 0
      BY <1>2, <2>3
    <3>2. flush'[f].pc = "insert" /\ flush'[f].serial = nextSerial /\ flush'[f].attempt = 0
      BY <1>1, <2>3, <3>1 DEF Inserting, NotFlushing
    <3>3. Once(flush'[f], nextSerial', faults'.fails)
      BY <3>1, <3>2 DEF Once, AskedMax
    <3>4. \A j \in DOMAIN storedBuffer : ~Wrote(flush[f], j)
      BY <2>1 DEF Wrote, InLoop
    <3> QED BY <1>0, <1>2, <2>1, <3>1, <3>3, <3>4, OnceKeeps
  <2>4. CASE /\ known = 0 /\ UNCHANGED nextSerial
             /\ flush' = [flush EXCEPT ![f] = [started EXCEPT !.pc = "recover"]]
    <3>1. flush'[f].pc = "recover" /\ nextSerial = 0
      BY <1>1, <2>4 DEF NotFlushing
    <3> QED BY <1>0, <2>1, <2>4, <3>1, OnceOutside DEF InLoop
  <2> QED BY <1>5, <2>2, <2>3, <2>4 DEF FlushTimer
<1>6. CASE NeonMax(f)
  <2>1. flush[f].pc = "recover" /\ nextSerial = 0 /\ rows = {}
    BY <1>2, <1>6 DEF NeonMax, Once, AskedMax
  <2>2. flush'[f].pc = "recovered" /\ flush'[f].max = 0
    <3>1. {0} \cup {r.serial : r \in rows} = {0}
      BY <2>1
    <3> QED BY <1>1, <1>6, <2>1, <3>1 DEF NeonMax, FlushState
  <2> QED BY <1>0, <1>6, <2>1, <2>2, OnceOutside DEF NeonMax, InLoop
<1>7. CASE Recovered(f)
  <2>1. flush[f].pc = "recovered" /\ flush[f].max = 0 /\ rows = {}
    BY <1>2, <1>7 DEF Recovered, Once, AskedMax
  <2>2. /\ nextSerial' = 1 /\ flush'[f].pc = "insert" /\ flush'[f].serial = 1
        /\ flush'[f].attempt = 0
    BY <1>1, <1>7, <2>1 DEF Recovered, Inserting, FlushState
  <2>3. Once(flush'[f], nextSerial', faults'.fails)
    BY <2>2 DEF Once, AskedMax
  <2>4. \A j \in DOMAIN storedBuffer : ~Wrote(flush[f], j)
    BY <2>1 DEF Wrote, InLoop
  <2> QED BY <1>0, <1>7, <2>1, <2>2, <2>3, <2>4, OnceKeeps DEF Recovered
<1>8. CASE NeonInsert(f)
  <2>1. PICK at \in {now, now + 1}, outcome \in {"inserted", "conflict", "error"} :
          InsertRow(flush[f].serial, flush[f].entry, at, outcome) /\ SetPc(f, outcome)
    BY <1>8 DEF NeonInsert
  <2>2. /\ flush[f].pc = "insert" /\ UNCHANGED <<nextSerial, storedNext, storedBuffer, orphans, faults>>
        /\ flush[f].serial = nextSerial /\ nextSerial # 0
    BY <1>2, <1>8 DEF NeonInsert, Once
  <2>3. /\ ~DurableIn(flush[f].entry, rows)
        /\ \A j \in DOMAIN storedBuffer : storedBuffer[j] = flush[f].entry => j = flush[f].pos
    BY <1>0, <2>2, HandIsNew
  <2>4. \A r \in rows : r.serial < nextSerial
    BY <1>2, <2>2
  <2>5. outcome = "inserted"
    BY <1>1, <2>1, <2>2, <2>3, <2>4 DEF InsertRow, InsertOutcome, DurableIn
  <2>6. PICK new : new = [serial |-> flush[f].serial, msg |-> flush[f].entry, createdAt |-> at]
    OBVIOUS
  <2>7. rows' = rows \cup {new} /\ new.serial = nextSerial /\ new.msg = flush[f].entry
    BY <2>1, <2>2, <2>5, <2>6 DEF InsertRow
  <2>8. /\ flush'[f].pc = "inserted" /\ flush'[f].pos = flush[f].pos
        /\ flush'[f].serial = nextSerial
    BY <1>1, <2>1, <2>2, <2>5 DEF SetPc, FlushState
  <2>9. Once(flush'[f], nextSerial', faults'.fails)
    BY <2>2, <2>8 DEF Once, AskedMax
  <2>10. \A j \in DOMAIN storedBuffer : DurableIn(storedBuffer[j], rows') => Wrote(flush'[f], j)
    <3> SUFFICES ASSUME NEW j \in DOMAIN storedBuffer, DurableIn(storedBuffer[j], rows')
                 PROVE  Wrote(flush'[f], j)
      OBVIOUS
    <3>1. CASE storedBuffer[j] = flush[f].entry
      BY <2>3, <2>8, <3>1 DEF Wrote, InLoop
    <3>2. CASE storedBuffer[j] # flush[f].entry
      <4>1. DurableIn(storedBuffer[j], rows)
        BY <2>7, <3>2 DEF DurableIn
      <4>2. Wrote(flush[f], j)
        BY <1>0, <4>1 DEF OnceInv, OneFlush
      <4> QED BY <2>2, <2>8, <4>2 DEF Wrote, InLoop
    <3> QED BY <3>1, <3>2
  <2>11. ExactlyOnce'
    <3>1. \A r \in rows : r.msg # new.msg /\ r.serial # new.serial
      BY <1>1, <2>3, <2>4, <2>7 DEF DurableIn
    <3> QED BY <2>7, <3>1 DEF OnceInv, ExactlyOnce, OneRowPerClientMsg, OneMsgPerSerial
  <2>12. \A r \in rows' : r.serial < nextSerial' \/ (r.serial = nextSerial' /\ flush'[f].pc = "inserted")
    BY <2>2, <2>4, <2>7, <2>8
  <2>13. \A g \in Flushes : g = f
    BY <1>0 DEF OneFlush
  <2>14. orphans' = {} /\ nextSerial' # 0
    BY <2>2 DEF OnceInv
  <2>15. \A g \in Flushes : Once(flush'[g], nextSerial', faults'.fails)
    BY <2>9, <2>13
  <2>16. \A j \in DOMAIN storedBuffer' : DurableIn(storedBuffer'[j], rows') =>
           \E g \in Flushes : Wrote(flush'[g], j)
    BY <2>2, <2>10
  <2>17. \A r \in rows' : r.serial < nextSerial' \/ (r.serial = nextSerial' /\ \E g \in Flushes : flush'[g].pc = "inserted")
    BY <2>12
  <2> QED BY <2>11, <2>14, <2>15, <2>16, <2>17 DEF OnceInv
<1>9. CASE InsertFails(f)
  <2>1. /\ flush[f].pc = "insert" /\ faults.fails < 1 /\ faults'.fails = faults.fails + 1
        /\ UNCHANGED <<rows, orphans, storedBuffer, storedNext, nextSerial>>
    BY <1>0, <1>1, <1>9 DEF InsertFails, Fail, TypeInv, TypeOK, Faults
  <2>2. faults.fails = 0 /\ faults'.fails = 1 /\ flush[f].attempt = 0
    BY <1>1, <1>2, <2>1 DEF Once
  <2>3. /\ flush'[f].pc = "error" /\ flush'[f].pos = flush[f].pos
        /\ flush'[f].serial = flush[f].serial /\ flush'[f].attempt = 0
    BY <1>1, <1>9, <2>2 DEF InsertFails, SetPc, Thrown, FlushState
  <2>4. Once(flush'[f], nextSerial', faults'.fails)
    BY <1>2, <2>1, <2>2, <2>3 DEF Once, AskedMax
  <2>5. \A j \in DOMAIN storedBuffer : Wrote(flush[f], j) => Wrote(flush'[f], j)
    BY <2>1, <2>3 DEF Wrote, InLoop
  <2>6. \A r \in rows : r.serial < nextSerial
    BY <1>2, <2>1
  <2> QED BY <1>0, <1>2, <2>1, <2>4, <2>5, <2>6, OnceKeeps
<1>10. CASE InsertThrew(f)
  <2>1. /\ flush[f].pc = "error" /\ flush[f].attempt = 0 /\ faults.fails = 1
        /\ flush[f].serial = nextSerial /\ nextSerial # 0
        /\ UNCHANGED <<rows, orphans, storedBuffer, storedNext, nextSerial, faults>>
    BY <1>2, <1>10 DEF InsertThrew, Once
  <2>2. flush' = [flush EXCEPT ![f] = Inserting(@, @.pos, @.entry, 1, nextSerial)]
    BY <1>10, <2>1 DEF InsertThrew, RetrySerial
  <2>3. /\ flush'[f].pc = "insert" /\ flush'[f].pos = flush[f].pos
        /\ flush'[f].serial = nextSerial /\ flush'[f].attempt = 1
    BY <1>1, <2>2 DEF Inserting, FlushState
  <2>4. Once(flush'[f], nextSerial', faults'.fails)
    BY <2>1, <2>3 DEF Once, AskedMax
  <2>5. \A j \in DOMAIN storedBuffer : Wrote(flush[f], j) => Wrote(flush'[f], j)
    BY <2>1, <2>3 DEF Wrote, InLoop
  <2>6. \A r \in rows : r.serial < nextSerial
    BY <1>2, <2>1
  <2> QED BY <1>0, <2>1, <2>4, <2>5, <2>6, OnceKeeps
<1>11. CASE InsertedMore(f)
  <2>1. /\ flush[f].pc = "inserted" /\ flush[f].serial = nextSerial
        /\ nextSerial' = nextSerial + 1
        /\ UNCHANGED <<rows, orphans, storedBuffer, storedNext, faults>>
    BY <1>2, <1>11 DEF InsertedMore, Once
  <2>2. Assign(f) \in FlushState
    BY <2>1, AssignType
  <2>3. flush'[f] = Inserting(Assign(f), flush[f].pos + 1, Batch(f)[flush[f].pos + 1], 0, flush[f].serial + 1)
    BY <1>1, <1>11 DEF InsertedMore
  <2>4. /\ flush'[f].pc = "insert" /\ flush'[f].pos = flush[f].pos + 1
        /\ flush'[f].serial = nextSerial + 1 /\ flush'[f].attempt = 0
    BY <2>1, <2>2, <2>3 DEF Inserting, FlushState
  <2>5. Once(flush'[f], nextSerial', faults'.fails)
    BY <1>1, <2>1, <2>4 DEF Once, AskedMax
  <2>6. \A j \in DOMAIN storedBuffer : Wrote(flush[f], j) => Wrote(flush'[f], j)
    <3>1. storedBuffer \in Seq(Msgs)
      BY DEF TypeInv, TypeOK
    <3>2. \A j \in DOMAIN storedBuffer : j \in Nat
      BY <3>1
    <3> QED BY <1>1, <2>1, <2>4, <3>2 DEF Wrote, InLoop
  <2>7. \A r \in rows : r.serial < nextSerial'
    BY <1>1, <1>2, <2>1
  <2> QED BY <1>0, <1>1, <2>1, <2>5, <2>6, <2>7, OnceKeeps
<1>12. CASE InsertedLast(f)
  <2>1. /\ flush[f].pc = "inserted" /\ flush[f].serial = nextSerial
        /\ nextSerial' = nextSerial + 1 /\ storedBuffer' = << >>
        /\ UNCHANGED <<rows, orphans, faults>>
    BY <1>2, <1>12 DEF InsertedLast, Once
  <2>2. \A g \in Flushes : flush'[g].pc = "fanout"
    <3>1. Assign(f) \in FlushState /\ \A g \in Flushes : g = f
      BY <1>0, <2>1, AssignType DEF OneFlush
    <3>2. [Assign(f) EXCEPT !.pc = "fanout"].pc = "fanout"
      BY <3>1 DEF FlushState
    <3> QED BY <1>12, <3>1, <3>2 DEF InsertedLast
  <2>3. \A g \in Flushes : Once(flush'[g], nextSerial', faults'.fails)
    BY <2>2 DEF Once, AskedMax
  <2>4. \A r \in rows : r.serial < nextSerial'
    BY <1>1, <1>2, <2>1
  <2>5. DOMAIN storedBuffer' = {}
    BY <2>1
  <2>6. ExactlyOnce'
    BY <2>1 DEF OnceInv, ExactlyOnce, OneRowPerClientMsg, OneMsgPerSerial
  <2>7. nextSerial' # 0 /\ orphans' = {}
    BY <1>1, <2>1 DEF OnceInv
  <2> QED BY <2>1, <2>3, <2>4, <2>5, <2>6, <2>7 DEF OnceInv
<1>13. CASE Fanout(f) \/ Push(f) \/ PushFails(f) \/ NeonMaxFails(f)
  <2>1. /\ flush[f].pc \notin InLoop /\ flush'[f].pc \in {"idle", "push"}
        /\ UNCHANGED <<rows, orphans, storedBuffer, storedNext, nextSerial>>
    BY <1>1, <1>2, <1>13 DEF Fanout, Push, PushFails, NeonMaxFails, SetPc, InLoop, NotFlushing,
       FlushState, Once
  <2> QED BY <1>0, <2>1, OnceOutside DEF InLoop, AskedMax
<1>14. ~InsertConflict(f) /\ ~Bumped(f) /\ ~InsertAnswerLost(f) /\ ~FanoutFails(f)
  BY <1>2, <1>4 DEF InsertConflict, Bumped, InsertAnswerLost, FanoutFails, Once
<1> QED BY <1>5, <1>6, <1>7, <1>8, <1>9, <1>10, <1>11, <1>12, <1>13, <1>14 DEF FlushStep, FlushFault

LEMMA OnceStep ==
  ASSUME TypeInv, LogInv, OrderInv, OnceInv, NoTrouble, [Next]_vars
  PROVE  OnceInv'
<1>0. /\ storedBuffer \in Seq(Msgs) /\ accepted \in Seq(Msgs) /\ faults \in Faults
  BY DEF TypeInv, TypeOK
<1>1. ASSUME NEW m \in Msgs, AcceptSend(m) PROVE OnceInv'
  <2>1. /\ storedBuffer' = Append(storedBuffer, m)
        /\ UNCHANGED <<rows, orphans, flush, nextSerial, storedNext, faults>>
    BY <1>1 DEF AcceptSend, BufferWith, StoredWith, Held, LogInv, MemoryInv, outside
  <2>2. ~DurableIn(m, rows)
    BY <1>1, AcceptedIsNew DEF NoTrouble, OrderInv, Ready, DurableIn
  <2>3. ASSUME NEW j \in DOMAIN storedBuffer', DurableIn(storedBuffer'[j], rows)
        PROVE  \E f \in Flushes : Wrote(flush[f], j)
    <3>1. j \in DOMAIN storedBuffer /\ storedBuffer'[j] = storedBuffer[j]
      BY <1>0, <2>1, <2>2, <2>3
    <3> QED BY <2>3, <3>1 DEF OnceInv
  <2>4. ExactlyOnce'
    BY <2>1 DEF OnceInv, ExactlyOnce, OneRowPerClientMsg, OneMsgPerSerial
  <2> QED BY <2>1, <2>3, <2>4 DEF OnceInv
<1>2. CASE \/ UNCHANGED vars \/ \E u \in Users : AttachInbox(u) \/ DetachInbox(u)
           \/ \E v \in kvPending : KvPut(v)
  <2>1. /\ UNCHANGED <<flush, storedBuffer, nextSerial, storedNext, rows, orphans>>
        /\ faults'.fails = faults.fails
    BY <1>0, <1>2 DEF vars, AttachInbox, DetachInbox, KvPut, memory, storage, outside, history, Faults
  <2>2. ExactlyOnce'
    BY <2>1 DEF OnceInv, ExactlyOnce, OneRowPerClientMsg, OneMsgPerSerial
  <2> QED BY <2>1, <2>2 DEF OnceInv
<1>3. ~Crash /\ ~(\E o \in orphans : NeonOrphan(o))
  BY <1>0 DEF Crash, OnceInv, NoTrouble, Faults
<1> QED BY <1>1, <1>2, <1>3, OnceFlushStep DEF Next

\* While flushes do not overlap, the transport hands over each message once, the object
\* is not restarted, no answer is lost and at most one call fails, each accepted send
\* gets one row and one serial, for any number of sends: the retry of the failed INSERT
\* included (chat.ts flush(), insertWithRetry()).
THEOREM ExactlyOnceCorrect == ASSUME NoTrouble PROVE Spec => []ExactlyOnce
<1>1. OneFlush /\ MaxCopies = 1
  BY DEF NoTrouble
<1>2. Init => OnceInv
  BY DEF Init, OnceInv, Once, NotFlushing, AskedMax, ExactlyOnce, OneRowPerClientMsg, OneMsgPerSerial
<1>3. TypeInv /\ LogInv /\ OrderInv /\ [Next]_vars => OrderInv'
  BY <1>1, OrderStep
<1>4. TypeInv /\ LogInv /\ OrderInv /\ OnceInv /\ [Next]_vars => OnceInv'
  BY OnceStep
<1>5. OnceInv => ExactlyOnce
  BY DEF OnceInv
<1>6. Spec => []LogInv
  BY <1>1, LogInvariant
<1> QED BY <1>2, <1>3, <1>4, <1>5, <1>6, TypeInvariant, OrderStarts, PTL DEF Spec

=============================================================================
