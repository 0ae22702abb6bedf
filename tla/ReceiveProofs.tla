--------------------------- MODULE ReceiveProofs ---------------------------
(***************************************************************************)
(* Proofs about what a device receives and what its user sees.  Receive:   *)
(* whatever the chat, the page size, the number of passes and of crashes,  *)
(* a device's cursor only passes rows it accounts for, and what its engine *)
(* has consumed it keeps.  Screens: whatever is sent, retried, deleted,    *)
(* received and hydrated, however often an emoji is tapped, however pushes *)
(* come and whatever answers cross, what is shown of messages, reactions,  *)
(* alerts and the list of chats is true.                                   *)
(***************************************************************************)
EXTENDS Receive, Screens, RanksProofs

\* Rows that nobody has to ask for again.
Covered == disk \cup HeldRows \cup Own \cup dropped \cup torn

Passing == [pc : {"idle", "reading", "asked", "page"}, after : Nat, force : BOOLEAN,
            rows : Seq(Nat), held : SUBSET Nat, upTo : Nat, more : BOOLEAN, blocked : Nat]

\* What pass r owes, cov being the rows accounted for: it asks for what follows rows
\* that are all accounted for, and the rows of its page, in ascending order, are
\* accounted for or still to be read, up to the first one it could not read.
PassCovers(r, cov) ==
  /\ r.pc # "page" => r.held = {}
  /\ r.pc \in {"reading", "asked"} => \A s \in 1 .. r.after : s \in cov
  /\ r.pc = "page" =>
       /\ \A s \in 1 .. r.upTo :
            (r.blocked = 0 \/ s < r.blocked) =>
              (s \in cov \/ \E i \in 1 .. Len(r.rows) : r.rows[i] = s)
       /\ \A i, j \in 1 .. Len(r.rows) : i < j => r.rows[i] < r.rows[j]
       /\ r.blocked # 0 => \A i \in 1 .. Len(r.rows) : r.blocked < r.rows[i]

Types == pass \in [Passes -> Passing] /\ cursor \in Nat /\ issued \in Nat

\* The inductive invariant.
KeptInv ==
  /\ Types
  /\ CursorCovers
  /\ ConsumedIsKept
  /\ snapshot.used \subseteq used
  /\ \A p \in Passes : PassCovers(pass[p], Covered)

-----------------------------------------------------------------------------
\* Lemmas about one pass

LEMMA IdleIsPassing ==
  /\ Idle \in Passing
  /\ Idle.pc = "idle" /\ Idle.held = {} /\ Idle.blocked = 0
  /\ Idle.after = 0 /\ Idle.rows = <<>> /\ Idle.more = FALSE
BY DEF Idle, Passing

\* What accounts for a row goes on doing so when nothing is taken away.
LEMMA PassCoversGrows ==
  ASSUME NEW r \in Passing, NEW cov, NEW more, PassCovers(r, cov), cov \subseteq more
  PROVE  PassCovers(r, more)
BY DEF PassCovers, Passing

\* An idle pass owes nothing.
LEMMA IdleCovers == ASSUME NEW cov PROVE PassCovers(Idle, cov)
BY IdleIsPassing DEF PassCovers

\* A step that keeps what is covered, and whose changed passes cover, keeps the parts
\* of the invariant that speak of the cursor and of the passes.
LEMMA Keeps ==
  ASSUME KeptInv, Types', Covered \subseteq Covered',
         cursor' = cursor,
         \A p \in Passes : pass'[p] = pass[p] \/ PassCovers(pass'[p], Covered')
  PROVE  CursorCovers' /\ \A p \in Passes : PassCovers(pass'[p], Covered')
<1>1. CursorCovers'
  BY DEF KeptInv, CursorCovers, Covered, Types
<1>2. ASSUME NEW p \in Passes PROVE PassCovers(pass'[p], Covered')
  <2>1. CASE pass'[p] = pass[p]
    <3>1. pass[p] \in Passing /\ PassCovers(pass[p], Covered)
      BY DEF KeptInv, Types
    <3>2. PassCovers(pass[p], Covered')
      BY <3>1, PassCoversGrows
    <3> QED BY <3>2, <2>1
  <2> QED BY <2>1
<1> QED BY <1>1, <1>2

\* A pass that was begun, or that goes on to its next page.
LEMMA Started ==
  ASSUME NEW pc \in {"reading", "asked"}, NEW n \in Nat
  PROVE  LET new == [Idle EXCEPT !.pc = pc, !.after = n]
         IN  /\ new \in Passing /\ new.pc = pc /\ new.after = n
             /\ new.held = {} /\ Idle.held = {}
<1> DEFINE new == [Idle EXCEPT !.pc = pc, !.after = n]
<1>1. /\ Idle \in [pc : {"idle", "reading", "asked", "page"}, after : Nat, force : BOOLEAN,
                   rows : Seq(Nat), held : SUBSET Nat, upTo : Nat, more : BOOLEAN,
                   blocked : Nat]
      /\ Idle.held = {}
  BY IdleIsPassing DEF Passing
<1>2. /\ new \in [pc : {"idle", "reading", "asked", "page"}, after : Nat, force : BOOLEAN,
                  rows : Seq(Nat), held : SUBSET Nat, upTo : Nat, more : BOOLEAN,
                  blocked : Nat]
      /\ new.pc = pc /\ new.after = n /\ new.held = {}
  BY <1>1
<1> QED BY <1>1, <1>2 DEF Passing

\* The start of a pass, by which Open and Heal change pass: the new pass holds
\* nothing and asks for what follows the cursor.
LEMMA BeginKeeps ==
  ASSUME KeptInv, Begin \/ UNCHANGED pass, NEW cov, \A s \in 1 .. cursor : s \in cov
  PROVE  /\ pass' \in [Passes -> Passing]
         /\ \A p \in Passes : /\ pass'[p].held = pass[p].held
                              /\ pass'[p] = pass[p] \/ PassCovers(pass'[p], cov)
<1>0. pass \in [Passes -> Passing] /\ cursor \in Nat
  BY DEF KeptInv, Types
<1>1. CASE UNCHANGED pass
  BY <1>0, <1>1
<1>2. CASE Begin /\ FreePass = {}
  BY <1>0, <1>2 DEF Begin
<1>3. CASE Begin /\ FreePass # {}
  <2> DEFINE q == CHOOSE p \in FreePass : TRUE
             new == [Idle EXCEPT !.pc = "reading", !.after = cursor]
  <2>1. q \in Passes /\ pass[q] = Idle
    BY <1>3 DEF FreePass
  <2>2. pass' = [pass EXCEPT ![q] = new]
    BY <1>3 DEF Begin
  <2>3. /\ new \in Passing /\ new.pc = "reading" /\ new.after = cursor
        /\ new.held = {} /\ Idle.held = {}
    BY <1>0, Started
  <2>4. PassCovers(new, cov)
    BY <2>3 DEF PassCovers
  <2> HIDE DEF q, new
  <2>5. pass' \in [Passes -> Passing]
    BY <1>0, <2>1, <2>2, <2>3
  <2>6. ASSUME NEW p \in Passes
        PROVE  pass'[p].held = pass[p].held /\ (pass'[p] = pass[p] \/ PassCovers(pass'[p], cov))
    <3>1. CASE p = q
      BY <1>0, <2>1, <2>2, <2>3, <2>4, <3>1
    <3>2. CASE p # q
      BY <1>0, <2>1, <2>2, <3>2
    <3> QED BY <3>1, <3>2
  <2> QED BY <2>5, <2>6
<1> QED BY <1>1, <1>2, <1>3

\* What the passes hold depends on the held field only.
LEMMA SameHeld ==
  ASSUME \A p \in Passes : pass'[p].held = pass[p].held
  PROVE  HeldRows' = HeldRows
BY DEF HeldRows

\* What a changed pass q does to the rows held.
LEMMA HeldOf ==
  ASSUME NEW q \in Passes, NEW new, KeptInv, pass' = [pass EXCEPT ![q] = new]
  PROVE  /\ pass'[q] = new
         /\ \A p \in Passes : p # q => pass'[p] = pass[p]
         /\ new \in Passing => pass' \in [Passes -> Passing]
         /\ new.held = pass[q].held => HeldRows' = HeldRows
         /\ pass[q].held \subseteq new.held => HeldRows' = HeldRows \cup new.held
         /\ HeldRows \subseteq HeldRows' \cup pass[q].held
<1>1. pass \in [Passes -> Passing]
  BY DEF KeptInv, Types
<1>2. pass'[q] = new /\ \A p \in Passes : p # q => pass'[p] = pass[p]
  BY <1>1
<1>3. new \in Passing => pass' \in [Passes -> Passing]
  BY <1>1
<1>4. \A x : x \in HeldRows <=> \E p \in Passes : x \in pass[p].held
  BY DEF HeldRows
<1>5. \A x : x \in HeldRows' <=> \E p \in Passes : x \in pass'[p].held
  BY DEF HeldRows
<1>6. new.held = pass[q].held => HeldRows' = HeldRows
  BY <1>2, <1>4, <1>5
<1>7. pass[q].held \subseteq new.held => HeldRows' = HeldRows \cup new.held
  BY <1>2, <1>4, <1>5
<1>8. HeldRows \subseteq HeldRows' \cup pass[q].held
  BY <1>2, <1>4, <1>5
<1> QED BY <1>2, <1>3, <1>6, <1>7, <1>8

-----------------------------------------------------------------------------
\* One lemma per action that concerns the passes

LEMMA DropKeeps == ASSUME KeptInv, Drop PROVE KeptInv'
<1>0. pass \in [Passes -> Passing] /\ \A p \in Passes : PassCovers(pass[p], Covered)
  BY DEF KeptInv, Types
<1>1. pass' = [p \in Passes |-> IF pass[p].pc = "asked" THEN Idle ELSE pass[p]]
  BY DEF Drop
<1>2. ASSUME NEW p \in Passes
      PROVE  /\ pass'[p].held = pass[p].held
             /\ pass'[p] \in Passing
             /\ pass'[p] = pass[p] \/ PassCovers(pass'[p], Covered')
  <2>1. CASE pass[p].pc = "asked"
    <3>1. pass'[p] = Idle /\ pass[p].held = {}
      BY <1>0, <1>1, <2>1 DEF PassCovers
    <3> QED BY <3>1, IdleIsPassing, IdleCovers
  <2>2. CASE pass[p].pc # "asked"
    BY <1>0, <1>1, <2>2
  <2> QED BY <2>1, <2>2
<1>3. HeldRows' = HeldRows
  BY <1>2, SameHeld
<1>4. /\ UNCHANGED <<issued, cursor, disk, dropped, torn, used, snapshot>>
  BY DEF Drop, engineVars, localVars
<1>5. Types'
  BY <1>1, <1>2, <1>4 DEF KeptInv, Types
<1>6. Covered' = Covered
  BY <1>3, <1>4 DEF Covered
<1>7. CursorCovers' /\ \A p \in Passes : PassCovers(pass'[p], Covered')
  BY <1>2, <1>4, <1>5, <1>6, Keeps
<1>8. ConsumedIsKept' /\ (snapshot.used \subseteq used)'
  BY <1>3, <1>4 DEF KeptInv, ConsumedIsKept
<1> QED BY <1>5, <1>7, <1>8 DEF KeptInv

\* Open and Heal: the engine has consumed no more than before.
LEMMA BeginningKeeps ==
  ASSUME KeptInv, Open \/ Heal
  PROVE  KeptInv'
<1>1. /\ Begin \/ UNCHANGED pass
      /\ UNCHANGED <<issued, cursor, disk, dropped, torn, used>>
      /\ snapshot' = snapshot \/ snapshot'.used = {}
  BY DEF Open, Heal, engineVars, localVars
<1>2. \A s \in 1 .. cursor : s \in Covered
  BY DEF KeptInv, CursorCovers, Covered
<1>3. /\ pass' \in [Passes -> Passing]
      /\ \A p \in Passes : /\ pass'[p].held = pass[p].held
                           /\ pass'[p] = pass[p] \/ PassCovers(pass'[p], Covered)
  BY <1>1, <1>2, BeginKeeps
<1>4. HeldRows' = HeldRows
  BY <1>3, SameHeld
<1>5. Covered' = Covered
  BY <1>1, <1>4 DEF Covered
<1>6. Types'
  BY <1>1, <1>3 DEF KeptInv, Types
<1>7. CursorCovers' /\ \A p \in Passes : PassCovers(pass'[p], Covered')
  BY <1>1, <1>3, <1>5, <1>6, Keeps
<1>8. ConsumedIsKept' /\ (snapshot.used \subseteq used)'
  BY <1>1, <1>4 DEF KeptInv, ConsumedIsKept
<1> QED BY <1>6, <1>7, <1>8 DEF KeptInv

\* Steps that leave the passes and the cursor alone.
LEMMA AsideKeeps ==
  ASSUME KeptInv, Send \/ CacheLands \/ PollCommit \/ \E s \in Serials : Live(s)
  PROVE  KeptInv'
<1>1. UNCHANGED <<pass, cursor, torn>> /\ issued' \in Nat
  BY DEF Send, CacheLands, PollCommit, Live, localVars, engineVars, KeptInv, Types
<1>2. HeldRows' = HeldRows
  BY <1>1 DEF HeldRows
<1>3. /\ disk \subseteq disk' /\ dropped \subseteq dropped'
      /\ used \subseteq used' /\ used' \subseteq used \cup disk'
      /\ snapshot'.used \subseteq used'
  <2>1. CASE Send \/ CacheLands
    BY <2>1 DEF Send, CacheLands, localVars, engineVars, KeptInv
  <2>2. CASE PollCommit
    BY <2>2 DEF PollCommit, localVars, KeptInv
  <2>3. CASE \E s \in Serials : Live(s)
    BY <2>3 DEF Live, KeptInv
  <2> QED BY <2>1, <2>2, <2>3
<1>4. Types'
  BY <1>1 DEF KeptInv, Types
<1>5. Covered \subseteq Covered'
  BY <1>1, <1>2, <1>3 DEF Covered
<1>6. CursorCovers' /\ \A p \in Passes : PassCovers(pass'[p], Covered')
  BY <1>1, <1>4, <1>5, Keeps
<1>7. ConsumedIsKept'
  BY <1>1, <1>2, <1>3 DEF KeptInv, ConsumedIsKept
<1> QED BY <1>3, <1>4, <1>6, <1>7 DEF KeptInv

LEMMA RequestKeeps ==
  ASSUME KeptInv, NEW p \in Passes, Request(p)
  PROVE  KeptInv'
<1>0. pass \in [Passes -> Passing] /\ PassCovers(pass[p], Covered) /\ pass[p] \in Passing
  BY DEF KeptInv, Types
<1> DEFINE new == IF open THEN [pass[p] EXCEPT !.pc = "asked", !.force = ~forcedOnce]
                          ELSE Idle
<1>1. pass' = [pass EXCEPT ![p] = new]
  BY <1>0 DEF Request
<1>2. /\ UNCHANGED <<issued, cursor, disk, dropped, torn, used, snapshot>>
      /\ pass[p].pc = "reading"
  BY DEF Request, engineVars, localVars
<1>3. new.held = {} /\ pass[p].held = {}
  BY <1>0, <1>2, IdleIsPassing DEF PassCovers, Passing
<1>4. new \in Passing /\ PassCovers(new, Covered)
  <2>1. CASE open
    <3>1. /\ new \in Passing /\ new.pc = "asked" /\ new.after = pass[p].after
      BY <1>0, <2>1 DEF Passing
    <3> HIDE DEF new
    <3> QED BY <1>0, <1>2, <1>3, <3>1 DEF PassCovers
  <2>2. CASE ~open
    BY <2>2, IdleIsPassing, IdleCovers
  <2> QED BY <2>1, <2>2
<1> HIDE DEF new
<1>5. /\ pass'[p] = new /\ \A r \in Passes : r # p => pass'[r] = pass[r]
      /\ pass' \in [Passes -> Passing] /\ HeldRows' = HeldRows
  BY <1>1, <1>3, <1>4, HeldOf
<1>6. Covered' = Covered
  BY <1>2, <1>5 DEF Covered
<1>7. Types'
  BY <1>2, <1>5 DEF KeptInv, Types
<1>8. CursorCovers' /\ \A r \in Passes : PassCovers(pass'[r], Covered')
  BY <1>2, <1>4, <1>5, <1>6, <1>7, Keeps
<1>9. ConsumedIsKept' /\ (snapshot.used \subseteq used)'
  BY <1>2, <1>5 DEF KeptInv, ConsumedIsKept
<1> QED BY <1>7, <1>8, <1>9 DEF KeptInv

\* The page that follows row n: ascending, without a gap.
LEMMA PageFollows ==
  ASSUME NEW n \in Nat, issued \in Nat
  PROVE  /\ PageAfter(n) \in Seq(Nat)
         /\ \A i \in 1 .. Len(PageAfter(n)) : PageAfter(n)[i] = n + i
<1> DEFINE size == Smaller(PageSize, IF issued > n THEN issued - n ELSE 0)
<1>1. size \in Nat
  BY ReceiveAssumption DEF Smaller
<1>2. PageAfter(n) = [i \in 1 .. size |-> n + i]
  BY DEF PageAfter
<1> HIDE DEF size
<1> QED BY <1>1, <1>2

LEMMA ServeKeeps ==
  ASSUME KeptInv, NEW p \in Passes, Serve(p)
  PROVE  KeptInv'
<1>0. /\ pass \in [Passes -> Passing] /\ PassCovers(pass[p], Covered) /\ pass[p] \in Passing
      /\ issued \in Nat
  BY DEF KeptInv, Types
<1> DEFINE after == pass[p].after
           rows == IF Skips(after, pass[p].force) THEN <<>> ELSE PageAfter(after)
           upTo == IF rows = <<>> THEN after ELSE rows[Len(rows)]
           more == rows # <<>> /\ rows[Len(rows)] < issued
           new == [Idle EXCEPT !.pc = "page", !.rows = rows, !.upTo = upTo, !.more = more]
<1>1. pass' = [pass EXCEPT ![p] = new]
  BY DEF Serve
<1>2. /\ UNCHANGED <<issued, cursor, disk, dropped, torn, used, snapshot>>
      /\ pass[p].pc = "asked"
  BY DEF Serve, engineVars, localVars
<1>3. /\ after \in Nat /\ \A s \in 1 .. after : s \in Covered
      /\ pass[p].held = {}
  BY <1>0, <1>2 DEF PassCovers, Passing
<1>4. rows \in Seq(Nat) /\ \A i \in 1 .. Len(rows) : rows[i] = after + i
  <2>1. CASE rows = <<>>
    <3> HIDE DEF rows
    <3> QED BY <2>1
  <2>2. CASE rows = PageAfter(after)
    <3> HIDE DEF rows, after
    <3> QED BY <1>0, <1>3, <2>2, PageFollows
  <2> QED BY <2>1, <2>2
<1>5. upTo \in Nat /\ upTo = after + Len(rows)
  BY <1>3, <1>4
<1>6. more \in BOOLEAN
  OBVIOUS
<1> HIDE DEF after, rows, upTo, more
<1>7. /\ new \in Passing
      /\ new.pc = "page" /\ new.rows = rows /\ new.upTo = upTo /\ new.blocked = 0
      /\ new.held = {}
  BY <1>4, <1>5, <1>6, IdleIsPassing DEF Passing, Idle
<1> HIDE DEF new
<1>8. PassCovers(new, Covered)
  <2>1. ASSUME NEW s \in 1 .. new.upTo
        PROVE  s \in Covered \/ \E i \in 1 .. Len(new.rows) : new.rows[i] = s
    <3>1. CASE s <= after
      BY <1>3, <1>5, <1>7, <3>1
    <3>2. CASE ~ s <= after
      <4>1. s - after \in 1 .. Len(rows) /\ rows[s - after] = s
        BY <1>3, <1>4, <1>5, <1>7, <3>2
      <4> QED BY <4>1, <1>7
    <3> QED BY <3>1, <3>2
  <2>2. \A i, j \in 1 .. Len(new.rows) : i < j => new.rows[i] < new.rows[j]
    BY <1>3, <1>4, <1>7
  <2> QED BY <1>7, <2>1, <2>2 DEF PassCovers
<1>9. /\ pass'[p] = new /\ \A r \in Passes : r # p => pass'[r] = pass[r]
      /\ pass' \in [Passes -> Passing] /\ HeldRows' = HeldRows
  BY <1>1, <1>3, <1>7, HeldOf
<1>10. Covered' = Covered
  BY <1>2, <1>9 DEF Covered
<1>11. Types'
  BY <1>2, <1>9 DEF KeptInv, Types
<1>12. CursorCovers' /\ \A r \in Passes : PassCovers(pass'[r], Covered')
  BY <1>2, <1>8, <1>9, <1>10, <1>11, Keeps
<1>13. ConsumedIsKept' /\ (snapshot.used \subseteq used)'
  BY <1>2, <1>9 DEF KeptInv, ConsumedIsKept
<1> QED BY <1>11, <1>12, <1>13 DEF KeptInv

\* A row is read, or its failure is remembered. Only Decrypt consumes keys for a page.
LEMMA DecryptKeeps ==
  ASSUME KeptInv, NEW p \in Passes, Decrypt(p)
  PROVE  KeptInv'
<1>0. /\ pass \in [Passes -> Passing] /\ PassCovers(pass[p], Covered) /\ pass[p] \in Passing
      /\ issued \in Nat
  BY DEF KeptInv, Types
<1> DEFINE row == Head(pass[p].rows)
           rest == [pass[p] EXCEPT !.rows = Tail(@)]
           taken == [rest EXCEPT !.held = @ \cup {row}]
           halted == [rest EXCEPT !.blocked = row, !.more = FALSE]
<1>1. /\ UNCHANGED <<issued, cursor, disk, torn, snapshot>>
      /\ pass[p].pc = "page" /\ pass[p].rows # <<>>
  BY DEF Decrypt, localVars
<1>2. /\ pass[p].rows \in Seq(Nat) /\ Len(pass[p].rows) \in Nat \ {0}
      /\ row = pass[p].rows[1] /\ row \in Nat
      /\ Tail(pass[p].rows) \in Seq(Nat) /\ Len(Tail(pass[p].rows)) = Len(pass[p].rows) - 1
      /\ \A i \in 1 .. Len(pass[p].rows) - 1 : Tail(pass[p].rows)[i] = pass[p].rows[i + 1]
  BY <1>0, <1>1 DEF Passing
<1>3. /\ rest \in Passing /\ rest.pc = "page" /\ rest.rows = Tail(pass[p].rows)
      /\ rest.held = pass[p].held /\ rest.upTo = pass[p].upTo
      /\ rest.blocked = pass[p].blocked
  BY <1>0, <1>1, <1>2 DEF Passing
<1> HIDE DEF row, rest
<1>4. /\ taken \in Passing /\ taken.pc = "page" /\ taken.rows = rest.rows
      /\ taken.held = rest.held \cup {row} /\ taken.upTo = rest.upTo
      /\ taken.blocked = rest.blocked
  BY <1>2, <1>3 DEF Passing
<1>5. /\ halted \in Passing /\ halted.pc = "page" /\ halted.rows = rest.rows
      /\ halted.held = rest.held /\ halted.upTo = rest.upTo /\ halted.blocked = row
  BY <1>2, <1>3 DEF Passing
<1> HIDE DEF taken, halted
<1>6. \A i, j \in 1 .. Len(rest.rows) : i < j => rest.rows[i] < rest.rows[j]
  BY <1>0, <1>1, <1>2, <1>3 DEF PassCovers
<1>7. \A i \in 1 .. Len(rest.rows) : row < rest.rows[i]
  BY <1>0, <1>1, <1>2, <1>3 DEF PassCovers
<1>8. rest.blocked # 0 =>
        /\ rest.blocked < row
        /\ \A i \in 1 .. Len(rest.rows) : rest.blocked < rest.rows[i]
  BY <1>0, <1>1, <1>2, <1>3 DEF PassCovers
\* Below the first failure, only the row that was just looked at may have become
\* uncovered.
<1>9. ASSUME NEW s \in 1 .. rest.upTo, rest.blocked = 0 \/ s < rest.blocked, s # row
      PROVE  s \in Covered \/ \E i \in 1 .. Len(rest.rows) : rest.rows[i] = s
  <2>1. s \in Covered \/ \E i \in 1 .. Len(pass[p].rows) : pass[p].rows[i] = s
    BY <1>0, <1>1, <1>3, <1>9 DEF PassCovers
  <2>2. ASSUME NEW i \in 1 .. Len(pass[p].rows), pass[p].rows[i] = s
        PROVE  \E k \in 1 .. Len(rest.rows) : rest.rows[k] = s
    <3>1. i # 1
      BY <1>2, <1>9, <2>2
    <3>2. i - 1 \in 1 .. Len(rest.rows) /\ rest.rows[i - 1] = s
      BY <1>2, <1>3, <2>2, <3>1
    <3> QED BY <3>2
  <2> QED BY <2>1, <2>2
<1>10. CASE CanRead(row)
  <2>1. /\ pass' = [pass EXCEPT ![p] = taken]
        /\ used' = used \cup {row} /\ dropped' = dropped
    BY <1>10 DEF Decrypt, row, rest, taken
  <2>2. /\ pass'[p] = taken /\ \A r \in Passes : r # p => pass'[r] = pass[r]
        /\ pass' \in [Passes -> Passing] /\ HeldRows' = HeldRows \cup taken.held
    BY <1>3, <1>4, <2>1, HeldOf
  <2>3. Covered' = Covered \cup taken.held
    BY <1>1, <2>1, <2>2 DEF Covered
  <2>4. PassCovers(taken, Covered')
    BY <1>3, <1>4, <1>6, <1>8, <1>9, <2>3 DEF PassCovers
  <2>5. Types'
    BY <1>1, <2>2 DEF KeptInv, Types
  <2>6. CursorCovers' /\ \A r \in Passes : PassCovers(pass'[r], Covered')
    BY <1>1, <2>2, <2>3, <2>4, <2>5, Keeps
  <2>7. ConsumedIsKept' /\ (snapshot.used \subseteq used)'
    BY <1>1, <1>4, <2>1, <2>2 DEF KeptInv, ConsumedIsKept
  <2> QED BY <2>5, <2>6, <2>7 DEF KeptInv
<1>11. CASE ~CanRead(row)
  <2> DEFINE new == IF Recoverable /\ rest.blocked = 0 THEN halted ELSE rest
  <2>1. /\ pass' = [pass EXCEPT ![p] = new]
        /\ used' = used /\ dropped' = dropped \cup Misses(row)
    BY <1>11 DEF Decrypt, row, rest, halted
  <2>2. new \in Passing /\ new.held = pass[p].held /\ new.pc = "page"
    BY <1>3, <1>5
  <2>3. /\ pass'[p] = new /\ \A r \in Passes : r # p => pass'[r] = pass[r]
        /\ pass' \in [Passes -> Passing] /\ HeldRows' = HeldRows
    <3> HIDE DEF new
    <3> QED BY <2>1, <2>2, HeldOf
  <2>4. Covered \subseteq Covered'
    BY <1>1, <2>1, <2>3 DEF Covered
  <2>5. PassCovers(new, Covered')
    <3>1. CASE Recoverable /\ rest.blocked = 0
      <4>1. new = halted
        BY <3>1
      <4> HIDE DEF new
      <4>2. ASSUME NEW s \in 1 .. halted.upTo, halted.blocked = 0 \/ s < halted.blocked
            PROVE  s \in Covered' \/ \E i \in 1 .. Len(halted.rows) : halted.rows[i] = s
        <5>1. halted.upTo \in Nat /\ s # row
          BY <1>2, <1>5, <4>2 DEF Passing
        <5> QED BY <1>3, <1>5, <1>9, <2>4, <3>1, <5>1
      <4> QED BY <1>5, <1>6, <1>7, <4>1, <4>2 DEF PassCovers
    <3>2. CASE ~Recoverable
      <4>1. new = rest
        BY <3>2
      <4>2. row \in Covered'
        <5>1. row \in Misses(row) \/ row \in Own \/ row \in used
          BY <3>2 DEF Misses
        <5>2. used \subseteq Covered'
          BY <2>4 DEF KeptInv, ConsumedIsKept, Covered
        <5>3. row \in Misses(row) => row \in dropped'
          BY <2>1
        <5> QED BY <5>1, <5>2, <5>3 DEF Covered
      <4> HIDE DEF new
      <4> QED BY <1>3, <1>6, <1>8, <1>9, <2>4, <4>1, <4>2 DEF PassCovers
    <3>3. CASE rest.blocked # 0
      <4>1. new = rest
        BY <3>3
      <4> HIDE DEF new
      <4>2. ASSUME NEW s \in 1 .. rest.upTo, s < rest.blocked
            PROVE  s \in Covered' \/ \E i \in 1 .. Len(rest.rows) : rest.rows[i] = s
        <5>1. rest.blocked < row /\ rest.blocked \in Nat /\ s \in Nat
          BY <1>3, <1>8, <3>3 DEF Passing
        <5>2. s # row
          BY <1>2, <4>2, <5>1
        <5> QED BY <1>9, <2>4, <4>2, <5>2
      <4> QED BY <1>3, <1>6, <1>8, <3>3, <4>1, <4>2 DEF PassCovers
    <3> QED BY <3>1, <3>2, <3>3
  <2> HIDE DEF new
  <2>6. Types'
    BY <1>1, <2>3 DEF KeptInv, Types
  <2>7. CursorCovers' /\ \A r \in Passes : PassCovers(pass'[r], Covered')
    BY <1>1, <2>3, <2>4, <2>5, <2>6, Keeps
  <2>8. ConsumedIsKept' /\ (snapshot.used \subseteq used)'
    BY <1>1, <2>1, <2>3 DEF KeptInv, ConsumedIsKept
  <2> QED BY <2>6, <2>7, <2>8 DEF KeptInv
<1> QED BY <1>10, <1>11

\* The page is stored before the cursor passes it.
LEMMA IngestKeeps ==
  ASSUME KeptInv, NEW p \in Passes, Ingest(p)
  PROVE  KeptInv'
<1>0. /\ pass \in [Passes -> Passing] /\ PassCovers(pass[p], Covered) /\ pass[p] \in Passing
      /\ cursor \in Nat
  BY DEF KeptInv, Types
<1> DEFINE upTo == UpTo(p)
           asks == pass[p].more /\ open
           new == IF asks THEN [Idle EXCEPT !.pc = "asked", !.after = upTo] ELSE Idle
<1>1. /\ UNCHANGED <<issued, dropped, torn, used, snapshot>>
      /\ pass[p].pc = "page" /\ pass[p].rows = <<>>
      /\ disk' = disk \cup pass[p].held
      /\ cursor' = Larger(cursor, upTo)
      /\ pass' = [pass EXCEPT ![p] = new]
  BY DEF Ingest, engineVars, Merged, SetCursor
<1>2. upTo \in Nat /\ upTo <= pass[p].upTo /\ (pass[p].blocked # 0 => upTo < pass[p].blocked)
  <2>1. pass[p].upTo \in Nat /\ pass[p].blocked \in Nat
    BY <1>0 DEF Passing
  <2> QED BY <2>1 DEF UpTo, Smaller
<1>3. \A s \in 1 .. upTo : s \in Covered
  <2>1. \A s \in 1 .. upTo : s \in 1 .. pass[p].upTo
    <3>1. pass[p].upTo \in Nat
      BY <1>0 DEF Passing
    <3> HIDE DEF upTo
    <3> QED BY <1>2, <3>1
  <2>2. \A s \in 1 .. upTo : pass[p].blocked = 0 \/ s < pass[p].blocked
    <3>1. pass[p].blocked \in Nat
      BY <1>0 DEF Passing
    <3> HIDE DEF upTo
    <3> QED BY <1>2, <3>1
  <2>3. Len(pass[p].rows) = 0
    BY <1>1
  <2>4. 1 .. Len(pass[p].rows) = {}
    BY <2>3
  <2> HIDE DEF upTo
  <2> QED BY <1>0, <1>1, <2>1, <2>2, <2>4 DEF PassCovers
<1> HIDE DEF upTo
<1>4. new \in Passing /\ new.held = {} /\ PassCovers(new, Covered)
  <2>1. CASE asks
    <3>3. /\ new \in Passing
          /\ new.pc = "asked" /\ new.after = upTo /\ new.held = {}
      BY <1>2, <2>1, Started
    <3> HIDE DEF new
    <3> QED BY <1>3, <3>3 DEF PassCovers
  <2>2. CASE ~asks
    BY <2>2, IdleIsPassing, IdleCovers
  <2> QED BY <2>1, <2>2
<1> HIDE DEF new
<1>5. /\ pass'[p] = new /\ \A r \in Passes : r # p => pass'[r] = pass[r]
      /\ pass' \in [Passes -> Passing] /\ HeldRows \subseteq HeldRows' \cup pass[p].held
  BY <1>1, <1>4, HeldOf
<1>6. Covered \subseteq Covered'
  BY <1>1, <1>5 DEF Covered
<1>7. Types'
  <2>1. cursor' \in Nat
    BY <1>0, <1>1, <1>2 DEF Larger
  <2> QED BY <1>1, <1>5, <2>1 DEF KeptInv, Types
<1>8. CursorCovers'
  <2>1. \A s \in 1 .. cursor : s \in Covered
    BY DEF KeptInv, CursorCovers, Covered
  <2>2. \A s \in 1 .. cursor' : s \in Covered
    BY <1>0, <1>1, <1>2, <1>3, <2>1 DEF Larger
  <2>3. \A s \in 1 .. cursor' : s \in Covered'
    BY <1>6, <2>2
  <2> QED BY <2>3 DEF CursorCovers, Covered
<1>9. ASSUME NEW r \in Passes PROVE PassCovers(pass'[r], Covered')
  <2>1. CASE r = p
    BY <1>4, <1>5, <1>6, <2>1, PassCoversGrows
  <2>2. CASE r # p
    <3>1. pass[r] \in Passing /\ PassCovers(pass[r], Covered)
      BY DEF KeptInv, Types
    <3>2. PassCovers(pass[r], Covered')
      BY <1>6, <3>1, PassCoversGrows
    <3> QED BY <1>5, <2>2, <3>2
  <2> QED BY <2>1, <2>2
<1>10. ConsumedIsKept' /\ (snapshot.used \subseteq used)'
  BY <1>1, <1>5 DEF KeptInv, ConsumedIsKept
<1> QED BY <1>7, <1>8, <1>9, <1>10 DEF KeptInv

\* What was held and not stored is torn.
LEMMA CrashKeeps == ASSUME KeptInv, DeviceDies PROVE KeptInv'
<1>1. /\ UNCHANGED <<issued, cursor, dropped, snapshot>>
      /\ disk \subseteq disk' /\ torn' = torn \cup (HeldRows \ disk')
      /\ used' = snapshot.used
      /\ pass' = [p \in Passes |-> Idle]
  BY DEF DeviceDies
<1>2. pass' \in [Passes -> Passing] /\ \A p \in Passes : pass'[p] = Idle
  BY <1>1, IdleIsPassing
<1>3. Types'
  BY <1>1, <1>2 DEF KeptInv, Types
<1>4. Covered \subseteq Covered'
  BY <1>1 DEF Covered
<1>5. CursorCovers' /\ \A p \in Passes : PassCovers(pass'[p], Covered')
  BY <1>1, <1>2, <1>3, <1>4, IdleCovers, Keeps
<1>6. ConsumedIsKept' /\ (snapshot.used \subseteq used)'
  <2>1. used \subseteq disk \cup HeldRows \cup torn /\ snapshot.used \subseteq used
    BY DEF KeptInv, ConsumedIsKept
  <2>2. used' \subseteq disk' \cup torn'
    BY <1>1, <2>1
  <2> QED BY <1>1, <2>2 DEF ConsumedIsKept
<1> QED BY <1>3, <1>5, <1>6 DEF KeptInv

-----------------------------------------------------------------------------
LEMMA KeptInit == ReceiveInit => KeptInv
<1> SUFFICES ASSUME ReceiveInit PROVE KeptInv
  OBVIOUS
<1>1. pass = [p \in Passes |-> Idle] /\ cursor = 0 /\ issued = 0 /\ used = {}
      /\ snapshot = [epoch |-> 0, used |-> {}]
  BY DEF ReceiveInit
<1>2. pass \in [Passes -> Passing] /\ \A p \in Passes : pass[p] = Idle
  BY <1>1, IdleIsPassing
<1>3. Types
  BY <1>1, <1>2 DEF Types
<1>4. CursorCovers
  BY <1>1 DEF CursorCovers
<1>5. \A p \in Passes : PassCovers(pass[p], Covered)
  BY <1>2, IdleCovers
<1>6. ConsumedIsKept /\ snapshot.used \subseteq used
  BY <1>1 DEF ConsumedIsKept
<1> QED BY <1>3, <1>4, <1>5, <1>6 DEF KeptInv

LEMMA KeptStep ==
  ASSUME KeptInv, [ReceiveNext]_receiveVars
  PROVE  KeptInv'
<1>1. CASE Send \/ CacheLands \/ PollCommit \/ \E s \in Serials : Live(s)
  BY <1>1, AsideKeeps
<1>2. CASE Open \/ Heal
  BY <1>2, BeginningKeeps
<1>3. CASE Drop
  BY <1>3, DropKeeps
<1>4. ASSUME NEW p \in Passes, PassStep(p) PROVE KeptInv'
  BY <1>4, RequestKeeps, ServeKeeps, DecryptKeeps, IngestKeeps DEF PassStep
<1>5. CASE DeviceDies
  BY <1>5, CrashKeeps
<1>6. CASE UNCHANGED receiveVars
  <2>1. UNCHANGED <<issued, cursor, disk, dropped, torn, used, snapshot, pass>>
    BY <1>6 DEF receiveVars
  <2>2. HeldRows' = HeldRows
    BY <2>1 DEF HeldRows
  <2> QED BY <2>1, <2>2 DEF KeptInv, Types, CursorCovers, ConsumedIsKept, Covered
<1> QED BY <1>1, <1>2, <1>3, <1>4, <1>5, <1>6 DEF ReceiveNext

\* Every row behind the cursor is stored, held by a pass, the user's own, or one of
\* the two kinds of loss the code does not notice: pages never move the cursor over a
\* row they have not accounted for, whatever races them
\* (chat/encrypted-transport.ts:297-352, chat-db/backfill-cursors.ts setCursor).
THEOREM CursorNeverSkips == ReceiveSpec => []CursorCovers
<1>1. KeptInv => CursorCovers
  BY DEF KeptInv
<1> QED BY <1>1, KeptInit, KeptStep, PTL DEF ReceiveSpec

\* A row whose key the engine has consumed is stored, held by a pass, or was in the
\* hands of a pass when the app died (chat/encrypted-transport.ts:129-190, :297-352).
THEOREM ConsumedRowsAreKept == ReceiveSpec => []ConsumedIsKept
<1>1. KeptInv => ConsumedIsKept
  BY DEF KeptInv
<1> QED BY <1>1, KeptInit, KeptStep, PTL DEF ReceiveSpec

-----------------------------------------------------------------------------
\* The types of the receiving device

\* A pass names rows of the chat.
PassFits(r, n) ==
  /\ r.after \in 0 .. n /\ r.upTo \in 0 .. n /\ r.blocked \in 0 .. n /\ r.held \subseteq 1 .. n
  /\ \A i \in 1 .. Len(r.rows) : r.rows[i] \in 1 .. n

ReceiveFits ==
  /\ issued <= MaxSerial /\ chatMax \in 0 .. issued /\ cursor \in 0 .. issued
  /\ live \subseteq 1 .. issued /\ used \subseteq 1 .. issued
  /\ open \in BOOLEAN /\ forcedOnce \in BOOLEAN
  /\ epoch \in Nat /\ snapshot.epoch \in Nat
  /\ bubbles \subseteq disk /\ disk \subseteq 1 .. issued
  /\ \A p \in Passes : PassFits(pass[p], issued)
  /\ losses \in 0 .. MaxLosses /\ dropped \subseteq 1 .. issued /\ torn \subseteq 1 .. issued

LEMMA IdleFits == ASSUME NEW n \in Nat PROVE PassFits(Idle, n)
  BY IdleIsPassing DEF PassFits, Idle

\* The rows of a page, and what a pass makes of it.
LEMMA ServedFits ==
  ASSUME KeptInv, ReceiveFits, NEW p \in Passes, Serve(p)
  PROVE  \E r \in Passing : pass' = [pass EXCEPT ![p] = r] /\ PassFits(r, issued)
<1>0. /\ pass[p] \in Passing /\ issued \in Nat /\ PassFits(pass[p], issued)
  BY DEF KeptInv, Types, ReceiveFits
<1> DEFINE after == pass[p].after
           size == Smaller(PageSize, IF issued > after THEN issued - after ELSE 0)
           rows == IF Skips(after, pass[p].force) THEN <<>> ELSE PageAfter(after)
           upTo == IF rows = <<>> THEN after ELSE rows[Len(rows)]
           more == rows # <<>> /\ rows[Len(rows)] < issued
           r == [Idle EXCEPT !.pc = "page", !.rows = rows, !.upTo = upTo, !.more = more]
<1>1. pass' = [pass EXCEPT ![p] = r]
  BY DEF Serve
<1>2. after \in 0 .. issued
  BY <1>0 DEF PassFits
<1>3. size \in Nat /\ (size = 0 \/ after + size <= issued)
  <2> HIDE DEF after
  <2> QED BY <1>0, <1>2, ReceiveAssumption DEF Smaller
<1>4. PageAfter(after) = [i \in 1 .. size |-> after + i]
  BY DEF PageAfter
<1>5. rows \in Seq(Nat) /\ \A i \in 1 .. Len(rows) : rows[i] \in 1 .. issued
  <2>1. CASE rows = <<>>
    <3> HIDE DEF rows
    <3> QED BY <2>1
  <2>2. CASE rows = [i \in 1 .. size |-> after + i]
    <3> HIDE DEF rows, after, size
    <3> QED BY <1>0, <1>2, <1>3, <2>2
  <2> QED BY <1>4, <2>1, <2>2
<1>6. upTo \in 0 .. issued
  <2> HIDE DEF rows, after
  <2>1. CASE rows = <<>>
    BY <1>2, <2>1
  <2>2. CASE rows # <<>>
    <3>1. Len(rows) \in 1 .. Len(rows)
      BY <1>5, <2>2
    <3> QED BY <1>0, <1>5, <2>2, <3>1
  <2> QED BY <2>1, <2>2
<1>7. more \in BOOLEAN
  OBVIOUS
<1> HIDE DEF after, size, rows, upTo, more
<1>a. upTo \in Nat
  BY <1>0, <1>6
<1>8. /\ r \in Passing /\ r.rows = rows /\ r.upTo = upTo /\ r.blocked = 0 /\ r.held = {}
      /\ r.after = 0
  BY <1>5, <1>a, <1>7, IdleIsPassing DEF Passing, Idle
<1> HIDE DEF r
<1>9. PassFits(r, issued)
  BY <1>0, <1>5, <1>6, <1>8 DEF PassFits
<1> QED BY <1>1, <1>8, <1>9

LEMMA DecryptedFits ==
  ASSUME KeptInv, ReceiveFits, NEW p \in Passes, Decrypt(p)
  PROVE  /\ \E r \in Passing : pass' = [pass EXCEPT ![p] = r] /\ PassFits(r, issued)
         /\ used' \subseteq used \cup 1 .. issued /\ dropped' \subseteq dropped \cup 1 .. issued
<1>0. /\ pass[p] \in Passing /\ issued \in Nat /\ PassFits(pass[p], issued) /\ pass[p].rows # <<>>
  BY DEF KeptInv, Types, ReceiveFits, Decrypt
<1> DEFINE row == Head(pass[p].rows)
           rest == [pass[p] EXCEPT !.rows = Tail(@)]
           taken == [rest EXCEPT !.held = @ \cup {row}]
           halted == [rest EXCEPT !.blocked = row, !.more = FALSE]
<1>2. /\ pass[p].rows \in Seq(Nat) /\ Len(pass[p].rows) \in Nat \ {0}
      /\ row = pass[p].rows[1]
      /\ Tail(pass[p].rows) \in Seq(Nat) /\ Len(Tail(pass[p].rows)) = Len(pass[p].rows) - 1
      /\ \A i \in 1 .. Len(pass[p].rows) - 1 : Tail(pass[p].rows)[i] = pass[p].rows[i + 1]
  BY <1>0 DEF Passing
<1>3. row \in 1 .. issued /\ row \in Nat
  BY <1>0, <1>2 DEF PassFits
<1>4. /\ rest \in Passing /\ rest.rows = Tail(pass[p].rows) /\ rest.after = pass[p].after
      /\ rest.held = pass[p].held /\ rest.upTo = pass[p].upTo
      /\ rest.blocked = pass[p].blocked
  BY <1>0, <1>2 DEF Passing
<1>6. \E r \in {rest, taken, halted} : pass' = [pass EXCEPT ![p] = r]
  BY DEF Decrypt
<1>7. used' \subseteq used \cup {row} /\ dropped' \subseteq dropped \cup {row}
  BY DEF Decrypt, Misses
<1> HIDE DEF row, rest
<1>5. PassFits(rest, issued)
  BY <1>0, <1>2, <1>4 DEF PassFits
<1>8. /\ taken \in Passing /\ taken.rows = rest.rows /\ taken.after = rest.after
      /\ taken.held = rest.held \cup {row} /\ taken.upTo = rest.upTo
      /\ taken.blocked = rest.blocked
  BY <1>3, <1>4 DEF Passing
<1>9. /\ halted \in Passing /\ halted.rows = rest.rows /\ halted.after = rest.after
      /\ halted.held = rest.held /\ halted.upTo = rest.upTo /\ halted.blocked = row
  BY <1>3, <1>4 DEF Passing
<1> HIDE DEF taken, halted
<1>10. PassFits(taken, issued) /\ PassFits(halted, issued)
  BY <1>0, <1>3, <1>5, <1>8, <1>9 DEF PassFits
<1> QED BY <1>3, <1>4, <1>5, <1>6, <1>7, <1>8, <1>9, <1>10

LEMMA IngestedFits ==
  ASSUME KeptInv, ReceiveFits, NEW p \in Passes, Ingest(p)
  PROVE  /\ \E r \in Passing : pass' = [pass EXCEPT ![p] = r] /\ PassFits(r, issued)
         /\ cursor' \in 0 .. issued
         /\ bubbles' = bubbles \cup pass[p].held /\ disk' = disk \cup pass[p].held
<1>0. /\ pass[p] \in Passing /\ issued \in Nat /\ PassFits(pass[p], issued)
      /\ cursor \in 0 .. issued
  BY DEF KeptInv, Types, ReceiveFits
<1>1. UpTo(p) \in 0 .. issued
  BY <1>0 DEF PassFits, UpTo, Smaller
<1>2. cursor' \in 0 .. issued
  BY <1>0, <1>1 DEF Ingest, SetCursor, Larger
<1> DEFINE next == [Idle EXCEPT !.pc = "asked", !.after = UpTo(p)]
<1>3. \E r \in {Idle, next} : pass' = [pass EXCEPT ![p] = r]
  BY DEF Ingest
<1>4. UpTo(p) \in Nat
  BY <1>0, <1>1
<1>5. /\ next \in Passing /\ next.rows = <<>> /\ next.after = UpTo(p) /\ next.held = {}
      /\ next.upTo = 0 /\ next.blocked = 0
  BY <1>4, IdleIsPassing DEF Passing, Idle
<1> HIDE DEF next
<1>6. PassFits(next, issued) /\ PassFits(Idle, issued)
  BY <1>0, <1>1, <1>5, IdleFits DEF PassFits
<1> QED BY <1>2, <1>3, <1>5, <1>6, IdleIsPassing DEF Ingest, Merged

LEMMA ReceiveFitsStill ==
  ASSUME KeptInv, ReceiveFits, [ReceiveNext]_receiveVars
  PROVE  ReceiveFits'
<1>0. /\ pass \in [Passes -> Passing] /\ issued \in Nat /\ ReceiveFits /\ MaxSerial \in Nat
      /\ MaxLosses \in Nat
  BY ReceiveAssumption DEF KeptInv, Types
<1>1. ASSUME NEW p \in Passes, NEW r \in Passing, pass' = [pass EXCEPT ![p] = r],
             PassFits(r, issued), UNCHANGED issued
      PROVE  \A q \in Passes : PassFits(pass'[q], issued')
  BY <1>0, <1>1 DEF ReceiveFits
<1>2. ASSUME Begin \/ UNCHANGED pass, UNCHANGED issued
      PROVE  \A q \in Passes : PassFits(pass'[q], issued')
  <2> DEFINE r == [Idle EXCEPT !.pc = "reading", !.after = cursor]
  <2>1. cursor \in 0 .. issued /\ cursor \in Nat
    BY <1>0 DEF ReceiveFits
  <2>2. /\ r \in Passing /\ r.rows = <<>> /\ r.after = cursor /\ r.held = {} /\ r.upTo = 0
        /\ r.blocked = 0
    BY <2>1, IdleIsPassing DEF Passing, Idle
  <2>3. UNCHANGED pass \/ \E p \in Passes : pass' = [pass EXCEPT ![p] = r]
    BY <1>2 DEF Begin, FreePass
  <2> HIDE DEF r
  <2>4. PassFits(r, issued)
    BY <1>0, <2>1, <2>2 DEF PassFits
  <2> QED BY <1>0, <1>1, <1>2, <2>2, <2>3, <2>4 DEF ReceiveFits
<1>3. CASE Send \/ CacheLands
  <2>1. /\ issued' \in {issued, issued + 1} /\ issued' <= MaxSerial
        /\ chatMax' \in 0 .. issued' /\ live' \subseteq live \cup {issued'}
        /\ UNCHANGED <<open, epoch, used, snapshot, bubbles, disk, cursor, forcedOnce, pass, losses,
                       dropped, torn>>
    BY <1>0, <1>3 DEF Send, CacheLands, engineVars, localVars, ReceiveFits
  <2>2. 1 .. issued \subseteq 1 .. issued' /\ 0 .. issued \subseteq 0 .. issued' /\ issued' \in Nat
    BY <1>0, <2>1
  <2>3. \A p \in Passes : PassFits(pass'[p], issued')
    BY <1>0, <2>1, <2>2 DEF ReceiveFits, PassFits
  <2>4. live' \subseteq 1 .. issued'
    <3>1. live' = live \/ issued' \in 1 .. issued'
      BY <1>0, <1>3, <2>1 DEF Send, CacheLands
    <3> QED BY <1>0, <2>1, <2>2, <3>1 DEF ReceiveFits
  <2> QED BY <1>0, <2>1, <2>2, <2>3, <2>4 DEF ReceiveFits
<1>4. CASE Open \/ Heal \/ PollCommit
  <2>1. UNCHANGED <<issued, chatMax, live, used, bubbles, disk, cursor, forcedOnce, losses, dropped, torn>>
    BY <1>4 DEF Open, Heal, PollCommit, engineVars, localVars
  <2>2. Begin \/ UNCHANGED pass
    BY <1>4 DEF Open, Heal, PollCommit
  <2>3. open' \in BOOLEAN
    BY <1>0, <1>4 DEF Open, Heal, PollCommit, ReceiveFits
  <2>4. epoch' \in Nat /\ snapshot'.epoch \in Nat
    <3>1. CASE Open
      BY <1>0, <3>1 DEF Open, engineVars, ReceiveFits
    <3>2. CASE Heal
      BY <3>2 DEF Heal
    <3>3. CASE PollCommit
      <4>1. epoch + 1 \in Nat
        BY <1>0 DEF ReceiveFits
      <4> QED BY <3>3, <4>1 DEF PollCommit
    <3> QED BY <1>4, <3>1, <3>2, <3>3
  <2>5. \A p \in Passes : PassFits(pass'[p], issued')
    BY <1>2, <2>1, <2>2
  <2> QED BY <1>0, <2>1, <2>3, <2>4, <2>5 DEF ReceiveFits
<1>5. CASE Drop
  <2>1. /\ UNCHANGED <<issued, chatMax, epoch, used, snapshot, bubbles, disk, cursor, forcedOnce, losses,
                       dropped, torn>>
        /\ open' \in BOOLEAN /\ live' = {}
        /\ \A p \in Passes : pass'[p] \in {Idle, pass[p]}
    BY <1>5 DEF Drop, engineVars, localVars
  <2>2. \A p \in Passes : PassFits(pass'[p], issued')
    BY <1>0, <2>1, IdleFits DEF ReceiveFits
  <2> QED BY <1>0, <2>1, <2>2 DEF ReceiveFits
<1>6. ASSUME NEW s \in Serials, Live(s) PROVE ReceiveFits'
  <2>1. /\ s \in live
        /\ UNCHANGED <<issued, chatMax, open, epoch, snapshot, cursor, forcedOnce, pass, losses, torn>>
        /\ live' \subseteq live /\ used' \subseteq used \cup {s} /\ dropped' \subseteq dropped \cup {s}
        /\ \/ UNCHANGED <<bubbles, disk>>
           \/ bubbles' = bubbles \cup {s} /\ disk' = disk \cup {s}
    BY <1>6 DEF Live, Misses
  <2> QED BY <1>0, <2>1 DEF ReceiveFits
<1>7. ASSUME NEW p \in Passes, Request(p) PROVE ReceiveFits'
  <2> DEFINE onWire == [pass[p] EXCEPT !.pc = "asked", !.force = ~forcedOnce]
  <2>1. /\ UNCHANGED <<issued, chatMax, live, open, epoch, used, snapshot, bubbles, disk, cursor,
                       losses, dropped, torn>>
        /\ forcedOnce' \in BOOLEAN
        /\ \E r \in {onWire, Idle} : pass' = [pass EXCEPT ![p] = r]
    BY <1>7 DEF Request, engineVars, localVars
  <2>2. /\ onWire \in Passing /\ onWire.rows = pass[p].rows /\ onWire.after = pass[p].after
        /\ onWire.held = pass[p].held /\ onWire.upTo = pass[p].upTo
        /\ onWire.blocked = pass[p].blocked
    BY <1>0 DEF Passing
  <2> HIDE DEF onWire
  <2>3. PassFits(onWire, issued) /\ PassFits(Idle, issued)
    BY <1>0, <2>2, IdleFits DEF ReceiveFits, PassFits
  <2> QED BY <1>0, <1>1, <2>1, <2>2, <2>3, IdleIsPassing DEF ReceiveFits
<1>8. ASSUME NEW p \in Passes, Serve(p) PROVE ReceiveFits'
  <2>1. UNCHANGED <<issued, chatMax, live, open, epoch, used, snapshot, bubbles, disk, cursor, forcedOnce,
                    losses, dropped, torn>>
    BY <1>8 DEF Serve, engineVars, localVars
  <2> QED BY <1>0, <1>1, <1>8, <2>1, ServedFits DEF ReceiveFits
<1>9. ASSUME NEW p \in Passes, Decrypt(p) PROVE ReceiveFits'
  <2>1. UNCHANGED <<issued, chatMax, live, open, epoch, snapshot, bubbles, disk, cursor, forcedOnce,
                    losses, torn>>
    BY <1>9 DEF Decrypt, localVars
  <2>2. used' \subseteq 1 .. issued /\ dropped' \subseteq 1 .. issued
    BY <1>0, <1>9, DecryptedFits DEF ReceiveFits
  <2> QED BY <1>0, <1>1, <1>9, <2>1, <2>2, DecryptedFits DEF ReceiveFits
<1>10. ASSUME NEW p \in Passes, Ingest(p) PROVE ReceiveFits'
  <2>1. UNCHANGED <<issued, chatMax, live, open, epoch, used, snapshot, forcedOnce, losses, dropped, torn>>
    BY <1>10 DEF Ingest, engineVars
  <2>2. pass[p].held \subseteq 1 .. issued
    BY <1>0 DEF ReceiveFits, PassFits
  <2> QED BY <1>0, <1>1, <1>10, <2>1, <2>2, IngestedFits DEF ReceiveFits
<1>11. CASE DeviceDies
  <2>1. /\ UNCHANGED <<issued, chatMax, snapshot, cursor, dropped>>
        /\ open' = FALSE /\ live' = {} /\ forcedOnce' = FALSE
        /\ epoch' = snapshot.epoch /\ used' = snapshot.used
        /\ pass' = [p \in Passes |-> Idle]
        /\ losses < MaxLosses /\ losses' = losses + 1
        /\ bubbles' \subseteq disk' /\ torn' \subseteq torn \cup HeldRows
        /\ disk' \subseteq disk \cup HeldRows
    BY <1>11 DEF DeviceDies, Oldest, HeldRows
  <2>2. HeldRows \subseteq 1 .. issued
    BY <1>0 DEF HeldRows, ReceiveFits, PassFits
  <2>3. snapshot.used \subseteq used
    BY DEF KeptInv
  <2>4. losses' \in 0 .. MaxLosses
    BY <1>0, <2>1 DEF ReceiveFits
  <2>5. \A p \in Passes : PassFits(pass'[p], issued')
    BY <1>0, <2>1, IdleFits
  <2> QED BY <1>0, <2>1, <2>2, <2>3, <2>4, <2>5 DEF ReceiveFits
<1>12. CASE UNCHANGED receiveVars
  BY <1>0, <1>12 DEF receiveVars, ReceiveFits
<1> QED BY <1>3, <1>4, <1>5, <1>6, <1>7, <1>8, <1>9, <1>10, <1>11, <1>12
        DEF ReceiveNext, PassStep

LEMMA ReceiveTypesHold == ReceiveSpec => []ReceiveTypeOK
<1>1. KeptInv /\ ReceiveFits => ReceiveTypeOK
  <2> SUFFICES ASSUME KeptInv, ReceiveFits PROVE ReceiveTypeOK
    OBVIOUS
  <2>0. pass \in [Passes -> Passing] /\ issued \in Nat
    BY DEF KeptInv, Types
  <2>1. ASSUME NEW p \in Passes
        PROVE  /\ pass[p].pc \in {"idle", "reading", "asked", "page"}
               /\ pass[p].after \in 0 .. issued /\ pass[p].upTo \in 0 .. issued
               /\ pass[p].blocked \in 0 .. issued /\ pass[p].held \subseteq 1 .. issued
               /\ \A i \in DOMAIN pass[p].rows : pass[p].rows[i] \in 1 .. issued
    <3>1. pass[p].rows \in Seq(Nat) /\ pass[p].pc \in {"idle", "reading", "asked", "page"}
      BY <2>0 DEF Passing
    <3>2. DOMAIN pass[p].rows = 1 .. Len(pass[p].rows)
      BY <3>1
    <3> QED BY <3>1, <3>2 DEF ReceiveFits, PassFits
  <2>2. snapshot.used \subseteq 1 .. issued
    BY DEF KeptInv, ReceiveFits
  <2>3. issued \in 0 .. MaxSerial
    BY <2>0, ReceiveAssumption DEF ReceiveFits
  <2> QED BY <2>1, <2>2, <2>3 DEF ReceiveFits, ReceiveTypeOK
<1>2. ReceiveInit => ReceiveFits
  <2> SUFFICES ASSUME ReceiveInit PROVE ReceiveFits
    OBVIOUS
  <2>1. issued = 0 /\ \A p \in Passes : PassFits(pass[p], issued)
    BY IdleFits DEF ReceiveInit
  <2>2. snapshot.epoch = 0 /\ 0 \in 0 .. issued /\ 0 \in 0 .. MaxLosses /\ issued <= MaxSerial
    BY ReceiveAssumption DEF ReceiveInit
  <2>3. /\ issued <= MaxSerial /\ chatMax \in 0 .. issued /\ cursor \in 0 .. issued
        /\ losses \in 0 .. MaxLosses
    BY <2>2 DEF ReceiveInit
  <2>4. epoch \in Nat /\ snapshot.epoch \in Nat /\ open \in BOOLEAN /\ forcedOnce \in BOOLEAN
    BY <2>2 DEF ReceiveInit
  <2>5. /\ live = {} /\ used = {} /\ bubbles = {} /\ disk = {} /\ dropped = {} /\ torn = {}
    BY DEF ReceiveInit
  <2> QED BY <2>1, <2>3, <2>4, <2>5 DEF ReceiveFits
<1>3. KeptInv /\ [ReceiveNext]_receiveVars => KeptInv'
  BY KeptStep
<1> QED BY <1>1, <1>2, <1>3, KeptInit, ReceiveFitsStill, PTL DEF ReceiveSpec

-----------------------------------------------------------------------------
\* Reactions

TapRow == [tap : Nat, tries : Nat, due : BOOLEAN]

ReactionTypes ==
  /\ taps \in Seq({"add", "del"}) /\ pill \in Nat /\ queueing \subseteq 1 .. Len(taps)
  /\ tapRows \in Seq(TapRow)
  /\ inFlight \in [tap : Nat, stored : BOOLEAN]
  /\ thread \in Seq(1 .. Len(taps))
  /\ fed \in 0 .. Len(thread) /\ readTo \in 0 .. Len(thread)
  /\ spent.now \subseteq 1 .. Len(thread)
  /\ spent = [now |-> spent.now, saved |-> spent.saved]
  /\ appliedTo \in 0 .. Len(thread) /\ shown \in BOOLEAN

\* The taps that have rows, and those that reach the server or have reached it.
TapsIn(rs) == {r.tap : r \in Range(rs)}
TapsLeft    == queueing \cup TapsIn(tapRows) \cup Range(thread)

\* A tap on its way into the outbox is nowhere else; the worker sends one that has a row.
QueueInv ==
  /\ TapsIn(tapRows) \subseteq 1 .. Len(taps)
  /\ queueing \cap (TapsIn(tapRows) \cup Range(thread)) = {}
  /\ IF inFlight.tap = 0 THEN inFlight = Idling
     ELSE inFlight.tap \in TapsIn(tapRows) /\ (inFlight.stored => inFlight.tap \in Range(thread))

\* The pill is of the last tap, an add that was not given up; adds that were not given
\* up and dels take turns; no del is given up.
PillInv ==
  /\ pill = IF Len(taps) \in TapsLeft /\ taps[Len(taps)] = "add" THEN Len(taps) ELSE 0
  /\ \A i \in 1 .. Len(taps) : taps[i] = "del" => i \in TapsLeft
  /\ \A i \in 1 .. Len(taps) : \A j \in 1 .. Len(taps) :
       j = i + 1 /\ taps[i] = "add" /\ i \in TapsLeft => taps[j] = "del"

\* The server has the taps in their order.
ThreadInv == \A m, n \in 1 .. Len(thread) : m <= n => thread[m] <= thread[n]

\* The peer has applied what it has read, the newest last.
PeerSeesInv ==
  /\ \A n \in 1 .. readTo : n \in spent.now
  /\ page # {} => \E m \in readTo + 1 .. Len(thread) : page = readTo + 1 .. m
  /\ appliedTo \in spent.now \cup {0} /\ \A n \in spent.now : n <= appliedTo
  /\ shown <=> appliedTo # 0 /\ taps[thread[appliedTo]] = "add"

\* The inductive invariant: as long as nothing happened that the code excuses.
ReactionsInv ==
  excuses = {} => ReactionTypes /\ QueueInv /\ PillInv /\ ThreadInv /\ PeerSeesInv

-----------------------------------------------------------------------------
\* Lists of rows

LEMMA ConcatList ==
  ASSUME NEW X, NEW s \in Seq(X), NEW t \in Seq(X)
  PROVE  s \o t \in Seq(X) /\ Range(s \o t) = Range(s) \cup Range(t)
<1> DEFINE u == s \o t
<1>1. /\ u \in Seq(X) /\ Len(s) \in Nat /\ Len(t) \in Nat /\ Len(u) = Len(s) + Len(t)
      /\ \A i \in 1 .. Len(s) : u[i] = s[i]
      /\ \A i \in Len(s) + 1 .. Len(s) + Len(t) : u[i] = t[i - Len(s)]
  OBVIOUS
<1> HIDE DEF u
<1>2. ASSUME NEW x, x \in Range(u) PROVE x \in Range(s) \cup Range(t)
  <2>1. PICK i \in 1 .. Len(u) : u[i] = x
    BY <1>1, <1>2, RangeOf
  <2>2. CASE i <= Len(s)
    BY <1>1, <2>1, <2>2, RangeOf
  <2>3. CASE i > Len(s)
    <3>1. i - Len(s) \in 1 .. Len(t) /\ u[i] = t[i - Len(s)]
      BY <1>1, <2>1, <2>3
    <3> QED BY <2>1, <3>1, RangeOf
  <2> QED BY <1>1, <2>1, <2>2, <2>3
<1>3. ASSUME NEW x, x \in Range(s) PROVE x \in Range(u)
  <2>1. PICK i \in 1 .. Len(s) : s[i] = x
    BY <1>3, RangeOf
  <2>2. i \in 1 .. Len(u) /\ u[i] = x
    BY <1>1, <2>1
  <2> QED BY <1>1, <2>2, RangeOf
<1>4. ASSUME NEW x, x \in Range(t) PROVE x \in Range(u)
  <2>1. PICK i \in 1 .. Len(t) : t[i] = x
    BY <1>4, RangeOf
  <2>2. Len(s) + i \in 1 .. Len(u) /\ u[Len(s) + i] = x
    <3>1. /\ Len(s) + i \in Len(s) + 1 .. Len(s) + Len(t)
          /\ Len(s) + i \in 1 .. Len(s) + Len(t) /\ (Len(s) + i) - Len(s) = i
      <4>1. Len(s) \in Nat /\ Len(t) \in Nat /\ i \in 1 .. Len(t)
        BY <1>1, <2>1
      <4> QED BY <4>1
    <3>2. u[Len(s) + i] = t[(Len(s) + i) - Len(s)]
      BY <1>1, <3>1
    <3> QED BY <1>1, <2>1, <3>1, <3>2
  <2> QED BY <1>1, <2>2, RangeOf
<1>5. Range(u) = Range(s) \cup Range(t)
  BY <1>2, <1>3, <1>4
<1> QED BY <1>1, <1>5 DEF u

\* Inserted(): the list and the row.
LEMMA InsertedList ==
  ASSUME NEW X, NEW s \in Seq(X), NEW x \in X, NEW n \in 1 .. Len(s) + 1
  PROVE  Inserted(s, n, x) \in Seq(X) /\ Range(Inserted(s, n, x)) = Range(s) \cup {x}
<1> DEFINE u == Inserted(s, n, x)
<1>1. Len(s) \in Nat /\ Len(s) + 1 \in Nat /\ n \in Nat
  OBVIOUS
<1>2. /\ u = [k \in 1 .. Len(s) + 1 |-> u[k]]
      /\ \A k \in 1 .. Len(s) + 1 : u[k] = IF k < n THEN s[k] ELSE IF k = n THEN x ELSE s[k - 1]
  BY DEF Inserted
<1> HIDE DEF u
<1>3. \A k \in 1 .. Len(s) + 1 : u[k] \in X
  BY <1>1, <1>2
<1>4. u \in Seq(X) /\ Len(u) = Len(s) + 1
  BY <1>1, <1>2, <1>3
<1>5. ASSUME NEW y, y \in Range(u) PROVE y \in Range(s) \cup {x}
  <2>1. PICK k \in 1 .. Len(s) + 1 : u[k] = y
    BY <1>4, <1>5, RangeOf
  <2>2. CASE k < n
    <3>1. k \in 1 .. Len(s) /\ s[k] = y
      BY <1>1, <1>2, <2>1, <2>2
    <3> QED BY <3>1, RangeOf
  <2>3. CASE k = n
    BY <1>1, <1>2, <2>1, <2>3
  <2>4. CASE k > n
    <3>1. k - 1 \in 1 .. Len(s) /\ s[k - 1] = y
      BY <1>1, <1>2, <2>1, <2>4
    <3> QED BY <3>1, RangeOf
  <2> QED BY <1>1, <2>1, <2>2, <2>3, <2>4
<1>6. ASSUME NEW y, y \in Range(s) PROVE y \in Range(u)
  <2>1. PICK k \in 1 .. Len(s) : s[k] = y
    BY <1>6, RangeOf
  <2>2. CASE k < n
    <3>1. k \in 1 .. Len(u) /\ u[k] = y
      BY <1>1, <1>2, <1>4, <2>1, <2>2
    <3> QED BY <1>4, <3>1, RangeOf
  <2>3. CASE k >= n
    <3>1. /\ k + 1 \in 1 .. Len(s) + 1 /\ ~(k + 1 < n) /\ k + 1 # n /\ (k + 1) - 1 = k
      BY <1>1, <2>1, <2>3
    <3>2. k + 1 \in 1 .. Len(u) /\ u[k + 1] = y
      BY <1>2, <1>4, <2>1, <3>1
    <3> QED BY <1>4, <3>2, RangeOf
  <2> QED BY <1>1, <2>1, <2>2, <2>3
<1>7. x \in Range(u)
  <2>1. n \in 1 .. Len(u) /\ u[n] = x
    BY <1>1, <1>2, <1>4
  <2> QED BY <1>4, <2>1, RangeOf
<1>8. Range(u) = Range(s) \cup {x}
  BY <1>5, <1>6, <1>7
<1> QED BY <1>4, <1>8 DEF u

\* A non-empty finite set of numbers has a largest one.
LEMMA HasLargest ==
  ASSUME NEW S \in SUBSET Nat, IsFiniteSet(S), S # {}
  PROVE  \E n \in S : \A m \in S : m <= n
<1>1. Cardinality(S) \in Nat /\ Cardinality(S) # 0
  BY FS_CardinalityType, FS_EmptySet
<1>2. PICK n \in S : Rank(S, n) = Cardinality(S)
  BY <1>1, Ranked
<1>3. ASSUME NEW m \in S, n < m PROVE FALSE
  <2>1. Rank(S, n) < Rank(S, m)
    BY <1>3, RankGrows
  <2>2. Rank(S, m) \in 1 .. Cardinality(S)
    BY <1>3, RankType
  <2> QED BY <1>1, <1>2, <2>1, <2>2
<1> QED BY <1>2, <1>3

\* The rows that are due and those that rest.
LEMMA RowsPart ==
  ASSUME NEW s \in Seq(TapRow)
  PROVE  /\ Due(s) \in Seq(TapRow)
         /\ Picked(s, {n \in DOMAIN s : ~s[n].due}) \in Seq(TapRow)
         /\ Range(s) = Range(Due(s)) \cup Range(Picked(s, {n \in DOMAIN s : ~s[n].due}))
<1> DEFINE D == {n \in DOMAIN s : s[n].due}
           R == {n \in DOMAIN s : ~s[n].due}
<1>1. DOMAIN s = 1 .. Len(s)
  OBVIOUS
<1>2. D \in SUBSET (1 .. Len(s)) /\ R \in SUBSET (1 .. Len(s)) /\ DOMAIN s = D \cup R
  BY <1>1
<1>3. Range(s) = {s[p] : p \in D} \cup {s[p] : p \in R}
  <2> HIDE DEF D, R
  <2> QED BY <1>2 DEF Range
<1> QED BY <1>2, <1>3, PickedList DEF Due

\* RowsBut(i) and RowOf(i).
LEMMA RowsButList ==
  ASSUME tapRows \in Seq(TapRow), NEW i
  PROVE  /\ RowsBut(i) \in Seq(TapRow) /\ TapsIn(RowsBut(i)) = TapsIn(tapRows) \ {i}
         /\ i \in TapsIn(tapRows) => RowOf(i) \in TapRow /\ RowOf(i).tap = i
<1> DEFINE P == {n \in DOMAIN tapRows : tapRows[n].tap # i}
<1>1. DOMAIN tapRows = 1 .. Len(tapRows) /\ P \in SUBSET (1 .. Len(tapRows))
  OBVIOUS
<1>2. RowsBut(i) \in Seq(TapRow) /\ Range(RowsBut(i)) = {tapRows[p] : p \in P}
  BY <1>1, PickedList DEF RowsBut
<1>3. TapsIn(RowsBut(i)) = TapsIn(tapRows) \ {i}
  BY <1>1, <1>2 DEF TapsIn, Range
<1>4. ASSUME i \in TapsIn(tapRows) PROVE RowOf(i) \in TapRow /\ RowOf(i).tap = i
  <2>1. PICK n \in DOMAIN tapRows : tapRows[n].tap = i
    BY <1>4 DEF TapsIn, Range
  <2>2. \E n2 \in DOMAIN tapRows : tapRows[n2].tap = i
    BY <2>1
  <2> QED BY <2>2 DEF RowOf
<1> QED BY <1>2, <1>3, <1>4

-----------------------------------------------------------------------------
\* Reactions: what a step leaves

Excuseless == ReactionTypes /\ QueueInv /\ PillInv /\ ThreadInv /\ PeerSeesInv

LEMMA ReactionsStart == ReactionsInit => ReactionsInv
<1> SUFFICES ASSUME ReactionsInit PROVE Excuseless
  BY DEF ReactionsInv, Excuseless
<1>1. /\ taps = <<>> /\ tapRows = <<>> /\ thread = <<>> /\ Len(taps) = 0 /\ Len(tapRows) = 0
      /\ Len(thread) = 0 /\ Range(tapRows) = {} /\ Range(thread) = {}
  BY DEF ReactionsInit, Range
<1>2. ReactionTypes
  <2>1. /\ taps \in Seq({"add", "del"}) /\ tapRows \in Seq(TapRow) /\ thread \in Seq(1 .. Len(taps))
    BY <1>1
  <2>2. /\ pill \in Nat /\ queueing \subseteq 1 .. Len(taps) /\ fed \in 0 .. Len(thread)
        /\ readTo \in 0 .. Len(thread) /\ appliedTo \in 0 .. Len(thread)
    BY <1>1 DEF ReactionsInit
  <2>3. inFlight \in [tap : Nat, stored : BOOLEAN] /\ shown \in BOOLEAN
    BY DEF ReactionsInit, Idling
  <2>4. spent = [now |-> {}, saved |-> {}]
    BY DEF ReactionsInit
  <2>5. spent.now = {} /\ spent = [now |-> spent.now, saved |-> spent.saved]
    BY <2>4
  <2> QED BY <2>1, <2>2, <2>3, <2>5 DEF ReactionTypes
<1>3. QueueInv /\ PillInv
  BY <1>1 DEF ReactionsInit, QueueInv, PillInv, TapsIn, TapsLeft, Idling
<1>4. ThreadInv
  BY <1>1 DEF ThreadInv
<1>5. readTo = 0 /\ page = {} /\ appliedTo = 0 /\ spent.now = {} /\ shown = FALSE
  BY DEF ReactionsInit
<1>6. PeerSeesInv
  BY <1>5 DEF PeerSeesInv
<1> QED BY <1>2, <1>3, <1>4, <1>6 DEF Excuseless

\* The sender's steps before the server: the peer sees the same.
LEMMA PeerStays ==
  ASSUME Excuseless, UNCHANGED <<thread, peerVars>>,
         \A i \in 1 .. Len(taps) : taps'[i] = taps[i]
  PROVE  ThreadInv' /\ PeerSeesInv'
<1>1. ThreadInv'
  BY DEF Excuseless, ThreadInv
<1>2. UNCHANGED <<thread, fed, page, readTo, spent, shown, appliedTo>>
  BY DEF peerVars
<1>3. ASSUME appliedTo # 0 PROVE taps'[thread[appliedTo]] = taps[thread[appliedTo]]
  <2>1. thread \in Seq(1 .. Len(taps)) /\ appliedTo \in 1 .. Len(thread)
    BY <1>3 DEF Excuseless, ReactionTypes
  <2>2. thread[appliedTo] \in 1 .. Len(taps)
    BY <2>1
  <2> QED BY <2>2
<1>4. PeerSeesInv'
  BY <1>2, <1>3 DEF Excuseless, PeerSeesInv
<1> QED BY <1>1, <1>4

LEMMA PillStays ==
  ASSUME PillInv, UNCHANGED <<taps, pill>>, TapsLeft' = TapsLeft
  PROVE  PillInv'
  BY DEF PillInv

\* An add is given up: its pill is dropped.
LEMMA GivenUpKeeps ==
  ASSUME ReactionTypes, PillInv, taps' = taps, NEW i \in 1 .. Len(taps), taps[i] = "add",
         TapsLeft' = TapsLeft \ {i}, pill' = PillWithout(i)
  PROVE  PillInv'
<1>1. Len(taps) \in Nat /\ Len(taps) # 0
  BY DEF ReactionTypes
<1>2. pill' = IF Len(taps) \in TapsLeft' /\ taps[Len(taps)] = "add" THEN Len(taps) ELSE 0
  BY <1>1 DEF PillInv, PillWithout
<1>3. \A j \in 1 .. Len(taps) : taps[j] = "del" => j \in TapsLeft'
  BY DEF PillInv
<1> QED BY <1>2, <1>3 DEF PillInv

-----------------------------------------------------------------------------
\* Reactions: the sender's steps

LEMMA TapKeeps ==
  ASSUME Excuseless, Tap
  PROVE  Excuseless'
<1> DEFINE n == Len(taps) + 1
           what == IF pill = 0 THEN "add" ELSE "del"
<1>1. Len(taps) \in Nat /\ n \in Nat /\ taps \in Seq({"add", "del"}) /\ what \in {"add", "del"}
  BY DEF Excuseless, ReactionTypes
<1>2. /\ taps' = Append(taps, what) /\ Len(taps') = n /\ taps' \in Seq({"add", "del"})
      /\ taps'[n] = what /\ \A i \in 1 .. Len(taps) : taps'[i] = taps[i]
  BY <1>1 DEF Tap
<1>3. /\ pill' = (IF pill = 0 THEN n ELSE 0) /\ queueing' = queueing \cup {n}
      /\ UNCHANGED <<tapRows, inFlight, thread, peerVars>>
  BY <1>2 DEF Tap, AddPill, RemoveOwn
<1> HIDE DEF n
<1>4. /\ 1 .. Len(taps) \subseteq 1 .. Len(taps') /\ n \in 1 .. Len(taps')
      /\ \A i \in 1 .. Len(taps') : i = n \/ i \in 1 .. Len(taps)
      /\ n \notin 1 .. Len(taps)
  BY <1>1, <1>2 DEF n
<1>5. TapsLeft \subseteq 1 .. Len(taps)
  <2>1. Range(thread) \subseteq 1 .. Len(taps)
    BY RangeOf DEF Excuseless, ReactionTypes
  <2> QED BY <2>1 DEF Excuseless, ReactionTypes, QueueInv, TapsLeft
<1>6. TapsLeft' = TapsLeft \cup {n}
  BY <1>3 DEF TapsLeft, TapsIn
<1>7. ReactionTypes'
  <2>1. thread' \in Seq(1 .. Len(taps'))
    <3>1. thread \in Seq(1 .. Len(taps)) /\ thread' = thread
      BY <1>3 DEF Excuseless, ReactionTypes
    <3>2. Len(thread) \in Nat /\ \A k \in 1 .. Len(thread) : thread[k] \in 1 .. Len(taps)
      BY <3>1
    <3>3. \A k \in 1 .. Len(thread) : thread[k] \in 1 .. Len(taps')
      BY <1>4, <3>2
    <3> QED BY <3>1, <3>2, <3>3
  <2>2. pill' \in Nat /\ queueing' \subseteq 1 .. Len(taps')
    BY <1>1, <1>3, <1>4 DEF Excuseless, ReactionTypes
  <2> QED BY <1>2, <1>3, <2>1, <2>2 DEF Excuseless, ReactionTypes, peerVars
<1>8. QueueInv'
  BY <1>3, <1>4, <1>5 DEF Excuseless, QueueInv, TapsLeft, TapsIn
<1>9. PillInv'
  <2>1. \A i \in 1 .. Len(taps') : taps'[i] = "del" => i \in TapsLeft'
    BY <1>2, <1>4, <1>6 DEF Excuseless, PillInv
  <2>2. ASSUME NEW i \in 1 .. Len(taps'), NEW j \in 1 .. Len(taps'), j = i + 1,
               taps'[i] = "add", i \in TapsLeft'
        PROVE  taps'[j] = "del"
    <3>1. i \in 1 .. Len(taps) /\ i # n
      BY <1>1, <1>2, <2>2 DEF n
    <3>2. i \in TapsLeft /\ taps[i] = "add"
      BY <1>2, <1>6, <2>2, <3>1
    <3>3. CASE j = n
      <4>1. i = Len(taps)
        BY <1>1, <2>2, <3>1, <3>3 DEF n
      <4>2. pill = i /\ pill # 0
        BY <3>1, <3>2, <4>1 DEF Excuseless, PillInv
      <4> QED BY <1>2, <3>3, <4>2
    <3>4. CASE j \in 1 .. Len(taps)
      BY <1>2, <2>2, <3>1, <3>2, <3>4 DEF Excuseless, PillInv
    <3> QED BY <1>4, <3>3, <3>4
  <2>3. pill' = IF Len(taps') \in TapsLeft' /\ taps'[Len(taps')] = "add" THEN Len(taps') ELSE 0
    BY <1>2, <1>3, <1>6
  <2> QED BY <2>1, <2>2, <2>3 DEF PillInv
<1>10. ThreadInv' /\ PeerSeesInv'
  BY <1>2, <1>3, PeerStays
<1> QED BY <1>7, <1>8, <1>9, <1>10 DEF Excuseless

\* A step that leaves the taps, the thread and the peer alone.
LEMMA SenderKeeps ==
  ASSUME Excuseless, UNCHANGED <<taps, thread, peerVars>>,
         pill' \in Nat, queueing' \subseteq queueing, tapRows' \in Seq(TapRow),
         inFlight' \in [tap : Nat, stored : BOOLEAN], QueueInv', PillInv'
  PROVE  Excuseless'
<1>1. ReactionTypes'
  BY DEF Excuseless, ReactionTypes, peerVars
<1>2. ThreadInv' /\ PeerSeesInv'
  BY PeerStays
<1> QED BY <1>1, <1>2 DEF Excuseless

LEMMA EnqueueKeeps ==
  ASSUME Excuseless, NEW i \in queueing, Enqueue(i)
  PROVE  Excuseless'
<1> DEFINE r == [tap |-> i, tries |-> 0, due |-> TRUE]
<1>1. /\ i \in 1 .. Len(taps) /\ i \in Nat /\ r \in TapRow /\ r.tap = i
      /\ tapRows \in Seq(TapRow)
  BY DEF Excuseless, ReactionTypes, TapRow
<1>2. /\ tapRows' = Append(DueRows, r) \o Resting /\ queueing' = queueing \ {i}
      /\ UNCHANGED <<taps, pill, inFlight, thread, peerVars>>
  BY DEF Enqueue
<1> HIDE DEF r
<1>3. /\ DueRows \in Seq(TapRow) /\ Resting \in Seq(TapRow)
      /\ Range(tapRows) = Range(DueRows) \cup Range(Resting)
  BY <1>1, RowsPart DEF DueRows, Resting
<1>4. Append(DueRows, r) \in Seq(TapRow) /\ Range(Append(DueRows, r)) = Range(DueRows) \cup {r}
  BY <1>1, <1>3, AppendList
<1>5. tapRows' \in Seq(TapRow) /\ Range(tapRows') = Range(tapRows) \cup {r}
  <2> DEFINE u == Append(DueRows, r)
  <2>1. u \in Seq(TapRow) /\ Range(u) = Range(DueRows) \cup {r} /\ tapRows' = u \o Resting
    BY <1>2, <1>4
  <2> HIDE DEF u
  <2>2. u \o Resting \in Seq(TapRow) /\ Range(u \o Resting) = Range(u) \cup Range(Resting)
    BY <1>3, <2>1, ConcatList
  <2> QED BY <1>3, <2>1, <2>2
<1>6. TapsIn(tapRows') = TapsIn(tapRows) \cup {i}
  BY <1>1, <1>5 DEF TapsIn
<1>7. TapsLeft' = TapsLeft
  BY <1>2, <1>6 DEF TapsLeft
<1>8. QueueInv'
  BY <1>1, <1>2, <1>6 DEF Excuseless, QueueInv
<1>9. PillInv'
  BY <1>2, <1>7, PillStays DEF Excuseless
<1> QED BY <1>2, <1>5, <1>8, <1>9, SenderKeeps DEF Excuseless, ReactionTypes

LEMMA EnqueueFailsKeeps ==
  ASSUME Excuseless, excuses = {}, excuses' = {}, NEW i \in queueing, EnqueueFails(i)
  PROVE  Excuseless'
<1>1. i \in 1 .. Len(taps) /\ taps[i] \in {"add", "del"} /\ pill \in Nat /\ queueing' = queueing \ {i}
  <2>1. taps \in Seq({"add", "del"}) /\ i \in 1 .. Len(taps) /\ pill \in Nat
    BY DEF Excuseless, ReactionTypes
  <2>2. taps[i] \in {"add", "del"}
    BY <2>1
  <2> QED BY <2>1, <2>2 DEF EnqueueFails
<1>2. taps[i] = "add" /\ pill' = PillWithout(i)
  BY <1>1 DEF EnqueueFails, GivenUp
<1>3. UNCHANGED <<taps, tapRows, inFlight, thread, peerVars>>
  BY DEF EnqueueFails
<1>4. TapsLeft' = TapsLeft \ {i}
  BY <1>1, <1>3 DEF Excuseless, QueueInv, TapsLeft, TapsIn
<1>5. PillInv'
  BY <1>1, <1>2, <1>3, <1>4, GivenUpKeeps DEF Excuseless
<1>6. QueueInv'
  BY <1>1, <1>3 DEF Excuseless, QueueInv, TapsIn
<1>7. pill' \in Nat
  BY <1>1, <1>2 DEF PillWithout
<1> QED BY <1>1, <1>3, <1>5, <1>6, <1>7, SenderKeeps DEF Excuseless, ReactionTypes

LEMMA PickRowKeeps ==
  ASSUME Excuseless, PickRow
  PROVE  Excuseless'
<1>1. /\ tapRows \in Seq(TapRow) /\ DueRows # <<>> /\ inFlight = Idling
      /\ inFlight' = [tap |-> Head(DueRows).tap, stored |-> FALSE]
      /\ UNCHANGED <<taps, pill, queueing, tapRows, thread, peerVars>>
  BY DEF Excuseless, ReactionTypes, PickRow
<1>2. /\ DueRows \in Seq(TapRow) /\ Range(DueRows) \subseteq Range(tapRows)
  BY <1>1, RowsPart DEF DueRows
<1>3. Head(DueRows) \in Range(tapRows) /\ Head(DueRows) \in TapRow
  BY <1>1, <1>2, TailList
<1>4. PICK i \in Nat : i = Head(DueRows).tap
  BY <1>3 DEF TapRow
<1>5. /\ i \in TapsIn(tapRows) /\ inFlight' = [tap |-> i, stored |-> FALSE]
      /\ inFlight'.tap = i /\ inFlight'.stored = FALSE /\ i # 0
  BY <1>1, <1>3, <1>4 DEF TapsIn, Excuseless, QueueInv
<1>6. QueueInv'
  BY <1>1, <1>5 DEF Excuseless, QueueInv, TapsIn
<1>7. PillInv'
  BY <1>1, PillStays DEF Excuseless, TapsLeft, TapsIn
<1> QED BY <1>1, <1>4, <1>5, <1>6, <1>7, SenderKeeps DEF Excuseless, ReactionTypes

LEMMA SendAckedKeeps ==
  ASSUME Excuseless, SendAcked
  PROVE  Excuseless'
<1> DEFINE i == inFlight.tap
<1>1. /\ inFlight.stored /\ tapRows' = RowsBut(i) /\ inFlight' = Idling
      /\ UNCHANGED <<taps, pill, queueing, thread, peerVars>>
  BY DEF SendAcked
<1>2. i \in Range(thread)
  BY <1>1 DEF Excuseless, QueueInv, Idling
<1>3. tapRows' \in Seq(TapRow) /\ TapsIn(tapRows') = TapsIn(tapRows) \ {i}
  BY <1>1, RowsButList DEF Excuseless, ReactionTypes
<1>4. TapsLeft' = TapsLeft
  BY <1>1, <1>2, <1>3 DEF TapsLeft
<1>5. inFlight' \in [tap : Nat, stored : BOOLEAN] /\ inFlight'.tap = 0
  BY <1>1 DEF Idling
<1>6. QueueInv'
  BY <1>1, <1>3, <1>5 DEF Excuseless, QueueInv, Idling
<1>7. PillInv'
  BY <1>1, <1>4, PillStays DEF Excuseless
<1> QED BY <1>1, <1>3, <1>5, <1>6, <1>7, SenderKeeps DEF Excuseless, ReactionTypes

LEMMA SendRejectedKeeps ==
  ASSUME Excuseless, excuses = {}, excuses' = {}, SendRejected
  PROVE  Excuseless'
<1> DEFINE i    == inFlight.tap
           row  == [RowOf(i) EXCEPT !.tries = @ + 1, !.due = FALSE]
           rest == RowsBut(i)
<1>1. /\ i # 0 /\ inFlight' = Idling /\ UNCHANGED <<taps, queueing, thread, peerVars>>
      /\ tapRows \in Seq(TapRow)
  BY DEF SendRejected, Excuseless, ReactionTypes
<1>2. i \in TapsIn(tapRows) /\ i \in 1 .. Len(taps) /\ taps[i] \in {"add", "del"}
  BY <1>1 DEF Excuseless, QueueInv, ReactionTypes
<1>3. rest \in Seq(TapRow) /\ TapsIn(rest) = TapsIn(tapRows) \ {i} /\ RowOf(i) \in TapRow /\ RowOf(i).tap = i
  BY <1>1, <1>2, RowsButList
<1>4. inFlight' \in [tap : Nat, stored : BOOLEAN] /\ inFlight'.tap = 0
  BY <1>1 DEF Idling
<1>5. \/ /\ \E n \in Len(Due(rest)) + 1 .. Len(rest) + 1 : tapRows' = Inserted(rest, n, row)
         /\ pill' = pill
      \/ /\ tapRows' = rest /\ pill' = PillWithout(i)
         /\ excuses' = IF i \in Range(thread) THEN excuses \cup {"a stored tap was given up"}
                       ELSE GivenUp(i, "a del was given up")
  BY DEF SendRejected
<1>6. row \in TapRow /\ row.tap = i
  <2> DEFINE q == RowOf(i)
             k == q.tries + 1
  <2>1. q \in TapRow /\ q.tap = i /\ row = [q EXCEPT !.tries = k, !.due = FALSE]
    BY <1>3
  <2>2. k \in Nat
    BY <2>1 DEF TapRow
  <2> HIDE DEF q, k
  <2> QED BY <2>1, <2>2 DEF TapRow
<1> HIDE DEF i, row, rest
<1>7. CASE /\ \E n \in Len(Due(rest)) + 1 .. Len(rest) + 1 : tapRows' = Inserted(rest, n, row)
           /\ pill' = pill
  <2>1. PICK n \in Len(Due(rest)) + 1 .. Len(rest) + 1 : tapRows' = Inserted(rest, n, row)
    BY <1>7
  <2>2. Due(rest) \in Seq(TapRow)
    BY <1>3, RowsPart
  <2>3. n \in 1 .. Len(rest) + 1
    BY <1>3, <2>1, <2>2
  <2>4. tapRows' \in Seq(TapRow) /\ Range(tapRows') = Range(rest) \cup {row}
    BY <1>3, <1>6, <2>1, <2>3, InsertedList
  <2>5. TapsIn(tapRows') = TapsIn(tapRows)
    <3>1. TapsIn(tapRows') = TapsIn(rest) \cup {i}
      BY <1>6, <2>4 DEF TapsIn
    <3> QED BY <1>2, <1>3, <3>1
  <2>6. QueueInv'
    BY <1>1, <1>4, <2>5 DEF Excuseless, QueueInv, Idling
  <2>7. PillInv'
    BY <1>1, <1>7, <2>5, PillStays DEF Excuseless, TapsLeft
  <2> QED BY <1>1, <1>4, <1>7, <2>4, <2>6, <2>7, SenderKeeps DEF Excuseless, ReactionTypes
<1>8. CASE /\ tapRows' = rest /\ pill' = PillWithout(i)
           /\ excuses' = IF i \in Range(thread) THEN excuses \cup {"a stored tap was given up"}
                         ELSE GivenUp(i, "a del was given up")
  <2>1. i \notin Range(thread) /\ taps[i] = "add"
    BY <1>2, <1>8 DEF GivenUp
  <2>2. TapsLeft' = TapsLeft \ {i}
    BY <1>1, <1>2, <1>3, <1>8, <2>1 DEF TapsLeft, Excuseless, QueueInv
  <2>3. PillInv'
    BY <1>1, <1>2, <1>8, <2>1, <2>2, GivenUpKeeps DEF Excuseless
  <2>4. QueueInv'
    BY <1>1, <1>3, <1>4, <1>8 DEF Excuseless, QueueInv, Idling
  <2>5. pill' \in Nat
    BY <1>8 DEF PillWithout, Excuseless, ReactionTypes
  <2> QED BY <1>1, <1>3, <1>4, <1>8, <2>3, <2>4, <2>5, SenderKeeps DEF Excuseless, ReactionTypes
<1> QED BY <1>5, <1>7, <1>8

LEMMA BackoffKeeps ==
  ASSUME Excuseless, Backoff
  PROVE  Excuseless'
<1> DEFINE r == [Head(Resting) EXCEPT !.due = TRUE]
<1>1. /\ tapRows \in Seq(TapRow) /\ Resting # <<>> /\ tapRows' = Append(DueRows, r) \o Tail(Resting)
      /\ UNCHANGED <<taps, pill, queueing, inFlight, thread, peerVars>>
  BY DEF Excuseless, ReactionTypes, Backoff
<1>2. /\ DueRows \in Seq(TapRow) /\ Resting \in Seq(TapRow)
      /\ Range(tapRows) = Range(DueRows) \cup Range(Resting)
  BY <1>1, RowsPart DEF DueRows, Resting
<1>3. /\ Head(Resting) \in TapRow /\ Tail(Resting) \in Seq(TapRow)
      /\ Range(Resting) = Range(Tail(Resting)) \cup {Head(Resting)}
  BY <1>1, <1>2, TailList
<1>4. r \in TapRow /\ r.tap = Head(Resting).tap
  BY <1>3 DEF TapRow
<1> HIDE DEF r
<1>5. Append(DueRows, r) \in Seq(TapRow) /\ Range(Append(DueRows, r)) = Range(DueRows) \cup {r}
  BY <1>2, <1>4, AppendList
<1>6. tapRows' \in Seq(TapRow) /\ Range(tapRows') = Range(DueRows) \cup {r} \cup Range(Tail(Resting))
  <2> DEFINE u == Append(DueRows, r)
             t == Tail(Resting)
  <2>1. /\ u \in Seq(TapRow) /\ Range(u) = Range(DueRows) \cup {r} /\ tapRows' = u \o t
        /\ t \in Seq(TapRow) /\ Range(t) = Range(Tail(Resting))
    BY <1>1, <1>3, <1>5
  <2> HIDE DEF u, t
  <2>2. u \o t \in Seq(TapRow) /\ Range(u \o t) = Range(u) \cup Range(t)
    BY <2>1, ConcatList
  <2> QED BY <2>1, <2>2
<1>7. TapsIn(tapRows') = TapsIn(tapRows)
  BY <1>2, <1>3, <1>4, <1>6 DEF TapsIn
<1>8. TapsLeft' = TapsLeft
  BY <1>1, <1>7 DEF TapsLeft
<1>9. QueueInv' /\ PillInv'
  BY <1>1, <1>7, <1>8, PillStays DEF Excuseless, QueueInv
<1> QED BY <1>1, <1>6, <1>9, SenderKeeps DEF Excuseless, ReactionTypes

-----------------------------------------------------------------------------
\* Reactions: the server's step and the peer's

LEMMA StoredKeeps ==
  ASSUME Excuseless, excuses = {}, excuses' = {}, StoredOnServer
  PROVE  Excuseless'
<1> DEFINE i == inFlight.tap
           L == Len(thread)
<1>1. /\ i # 0 /\ ~inFlight.stored /\ inFlight' = [inFlight EXCEPT !.stored = TRUE]
      /\ thread' = Append(thread, i) /\ UNCHANGED <<taps, pill, queueing, tapRows>>
      /\ UNCHANGED <<fed, page, readTo, spent, shown, appliedTo>>
  BY DEF StoredOnServer, peerVars
<1>2. /\ thread \in Seq(1 .. Len(taps)) /\ L \in Nat /\ inFlight \in [tap : Nat, stored : BOOLEAN]
      /\ Len(taps) \in Nat
  BY DEF Excuseless, ReactionTypes
<1>3. i \in TapsIn(tapRows) /\ i \in 1 .. Len(taps)
  BY <1>1 DEF Excuseless, QueueInv
<1>4. \A n \in 1 .. L : ~(thread[n] > i)
  <2>1. DOMAIN thread = 1 .. L
    BY <1>2
  <2>2. ~(\E n \in DOMAIN thread : thread[n] > i)
    BY DEF StoredOnServer
  <2> QED BY <2>1, <2>2
<1>5. /\ inFlight' \in [tap : Nat, stored : BOOLEAN] /\ inFlight'.tap = i
  BY <1>1, <1>2
<1>6. /\ thread' \in Seq(1 .. Len(taps)) /\ Len(thread') = L + 1
      /\ thread'[L + 1] = i /\ \A n \in 1 .. L : thread'[n] = thread[n]
  BY <1>1, <1>2, <1>3
<1>7. Range(thread') = Range(thread) \cup {i}
  BY <1>1, <1>2, <1>3, AppendList
<1> HIDE DEF i, L
<1>8. 0 .. L \subseteq 0 .. Len(thread') /\ 1 .. L \subseteq 1 .. Len(thread')
  BY <1>2, <1>6
<1>9. ReactionTypes'
  <2>1. /\ fed' \in 0 .. Len(thread') /\ readTo' \in 0 .. Len(thread')
        /\ spent'.now \subseteq 1 .. Len(thread') /\ appliedTo' \in 0 .. Len(thread')
    BY <1>1, <1>8 DEF Excuseless, ReactionTypes, L
  <2>2. spent' = [now |-> spent'.now, saved |-> spent'.saved] /\ shown' \in BOOLEAN
    BY <1>1 DEF Excuseless, ReactionTypes
  <2>3. /\ taps' \in Seq({"add", "del"}) /\ pill' \in Nat /\ queueing' \subseteq 1 .. Len(taps')
        /\ tapRows' \in Seq(TapRow) /\ thread' \in Seq(1 .. Len(taps'))
    BY <1>1, <1>6 DEF Excuseless, ReactionTypes
  <2> QED BY <1>5, <2>1, <2>2, <2>3 DEF ReactionTypes
<1>10. QueueInv'
  <2>1. TapsIn(tapRows') = TapsIn(tapRows)
    BY <1>1
  <2>2. queueing \cap (TapsIn(tapRows) \cup Range(thread')) = {}
    BY <1>3, <1>7 DEF Excuseless, QueueInv
  <2>3. inFlight'.tap # 0 /\ inFlight'.tap \in TapsIn(tapRows) /\ inFlight'.tap \in Range(thread')
    BY <1>1, <1>3, <1>5, <1>7
  <2> QED BY <1>1, <2>1, <2>2, <2>3 DEF Excuseless, QueueInv
<1>11. PillInv'
  <2>1. TapsLeft' = TapsLeft
    BY <1>1, <1>3, <1>7 DEF TapsLeft, TapsIn
  <2> QED BY <1>1, <2>1, PillStays DEF Excuseless
<1>12. ThreadInv'
  <2> SUFFICES ASSUME NEW m \in 1 .. Len(thread'), NEW n \in 1 .. Len(thread'), m <= n
               PROVE  thread'[m] <= thread'[n]
    BY DEF ThreadInv
  <2>1. CASE n <= L
    <3>1. m \in 1 .. L /\ n \in 1 .. L
      BY <1>2, <1>6, <2>1
    <3>2. thread[m] <= thread[n]
      BY <3>1 DEF Excuseless, ThreadInv, L
    <3> QED BY <1>6, <3>1, <3>2
  <2>2. CASE n = L + 1 /\ m <= L
    <3>1. m \in 1 .. L /\ ~(thread[m] > i) /\ thread[m] \in 1 .. Len(taps)
      BY <1>2, <1>4, <2>2 DEF L
    <3> QED BY <1>3, <1>6, <2>2, <3>1
  <2>3. CASE n = L + 1 /\ m = L + 1
    BY <1>3, <1>6, <2>3
  <2> QED BY <1>2, <1>6, <2>1, <2>2, <2>3
<1>13. PeerSeesInv'
  <2>1. page # {} => \E m \in readTo + 1 .. Len(thread') : page = readTo + 1 .. m
    <3>1. readTo + 1 .. L \subseteq readTo + 1 .. Len(thread')
      BY <1>2, <1>6 DEF Excuseless, ReactionTypes, L
    <3> QED BY <3>1 DEF Excuseless, PeerSeesInv, L
  <2>2. shown <=> appliedTo # 0 /\ taps[thread'[appliedTo]] = "add"
    <3>1. appliedTo # 0 => thread'[appliedTo] = thread[appliedTo]
      BY <1>6 DEF Excuseless, ReactionTypes, L
    <3> QED BY <3>1 DEF Excuseless, PeerSeesInv
  <2> QED BY <1>1, <2>1, <2>2 DEF Excuseless, PeerSeesInv
<1> QED BY <1>9, <1>10, <1>11, <1>12, <1>13 DEF Excuseless

\* What applying serials that are new or not makes of the peer's state.
LEMMA Applied ==
  ASSUME Excuseless, excuses = {}, excuses' = {}, NEW serials \in SUBSET (1 .. Len(thread)),
         Apply(serials)
  PROVE  /\ spent'.now = spent.now \cup serials
         /\ spent' = [now |-> spent'.now, saved |-> spent'.saved]
         /\ appliedTo' \in 0 .. Len(thread) /\ shown' \in BOOLEAN
         /\ appliedTo' \in spent'.now \cup {0} /\ \A n \in spent'.now : n <= appliedTo'
         /\ shown' <=> appliedTo' # 0 /\ taps[thread[appliedTo']] = "add"
<1> DEFINE fresh == serials \ spent.now
           last  == CHOOSE n \in fresh : \A m \in fresh : m <= n
<1>1. /\ spent' = [spent EXCEPT !.now = @ \cup fresh]
      /\ IF fresh = {} THEN UNCHANGED <<shown, appliedTo, excuses>>
         ELSE /\ shown' = (taps[thread[last]] = "add")
              /\ appliedTo' = IF last > appliedTo THEN last ELSE appliedTo
              /\ excuses' = IF last < appliedTo THEN excuses \cup {"a page was overtaken"}
                            ELSE excuses
  BY DEF Apply
<1>2. /\ Len(thread) \in Nat /\ spent = [now |-> spent.now, saved |-> spent.saved]
      /\ spent.now \subseteq 1 .. Len(thread) /\ appliedTo \in 0 .. Len(thread) /\ shown \in BOOLEAN
      /\ appliedTo \in spent.now \cup {0} /\ \A n \in spent.now : n <= appliedTo
      /\ shown <=> appliedTo # 0 /\ taps[thread[appliedTo]] = "add"
  BY DEF Excuseless, ReactionTypes, PeerSeesInv
<1>3. /\ fresh \in SUBSET (1 .. Len(thread)) /\ spent.now \cup fresh = spent.now \cup serials
      /\ fresh \cap spent.now = {}
  OBVIOUS
<1>4. fresh # {} => last \in fresh /\ \A m \in fresh : m <= last
  <2>1. IsFiniteSet(fresh) /\ fresh \in SUBSET Nat
    <3>1. IsFiniteSet(1 .. Len(thread))
      <4>1. 1 \in Int /\ Len(thread) \in Int
        BY <1>2
      <4> QED BY <4>1, FS_Interval
    <3> HIDE DEF fresh
    <3>2. IsFiniteSet(fresh)
      BY <1>3, <3>1, FS_Subset
    <3>3. 1 .. Len(thread) \subseteq Nat
      BY <1>2
    <3> QED BY <1>3, <3>2, <3>3
  <2> HIDE DEF fresh
  <2>2. fresh # {} => \E n \in fresh : \A m \in fresh : m <= n
    BY <2>1, HasLargest
  <2> QED BY <2>2
<1> HIDE DEF fresh, last
<1>5. spent'.now = spent.now \cup fresh /\ spent' = [now |-> spent'.now, saved |-> spent'.saved]
  BY <1>1, <1>2
<1>6. CASE fresh = {}
  <2>1. spent'.now = spent.now /\ appliedTo' = appliedTo /\ shown' = shown
    BY <1>1, <1>5, <1>6
  <2> QED BY <1>2, <1>3, <1>5, <2>1
<1>7. CASE fresh # {}
  <2>1. last \in 1 .. Len(thread) /\ last \in fresh /\ last \notin spent.now /\ ~(last < appliedTo)
    BY <1>1, <1>3, <1>4, <1>7
  <2>2. last > appliedTo
    BY <1>2, <2>1
  <2>3. appliedTo' = last /\ shown' \in BOOLEAN /\ (shown' <=> taps[thread[last]] = "add")
    BY <1>1, <1>7, <2>2
  <2>4. last # 0 /\ last \in spent'.now /\ last \in 0 .. Len(thread)
    BY <1>5, <2>1
  <2>5. ASSUME NEW n \in spent'.now PROVE n <= last
    <3>1. CASE n \in fresh
      BY <1>4, <1>7, <3>1
    <3>2. CASE n \in spent.now
      BY <1>2, <2>1, <2>2, <3>2
    <3> QED BY <1>5, <3>1, <3>2
  <2> QED BY <1>3, <1>5, <2>3, <2>4, <2>5
<1> QED BY <1>6, <1>7

\* A step of the peer alone.
LEMMA PeerKeeps ==
  ASSUME Excuseless, UNCHANGED <<senderVars, thread>>,
         fed' \in 0 .. Len(thread), readTo' \in 0 .. Len(thread),
         spent'.now \subseteq 1 .. Len(thread),
         spent' = [now |-> spent'.now, saved |-> spent'.saved],
         appliedTo' \in 0 .. Len(thread), shown' \in BOOLEAN, PeerSeesInv'
  PROVE  Excuseless'
<1>1. UNCHANGED <<taps, pill, queueing, tapRows, inFlight, thread>>
  BY DEF senderVars
<1>2. ReactionTypes'
  BY <1>1 DEF Excuseless, ReactionTypes
<1>3. QueueInv' /\ PillInv'
  BY <1>1 DEF Excuseless, QueueInv, PillInv, TapsLeft, TapsIn
<1>4. ThreadInv'
  BY <1>1 DEF Excuseless, ThreadInv
<1> QED BY <1>2, <1>3, <1>4 DEF Excuseless

LEMMA LiveTapKeeps ==
  ASSUME Excuseless, excuses = {}, excuses' = {}, LiveTap
  PROVE  Excuseless'
<1> DEFINE n == fed + 1
<1>1. /\ fed \in 0 .. Len(thread) /\ Len(thread) \in Nat /\ readTo \in 0 .. Len(thread)
      /\ spent.now \subseteq 1 .. Len(thread)
  BY DEF Excuseless, ReactionTypes
<1>2. /\ fed < Len(thread) /\ fed' = n /\ Apply({fed'}) /\ UNCHANGED <<senderVars, thread>>
      /\ taps' = taps /\ thread' = thread /\ page' = page /\ readTo' = readTo
  BY DEF LiveTap, senderVars
<1>3. n \in 1 .. Len(thread)
  BY <1>1, <1>2
<1> HIDE DEF n
<1>4. {n} \in SUBSET (1 .. Len(thread)) /\ Apply({n})
  BY <1>2, <1>3
<1>5. /\ spent'.now = spent.now \cup {n}
      /\ spent' = [now |-> spent'.now, saved |-> spent'.saved]
      /\ appliedTo' \in 0 .. Len(thread) /\ shown' \in BOOLEAN
      /\ appliedTo' \in spent'.now \cup {0} /\ \A k \in spent'.now : k <= appliedTo'
      /\ shown' <=> appliedTo' # 0 /\ taps[thread[appliedTo']] = "add"
  BY <1>4, Applied
<1>6. PeerSeesInv'
  BY <1>2, <1>5 DEF Excuseless, PeerSeesInv
<1>7. fed' \in 0 .. Len(thread) /\ readTo' \in 0 .. Len(thread) /\ spent'.now \subseteq 1 .. Len(thread)
  BY <1>1, <1>2, <1>3, <1>5
<1> QED BY <1>2, <1>5, <1>6, <1>7, PeerKeeps

LEMMA TakePageKeeps ==
  ASSUME Excuseless, excuses = {}, excuses' = {}, TakePage
  PROVE  Excuseless'
<1>1. /\ fed \in 0 .. Len(thread) /\ Len(thread) \in Nat /\ readTo \in 0 .. Len(thread)
      /\ spent.now \subseteq 1 .. Len(thread) /\ \A n \in 1 .. readTo : n \in spent.now
  BY DEF Excuseless, ReactionTypes, PeerSeesInv
<1>2. /\ page # {} /\ page' = {} /\ Apply(page) /\ UNCHANGED <<senderVars, thread>>
      /\ taps' = taps /\ thread' = thread /\ fed' = fed
      /\ readTo' = CHOOSE n \in page : \A m \in page : m <= n
  BY DEF TakePage, senderVars
<1>3. PICK k \in readTo + 1 .. Len(thread) : page = readTo + 1 .. k
  BY <1>2 DEF Excuseless, PeerSeesInv
<1>4. k \in page /\ \A m \in page : m <= k
  BY <1>1, <1>3
<1>5. readTo' \in page /\ \A m \in page : m <= readTo'
  <2>1. \E n \in page : \A m \in page : m <= n
    BY <1>4
  <2> QED BY <1>2, <2>1
<1>6. readTo' = k
  BY <1>1, <1>3, <1>4, <1>5
<1>7. page \in SUBSET (1 .. Len(thread))
  BY <1>1, <1>3
<1>8. /\ spent'.now = spent.now \cup page
      /\ spent' = [now |-> spent'.now, saved |-> spent'.saved]
      /\ appliedTo' \in 0 .. Len(thread) /\ shown' \in BOOLEAN
      /\ appliedTo' \in spent'.now \cup {0} /\ \A n \in spent'.now : n <= appliedTo'
      /\ shown' <=> appliedTo' # 0 /\ taps[thread[appliedTo']] = "add"
  BY <1>2, <1>7, Applied
<1>9. \A n \in 1 .. readTo' : n \in spent'.now
  <2> SUFFICES ASSUME NEW n \in 1 .. k PROVE n \in spent'.now
    BY <1>6
  <2>1. n \in 1 .. readTo \/ n \in readTo + 1 .. k
    BY <1>1, <1>3
  <2> QED BY <1>1, <1>3, <1>8, <2>1
<1>10. PeerSeesInv'
  BY <1>2, <1>8, <1>9 DEF PeerSeesInv
<1>11. fed' \in 0 .. Len(thread) /\ readTo' \in 0 .. Len(thread) /\ spent'.now \subseteq 1 .. Len(thread)
  <2>1. k \in 0 .. Len(thread)
    BY <1>1, <1>3
  <2> QED BY <1>1, <1>2, <1>6, <1>7, <1>8, <2>1
<1> QED BY <1>2, <1>8, <1>10, <1>11, PeerKeeps

LEMMA PeerMissesKeeps ==
  ASSUME Excuseless, PeerMisses
  PROVE  Excuseless'
<1>1. /\ fed \in 0 .. Len(thread) /\ Len(thread) \in Nat /\ readTo \in 0 .. Len(thread)
      /\ spent.now \subseteq 1 .. Len(thread) /\ appliedTo \in 0 .. Len(thread) /\ shown \in BOOLEAN
      /\ spent = [now |-> spent.now, saved |-> spent.saved]
  BY DEF Excuseless, ReactionTypes
<1>2. /\ \/ fed' = Len(thread) /\ page' = page
         \/ page' = {} /\ fed' = fed
      /\ UNCHANGED <<senderVars, thread, readTo, spent, shown, appliedTo>> /\ taps' = taps
  BY DEF PeerMisses, senderVars
<1>3. PeerSeesInv'
  BY <1>2 DEF Excuseless, PeerSeesInv
<1>4. fed' \in 0 .. Len(thread)
  BY <1>1, <1>2
<1> QED BY <1>1, <1>2, <1>3, <1>4, PeerKeeps

LEMMA ReadPageKeeps ==
  ASSUME Excuseless, ReadPage
  PROVE  Excuseless'
<1>1. /\ fed \in 0 .. Len(thread) /\ Len(thread) \in Nat /\ readTo \in 0 .. Len(thread)
      /\ spent.now \subseteq 1 .. Len(thread) /\ appliedTo \in 0 .. Len(thread) /\ shown \in BOOLEAN
      /\ spent = [now |-> spent.now, saved |-> spent.saved]
  BY DEF Excuseless, ReactionTypes
<1>2. /\ readTo < Len(thread) /\ page' = readTo + 1 .. Len(thread)
      /\ UNCHANGED <<senderVars, thread, fed, readTo, spent, shown, appliedTo>> /\ taps' = taps
  BY DEF ReadPage, senderVars
<1>3. Len(thread) \in readTo + 1 .. Len(thread)
  BY <1>1, <1>2
<1>4. PeerSeesInv'
  BY <1>2, <1>3 DEF Excuseless, PeerSeesInv
<1> QED BY <1>1, <1>2, <1>4, PeerKeeps

LEMMA PeerSavesKeeps ==
  ASSUME Excuseless, PeerSaves
  PROVE  Excuseless'
<1>1. /\ fed \in 0 .. Len(thread) /\ readTo \in 0 .. Len(thread)
      /\ spent.now \subseteq 1 .. Len(thread) /\ appliedTo \in 0 .. Len(thread) /\ shown \in BOOLEAN
      /\ spent = [now |-> spent.now, saved |-> spent.saved]
  BY DEF Excuseless, ReactionTypes
<1>2. /\ spent' = [spent EXCEPT !.saved = spent.now] /\ taps' = taps
      /\ UNCHANGED <<senderVars, thread, fed, page, readTo, shown, appliedTo>>
  BY DEF PeerSaves, senderVars
<1>3. spent'.now = spent.now /\ spent' = [now |-> spent'.now, saved |-> spent'.saved]
  BY <1>1, <1>2
<1>4. PeerSeesInv'
  BY <1>2, <1>3 DEF Excuseless, PeerSeesInv
<1> QED BY <1>1, <1>2, <1>3, <1>4, PeerKeeps

\* What was excused stays excused.
LEMMA ExcusesStay ==
  ASSUME ReactionsNext
  PROVE  excuses \subseteq excuses'
<1>1. ASSUME NEW serials, Apply(serials) PROVE excuses \subseteq excuses'
  BY <1>1 DEF Apply
<1>2. LiveTap \/ TakePage => excuses \subseteq excuses'
  BY <1>1 DEF LiveTap, TakePage
<1>3. SendRejected => excuses \subseteq excuses'
  BY DEF SendRejected, GivenUp
<1>4. ASSUME NEW i \in queueing, EnqueueFails(i) PROVE excuses \subseteq excuses'
  BY <1>4 DEF EnqueueFails, GivenUp
<1>5. Tap \/ (\E i \in queueing : Enqueue(i)) \/ PickRow \/ SendAcked \/ Backoff => excuses' = excuses
  BY DEF Tap, Enqueue, PickRow, SendAcked, Backoff
<1>6. StoredOnServer \/ SenderDies \/ PeerDies => excuses \subseteq excuses'
  BY DEF StoredOnServer, SenderDies, PeerDies
<1>7. PeerMisses \/ ReadPage \/ PeerSaves => excuses' = excuses
  BY DEF PeerMisses, ReadPage, PeerSaves
<1> QED BY <1>2, <1>3, <1>4, <1>5, <1>6, <1>7 DEF ReactionsNext

LEMMA ReactionsStep == ReactionsInv /\ [ReactionsNext]_reactionVars => ReactionsInv'
<1> SUFFICES ASSUME ReactionsInv, [ReactionsNext]_reactionVars, excuses' = {}
             PROVE  Excuseless'
  BY DEF ReactionsInv, Excuseless
<1>1. excuses = {} /\ Excuseless
  BY ExcusesStay DEF ReactionsInv, Excuseless, reactionVars
<1>2. CASE UNCHANGED reactionVars
  <2>1. UNCHANGED <<taps, pill, queueing, tapRows, inFlight, thread, fed, page, readTo, spent,
                    shown, appliedTo>>
    BY <1>2 DEF reactionVars
  <2> QED BY <1>1, <2>1 DEF Excuseless, ReactionTypes, QueueInv, PillInv, ThreadInv, PeerSeesInv,
                             TapsLeft, TapsIn
<1>3. CASE ReactionsNext
  <2>1. ~SenderDies /\ ~PeerDies
    BY DEF SenderDies, PeerDies
  <2> QED BY <1>1, <1>3, <2>1, TapKeeps, EnqueueKeeps, EnqueueFailsKeeps, PickRowKeeps, StoredKeeps,
             SendAckedKeeps, SendRejectedKeeps, BackoffKeeps, LiveTapKeeps, PeerMissesKeeps,
             ReadPageKeeps, TakePageKeeps, PeerSavesKeeps DEF ReactionsNext
<1> QED BY <1>2, <1>3

LEMMA ReactionsShow == ReactionsInv => ReactionsAgree
<1> SUFFICES ASSUME ReactionsInv, SenderQuiet, CaughtUpOnReactions, excuses = {}
             PROVE  shown = (pill # 0)
  BY DEF ReactionsAgree
<1> DEFINE N == Len(thread)
           L == Len(taps)
<1>1. /\ ReactionTypes /\ QueueInv /\ PillInv /\ ThreadInv /\ PeerSeesInv
  BY DEF ReactionsInv
<1>2. /\ queueing = {} /\ tapRows = <<>> /\ fed = N /\ readTo = N /\ page = {}
  BY DEF SenderQuiet, CaughtUpOnReactions
<1>3. N \in Nat /\ L \in Nat /\ thread \in Seq(1 .. L) /\ \A n \in 1 .. N : thread[n] \in 1 .. L
  BY <1>1 DEF ReactionTypes
<1>4. TapsLeft = Range(thread)
  <2>1. Range(tapRows) = {}
    BY <1>2 DEF Range
  <2> QED BY <1>2, <2>1 DEF TapsLeft, TapsIn
<1>5. appliedTo = N
  <2>1. appliedTo \in 0 .. N /\ \A n \in 1 .. N : n <= appliedTo
    BY <1>1, <1>2 DEF ReactionTypes, PeerSeesInv
  <2> QED BY <1>3, <2>1
<1>6. shown <=> N # 0 /\ taps[thread[N]] = "add"
  BY <1>1, <1>5 DEF PeerSeesInv
<1>7. ASSUME shown PROVE pill # 0
  <2>1. PICK j \in 1 .. L : j = thread[N] /\ taps[j] = "add" /\ N \in 1 .. N
    BY <1>3, <1>6, <1>7
  <2>2. j \in Range(thread)
    BY <1>3, <2>1, RangeOf
  <2>3. CASE j = L
    BY <1>1, <1>4, <2>1, <2>2, <2>3 DEF PillInv
  <2>4. CASE j < L
    <3>1. PICK k \in 1 .. L : k = j + 1
      BY <1>3, <2>4
    <3>2. k \in Range(thread)
      BY <1>1, <1>4, <2>1, <2>2, <3>1 DEF PillInv
    <3>3. PICK m \in 1 .. N : thread[m] = k
      BY <1>3, <3>2, RangeOf
    <3>4. thread[m] <= thread[N]
      BY <1>1, <1>3, <2>1, <3>3 DEF ThreadInv
    <3> QED BY <2>1, <3>1, <3>3, <3>4
  <2> QED BY <1>3, <2>1, <2>3, <2>4
<1>8. ASSUME pill # 0 PROVE shown
  <2>1. L \in Range(thread) /\ taps[L] = "add"
    BY <1>1, <1>4, <1>8 DEF PillInv
  <2>2. PICK m \in 1 .. N : thread[m] = L
    BY <1>3, <2>1, RangeOf
  <2>3. N \in 1 .. N /\ thread[m] <= thread[N]
    BY <1>1, <1>3, <2>2 DEF ThreadInv
  <2>4. thread[N] = L
    BY <1>3, <2>2, <2>3
  <2> QED BY <1>6, <2>1, <2>3, <2>4
<1>9. shown \in BOOLEAN
  BY <1>1 DEF ReactionTypes
<1> QED BY <1>7, <1>8, <1>9

-----------------------------------------------------------------------------
\* The types of a reaction, whatever the code excuses: the rows that are due come first.

DueFirst(s) == \A m, n \in 1 .. Len(s) : m < n /\ s[n].due => s[m].due

LEMMA DueFirstPicked ==
  ASSUME NEW s \in Seq(TapRow), NEW P \in SUBSET (1 .. Len(s)), DueFirst(s)
  PROVE  DueFirst(Picked(s, P))
<1> DEFINE t == Picked(s, P)
<1>1. ASSUME NEW m \in 1 .. Len(t), NEW n \in 1 .. Len(t), m < n, t[n].due PROVE t[m].due
  <2>1. PICK p, q \in P : p < q /\ t[m] = s[p] /\ t[n] = s[q]
    BY <1>1, PickedOrder
  <2> HIDE DEF t
  <2> QED BY <1>1, <2>1 DEF DueFirst
<1> HIDE DEF t
<1>2. DueFirst(t)
  BY <1>1 DEF DueFirst
<1> QED BY <1>2 DEF t

\* Behind as many rows as are due, none is due.
LEMMA DueCount ==
  ASSUME NEW s \in Seq(TapRow), DueFirst(s), NEW k \in 1 .. Len(s), k > Len(Due(s))
  PROVE  ~s[k].due
<1> DEFINE D == {n \in DOMAIN s : s[n].due}
<1>1. /\ Len(s) \in Nat /\ DOMAIN s = 1 .. Len(s) /\ k \in Nat /\ D \in SUBSET (1 .. Len(s))
  OBVIOUS
<1>2. IsFiniteSet(D) /\ Cardinality(D) \in Nat
  <2> HIDE DEF D
  <2>1. IsFiniteSet(1 .. Len(s))
    BY <1>1, FS_Interval
  <2>2. IsFiniteSet(D)
    BY <1>1, <2>1, FS_Subset
  <2> QED BY <2>2, FS_CardinalityType
<1>3. Len(Due(s)) = Cardinality(D)
  <2> DEFINE c == Cardinality(D)
  <2>1. Due(s) = [i \in 1 .. c |-> s[CHOOSE p \in D : Rank(D, p) = i]]
    BY DEF Due, Picked
  <2>2. c \in Nat
    BY <1>2
  <2> HIDE DEF c
  <2>3. Len(Due(s)) = c
    BY <2>1, <2>2
  <2> QED BY <2>3 DEF c
<1>4. ASSUME s[k].due PROVE FALSE
  <2>1. 1 .. k \subseteq D
    BY <1>1, <1>4 DEF DueFirst
  <2>2. Cardinality(1 .. k) = k
    BY <1>1, FS_Interval
  <2>3. Cardinality(1 .. k) <= Cardinality(D)
    BY <1>2, <2>1, FS_Subset
  <2> QED BY <1>1, <1>2, <1>3, <2>2, <2>3
<1> QED BY <1>4

LEMMA InsertedDue ==
  ASSUME NEW s \in Seq(TapRow), DueFirst(s), NEW row \in TapRow, row.due = FALSE,
         NEW n \in Len(Due(s)) + 1 .. Len(s) + 1
  PROVE  DueFirst(Inserted(s, n, row))
<1> DEFINE u == Inserted(s, n, row)
<1>1. Len(s) \in Nat /\ Len(Due(s)) \in Nat /\ n \in Nat /\ n >= 1
  <2>1. Due(s) \in Seq(TapRow)
    BY RowsPart
  <2> QED BY <2>1
<1>2. /\ Len(u) = Len(s) + 1
      /\ \A k \in 1 .. Len(s) + 1 : u[k] = IF k < n THEN s[k] ELSE IF k = n THEN row ELSE s[k - 1]
  BY <1>1 DEF Inserted
<1> HIDE DEF u
<1>3. ASSUME NEW a \in 1 .. Len(u), NEW b \in 1 .. Len(u), a < b, u[b].due PROVE u[a].due
  <2>1. CASE b < n
    <3>1. /\ a \in 1 .. Len(s) /\ b \in 1 .. Len(s) /\ u[a] = s[a] /\ u[b] = s[b]
      BY <1>1, <1>2, <1>3, <2>1
    <3> QED BY <1>3, <3>1 DEF DueFirst
  <2>2. CASE b = n
    BY <1>2, <1>3, <2>2
  <2>3. CASE b > n
    <3>1. b - 1 \in 1 .. Len(s) /\ b - 1 > Len(Due(s)) /\ u[b] = s[b - 1]
      BY <1>1, <1>2, <1>3, <2>3
    <3> QED BY <1>3, <3>1, DueCount
  <2> QED BY <1>1, <1>2, <2>1, <2>2, <2>3
<1>4. DueFirst(u)
  BY <1>3 DEF DueFirst
<1> QED BY <1>4 DEF u

LEMMA DueThenRest ==
  ASSUME NEW s \in Seq(TapRow), NEW t \in Seq(TapRow),
         \A r \in Range(s) : r.due, \A r \in Range(t) : ~r.due
  PROVE  DueFirst(s \o t)
<1> DEFINE u == s \o t
<1>1. /\ Len(s) \in Nat /\ Len(t) \in Nat /\ Len(u) = Len(s) + Len(t)
      /\ \A i \in 1 .. Len(s) : u[i] = s[i]
      /\ \A i \in Len(s) + 1 .. Len(s) + Len(t) : u[i] = t[i - Len(s)]
  OBVIOUS
<1> HIDE DEF u
<1>2. \A i \in 1 .. Len(s) : u[i].due
  BY <1>1, RangeOf
<1>3. ASSUME NEW i \in Len(s) + 1 .. Len(s) + Len(t) PROVE ~u[i].due
  <2>1. i - Len(s) \in 1 .. Len(t) /\ u[i] = t[i - Len(s)]
    BY <1>1
  <2> QED BY <2>1, RangeOf
<1>4. \A m, n \in 1 .. Len(u) : m < n /\ u[n].due => u[m].due
  <2> SUFFICES ASSUME NEW m \in 1 .. Len(u), NEW n \in 1 .. Len(u), m < n, u[n].due PROVE u[m].due
    OBVIOUS
  <2>1. n \in 1 .. Len(s)
    BY <1>1, <1>3
  <2> QED BY <1>1, <1>2, <2>1
<1> QED BY <1>4 DEF DueFirst, u

\* The rows that are due are due, and those that rest are not.
LEMMA DueOrNot ==
  ASSUME NEW s \in Seq(TapRow)
  PROVE  /\ \A r \in Range(Due(s)) : r.due
         /\ \A r \in Range(Picked(s, {n \in DOMAIN s : ~s[n].due})) : ~r.due
<1> DEFINE D == {n \in DOMAIN s : s[n].due}
           R == {n \in DOMAIN s : ~s[n].due}
<1>1. D \in SUBSET (1 .. Len(s)) /\ R \in SUBSET (1 .. Len(s))
  OBVIOUS
<1>2. \A p \in D : s[p].due
  OBVIOUS
<1>3. \A p \in R : ~s[p].due
  OBVIOUS
<1> HIDE DEF D, R
<1>4. Range(Picked(s, D)) = {s[p] : p \in D} /\ Range(Picked(s, R)) = {s[p] : p \in R}
  BY <1>1, PickedList
<1>5. (\A r \in Range(Picked(s, D)) : r.due) /\ \A r \in Range(Picked(s, R)) : ~r.due
  BY <1>2, <1>3, <1>4
<1> QED BY <1>5 DEF D, R, Due

RowsFit == \A r \in Range(tapRows) : r.tap \in 1 .. Len(taps) /\ r.tries \in 0 .. MaxTries
SenderFits ==
  /\ taps \in Seq({"add", "del"}) /\ Len(taps) <= MaxTaps
  /\ pill \in 0 .. Len(taps) /\ queueing \subseteq 1 .. Len(taps)
  /\ tapRows \in Seq(TapRow) /\ DueFirst(tapRows) /\ RowsFit
  /\ inFlight \in [tap : Nat, stored : BOOLEAN] /\ inFlight.tap \in {0} \cup TapsIn(tapRows)
  /\ upsets \in 0 .. MaxUpsets
PeerFits ==
  /\ thread \in Seq(1 .. Len(taps))
  /\ fed \in 0 .. Len(thread) /\ readTo \in 0 .. Len(thread) /\ page \subseteq 1 .. Len(thread)
  /\ spent = [now |-> spent.now, saved |-> spent.saved]
  /\ spent.now \subseteq 1 .. Len(thread) /\ spent.saved \subseteq 1 .. Len(thread)
ReactionsFit == SenderFits /\ PeerFits

LEMMA TapsFit == ASSUME SenderFits PROVE TapsIn(tapRows) \subseteq 1 .. Len(taps)
BY DEF SenderFits, RowsFit, TapsIn

\* The sender goes on, with the taps it has.
LEMMA SenderGoes ==
  ASSUME ReactionsFit, UNCHANGED <<taps, thread, fed, page, readTo, spent>>,
         pill' \in {pill, 0}, queueing' \subseteq queueing,
         tapRows' \in Seq(TapRow), DueFirst(tapRows'), RowsFit',
         inFlight' \in [tap : Nat, stored : BOOLEAN], inFlight'.tap \in {0} \cup TapsIn(tapRows'),
         upsets' \in 0 .. MaxUpsets
  PROVE  ReactionsFit'
<1>1. 0 \in 0 .. Len(taps)
  BY DEF ReactionsFit, SenderFits
<1>2. SenderFits'
  BY <1>1 DEF ReactionsFit, SenderFits, TapsIn
<1>3. PeerFits'
  BY DEF ReactionsFit, PeerFits
<1> QED BY <1>2, <1>3 DEF ReactionsFit

\* The list of rows that is due or rests, with one row more or less.
LEMMA RowsSplit ==
  ASSUME SenderFits
  PROVE  /\ DueRows \in Seq(TapRow) /\ Resting \in Seq(TapRow)
         /\ Range(tapRows) = Range(DueRows) \cup Range(Resting)
         /\ \A r \in Range(DueRows) : r.due
         /\ \A r \in Range(Resting) : ~r.due
BY RowsPart, DueOrNot DEF SenderFits, DueRows, Resting

LEMMA RowsWithDue ==
  ASSUME SenderFits, NEW r \in TapRow, r.due = TRUE, NEW t \in Seq(TapRow),
         Range(t) \subseteq Range(Resting), NEW u, u = Append(DueRows, r) \o t
  PROVE  /\ u \in Seq(TapRow) /\ DueFirst(u)
         /\ Range(u) = Range(DueRows) \cup {r} \cup Range(t)
<1> DEFINE v == Append(DueRows, r)
<1>1. v \in Seq(TapRow) /\ Range(v) = Range(DueRows) \cup {r}
  BY RowsSplit, AppendList
<1>2. (\A x \in Range(v) : x.due) /\ \A x \in Range(t) : ~x.due
  BY <1>1, RowsSplit
<1> HIDE DEF v
<1>3. v \o t \in Seq(TapRow) /\ Range(v \o t) = Range(v) \cup Range(t)
  BY <1>1, ConcatList
<1>4. DueFirst(v \o t)
  BY <1>1, <1>2, DueThenRest
<1> QED BY <1>1, <1>3, <1>4 DEF v

LEMMA UpsetFits == ASSUME ReactionsFit, Upset \/ UNCHANGED upsets PROVE upsets' \in 0 .. MaxUpsets
BY ReactionsAssumption DEF ReactionsFit, SenderFits, Upset

LEMMA TapFits == ASSUME ReactionsFit, Tap PROVE ReactionsFit'
<1>1. /\ Len(taps) < MaxTaps /\ taps \in Seq({"add", "del"})
      /\ taps' = Append(taps, IF pill = 0 THEN "add" ELSE "del")
      /\ pill' \in {0, Len(taps')} /\ queueing' = queueing \cup {Len(taps')}
      /\ UNCHANGED <<tapRows, inFlight, thread, fed, page, readTo, spent, upsets>>
  BY DEF ReactionsFit, SenderFits, Tap, AddPill, RemoveOwn, peerVars
<1>2. Len(taps) \in Nat /\ Len(taps') = Len(taps) + 1 /\ taps' \in Seq({"add", "del"})
  BY <1>1
<1>3. Len(taps') <= MaxTaps
  BY <1>1, <1>2, ReactionsAssumption
<1>4. pill' \in 0 .. Len(taps') /\ queueing' \subseteq 1 .. Len(taps')
  <2>1. /\ Len(taps') \in 0 .. Len(taps') /\ 0 \in 0 .. Len(taps') /\ Len(taps') \in 1 .. Len(taps')
        /\ 1 .. Len(taps) \subseteq 1 .. Len(taps')
    BY <1>2
  <2>2. queueing \subseteq 1 .. Len(taps)
    BY DEF ReactionsFit, SenderFits
  <2> QED BY <1>1, <2>1, <2>2
<1>5. RowsFit'
  BY <1>1, <1>2 DEF ReactionsFit, SenderFits, RowsFit
<1>6. SenderFits'
  BY <1>1, <1>2, <1>3, <1>4, <1>5 DEF ReactionsFit, SenderFits, TapsIn
<1>7. PeerFits'
  <2>1. thread \in Seq(1 .. Len(taps'))
    BY <1>2 DEF ReactionsFit, PeerFits
  <2> QED BY <1>1, <2>1 DEF ReactionsFit, PeerFits
<1> QED BY <1>6, <1>7 DEF ReactionsFit

LEMMA EnqueueFits == ASSUME ReactionsFit, NEW i \in queueing, Enqueue(i) PROVE ReactionsFit'
<1> DEFINE r == [tap |-> i, tries |-> 0, due |-> TRUE]
<1>1. /\ tapRows' = Append(DueRows, r) \o Resting /\ queueing' \subseteq queueing
      /\ UNCHANGED <<taps, pill, inFlight, thread, fed, page, readTo, spent, upsets>>
  BY DEF Enqueue, peerVars
<1>2. SenderFits /\ i \in 1 .. Len(taps) /\ r \in TapRow /\ r.due = TRUE /\ r.tap = i /\ r.tries = 0
  BY DEF ReactionsFit, SenderFits, TapRow
<1> HIDE DEF r
<1>3. /\ tapRows' \in Seq(TapRow) /\ DueFirst(tapRows') /\ Range(tapRows') = Range(tapRows) \cup {r}
  <2>1. Resting \in Seq(TapRow) /\ Range(tapRows) = Range(DueRows) \cup Range(Resting)
    BY <1>2, RowsSplit
  <2>2. /\ tapRows' \in Seq(TapRow) /\ DueFirst(tapRows')
        /\ Range(tapRows') = Range(DueRows) \cup {r} \cup Range(Resting)
    BY <1>1, <1>2, <2>1, RowsWithDue
  <2> QED BY <2>1, <2>2
<1>4. RowsFit'
  BY <1>1, <1>2, <1>3, ReactionsAssumption DEF SenderFits, RowsFit
<1>5. /\ inFlight' \in [tap : Nat, stored : BOOLEAN] /\ inFlight'.tap \in {0} \cup TapsIn(tapRows')
      /\ upsets' \in 0 .. MaxUpsets
  BY <1>1, <1>2, <1>3 DEF SenderFits, TapsIn
<1> QED BY <1>1, <1>3, <1>4, <1>5, SenderGoes

LEMMA OtherTapsFit ==
  ASSUME ReactionsFit, (\E i \in queueing : EnqueueFails(i)) \/ PickRow \/ SenderDies
  PROVE  ReactionsFit'
<1>1. /\ tapRows \in Seq(TapRow) /\ DueFirst(tapRows) /\ RowsFit /\ SenderFits
      /\ inFlight \in [tap : Nat, stored : BOOLEAN] /\ inFlight.tap \in {0} \cup TapsIn(tapRows)
      /\ upsets \in 0 .. MaxUpsets
  BY DEF ReactionsFit, SenderFits
<1>2. CASE \E i \in queueing : EnqueueFails(i)
  <2>1. /\ UNCHANGED <<taps, thread, fed, page, readTo, spent, tapRows, inFlight>>
        /\ pill' \in {pill, 0} /\ queueing' \subseteq queueing /\ upsets' \in 0 .. MaxUpsets
    BY <1>2, UpsetFits DEF EnqueueFails, PillWithout, peerVars
  <2>2. RowsFit'
    BY <1>1, <2>1 DEF RowsFit
  <2> QED BY <1>1, <2>1, <2>2, SenderGoes
<1>3. CASE PickRow
  <2>1. /\ UNCHANGED <<taps, pill, queueing, thread, fed, page, readTo, spent, tapRows, upsets>>
        /\ DueRows # <<>> /\ inFlight' = [tap |-> Head(DueRows).tap, stored |-> FALSE]
    BY <1>3 DEF PickRow, peerVars
  <2>2. Head(DueRows) \in Range(tapRows) /\ Head(DueRows) \in TapRow
    BY <1>1, <2>1, RowsSplit, TailList
  <2>3. inFlight' \in [tap : Nat, stored : BOOLEAN] /\ inFlight'.tap \in {0} \cup TapsIn(tapRows')
    BY <2>1, <2>2 DEF TapRow, TapsIn
  <2>4. RowsFit'
    BY <1>1, <2>1 DEF RowsFit
  <2> QED BY <1>1, <2>1, <2>3, <2>4, SenderGoes
<1>4. CASE SenderDies
  <2>1. /\ UNCHANGED <<taps, thread, fed, page, readTo, spent, tapRows>>
        /\ pill' = 0 /\ queueing' = {} /\ upsets' \in 0 .. MaxUpsets
    BY <1>4, UpsetFits DEF SenderDies, peerVars
  <2>2. inFlight' \in [tap : Nat, stored : BOOLEAN] /\ inFlight'.tap = 0
    BY <1>4 DEF SenderDies, Idling
  <2>3. RowsFit'
    BY <1>1, <2>1 DEF RowsFit
  <2> QED BY <1>1, <2>1, <2>2, <2>3, SenderGoes
<1> QED BY <1>2, <1>3, <1>4

LEMMA RowsButFit ==
  ASSUME SenderFits, NEW i
  PROVE  /\ RowsBut(i) \in Seq(TapRow) /\ DueFirst(RowsBut(i))
         /\ \A r \in Range(RowsBut(i)) : r \in Range(tapRows)
<1> DEFINE P == {n \in DOMAIN tapRows : tapRows[n].tap # i}
<1>1. tapRows \in Seq(TapRow) /\ DueFirst(tapRows) /\ P \in SUBSET (1 .. Len(tapRows))
  BY DEF SenderFits
<1> HIDE DEF P
<1>2. /\ Picked(tapRows, P) \in Seq(TapRow) /\ DueFirst(Picked(tapRows, P))
      /\ Range(Picked(tapRows, P)) = {tapRows[p] : p \in P}
  BY <1>1, PickedList, DueFirstPicked
<1>3. \A r \in Range(Picked(tapRows, P)) : r \in Range(tapRows)
  BY <1>1, <1>2, RangeOf
<1> QED BY <1>2, <1>3 DEF P, RowsBut

LEMMA SendAckedFits == ASSUME ReactionsFit, SendAcked PROVE ReactionsFit'
<1> DEFINE i == inFlight.tap
<1>1. /\ tapRows' = RowsBut(i) /\ inFlight' = Idling
      /\ UNCHANGED <<taps, pill, queueing, thread, fed, page, readTo, spent, upsets>>
  BY DEF SendAcked, peerVars
<1>2. /\ RowsBut(i) \in Seq(TapRow) /\ DueFirst(RowsBut(i))
      /\ \A r \in Range(RowsBut(i)) : r \in Range(tapRows)
  BY RowsButFit DEF ReactionsFit
<1> HIDE DEF i
<1>3. RowsFit'
  BY <1>1, <1>2 DEF ReactionsFit, SenderFits, RowsFit
<1>4. /\ inFlight' \in [tap : Nat, stored : BOOLEAN] /\ inFlight'.tap = 0
      /\ upsets' \in 0 .. MaxUpsets
  BY <1>1 DEF Idling, ReactionsFit, SenderFits
<1> QED BY <1>1, <1>2, <1>3, <1>4, SenderGoes

\* The row of the send that failed.
LEMMA RejectedRow ==
  ASSUME SenderFits, NEW i \in TapsIn(tapRows), NEW u,
         u = [RowOf(i) EXCEPT !.tries = @ + 1, !.due = FALSE]
  PROVE  /\ u \in TapRow /\ u.due = FALSE /\ u.tap \in 1 .. Len(taps)
         /\ u.tries < MaxTries => u.tries \in 0 .. MaxTries
<1>1. RowOf(i) \in TapRow /\ RowOf(i).tap = i /\ i \in 1 .. Len(taps)
  BY RowsButList, TapsFit DEF SenderFits
<1> DEFINE q == RowOf(i)
           k == q.tries + 1
<1>2. q \in TapRow /\ q.tap = i /\ u = [q EXCEPT !.tries = k, !.due = FALSE]
  BY <1>1
<1>3. k \in Nat
  BY <1>2 DEF TapRow
<1> HIDE DEF q, k
<1>4. u \in TapRow /\ u.due = FALSE /\ u.tap = i /\ u.tries = k
  BY <1>2, <1>3 DEF TapRow
<1> QED BY <1>1, <1>3, <1>4, ReactionsAssumption

LEMMA SendRejectedFits == ASSUME ReactionsFit, SendRejected PROVE ReactionsFit'
<1> DEFINE i    == inFlight.tap
           u    == [RowOf(i) EXCEPT !.tries = @ + 1, !.due = FALSE]
           rest == RowsBut(i)
<1>1. /\ i # 0 /\ inFlight' = Idling
      /\ UNCHANGED <<taps, queueing, thread, fed, page, readTo, spent>>
  BY DEF SendRejected, peerVars
<1>2. \/ /\ u.tries < MaxTries
         /\ \E n \in Len(Due(rest)) + 1 .. Len(rest) + 1 : tapRows' = Inserted(rest, n, u)
         /\ pill' = pill
      \/ tapRows' = rest /\ pill' = PillWithout(i)
  BY DEF SendRejected
<1>3. Upset \/ UNCHANGED upsets
  BY DEF SendRejected
<1>4. upsets' \in 0 .. MaxUpsets
  BY <1>3, UpsetFits
<1>5. SenderFits /\ i \in TapsIn(tapRows)
  BY <1>1 DEF ReactionsFit, SenderFits
<1>6. rest \in Seq(TapRow) /\ DueFirst(rest) /\ \A r \in Range(rest) : r \in Range(tapRows)
  BY <1>5, RowsButFit
<1>7. /\ u \in TapRow /\ u.due = FALSE /\ u.tap \in 1 .. Len(taps)
      /\ u.tries < MaxTries => u.tries \in 0 .. MaxTries
  BY <1>5, RejectedRow
<1>8. /\ inFlight' \in [tap : Nat, stored : BOOLEAN] /\ inFlight'.tap = 0
  BY <1>1 DEF Idling
<1>9. pill' \in {pill, 0}
  BY <1>2 DEF PillWithout
<1> HIDE DEF i, u, rest
<1>10. tapRows' \in Seq(TapRow) /\ DueFirst(tapRows') /\ RowsFit'
  <2>1. CASE tapRows' = rest
    BY <1>1, <1>5, <1>6, <2>1 DEF SenderFits, RowsFit
  <2>2. CASE /\ u.tries < MaxTries
             /\ \E n \in Len(Due(rest)) + 1 .. Len(rest) + 1 : tapRows' = Inserted(rest, n, u)
    <3>1. PICK n \in Len(Due(rest)) + 1 .. Len(rest) + 1 : tapRows' = Inserted(rest, n, u)
      BY <2>2
    <3>2. n \in 1 .. Len(rest) + 1
      <4>1. Due(rest) \in Seq(TapRow)
        BY <1>6, RowsPart
      <4> QED BY <1>6, <3>1, <4>1
    <3>3. /\ tapRows' \in Seq(TapRow) /\ DueFirst(tapRows')
          /\ Range(tapRows') = Range(rest) \cup {u}
      <4>1. DueFirst(tapRows')
        BY <1>6, <1>7, <3>1, InsertedDue
      <4>2. tapRows' \in Seq(TapRow) /\ Range(tapRows') = Range(rest) \cup {u}
        BY <1>6, <1>7, <3>1, <3>2, InsertedList
      <4> QED BY <4>1, <4>2
    <3> QED BY <1>1, <1>5, <1>6, <1>7, <2>2, <3>3 DEF SenderFits, RowsFit
  <2> QED BY <1>2, <2>1, <2>2
<1> QED BY <1>1, <1>4, <1>8, <1>9, <1>10, SenderGoes

LEMMA BackoffFits == ASSUME ReactionsFit, Backoff PROVE ReactionsFit'
<1> DEFINE r == [Head(Resting) EXCEPT !.due = TRUE]
           t == Tail(Resting)
<1>1. /\ Resting # <<>> /\ tapRows' = Append(DueRows, r) \o t
      /\ UNCHANGED <<taps, pill, queueing, inFlight, thread, fed, page, readTo, spent, upsets>>
  BY DEF Backoff, peerVars
<1>2. /\ SenderFits /\ Resting \in Seq(TapRow) /\ Range(tapRows) = Range(DueRows) \cup Range(Resting)
  BY RowsSplit DEF ReactionsFit
<1>3. /\ Head(Resting) \in TapRow /\ t \in Seq(TapRow) /\ Range(t) \subseteq Range(Resting)
      /\ Head(Resting) \in Range(tapRows)
      /\ Range(Resting) = Range(t) \cup {Head(Resting)}
  BY <1>1, <1>2, TailList
<1>4. r \in TapRow /\ r.due = TRUE /\ r.tap = Head(Resting).tap /\ r.tries = Head(Resting).tries
  BY <1>3 DEF TapRow
<1> HIDE DEF r, t
<1>5. /\ tapRows' \in Seq(TapRow) /\ DueFirst(tapRows')
      /\ Range(tapRows') = Range(DueRows) \cup {r} \cup Range(t)
  BY <1>1, <1>2, <1>3, <1>4, RowsWithDue
<1>6. RowsFit'
  BY <1>1, <1>2, <1>3, <1>4, <1>5 DEF SenderFits, RowsFit
<1>7. TapsIn(tapRows') = TapsIn(tapRows)
  BY <1>2, <1>3, <1>4, <1>5 DEF TapsIn
<1>8. /\ inFlight' \in [tap : Nat, stored : BOOLEAN] /\ inFlight'.tap \in {0} \cup TapsIn(tapRows')
      /\ upsets' \in 0 .. MaxUpsets
  BY <1>1, <1>2, <1>7 DEF SenderFits
<1> QED BY <1>1, <1>5, <1>6, <1>8, SenderGoes

LEMMA StoredFits == ASSUME ReactionsFit, StoredOnServer PROVE ReactionsFit'
<1>1. /\ inFlight.tap # 0 /\ inFlight' = [inFlight EXCEPT !.stored = TRUE]
      /\ thread' = Append(thread, inFlight.tap)
      /\ UNCHANGED <<taps, pill, queueing, tapRows, fed, page, readTo, spent, upsets>>
  BY DEF StoredOnServer, peerVars
<1>2. inFlight.tap \in 1 .. Len(taps)
  BY <1>1, TapsFit DEF ReactionsFit, SenderFits
<1>3. thread' \in Seq(1 .. Len(taps)) /\ Len(thread') = Len(thread) + 1 /\ Len(thread) \in Nat
  BY <1>1, <1>2 DEF ReactionsFit, PeerFits
<1>4. 0 .. Len(thread) \subseteq 0 .. Len(thread') /\ 1 .. Len(thread) \subseteq 1 .. Len(thread')
  BY <1>3
<1>5. PeerFits'
  BY <1>1, <1>3, <1>4 DEF ReactionsFit, PeerFits
<1>6. inFlight' \in [tap : Nat, stored : BOOLEAN] /\ inFlight'.tap = inFlight.tap
  BY <1>1 DEF ReactionsFit, SenderFits
<1>7. SenderFits'
  BY <1>1, <1>6 DEF ReactionsFit, SenderFits, RowsFit, TapsIn
<1> QED BY <1>5, <1>7 DEF ReactionsFit

\* The peer goes on, with the thread there is.
LEMMA PeerGoes ==
  ASSUME ReactionsFit, UNCHANGED <<senderVars, thread>>, upsets' \in 0 .. MaxUpsets,
         fed' \in 0 .. Len(thread), readTo' \in 0 .. Len(thread), page' \subseteq 1 .. Len(thread),
         NEW now \in SUBSET (1 .. Len(thread)), NEW saved \in SUBSET (1 .. Len(thread)),
         spent' = [now |-> now, saved |-> saved]
  PROVE  ReactionsFit'
<1>1. UNCHANGED <<taps, pill, queueing, tapRows, inFlight>>
  BY DEF senderVars
<1>2. SenderFits'
  BY <1>1 DEF ReactionsFit, SenderFits, RowsFit, TapsIn
<1>3. PeerFits'
  BY <1>1 DEF ReactionsFit, PeerFits
<1> QED BY <1>2, <1>3 DEF ReactionsFit

LEMMA PeerTakes ==
  ASSUME ReactionsFit, NEW serials \in SUBSET (1 .. Len(thread)), Apply(serials)
  PROVE  spent' = [now |-> spent.now \cup serials, saved |-> spent.saved]
<1>1. spent' = [spent EXCEPT !.now = @ \cup (serials \ spent.now)]
  BY DEF Apply
<1>2. spent = [now |-> spent.now, saved |-> spent.saved]
  BY DEF ReactionsFit, PeerFits
<1>3. spent.now \cup (serials \ spent.now) = spent.now \cup serials
  OBVIOUS
<1> QED BY <1>1, <1>2, <1>3

LEMMA PeerTakesFits == ASSUME ReactionsFit, LiveTap \/ TakePage PROVE ReactionsFit'
<1>1. /\ fed \in 0 .. Len(thread) /\ readTo \in 0 .. Len(thread) /\ page \subseteq 1 .. Len(thread)
      /\ Len(thread) \in Nat /\ upsets \in 0 .. MaxUpsets
      /\ spent.now \subseteq 1 .. Len(thread) /\ spent.saved \subseteq 1 .. Len(thread)
  BY DEF ReactionsFit, SenderFits, PeerFits
<1>2. CASE LiveTap
  <2>1. /\ fed < Len(thread) /\ fed' = fed + 1 /\ Apply({fed'})
        /\ UNCHANGED <<senderVars, thread, page, readTo, upsets>>
    BY <1>2 DEF LiveTap
  <2>2. fed' \in 0 .. Len(thread) /\ fed' \in 1 .. Len(thread)
    BY <1>1, <2>1
  <2>3. spent' = [now |-> spent.now \cup {fed'}, saved |-> spent.saved]
    BY <2>1, <2>2, PeerTakes
  <2>4. spent.now \cup {fed'} \in SUBSET (1 .. Len(thread))
    BY <1>1, <2>2
  <2> QED BY <1>1, <2>1, <2>2, <2>3, <2>4, PeerGoes
<1>3. CASE TakePage
  <2>1. /\ page # {} /\ page' = {} /\ Apply(page)
        /\ readTo' = CHOOSE n \in page : \A m \in page : m <= n
        /\ UNCHANGED <<senderVars, thread, fed, upsets>>
    BY <1>3 DEF TakePage
  <2>2. IsFiniteSet(page) /\ page \in SUBSET Nat
    <3>1. IsFiniteSet(1 .. Len(thread))
      BY <1>1, FS_Interval
    <3>2. page \in SUBSET (1 .. Len(thread))
      BY <1>1
    <3>3. IsFiniteSet(page)
      BY <3>1, <3>2, FS_Subset
    <3> QED BY <1>1, <3>2, <3>3
  <2>3. readTo' \in page
    BY <2>1, <2>2, HasLargest
  <2>4. readTo' \in 0 .. Len(thread)
    BY <1>1, <2>3
  <2>5. spent' = [now |-> spent.now \cup page, saved |-> spent.saved]
    BY <1>1, <2>1, PeerTakes
  <2>6. spent.now \cup page \in SUBSET (1 .. Len(thread))
    BY <1>1
  <2> QED BY <1>1, <2>1, <2>4, <2>5, <2>6, PeerGoes
<1> QED BY <1>2, <1>3

LEMMA PeerMovesFit ==
  ASSUME ReactionsFit, PeerMisses \/ ReadPage \/ PeerSaves \/ PeerDies
  PROVE  ReactionsFit'
<1>1. /\ fed \in 0 .. Len(thread) /\ readTo \in 0 .. Len(thread) /\ page \subseteq 1 .. Len(thread)
      /\ Len(thread) \in Nat /\ upsets \in 0 .. MaxUpsets
      /\ spent = [now |-> spent.now, saved |-> spent.saved]
      /\ spent.now \in SUBSET (1 .. Len(thread)) /\ spent.saved \in SUBSET (1 .. Len(thread))
  BY DEF ReactionsFit, SenderFits, PeerFits
<1>2. CASE PeerMisses
  <2>1. /\ UNCHANGED <<senderVars, thread, readTo, spent>> /\ upsets' \in 0 .. MaxUpsets
        /\ fed' \in {fed, Len(thread)} /\ page' \in {page, {}}
    BY <1>2, UpsetFits DEF PeerMisses
  <2>2. fed' \in 0 .. Len(thread) /\ page' \subseteq 1 .. Len(thread)
    BY <1>1, <2>1
  <2> QED BY <1>1, <2>1, <2>2, PeerGoes
<1>3. CASE ReadPage
  <2>1. /\ UNCHANGED <<senderVars, thread, fed, readTo, spent, upsets>>
        /\ page' = readTo + 1 .. Len(thread)
    BY <1>3 DEF ReadPage
  <2>2. page' \subseteq 1 .. Len(thread)
    BY <1>1, <2>1
  <2> QED BY <1>1, <2>1, <2>2, PeerGoes
<1>4. CASE PeerSaves
  <2>1. /\ UNCHANGED <<senderVars, thread, fed, page, readTo, upsets>>
        /\ spent' = [spent EXCEPT !.saved = spent.now]
    BY <1>4 DEF PeerSaves
  <2>2. spent' = [now |-> spent.now, saved |-> spent.now]
    BY <1>1, <2>1
  <2> QED BY <1>1, <2>1, <2>2, PeerGoes
<1>5. CASE PeerDies
  <2>1. /\ UNCHANGED <<senderVars, thread, fed, readTo>> /\ page' = {} /\ upsets' \in 0 .. MaxUpsets
        /\ spent' = [spent EXCEPT !.now = spent.saved]
    BY <1>5, UpsetFits DEF PeerDies
  <2>2. spent' = [now |-> spent.saved, saved |-> spent.saved]
    BY <1>1, <2>1
  <2> QED BY <1>1, <2>1, <2>2, PeerGoes
<1> QED BY <1>2, <1>3, <1>4, <1>5

LEMMA ReactionTypesHold == ReactionsSpec => []ReactionsTypeOK
<1>1. ReactionsInit => ReactionsFit
  <2> SUFFICES ASSUME ReactionsInit PROVE ReactionsFit
    OBVIOUS
  <2>1. /\ taps = <<>> /\ pill = 0 /\ queueing = {} /\ tapRows = <<>>
        /\ inFlight = [tap |-> 0, stored |-> FALSE] /\ upsets = 0
    BY DEF ReactionsInit, Idling
  <2>2. taps \in Seq({"add", "del"}) /\ Len(taps) = 0 /\ tapRows \in Seq(TapRow) /\ Len(tapRows) = 0
    BY <2>1
  <2>3. DueFirst(tapRows) /\ RowsFit
    <3>1. DueFirst(tapRows)
      BY <2>2 DEF DueFirst
    <3>2. \A r \in Range(tapRows) : FALSE
      BY <2>1 DEF Range
    <3> QED BY <3>1, <3>2 DEF RowsFit
  <2>4. SenderFits
    BY <2>1, <2>2, <2>3, ReactionsAssumption DEF SenderFits
  <2>5. PeerFits
    BY DEF ReactionsInit, PeerFits
  <2> QED BY <2>4, <2>5 DEF ReactionsFit
<1>2. ReactionsFit /\ [ReactionsNext]_reactionVars => ReactionsFit'
  <2> SUFFICES ASSUME ReactionsFit, [ReactionsNext]_reactionVars PROVE ReactionsFit'
    OBVIOUS
  <2>1. CASE UNCHANGED reactionVars
    <3>1. UNCHANGED <<taps, pill, queueing, tapRows, inFlight, thread, fed, page, readTo, spent, upsets>>
      BY <2>1 DEF reactionVars
    <3> QED BY <3>1 DEF ReactionsFit, SenderFits, PeerFits, RowsFit, TapsIn
  <2>2. CASE ReactionsNext
    BY <2>2, TapFits, EnqueueFits, OtherTapsFit, StoredFits, SendAckedFits, SendRejectedFits,
       BackoffFits, PeerTakesFits, PeerMovesFit DEF ReactionsNext
  <2> QED BY <2>1, <2>2
<1>3. ReactionsFit => ReactionsTypeOK
  <2> SUFFICES ASSUME ReactionsFit PROVE ReactionsTypeOK
    OBVIOUS
  <2>1. SenderFits /\ PeerFits /\ inFlight.tap \in 0 .. Len(taps)
    <3>1. Len(taps) \in Nat
      BY DEF ReactionsFit, SenderFits
    <3> QED BY <3>1, TapsFit DEF ReactionsFit, SenderFits
  <2>2. ASSUME NEW n \in DOMAIN tapRows
        PROVE  /\ tapRows[n].tap \in 1 .. Len(taps) /\ tapRows[n].tries \in 0 .. MaxTries
               /\ \A m \in DOMAIN tapRows : m < n /\ tapRows[n].due => tapRows[m].due
    <3>1. tapRows \in Seq(TapRow) /\ n \in 1 .. Len(tapRows) /\ tapRows[n] \in Range(tapRows)
      BY <2>1, <2>2, RangeOf DEF SenderFits
    <3> QED BY <2>1, <3>1 DEF SenderFits, RowsFit, DueFirst
  <2>3. Range(thread) \subseteq 1 .. Len(taps)
    BY <2>1, RangeOf DEF PeerFits
  <2>4. fed <= Len(thread) /\ readTo <= Len(thread) /\ upsets <= MaxUpsets
    BY <2>1 DEF SenderFits, PeerFits
  <2> QED BY <2>1, <2>2, <2>3, <2>4 DEF SenderFits, PeerFits, ReactionsTypeOK
<1> QED BY <1>1, <1>2, <1>3, PTL DEF ReactionsSpec

-----------------------------------------------------------------------------
\* Alerts

FirstPushed == CHOOSE m \in Pushed : TRUE
GroupCopy  == [groups : SUBSET GroupStates, read : SUBSET Pushed]

PushRow ==
  [pc : {"none", "opened", "text", "failed"}, for : Pushed \cup {FirstPushed}, copy : SUBSET GroupCopy,
   title : {"", "text", "failed"}, body : {"", "text", "failed"}, changed : 0 .. 2, ending : 0 .. 2]

\* A handling knows what the app had read of when its copy was made, and unless it is
\* excused, its copy is at the epoch of the message, and both texts become what
\* decrypting comes to.
HandledRight(c, had) ==
  /\ c.ending = 0 /\ (c.pc = "none" => c.changed = 0)
  /\ c.pc = "opened" => c.changed = 0 /\ \E k \in c.copy : GroupOf(c.for) \in k.groups
  /\ c.pc = "failed" => c.for.rx \/ Spent(had, c.for)
  /\ c.pc = "text" => ~c.for.rx
  /\ c.changed >= 1 => c.title = c.pc
  /\ c.changed = 2 => c.body = c.pc

HandledWell(c, had, ex) ==
  /\ \A k \in c.copy : k.read \subseteq had
  /\ c.for \in ex \/ HandledRight(c, had)

AlertWell(a, had, ex) ==
  a.for \notin ex => /\ a.title = a.body
                     /\ a.title = "failed" => a.for.rx \/ Spent(had, a.for)
                     /\ a.title = "text" => ~a.for.rx

\* The inductive invariant.
PushAlertInv ==
  /\ handling \in [Extensions -> PushRow] /\ appGroups \subseteq GroupStates /\ read \subseteq Pushed
  /\ sealedCopy \subseteq GroupCopy /\ \A k \in sealedCopy : k.read \subseteq read
  /\ draft \in [there : BOOLEAN, deleted : BOOLEAN, copy : GroupCopy] /\ draft.copy.read \subseteq read
  /\ \A h \in Extensions : HandledWell(handling[h], read, excusedFor)
  /\ \A a \in tray : AlertWell(a, read, excusedFor)
  /\ AlertsDoNotStack

LEMMA GroupOfPushed == ASSUME NEW m \in Pushed PROVE GroupOf(m) \in GroupStates
  BY PushAlertAssumption DEF GroupOf, GroupStates

\* A key that is spent stays so.
LEMMA SpentGrows ==
  ASSUME NEW had, NEW more \in SUBSET had, NEW m, Spent(more, m)
  PROVE  Spent(had, m)
  BY DEF Spent

LEMMA NoPushRow ==
  /\ NoPush \in PushRow /\ NoPush.pc = "none" /\ NoPush.copy = {}
  /\ NoPush.changed = 0 /\ NoPush.ending = 0
  BY DEF NoPush, PushRow, FirstPushed

LEMMA NoPushWell ==
  ASSUME NEW had, NEW ex
  PROVE  HandledWell(NoPush, had, ex)
  BY NoPushRow DEF HandledWell, HandledRight

LEMMA PushAlertStart == PushAlertInit => PushAlertInv
<1> SUFFICES ASSUME PushAlertInit PROVE PushAlertInv
  OBVIOUS
<1>1. /\ appGroups = {GroupOf(FirstPushed)} /\ read = {} /\ draft = NoDraft /\ tray = {}
      /\ sealedCopy = {[groups |-> appGroups, read |-> {}]}
      /\ handling = [h \in Extensions |-> NoPush]
  BY DEF PushAlertInit, FirstPushed
<1>2. appGroups \subseteq GroupStates
  BY <1>1, PushAlertAssumption, GroupOfPushed DEF FirstPushed
<1>3. sealedCopy \subseteq GroupCopy /\ \A k \in sealedCopy : k.read \subseteq read
  BY <1>1, <1>2 DEF GroupCopy
<1>4. draft \in [there : BOOLEAN, deleted : BOOLEAN, copy : GroupCopy] /\ draft.copy.read \subseteq read
  BY <1>1 DEF NoDraft, GroupCopy
<1>5. handling \in [Extensions -> PushRow] /\ \A h \in Extensions : handling[h] = NoPush
  BY <1>1, NoPushRow
<1>6. \A h \in Extensions : HandledWell(handling[h], read, excusedFor)
  BY <1>5, NoPushWell
<1>7. AlertsDoNotStack /\ \A a \in tray : AlertWell(a, read, excusedFor)
  BY <1>1 DEF AlertsDoNotStack
<1> QED BY <1>1, <1>2, <1>3, <1>4, <1>5, <1>6, <1>7 DEF PushAlertInv

LEMMA HandledGrows ==
  ASSUME NEW c, NEW had, NEW more \in SUBSET had, NEW ex, NEW fewer \in SUBSET ex,
         HandledWell(c, more, fewer)
  PROVE  HandledWell(c, had, ex)
<1>1. \A k \in c.copy : k.read \subseteq had
  BY DEF HandledWell
<1>2. c.for \in ex \/ HandledRight(c, had)
  <2> SUFFICES ASSUME HandledRight(c, more) PROVE HandledRight(c, had)
    BY DEF HandledWell
  <2>1. Spent(more, c.for) => Spent(had, c.for)
    BY SpentGrows
  <2> QED BY <2>1 DEF HandledRight
<1> QED BY <1>1, <1>2 DEF HandledWell

LEMMA AlertGrows ==
  ASSUME NEW a, NEW had, NEW more \in SUBSET had, NEW ex, NEW fewer \in SUBSET ex,
         AlertWell(a, more, fewer)
  PROVE  AlertWell(a, had, ex)
<1>1. Spent(more, a.for) => Spent(had, a.for)
  BY SpentGrows
<1> QED BY <1>1 DEF AlertWell

\* A step of the app leaves the handlings and the alerts alone.
LEMMA AppKeeps ==
  ASSUME PushAlertInv, UNCHANGED <<handling, tray, excusedFor>>,
         read \subseteq read', read' \subseteq Pushed, appGroups' \subseteq GroupStates,
         sealedCopy' \subseteq GroupCopy, \A k \in sealedCopy' : k.read \subseteq read',
         draft' \in [there : BOOLEAN, deleted : BOOLEAN, copy : GroupCopy],
         draft'.copy.read \subseteq read'
  PROVE  PushAlertInv'
<1>1. \A h \in Extensions : HandledWell(handling'[h], read', excusedFor')
  BY HandledGrows DEF PushAlertInv
<1>2. \A a \in tray' : AlertWell(a, read', excusedFor')
  BY AlertGrows DEF PushAlertInv
<1>3. AlertsDoNotStack'
  BY DEF PushAlertInv, AlertsDoNotStack
<1> QED BY <1>1, <1>2, <1>3 DEF PushAlertInv

LEMMA AppMerges ==
  ASSUME appGroups \subseteq GroupStates, NEW g \in appGroups, NEW e \in Epochs
  PROVE  (appGroups \ {g}) \cup {[chat |-> g.chat, epoch |-> e]} \subseteq GroupStates
<1>1. g \in GroupStates
  OBVIOUS
<1>2. [chat |-> g.chat, epoch |-> e] \in GroupStates
  BY <1>1 DEF GroupStates
<1> QED BY <1>2

LEMMA AppReadsKeeps ==
  ASSUME PushAlertInv, NEW m \in Pushed, AppReads(m) \/ AppJoins(GroupOf(m))
  PROVE  PushAlertInv'
<1>1. /\ \/ read' = read \cup {m} /\ appGroups' = appGroups
         \/ read' = read /\ appGroups' = appGroups \cup {GroupOf(m)}
      /\ UNCHANGED <<handling, tray, excusedFor, sealedCopy, draft>>
  BY DEF AppReads, AppJoins, fileVars
<1>2. read \subseteq read' /\ read' \subseteq Pushed /\ appGroups' \subseteq GroupStates
  BY <1>1, GroupOfPushed DEF PushAlertInv
<1> QED BY <1>1, <1>2, AppKeeps DEF PushAlertInv

LEMMA AppCommitsKeeps ==
  ASSUME PushAlertInv, NEW g \in appGroups, NEW e \in Epochs, AppCommits(g, e)
  PROVE  PushAlertInv'
<1>1. UNCHANGED <<handling, tray, excusedFor, read, sealedCopy, draft>>
  BY DEF AppCommits, fileVars
<1>2. appGroups' \subseteq GroupStates
  BY AppMerges DEF AppCommits, PushAlertInv
<1> QED BY <1>1, <1>2, AppKeeps DEF PushAlertInv

LEMMA FileKeeps ==
  ASSUME PushAlertInv, WriteDraft \/ DeleteCopy \/ MoveDraft
  PROVE  PushAlertInv'
<1>1. /\ appGroups \subseteq GroupStates /\ read \subseteq Pushed /\ sealedCopy \subseteq GroupCopy
      /\ \A k \in sealedCopy : k.read \subseteq read
      /\ draft \in [there : BOOLEAN, deleted : BOOLEAN, copy : GroupCopy] /\ draft.copy.read \subseteq read
  BY DEF PushAlertInv
<1>2. UNCHANGED <<handling, tray, excusedFor, read, appGroups>>
  BY DEF WriteDraft, DeleteCopy, MoveDraft, appVars
<1>3. CASE WriteDraft
  <2> DEFINE k == [groups |-> appGroups, read |-> read]
  <2>1. k \in GroupCopy /\ k.read \subseteq read
    BY <1>1 DEF GroupCopy
  <2>2. sealedCopy' = sealedCopy /\ draft' = [there |-> TRUE, deleted |-> FALSE, copy |-> k]
    BY <1>3 DEF WriteDraft
  <2> HIDE DEF k
  <2>3. draft' \in [there : BOOLEAN, deleted : BOOLEAN, copy : GroupCopy] /\ draft'.copy = k
    BY <2>1, <2>2
  <2> QED BY <1>1, <1>2, <2>1, <2>2, <2>3, AppKeeps
<1>4. CASE DeleteCopy
  <2>1. sealedCopy' = {} /\ draft' = [draft EXCEPT !.deleted = TRUE]
    BY <1>4 DEF DeleteCopy
  <2>2. draft' \in [there : BOOLEAN, deleted : BOOLEAN, copy : GroupCopy] /\ draft'.copy = draft.copy
    BY <1>1, <2>1
  <2> QED BY <1>1, <1>2, <2>1, <2>2, AppKeeps
<1>5. CASE MoveDraft
  <2>1. sealedCopy' = {draft.copy} /\ draft' = NoDraft
    BY <1>5 DEF MoveDraft
  <2>2. draft' \in [there : BOOLEAN, deleted : BOOLEAN, copy : GroupCopy] /\ draft'.copy.read = {}
    BY <2>1 DEF NoDraft, GroupCopy
  <2>3. draft.copy \in GroupCopy
    BY <1>1
  <2> QED BY <1>1, <1>2, <2>1, <2>2, <2>3, AppKeeps
<1> QED BY <1>3, <1>4, <1>5

\* A step of one handling that shows nothing yet.
LEMMA HandlingKeeps ==
  ASSUME PushAlertInv, NEW h \in Extensions, NEW c \in PushRow,
         handling' = [handling EXCEPT ![h] = c], excusedFor \subseteq excusedFor',
         HandledWell(c, read, excusedFor'), UNCHANGED <<appGroups, read, sealedCopy, draft, tray>>
  PROVE  PushAlertInv'
<1>1. /\ handling' \in [Extensions -> PushRow] /\ handling'[h] = c
      /\ \A g \in Extensions : g # h => handling'[g] = handling[g]
  BY DEF PushAlertInv
<1>2. ASSUME NEW g \in Extensions PROVE HandledWell(handling'[g], read', excusedFor')
  <2>1. CASE g = h
    BY <1>1, <2>1
  <2>2. CASE g # h
    <3>1. HandledWell(handling[g], read, excusedFor) /\ handling'[g] = handling[g]
      BY <1>1, <2>2 DEF PushAlertInv
    <3> QED BY <3>1, HandledGrows
  <2> QED BY <2>1, <2>2
<1>3. \A a \in tray' : AlertWell(a, read', excusedFor')
  BY AlertGrows DEF PushAlertInv
<1>4. AlertsDoNotStack'
  BY DEF PushAlertInv, AlertsDoNotStack
<1> QED BY <1>1, <1>2, <1>3, <1>4 DEF PushAlertInv

LEMMA PushArrivesKeeps ==
  ASSUME PushAlertInv, NEW h \in Extensions, NEW m \in Pushed, PushArrives(h, m)
  PROVE  PushAlertInv'
<1> DEFINE d == [NoPush EXCEPT !.pc = "opened", !.for = m, !.copy = sealedCopy]
<1>1. /\ handling' = [handling EXCEPT ![h] = d]
      /\ UNCHANGED <<appGroups, read, sealedCopy, draft, tray>>
      /\ excusedFor \subseteq excusedFor'
      /\ m \in excusedFor' \/ \E k \in sealedCopy : GroupOf(m) \in k.groups
  BY DEF PushArrives, appVars, fileVars, Excused
<1>2. sealedCopy \in SUBSET GroupCopy /\ \A k \in sealedCopy : k.read \subseteq read
  BY DEF PushAlertInv
<1>3. /\ d \in PushRow /\ d.pc = "opened" /\ d.for = m /\ d.copy = sealedCopy
      /\ d.changed = 0 /\ d.ending = 0
  <2> HIDE DEF GroupCopy
  <2> QED BY <1>2, NoPushRow DEF PushRow
<1> HIDE DEF d
<1>4. HandledWell(d, read, excusedFor')
  BY <1>1, <1>2, <1>3 DEF HandledWell, HandledRight
<1> QED BY <1>1, <1>3, <1>4, HandlingKeeps

LEMMA DecryptPushKeeps ==
  ASSUME PushAlertInv, NEW h \in Extensions, DecryptPush(h)
  PROVE  PushAlertInv'
<1>1. PICK c \in PushRow : c = handling[h]
  BY DEF PushAlertInv
<1>2. HandledWell(c, read, excusedFor) /\ c.pc = "opened"
  BY <1>1 DEF PushAlertInv, DecryptPush
<1>3. PICK what \in {"text", "failed"} :
        /\ handling' = [handling EXCEPT ![h].pc = what]
        /\ \/ what = "text" /\ excusedFor' = excusedFor /\ ~c.for.rx
           \/ what = "failed" /\ excusedFor' = excusedFor
                /\ ~\E k \in c.copy : Decrypts(k, c.for)
           \/ what = "failed" /\ excusedFor' = excusedFor \cup {c.for}
  <2>1. CASE \E k \in c.copy : Decrypts(k, c.for) /\ handling' = [handling EXCEPT ![h].pc = "text"]
                                 /\ UNCHANGED excusedFor
    BY <2>1 DEF Decrypts
  <2>2. CASE /\ handling' = [handling EXCEPT ![h].pc = "failed"]
             /\ \/ excusedFor' = excusedFor /\ ~\E k \in c.copy : Decrypts(k, c.for)
                \/ excusedFor' = excusedFor \cup {c.for}
    BY <2>2
  <2> QED BY <1>1, <2>1, <2>2 DEF DecryptPush, Excused
<1>4. UNCHANGED <<appGroups, read, sealedCopy, draft, tray>>
  BY DEF DecryptPush, appVars, Discarded
<1> DEFINE d == [c EXCEPT !.pc = what]
<1>5. /\ d \in PushRow /\ d.pc = what /\ d.for = c.for /\ d.copy = c.copy
      /\ d.changed = c.changed /\ d.ending = c.ending
  BY DEF PushRow
<1>6. handling' = [handling EXCEPT ![h] = d]
  BY <1>1, <1>3
<1> HIDE DEF d
<1>7. HandledWell(d, read, excusedFor')
  <2>1. \A k \in d.copy : k.read \subseteq read
    BY <1>2, <1>5 DEF HandledWell
  <2> SUFFICES ASSUME d.for \notin excusedFor' PROVE HandledRight(d, read)
    BY <2>1 DEF HandledWell
  <2>2. c.for \notin excusedFor /\ HandledRight(c, read)
    BY <1>2, <1>3, <1>5 DEF HandledWell
  <2>3. c.changed = 0 /\ c.ending = 0 /\ \E k \in c.copy : GroupOf(c.for) \in k.groups
    BY <1>2, <2>2 DEF HandledRight
  <2>4. ASSUME what = "failed" PROVE c.for.rx \/ Spent(read, c.for)
    <3>1. PICK k \in c.copy : GroupOf(c.for) \in k.groups
      BY <2>3
    <3>2. k.read \subseteq read /\ ~Decrypts(k, c.for)
      BY <1>2, <1>3, <1>5, <2>4 DEF HandledWell
    <3>3. Spent(k.read, c.for) => Spent(read, c.for)
      BY <3>2, SpentGrows
    <3> QED BY <3>1, <3>2, <3>3 DEF Decrypts
  <2>5. what = "text" => ~c.for.rx
    BY <1>3
  <2> QED BY <1>5, <2>3, <2>4, <2>5 DEF HandledRight
<1>8. excusedFor \subseteq excusedFor'
  BY <1>3
<1> QED BY <1>4, <1>5, <1>6, <1>7, <1>8, HandlingKeeps

LEMMA AssignKeeps ==
  ASSUME PushAlertInv, NEW h \in Extensions, Assign(h)
  PROVE  PushAlertInv'
<1>1. PICK c \in PushRow : c = handling[h]
  BY DEF PushAlertInv
<1>2. /\ HandledWell(c, read, excusedFor) /\ c.pc \in {"text", "failed"} /\ c.changed \in {0, 1}
      /\ UNCHANGED <<appGroups, read, sealedCopy, draft, tray, excusedFor>>
  <2>1. c.changed \in 0 .. 2
    BY DEF PushRow
  <2> QED BY <1>1, <2>1 DEF PushAlertInv, Assign, appVars, fileVars
<1> DEFINE n == c.changed + 1
           e == Changed(c, c.changed, c.pc)
           d == [e EXCEPT !.changed = n]
<1>3. handling' = [handling EXCEPT ![h] = d]
  BY <1>1 DEF Assign
<1>4. n \in 0 .. 2 /\ (c.changed = 0 => n = 1) /\ (c.changed = 1 => n = 2)
  BY <1>2
<1>5. /\ e \in PushRow /\ e.pc = c.pc /\ e.for = c.for /\ e.copy = c.copy /\ e.ending = c.ending
      /\ c.changed = 0 => e.title = c.pc
      /\ c.changed = 1 => e.title = c.title /\ e.body = c.pc
  <2>1. PICK what \in {"text", "failed"} : what = c.pc
    BY <1>2
  <2>2. CASE c.changed = 0
    <3>1. e = [c EXCEPT !.title = what]
      BY <2>1, <2>2 DEF Changed
    <3> HIDE DEF e
    <3>2. e \in PushRow
      BY <3>1 DEF PushRow
    <3>3. /\ e.pc = c.pc /\ e.for = c.for /\ e.copy = c.copy /\ e.ending = c.ending
          /\ e.title = what
      BY <3>1 DEF PushRow
    <3> QED BY <2>1, <2>2, <3>2, <3>3
  <2>3. CASE c.changed = 1
    <3>1. e = [c EXCEPT !.body = what]
      BY <2>1, <2>3 DEF Changed
    <3> HIDE DEF e
    <3>2. e \in PushRow
      BY <3>1 DEF PushRow
    <3>3. /\ e.pc = c.pc /\ e.for = c.for /\ e.copy = c.copy /\ e.ending = c.ending
          /\ e.body = what /\ e.title = c.title
      BY <3>1 DEF PushRow
    <3> QED BY <2>1, <2>3, <3>2, <3>3
  <2> QED BY <1>2, <2>2, <2>3
<1> HIDE DEF n, e
<1>6. /\ d \in PushRow /\ d.pc = c.pc /\ d.for = c.for /\ d.copy = c.copy /\ d.ending = c.ending
      /\ d.changed = n /\ d.title = e.title /\ d.body = e.body
  BY <1>4, <1>5 DEF PushRow
<1> HIDE DEF d
<1>7. HandledWell(d, read, excusedFor)
  <2>1. c.for \in excusedFor \/ HandledRight(d, read)
    BY <1>2, <1>4, <1>5, <1>6 DEF HandledWell, HandledRight
  <2> QED BY <1>2, <1>6, <2>1 DEF HandledWell
<1> QED BY <1>2, <1>3, <1>6, <1>7, HandlingKeeps

LEMMA EndKeeps ==
  ASSUME PushAlertInv, NEW h \in Extensions, End(h)
  PROVE  PushAlertInv'
<1>1. PICK c \in PushRow : c = handling[h]
  BY DEF PushAlertInv
<1>2. /\ HandledWell(c, read, excusedFor) /\ c.ending \in {0, 1}
      /\ excusedFor' = excusedFor \cup {c.for}
      /\ UNCHANGED <<appGroups, read, sealedCopy, draft, tray>>
  <2>1. c.ending \in 0 .. 2
    BY DEF PushRow
  <2> QED BY <1>1, <2>1 DEF PushAlertInv, End, Excused, appVars, fileVars
<1> DEFINE n == c.ending + 1
           e == Changed(c, c.ending, "failed")
           d == [e EXCEPT !.ending = n]
<1>3. handling' = [handling EXCEPT ![h] = d]
  BY <1>1 DEF End
<1>4. n \in 0 .. 2
  BY <1>2
<1>5. e \in PushRow /\ e.for = c.for /\ e.copy = c.copy
  BY <1>2 DEF Changed, PushRow
<1> HIDE DEF n, e
<1>6. d \in PushRow /\ d.for = c.for /\ d.copy = c.copy
  BY <1>4, <1>5 DEF PushRow
<1> HIDE DEF d
<1>7. HandledWell(d, read, excusedFor')
  BY <1>2, <1>6 DEF HandledWell
<1> QED BY <1>2, <1>3, <1>6, <1>7, HandlingKeeps

LEMMA PostKeeps ==
  ASSUME PushAlertInv, NEW h \in Extensions, Post(h)
  PROVE  PushAlertInv'
<1>1. PICK c \in PushRow : c = handling[h]
  BY DEF PushAlertInv
<1> DEFINE b == [for |-> c.for, title |-> c.title, body |-> c.body]
<1>2. /\ HandledWell(c, read, excusedFor) /\ (c.changed = 2 \/ c.ending = 2)
      /\ tray' = {a \in tray : ~Replaces(a, c.for)} \cup {b}
      /\ handling' = [handling EXCEPT ![h] = NoPush]
      /\ UNCHANGED <<appGroups, read, sealedCopy, draft, excusedFor>>
  BY <1>1 DEF PushAlertInv, Post, appVars, fileVars
<1>3. AlertWell(b, read, excusedFor)
  <2> SUFFICES ASSUME c.for \notin excusedFor
               PROVE  /\ c.title = c.body
                      /\ c.title = "failed" => c.for.rx \/ Spent(read, c.for)
                      /\ c.title = "text" => ~c.for.rx
    BY DEF AlertWell
  <2>1. HandledRight(c, read)
    BY <1>2 DEF HandledWell
  <2>2. c.changed = 2 /\ c.title = c.pc /\ c.body = c.pc
    BY <1>2, <2>1 DEF HandledRight
  <2> QED BY <2>1, <2>2 DEF HandledRight
<1>4. b.for = c.for
  OBVIOUS
<1> HIDE DEF b
<1>5. \A a \in tray' : AlertWell(a, read, excusedFor)
  BY <1>2, <1>3 DEF PushAlertInv
<1>6. AlertsDoNotStack'
  <2>1. ASSUME NEW a \in tray', NEW a2 \in tray', a.for = a2.for PROVE a = a2
    <3>1. CASE a = b /\ a2 = b
      BY <3>1
    <3>2. CASE a # b /\ a2 # b
      BY <1>2, <2>1, <3>2 DEF PushAlertInv, AlertsDoNotStack
    <3>3. CASE a = b /\ a2 # b
      BY <1>2, <1>4, <2>1, <3>3 DEF Replaces
    <3>4. CASE a # b /\ a2 = b
      BY <1>2, <1>4, <2>1, <3>4 DEF Replaces
    <3> QED BY <3>1, <3>2, <3>3, <3>4
  <2> QED BY <2>1 DEF AlertsDoNotStack
<1>7. /\ handling' \in [Extensions -> PushRow] /\ handling'[h] = NoPush
      /\ \A g \in Extensions : g # h => handling'[g] = handling[g]
  BY <1>2, NoPushRow DEF PushAlertInv
<1>8. ASSUME NEW g \in Extensions PROVE HandledWell(handling'[g], read, excusedFor)
  BY <1>7, NoPushWell DEF PushAlertInv
<1> QED BY <1>2, <1>5, <1>6, <1>7, <1>8 DEF PushAlertInv

LEMMA PushAlertStep == PushAlertInv /\ [PushAlertNext]_pushAlertVars => PushAlertInv'
<1> SUFFICES ASSUME PushAlertInv, [PushAlertNext]_pushAlertVars PROVE PushAlertInv'
  OBVIOUS
<1>1. CASE UNCHANGED pushAlertVars
  <2>1. UNCHANGED <<appGroups, read, sealedCopy, draft, handling, tray, excusedFor>>
    BY <1>1 DEF pushAlertVars
  <2> QED BY <2>1 DEF PushAlertInv, AlertsDoNotStack
<1>2. CASE PushAlertNext
  BY <1>2, AppReadsKeeps, AppCommitsKeeps, FileKeeps, PushArrivesKeeps, DecryptPushKeeps, AssignKeeps, EndKeeps,
     PostKeeps DEF PushAlertNext
<1> QED BY <1>1, <1>2

\* What PushAlertTypeOK says besides: there is one sealed copy at most, and a text is in its place once it is assigned.
TextsThere(c) ==
  /\ c.changed >= 1 \/ c.ending >= 1 => c.title \in {"text", "failed"}
  /\ c.changed = 2 \/ c.ending = 2 => c.body \in {"text", "failed"}
TextKinds(a) == a.title \in {"text", "failed"} /\ a.body \in {"text", "failed"}
CopiesFit == sealedCopy = {} \/ \E k : sealedCopy = {k}
TextsFit == (\A h \in Extensions : TextsThere(handling[h])) /\ (\A a \in tray : TextKinds(a))
AlertsFit ==
  /\ excusedFor \subseteq Pushed
  /\ delivered \in 0 .. MaxPushes /\ written \in 0 .. MaxCopies
  /\ CopiesFit /\ TextsFit

LEMMA HandlingIsPushed == ASSUME NEW h \in Extensions, PushAlertInv PROVE handling[h].for \in Pushed
BY PushAlertAssumption DEF PushAlertInv, PushRow, FirstPushed

LEMMA AppAlertsFit ==
  ASSUME PushAlertInv, AlertsFit,
         \/ \E m \in Pushed : AppReads(m) \/ AppJoins(GroupOf(m))
         \/ \E g \in appGroups, e \in Epochs : AppCommits(g, e)
  PROVE  AlertsFit'
<1>1. UNCHANGED <<sealedCopy, handling, tray, excusedFor, delivered, written>>
  BY DEF AppReads, AppJoins, AppCommits, fileVars
<1>2. CopiesFit' /\ TextsFit'
  BY <1>1 DEF AlertsFit, CopiesFit, TextsFit
<1> QED BY <1>1, <1>2 DEF AlertsFit

LEMMA FileAlertsFit ==
  ASSUME PushAlertInv, AlertsFit, WriteDraft \/ DeleteCopy \/ MoveDraft PROVE AlertsFit'
<1>1. /\ UNCHANGED <<appGroups, handling, tray, excusedFor, delivered>>
      /\ written' \in 0 .. MaxCopies
  BY PushAlertAssumption DEF WriteDraft, DeleteCopy, MoveDraft, appVars, AlertsFit
<1>2. CopiesFit'
  <2>1. CASE WriteDraft
    BY <2>1 DEF WriteDraft, appVars, AlertsFit, CopiesFit
  <2>2. CASE DeleteCopy
    BY <2>2 DEF DeleteCopy, appVars, AlertsFit, CopiesFit, PushAlertInv
  <2>3. CASE MoveDraft
    BY <2>3 DEF MoveDraft, CopiesFit
  <2> QED BY <2>1, <2>2, <2>3
<1>3. TextsFit'
  BY <1>1 DEF AlertsFit, TextsFit
<1> QED BY <1>1, <1>2, <1>3 DEF AlertsFit

LEMMA ChangedText ==
  ASSUME NEW c \in PushRow, NEW n \in {0, 1}, NEW what \in {"text", "failed"}, NEW k \in 0 .. 2
  PROVE  /\ [Changed(c, n, what) EXCEPT !.changed = k].title = IF n = 0 THEN what ELSE c.title
         /\ [Changed(c, n, what) EXCEPT !.changed = k].body = IF n = 0 THEN c.body ELSE what
         /\ [Changed(c, n, what) EXCEPT !.changed = k].changed = k
         /\ [Changed(c, n, what) EXCEPT !.changed = k].ending = c.ending
         /\ [Changed(c, n, what) EXCEPT !.ending = k].title = IF n = 0 THEN what ELSE c.title
         /\ [Changed(c, n, what) EXCEPT !.ending = k].body = IF n = 0 THEN c.body ELSE what
         /\ [Changed(c, n, what) EXCEPT !.ending = k].ending = k
         /\ [Changed(c, n, what) EXCEPT !.ending = k].changed = c.changed
<1>1. CASE n = 0
  BY <1>1 DEF Changed, PushRow
<1>2. CASE n # 0
  BY <1>2 DEF Changed, PushRow
<1> QED BY <1>1, <1>2

\* A step of handling h leaves the copies as they are, and the texts as it says.
LEMMA HandlingFits ==
  ASSUME PushAlertInv, AlertsFit, NEW h \in Extensions, NEW c,
         UNCHANGED <<sealedCopy, written>>,
         handling' = [handling EXCEPT ![h] = c], TextsThere(c),
         excusedFor' \subseteq Pushed, delivered' \in 0 .. MaxPushes,
         \A a \in tray' : TextKinds(a)
  PROVE  AlertsFit'
<1>1. \A g \in Extensions : handling'[g] = IF g = h THEN c ELSE handling[g]
  BY DEF PushAlertInv
<1>2. TextsFit'
  BY <1>1 DEF AlertsFit, TextsFit
<1>3. CopiesFit'
  BY DEF AlertsFit, CopiesFit
<1> QED BY <1>2, <1>3 DEF AlertsFit

LEMMA HandledAlertsFit ==
  ASSUME PushAlertInv, AlertsFit, NEW h \in Extensions,
         (\E m \in Pushed : PushArrives(h, m)) \/ DecryptPush(h) \/ Assign(h) \/ End(h) \/ Post(h)
  PROVE  AlertsFit'
<1> DEFINE c == handling[h]
<1>1. /\ c \in PushRow /\ TextsThere(c) /\ c.for \in Pushed
      /\ \A a \in tray : TextKinds(a)
      /\ excusedFor \subseteq Pushed /\ delivered \in 0 .. MaxPushes
  BY HandlingIsPushed DEF PushAlertInv, AlertsFit, TextsFit
<1>2. ASSUME NEW m \in Pushed, PushArrives(h, m) PROVE AlertsFit'
  <2>1. TextsThere([NoPush EXCEPT !.pc = "opened", !.for = m, !.copy = sealedCopy])
    BY DEF NoPush, TextsThere
  <2>2. /\ UNCHANGED <<appGroups, sealedCopy, draft, written, tray>>
        /\ delivered < MaxPushes /\ delivered' = delivered + 1
        /\ excusedFor' = excusedFor \/ excusedFor' = excusedFor \cup {m}
    BY <1>2 DEF PushArrives, Excused, appVars, fileVars
  <2>3. handling' = [handling EXCEPT ![h] =
          [NoPush EXCEPT !.pc = "opened", !.for = m, !.copy = sealedCopy]]
    BY <1>2 DEF PushArrives
  <2>4. delivered' \in 0 .. MaxPushes /\ excusedFor' \subseteq Pushed /\ \A a \in tray' : TextKinds(a)
    BY <1>1, <2>2, PushAlertAssumption
  <2> QED BY <2>1, <2>2, <2>3, <2>4, HandlingFits
<1>3. CASE DecryptPush(h)
  <2>1. PICK what \in {"text", "failed"} : handling' = [handling EXCEPT ![h] = [c EXCEPT !.pc = what]]
    BY <1>3 DEF DecryptPush, PushAlertInv
  <2>2. TextsThere([c EXCEPT !.pc = what])
    BY <1>1 DEF TextsThere, PushRow
  <2>3. /\ UNCHANGED <<appGroups, sealedCopy, draft, written, tray, delivered>>
        /\ excusedFor' \subseteq Pushed
    BY <1>1, <1>3 DEF DecryptPush, Excused, Discarded, appVars
  <2> QED BY <1>1, <2>1, <2>2, <2>3, HandlingFits
<1>4. CASE Assign(h)
  <2>1. TextsThere([Changed(c, c.changed, c.pc) EXCEPT !.changed = c.changed + 1])
    <3>1. c.changed \in 0 .. 2 /\ c.ending \in 0 .. 2
      BY <1>1 DEF PushRow
    <3>2. c.changed \in {0, 1} /\ c.pc \in {"text", "failed"} /\ c.changed + 1 \in 0 .. 2
      BY <3>1, <1>4 DEF Assign
    <3> DEFINE d == [Changed(c, c.changed, c.pc) EXCEPT !.changed = c.changed + 1]
    <3>3. /\ d.title = IF c.changed = 0 THEN c.pc ELSE c.title
          /\ d.body = IF c.changed = 0 THEN c.body ELSE c.pc
          /\ d.changed = c.changed + 1 /\ d.ending = c.ending
      BY <1>1, <3>2, ChangedText
    <3> HIDE DEF d
    <3>4. TextsThere(d)
      BY <1>1, <3>1, <3>2, <3>3 DEF TextsThere
    <3> QED BY <3>4 DEF d
  <2>2. UNCHANGED <<appGroups, sealedCopy, draft, written, tray, delivered, excusedFor>>
    BY <1>4 DEF Assign, appVars, fileVars
  <2>3. handling' = [handling EXCEPT ![h] =
                       [Changed(c, c.changed, c.pc) EXCEPT !.changed = c.changed + 1]]
    BY <1>4 DEF Assign
  <2> QED BY <1>1, <2>1, <2>2, <2>3, HandlingFits
<1>5. CASE End(h)
  <2>1. TextsThere([Changed(c, c.ending, "failed") EXCEPT !.ending = c.ending + 1])
    <3>1. c.changed \in 0 .. 2 /\ c.ending \in 0 .. 2
      BY <1>1 DEF PushRow
    <3>2. c.ending \in {0, 1} /\ c.ending + 1 \in 0 .. 2
      BY <3>1, <1>5 DEF End
    <3> DEFINE d == [Changed(c, c.ending, "failed") EXCEPT !.ending = c.ending + 1]
    <3>3. /\ d.title = IF c.ending = 0 THEN "failed" ELSE c.title
          /\ d.body = IF c.ending = 0 THEN c.body ELSE "failed"
          /\ d.ending = c.ending + 1 /\ d.changed = c.changed
      BY <1>1, <3>2, ChangedText
    <3> HIDE DEF d
    <3>4. TextsThere(d)
      BY <1>1, <3>1, <3>2, <3>3 DEF TextsThere
    <3> QED BY <3>4 DEF d
  <2>2. /\ UNCHANGED <<appGroups, sealedCopy, draft, written, tray, delivered>>
        /\ excusedFor' \subseteq Pushed
    BY <1>1, <1>5 DEF End, Excused, appVars, fileVars
  <2>3. handling' = [handling EXCEPT ![h] =
                       [Changed(c, c.ending, "failed") EXCEPT !.ending = c.ending + 1]]
    BY <1>5 DEF End
  <2> QED BY <1>1, <2>1, <2>2, <2>3, HandlingFits
<1>6. CASE Post(h)
  <2>1. TextsThere(NoPush)
    BY DEF NoPush, TextsThere
  <2>2. TextKinds([for |-> c.for, title |-> c.title, body |-> c.body])
    <3>1. c.changed \in 0 .. 2 /\ c.ending \in 0 .. 2 /\ (c.changed = 2 \/ c.ending = 2)
      BY <1>1, <1>6 DEF PushRow, Post
    <3> QED BY <1>1, <3>1 DEF TextsThere, TextKinds
  <2>3. /\ UNCHANGED <<appGroups, sealedCopy, draft, written, delivered, excusedFor>>
        /\ handling' = [handling EXCEPT ![h] = NoPush]
        /\ \A a \in tray' : TextKinds(a)
    BY <1>1, <1>6, <2>2 DEF Post, appVars, fileVars
  <2> QED BY <1>1, <2>1, <2>3, HandlingFits
<1> QED BY <1>2, <1>3, <1>4, <1>5, <1>6

\* The alerts have their types.
LEMMA PushAlertTypesHold == PushAlertSpec => []PushAlertTypeOK
<1>1. PushAlertInv /\ AlertsFit => PushAlertTypeOK
  <2> SUFFICES ASSUME PushAlertInv, AlertsFit PROVE PushAlertTypeOK
    OBVIOUS
  <2>1. Cardinality(sealedCopy) <= 1
    BY FS_EmptySet, FS_Singleton DEF AlertsFit, CopiesFit
  <2>2. \A k \in sealedCopy : k.groups \subseteq GroupStates /\ k.read \subseteq Pushed
    BY DEF PushAlertInv, GroupCopy
  <2>3. \A h \in Extensions : handling[h] \in PushRow
    BY DEF PushAlertInv
  <2> QED BY <2>1, <2>2, <2>3 DEF AlertsFit, TextsFit, TextKinds, PushAlertInv, PushAlertTypeOK, PushRow
<1>2. PushAlertInit => AlertsFit
  <2> SUFFICES ASSUME PushAlertInit PROVE AlertsFit
    OBVIOUS
  <2>1. /\ tray = {} /\ excusedFor = {} /\ delivered = 0 /\ written = 0
        /\ sealedCopy = {[groups |-> appGroups, read |-> {}]}
        /\ handling = [h \in Extensions |-> NoPush]
    BY DEF PushAlertInit
  <2>2. CopiesFit
    BY <2>1 DEF CopiesFit
  <2>3. TextsFit
    <3>1. TextsThere(NoPush)
      BY DEF NoPush, TextsThere
    <3> QED BY <2>1, <3>1 DEF TextsFit
  <2>4. delivered \in 0 .. MaxPushes /\ written \in 0 .. MaxCopies
    BY <2>1, PushAlertAssumption
  <2> QED BY <2>1, <2>2, <2>3, <2>4 DEF AlertsFit
<1>3. PushAlertInv /\ AlertsFit /\ [PushAlertNext]_pushAlertVars => AlertsFit'
  <2>1. AlertsFit /\ UNCHANGED pushAlertVars => AlertsFit'
    BY DEF pushAlertVars, AlertsFit, CopiesFit, TextsFit
  <2> QED BY <2>1, AppAlertsFit, FileAlertsFit, HandledAlertsFit DEF PushAlertNext
<1> QED BY <1>1, <1>2, <1>3, PushAlertStart, PushAlertStep, PTL DEF PushAlertSpec

-----------------------------------------------------------------------------
(***************************************************************************)
(* LocalHistory.  Whatever a list, the table or a hydration under way has  *)
(* is an item: a peer's row, an own row that is acked, or an own bubble    *)
(* that is not, each with the one id that goes with it.  A text that never *)
(* failed is one item and shown once; the table has what is shown as sent; *)
(* what the table has, the list shows or will show when it is hydrated.    *)
(***************************************************************************)

PeerBubble(d, s) == [id |-> s, text |-> <<d, s>>, serial |-> s, status |-> "sent", cid |-> s]
SentBubble(m, s) == [id |-> s, text |-> m, serial |-> s, status |-> "sent", cid |-> m]
UnsentBubble(m, st) == [id |-> m, text |-> m, serial |-> 0, status |-> st, cid |-> m]

Acked(m) == \E s \in DOMAIN server[ChatOf[m]] : server[ChatOf[m]][s] = m

\* All there ever is of a text: a peer's, of a row of the server; one's own under the
\* serial of its ack; one's own under its client id.
IsPeers(b) ==
  \E d \in Chats : \E s \in DOMAIN server[d] : server[d][s] = "peer" /\ b = PeerBubble(d, s)
IsOwnSent(b) ==
  \E m \in Written : outbox[m] = "gone" /\ Acked(m) /\ b = SentBubble(m, AckedSerial(m))
IsUnsent(b) ==
  \E m \in Written : \E st \in {"sending", "failed"} :
    b = UnsentBubble(m, st) /\ (st = "failed" => m \in failedOnce)
Item(b) == IsPeers(b) \/ IsOwnSent(b) \/ IsUnsent(b)

\* It may stand in chat c, be it by a collision of serials.
Fits(c, b) == IF b.status = "sent" THEN b.serial \in DOMAIN server[c] ELSE c = ChatOf[b.text]

\* A bubble of the list of c.
BubbleOK(c, b) ==
  /\ Item(b) /\ Fits(c, b)
  /\ b.status = "sending" /\ b.text \notin failedOnce => outbox[b.text] \in {"queued", "stored"}
  /\ b.status = "sent" => b.id \in DOMAIN table
  /\ ChatOfText(b.text) # c => restarts > 0

\* A row of the table, and what a hydration has read of c.
AsBubble(id, row) ==
  [id |-> id, text |-> row.text, serial |-> IF row.status = "sent" THEN id ELSE 0,
   status |-> row.status, cid |-> row.cid]
ReadOK(c, b) == Item(b) /\ Fits(c, b) /\ (b.status # "sent" => b.text \in failedOnce)
RowOK(id, row) == row.chat \in Chats /\ ReadOK(row.chat, AsBubble(id, row))

HistoryTypes ==
  /\ server \in [Chats -> Seq(Written \cup {"peer"})]
  /\ outbox \in [Written -> {"none", "queued", "stored", "dead", "gone"}]
  /\ list = [c \in Chats |-> list[c]] /\ loaded = [c \in Chats |-> loaded[c]]
  /\ restarts \in Nat /\ failedOnce \subseteq Written

BubblesInv ==
  \A c \in Chats : \A b \in DOMAIN list[c] :
    /\ BubbleOK(c, b) /\ list[c][b] \in Nat \ {0}
    /\ b.text \notin failedOnce => list[c][b] = 1

TableInv == \A id \in DOMAIN table : \A row \in {table[id]} : RowOK(id, row)

\* What the table has of c the list shows, or will when it is hydrated.
LoadOK(c) ==
  /\ \A b \in loaded[c].rows : ReadOK(c, b) /\ b.id \in DOMAIN table
  /\ loaded[c].pc # "loaded" => loaded[c].rows = {}
  /\ loaded[c].pc # "hydrated" => restarts > 0
  /\ loaded[c].pc \in {"hydrated", "loaded"} =>
       \A id \in DOMAIN table : table[id].chat = c /\ table[id].status = "sent" =>
         HasSerial(c, id) \/ \E b \in loaded[c].rows : b.id = id
LoadsInv == \A c \in Chats : LoadOK(c)

\* Where a message of one's own is that neither failed nor was interrupted.
OwnOK(m) ==
  /\ outbox[m] = "stored" => Acked(m)
  /\ m \notin failedOnce \cup interrupted =>
       /\ outbox[m] # "dead"
       /\ outbox[m] \in {"queued", "stored"} => OwnBubbles(m) # {}
       /\ outbox[m] = "gone" => Acked(m) /\ AckedSerial(m) \in DOMAIN table
OwnInv == \A m \in Written : OwnOK(m)

\* The inductive invariant.
HistoryInv == HistoryTypes /\ BubblesInv /\ TableInv /\ LoadsInv /\ OwnInv

-----------------------------------------------------------------------------
\* One copy of each of S is added.
Added(L, S) == L (+) SetToBag(S)

\* One copy of old gives way to one of new.
Swapped(L, old, new) == (L (-) SetToBag({old})) (+) SetToBag({new})

LEMMA SwapBag ==
  ASSUME NEW L, NEW old, NEW new, old \in DOMAIN L, \A e \in DOMAIN L : L[e] \in Nat \ {0}
  PROVE  /\ DOMAIN Swapped(L, old, new) \subseteq DOMAIN L \cup {new}
         /\ DOMAIN L \ {old} \subseteq DOMAIN Swapped(L, old, new)
         /\ new \in DOMAIN Swapped(L, old, new)
         /\ \A e \in DOMAIN Swapped(L, old, new) : Swapped(L, old, new)[e] \in Nat \ {0}
         /\ \A e \in DOMAIN L \ {old, new} : Swapped(L, old, new)[e] = L[e]
         /\ new \notin DOMAIN L => Swapped(L, old, new)[new] = 1
         /\ L[old] = 1 /\ old # new => old \notin DOMAIN Swapped(L, old, new)
<1> DEFINE M == L (-) SetToBag({old})
           K == M (+) SetToBag({new})
<1>1. /\ DOMAIN M \subseteq DOMAIN L /\ DOMAIN L \ {old} \subseteq DOMAIN M
      /\ \A e \in DOMAIN M : M[e] \in Nat \ {0}
      /\ \A e \in DOMAIN L \ {old} : M[e] = L[e]
      /\ L[old] = 1 => old \notin DOMAIN M
  BY DEF (-), SetToBag
<1> HIDE DEF M
<1>2. /\ DOMAIN K = DOMAIN M \cup {new}
      /\ \A e \in DOMAIN M \ {new} : K[e] = M[e]
      /\ K[new] = IF new \in DOMAIN M THEN M[new] + 1 ELSE 1
  BY <1>1 DEF (+), SetToBag
<1> HIDE DEF K
<1>3. /\ DOMAIN K \subseteq DOMAIN L \cup {new}
      /\ DOMAIN L \ {old} \subseteq DOMAIN K /\ new \in DOMAIN K
      /\ \A e \in DOMAIN K : K[e] \in Nat \ {0}
      /\ \A e \in DOMAIN L \ {old, new} : K[e] = L[e]
      /\ new \notin DOMAIN L => K[new] = 1
      /\ L[old] = 1 /\ old # new => old \notin DOMAIN K
  BY <1>1, <1>2
<1> QED BY <1>3 DEF K, M, Swapped

-----------------------------------------------------------------------------
\* The last place of m in s.
LastOf(s, m) == CHOOSE i \in DOMAIN s : s[i] = m /\ \A r \in DOMAIN s : s[r] = m => r <= i

LEMMA LastIs ==
  ASSUME NEW S, NEW s \in Seq(S), NEW m, \E i \in DOMAIN s : s[i] = m
  PROVE  /\ LastOf(s, m) \in DOMAIN s /\ s[LastOf(s, m)] = m
         /\ \A r \in DOMAIN s : s[r] = m => r <= LastOf(s, m)
<1> DEFINE P == {i \in DOMAIN s : s[i] = m}
<1>1. /\ P \subseteq 1 .. Len(s) /\ P \in SUBSET Nat /\ P # {} /\ Len(s) \in Nat
  OBVIOUS
<1>2. IsFiniteSet(P)
  <2>1. 1 \in Int /\ Len(s) \in Int
    BY <1>1
  <2>2. IsFiniteSet(1 .. Len(s))
    BY <2>1, FS_Interval
  <2> QED BY <1>1, <2>2, FS_Subset
<1>3. PICK n \in P : \A i \in P : i <= n
  BY <1>1, <1>2, HasLargest
<1>4. n \in DOMAIN s /\ s[n] = m /\ \A r \in DOMAIN s : s[r] = m => r <= n
  BY <1>3
<1> QED BY <1>4 DEF LastOf

LEMMA LastStays ==
  ASSUME NEW S, NEW s \in Seq(S), NEW m, \E i \in DOMAIN s : s[i] = m, NEW x \in S, x # m
  PROVE  /\ \E i \in DOMAIN Append(s, x) : Append(s, x)[i] = m
         /\ LastOf(Append(s, x), m) = LastOf(s, m)
<1> DEFINE t == Append(s, x)
<1>1. /\ t \in Seq(S) /\ DOMAIN t = 1 .. Len(s) + 1 /\ DOMAIN s = 1 .. Len(s) /\ Len(s) \in Nat
      /\ \A i \in DOMAIN s : t[i] = s[i]
      /\ t[Len(s) + 1] = x
  OBVIOUS
<1> HIDE DEF t
<1>2. \E i \in DOMAIN t : t[i] = m
  BY <1>1
<1> DEFINE i == LastOf(s, m)
           j == LastOf(t, m)
<1>3. i \in DOMAIN s /\ s[i] = m /\ \A r \in DOMAIN s : s[r] = m => r <= i
  BY LastIs
<1>4. j \in DOMAIN t /\ t[j] = m /\ \A r \in DOMAIN t : t[r] = m => r <= j
  BY <1>1, <1>2, LastIs
<1> HIDE DEF i, j
<1>5. i \in DOMAIN t /\ t[i] = m /\ j \in DOMAIN s /\ s[j] = m
  BY <1>1, <1>3, <1>4
<1>6. i <= j /\ j <= i /\ i \in Nat /\ j \in Nat
  BY <1>1, <1>3, <1>4, <1>5
<1>7. i = j
  BY <1>6
<1> QED BY <1>2, <1>7 DEF t, i, j

LEMMA AckedIs ==
  ASSUME HistoryTypes, NEW m \in Written, Acked(m)
  PROVE  /\ AckedSerial(m) \in DOMAIN server[ChatOf[m]] /\ server[ChatOf[m]][AckedSerial(m)] = m
         /\ AckedSerial(m) = LastOf(server[ChatOf[m]], m)
<1>1. ChatOf[m] \in Chats
  BY HistoryAssumption
<1>2. AckedSerial(m) = LastOf(server[ChatOf[m]], m)
  BY DEF AckedSerial, LastOf
<1> QED BY <1>1, <1>2, LastIs DEF HistoryTypes, Acked

-----------------------------------------------------------------------------
\* What an item is, told from its id, its status and its client id.

LEMMA ChatsOfRows ==
  ASSUME HistoryTypes, NEW c \in Chats, NEW s \in DOMAIN server[c]
  PROVE  s \in Nat /\ s # 0 /\ (server[c][s] \in Written \/ server[c][s] = "peer")
BY DEF HistoryTypes

LEMMA SentItem ==
  ASSUME HistoryTypes, NEW b, Item(b), b.status = "sent"
  PROVE  /\ b.id = b.serial /\ b.id \in Nat /\ b.id # 0
         /\ ChatOfText(b.text) \in Chats /\ b.id \in DOMAIN server[ChatOfText(b.text)]
         /\ b.text = Text(ChatOfText(b.text), b.id)
         /\ b.text \in Written => b = SentBubble(b.text, AckedSerial(b.text))
                                   /\ outbox[b.text] = "gone" /\ b.cid = b.text
         /\ b.text \notin Written =>
              b = PeerBubble(b.text[1], b.text[2]) /\ b.cid \in Nat
<1>1. CASE IsPeers(b)
  <2>1. PICK d \in Chats : \E s \in DOMAIN server[d] :
                            server[d][s] = "peer" /\ b = PeerBubble(d, s)
    BY <1>1 DEF IsPeers
  <2>2. PICK s \in DOMAIN server[d] : server[d][s] = "peer" /\ b = PeerBubble(d, s)
    BY <2>1
  <2>3. s \in Nat /\ s # 0
    BY ChatsOfRows
  <2>4. b.text = <<d, s>> /\ b.text \notin Written /\ ChatOfText(b.text) = d
    BY <2>2, <2>3, HistoryAssumption DEF PeerBubble, ChatOfText
  <2> QED BY <2>2, <2>3, <2>4 DEF PeerBubble, Text
<1>2. CASE IsOwnSent(b)
  <2>1. PICK m \in Written : outbox[m] = "gone" /\ Acked(m) /\ b = SentBubble(m, AckedSerial(m))
    BY <1>2 DEF IsOwnSent
  <2> DEFINE s == AckedSerial(m)
  <2>2. s \in DOMAIN server[ChatOf[m]] /\ server[ChatOf[m]][s] = m /\ ChatOf[m] \in Chats
    BY <2>1, AckedIs, HistoryAssumption
  <2>3. s \in Nat /\ s # 0
    BY <2>2, ChatsOfRows
  <2>4. b.text = m /\ ChatOfText(b.text) = ChatOf[m] /\ Text(ChatOf[m], s) = m
    BY <2>1, <2>2, HistoryAssumption DEF SentBubble, ChatOfText, Text
  <2> QED BY <2>1, <2>2, <2>3, <2>4 DEF SentBubble
<1>3. ~IsUnsent(b)
  BY DEF IsUnsent, UnsentBubble
<1> QED BY <1>1, <1>2, <1>3 DEF Item

LEMMA UnsentItem ==
  ASSUME HistoryTypes, NEW b, Item(b), b.status # "sent"
  PROVE  /\ b.text \in Written /\ b.status \in {"sending", "failed"}
         /\ b = UnsentBubble(b.text, b.status)
         /\ b.id = b.text /\ b.cid = b.text /\ b.serial = 0
         /\ b.id \notin Nat /\ ChatOfText(b.text) = ChatOf[b.text]
         /\ b.status = "failed" => b.text \in failedOnce
<1>1. IsUnsent(b)
  BY DEF Item, IsPeers, IsOwnSent, PeerBubble, SentBubble
<1>2. PICK m \in Written, st \in {"sending", "failed"} :
        b = UnsentBubble(m, st) /\ (st = "failed" => m \in failedOnce)
  BY <1>1 DEF IsUnsent
<1> QED BY <1>2, HistoryAssumption DEF UnsentBubble, ChatOfText

\* The bubbles of a client id of one's own, while the message is not acked.
LEMMA OwnBubble ==
  ASSUME HistoryTypes, NEW b, Item(b), NEW m \in Written, outbox[m] # "gone",
         b.cid = m \/ b.text = m
  PROVE  /\ b.status # "sent" /\ b.cid = m /\ b.text = m /\ b = UnsentBubble(m, b.status)
         /\ b.status \in {"sending", "failed"}
<1>1. m \notin Nat
  BY HistoryAssumption
<1>2. b.status # "sent"
  BY <1>1, SentItem
<1> QED BY <1>2, UnsentItem

\* A text is shown in one way, but for one's own that is not acked and one that failed.
LEMMA SameText ==
  ASSUME HistoryTypes, NEW a, Item(a), NEW b, Item(b), a.text = b.text, a.text \notin failedOnce,
         a.status = "sending" => outbox[a.text] \in {"queued", "stored"},
         b.status = "sending" => outbox[b.text] \in {"queued", "stored"}
  PROVE  a = b
<1>1. CASE a.text \notin Written
  <2>1. a.status = "sent" /\ b.status = "sent"
    BY <1>1, UnsentItem
  <2> QED BY <1>1, <2>1, SentItem
<1>2. CASE a.text \in Written /\ a.status = "sent"
  <2>1. outbox[a.text] = "gone" /\ a = SentBubble(a.text, AckedSerial(a.text))
    BY <1>2, SentItem
  <2>2. b.status = "sent"
    BY <1>2, <2>1, UnsentItem
  <2> QED BY <1>2, <2>1, <2>2, SentItem
<1>3. CASE a.text \in Written /\ a.status # "sent"
  <2>1. a.status = "sending" /\ a = UnsentBubble(a.text, "sending")
    BY <1>3, UnsentItem
  <2>2. b.status # "sent"
    BY <1>3, <2>1, SentItem
  <2>3. b.status = "sending" /\ b = UnsentBubble(b.text, "sending")
    BY <2>2, UnsentItem
  <2> QED BY <2>1, <2>3
<1> QED BY <1>1, <1>2, <1>3

LEMMA SentRow ==
  ASSUME HistoryInv, NEW id \in DOMAIN table, table[id].status = "sent"
  PROVE  id \in Nat /\ id # 0
<1>1. PICK row : row = table[id]
  OBVIOUS
<1>2. Item(AsBubble(id, row)) /\ AsBubble(id, row).status = "sent" /\ AsBubble(id, row).id = id
  BY <1>1 DEF HistoryInv, TableInv, RowOK, ReadOK, AsBubble
<1>3. PICK b : b = AsBubble(id, row)
  OBVIOUS
<1> QED BY <1>2, <1>3, SentItem DEF HistoryInv

\* Two rows with one id, of chats of which at most one has a row of that serial.
LEMMA SameSerial ==
  ASSUME HistoryTypes, NEW a, Item(a), NEW b, Item(b), a.status = "sent", b.status = "sent",
         a.id = b.id, NEW c \in Chats, ~Collides(c, a.id)
  PROVE  a.text = b.text /\ a.text = Text(c, a.id)
<1>1. a.id \in DOMAIN server[ChatOfText(a.text)] /\ ChatOfText(a.text) \in Chats
  BY SentItem
<1>2. b.id \in DOMAIN server[ChatOfText(b.text)] /\ ChatOfText(b.text) \in Chats
  BY SentItem
<1>3. ChatOfText(a.text) = c /\ ChatOfText(b.text) = c
  BY <1>1, <1>2 DEF Collides
<1> QED BY <1>3, SentItem

-----------------------------------------------------------------------------
\* What every step keeps of the server, the outbox, the history and the table.

HistoryGrows ==
  /\ HistoryTypes /\ HistoryTypes'
  /\ \A c \in Chats : \A s \in DOMAIN server[c] :
       s \in DOMAIN server[c]' /\ server[c][s]' = server[c][s]
  /\ \A m \in Written :
       outbox[m] = "gone" /\ Acked(m) =>
         outbox[m]' = "gone" /\ Acked(m)' /\ AckedSerial(m)' = AckedSerial(m)
  /\ failedOnce \subseteq failedOnce'
  /\ restarts > 0 => restarts' > 0
  /\ DOMAIN table \subseteq DOMAIN table'

LEMMA ItemStays ==
  ASSUME HistoryGrows, NEW b, Item(b)
  PROVE  Item(b)'
<1>1. CASE IsPeers(b)
  <2>1. PICK d \in Chats : \E s \in DOMAIN server[d] :
                            server[d][s] = "peer" /\ b = PeerBubble(d, s)
    BY <1>1 DEF IsPeers
  <2>2. PICK s \in DOMAIN server[d] : server[d][s] = "peer" /\ b = PeerBubble(d, s)
    BY <2>1
  <2>3. s \in DOMAIN server[d]' /\ server[d][s]' = "peer"
    BY <2>2 DEF HistoryGrows
  <2> QED BY <2>2, <2>3 DEF Item, IsPeers, PeerBubble
<1>2. CASE IsOwnSent(b)
  <2>1. PICK m \in Written : outbox[m] = "gone" /\ Acked(m) /\ b = SentBubble(m, AckedSerial(m))
    BY <1>2 DEF IsOwnSent
  <2>2. outbox[m]' = "gone" /\ Acked(m)' /\ AckedSerial(m)' = AckedSerial(m)
    BY <2>1 DEF HistoryGrows
  <2> QED BY <2>1, <2>2 DEF Item, IsOwnSent, SentBubble
<1>3. CASE IsUnsent(b)
  BY <1>3 DEF Item, IsUnsent, UnsentBubble, HistoryGrows
<1> QED BY <1>1, <1>2, <1>3 DEF Item

LEMMA FitsStays ==
  ASSUME HistoryGrows, NEW c \in Chats, NEW b, Fits(c, b)
  PROVE  Fits(c, b)'
BY DEF HistoryGrows, Fits

LEMMA ReadStays ==
  ASSUME HistoryGrows, NEW c \in Chats, NEW b, ReadOK(c, b)
  PROVE  ReadOK(c, b)'
BY ItemStays, FitsStays DEF ReadOK, HistoryGrows

LEMMA BubbleStays ==
  ASSUME HistoryGrows, NEW c \in Chats, NEW b, BubbleOK(c, b),
         b.text \notin failedOnce' /\ b.status = "sending"
           => outbox[b.text]' \in {"queued", "stored"}
  PROVE  BubbleOK(c, b)'
<1>1. Item(b)' /\ Fits(c, b)'
  BY ItemStays, FitsStays DEF BubbleOK
<1>2. (ChatOfText(b.text) # c => restarts > 0)'
  BY DEF BubbleOK, HistoryGrows, ChatOfText
<1> QED BY <1>1, <1>2 DEF BubbleOK, HistoryGrows

LEMMA RowStays ==
  ASSUME HistoryGrows, NEW id, NEW row, RowOK(id, row)
  PROVE  RowOK(id, row)'
BY ReadStays DEF RowOK, AsBubble

\* What a hydration has read, and what it will add, when the table only gains rows the
\* lists show.
LEMMA LoadsStay ==
  ASSUME HistoryInv, HistoryGrows, loaded' = loaded,
         \A c \in Chats : \A b \in Shown(c) : b.status = "sent" => b \in Shown(c)',
         \A id \in DOMAIN table' : \A c \in Chats :
           table'[id].chat = c /\ table'[id].status = "sent" =>
             \/ id \in DOMAIN table /\ table[id].status = "sent" /\ table[id].chat = c
             \/ HasSerial(c, id)'
  PROVE  LoadsInv'
<1> SUFFICES ASSUME NEW c \in Chats PROVE LoadOK(c)'
  BY DEF LoadsInv
<1>1. LoadOK(c)
  BY DEF HistoryInv, LoadsInv
<1>2. ASSUME NEW b \in loaded[c].rows PROVE ReadOK(c, b)' /\ b.id \in DOMAIN table'
  BY <1>1, <1>2, ReadStays DEF LoadOK, HistoryGrows
<1>3. ASSUME NEW id, id \in Nat, id # 0, HasSerial(c, id) PROVE HasSerial(c, id)'
  <2>1. PICK b \in Shown(c) : b.serial = id
    BY <1>3 DEF HasSerial
  <2>2. Item(b)
    BY <2>1 DEF HistoryInv, BubblesInv, BubbleOK, Shown, BagToSet
  <2>3. b.status = "sent"
    BY <1>3, <2>1, <2>2, UnsentItem DEF HistoryInv
  <2> QED BY <2>1, <2>3 DEF HasSerial
<1>4. ASSUME loaded[c].pc \in {"hydrated", "loaded"},
             NEW id \in DOMAIN table', table'[id].chat = c, table'[id].status = "sent"
      PROVE  HasSerial(c, id)' \/ \E b \in loaded[c].rows : b.id = id
  <2>1. CASE id \in DOMAIN table /\ table[id].status = "sent" /\ table[id].chat = c
    <3>1. HasSerial(c, id) \/ \E b \in loaded[c].rows : b.id = id
      BY <1>1, <1>4, <2>1 DEF LoadOK
    <3>2. id \in Nat /\ id # 0
      BY <2>1, SentRow
    <3> QED BY <1>3, <3>1, <3>2
  <2> QED BY <1>4, <2>1
<1>5. loaded[c].pc # "hydrated" => restarts' > 0
  BY <1>1 DEF LoadOK, HistoryGrows
<1>6. loaded[c].pc # "loaded" => loaded[c].rows = {}
  BY <1>1 DEF LoadOK
<1> QED BY <1>2, <1>4, <1>5, <1>6 DEF LoadOK

\* Bubbles that may be written to the table of chat c.
Writable(c, b) ==
  /\ Item(b) /\ Fits(c, b) /\ b = AsBubble(b.id, Row(c, b))
  /\ b.status = "sent" => b.id \in Nat
  /\ b.status # "sent" => b.id = b.text /\ b.id \notin Nat /\ b.text \in failedOnce

LEMMA UpsertGrows ==
  ASSUME NEW c, NEW bs, table' = Upsert(table, c, bs)
  PROVE  /\ DOMAIN table \subseteq DOMAIN table' /\ \A b \in bs : b.id \in DOMAIN table'
         /\ \A id \in DOMAIN table' :
              \/ id \in DOMAIN table /\ table'[id] = table[id]
              \/ \E b \in bs :
                   /\ b.id = id
                   /\ table'[id] = Row(IF id \in DOMAIN table THEN table[id].chat ELSE c, b)
<1>1. /\ DOMAIN table' = DOMAIN table \cup {b.id : b \in bs}
      /\ \A id \in DOMAIN table' :
           table'[id] = IF \E b \in bs : b.id = id
                        THEN Row(IF id \in DOMAIN table THEN table[id].chat ELSE c,
                                 CHOOSE b \in bs : b.id = id)
                        ELSE table[id]
  BY DEF Upsert
<1>2. ASSUME NEW id \in DOMAIN table', \E b \in bs : b.id = id
      PROVE  \E b \in bs :
               /\ b.id = id
               /\ table'[id] = Row(IF id \in DOMAIN table THEN table[id].chat ELSE c, b)
  <2> DEFINE x == CHOOSE b \in bs : b.id = id
  <2>1. x \in bs /\ x.id = id
    BY <1>2
  <2>2. table'[id] = Row(IF id \in DOMAIN table THEN table[id].chat ELSE c, x)
    BY <1>1, <1>2
  <2> QED BY <2>1, <2>2
<1>3. \A id \in DOMAIN table' : ~(\E b \in bs : b.id = id) =>
        id \in DOMAIN table /\ table'[id] = table[id]
  BY <1>1
<1> QED BY <1>1, <1>2, <1>3

LEMMA UpsertKeeps ==
  ASSUME HistoryInv, HistoryGrows, NEW c \in Chats, NEW bs, table' = Upsert(table, c, bs),
         \A b \in bs : Writable(c, b)'
  PROVE  /\ TableInv'
         /\ \A id \in DOMAIN table' : \A d \in Chats :
              table'[id].chat = d /\ table'[id].status = "sent" =>
                \/ id \in DOMAIN table /\ table[id].status = "sent" /\ table[id].chat = d
                \/ d = c /\ \E b \in bs : b.id = id /\ b.status = "sent"
<1> SUFFICES ASSUME NEW id \in DOMAIN table', NEW row, row = table'[id]
             PROVE  /\ RowOK(id, row)'
                    /\ row.status = "sent" =>
                         \/ /\ id \in DOMAIN table /\ table[id].status = "sent"
                            /\ table[id].chat = row.chat
                         \/ row.chat = c /\ \E b \in bs : b.id = id /\ b.status = "sent"
  BY DEF TableInv
<1>1. CASE id \in DOMAIN table /\ row = table[id]
  <2>1. RowOK(id, row)
    BY <1>1 DEF HistoryInv, TableInv
  <2> QED BY <1>1, <2>1, RowStays
<1>2. ASSUME NEW b \in bs, b.id = id,
             row = Row(IF id \in DOMAIN table THEN table[id].chat ELSE c, b)
      PROVE  /\ RowOK(id, row)'
             /\ row.status = "sent" =>
                  \/ /\ id \in DOMAIN table /\ table[id].status = "sent"
                     /\ table[id].chat = row.chat
                  \/ row.chat = c /\ b.status = "sent"
  <2>1. /\ Item(b)' /\ Fits(c, b)' /\ b = AsBubble(id, Row(c, b))
        /\ b.status = "sent" => id \in Nat
        /\ b.status # "sent" => id = b.text /\ id \notin Nat /\ b.text \in failedOnce'
    BY <1>2 DEF Writable, AsBubble, Row
  <2>2. /\ AsBubble(id, row) = b /\ row.status = b.status
        /\ row.chat = IF id \in DOMAIN table THEN table[id].chat ELSE c
    BY <1>2, <2>1 DEF AsBubble, Row
  <2>3. CASE id \notin DOMAIN table
    <3>1. row.chat = c /\ ReadOK(c, b)'
      BY <2>1, <2>2, <2>3 DEF ReadOK
    <3> QED BY <2>2, <3>1 DEF RowOK
  <2>4. CASE id \in DOMAIN table
    <3>1. PICK o : o = table[id]
      OBVIOUS
    <3>2. PICK a : a = AsBubble(id, o)
      OBVIOUS
    <3>3. PICK d \in Chats : d = o.chat
      BY <2>4, <3>1 DEF HistoryInv, TableInv, RowOK
    <3>4. Item(a) /\ Fits(d, a)
      BY <2>4, <3>1, <3>2, <3>3 DEF HistoryInv, TableInv, RowOK, ReadOK
    <3>5. a.id = id /\ a.text = o.text /\ a.status = o.status
      BY <3>2 DEF AsBubble
    <3>6. a.status = "sent" => id \in Nat /\ a.serial = id
      BY <3>4, <3>5, SentItem DEF HistoryInv
    <3>7. a.status # "sent" => id \notin Nat /\ a.text = id
      BY <3>4, <3>5, UnsentItem DEF HistoryInv
    <3>8. b.status = "sent" <=> a.status = "sent"
      BY <2>1, <3>6, <3>7
    <3>9. Fits(d, a)'
      BY <3>4, FitsStays
    <3>10. b.status = "sent" => b.serial = id
      BY <2>1 DEF AsBubble, Row
    <3>11. Fits(d, b)'
      BY <2>1, <3>6, <3>7, <3>8, <3>9, <3>10 DEF Fits
    <3>12. ReadOK(d, b)' /\ row.chat = d
      BY <2>1, <2>2, <2>4, <3>1, <3>3, <3>11 DEF ReadOK
    <3> QED BY <2>2, <2>4, <3>1, <3>3, <3>5, <3>8, <3>12 DEF RowOK
  <2> QED BY <2>3, <2>4
<1>3. \/ id \in DOMAIN table /\ row = table[id]
      \/ \E b \in bs : /\ b.id = id
                       /\ row = Row(IF id \in DOMAIN table THEN table[id].chat ELSE c, b)
  BY UpsertGrows
<1> QED BY <1>1, <1>2, <1>3

LEMMA OwnStays ==
  ASSUME HistoryInv, HistoryGrows, NEW m \in Written, outbox'[m] = outbox[m],
         interrupted \subseteq interrupted', OwnBubbles(m) # {} => OwnBubbles(m)' # {}
  PROVE  OwnOK(m)'
<1>1. OwnOK(m)
  BY DEF HistoryInv, OwnInv
<1>2. Acked(m) => Acked(m)'
  <2> SUFFICES ASSUME Acked(m) PROVE Acked(m)'
    OBVIOUS
  <2>1. PICK s \in DOMAIN server[ChatOf[m]] : server[ChatOf[m]][s] = m
    BY DEF Acked
  <2>2. ChatOf[m] \in Chats
    BY HistoryAssumption
  <2>3. s \in DOMAIN server[ChatOf[m]]' /\ server[ChatOf[m]][s]' = m
    BY <2>1, <2>2 DEF HistoryGrows
  <2> QED BY <2>3 DEF Acked
<1>3. outbox[m] = "gone" /\ Acked(m) => AckedSerial(m)' = AckedSerial(m)
  BY DEF HistoryGrows
<1>4. m \notin failedOnce' \cup interrupted' => m \notin failedOnce \cup interrupted
  BY DEF HistoryGrows
<1>5. AckedSerial(m) \in DOMAIN table => AckedSerial(m) \in DOMAIN table'
  BY DEF HistoryGrows
<1> QED BY <1>1, <1>2, <1>3, <1>4, <1>5 DEF OwnOK

\* A bubble of m changes, while m is not acked: the conditions on the new one are those
\* of a confirmation, a failure and a retry.
Changes(m, old, new) ==
  /\ old \in OwnBubbles(m) /\ outbox[m] # "gone"
  /\ new.cid = m /\ new.text = m
  /\ Writable(ChatOf[m], new)'
  /\ failedOnce' \subseteq failedOnce \cup {m}
  /\ \A x \in Written \ {m} : outbox'[x] = outbox[x]
  /\ UNCHANGED <<loaded, interrupted>>

LEMMA SwapKeeps ==
  ASSUME HistoryInv, HistoryGrows, NEW m \in Written, NEW old, NEW new, Changes(m, old, new),
         Change(m, old, new)
  PROVE  BubblesInv'
<1> DEFINE k == ChatOf[m]
           K == Swapped(list[k], old, new)
<1>1. k \in Chats /\ list' = [list EXCEPT ![k] = K]
  BY HistoryAssumption DEF Change, Swapped
<1>2. list'[k] = K /\ \A c \in Chats : c # k => list'[c] = list[c]
  BY <1>1 DEF HistoryInv, HistoryTypes
<1>3. /\ old \in DOMAIN list[k] /\ old.cid = m /\ BubbleOK(k, old)
      /\ \A b \in DOMAIN list[k] : list[k][b] \in Nat \ {0}
  BY <1>1 DEF Changes, OwnBubbles, Shown, BagToSet, HistoryInv, BubblesInv
<1>4. old.text = m /\ old = UnsentBubble(m, old.status) /\ old.status \in {"sending", "failed"}
  BY <1>3, OwnBubble DEF Changes, HistoryInv, BubbleOK
<1>5. old.status = "failed" => m \in failedOnce
  BY <1>3, <1>4, UnsentItem DEF HistoryInv, BubbleOK
<1>6. /\ DOMAIN K \subseteq DOMAIN list[k] \cup {new}
      /\ \A e \in DOMAIN K : K[e] \in Nat \ {0}
      /\ \A e \in DOMAIN list[k] \ {old, new} : K[e] = list[k][e]
      /\ new \notin DOMAIN list[k] => K[new] = 1
      /\ list[k][old] = 1 /\ old # new => old \notin DOMAIN K
  BY <1>3, SwapBag
<1> HIDE DEF K
<1>7. ASSUME NEW c \in Chats, NEW b \in DOMAIN list'[c], b \in DOMAIN list[c],
             b # old \/ m \in failedOnce'
      PROVE  BubbleOK(c, b)'
  <2>1. BubbleOK(c, b)
    BY <1>7 DEF HistoryInv, BubblesInv
  <2>2. ASSUME b.text \notin failedOnce', b.status = "sending"
        PROVE  outbox[b.text]' \in {"queued", "stored"}
    <3>1. b.text \in Written /\ b = UnsentBubble(b.text, "sending")
      BY <2>1, <2>2, UnsentItem DEF HistoryInv, BubbleOK
    <3>2. CASE b.text # m
      <4>1. outbox[b.text] \in {"queued", "stored"}
        BY <2>1, <2>2 DEF BubbleOK, HistoryGrows
      <4> QED BY <3>1, <3>2, <4>1 DEF Changes
    <3>3. CASE b.text = m
      <4>1. m \notin failedOnce /\ m \notin failedOnce'
        BY <2>2, <3>3 DEF HistoryGrows
      <4> QED BY <1>4, <1>5, <1>7, <3>1, <3>3, <4>1
    <3> QED BY <3>2, <3>3
  <2> QED BY <2>1, <2>2, BubbleStays
<1>8. Item(new)' /\ Fits(k, new)' /\ (new.status # "sent" => m \in failedOnce') /\ new.text = m
  BY DEF Changes, Writable
<1>9. BubbleOK(k, new)'
  <2>1. new.id \in DOMAIN table'
    BY UpsertGrows DEF Change
  <2>2. ChatOfText(new.text) = k
    BY <1>8 DEF ChatOfText
  <2> QED BY <1>8, <2>1, <2>2 DEF BubbleOK, ChatOfText
<1>10. m \notin failedOnce' => new \notin DOMAIN list[k] /\ new # old
  BY <1>1, <1>4, <1>8, OwnBubble DEF Changes, HistoryInv, BubblesInv, BubbleOK
<1>11. ASSUME NEW b \in DOMAIN list'[k]
       PROVE  /\ BubbleOK(k, b)' /\ list'[k][b] \in Nat \ {0}
              /\ b.text \notin failedOnce' => list'[k][b] = 1
  <2>1. CASE b = new
    BY <1>2, <1>6, <1>8, <1>9, <1>10, <2>1
  <2>2. CASE b # new /\ b # old
    BY <1>1, <1>2, <1>6, <1>7, <2>2 DEF HistoryInv, BubblesInv, HistoryGrows
  <2>3. CASE b # new /\ b = old
    <3>1. m \in failedOnce'
      BY <1>1, <1>2, <1>3, <1>4, <1>6, <2>3 DEF HistoryInv, BubblesInv, HistoryGrows
    <3> QED BY <1>1, <1>2, <1>3, <1>4, <1>6, <1>7, <2>3, <3>1
  <2> QED BY <2>1, <2>2, <2>3
<1>12. ASSUME NEW c \in Chats, c # k, NEW b \in DOMAIN list'[c]
       PROVE  /\ BubbleOK(c, b)' /\ list'[c][b] \in Nat \ {0}
              /\ b.text \notin failedOnce' => list'[c][b] = 1
  <2>1. b \in DOMAIN list[c] /\ list'[c][b] = list[c][b] /\ BubbleOK(c, b)
    BY <1>2, <1>12 DEF HistoryInv, BubblesInv
  <2>2. b # old
    BY <1>4, <1>12, <2>1 DEF BubbleOK, Fits
  <2>3. BubbleOK(c, b)'
    BY <1>7, <2>1, <2>2
  <2> QED BY <2>1, <2>3 DEF HistoryInv, BubblesInv, HistoryGrows
<1>13. ASSUME NEW c \in Chats, NEW b \in DOMAIN list'[c]
       PROVE  /\ BubbleOK(c, b)' /\ list'[c][b] \in Nat \ {0}
              /\ b.text \notin failedOnce' => list'[c][b] = 1
  BY <1>11, <1>12
<1> QED BY <1>13 DEF BubblesInv

LEMMA ChangeKeeps ==
  ASSUME HistoryInv, HistoryGrows, NEW m \in Written, NEW old, NEW new, Changes(m, old, new),
         Change(m, old, new)
  PROVE  /\ BubblesInv' /\ TableInv' /\ LoadsInv'
         /\ \A x \in Written : x # m => OwnOK(x)'
         /\ new \in OwnBubbles(m)' /\ new.id \in DOMAIN table'
<1> DEFINE k == ChatOf[m]
           K == Swapped(list[k], old, new)
<1>1. k \in Chats /\ list' = [list EXCEPT ![k] = K] /\ table' = Upsert(table, k, {new})
  BY HistoryAssumption DEF Change, Swapped
<1>2. list'[k] = K /\ \A c \in Chats : c # k => list'[c] = list[c]
  BY <1>1 DEF HistoryInv, HistoryTypes
<1>3. /\ old \in DOMAIN list[k] /\ old.cid = m /\ BubbleOK(k, old)
      /\ \A b \in DOMAIN list[k] : list[k][b] \in Nat \ {0}
  BY <1>1 DEF Changes, OwnBubbles, Shown, BagToSet, HistoryInv, BubblesInv
<1>4. old.status # "sent"
  BY <1>3, OwnBubble DEF Changes, HistoryInv, BubbleOK
<1>5. DOMAIN list[k] \ {old} \subseteq DOMAIN K /\ new \in DOMAIN K
  BY <1>3, SwapBag
<1> HIDE DEF K
<1>6. \A c \in Chats : \A b \in Shown(c) : b # old => b \in Shown(c)'
  BY <1>2, <1>5 DEF Shown, BagToSet
<1>7. new \in Shown(k)'
  BY <1>2, <1>5 DEF Shown, BagToSet
<1>8. /\ TableInv'
      /\ \A id \in DOMAIN table' : \A d \in Chats :
           table'[id].chat = d /\ table'[id].status = "sent" =>
             \/ id \in DOMAIN table /\ table[id].status = "sent" /\ table[id].chat = d
             \/ d = k /\ new.id = id /\ new.status = "sent"
  <2>1. PICK bs : bs = {new}
    OBVIOUS
  <2>2. table' = Upsert(table, k, bs) /\ \A b \in bs : Writable(k, b)'
    BY <1>1, <2>1 DEF Changes
  <2>3. /\ TableInv'
        /\ \A id \in DOMAIN table' : \A d \in Chats :
             table'[id].chat = d /\ table'[id].status = "sent" =>
               \/ id \in DOMAIN table /\ table[id].status = "sent" /\ table[id].chat = d
               \/ d = k /\ \E b \in bs : b.id = id /\ b.status = "sent"
    BY <1>1, <2>2, UpsertKeeps
  <2> QED BY <2>1, <2>3
<1>9. new.status = "sent" => new.serial = new.id
  BY DEF Changes, Writable, AsBubble, Row
<1>10. LoadsInv'
  <2>1. ASSUME NEW id \in DOMAIN table', NEW c \in Chats, table'[id].chat = c,
               table'[id].status = "sent"
        PROVE  \/ id \in DOMAIN table /\ table[id].status = "sent" /\ table[id].chat = c
               \/ HasSerial(c, id)'
    <3>1. CASE c = k /\ new.id = id /\ new.status = "sent"
      <4>1. new \in Shown(c)' /\ new.serial = id
        BY <1>7, <1>9, <3>1
      <4> QED BY <4>1 DEF HasSerial
    <3> QED BY <1>8, <2>1, <3>1
  <2>2. loaded' = loaded
    BY DEF Changes
  <2>3. \A c \in Chats : \A b \in Shown(c) : b.status = "sent" => b \in Shown(c)'
    BY <1>4, <1>6
  <2> QED BY <2>1, <2>2, <2>3, LoadsStay
<1>11. ASSUME NEW x \in Written, x # m PROVE OwnOK(x)'
  <2>1. OwnBubbles(x) # {} => OwnBubbles(x)' # {}
    BY <1>3, <1>6, <1>11, HistoryAssumption DEF OwnBubbles
  <2>2. outbox'[x] = outbox[x] /\ interrupted \subseteq interrupted'
    BY <1>11 DEF Changes
  <2> QED BY <2>1, <2>2, OwnStays
<1>12. new \in OwnBubbles(m)'
  BY <1>7 DEF OwnBubbles, Changes
<1>13. new.id \in DOMAIN table'
  BY <1>1, UpsertGrows
<1> QED BY <1>8, <1>10, <1>11, <1>12, <1>13, SwapKeeps

-----------------------------------------------------------------------------
\* A step that leaves the server alone, and one that adds a row to it, keep what is there.

LEMMA GrowsAlone ==
  ASSUME HistoryInv, HistoryTypes', server' = server,
         \A m \in Written : outbox[m] = "gone" => outbox'[m] = "gone",
         failedOnce \subseteq failedOnce', restarts > 0 => restarts' > 0,
         DOMAIN table \subseteq DOMAIN table'
  PROVE  HistoryGrows
<1>1. \A m \in Written : Acked(m)' = Acked(m) /\ AckedSerial(m)' = AckedSerial(m)
  BY DEF Acked, AckedSerial
<1>2. HistoryTypes
  BY DEF HistoryInv
<1> QED BY <1>1, <1>2 DEF HistoryGrows

LEMMA GrowsByRow ==
  ASSUME HistoryInv, HistoryTypes', NEW c \in Chats, NEW x \in Written \cup {"peer"},
         server' = [server EXCEPT ![c] = Append(@, x)],
         \A m \in Written : outbox[m] = "gone" => outbox'[m] = "gone" /\ m # x,
         UNCHANGED <<table, failedOnce, restarts>>
  PROVE  HistoryGrows
<1>1. /\ server \in [Chats -> Seq(Written \cup {"peer"})]
      /\ server'[c] = Append(server[c], x)
      /\ \A d \in Chats : d # c => server'[d] = server[d]
  BY DEF HistoryInv, HistoryTypes
<1>2. ASSUME NEW d \in Chats, NEW s \in DOMAIN server[d]
      PROVE  s \in DOMAIN server'[d] /\ server'[d][s] = server[d][s]
  <2>1. CASE d = c
    <3>1. server[c] \in Seq(Written \cup {"peer"}) /\ s \in 1 .. Len(server[c])
      BY <1>1, <2>1
    <3> QED BY <1>1, <2>1, <3>1
  <2>2. CASE d # c
    BY <1>1, <2>2
  <2> QED BY <2>1, <2>2
<1>3. ASSUME NEW m \in Written, outbox[m] = "gone", Acked(m)
      PROVE  Acked(m)' /\ AckedSerial(m)' = AckedSerial(m)
  <2>1. ChatOf[m] \in Chats /\ m # x
    BY <1>3, HistoryAssumption
  <2>2. CASE ChatOf[m] # c
    BY <1>1, <1>3, <2>1, <2>2 DEF Acked, AckedSerial
  <2>3. CASE ChatOf[m] = c
    <3>1. PICK s : s = server[c]
      OBVIOUS
    <3>2. s \in Seq(Written \cup {"peer"}) /\ \E i \in DOMAIN s : s[i] = m
      BY <1>1, <1>3, <2>3, <3>1 DEF Acked
    <3>3. /\ \E i \in DOMAIN Append(s, x) : Append(s, x)[i] = m
          /\ LastOf(Append(s, x), m) = LastOf(s, m)
      BY <2>1, <3>2, LastStays
    <3>4. server'[c] = Append(s, x)
      BY <1>1, <3>1
    <3>5. Acked(m)'
      BY <2>3, <3>3, <3>4 DEF Acked
    <3>6. AckedSerial(m) = LastOf(s, m)
      BY <2>3, <3>1 DEF AckedSerial, LastOf
    <3>7. AckedSerial(m)' = LastOf(Append(s, x), m)
      BY <2>3, <3>4 DEF AckedSerial, LastOf
    <3> QED BY <3>3, <3>5, <3>6, <3>7
  <2> QED BY <2>2, <2>3
<1>4. HistoryTypes /\ (restarts > 0 => restarts' > 0)
  BY DEF HistoryInv
<1> QED BY <1>2, <1>3, <1>4 DEF HistoryGrows

\* Nothing of a device changes but, at most, what the outbox has stored.
LEMMA DeviceAlone ==
  ASSUME HistoryInv, HistoryGrows, UNCHANGED <<list, table, loaded, failedOnce>>,
         \A m \in Written :
           outbox[m] \in {"queued", "stored"} => outbox'[m] \in {"queued", "stored"}
  PROVE  BubblesInv' /\ TableInv' /\ LoadsInv'
<1>1. ASSUME NEW c \in Chats, NEW b \in DOMAIN list[c]
      PROVE  BubbleOK(c, b)'
  <2>1. BubbleOK(c, b)
    BY DEF HistoryInv, BubblesInv
  <2>2. b.status = "sending" => b.text \in Written
    BY <2>1, UnsentItem DEF HistoryInv, BubbleOK
  <2> QED BY <2>1, <2>2, BubbleStays DEF BubbleOK
<1>2. BubblesInv'
  BY <1>1 DEF HistoryInv, BubblesInv
<1>3. ASSUME NEW id \in DOMAIN table, NEW row, row = table[id] PROVE RowOK(id, row)'
  BY <1>3, RowStays DEF HistoryInv, TableInv
<1>4. TableInv'
  BY <1>3 DEF TableInv
<1>5. LoadsInv'
  BY LoadsStay DEF Shown
<1> QED BY <1>2, <1>4, <1>5

LEMMA PeerSendKeeps ==
  ASSUME HistoryInv, NEW c \in Chats, PeerSend(c)
  PROVE  HistoryInv'
<1>1. HistoryTypes'
  BY DEF HistoryInv, HistoryTypes, PeerSend
<1>2. HistoryGrows
  <2>1. PICK x \in Written \cup {"peer"} : x = "peer"
    OBVIOUS
  <2>2. /\ server' = [server EXCEPT ![c] = Append(@, x)]
        /\ \A m \in Written : outbox[m] = "gone" => outbox'[m] = "gone" /\ m # x
        /\ UNCHANGED <<table, failedOnce, restarts>>
    BY <2>1, HistoryAssumption DEF PeerSend
  <2> QED BY <1>1, <2>2, GrowsByRow
<1>3. BubblesInv' /\ TableInv' /\ LoadsInv'
  BY <1>2, DeviceAlone DEF PeerSend
<1>4. OwnInv'
  <2>1. ASSUME NEW m \in Written PROVE OwnOK(m)'
    BY <1>2, OwnStays DEF PeerSend, OwnBubbles, Shown
  <2> QED BY <2>1 DEF OwnInv
<1> QED BY <1>1, <1>3, <1>4 DEF HistoryInv

LEMMA RowStoredKeeps ==
  ASSUME HistoryInv, NEW m \in Written, Stored(m)
  PROVE  HistoryInv'
<1>1. ChatOf[m] \in Chats /\ outbox \in [Written -> {"none", "queued", "stored", "dead", "gone"}]
  BY HistoryAssumption DEF HistoryInv, HistoryTypes
<1>2. HistoryTypes'
  BY <1>1 DEF HistoryInv, HistoryTypes, Stored
<1>3. HistoryGrows
  BY <1>1, <1>2, GrowsByRow DEF Stored
<1>4. BubblesInv' /\ TableInv' /\ LoadsInv'
  BY <1>1, <1>3, DeviceAlone DEF Stored
<1>5. ASSUME NEW x \in Written, x # m PROVE OwnOK(x)'
  BY <1>1, <1>3, <1>5, OwnStays DEF Stored, OwnBubbles, Shown
<1>6. OwnOK(m)'
  <2>1. Acked(m)'
    <3>1. /\ server[ChatOf[m]] \in Seq(Written \cup {"peer"})
          /\ server'[ChatOf[m]] = Append(server[ChatOf[m]], m)
      BY <1>1 DEF HistoryInv, HistoryTypes, Stored
    <3>2. \E s \in DOMAIN server'[ChatOf[m]] : server'[ChatOf[m]][s] = m
      <4> DEFINE n == Len(server[ChatOf[m]]) + 1
      <4>1. n \in DOMAIN server'[ChatOf[m]] /\ server'[ChatOf[m]][n] = m
        BY <3>1
      <4> QED BY <4>1
    <3> QED BY <3>2 DEF Acked
  <2>2. outbox[m] = "queued" /\ outbox'[m] = "stored" /\ OwnBubbles(m)' = OwnBubbles(m)
        /\ failedOnce' = failedOnce /\ interrupted' = interrupted
    BY <1>1 DEF Stored, OwnBubbles, Shown
  <2>3. OwnOK(m)
    BY DEF HistoryInv, OwnInv
  <2> QED BY <2>1, <2>2, <2>3 DEF OwnOK
<1>7. OwnInv'
  BY <1>5, <1>6 DEF OwnInv
<1> QED BY <1>2, <1>4, <1>7 DEF HistoryInv

\* Bubbles are added to the list of k: those that stand there stay, and so does what a
\* message's author has of it.
LEMMA AddedKeeps ==
  ASSUME HistoryInv, HistoryGrows, NEW k \in Chats, NEW bs,
         list' = [list EXCEPT ![k] = Added(list[k], bs)],
         \A x \in Written : outbox'[x] = outbox[x] \/ outbox[x] = "none",
         UNCHANGED <<failedOnce, interrupted>>,
         \A b \in bs : b \notin DOMAIN list[k] /\ BubbleOK(k, b)'
  PROVE  /\ BubblesInv' /\ bs \subseteq Shown(k)'
         /\ \A x \in Written : outbox'[x] = outbox[x] => OwnOK(x)'
         /\ \A c \in Chats : \A b \in Shown(c) : b \in Shown(c)'
<1>1. list'[k] = Added(list[k], bs) /\ \A c \in Chats : c # k => list'[c] = list[c]
  BY DEF HistoryInv, HistoryTypes
<1>2. \A e \in DOMAIN list[k] : list[k][e] \in Nat \ {0}
  BY DEF HistoryInv, BubblesInv
<1>3. /\ DOMAIN list'[k] = DOMAIN list[k] \cup bs
      /\ \A e \in DOMAIN list[k] : list'[k][e] = list[k][e]
      /\ \A e \in bs : list'[k][e] = 1
  <2>1. PICK L : L = list[k]
    OBVIOUS
  <2>2. /\ DOMAIN Added(L, bs) = DOMAIN L \cup bs
        /\ \A e \in DOMAIN L : e \notin bs /\ L[e] \in Nat \ {0} => Added(L, bs)[e] = L[e]
        /\ \A e \in bs : e \notin DOMAIN L => Added(L, bs)[e] = 1
    BY DEF Added, (+), SetToBag
  <2> QED BY <1>1, <1>2, <2>1, <2>2
<1>4. ASSUME NEW c \in Chats, NEW b \in DOMAIN list[c] PROVE BubbleOK(c, b)'
  <2>1. BubbleOK(c, b)
    BY DEF HistoryInv, BubblesInv
  <2>2. b.status = "sending" => b.text \in Written
    BY <2>1, UnsentItem DEF HistoryInv, BubbleOK
  <2> QED BY <2>1, <2>2, BubbleStays DEF BubbleOK
<1>5. ASSUME NEW c \in Chats, NEW b \in DOMAIN list'[c]
      PROVE  /\ BubbleOK(c, b)' /\ list'[c][b] \in Nat \ {0}
             /\ b.text \notin failedOnce' => list'[c][b] = 1
  <2>1. CASE b \in DOMAIN list[c]
    <3>1. list'[c][b] = list[c][b]
      BY <1>1, <1>3, <2>1
    <3> QED BY <1>4, <2>1, <3>1 DEF HistoryInv, BubblesInv
  <2>2. CASE b \notin DOMAIN list[c]
    <3>1. c = k /\ b \in bs
      BY <1>1, <1>3, <1>5, <2>2
    <3> QED BY <1>3, <3>1
  <2> QED BY <2>1, <2>2
<1>6. /\ \A c \in Chats : \A b \in Shown(c) : b \in Shown(c)'
      /\ bs \subseteq Shown(k)'
  BY <1>1, <1>3 DEF Shown, BagToSet
<1>7. ASSUME NEW x \in Written, outbox'[x] = outbox[x] PROVE OwnOK(x)'
  <2>1. OwnBubbles(x) # {} => OwnBubbles(x)' # {}
    BY <1>6, HistoryAssumption DEF OwnBubbles
  <2> QED BY <1>7, <2>1, OwnStays
<1> QED BY <1>5, <1>6, <1>7 DEF BubblesInv

LEMMA ComposeKeeps ==
  ASSUME HistoryInv, NEW m \in Written, Compose(m)
  PROVE  HistoryInv'
<1> DEFINE k == ChatOf[m]
<1>1. /\ k \in Chats /\ outbox \in [Written -> {"none", "queued", "stored", "dead", "gone"}]
      /\ outbox[m] = "none" /\ outbox' = [outbox EXCEPT ![m] = "queued"]
      /\ UNCHANGED <<server, table, loaded, retries, restarts, failedOnce, interrupted>>
  BY HistoryAssumption DEF HistoryInv, HistoryTypes, Compose
<1>2. PICK bs : bs = {Optimistic(m)}
  OBVIOUS
<1>3. list' = [list EXCEPT ![k] = Added(list[k], bs)]
  BY <1>2 DEF Compose, Added
<1>4. HistoryTypes'
  BY <1>1, <1>3 DEF HistoryInv, HistoryTypes
<1>5. HistoryGrows
  BY <1>1, <1>4, GrowsAlone
<1>6. ASSUME NEW b \in bs
      PROVE  b \notin DOMAIN list[k] /\ BubbleOK(k, b)' /\ b.cid = m
  <2>1. b = UnsentBubble(m, "sending") /\ b.text = m /\ b.status = "sending" /\ b.cid = m
    BY <1>2 DEF Optimistic, UnsentBubble
  <2>2. b \notin DOMAIN list[k]
    BY <2>1 DEF Compose, OwnBubbles, Shown, BagToSet
  <2>3. Item(b)'
    BY <2>1 DEF Item, IsUnsent, UnsentBubble
  <2> QED BY <1>1, <2>1, <2>2, <2>3 DEF BubbleOK, Fits, ChatOfText
<1>7. /\ BubblesInv' /\ bs \subseteq Shown(k)'
      /\ \A x \in Written : outbox'[x] = outbox[x] => OwnOK(x)'
      /\ \A c \in Chats : \A b \in Shown(c) : b \in Shown(c)'
  BY <1>1, <1>3, <1>4, <1>5, <1>6, AddedKeeps
<1>8. TableInv'
  <2>1. ASSUME NEW id \in DOMAIN table, NEW row, row = table[id] PROVE RowOK(id, row)'
    BY <1>5, <2>1, RowStays DEF HistoryInv, TableInv
  <2> QED BY <1>1, <2>1 DEF TableInv
<1>9. LoadsInv'
  BY <1>1, <1>5, <1>7, LoadsStay
<1>10. OwnOK(m)'
  <2>1. OwnBubbles(m)' # {}
    BY <1>2, <1>6, <1>7 DEF OwnBubbles
  <2> QED BY <1>1, <2>1 DEF OwnOK
<1>11. OwnInv'
  BY <1>1, <1>7, <1>10 DEF OwnInv
<1> QED BY <1>4, <1>7, <1>8, <1>9, <1>11 DEF HistoryInv

LEMMA UnsentIsWritable ==
  ASSUME NEW m \in Written, NEW b, b.status \in {"sending", "failed"},
         b = UnsentBubble(m, b.status), m \in failedOnce'
  PROVE  Writable(ChatOf[m], b)'
<1>1. PICK st \in {"sending", "failed"} : st = b.status /\ b = UnsentBubble(m, st)
  OBVIOUS
<1>2. /\ b.text = m /\ b.cid = m /\ b.status = st /\ b.id = m /\ b.serial = 0
      /\ b = AsBubble(b.id, Row(ChatOf[m], b))
  BY <1>1 DEF UnsentBubble, AsBubble, Row
<1>3. Item(b)'
  BY <1>1 DEF Item, IsUnsent, UnsentBubble
<1> QED BY <1>2, <1>3, HistoryAssumption DEF Writable, Fits, AsBubble, Row

LEMMA ConfirmKeeps ==
  ASSUME HistoryInv, NEW m \in Written, Confirm(m)
  PROVE  HistoryInv'
<1> DEFINE k == ChatOf[m]
           s == AckedSerial(m)
<1>1. /\ k \in Chats /\ outbox \in [Written -> {"none", "queued", "stored", "dead", "gone"}]
      /\ outbox[m] = "stored" /\ outbox' = [outbox EXCEPT ![m] = "gone"]
      /\ UNCHANGED <<server, loaded, retries, restarts, failedOnce, interrupted>>
  BY HistoryAssumption DEF HistoryInv, HistoryTypes, Confirm
<1>2. OwnOK(m) /\ Acked(m)
  BY <1>1 DEF HistoryInv, OwnInv, OwnOK
<1>3. /\ Acked(m)' /\ AckedSerial(m)' = s
      /\ s \in DOMAIN server[k] /\ s \in Nat
  BY <1>1, <1>2, AckedIs, ChatsOfRows DEF Acked, AckedSerial, HistoryInv
<1>4. HistoryTypes' /\ \A x \in Written : outbox[x] = "gone" => outbox'[x] = "gone"
  <2>1. list' = [c \in Chats |-> list'[c]]
    BY DEF Confirm, Change, HistoryInv, HistoryTypes
  <2> QED BY <1>1, <2>1 DEF HistoryInv, HistoryTypes
<1>5. CASE OwnBubbles(m) = {}
  <2>1. UNCHANGED <<list, table>>
    BY <1>5 DEF Confirm
  <2>2. HistoryGrows
    BY <1>1, <1>4, <2>1, GrowsAlone
  <2>3. ASSUME NEW c \in Chats, NEW b \in DOMAIN list[c] PROVE BubbleOK(c, b)'
    <3>1. BubbleOK(c, b)
      BY DEF HistoryInv, BubblesInv
    <3>2. ASSUME b.status = "sending" PROVE b.text \in Written /\ b.text # m
      BY <1>1, <1>5, <3>1, <3>2, UnsentItem
      DEF HistoryInv, BubbleOK, Fits, OwnBubbles, Shown, BagToSet
    <3> QED BY <1>1, <2>2, <3>1, <3>2, BubbleStays DEF BubbleOK
  <2>4. BubblesInv'
    BY <1>1, <2>1, <2>3 DEF HistoryInv, BubblesInv
  <2>5. TableInv'
    <3>1. ASSUME NEW id \in DOMAIN table, NEW row, row = table[id] PROVE RowOK(id, row)'
      BY <2>2, <3>1, RowStays DEF HistoryInv, TableInv
    <3> QED BY <2>1, <3>1 DEF TableInv
  <2>6. LoadsInv'
    BY <1>1, <2>1, <2>2, LoadsStay DEF Shown
  <2>7. ASSUME NEW x \in Written, x # m PROVE OwnOK(x)'
    BY <1>1, <2>1, <2>2, <2>7, OwnStays DEF OwnBubbles, Shown
  <2>8. OwnOK(m)'
    BY <1>1, <1>2, <1>3, <1>5 DEF OwnOK
  <2>9. OwnInv'
    BY <2>7, <2>8 DEF OwnInv
  <2> QED BY <1>4, <2>4, <2>5, <2>6, <2>9 DEF HistoryInv
<1>6. CASE OwnBubbles(m) # {}
  <2>1. PICK b \in OwnBubbles(m) : Change(m, b, Confirmed(b, s))
    BY <1>6 DEF Confirm
  <2>2. Item(b) /\ b.cid = m
    BY <1>1 DEF OwnBubbles, Shown, BagToSet, HistoryInv, BubblesInv, BubbleOK
  <2>3. b = UnsentBubble(m, b.status)
    BY <1>1, <2>2, OwnBubble DEF HistoryInv
  <2>4. PICK new : new = SentBubble(m, s)
    OBVIOUS
  <2>5. Change(m, b, new)
    <3>1. PICK st : b = [id |-> m, text |-> m, serial |-> 0, status |-> st, cid |-> m]
      BY <2>3 DEF UnsentBubble
    <3>2. PICK d : d = [b EXCEPT !.id = s]
      OBVIOUS
    <3>3. d = [id |-> s, text |-> m, serial |-> 0, status |-> st, cid |-> m]
      BY <3>1, <3>2
    <3>4. PICK e : e = [d EXCEPT !.status = "sent"]
      OBVIOUS
    <3>5. e = [id |-> s, text |-> m, serial |-> 0, status |-> "sent", cid |-> m]
      BY <3>3, <3>4
    <3>6. [e EXCEPT !.serial = s] = new
      BY <2>4, <3>5 DEF SentBubble
    <3> QED BY <2>1, <3>2, <3>4, <3>6 DEF Confirmed
  <2>6. HistoryGrows
    <3>1. DOMAIN table \subseteq DOMAIN table'
      BY <2>5, UpsertGrows DEF Change
    <3> QED BY <1>1, <1>4, <3>1, GrowsAlone
  <2>7. Writable(k, new)'
    <3>1. /\ new.text = m /\ new.cid = m /\ new.status = "sent" /\ new.id = s /\ new.serial = s
          /\ new = AsBubble(new.id, Row(k, new))
      BY <2>4 DEF SentBubble, AsBubble, Row
    <3>2. Item(new)'
      BY <1>1, <1>3, <2>4 DEF Item, IsOwnSent, SentBubble
    <3>3. Fits(k, new)'
      BY <1>1, <1>3, <3>1 DEF Fits
    <3> QED BY <1>3, <3>1, <3>2, <3>3 DEF Writable, AsBubble, Row
  <2>8. Changes(m, b, new)
    BY <1>1, <2>4, <2>7 DEF Changes, SentBubble
  <2>9. /\ BubblesInv' /\ TableInv' /\ LoadsInv'
        /\ \A x \in Written : x # m => OwnOK(x)'
        /\ new.id \in DOMAIN table'
    BY <2>5, <2>6, <2>8, ChangeKeeps
  <2>10. OwnOK(m)'
    BY <1>1, <1>3, <2>4, <2>9 DEF OwnOK, SentBubble
  <2>11. OwnInv'
    BY <2>9, <2>10 DEF OwnInv
  <2> QED BY <1>4, <2>9, <2>11 DEF HistoryInv
<1> QED BY <1>5, <1>6

LEMMA FailKeeps ==
  ASSUME HistoryInv, NEW m \in Written, Fail(m)
  PROVE  HistoryInv'
<1> DEFINE k == ChatOf[m]
<1>1. /\ k \in Chats /\ outbox \in [Written -> {"none", "queued", "stored", "dead", "gone"}]
      /\ outbox[m] \in {"queued", "stored"} /\ outbox' = [outbox EXCEPT ![m] = "dead"]
      /\ UNCHANGED <<server, loaded, retries, restarts, interrupted>>
      /\ failedOnce \subseteq failedOnce' /\ failedOnce' \subseteq failedOnce \cup {m}
  BY HistoryAssumption DEF HistoryInv, HistoryTypes, Fail
<1>2. OwnOK(m)
  BY DEF HistoryInv, OwnInv
<1>3. HistoryTypes' /\ \A x \in Written : outbox[x] = "gone" => outbox'[x] = "gone"
  <2>1. list' = [c \in Chats |-> list'[c]]
    BY DEF Fail, Change, HistoryInv, HistoryTypes
  <2> QED BY <1>1, <2>1 DEF HistoryInv, HistoryTypes
<1>4. CASE OwnBubbles(m) = {}
  <2>1. UNCHANGED <<list, table, failedOnce>>
    BY <1>4 DEF Fail
  <2>2. HistoryGrows
    BY <1>1, <1>3, <2>1, GrowsAlone
  <2>3. ASSUME NEW c \in Chats, NEW b \in DOMAIN list[c] PROVE BubbleOK(c, b)'
    <3>1. BubbleOK(c, b)
      BY DEF HistoryInv, BubblesInv
    <3>2. ASSUME b.status = "sending" PROVE b.text \in Written /\ b.text # m
      BY <1>1, <1>4, <3>1, <3>2, UnsentItem
      DEF HistoryInv, BubbleOK, Fits, OwnBubbles, Shown, BagToSet
    <3> QED BY <1>1, <2>1, <2>2, <3>1, <3>2, BubbleStays DEF BubbleOK
  <2>4. BubblesInv'
    BY <1>1, <2>1, <2>3 DEF HistoryInv, BubblesInv
  <2>5. TableInv'
    <3>1. ASSUME NEW id \in DOMAIN table, NEW row, row = table[id] PROVE RowOK(id, row)'
      BY <2>2, <3>1, RowStays DEF HistoryInv, TableInv
    <3> QED BY <2>1, <3>1 DEF TableInv
  <2>6. LoadsInv'
    BY <1>1, <2>1, <2>2, LoadsStay DEF Shown
  <2>7. ASSUME NEW x \in Written, x # m PROVE OwnOK(x)'
    BY <1>1, <2>1, <2>2, <2>7, OwnStays DEF OwnBubbles, Shown
  <2>8. OwnOK(m)'
    BY <1>1, <1>2, <1>4, <2>1 DEF OwnOK
  <2>9. OwnInv'
    BY <2>7, <2>8 DEF OwnInv
  <2> QED BY <1>3, <2>4, <2>5, <2>6, <2>9 DEF HistoryInv
<1>5. CASE OwnBubbles(m) # {}
  <2>1. PICK b \in OwnBubbles(m) :
          IF b.status = "sent" THEN UNCHANGED <<list, table, failedOnce>>
          ELSE /\ Change(m, b, [b EXCEPT !.status = "failed"])
               /\ failedOnce' = failedOnce \cup {m}
    BY <1>5 DEF Fail
  <2>2. Item(b) /\ b.cid = m
    BY <1>1 DEF OwnBubbles, Shown, BagToSet, HistoryInv, BubblesInv, BubbleOK
  <2>3. b = UnsentBubble(m, b.status) /\ b.status # "sent"
    BY <1>1, <2>2, OwnBubble DEF HistoryInv
  <2>4. PICK new : new = UnsentBubble(m, "failed")
    OBVIOUS
  <2>5. Change(m, b, new) /\ m \in failedOnce'
    <3>1. [b EXCEPT !.status = "failed"] = new
      BY <2>3, <2>4 DEF UnsentBubble
    <3> QED BY <2>1, <2>3, <3>1
  <2>6. HistoryGrows
    <3>1. DOMAIN table \subseteq DOMAIN table'
      BY <2>5, UpsertGrows DEF Change
    <3> QED BY <1>1, <1>3, <3>1, GrowsAlone
  <2>7. Changes(m, b, new)
    <3>1. new.status = "failed" /\ new.text = m /\ new.cid = m /\ new = UnsentBubble(m, new.status)
      BY <2>4 DEF UnsentBubble
    <3>2. Writable(k, new)'
      BY <1>1, <2>5, <3>1, UnsentIsWritable
    <3> QED BY <1>1, <3>1, <3>2 DEF Changes
  <2>8. /\ BubblesInv' /\ TableInv' /\ LoadsInv'
        /\ \A x \in Written : x # m => OwnOK(x)'
    BY <2>5, <2>6, <2>7, ChangeKeeps
  <2>9. OwnOK(m)'
    BY <1>1, <2>5 DEF OwnOK
  <2>10. OwnInv'
    BY <2>8, <2>9 DEF OwnInv
  <2> QED BY <1>3, <2>8, <2>10 DEF HistoryInv
<1> QED BY <1>4, <1>5

LEMMA RetryKeeps ==
  ASSUME HistoryInv, NEW m \in Written, Retry(m)
  PROVE  HistoryInv'
<1>1. /\ ChatOf[m] \in Chats /\ outbox \in [Written -> {"none", "queued", "stored", "dead", "gone"}]
      /\ outbox[m] = "dead" /\ outbox' = [outbox EXCEPT ![m] = "queued"]
      /\ UNCHANGED <<server, loaded, restarts, failedOnce, interrupted>>
  BY HistoryAssumption DEF HistoryInv, HistoryTypes, Retry
<1>2. PICK b \in OwnBubbles(m) :
        b.status = "failed" /\ Change(m, b, [b EXCEPT !.status = "sending"])
  BY DEF Retry
<1>3. Item(b) /\ b.cid = m
  BY <1>1 DEF OwnBubbles, Shown, BagToSet, HistoryInv, BubblesInv, BubbleOK
<1>4. b = UnsentBubble(m, b.status) /\ b.text = m
  BY <1>1, <1>3, OwnBubble DEF HistoryInv
<1>5. m \in failedOnce
  BY <1>2, <1>3, <1>4, UnsentItem DEF HistoryInv
<1>6. HistoryTypes' /\ \A x \in Written : outbox[x] = "gone" => outbox'[x] = "gone"
  <2>1. list' = [c \in Chats |-> list'[c]]
    BY <1>2 DEF Change, HistoryInv, HistoryTypes
  <2> QED BY <1>1, <2>1 DEF HistoryInv, HistoryTypes
<1>7. PICK new : new = UnsentBubble(m, "sending")
  OBVIOUS
<1>8. Change(m, b, new)
  <2>1. [b EXCEPT !.status = "sending"] = new
    BY <1>4, <1>7 DEF UnsentBubble
  <2> QED BY <1>2, <2>1
<1>9. HistoryGrows
  <2>1. DOMAIN table \subseteq DOMAIN table'
    BY <1>8, UpsertGrows DEF Change
  <2> QED BY <1>1, <1>6, <2>1, GrowsAlone
<1>10. Changes(m, b, new)
  <2>1. new.status = "sending" /\ new.text = m /\ new.cid = m /\ new = UnsentBubble(m, new.status)
    BY <1>7 DEF UnsentBubble
  <2>2. Writable(ChatOf[m], new)'
    BY <1>1, <1>5, <2>1, UnsentIsWritable
  <2> QED BY <1>1, <2>1, <2>2 DEF Changes
<1>11. /\ BubblesInv' /\ TableInv' /\ LoadsInv'
       /\ \A x \in Written : x # m => OwnOK(x)'
  BY <1>8, <1>9, <1>10, ChangeKeeps
<1>12. OwnOK(m)'
  BY <1>1, <1>5 DEF OwnOK
<1>13. OwnInv'
  BY <1>11, <1>12 DEF OwnInv
<1> QED BY <1>6, <1>11, <1>13 DEF HistoryInv

LEMMA DeleteKeeps ==
  ASSUME HistoryInv, NEW m \in Written, Delete(m)
  PROVE  HistoryInv'
<1> DEFINE k == ChatOf[m]
<1>1. /\ k \in Chats /\ outbox \in [Written -> {"none", "queued", "stored", "dead", "gone"}]
      /\ outbox[m] = "dead" /\ outbox' = [outbox EXCEPT ![m] = "gone"]
      /\ UNCHANGED <<server, table, loaded, retries, restarts, failedOnce, interrupted>>
  BY HistoryAssumption DEF HistoryInv, HistoryTypes, Delete
<1>2. /\ DOMAIN list'[k] = DOMAIN list[k] \ OwnBubbles(m)
      /\ \A b \in DOMAIN list'[k] : list'[k][b] = list[k][b]
      /\ \A c \in Chats : c # k => list'[c] = list[c]
      /\ list' = [c \in Chats |-> list'[c]]
  BY <1>1 DEF HistoryInv, HistoryTypes, Delete, Shown, BagToSet
<1>3. ASSUME NEW b \in OwnBubbles(m) PROVE b.status # "sent" /\ b = UnsentBubble(m, b.status)
                                        /\ (b.status = "failed" => m \in failedOnce)
  <2>1. Item(b) /\ b.cid = m
    BY <1>1 DEF OwnBubbles, Shown, BagToSet, HistoryInv, BubblesInv, BubbleOK
  <2>2. b.text = m /\ b.status # "sent" /\ b = UnsentBubble(m, b.status)
    BY <1>1, <2>1, OwnBubble DEF HistoryInv
  <2> QED BY <2>1, <2>2, UnsentItem DEF HistoryInv
<1>4. m \in failedOnce
  BY <1>3 DEF Delete
<1>5. HistoryTypes'
  BY <1>1, <1>2 DEF HistoryInv, HistoryTypes
<1>6. HistoryGrows
  BY <1>1, <1>5, GrowsAlone
<1>7. ASSUME NEW c \in Chats, NEW b \in DOMAIN list'[c]
      PROVE  /\ BubbleOK(c, b)' /\ list'[c][b] \in Nat \ {0}
             /\ b.text \notin failedOnce' => list'[c][b] = 1
  <2>1. b \in DOMAIN list[c] /\ list'[c][b] = list[c][b]
    BY <1>2, <1>7
  <2>2. BubbleOK(c, b)
    BY <2>1 DEF HistoryInv, BubblesInv
  <2>3. b.status = "sending" => b.text \in Written
    BY <2>2, UnsentItem DEF HistoryInv, BubbleOK
  <2>4. BubbleOK(c, b)'
    BY <1>1, <1>4, <1>6, <2>2, <2>3, BubbleStays DEF BubbleOK
  <2> QED BY <1>1, <2>1, <2>4 DEF HistoryInv, BubblesInv
<1>8. BubblesInv'
  BY <1>7 DEF BubblesInv
<1>9. TableInv'
  <2>1. ASSUME NEW id \in DOMAIN table, NEW row, row = table[id] PROVE RowOK(id, row)'
    BY <1>6, <2>1, RowStays DEF HistoryInv, TableInv
  <2> QED BY <1>1, <2>1 DEF TableInv
<1>10. \A c \in Chats : \A b \in Shown(c) : b \notin OwnBubbles(m) => b \in Shown(c)'
  BY <1>2 DEF Shown, BagToSet
<1>11. LoadsInv'
  BY <1>1, <1>3, <1>6, <1>10, LoadsStay
<1>12. ASSUME NEW x \in Written, x # m PROVE OwnOK(x)'
  <2>1. OwnBubbles(x) # {} => OwnBubbles(x)' # {}
    BY <1>10, <1>12, HistoryAssumption DEF OwnBubbles
  <2> QED BY <1>1, <1>6, <1>12, <2>1, OwnStays
<1>13. OwnOK(m)'
  BY <1>1, <1>4 DEF OwnOK
<1>14. OwnInv'
  BY <1>12, <1>13 DEF OwnInv
<1> QED BY <1>5, <1>8, <1>9, <1>11, <1>14 DEF HistoryInv

LEMMA ReceiveRowsKeeps ==
  ASSUME HistoryInv, NEW c \in Chats, NEW got \in SUBSET PeerRows(c), ReceiveRows(c, got)
  PROVE  HistoryInv'
<1>1. PICK new : new = {Received(c, s) : s \in {x \in got : ~HasSerial(c, x)}}
  OBVIOUS
<1>2. /\ list' = [list EXCEPT ![c] = Added(list[c], new)] /\ table' = Upsert(table, c, new)
      /\ UNCHANGED <<server, outbox, loaded, retries, restarts, failedOnce, interrupted>>
  BY <1>1 DEF ReceiveRows, Added
<1>3. ASSUME NEW b \in new
      PROVE  \E s \in DOMAIN server[c] :
               /\ server[c][s] = "peer" /\ ~HasSerial(c, s) /\ b = PeerBubble(c, s)
               /\ s \in Nat
  <2>1. PICK s \in got : ~HasSerial(c, s) /\ b = Received(c, s)
    BY <1>1
  <2>2. s \in DOMAIN server[c] /\ server[c][s] = "peer"
    BY DEF PeerRows
  <2>3. b = PeerBubble(c, s)
    BY <2>1, <2>2 DEF Received, Text, PeerBubble
  <2> QED BY <2>1, <2>2, <2>3, ChatsOfRows DEF HistoryInv
<1>4. HistoryTypes'
  BY <1>2 DEF HistoryInv, HistoryTypes
<1>5. HistoryGrows
  BY <1>2, <1>4, GrowsAlone, UpsertGrows
<1>6. ASSUME NEW b \in new
      PROVE  /\ b \notin DOMAIN list[c] /\ BubbleOK(c, b)' /\ Writable(c, b)'
             /\ b.status = "sent" /\ b.serial = b.id
  <2>1. PICK s \in DOMAIN server[c] :
          server[c][s] = "peer" /\ ~HasSerial(c, s) /\ b = PeerBubble(c, s) /\ s \in Nat
    BY <1>3
  <2>2. /\ b.text = <<c, s>> /\ b.status = "sent" /\ b.id = s /\ b.serial = s
        /\ b = AsBubble(b.id, Row(c, b))
    BY <2>1 DEF PeerBubble, AsBubble, Row
  <2>3. b \notin DOMAIN list[c]
    BY <2>1, <2>2 DEF HasSerial, Shown, BagToSet
  <2>4. Item(b)'
    BY <1>2, <2>1 DEF Item, IsPeers, PeerBubble
  <2>5. Fits(c, b)'
    BY <1>2, <2>1, <2>2 DEF Fits
  <2>6. ChatOfText(b.text) = c
    BY <2>1, <2>2, HistoryAssumption DEF ChatOfText
  <2>7. b.id \in DOMAIN table'
    BY <1>2, UpsertGrows
  <2>8. BubbleOK(c, b)'
    BY <2>2, <2>4, <2>5, <2>6, <2>7 DEF BubbleOK, ChatOfText
  <2>9. Writable(c, b)'
    BY <2>1, <2>2, <2>4, <2>5 DEF Writable, AsBubble, Row
  <2> QED BY <2>2, <2>3, <2>8, <2>9
<1>7. /\ BubblesInv' /\ OwnInv' /\ new \subseteq Shown(c)'
      /\ \A d \in Chats : \A b \in Shown(d) : b \in Shown(d)'
  BY <1>2, <1>4, <1>5, <1>6, AddedKeeps DEF OwnInv
<1>8. /\ TableInv'
      /\ \A id \in DOMAIN table' : \A d \in Chats :
           table'[id].chat = d /\ table'[id].status = "sent" =>
             \/ id \in DOMAIN table /\ table[id].status = "sent" /\ table[id].chat = d
             \/ d = c /\ \E b \in new : b.id = id /\ b.status = "sent"
  BY <1>2, <1>5, <1>6, UpsertKeeps
<1>9. LoadsInv'
  <2>1. ASSUME NEW id \in DOMAIN table', NEW d \in Chats, table'[id].chat = d,
               table'[id].status = "sent"
        PROVE  \/ id \in DOMAIN table /\ table[id].status = "sent" /\ table[id].chat = d
               \/ HasSerial(d, id)'
    <3>1. CASE d = c /\ \E b \in new : b.id = id
      BY <1>6, <1>7, <3>1 DEF HasSerial
    <3> QED BY <1>8, <2>1, <3>1
  <2> QED BY <1>2, <1>5, <1>7, <2>1, LoadsStay
<1> QED BY <1>4, <1>7, <1>8, <1>9 DEF HistoryInv

LEMMA HydrateKeeps ==
  ASSUME HistoryInv, NEW c \in Chats, Hydrate(c)
  PROVE  HistoryInv'
<1>1. PICK new : new = Additions(c)
  OBVIOUS
<1>2. /\ list' = [list EXCEPT ![c] = Added(list[c], new)] /\ loaded[c].pc = "loaded"
      /\ loaded' = [loaded EXCEPT ![c] = Hydrated]
      /\ UNCHANGED <<server, outbox, table, retries, restarts, failedOnce, interrupted>>
  BY <1>1 DEF Hydrate, Added
<1>3. LoadOK(c) /\ restarts > 0
  BY <1>2 DEF HistoryInv, LoadsInv, LoadOK
<1>4. HistoryTypes' /\ loaded'[c] = Hydrated /\ \A d \in Chats : d # c => loaded'[d] = loaded[d]
  BY <1>2 DEF HistoryInv, HistoryTypes
<1>5. HistoryGrows
  BY <1>2, <1>4, GrowsAlone
<1>6. ASSUME NEW b \in new PROVE b \notin DOMAIN list[c] /\ BubbleOK(c, b)'
  <2>1. b \in loaded[c].rows /\ b \notin DOMAIN list[c]
    BY <1>1 DEF Additions, Shown, BagToSet
  <2>2. ReadOK(c, b) /\ b.id \in DOMAIN table
    BY <1>3, <2>1 DEF LoadOK
  <2>3. BubbleOK(c, b)
    BY <1>3, <2>2 DEF ReadOK, BubbleOK
  <2> QED BY <1>2, <1>5, <2>1, <2>3, BubbleStays DEF BubbleOK, ReadOK
<1>7. /\ BubblesInv' /\ OwnInv' /\ new \subseteq Shown(c)'
      /\ \A d \in Chats : \A b \in Shown(d) : b \in Shown(d)'
  BY <1>2, <1>4, <1>5, <1>6, AddedKeeps DEF OwnInv
<1>8. TableInv'
  <2>1. ASSUME NEW id \in DOMAIN table, NEW row, row = table[id] PROVE RowOK(id, row)'
    BY <1>5, <2>1, RowStays DEF HistoryInv, TableInv
  <2> QED BY <1>2, <2>1 DEF TableInv
<1>9. ASSUME NEW d \in Chats, NEW id \in DOMAIN table,
             table[id].chat = d, table[id].status = "sent", HasSerial(d, id)
      PROVE  HasSerial(d, id)'
  BY <1>7, <1>9 DEF HasSerial
<1>10. ASSUME NEW d \in Chats, d # c PROVE LoadOK(d)'
  <2>1. LoadOK(d) /\ loaded'[d] = loaded[d]
    BY <1>4, <1>10 DEF HistoryInv, LoadsInv
  <2>2. ASSUME NEW b \in loaded[d].rows PROVE ReadOK(d, b)'
    BY <1>5, <2>1, ReadStays DEF LoadOK
  <2> QED BY <1>2, <1>9, <2>1, <2>2 DEF LoadOK
<1>11. LoadOK(c)'
  <2>1. ASSUME NEW id \in DOMAIN table, table[id].chat = c, table[id].status = "sent"
        PROVE  HasSerial(c, id)'
    <3>1. CASE HasSerial(c, id)
      BY <1>9, <2>1, <3>1
    <3>2. CASE \E b \in loaded[c].rows : b.id = id
      <4>1. PICK b \in loaded[c].rows : b.id = id
        BY <3>2
      <4>2. id \in Nat
        BY <2>1, SentRow
      <4>3. Item(b) /\ b.status = "sent"
        BY <1>3, <4>1, <4>2, UnsentItem DEF LoadOK, ReadOK, HistoryInv
      <4>4. b.serial = id
        BY <4>1, <4>3, SentItem DEF HistoryInv
      <4>5. CASE b \in new
        BY <1>7, <4>4, <4>5 DEF HasSerial
      <4>6. CASE b \notin new
        <5>1. PICK x \in Shown(c) : x.id = id
          BY <1>1, <4>1, <4>6 DEF Additions
        <5>2. Item(x)
          BY DEF Shown, BagToSet, HistoryInv, BubblesInv, BubbleOK
        <5>3. x.serial = id
          BY <4>2, <5>1, <5>2, SentItem, UnsentItem DEF HistoryInv
        <5> QED BY <1>7, <5>1, <5>3 DEF HasSerial
      <4> QED BY <4>5, <4>6
    <3> QED BY <1>2, <1>3, <2>1, <3>1, <3>2 DEF LoadOK
  <2>2. loaded'[c].pc = "hydrated" /\ loaded'[c].rows = {}
    BY <1>4 DEF Hydrated
  <2> QED BY <1>2, <2>1, <2>2 DEF LoadOK
<1>12. LoadsInv'
  BY <1>10, <1>11 DEF LoadsInv
<1> QED BY <1>4, <1>7, <1>8, <1>12 DEF HistoryInv

LEMMA LoadKeeps ==
  ASSUME HistoryInv, NEW c \in Chats, Load(c)
  PROVE  HistoryInv'
<1>1. /\ loaded[c] = Unread /\ loaded' = [loaded EXCEPT ![c] = Loaded(RowsOf(c))]
      /\ UNCHANGED <<server, outbox, list, table, retries, restarts, failedOnce, interrupted>>
  BY DEF Load
<1>2. /\ HistoryTypes' /\ loaded'[c] = Loaded(RowsOf(c))
      /\ \A d \in Chats : d # c => loaded'[d] = loaded[d]
  BY <1>1 DEF HistoryInv, HistoryTypes
<1>3. HistoryGrows
  BY <1>1, <1>2, GrowsAlone
<1>4. BubblesInv' /\ TableInv' /\ OwnInv'
  <2>1. ASSUME NEW d \in Chats, NEW b \in DOMAIN list[d] PROVE BubbleOK(d, b)'
    <3>1. BubbleOK(d, b)
      BY DEF HistoryInv, BubblesInv
    <3> QED BY <1>1, <1>3, <3>1, BubbleStays DEF BubbleOK
  <2>2. ASSUME NEW id \in DOMAIN table, NEW row, row = table[id] PROVE RowOK(id, row)'
    BY <1>3, <2>2, RowStays DEF HistoryInv, TableInv
  <2>3. ASSUME NEW m \in Written PROVE OwnOK(m)'
    BY <1>1, <1>3, OwnStays DEF OwnBubbles, Shown
  <2> QED BY <1>1, <2>1, <2>2, <2>3 DEF BubblesInv, TableInv, OwnInv, HistoryInv
<1>5. ASSUME NEW d \in Chats, d # c PROVE LoadOK(d)'
  <2>1. LoadOK(d) /\ loaded'[d] = loaded[d]
    BY <1>2, <1>5 DEF HistoryInv, LoadsInv
  <2>2. ASSUME NEW b \in loaded[d].rows PROVE ReadOK(d, b)'
    BY <1>3, <2>1, ReadStays DEF LoadOK
  <2> QED BY <1>1, <2>1, <2>2 DEF LoadOK, HasSerial, Shown
<1>6. LoadOK(c)'
  <2>1. loaded'[c].pc = "loaded" /\ loaded'[c].rows = RowsOf(c)
    BY <1>2 DEF Loaded
  <2>2. restarts > 0
    BY <1>1 DEF HistoryInv, LoadsInv, LoadOK, Unread
  <2>3. ASSUME NEW b \in RowsOf(c) PROVE ReadOK(c, b)' /\ b.id \in DOMAIN table
    <3>1. PICK id \in DOMAIN table : table[id].chat = c /\ b = Bubble(id)
      BY DEF RowsOf
    <3>2. b = AsBubble(id, table[id]) /\ b.id = id
      BY <3>1 DEF Bubble, AsBubble
    <3>3. ReadOK(c, b)
      <4>1. PICK row : row = table[id]
        OBVIOUS
      <4>2. RowOK(id, row)
        BY <4>1 DEF HistoryInv, TableInv
      <4> QED BY <3>1, <3>2, <4>1, <4>2 DEF RowOK
    <3> QED BY <1>3, <3>2, <3>3, ReadStays
  <2>4. ASSUME NEW id \in DOMAIN table, table[id].chat = c PROVE \E b \in RowsOf(c) : b.id = id
    <3>1. Bubble(id) \in RowsOf(c) /\ Bubble(id).id = id
      BY <2>4 DEF RowsOf, Bubble
    <3> QED BY <3>1
  <2> QED BY <1>1, <2>1, <2>2, <2>3, <2>4 DEF LoadOK
<1>7. LoadsInv'
  BY <1>5, <1>6 DEF LoadsInv
<1> QED BY <1>2, <1>4, <1>7 DEF HistoryInv

LEMMA RestartKeeps ==
  ASSUME HistoryInv, Restart
  PROVE  HistoryInv'
<1>1. /\ restarts' = restarts + 1 /\ restarts' > 0 /\ restarts' \in Nat
      /\ list' = [c \in Chats |-> EmptyBag]
      /\ outbox' = [m \in Written |-> IF outbox[m] = "stored" THEN "queued" ELSE outbox[m]]
      /\ interrupted' = interrupted \cup {m \in Written : outbox[m] \in {"queued", "stored"}}
      /\ loaded' \in {[c \in Chats |-> Unread], [c \in Chats |-> Skipped]}
      /\ UNCHANGED <<server, table, failedOnce>>
  BY DEF Restart, HistoryInv, HistoryTypes
<1>2. \A c \in Chats : DOMAIN list'[c] = {}
  BY <1>1 DEF EmptyBag, SetToBag
<1>3. \A c \in Chats : loaded'[c].rows = {} /\ loaded'[c].pc \notin {"hydrated", "loaded"}
  BY <1>1 DEF Unread, Skipped
<1>4. \A m \in Written :
        /\ outbox'[m] = IF outbox[m] = "stored" THEN "queued" ELSE outbox[m]
        /\ outbox[m] \in {"none", "queued", "stored", "dead", "gone"}
  BY <1>1 DEF HistoryInv, HistoryTypes
<1>5. HistoryTypes'
  <2>1. loaded' = [c \in Chats |-> loaded'[c]] /\ list' = [c \in Chats |-> list'[c]]
    BY <1>1
  <2>2. outbox' \in [Written -> {"none", "queued", "stored", "dead", "gone"}]
    BY <1>1, <1>4
  <2> QED BY <1>1, <2>1, <2>2 DEF HistoryInv, HistoryTypes
<1>6. HistoryGrows
  BY <1>1, <1>4, <1>5, GrowsAlone
<1>7. BubblesInv'
  BY <1>2 DEF BubblesInv
<1>8. TableInv'
  <2>1. ASSUME NEW id \in DOMAIN table, NEW row, row = table[id] PROVE RowOK(id, row)'
    BY <1>6, <2>1, RowStays DEF HistoryInv, TableInv
  <2> QED BY <1>1, <2>1 DEF TableInv
<1>9. LoadsInv'
  BY <1>1, <1>3 DEF LoadsInv, LoadOK
<1>10. ASSUME NEW m \in Written PROVE OwnOK(m)'
  <2>1. OwnOK(m)
    BY DEF HistoryInv, OwnInv
  <2>2. Acked(m)' = Acked(m) /\ AckedSerial(m)' = AckedSerial(m)
    BY <1>1 DEF Acked, AckedSerial
  <2>3. outbox'[m] # "stored" /\ (outbox'[m] = "queued" => m \in interrupted')
    BY <1>1, <1>4
  <2> QED BY <1>1, <1>4, <2>1, <2>2, <2>3 DEF OwnOK
<1>11. OwnInv'
  BY <1>10 DEF OwnInv
<1> QED BY <1>5, <1>7, <1>8, <1>9, <1>11 DEF HistoryInv

-----------------------------------------------------------------------------
LEMMA HistoryStart == HistoryInit => HistoryInv
<1> SUFFICES ASSUME HistoryInit PROVE HistoryInv
  OBVIOUS
<1>1. \A c \in Chats : DOMAIN list[c] = {}
  BY DEF HistoryInit, EmptyBag, SetToBag
<1>2. DOMAIN table = {}
  BY DEF HistoryInit
<1>3. HistoryTypes
  <2>1. server \in [Chats -> Seq(Written \cup {"peer"})]
    BY DEF HistoryInit
  <2>2. list = [c \in Chats |-> list[c]] /\ loaded = [c \in Chats |-> loaded[c]]
    BY DEF HistoryInit
  <2> QED BY <2>1, <2>2 DEF HistoryInit, HistoryTypes
<1>4. BubblesInv /\ TableInv
  BY <1>1, <1>2 DEF BubblesInv, TableInv
<1>5. LoadsInv
  <2>1. \A c \in Chats : loaded[c].pc = "hydrated" /\ loaded[c].rows = {}
    BY DEF HistoryInit, Hydrated
  <2> QED BY <1>2, <2>1 DEF LoadsInv, LoadOK
<1>6. OwnInv
  BY DEF HistoryInit, OwnInv, OwnOK
<1> QED BY <1>3, <1>4, <1>5, <1>6 DEF HistoryInv

LEMMA HistoryStep == HistoryInv /\ [HistoryNext]_historyVars => HistoryInv'
<1> SUFFICES ASSUME HistoryInv, [HistoryNext]_historyVars PROVE HistoryInv'
  OBVIOUS
<1>1. CASE UNCHANGED historyVars
  <2>1. HistoryTypes'
    BY <1>1 DEF HistoryInv, HistoryTypes, historyVars
  <2>2. HistoryGrows
    BY <1>1, <2>1, GrowsAlone DEF historyVars
  <2>3. BubblesInv' /\ TableInv' /\ LoadsInv'
    BY <1>1, <2>2, DeviceAlone DEF historyVars
  <2>4. ASSUME NEW m \in Written PROVE OwnOK(m)'
    BY <1>1, <2>2, OwnStays DEF historyVars, OwnBubbles, Shown
  <2> QED BY <2>1, <2>3, <2>4 DEF HistoryInv, OwnInv
<1>2. CASE HistoryNext
  BY <1>2, PeerSendKeeps, LoadKeeps, HydrateKeeps, ReceiveRowsKeeps, ComposeKeeps, RowStoredKeeps,
     ConfirmKeeps, FailKeeps, RetryKeeps, DeleteKeeps, RestartKeeps DEF HistoryNext
<1> QED BY <1>1, <1>2

\* The lists and the table have their types.
InterruptedFits == interrupted \subseteq Written

LEMMA HistoryTypesHold == HistorySpec => []HistoryTypeOK
<1>1. HistoryInv /\ InterruptedFits => HistoryTypeOK
  <2> SUFFICES ASSUME HistoryInv, InterruptedFits PROVE HistoryTypeOK
    OBVIOUS
  <2>1. HistoryTypes
    BY DEF HistoryInv
  <2>2. \A c \in Chats : \A i \in DOMAIN server[c] : server[c][i] \in Written \cup {"peer"}
    BY <2>1 DEF HistoryTypes
  <2>3. ASSUME NEW c \in Chats, NEW b \in Shown(c)
        PROVE  /\ b.serial \in 0 .. Len(server[c])
               /\ b.status \in {"sending", "failed"} => b.serial = 0 /\ b.id \in Written
               /\ b.status = "sent" => b.id = b.serial
    <3>1. Item(b) /\ Fits(c, b)
      BY <2>3 DEF HistoryInv, BubblesInv, BubbleOK, Shown, BagToSet
    <3>2. server[c] \in Seq(Written \cup {"peer"}) /\ Len(server[c]) \in Nat
      BY <2>1, <2>3 DEF HistoryTypes
    <3>3. CASE b.status = "sent"
      <4>1. b.id = b.serial
        BY <3>1, <3>3 DEF Item, IsPeers, PeerBubble, IsOwnSent, SentBubble, IsUnsent, UnsentBubble
      <4>2. b.serial \in 1 .. Len(server[c])
        BY <3>1, <3>2, <3>3 DEF Fits
      <4> QED BY <3>2, <3>3, <4>1, <4>2
    <3>4. CASE b.status # "sent"
      <4>1. b.serial = 0 /\ b.id \in Written
        BY <3>1, <3>4 DEF Item, IsPeers, PeerBubble, IsOwnSent, SentBubble, IsUnsent, UnsentBubble
      <4> QED BY <3>2, <3>4, <4>1
    <3> QED BY <3>3, <3>4
  <2>4. ASSUME NEW id \in DOMAIN table
        PROVE  /\ table[id].chat \in Chats /\ table[id].status \in {"sending", "sent", "failed"}
               /\ id \in Written <=> table[id].status # "sent"
    <3>1. PICK row : row = table[id]
      OBVIOUS
    <3>2. PICK a : a = AsBubble(id, row)
      OBVIOUS
    <3>3. /\ row.chat \in Chats /\ Item(a) /\ a.id = id /\ a.status = row.status
      BY <2>4, <3>1, <3>2 DEF HistoryInv, TableInv, RowOK, ReadOK, AsBubble
    <3>4. CASE a.status = "sent"
      <4>1. id \in Nat
        BY <2>1, <3>3, <3>4, SentItem
      <4>2. id \notin Written
        BY <4>1, HistoryAssumption
      <4> QED BY <3>1, <3>3, <3>4, <4>2
    <3>5. CASE a.status # "sent"
      <4>1. a.id \in Written /\ a.status \in {"sending", "failed"}
        BY <3>3, <3>5 DEF Item, IsPeers, PeerBubble, IsOwnSent, SentBubble, IsUnsent, UnsentBubble
      <4> QED BY <3>1, <3>3, <3>5, <4>1
    <3> QED BY <3>4, <3>5
  <2> QED BY <2>1, <2>2, <2>3, <2>4 DEF HistoryTypes, HistoryTypeOK, InterruptedFits
<1>2. HistoryInit => InterruptedFits
  BY DEF HistoryInit, InterruptedFits
<1>3. InterruptedFits /\ [HistoryNext]_historyVars => InterruptedFits'
  BY DEF InterruptedFits, HistoryNext, historyVars, PeerSend, Load, Hydrate, ReceiveRows, Compose,
         Stored, Confirm, Fail, Retry, Delete, Restart
<1> QED BY <1>1, <1>2, <1>3, HistoryStart, HistoryStep, PTL DEF HistorySpec

LEMMA HistoryShows == HistoryInv => HistoryIsSound
<1> SUFFICES ASSUME HistoryInv PROVE HistoryIsSound
  OBVIOUS
<1>1. HistoryTypes
  BY DEF HistoryInv
<1>2. ASSUME NEW c \in Chats, NEW b \in Shown(c)
      PROVE  Item(b) /\ Fits(c, b) /\ BubbleOK(c, b)
  BY DEF HistoryInv, BubblesInv, BubbleOK, Shown, BagToSet
<1>3. ShownOnce
  <2>1. ASSUME NEW c \in Chats, NEW a \in Shown(c), a.text \notin failedOnce
        PROVE  list[c][a] = 1
    BY <2>1 DEF HistoryInv, BubblesInv, Shown, BagToSet
  <2>2. ASSUME NEW c \in Chats, NEW a \in Shown(c), NEW b \in Shown(c), a.text \notin failedOnce,
               a.text = b.text
        PROVE  a = b
    BY <1>1, <1>2, <2>2, SameText DEF BubbleOK
  <2> QED BY <2>1, <2>2 DEF ShownOnce
<1>4. OwnTextsOnly
  <2>1. ASSUME NEW c \in Chats, NEW b \in Shown(c), ChatOfText(b.text) # c
        PROVE  restarts > 0 /\ b.serial \in DOMAIN server[c] /\ Collides(c, b.serial)
    <3>1. b.status = "sent"
      BY <1>1, <1>2, <2>1, UnsentItem DEF Fits
    <3>2. /\ b.serial \in DOMAIN server[ChatOfText(b.text)] /\ ChatOfText(b.text) \in Chats
      BY <1>1, <1>2, <3>1, SentItem
    <3> QED BY <1>2, <2>1, <3>1, <3>2 DEF BubbleOK, Fits, Collides
  <2> QED BY <2>1 DEF OwnTextsOnly
<1>5. ASSUME NEW c \in Chats, NEW b, Item(b), b.status = "sent", b.id \in DOMAIN table,
             ~Collides(c, b.id)
      PROVE  table[b.id].chat = c /\ table[b.id].text = b.text /\ b.text = Text(c, b.id)
  <2>1. PICK row : row = table[b.id]
    OBVIOUS
  <2>2. PICK a : a = AsBubble(b.id, row)
    OBVIOUS
  <2>3. /\ row.chat \in Chats /\ Item(a) /\ Fits(row.chat, a)
        /\ a.id = b.id /\ a.text = row.text
    BY <1>5, <2>1, <2>2 DEF HistoryInv, TableInv, RowOK, ReadOK, AsBubble
  <2>4. b.id \in Nat
    BY <1>1, <1>5, SentItem
  <2>5. a.status = "sent" /\ a.serial = b.id
    BY <1>1, <2>3, <2>4, SentItem, UnsentItem
  <2>6. row.chat = c
    BY <1>5, <2>3, <2>5 DEF Fits, Collides
  <2>7. a.text = b.text /\ a.text = Text(c, a.id)
    BY <1>1, <1>5, <2>3, <2>5, SameSerial
  <2> QED BY <2>1, <2>3, <2>6, <2>7
<1>6. ShownIsStored
  <2>1. ASSUME NEW c \in Chats, NEW b \in Shown(c), b.status = "sent"
        PROVE  /\ b.id \in DOMAIN table
               /\ ~Collides(c, b.serial) => table[b.id].chat = c /\ table[b.id].text = b.text
    <3>1. Item(b) /\ b.id \in DOMAIN table
      BY <1>2, <2>1 DEF BubbleOK
    <3>2. b.serial = b.id
      BY <1>1, <2>1, <3>1, SentItem
    <3> QED BY <1>5, <2>1, <3>1, <3>2
  <2> QED BY <2>1 DEF ShownIsStored
<1>7. OwnIsStored
  <2>1. ASSUME NEW m \in Written, outbox[m] = "gone", m \notin failedOnce \cup interrupted
        PROVE  \E s \in DOMAIN server[ChatOf[m]] :
                 /\ server[ChatOf[m]][s] = m
                 /\ ~Collides(ChatOf[m], s) => s \in DOMAIN table /\ table[s].text = m
    <3>1. Acked(m) /\ AckedSerial(m) \in DOMAIN table
      BY <2>1 DEF HistoryInv, OwnInv, OwnOK
    <3>2. PICK s : s = AckedSerial(m)
      OBVIOUS
    <3>3. s \in DOMAIN server[ChatOf[m]] /\ server[ChatOf[m]][s] = m
      BY <1>1, <3>1, <3>2, AckedIs
    <3>4. PICK b : b = SentBubble(m, s)
      OBVIOUS
    <3>5. Item(b) /\ b.status = "sent" /\ b.id = s /\ b.text = m
      BY <2>1, <3>1, <3>2, <3>4 DEF Item, IsOwnSent, SentBubble
    <3>6. ChatOf[m] \in Chats
      BY HistoryAssumption
    <3> QED BY <1>5, <3>1, <3>2, <3>3, <3>5, <3>6
  <2> QED BY <2>1 DEF OwnIsStored
<1>8. HydratedShowsTable
  <2>1. ASSUME NEW c \in Chats, loaded[c] = Hydrated, NEW id \in DOMAIN table,
               table[id].chat = c, table[id].status = "sent"
        PROVE  HasSerial(c, id)
    BY <2>1 DEF HistoryInv, LoadsInv, LoadOK, Hydrated
  <2> QED BY <2>1 DEF HydratedShowsTable
<1> QED BY <1>3, <1>4, <1>6, <1>7, <1>8
    DEF HistoryIsSound, TextsAreShownOnce, ListsMatchTable

-----------------------------------------------------------------------------
(***************************************************************************)
(* The list of chats.  An answer is of rows as they once were, so each is  *)
(* told apart by the revisions it was read at; a chat the account is in is *)
(* heard of, or a request or a wake-up that will tell of it is under way.  *)
(***************************************************************************)

ListTypes ==
  /\ ChatListTypeOK
  /\ asked \in Nat /\ edits \in Nat /\ visits \in Nat
  /\ \A c \in Conversations :
       revision[c] >= 1 /\ (record[c] # NoRecord => record[c].of # NoViewer)

Lists(a) == a.kind \in {"bootstrap", "refresh"}
Tells(a, c) == Lists(a) \/ c = a.chat

\* Request a, by its stage; an answer is of rows as they once were, and has the
\* chats whose rows were the caller's then.
RequestWell(a) ==
  a.pc # "none" =>
    /\ a.by \in Viewers /\ (Lists(a) \/ a.chat \in Conversations)
    /\ a.pc = "due" => Lists(a)
    /\ a.pc = "sent" => a.got = {} /\ a.hid = {}
    /\ ~Lists(a) => a.hid = {} /\ a.got \subseteq {a.chat}
    /\ a.kind = "leave" => a.got = {}
    /\ a.kind = "get" /\ a.pc = "read" => a.got = {a.chat}
    /\ \A c \in Conversations : a.at[c] <= revision[c]
    /\ a.pc # "sent" =>
         \A c \in Conversations :
           /\ c \in a.got => a.by \in been[c]
           /\ c \in a.got \cup a.hid /\ a.at[c] = revision[c] => joined[c][a.by] # 0
           /\ Tells(a, c) /\ joined[c][a.by] # 0 /\ a.at[c] >= joined[c][a.by] =>
                c \in a.got \cup a.hid

RowsWell ==
  \A c \in Conversations :
    /\ heard[c] <= revision[c]
    /\ \A u \in Viewers : joined[c][u] <= revision[c] /\ (joined[c][u] # 0 => u \in been[c])

\* Without anybody's session the store is empty, but for what came in across a sign-out.
StoreWell ==
  /\ viewer = NoViewer => bootstrapStatus # "loading"
  /\ viewer = NoViewer /\ ~crossed =>
       /\ bootstrapStatus # "ready"
       /\ \A c \in Conversations : heard[c] = 0

\* Request a is going to tell its account of chat c.
Covers(a, c) ==
  /\ a.by = viewer /\ Lists(a)
  /\ \/ a.pc = "sent"
     \/ a.pc \in {"read", "due"} /\ c \in a.got \cup a.hid /\ a.at[c] >= joined[c][viewer]

Awaited(c) == \E k \in Fetches : Covers(request[k], c)
Told(c) == heard[c] >= joined[c][viewer]

\* A chat the account is in has been heard of, or will be.
ToBeTold ==
  viewer # NoViewer /\ ~crossed =>
    \A c \in Conversations : joined[c][viewer] # 0 =>
      /\ c \in missed \/ Told(c) \/ viewer \in woken \/ Awaited(c)
      /\ Told(c) /\ c \notin stale => record[c] # NoRecord

\* LoadingEnds, whatever the screen says.
LoadingWell ==
  /\ bootstrapStatus = "loading" =>
       \E k \in UnderWay : request[k].kind = "bootstrap" /\ request[k].by = viewer
  /\ viewer # NoViewer => bootstrapStatus # "idle"

ListInv ==
  /\ ListTypes
  /\ \A k \in Fetches : RequestWell(request[k])
  /\ RowsWell /\ StoreWell /\ ToBeTold
  /\ ListIsOwn /\ ListIsTrue /\ LoadingWell /\ MirrorIsOwn

LEMMA ListStart == ChatListInit => ListInv
<1> SUFFICES ASSUME ChatListInit PROVE ListInv
  OBVIOUS
<1> USE ChatListAssumption
<1>1. \A k \in Fetches : request[k] = NoRequest
  BY DEF ChatListInit
<1>2. ListTypes
  <2>1. NoRequest \in FetchRecord /\ NoRecord \in [of : Viewers \cup {NoViewer}, at : Nat]
    BY DEF NoRequest, FetchRecord, NoRecord
  <2>2. /\ revision \in [Conversations -> Nat]
        /\ \A c \in Conversations : revision[c] >= 1 /\ record[c] = NoRecord
        /\ joined \in [Conversations -> [Viewers -> Nat]]
        /\ been \in [Conversations -> SUBSET Viewers]
    BY DEF ChatListInit
  <2>3. /\ record \in [Conversations -> [of : Viewers \cup {NoViewer}, at : Nat]]
        /\ places \in [Conversations -> Nat] /\ heard \in [Conversations -> Nat]
        /\ request \in [Fetches -> FetchRecord] /\ mirrored \in [Viewers -> SUBSET Conversations]
    BY <2>1 DEF ChatListInit
  <2> QED BY <2>2, <2>3 DEF ChatListInit, ListTypes, ChatListTypeOK
<1>3. \A k \in Fetches : RequestWell(request[k])
  BY <1>1 DEF RequestWell, NoRequest
<1>4. RowsWell
  BY DEF ChatListInit, RowsWell
<1>5. StoreWell /\ ToBeTold /\ LoadingWell
  BY DEF ChatListInit, StoreWell, ToBeTold, LoadingWell
<1>6. ListIsOwn /\ ListIsTrue /\ MirrorIsOwn
  BY DEF ChatListInit, ListIsOwn, ListIsTrue, MirrorIsOwn
<1> QED BY <1>2, <1>3, <1>4, <1>5, <1>6 DEF ListInv

-----------------------------------------------------------------------------
TheRows == <<revision, joined, been>>

\* A request that is started is `sent`, is well, and leaves the others alone.
LEMMA FetchStarts ==
  ASSUME ListInv, NEW u \in Viewers, NEW kind \in {"bootstrap", "refresh", "get", "leave"},
         NEW c \in Conversations \cup {0}, c # 0 \/ kind \in {"bootstrap", "refresh"},
         Fetch(u, kind, c), UNCHANGED TheRows
  PROVE  /\ asked' \in Nat /\ request' \in [Fetches -> FetchRecord]
         /\ \A j \in Fetches : RequestWell(request[j])'
         /\ \A j \in Fetches, d \in Conversations :
              viewer' = viewer /\ Covers(request[j], d) => Covers(request[j], d)'
         /\ \E k \in UnderWay' :
              request'[k].pc = "sent" /\ request'[k].kind = kind /\ request'[k].by = u
         /\ \A j \in UnderWay : j \in UnderWay' /\ request'[j] = request[j]
<1>1. PICK k \in Fetches :
        /\ request[k].pc = "none"
        /\ request' = [request EXCEPT ![k] =
             [NoRequest EXCEPT !.pc = "sent", !.kind = kind, !.chat = c, !.by = u]]
  BY DEF Fetch
<1>2. PICK r : r = [NoRequest EXCEPT !.pc = "sent", !.kind = kind, !.chat = c, !.by = u]
  OBVIOUS
<1>3. r = [pc |-> "sent", kind |-> kind, chat |-> c, by |-> u, got |-> {}, hid |-> {},
           at |-> [d \in Conversations |-> 0]]
  BY <1>2 DEF NoRequest
<1>4. r \in FetchRecord
  BY <1>3 DEF FetchRecord
<1>5. request \in [Fetches -> FetchRecord]
  BY DEF ListInv, ListTypes, ChatListTypeOK
<1>6. /\ request' \in [Fetches -> FetchRecord]
      /\ \A j \in Fetches : request'[j] = IF j = k THEN r ELSE request[j]
  BY <1>1, <1>2, <1>4, <1>5
<1>7. asked' \in Nat
  BY DEF Fetch, ListInv, ListTypes
<1>8. ASSUME NEW j \in Fetches PROVE RequestWell(request[j])'
  <2>1. CASE j = k
    <3>1. \A d \in Conversations : revision'[d] >= 1 /\ revision'[d] \in Nat
      BY DEF ListInv, ListTypes, ChatListTypeOK, TheRows
    <3>2. RequestWell(r)'
      BY <1>3, <3>1 DEF RequestWell, Lists, Tells
    <3> QED BY <2>1, <1>6, <3>2 DEF RequestWell, Lists, Tells
  <2>2. CASE j # k
    BY <2>2, <1>6 DEF ListInv, RequestWell, Lists, Tells, TheRows
  <2> QED BY <2>1, <2>2
<1>9. ASSUME NEW j \in Fetches, NEW d \in Conversations, viewer' = viewer,
             Covers(request[j], d)
      PROVE  Covers(request[j], d)'
  BY <1>1, <1>6, <1>9 DEF Covers, Lists, TheRows
<1>10. \A j \in UnderWay : j \in UnderWay' /\ request'[j] = request[j]
  BY <1>1, <1>6 DEF UnderWay
<1>11. k \in UnderWay' /\ request'[k] = r
  BY <1>3, <1>6 DEF UnderWay
<1> QED BY <1>3, <1>6, <1>7, <1>8, <1>9, <1>10, <1>11

-----------------------------------------------------------------------------
\* With the list as it was and the same account, a new request keeps the invariant.
LEMMA FetchKeeps ==
  ASSUME ListInv, NEW kind \in {"bootstrap", "refresh", "get", "leave"},
         NEW c \in Conversations \cup {0}, c # 0 \/ kind \in {"bootstrap", "refresh"},
         viewer # NoViewer, Fetch(viewer, kind, c),
         UNCHANGED <<viewer, TheRows, record, places, heard, stale, crossed, mirrored,
                     edits, visits, missed, misled>>,
         \A u \in Viewers : u \in woken /\ u # viewer => u \in woken',
         woken' \subseteq woken,
         viewer \in woken' \/ viewer \notin woken \/ kind = "refresh",
         bootstrapStatus' = bootstrapStatus \/ (bootstrapStatus' = "loading" /\ kind = "bootstrap")
  PROVE  ListInv'
<1> USE ChatListAssumption
<1>1. viewer \in Viewers
  BY DEF ListInv, ListTypes, ChatListTypeOK
<1>2. PICK k \in UnderWay' :
        request'[k].pc = "sent" /\ request'[k].kind = kind /\ request'[k].by = viewer
  BY <1>1, FetchStarts
<1>3. ListTypes'
  BY <1>1, FetchStarts DEF ListInv, ListTypes, ChatListTypeOK, TheRows
<1>4. \A j \in Fetches : RequestWell(request[j])'
  BY <1>1, FetchStarts
<1>5. RowsWell' /\ MirrorIsOwn' /\ StoreWell' /\ ListIsOwn'
  BY DEF ListInv, RowsWell, MirrorIsOwn, StoreWell, ListIsOwn, TheRows
<1>6. LoadingWell'
  BY <1>1, <1>2, FetchStarts DEF ListInv, LoadingWell, UnderWay
<1>7. ListIsTrue'
  BY DEF ListInv, ListIsTrue, Mine, TheRows
<1>8. ToBeTold'
  <2>1. ASSUME NEW d \in Conversations PROVE Told(d)' <=> Told(d)
    BY DEF Told, TheRows
  <2>2. ASSUME NEW d \in Conversations, Awaited(d) PROVE Awaited(d)'
    BY <1>1, <2>2, FetchStarts DEF Awaited
  <2>3. ASSUME NEW d \in Conversations, kind \in {"bootstrap", "refresh"} PROVE Awaited(d)'
    BY <1>2, <2>3 DEF Awaited, Covers, Lists, UnderWay
  <2> QED BY <2>1, <2>2, <2>3 DEF ListInv, ToBeTold, TheRows
<1> QED BY <1>3, <1>4, <1>5, <1>6, <1>7, <1>8 DEF ListInv

\* bootstrap() starts a request, or the list is there or on its way.
LEMMA SignsInKeeps == ASSUME ListInv, NEW u \in Viewers, SignsIn(u) PROVE ListInv'
<1> USE ChatListAssumption
<1>1. viewer = NoViewer /\ viewer' = u /\ u # NoViewer
  BY DEF SignsIn
<1>2. CASE bootstrapStatus \in {"loading", "ready"}
  <2>1. crossed /\ bootstrapStatus = "ready"
    BY <1>1, <1>2 DEF ListInv, StoreWell
  <2>2. UNCHANGED <<bootstrapStatus, request, asked, rowsOfChats, record, places, mirrored, edits,
                    heard, stale, missed, crossed, misled>> /\ visits' \in Nat
    BY <1>2 DEF SignsIn, Bootstrap, ListInv, ListTypes
  <2>3. ListTypes'
    BY <1>1, <2>2 DEF ListInv, ListTypes, ChatListTypeOK, rowsOfChats
  <2>4. \A k \in Fetches : RequestWell(request[k])'
    BY <2>2 DEF ListInv, RequestWell, Lists, Tells, rowsOfChats
  <2>5. RowsWell' /\ MirrorIsOwn'
    BY <2>2 DEF ListInv, RowsWell, MirrorIsOwn, rowsOfChats
  <2>6. StoreWell' /\ ToBeTold' /\ LoadingWell' /\ ListIsTrue' /\ ListIsOwn'
    BY <1>1, <2>1, <2>2
    DEF ListInv, StoreWell, ToBeTold, LoadingWell, ListIsTrue, ListIsOwn
  <2> QED BY <2>3, <2>4, <2>5, <2>6 DEF ListInv
<1>3. CASE bootstrapStatus \notin {"loading", "ready"}
  <2>1. /\ bootstrapStatus' = "loading" /\ Fetch(u, "bootstrap", 0)
        /\ UNCHANGED <<rowsOfChats, record, places, mirrored, edits, heard, stale, missed,
                       crossed, misled>>
        /\ visits' \in Nat
    BY <1>3 DEF SignsIn, Bootstrap, ListInv, ListTypes
  <2>2. PICK k \in UnderWay' :
          request'[k].pc = "sent" /\ request'[k].kind = "bootstrap" /\ request'[k].by = u
    BY <2>1, FetchStarts DEF rowsOfChats, TheRows
  <2>3. ListTypes'
    BY <1>1, <2>1, FetchStarts DEF ListInv, ListTypes, ChatListTypeOK, rowsOfChats, TheRows
  <2>4. \A j \in Fetches : RequestWell(request[j])'
    BY <2>1, FetchStarts DEF rowsOfChats, TheRows
  <2>5. RowsWell' /\ MirrorIsOwn' /\ StoreWell'
    BY <1>1, <2>1 DEF ListInv, RowsWell, MirrorIsOwn, StoreWell, rowsOfChats
  <2>6. LoadingWell'
    BY <1>1, <2>1, <2>2 DEF LoadingWell
  <2>7. ListIsOwn'
    BY <1>1, <2>1 DEF ListInv, ListIsOwn, ListTypes, ChatListTypeOK, NoRecord, StoreWell
  <2>8. ListIsTrue'
    BY <1>1, <2>1 DEF ListInv, ListIsTrue, ListTypes, ChatListTypeOK, StoreWell, rowsOfChats
  <2>9. ToBeTold'
    <3>1. ASSUME ~crossed, NEW c \in Conversations, joined'[c][u] # 0
          PROVE  ~Told(c)'
      BY <1>1, <2>1, <3>1
      DEF ListInv, StoreWell, ListTypes, ChatListTypeOK, rowsOfChats, Told
    <3>2. \A c \in Conversations : Awaited(c)'
      BY <1>1, <2>2 DEF Covers, Lists, UnderWay, Awaited
    <3> QED BY <1>1, <2>1, <3>1, <3>2 DEF ToBeTold
  <2> QED BY <2>3, <2>4, <2>5, <2>6, <2>7, <2>8, <2>9 DEF ListInv
<1> QED BY <1>2, <1>3

LEMMA SignsOutKeeps == ASSUME ListInv, SignsOut PROVE ListInv'
<1> USE ChatListAssumption
<1>1. /\ viewer' = NoViewer /\ bootstrapStatus' = "idle" /\ crossed' = FALSE
      /\ \A c \in Conversations : record'[c] = NoRecord /\ places'[c] = 0 /\ heard'[c] = 0
      /\ stale' = {} /\ missed' = {}
  BY DEF SignsOut, ResetChats
<1>2. UNCHANGED <<rowsOfChats, request, mirrored, asked, edits, visits, misled>>
  BY DEF SignsOut, counters
<1>3. ListTypes'
  <2>1. /\ record' \in [Conversations -> [of : Viewers \cup {NoViewer}, at : Nat]]
        /\ places' \in [Conversations -> Nat] /\ heard' \in [Conversations -> Nat]
    BY DEF SignsOut, ResetChats, NoRecord
  <2> QED BY <1>1, <1>2, <2>1 DEF ListInv, ListTypes, ChatListTypeOK, rowsOfChats
<1>4. \A j \in Fetches : RequestWell(request[j])'
  BY <1>2 DEF ListInv, RequestWell, Lists, Tells, rowsOfChats
<1>5. RowsWell'
  BY <1>1, <1>2 DEF ListInv, RowsWell, rowsOfChats, ListTypes, ChatListTypeOK
<1>6. StoreWell' /\ ToBeTold' /\ LoadingWell' /\ ListIsTrue'
  BY <1>1 DEF StoreWell, ToBeTold, LoadingWell, ListIsTrue
<1>7. ListIsOwn'
  BY <1>1 DEF ListIsOwn
<1>8. MirrorIsOwn'
  BY <1>2 DEF ListInv, MirrorIsOwn, rowsOfChats
<1> QED BY <1>3, <1>4, <1>5, <1>6, <1>7, <1>8 DEF ListInv

LEMMA BootstrapsAgainKeeps == ASSUME ListInv, BootstrapsAgain PROVE ListInv'
<1>1. /\ viewer # NoViewer /\ Fetch(viewer, "bootstrap", 0) /\ bootstrapStatus' = "loading"
      /\ UNCHANGED <<viewer, rowsOfChats, record, places, heard, stale, crossed, mirrored, edits,
                     visits, missed, misled>>
  BY DEF BootstrapsAgain, Bootstrap
<1>2. UNCHANGED woken
  BY <1>1 DEF rowsOfChats
<1> QED BY <1>1, <1>2, FetchKeeps DEF rowsOfChats, TheRows

LEMMA RequestsKeep ==
  ASSUME ListInv, SocketOpened \/ \E c \in Conversations : RefreshChat(c) \/ Leave(c)
  PROVE  ListInv'
<1>1. \E kind \in {"refresh", "get", "leave"}, d \in Conversations \cup {0} :
        (d # 0 \/ kind = "refresh") /\ Fetching(kind, d)
  <2>1. SocketOpened => Fetching("refresh", 0)
    BY DEF SocketOpened
  <2>2. \A c \in Conversations : c # 0
    BY ChatListAssumption
  <2> QED BY <2>1, <2>2 DEF RefreshChat, Leave
<1>2. PICK kind \in {"refresh", "get", "leave"}, d \in Conversations \cup {0} :
        (d # 0 \/ kind = "refresh") /\ Fetching(kind, d)
  BY <1>1
<1>3. /\ viewer # NoViewer /\ Fetch(viewer, kind, d)
      /\ UNCHANGED <<viewer, rowsOfChats, record, places, heard, stale, crossed, mirrored, edits,
                     visits, missed, misled>>
      /\ UNCHANGED bootstrapStatus /\ UNCHANGED woken
  BY <1>2 DEF Fetching, storeOfChats, rowsOfChats
<1> QED BY <1>2, <1>3, FetchKeeps DEF rowsOfChats, TheRows

LEMMA WokenKeeps ==
  ASSUME ListInv, NEW u \in Viewers, Welcomed(u) \/ WakeUpLost(u)
  PROVE  ListInv'
<1> USE ChatListAssumption
<1>1. u # NoViewer
  OBVIOUS
<1>2. CASE Welcomed(u) /\ u = viewer
  <2>1. /\ Fetch(viewer, "refresh", 0) /\ woken' = woken \ {u} /\ UNCHANGED bootstrapStatus
        /\ UNCHANGED <<viewer, TheRows, record, places, heard, stale, crossed, mirrored, edits,
                       visits, missed, misled>>
    BY <1>2 DEF Welcomed, HasSocket, storeOfChats, TheRows
  <2> QED BY <1>1, <1>2, <2>1, FetchKeeps
<1>3. CASE ~(Welcomed(u) /\ u = viewer)
  <2>1. /\ UNCHANGED <<viewer, revision, joined, been, storeOfChats, request, mirrored, asked,
                       edits, visits, misled>>
        /\ missed' \subseteq Conversations /\ missed \subseteq missed'
        /\ woken' = woken \ {u}
        /\ \/ u # viewer
           \/ \A c \in Conversations : joined[c][viewer] # 0 => c \in missed'
    BY <1>3 DEF Welcomed, WakeUpLost, HasSocket, counters, Mine, ListInv, ListTypes, ChatListTypeOK
  <2>2. ListTypes'
    BY <2>1 DEF ListInv, ListTypes, ChatListTypeOK, storeOfChats
  <2>3. \A j \in Fetches : RequestWell(request[j])'
    BY <2>1 DEF ListInv, RequestWell, Lists, Tells
  <2>4. RowsWell' /\ MirrorIsOwn' /\ StoreWell' /\ ListIsOwn' /\ LoadingWell' /\ ListIsTrue'
    BY <2>1 DEF ListInv, RowsWell, MirrorIsOwn, StoreWell, ListIsOwn, LoadingWell, UnderWay,
                ListIsTrue, Mine, storeOfChats
  <2>5. \A c \in Conversations : (Told(c)' <=> Told(c)) /\ (Awaited(c) => Awaited(c)')
    BY <2>1 DEF Told, Awaited, Covers, Lists, storeOfChats
  <2>6. ToBeTold'
    BY <2>1, <2>5 DEF ListInv, ToBeTold, storeOfChats
  <2> QED BY <2>2, <2>3, <2>4, <2>6 DEF ListInv
<1> QED BY <1>2, <1>3

-----------------------------------------------------------------------------
\* The rows change: an answer that was of the newest revision is an older one now.
RowsGo ==
  \A c \in Conversations :
    /\ revision'[c] \in Nat /\ revision'[c] >= revision[c] /\ been[c] \subseteq been'[c]
    /\ \A u \in Viewers :
         /\ joined'[c][u] \in {joined[c][u], 0, revision'[c]}
         /\ joined'[c][u] # 0 => u \in been'[c]
         /\ joined'[c][u] # joined[c][u] => revision'[c] > revision[c]

LEMMA AnswersAge ==
  ASSUME ListInv, RowsGo, NEW a \in FetchRecord, RequestWell(a)
  PROVE  RequestWell(a)'
<1>1. ASSUME NEW c \in Conversations
      PROVE  /\ revision[c] \in Nat /\ revision'[c] \in Nat /\ revision'[c] >= revision[c]
             /\ been[c] \subseteq been'[c] /\ a.at[c] \in Nat
             /\ \A u \in Viewers :
                  /\ joined[c][u] \in Nat /\ joined'[c][u] \in {joined[c][u], 0, revision'[c]}
                  /\ joined'[c][u] # joined[c][u] => revision'[c] > revision[c]
  BY DEF RowsGo, ListInv, ListTypes, ChatListTypeOK, FetchRecord
<1>2. CASE a.pc = "none"
  BY <1>2 DEF RequestWell
<1>3. CASE a.pc # "none"
  <2>1. a.by \in Viewers
    BY <1>3 DEF RequestWell
  <2>2. ASSUME NEW c \in Conversations
        PROVE  /\ a.at[c] <= revision'[c]
               /\ a.pc # "sent" =>
                    /\ c \in a.got => a.by \in been'[c]
                    /\ c \in a.got \cup a.hid /\ a.at[c] = revision'[c] => joined'[c][a.by] # 0
                    /\ Tells(a, c) /\ joined'[c][a.by] # 0 /\ a.at[c] >= joined'[c][a.by] =>
                         c \in a.got \cup a.hid
    <3>1. /\ a.at[c] <= revision[c]
          /\ a.pc # "sent" =>
               /\ c \in a.got => a.by \in been[c]
               /\ c \in a.got \cup a.hid /\ a.at[c] = revision[c] => joined[c][a.by] # 0
               /\ Tells(a, c) /\ joined[c][a.by] # 0 /\ a.at[c] >= joined[c][a.by] =>
                    c \in a.got \cup a.hid
      BY <1>3 DEF RequestWell
    <3> QED BY <1>1, <2>1, <3>1
  <2> QED BY <1>3, <2>2 DEF RequestWell, Lists, Tells
<1> QED BY <1>2, <1>3

\* What is shown and heard is not touched; who has come in is to be told.
OnlyRows ==
  /\ UNCHANGED <<viewer, storeOfChats, mirrored, asked, visits, missed, misled>>
  /\ revision' \in [Conversations -> Nat] /\ joined' \in [Conversations -> [Viewers -> Nat]]
  /\ been' \in [Conversations -> SUBSET Viewers] /\ request' \in [Fetches -> FetchRecord]
  /\ edits' \in Nat /\ woken \subseteq woken' /\ woken' \subseteq Viewers
  /\ \A c \in Conversations :
       viewer # NoViewer /\ joined'[c][viewer] \notin {0, joined[c][viewer]} =>
         viewer \in woken'
  /\ \A j \in Fetches :
       /\ RequestWell(request[j])'
       /\ Lists(request[j]) => request'[j] = request[j]
       /\ request[j].pc # "none" => request'[j].pc # "none"

LEMMA RowsGoKeeps == ASSUME ListInv, RowsGo, OnlyRows PROVE ListInv'
<1>0. UNCHANGED <<viewer, storeOfChats, mirrored, asked, visits, missed, misled>>
  BY DEF OnlyRows
<1> USE ChatListAssumption
<1>1. /\ viewer \in Viewers \cup {NoViewer}
      /\ \A c \in Conversations :
           /\ revision[c] \in Nat /\ revision'[c] \in Nat /\ revision'[c] >= revision[c]
           /\ revision[c] >= 1 /\ heard[c] \in Nat /\ heard[c] <= revision[c]
           /\ been[c] \subseteq been'[c]
           /\ \A u \in Viewers :
                /\ joined[c][u] \in Nat /\ joined'[c][u] \in {joined[c][u], 0, revision'[c]}
                /\ joined'[c][u] # 0 => u \in been'[c]
                /\ joined[c][u] <= revision[c]
                /\ joined'[c][u] # joined[c][u] => revision'[c] > revision[c]
  BY DEF RowsGo, ListInv, ListTypes, ChatListTypeOK, RowsWell
<1>2. ListTypes'
  BY <1>1 DEF OnlyRows, ListInv, ListTypes, ChatListTypeOK, storeOfChats
<1>3. RowsWell'
  <2>1. ASSUME NEW c \in Conversations, NEW u \in Viewers
        PROVE  heard'[c] <= revision'[c] /\ joined'[c][u] <= revision'[c]
    <3>1. heard'[c] = heard[c]
      BY <1>0 DEF storeOfChats
    <3> QED BY <1>1, <3>1
  <2>2. ASSUME NEW c \in Conversations PROVE heard'[c] <= revision'[c]
    <3>1. heard'[c] = heard[c]
      BY <1>0 DEF storeOfChats
    <3> QED BY <1>1, <3>1
  <2> QED BY <1>1, <2>1, <2>2 DEF RowsWell
<1>4. StoreWell' /\ ListIsOwn'
  BY <1>0 DEF ListInv, StoreWell, ListIsOwn, storeOfChats
<1>5. MirrorIsOwn'
  <2>1. \A u \in Viewers : mirrored[u] \subseteq Conversations
    BY DEF ListInv, ListTypes, ChatListTypeOK
  <2> QED BY <1>0, <1>1, <2>1 DEF ListInv, MirrorIsOwn
<1>6. LoadingWell'
  BY DEF OnlyRows, ListInv, LoadingWell, UnderWay, Lists, storeOfChats
<1>7. ListIsTrue'
  <2>1. ASSUME NEW c \in Conversations \ stale, viewer # NoViewer, heard[c] = revision'[c],
               ~crossed
        PROVE  record[c] = IF joined'[c][viewer] # 0
                           THEN [of |-> viewer, at |-> revision'[c]] ELSE NoRecord
    <3>1. revision'[c] = revision[c] /\ joined'[c][viewer] = joined[c][viewer]
      <4>1. /\ revision[c] \in Nat /\ revision'[c] \in Nat /\ heard[c] \in Nat
            /\ revision'[c] >= revision[c] /\ heard[c] <= revision[c]
            /\ joined'[c][viewer] # joined[c][viewer] => revision'[c] > revision[c]
        BY <1>1, <2>1
      <4> QED BY <2>1, <4>1
    <3>2. record[c] = IF c \in Mine(viewer)
                      THEN [of |-> viewer, at |-> revision[c]] ELSE NoRecord
      BY <2>1, <3>1 DEF ListInv, ListIsTrue
    <3> QED BY <3>1, <3>2 DEF Mine
  <2> QED BY <1>0, <2>1 DEF ListIsTrue, Mine, storeOfChats
<1>8. ToBeTold'
  <2>1. ASSUME NEW c \in Conversations, viewer # NoViewer, ~crossed, joined'[c][viewer] # 0
        PROVE  /\ c \in missed \/ Told(c)' \/ viewer \in woken' \/ Awaited(c)'
               /\ Told(c)' /\ c \notin stale => record[c] # NoRecord
    <3>1. CASE joined'[c][viewer] = joined[c][viewer]
      <4>1. (Told(c)' <=> Told(c)) /\ (Awaited(c) => Awaited(c)')
        BY <3>1 DEF OnlyRows, Told, Awaited, Covers, Lists, storeOfChats
      <4>2. woken \subseteq woken'
        BY DEF OnlyRows
      <4> QED BY <2>1, <3>1, <4>1, <4>2 DEF ListInv, ToBeTold
    <3>2. CASE joined'[c][viewer] # joined[c][viewer]
      <4>1. viewer \in woken' /\ ~Told(c)'
        BY <1>1, <2>1, <3>2 DEF OnlyRows, Told, storeOfChats
      <4> QED BY <1>0, <4>1
    <3> QED BY <3>1, <3>2
  <2> QED BY <1>0, <2>1 DEF ToBeTold, storeOfChats
<1>9. \A j \in Fetches : RequestWell(request[j])'
  BY DEF OnlyRows
<1> QED BY <1>2, <1>3, <1>4, <1>6, <1>7, <1>8, <1>9, <1>5 DEF ListInv

LEMMA SameRequestsAge ==
  ASSUME ListInv, RowsGo, NEW j \in Fetches, request'[j] = request[j]
  PROVE  RequestWell(request[j])'
<1>1. request[j] \in FetchRecord
  BY DEF ListInv, ListTypes, ChatListTypeOK
<1>2. PICK a \in FetchRecord : a = request[j]
  BY <1>1
<1>3. RequestWell(a)
  BY <1>2 DEF ListInv
<1>4. RequestWell(a)'
  BY <1>3, AnswersAge
<1> QED BY <1>2, <1>4

LEMMA JoinsKeeps ==
  ASSUME ListInv, NEW c \in Conversations, NEW u \in Viewers, Joins(c, u)
  PROVE  ListInv'
<1>1. /\ revision \in [Conversations -> Nat] /\ joined \in [Conversations -> [Viewers -> Nat]]
      /\ been \in [Conversations -> SUBSET Viewers] /\ woken \subseteq Viewers
      /\ request \in [Fetches -> FetchRecord] /\ edits \in Nat
      /\ \A d \in Conversations, v \in Viewers : joined[d][v] # 0 => v \in been[d]
  BY DEF ListInv, ListTypes, ChatListTypeOK, RowsWell
<1>2. PICK n : n = revision[c] + 1
  OBVIOUS
<1>3. /\ revision' = [revision EXCEPT ![c] = n] /\ n \in Nat /\ n > revision[c]
      /\ joined' = [joined EXCEPT ![c] = [@ EXCEPT ![u] = n]]
      /\ woken' = woken \cup {u} /\ been' = [been EXCEPT ![c] = @ \cup {u}] /\ edits' \in Nat
      /\ UNCHANGED <<viewer, storeOfChats, request, mirrored, asked, visits, missed, misled>>
  BY <1>1, <1>2 DEF Joins, Notified, Edit
<1>4. \A d \in Conversations, v \in Viewers :
        joined'[d][v] = IF d = c /\ v = u THEN n ELSE joined[d][v]
  BY <1>1, <1>3
<1>5. RowsGo
  BY <1>1, <1>3, <1>4 DEF RowsGo
<1>6. \A j \in Fetches : RequestWell(request[j])'
  BY <1>3, <1>5, SameRequestsAge
<1>7. \A d \in Conversations :
        viewer # NoViewer /\ joined'[d][viewer] \notin {0, joined[d][viewer]} => viewer \in woken'
  BY <1>3, <1>4 DEF ListInv, ListTypes, ChatListTypeOK
<1>8. OnlyRows
  <2>1. /\ revision' \in [Conversations -> Nat] /\ joined' \in [Conversations -> [Viewers -> Nat]]
        /\ been' \in [Conversations -> SUBSET Viewers]
    BY <1>1, <1>3
  <2> QED BY <1>1, <1>3, <1>6, <1>7, <2>1 DEF OnlyRows
<1> QED BY <1>5, <1>8, RowsGoKeeps

LEMMA RowsLessKeep ==
  ASSUME ListInv, NEW c \in Conversations, Rewrites(c) \/ \E u \in Viewers : PutOut(c, u)
  PROVE  ListInv'
<1>1. /\ revision \in [Conversations -> Nat] /\ joined \in [Conversations -> [Viewers -> Nat]]
      /\ been \in [Conversations -> SUBSET Viewers] /\ woken \subseteq Viewers
      /\ request \in [Fetches -> FetchRecord] /\ edits \in Nat
      /\ \A d \in Conversations, v \in Viewers : joined[d][v] # 0 => v \in been[d]
  BY DEF ListInv, ListTypes, ChatListTypeOK, RowsWell
<1>2. PICK n : n = revision[c] + 1
  OBVIOUS
<1>3. /\ revision' = [revision EXCEPT ![c] = n] /\ n \in Nat /\ n > revision[c]
      /\ \/ joined' = joined
         \/ \E u \in Viewers : joined' = [joined EXCEPT ![c] = [@ EXCEPT ![u] = 0]]
      /\ UNCHANGED <<woken, been>> /\ edits' \in Nat
      /\ UNCHANGED <<viewer, storeOfChats, request, mirrored, asked, visits, missed, misled>>
  BY <1>1, <1>2 DEF Rewrites, PutOut, Edit
<1>4. /\ joined' \in [Conversations -> [Viewers -> Nat]]
      /\ \A d \in Conversations, v \in Viewers :
           joined'[d][v] = joined[d][v] \/ (joined'[d][v] = 0 /\ d = c)
  BY <1>1, <1>3
<1>5. RowsGo
  BY <1>1, <1>3, <1>4 DEF RowsGo
<1>6. \A j \in Fetches : RequestWell(request[j])'
  BY <1>3, <1>5, SameRequestsAge
<1>7. \A d \in Conversations :
        viewer # NoViewer /\ joined'[d][viewer] \notin {0, joined[d][viewer]} => viewer \in woken'
  BY <1>4 DEF ListInv, ListTypes, ChatListTypeOK
<1>8. OnlyRows
  <2>1. revision' \in [Conversations -> Nat]
    BY <1>1, <1>3
  <2> QED BY <1>1, <1>3, <1>4, <1>6, <1>7, <2>1 DEF OnlyRows
<1> QED BY <1>5, <1>8, RowsGoKeeps

LEMMA LeaveDoneKeeps == ASSUME ListInv, NEW k \in Fetches, LeaveDone(k) PROVE ListInv'
<1>1. /\ revision \in [Conversations -> Nat] /\ joined \in [Conversations -> [Viewers -> Nat]]
      /\ been \in [Conversations -> SUBSET Viewers] /\ woken \subseteq Viewers
      /\ request \in [Fetches -> FetchRecord] /\ edits \in Nat
      /\ \A d \in Conversations, v \in Viewers : joined[d][v] # 0 => v \in been[d]
  BY DEF ListInv, ListTypes, ChatListTypeOK, RowsWell
<1>2. PICK a \in FetchRecord : a = request[k]
  BY <1>1
<1>3. /\ a.pc = "sent" /\ a.kind = "leave" /\ a.by \in Viewers /\ a.chat \in Conversations
      /\ a.got = {} /\ a.hid = {}
  BY <1>2 DEF LeaveDone, ListInv, RequestWell, Lists
<1>4. PICK c \in Conversations, u \in Viewers : c = a.chat /\ u = a.by
  BY <1>3
<1>5. /\ revision' = IF joined[c][u] = 0 THEN revision
                    ELSE [revision EXCEPT ![c] = revision[c] + 1]
      /\ joined' = [joined EXCEPT ![c] = [@ EXCEPT ![u] = 0]]
      /\ request' = [request EXCEPT ![k] = [a EXCEPT !.pc = "read", !.at = revision']]
      /\ UNCHANGED <<woken, been, edits>>
      /\ UNCHANGED <<viewer, storeOfChats, mirrored, asked, visits, missed, misled>>
  BY <1>1, <1>2, <1>4 DEF LeaveDone, counters
<1>6. /\ revision' \in [Conversations -> Nat] /\ joined' \in [Conversations -> [Viewers -> Nat]]
      /\ \A d \in Conversations, v \in Viewers :
           /\ joined'[d][v] = IF d = c /\ v = u THEN 0 ELSE joined[d][v]
           /\ revision'[d] >= revision[d]
           /\ joined'[d][v] # joined[d][v] => revision'[d] > revision[d]
      /\ \A d \in Conversations : revision'[d] >= revision[d]
  BY <1>1, <1>5
<1>7. RowsGo
  BY <1>1, <1>5, <1>6 DEF RowsGo
<1>8. PICK b : b = [a EXCEPT !.pc = "read", !.at = revision']
  OBVIOUS
<1>9. /\ request' = [request EXCEPT ![k] = b]
      /\ b.pc = "read" /\ b.kind = "leave" /\ b.chat = c /\ b.by = u /\ b.got = {} /\ b.hid = {}
      /\ b.at = revision' /\ b \in FetchRecord
  BY <1>3, <1>4, <1>5, <1>6, <1>8 DEF FetchRecord
<1>10. ASSUME NEW j \in Fetches PROVE RequestWell(request[j])'
  <2>1. CASE j # k
    BY <1>1, <1>7, <1>9, <2>1, SameRequestsAge
  <2>2. CASE j = k
    <3>1. request'[k] = b /\ joined'[c][u] = 0
      BY <1>1, <1>6, <1>9
    <3>2. RequestWell(b)'
      BY <1>6, <1>9, <3>1 DEF RequestWell, Lists, Tells
    <3> QED BY <2>2, <3>1, <3>2 DEF RequestWell, Lists, Tells
  <2> QED BY <2>1, <2>2
<1>11. \A d \in Conversations :
        viewer # NoViewer /\ joined'[d][viewer] \notin {0, joined[d][viewer]} => viewer \in woken'
  BY <1>6 DEF ListInv, ListTypes, ChatListTypeOK
<1>12. \A j \in Fetches :
         /\ Lists(request[j]) => request'[j] = request[j]
         /\ request[j].pc # "none" => request'[j].pc # "none"
  BY <1>1, <1>2, <1>3, <1>9 DEF Lists
<1>13. request' \in [Fetches -> FetchRecord]
  BY <1>1, <1>9
<1>14. OnlyRows
  BY <1>1, <1>5, <1>6, <1>10, <1>11, <1>12, <1>13 DEF OnlyRows
<1> QED BY <1>7, <1>14, RowsGoKeeps

-----------------------------------------------------------------------------
\* Request k becomes b, and no row changes.
LEMMA TurnsInto ==
  ASSUME ListInv, NEW k \in Fetches, NEW b \in FetchRecord, request' = [request EXCEPT ![k] = b],
         RequestWell(b), UNCHANGED TheRows
  PROVE  /\ request' \in [Fetches -> FetchRecord] /\ request'[k] = b
         /\ \A j \in Fetches : j # k => request'[j] = request[j]
         /\ \A j \in Fetches : RequestWell(request[j])'
<1>1. request \in [Fetches -> FetchRecord]
  BY DEF ListInv, ListTypes, ChatListTypeOK
<1>2. \A j \in Fetches : request'[j] = IF j = k THEN b ELSE request[j]
  BY <1>1
<1>3. ASSUME NEW j \in Fetches PROVE RequestWell(request[j])'
  <2>1. PICK a : a = request'[j]
    OBVIOUS
  <2>2. RequestWell(a)
    BY <1>2, <2>1 DEF ListInv
  <2> QED BY <2>1, <2>2 DEF RequestWell, Lists, Tells, TheRows
<1> QED BY <1>1, <1>2, <1>3

LEMMA NoRequestWell == NoRequest \in FetchRecord /\ RequestWell(NoRequest)
<1>1. NoRequest \in FetchRecord
  BY DEF NoRequest, FetchRecord
<1> QED BY <1>1 DEF NoRequest, RequestWell

\* What an answer has read.
LEMMA ReadKeeps ==
  ASSUME ListInv, NEW k \in Fetches, ListRead(k) \/ GetRead(k) \/ MirrorList(k)
  PROVE  ListInv'
<1> USE ChatListAssumption
<1>1. /\ request \in [Fetches -> FetchRecord] /\ revision \in [Conversations -> Nat]
      /\ joined \in [Conversations -> [Viewers -> Nat]]
      /\ been \in [Conversations -> SUBSET Viewers]
      /\ mirrored \in [Viewers -> SUBSET Conversations] /\ viewer \in Viewers \cup {NoViewer}
      /\ misled \subseteq Viewers /\ mirrored' \in [Viewers -> SUBSET Conversations]
      /\ \A c \in Conversations, u \in Viewers : joined[c][u] # 0 => u \in been[c]
  <2>1. /\ request \in [Fetches -> FetchRecord] /\ revision \in [Conversations -> Nat]
        /\ joined \in [Conversations -> [Viewers -> Nat]]
        /\ been \in [Conversations -> SUBSET Viewers]
        /\ mirrored \in [Viewers -> SUBSET Conversations] /\ viewer \in Viewers \cup {NoViewer}
        /\ misled \subseteq Viewers
        /\ \A c \in Conversations, u \in Viewers : joined[c][u] # 0 => u \in been[c]
    BY DEF ListInv, ListTypes, ChatListTypeOK, RowsWell
  <2>2. request[k].got \subseteq Conversations
    BY <2>1 DEF FetchRecord
  <2> QED BY <2>1, <2>2 DEF ListRead, GetRead, MirrorList
<1>2. PICK a \in FetchRecord : a = request[k]
  BY <1>1
<1>3. RequestWell(a)
  BY <1>2 DEF ListInv
<1>4. UNCHANGED <<viewer, rowsOfChats, storeOfChats, counters, missed>>
  BY DEF ListRead, GetRead, MirrorList
<1>5. PICK b : request' = [request EXCEPT ![k] = b] /\ b = request'[k]
  BY <1>1 DEF ListRead, GetRead, MirrorList
<1>6. /\ b \in FetchRecord /\ RequestWell(b)
      /\ \/ ~Lists(a)
         \/ b.pc \in {"read", "due"} /\ Lists(b) /\ b.by = a.by /\ b.kind = a.kind
            /\ \A c \in Conversations :
                 joined[c][viewer] # 0 /\ Covers(a, c) => Covers(b, c)
  <2>1. CASE ListRead(k)
    <3>1. /\ a.pc = "sent" /\ a.kind \in {"bootstrap", "refresh"} /\ a.by \in Viewers
          /\ b = [a EXCEPT !.pc = "read", !.got = Newest(Mine(a.by)),
                           !.hid = Mine(a.by) \ Newest(Mine(a.by)), !.at = revision]
      BY <1>1, <1>2, <1>3, <1>5, <2>1 DEF ListRead, RequestWell
    <3>2. Newest(Mine(a.by)) \subseteq Mine(a.by) /\ Mine(a.by) \subseteq Conversations
      BY DEF Newest, Mine
    <3>3. /\ b \in FetchRecord /\ b.pc = "read" /\ b.kind = a.kind /\ b.by = a.by /\ b.at = revision
          /\ b.got \cup b.hid = Mine(a.by) /\ b.got \subseteq Mine(a.by)
      BY <1>1, <3>1, <3>2 DEF FetchRecord
    <3>4. \A c \in Conversations : c \in Mine(a.by) <=> joined[c][a.by] # 0
      BY DEF Mine
    <3>5. RequestWell(b)
      BY <1>1, <3>1, <3>3, <3>4 DEF RequestWell, Lists, Tells
    <3>6. \A c \in Conversations : joined[c][a.by] <= revision[c]
      BY <3>1 DEF ListInv, RowsWell
    <3>7. \A c \in Conversations : joined[c][viewer] # 0 /\ Covers(a, c) => Covers(b, c)
      BY <3>1, <3>3, <3>4, <3>6 DEF Covers, Lists
    <3> QED BY <3>1, <3>3, <3>5, <3>7 DEF Lists
  <2>2. CASE GetRead(k)
    <3>1. /\ a.pc = "sent" /\ a.kind = "get" /\ a.by \in Viewers /\ a.chat \in Conversations
          /\ a.hid = {}
      BY <1>2, <1>3, <2>2 DEF GetRead, RequestWell, Lists
    <3>2. CASE b = NoRequest
      BY <3>1, <3>2, NoRequestWell DEF Lists
    <3>3. CASE /\ a.chat \in Mine(a.by)
               /\ b = [a EXCEPT !.pc = "read", !.got = {a.chat}, !.at = revision]
      <4>1. /\ b \in FetchRecord /\ b.pc = "read" /\ b.kind = "get" /\ b.by = a.by
            /\ b.at = revision /\ b.got = {a.chat} /\ b.hid = {} /\ b.chat = a.chat
        BY <1>1, <3>1, <3>3 DEF FetchRecord
      <4>2. joined[a.chat][a.by] # 0
        BY <3>3 DEF Mine
      <4>3. RequestWell(b)
        BY <1>1, <3>1, <4>1, <4>2 DEF RequestWell, Lists, Tells
      <4> QED BY <3>1, <4>1, <4>3 DEF Lists
    <3> QED BY <1>1, <1>2, <1>5, <2>2, <3>2, <3>3 DEF GetRead
  <2>3. CASE MirrorList(k)
    <3>1. a.pc = "read" /\ Lists(a) /\ b = [a EXCEPT !.pc = "due"]
      BY <1>1, <1>2, <1>5, <2>3 DEF MirrorList, Lists
    <3>2. /\ b \in FetchRecord /\ b.pc = "due" /\ b.kind = a.kind /\ b.by = a.by /\ b.at = a.at
          /\ b.got = a.got /\ b.hid = a.hid /\ b.chat = a.chat
      BY <3>1 DEF FetchRecord
    <3>3. RequestWell(b)
      BY <1>3, <3>1, <3>2 DEF RequestWell, Lists, Tells
    <3>4. \A c \in Conversations : Covers(a, c) => Covers(b, c)
      BY <3>1, <3>2 DEF Covers, Lists
    <3> QED BY <3>1, <3>2, <3>3, <3>4 DEF Lists
  <2> QED BY <2>1, <2>2, <2>3
<1>7. /\ request' \in [Fetches -> FetchRecord] /\ request'[k] = b
      /\ \A j \in Fetches : j # k => request'[j] = request[j]
      /\ \A j \in Fetches : RequestWell(request[j])'
  BY <1>4, <1>5, <1>6, TurnsInto DEF rowsOfChats, TheRows
<1>8. ListTypes'
  <2>1. misled' \subseteq Viewers
    BY <1>1 DEF ListRead, GetRead, MirrorList
  <2> QED BY <1>1, <1>4, <1>7, <2>1
    DEF ListInv, ListTypes, ChatListTypeOK, rowsOfChats, storeOfChats, counters
<1>9. RowsWell' /\ StoreWell' /\ ListIsOwn' /\ ListIsTrue'
  BY <1>4 DEF ListInv, RowsWell, StoreWell, ListIsOwn, ListIsTrue, Mine, rowsOfChats, storeOfChats
<1>10. LoadingWell'
  BY <1>2, <1>4, <1>6, <1>7 DEF ListInv, LoadingWell, UnderWay, Lists, storeOfChats
<1>11. MirrorIsOwn'
  <2>1. CASE UNCHANGED <<mirrored, misled>>
    BY <1>4, <2>1 DEF ListInv, MirrorIsOwn, rowsOfChats
  <2>2. CASE ~UNCHANGED <<mirrored, misled>>
    <3>1. /\ viewer \in Viewers /\ a.pc = "read"
          /\ mirrored' = [mirrored EXCEPT ![viewer] = @ \cup a.got]
          /\ misled' = IF a.by = viewer THEN misled ELSE misled \cup {viewer}
      BY <1>1, <1>2, <2>2 DEF ListRead, GetRead, MirrorList
    <3>2. a.got \subseteq Conversations /\ \A c \in a.got : a.by \in been[c]
      BY <1>3, <3>1 DEF RequestWell, FetchRecord
    <3>3. \A u \in Viewers \ misled' : \A c \in mirrored'[u] : u \in been[c]
      BY <1>1, <3>1, <3>2 DEF ListInv, MirrorIsOwn
    <3> QED BY <1>4, <3>3 DEF MirrorIsOwn, rowsOfChats
  <2> QED BY <2>1, <2>2
<1>12. ToBeTold'
  <2>1. ASSUME NEW c \in Conversations, joined[c][viewer] # 0, Awaited(c) PROVE Awaited(c)'
    <3>1. PICK j \in Fetches : Covers(request[j], c)
      BY <2>1 DEF Awaited
    <3>2. CASE j # k
      BY <1>4, <1>7, <3>1, <3>2 DEF Awaited, Covers, Lists, rowsOfChats
    <3>3. CASE j = k
      <4>1. Covers(b, c)
        BY <1>2, <1>6, <2>1, <3>1, <3>3 DEF Covers
      <4> QED BY <1>4, <1>7, <4>1 DEF Awaited, Covers, Lists, rowsOfChats
    <3> QED BY <3>2, <3>3
  <2>2. \A c \in Conversations : Told(c)' <=> Told(c)
    BY <1>4 DEF Told, rowsOfChats, storeOfChats
  <2> QED BY <1>4, <2>1, <2>2 DEF ListInv, ToBeTold, rowsOfChats, storeOfChats
<1> QED BY <1>7, <1>8, <1>9, <1>10, <1>11, <1>12 DEF ListInv

LEMMA FailsKeeps == ASSUME ListInv, NEW k \in Fetches, RequestFails(k) PROVE ListInv'
<1> USE ChatListAssumption
<1>1. /\ request[k].pc # "none" /\ request' = [request EXCEPT ![k] = NoRequest]
      /\ UNCHANGED <<viewer, rowsOfChats, record, places, heard, stale, crossed, mirrored, counters,
                     misled>>
      /\ request[k] \in FetchRecord /\ request[k].by \in Viewers
  BY DEF RequestFails, ListInv, ListTypes, ChatListTypeOK, RequestWell
<1>2. PICK a \in FetchRecord : a = request[k]
  BY <1>1
<1>3. /\ request' \in [Fetches -> FetchRecord] /\ request'[k] = NoRequest
      /\ \A j \in Fetches : j # k => request'[j] = request[j]
      /\ \A j \in Fetches : RequestWell(request[j])'
  BY <1>1, NoRequestWell, TurnsInto DEF rowsOfChats, TheRows
<1>4. /\ missed' \subseteq Conversations /\ missed \subseteq missed'
      /\ Lists(a) /\ a.by = viewer =>
           \A c \in Conversations : joined[c][viewer] # 0 => c \in missed'
      /\ a.kind = "bootstrap" => bootstrapStatus' = "error"
      /\ a.kind # "bootstrap" => bootstrapStatus' = bootstrapStatus
  BY <1>2 DEF RequestFails, Lists, Mine, ListInv, ListTypes, ChatListTypeOK
<1>5. ListTypes'
  BY <1>1, <1>3, <1>4 DEF ListInv, ListTypes, ChatListTypeOK, rowsOfChats, counters
<1>6. RowsWell' /\ ListIsOwn' /\ ListIsTrue' /\ MirrorIsOwn'
  BY <1>1 DEF ListInv, RowsWell, ListIsOwn, ListIsTrue, MirrorIsOwn, Mine, rowsOfChats
<1>7. StoreWell'
  BY <1>1, <1>4 DEF ListInv, StoreWell
<1>8. LoadingWell'
  BY <1>1, <1>2, <1>3, <1>4 DEF ListInv, LoadingWell, UnderWay
<1>9. ToBeTold'
  <2>1. ASSUME NEW c \in Conversations, joined[c][viewer] # 0, Awaited(c)
        PROVE  Awaited(c)' \/ c \in missed'
    <3>1. PICK j \in Fetches : Covers(request[j], c)
      BY <2>1 DEF Awaited
    <3>2. CASE j # k
      BY <1>1, <1>3, <3>1, <3>2 DEF Awaited, Covers, Lists, rowsOfChats
    <3>3. CASE j = k
      BY <1>2, <1>4, <2>1, <3>1, <3>3 DEF Covers
    <3> QED BY <3>2, <3>3
  <2>2. \A c \in Conversations : Told(c)' <=> Told(c)
    BY <1>1 DEF Told, rowsOfChats
  <2> QED BY <1>1, <1>4, <2>1, <2>2 DEF ListInv, ToBeTold, rowsOfChats
<1> QED BY <1>3, <1>5, <1>6, <1>7, <1>8, <1>9 DEF ListInv

\* What the list becomes of the answer of request k, about those chats.
ListReplaced(k, about) ==
  /\ request[k].pc \in {"read", "due"} /\ request[k].got \subseteq about
  /\ about \subseteq Conversations /\ \A c \in about : Tells(request[k], c)
  /\ record' \in [Conversations -> [of : Viewers \cup {NoViewer}, at : Nat]]
  /\ places' \in [Conversations -> Nat]
  /\ \A c \in Conversations :
       /\ c \notin about => record'[c] = record[c]
       /\ c \in about =>
            record'[c] = IF c \in request[k].got THEN AsRead(k, c) ELSE NoRecord
       /\ places'[c] = IF record'[c] = NoRecord THEN 0 ELSE 1
  /\ bootstrapStatus' = IF Lists(request[k]) THEN "ready" ELSE bootstrapStatus

LEMMA HearsKeeps ==
  ASSUME ListInv, NEW k \in Fetches, NEW about \in SUBSET Conversations, Hears(k, about),
         ListReplaced(k, about)
  PROVE  ListInv'
<1> USE ChatListAssumption
<1>1. request[k] \in FetchRecord /\ request \in [Fetches -> FetchRecord]
  BY DEF ListInv, ListTypes, ChatListTypeOK
<1>2. PICK a \in FetchRecord : a = request[k]
  BY <1>1
<1>3. /\ a.pc \in {"read", "due"} /\ a.got \subseteq about /\ RequestWell(a) /\ a.by \in Viewers
      /\ a.by # NoViewer /\ \A c \in about : Tells(a, c)
  BY <1>2 DEF ListReplaced, ListInv, RequestWell
<1>4. /\ UNCHANGED <<viewer, rowsOfChats, mirrored, counters, misled>>
      /\ request' = [request EXCEPT ![k] = NoRequest]
      /\ crossed' = (crossed \/ a.by # viewer)
      /\ heard' = [c \in Conversations |->
                     IF c \in a.hid /\ c \in about THEN 0
                     ELSE IF c \in about /\ a.at[c] > heard[c] THEN a.at[c] ELSE heard[c]]
      /\ stale' = {c \in Conversations : IF c \in about THEN a.at[c] < heard[c] ELSE c \in stale}
      /\ missed' = (missed \ {c \in a.got : a.at[c] = revision[c]}) \cup a.hid
  BY <1>2 DEF Hears
<1>5. /\ request' \in [Fetches -> FetchRecord] /\ request'[k] = NoRequest
      /\ \A j \in Fetches : j # k => request'[j] = request[j]
      /\ \A j \in Fetches : RequestWell(request[j])'
  BY <1>4, NoRequestWell, TurnsInto DEF rowsOfChats, TheRows
<1>6. /\ viewer \in Viewers \cup {NoViewer} /\ missed \subseteq Conversations
      /\ crossed \in BOOLEAN /\ a.got \subseteq Conversations /\ a.hid \subseteq Conversations
      /\ \A c \in Conversations :
           /\ heard[c] \in Nat /\ a.at[c] \in Nat /\ revision[c] \in Nat /\ revision[c] >= 1
           /\ heard[c] <= revision[c] /\ a.at[c] <= revision[c]
           /\ \A u \in Viewers : joined[c][u] \in Nat /\ joined[c][u] <= revision[c]
  BY <1>3 DEF ListInv, ListTypes, ChatListTypeOK, RowsWell, RequestWell, FetchRecord
<1>7. ASSUME NEW c \in Conversations
      PROVE  /\ heard'[c] \in Nat /\ heard'[c] <= revision[c]
             /\ c \in about /\ c \in a.hid => heard'[c] = 0
             /\ c \in about /\ c \notin a.hid =>
                  heard'[c] >= heard[c] /\ heard'[c] >= a.at[c] /\ heard'[c] \in {heard[c], a.at[c]}
             /\ c \notin about => heard'[c] = heard[c]
             /\ c \in about => (c \in stale' <=> a.at[c] < heard[c])
             /\ c \notin about => (c \in stale' <=> c \in stale)
             /\ c \notin about => record'[c] = record[c]
             /\ c \in about /\ c \in a.got => record'[c] = [of |-> a.by, at |-> a.at[c]]
             /\ c \in about /\ c \notin a.got => record'[c] = NoRecord
             /\ places'[c] = IF record'[c] = NoRecord THEN 0 ELSE 1
             /\ [of |-> a.by, at |-> a.at[c]] # NoRecord
  <2>1. heard'[c] = IF c \in a.hid /\ c \in about THEN 0
                    ELSE IF c \in about /\ a.at[c] > heard[c] THEN a.at[c] ELSE heard[c]
    BY <1>4
  <2>2. /\ heard'[c] \in Nat /\ heard'[c] <= revision[c]
        /\ c \in about /\ c \in a.hid => heard'[c] = 0
        /\ c \in about /\ c \notin a.hid =>
             heard'[c] >= heard[c] /\ heard'[c] >= a.at[c] /\ heard'[c] \in {heard[c], a.at[c]}
        /\ c \notin about => heard'[c] = heard[c]
    <3>1. /\ heard[c] \in Nat /\ a.at[c] \in Nat /\ revision[c] \in Nat
          /\ heard[c] <= revision[c] /\ a.at[c] <= revision[c]
      BY <1>6
    <3>2. CASE c \notin about
      BY <2>1, <3>1, <3>2
    <3>3. CASE c \in about /\ c \in a.hid
      BY <2>1, <3>1, <3>3
    <3>4. CASE c \in about /\ c \notin a.hid
      BY <2>1, <3>1, <3>4
    <3> QED BY <3>2, <3>3, <3>4
  <2>3. /\ c \in about => (c \in stale' <=> a.at[c] < heard[c])
        /\ c \notin about => (c \in stale' <=> c \in stale)
    BY <1>4
  <2>4. /\ c \notin about => record'[c] = record[c]
        /\ c \in about /\ c \in a.got => record'[c] = [of |-> a.by, at |-> a.at[c]]
        /\ c \in about /\ c \notin a.got => record'[c] = NoRecord
        /\ places'[c] = IF record'[c] = NoRecord THEN 0 ELSE 1
    BY <1>2 DEF ListReplaced, AsRead
  <2>5. [of |-> a.by, at |-> a.at[c]] # NoRecord
    BY <1>3 DEF NoRecord
  <2> QED BY <2>2, <2>3, <2>4, <2>5
<1>8. ListTypes'
  <2>1. heard' \in [Conversations -> Nat] /\ missed' \subseteq Conversations
    BY <1>4, <1>6
  <2>2. ASSUME NEW c \in Conversations, record'[c] # NoRecord PROVE record'[c].of # NoViewer
    <3>1. CASE c \in about
      <4>1. record'[c] = [of |-> a.by, at |-> a.at[c]]
        BY <1>7, <2>2, <3>1
      <4> QED BY <1>3, <4>1
    <3>2. CASE c \notin about
      <4>1. record'[c] = record[c]
        BY <1>7, <3>2
      <4> QED BY <2>2, <4>1 DEF ListInv, ListTypes
    <3> QED BY <3>1, <3>2
  <2>3. bootstrapStatus' \in {"idle", "loading", "ready", "error"}
    BY DEF ListReplaced, ListInv, ListTypes, ChatListTypeOK
  <2>4. /\ record' \in [Conversations -> [of : Viewers \cup {NoViewer}, at : Nat]]
        /\ places' \in [Conversations -> Nat]
    BY DEF ListReplaced
  <2>5. crossed' \in BOOLEAN
    BY <1>4
  <2>6. stale' \subseteq Conversations
    BY <1>4
  <2> QED BY <1>4, <1>5, <2>1, <2>2, <2>3, <2>4, <2>5, <2>6
    DEF ListInv, ListTypes, ChatListTypeOK, rowsOfChats, counters
<1>9. RowsWell' /\ MirrorIsOwn'
  BY <1>4, <1>7 DEF ListInv, RowsWell, MirrorIsOwn, rowsOfChats
<1>10. StoreWell' /\ LoadingWell'
  BY <1>1, <1>2, <1>3, <1>4, <1>5 DEF ListInv, ListReplaced, StoreWell, LoadingWell, UnderWay, Lists
<1>11. crossed' <=> (crossed \/ a.by # viewer)
  BY <1>4
<1>12. ListIsOwn'
  <2>1. ASSUME NEW c \in Conversations, record'[c] # NoRecord
        PROVE  record'[c].of = viewer \/ crossed'
    <3>1. CASE c \in about
      <4>1. record'[c] = [of |-> a.by, at |-> a.at[c]]
        BY <1>7, <2>1, <3>1
      <4> QED BY <1>11, <4>1
    <3>2. CASE c \notin about
      <4>1. record'[c] = record[c]
        BY <1>7, <3>2
      <4> QED BY <1>4, <1>11, <2>1, <4>1 DEF ListInv, ListIsOwn
    <3> QED BY <3>1, <3>2
  <2> QED BY <1>4, <1>7, <2>1 DEF ListIsOwn
<1>13. ASSUME NEW c \in about
       PROVE  /\ c \in a.got \cup a.hid /\ a.at[c] = revision[c] => joined[c][a.by] # 0
              /\ joined[c][a.by] # 0 /\ a.at[c] >= joined[c][a.by] => c \in a.got \cup a.hid
  BY <1>3 DEF RequestWell
<1>14. ListIsTrue'
  <2>1. ASSUME NEW c \in Conversations \ stale', viewer # NoViewer, heard'[c] = revision[c],
               ~crossed'
        PROVE  record'[c] = IF joined[c][viewer] # 0
                            THEN [of |-> viewer, at |-> revision[c]] ELSE NoRecord
    <3>1. viewer \in Viewers /\ a.by = viewer /\ ~crossed
      BY <1>6, <1>11, <2>1
    <3>2. /\ heard[c] \in Nat /\ heard'[c] \in Nat /\ a.at[c] \in Nat /\ revision[c] \in Nat
          /\ revision[c] >= 1 /\ heard[c] <= revision[c] /\ a.at[c] <= revision[c]
          /\ heard'[c] <= revision[c]
          /\ c \in about /\ c \in a.hid => heard'[c] = 0
          /\ c \in about /\ c \notin a.hid =>
               heard'[c] >= heard[c] /\ heard'[c] >= a.at[c] /\ heard'[c] \in {heard[c], a.at[c]}
          /\ c \notin about => heard'[c] = heard[c]
      BY <1>6, <1>7
    <3>3. c \in about => (c \in stale' <=> a.at[c] < heard[c])
      BY <1>7
    <3>4. CASE c \in about
      <4>1. a.at[c] = revision[c] /\ c \notin a.hid
        BY <2>1, <3>4, <3>2, <3>3
      <4>2. c \in a.got <=> joined[c][viewer] # 0
        BY <1>6, <1>13, <3>1, <3>4, <4>1
      <4> QED BY <1>7, <3>1, <3>4, <4>1, <4>2
    <3>5. CASE c \notin about
      <4>1. heard[c] = revision[c] /\ c \notin stale /\ record'[c] = record[c]
        BY <1>7, <2>1, <3>5
      <4>2. record[c] = IF c \in Mine(viewer)
                        THEN [of |-> viewer, at |-> revision[c]] ELSE NoRecord
        BY <2>1, <3>1, <4>1 DEF ListInv, ListIsTrue
      <4> QED BY <4>1, <4>2 DEF Mine
    <3> QED BY <3>4, <3>5
  <2> QED BY <1>4, <2>1 DEF ListIsTrue, Mine, rowsOfChats
<1>15. ToBeTold'
  <2>1. ASSUME NEW c \in Conversations, viewer # NoViewer, ~crossed', joined[c][viewer] # 0
        PROVE  /\ c \in missed' \/ Told(c)' \/ viewer \in woken \/ Awaited(c)'
               /\ Told(c)' /\ c \notin stale' => record'[c] # NoRecord
    <3>1. viewer \in Viewers /\ a.by = viewer /\ ~crossed
      BY <1>6, <1>11, <2>1
    <3>2. /\ c \in missed \/ Told(c) \/ viewer \in woken \/ Awaited(c)
          /\ Told(c) /\ c \notin stale => record[c] # NoRecord
      BY <2>1, <3>1 DEF ListInv, ToBeTold
    <3>3. /\ Told(c) <=> heard[c] >= joined[c][viewer]
          /\ Told(c)' <=> heard'[c] >= joined[c][viewer]
      BY <1>4 DEF Told, rowsOfChats
    <3>4. joined[c][viewer] \in Nat /\ joined[c][viewer] > 0 /\ joined[c][viewer] <= revision[c]
      BY <1>6, <2>1, <3>1
    <3>5. /\ heard[c] \in Nat /\ heard'[c] \in Nat /\ a.at[c] \in Nat /\ revision[c] \in Nat
          /\ revision[c] >= 1 /\ heard[c] <= revision[c] /\ a.at[c] <= revision[c]
          /\ heard'[c] <= revision[c]
          /\ c \in about /\ c \in a.hid => heard'[c] = 0
          /\ c \in about /\ c \notin a.hid =>
               heard'[c] >= heard[c] /\ heard'[c] >= a.at[c] /\ heard'[c] \in {heard[c], a.at[c]}
          /\ c \notin about => heard'[c] = heard[c]
      BY <1>6, <1>7
    <3>6. c \in about => (c \in stale' <=> a.at[c] < heard[c])
      BY <1>7
    <3>7. CASE c \in about /\ c \in a.hid
      <4>1. ~Told(c)'
        BY <3>3, <3>4, <3>7, <3>5
      <4> QED BY <1>4, <3>7, <4>1
    <3>8. CASE c \in about /\ c \notin a.hid
      <4>1. /\ heard'[c] >= heard[c] /\ heard'[c] >= a.at[c]
            /\ c \notin stale' => heard'[c] = a.at[c]
        BY <3>8, <3>5, <3>6
      <4>2. Told(c) => Told(c)'
        BY <3>3, <3>4, <3>5, <4>1
      <4>3. c \in missed => c \in missed' \/ Told(c)'
        BY <1>4, <3>3, <3>4, <3>5, <4>1
      <4>4. Awaited(c) => Told(c)' \/ Awaited(c)'
        <5>1. ASSUME NEW j \in Fetches, j # k, Covers(request[j], c) PROVE Awaited(c)'
          BY <1>4, <1>5, <5>1 DEF Awaited, Covers, Lists, rowsOfChats
        <5>2. ASSUME Covers(request[k], c) PROVE Told(c)'
          <6>1. a.at[c] >= joined[c][viewer]
            BY <1>2, <1>3, <5>2 DEF Covers
          <6> QED BY <3>3, <3>4, <3>5, <4>1, <6>1
        <5> QED BY <5>1, <5>2 DEF Awaited
      <4>5. Told(c)' /\ c \notin stale' => record'[c] # NoRecord
        BY <1>7, <1>13, <2>1, <3>1, <3>3, <3>8, <4>1
      <4> QED BY <3>2, <4>2, <4>3, <4>4, <4>5
    <3>9. CASE c \notin about
      <4>1. heard'[c] = heard[c] /\ record'[c] = record[c] /\ (c \in stale' <=> c \in stale)
        BY <1>7, <3>9
      <4>2. c \notin a.got
        BY <1>3, <3>9
      <4>3. Awaited(c) => Awaited(c)' \/ c \in missed'
        <5>1. ASSUME NEW j \in Fetches, j # k, Covers(request[j], c) PROVE Awaited(c)'
          BY <1>4, <1>5, <5>1 DEF Awaited, Covers, Lists, rowsOfChats
        <5>2. ASSUME Covers(request[k], c) PROVE c \in missed'
          BY <1>2, <1>3, <1>4, <4>2, <5>2 DEF Covers
        <5> QED BY <5>1, <5>2 DEF Awaited
      <4>4. c \in missed => c \in missed'
        BY <1>4, <4>2
      <4> QED BY <3>2, <3>3, <4>1, <4>3, <4>4
    <3> QED BY <3>7, <3>8, <3>9
  <2> QED BY <1>4, <2>1 DEF ToBeTold, rowsOfChats
<1> QED BY <1>5, <1>8, <1>9, <1>10, <1>12, <1>14, <1>15 DEF ListInv

LEMMA ComesInKeeps ==
  ASSUME ListInv, NEW k \in Fetches,
         Bootstrapped(k) \/ Refreshed(k) \/ Upserted(k) \/ Removed(k)
  PROVE  ListInv'
<1> USE ChatListAssumption
<1>1. /\ request[k] \in FetchRecord /\ RequestWell(request[k])
      /\ record \in [Conversations -> [of : Viewers \cup {NoViewer}, at : Nat]]
      /\ places \in [Conversations -> Nat]
      /\ \A c \in Conversations : places[c] = IF record[c] = NoRecord THEN 0 ELSE 1
  BY DEF ListInv, ListTypes, ChatListTypeOK, ListIsOwn
<1>2. PICK a \in FetchRecord : a = request[k]
  BY <1>1
<1>3. /\ a.pc \in {"read", "due"} /\ a.by \in Viewers /\ a.by # NoViewer
      /\ a.got \subseteq Conversations /\ RequestWell(a)
  BY <1>1, <1>2 DEF Bootstrapped, Refreshed, Upserted, Removed, RequestWell, FetchRecord
<1>4. \A c \in Conversations :
        /\ AsRead(k, c) = [of |-> a.by, at |-> a.at[c]] /\ AsRead(k, c) # NoRecord
        /\ AsRead(k, c) \in [of : Viewers \cup {NoViewer}, at : Nat]
  BY <1>2, <1>3 DEF AsRead, NoRecord, FetchRecord
<1>5. NoRecord \in [of : Viewers \cup {NoViewer}, at : Nat]
  BY DEF NoRecord
<1>6. CASE Bootstrapped(k)
  <2>1. Hears(k, Conversations) /\ Lists(a)
    BY <1>2, <1>6 DEF Bootstrapped, Lists
  <2>2. ListReplaced(k, Conversations)
    BY <1>2, <1>3, <1>4, <1>5, <1>6, <2>1 DEF Bootstrapped, ListReplaced, Tells
  <2> QED BY <2>1, <2>2, HearsKeeps
<1>7. CASE Refreshed(k)
  <2>1. Hears(k, a.got) /\ Lists(a)
    BY <1>2, <1>7 DEF Refreshed, Lists
  <2>2. ListReplaced(k, a.got)
    BY <1>1, <1>2, <1>3, <1>4, <1>5, <1>7, <2>1 DEF Refreshed, ListReplaced, Tells, Placed
  <2> QED BY <1>3, <2>1, <2>2, HearsKeeps
<1>8. CASE Upserted(k)
  <2>1. /\ Hears(k, {a.chat}) /\ ~Lists(a) /\ a.chat \in Conversations /\ a.got = {a.chat}
    BY <1>2, <1>3, <1>8 DEF Upserted, Lists, RequestWell
  <2>2. ListReplaced(k, {a.chat})
    BY <1>1, <1>2, <1>3, <1>4, <1>5, <1>8, <2>1 DEF Upserted, ListReplaced, Tells, Placed
  <2> QED BY <2>1, <2>2, HearsKeeps
<1>9. CASE Removed(k)
  <2>1. /\ Hears(k, {a.chat}) /\ ~Lists(a) /\ a.chat \in Conversations /\ a.got = {}
    BY <1>2, <1>3, <1>9 DEF Removed, Lists, RequestWell
  <2>2. ListReplaced(k, {a.chat})
    BY <1>1, <1>2, <1>3, <1>4, <1>5, <1>9, <2>1 DEF Removed, ListReplaced, Tells
  <2> QED BY <2>1, <2>2, HearsKeeps
<1> QED BY <1>6, <1>7, <1>8, <1>9

LEMMA ListStep == ListInv /\ [ChatListNext]_chatListVars => ListInv'
<1> SUFFICES ASSUME ListInv, [ChatListNext]_chatListVars PROVE ListInv'
  OBVIOUS
<1>1. CASE UNCHANGED chatListVars
  BY <1>1 DEF chatListVars, ListInv, ListTypes, ChatListTypeOK, RequestWell, Lists, Tells, RowsWell,
    StoreWell, ToBeTold, Told, Awaited, Covers, ListIsOwn, ListIsTrue, LoadingWell, MirrorIsOwn,
    Mine, UnderWay
<1>2. CASE ChatListNext
  BY <1>2, SignsInKeeps, WokenKeeps, SignsOutKeeps, BootstrapsAgainKeeps, RequestsKeep, JoinsKeeps,
     RowsLessKeep, ReadKeeps, LeaveDoneKeeps, FailsKeeps, ComesInKeeps
  DEF ChatListNext, RequestStep
<1> QED BY <1>1, <1>2

\* The list of chats has its types.
LEMMA ChatListTypesHold == ChatListSpec => []ChatListTypeOK
<1>1. ListInv => ChatListTypeOK
  BY DEF ListInv, ListTypes
<1> QED BY <1>1, ListStart, ListStep, PTL DEF ChatListSpec

LEMMA ListShows == ListInv => ListIsSound
<1> SUFFICES ASSUME ListInv PROVE ListIsWhole /\ LoadingEnds
  BY DEF ListInv, ListIsSound
<1>1. LoadingEnds
  BY DEF ListInv, ListTypes, ChatListTypeOK, LoadingWell, LoadingEnds, ScreenSays
<1>2. SUFFICES ListIsWhole
  BY <1>1
<1> SUFFICES ASSUME viewer # NoViewer, UnderWay = {}, viewer \notin woken, ~crossed,
                    NEW c \in Mine(viewer) \ (missed \cup stale)
             PROVE  c \in ShownChats
  BY DEF ListIsWhole
<1>3. c \in Conversations /\ joined[c][viewer] # 0
  BY DEF Mine
<1>4. ~Awaited(c)
  BY DEF Awaited, Covers, UnderWay
<1>5. record[c] # NoRecord
  BY <1>3, <1>4 DEF ListInv, ToBeTold
<1> QED BY <1>3, <1>5 DEF ListInv, ListIsOwn, ShownChats

-----------------------------------------------------------------------------
\* What is seen is true: the list shows the account's own chats as the newest answer had
\* them, and all of them unless one of the losses the history names came before; a chat
\* shows its own texts, one that never failed once, and the table has them for the next
\* launch; a peer that has caught up shows the reaction the sender's own screen shows,
\* unless something the code's comments rule out or accept came before; and an alert shows
\* the message it stands for and stands there once (store.ts, store-provider.tsx,
\* messages-store.ts, hooks.ts, outbox-worker.ts, provider.tsx; NotificationService.swift
\* and its twin).
THEOREM SeenHolds == ScreensSpec => []SeenIsTrue
<1>1. HistorySpec => []HistoryIsSound
  BY HistoryStart, HistoryStep, HistoryShows, PTL DEF HistorySpec
<1>2. ReactionsSpec => []ReactionsAgree
  BY ReactionsStart, ReactionsStep, ReactionsShow, PTL DEF ReactionsSpec
<1>3. PushAlertInv => PushAlertsAreRight
  BY DEF PushAlertInv, AlertWell, PushAlertsAreRight, AlertsAreRight
<1>4. PushAlertSpec => []PushAlertsAreRight
  BY PushAlertStart, PushAlertStep, <1>3, PTL DEF PushAlertSpec
<1>5. ChatListSpec => []ListIsSound
  BY ListStart, ListStep, ListShows, PTL DEF ChatListSpec
<1> QED BY <1>1, <1>2, <1>4, <1>5, PTL DEF ScreensSpec, SeenIsTrue

=============================================================================
