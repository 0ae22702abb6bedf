----------------------------- MODULE MCSendPath -----------------------------
(***************************************************************************)
(* Model-checking instances of SendPath: m1 and m2 go to one chat, m3 to   *)
(* another.                                                                *)
(***************************************************************************)
EXTENDS SendPath, TLC

CONSTANTS m1, m2, m3, chatA, chatB

OneChat  == (m1 :> chatA @@ m2 :> chatA)
TwoChats == (m1 :> chatA @@ m3 :> chatB)

PathBound == [k \in Kinds |-> IF k = "fails" THEN 2 ELSE 1]
LiveBound == [k \in Kinds |-> IF k \in {"crashes", "drops", "fails"} THEN 1 ELSE 0]
UnackedBound  == [k \in Kinds |-> IF k = "unacked" THEN 1 ELSE 0]
SnapshotBound == [k \in Kinds |-> IF k \in {"crashes", "snapshots"} THEN 1 ELSE 0]

\* Only ChatOf tells messages apart, and m1 and m2 have the same chat.
Symmetry == Permutations({m1, m2})

=============================================================================
