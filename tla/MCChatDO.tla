------------------------------ MODULE MCChatDO ------------------------------
(***************************************************************************)
(* Model-checking instances of ChatDO: two users, one of whom wrote m1 and *)
(* m3.                                                                     *)
(***************************************************************************)
EXTENDS ChatDO, TLC

CONSTANTS alice, bob, m1, m2, m3, f1, f2

MCUsers  == {alice, bob}
MCSender == (m1 :> alice @@ m2 :> bob @@ m3 :> alice)
TwoMsgs    == {m1, m2}
TwoSender  == (m1 :> alice @@ m2 :> bob)

SlotSymmetry == Permutations(Flushes)

=============================================================================
