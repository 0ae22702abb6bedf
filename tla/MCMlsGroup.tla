----------------------------- MODULE MCMlsGroup -----------------------------
(***************************************************************************)
(* The MLS side of the app: one group on three devices (MlsGroup), and the *)
(* KeyPackage pool of one device (KeyPool). They share no state; `half`    *)
(* is chosen at the start and names the one that steps.                    *)
(***************************************************************************)
EXTENDS MlsGroup, KeyPool, TLC

CONSTANTS alice, bob, carol

\* Two calls of tick() may overlap on one device.
MCTicks == ({alice, bob, carol} \X {0}) \cup {<<bob, 1>>}

VARIABLE half

MlsInit == half \in {"group", "keys"} /\ Init /\ KeyPoolInit

MlsNext ==
  /\ UNCHANGED half
  /\ \/ half = "group" /\ Next /\ UNCHANGED keyVars
     \/ half = "keys" /\ KeyPoolNext /\ UNCHANGED vars

MlsFairness ==
  /\ \A d \in Devices : WF_vars(half = "group" /\ OpStep(d))
  /\ \A t \in Ticks : WF_vars(half = "group" /\ TickStep(t))
  /\ WF_keyVars(half = "keys" /\ Ready)
  /\ \A t \in TopUps : WF_keyVars(half = "keys" /\ TopsUp(t))

MlsSpec == MlsInit /\ [][MlsNext]_<<half, vars, keyVars>> /\ MlsFairness

\* Each half's variables have their types.
TypesOK == TypeOK /\ KeyPoolTypeOK

\* EventuallyConverged where the group steps: every member of the tree ends up at
\* the newest epoch.
DevicesConverge == <>[](half = "group" => ConvergedOrForked)

\* PoolIsStocked where the pool steps: every launch fills it, or ends.
KeysAreStocked == []<>(half = "keys" => Stocked)

=============================================================================
