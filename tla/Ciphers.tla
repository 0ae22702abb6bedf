------------------------------ MODULE Ciphers ------------------------------
(***************************************************************************)
(* What one device needs to write a chat and to read it: a cipher and a    *)
(* frame for every row (Sealing), and the keys of the peers (PeerKeys).    *)
(* The send path and the directory's mirror share no variable.             *)
(***************************************************************************)
EXTENDS Sealing, PeerKeys

CiphersSpec == SealingSpec /\ PeerKeysSpec

\* What is sealed can be opened, by the right cipher (SealingIsSound), with the peers' keys
\* (PeersAreKnown).
SealedIsOpened == SealingIsSound /\ PeersAreKnown
=============================================================================
