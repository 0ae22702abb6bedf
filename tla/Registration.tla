---------------------------- MODULE Registration ----------------------------
(***************************************************************************)
(* The install as the server knows it: its identity and the published row  *)
(* (Identity), and the push token that row has (PushTokens).  Both are     *)
(* kept up by subscribers of the auth store; they share no variable.       *)
(***************************************************************************)
EXTENDS Identity, PushTokens

RegistrationSpec == IdentitySpec /\ PushTokensSpec

\* The device keeps its identity and the server knows it: one id and seed (IdentityIsKept),
\* and a push token bound to the account's device row (RegisteredIsBound).
DeviceIsRegistered == IdentityIsKept /\ RegisteredIsBound

=============================================================================
