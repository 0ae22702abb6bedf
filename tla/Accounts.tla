------------------------------ MODULE Accounts ------------------------------
(***************************************************************************)
(* The accounts of one app, one signed in at a time: the database of the   *)
(* account (AccountDb) and its MLS engine (EngineLoop).  Each follows the  *)
(* auth store for itself; they share no variable.                          *)
(***************************************************************************)
EXTENDS AccountDb, EngineLoop

AccountsSpec == AccountDbSpec /\ EngineLoopSpec

\* One account at a time, through switches: its handle, its files and its passphrase
\* (DatabaseIsSound), and its MLS snapshot and client (EngineIsSound).
OneAccountAtATime == DatabaseIsSound /\ EngineIsSound

=============================================================================
