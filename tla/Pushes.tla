------------------------------- MODULE Pushes -------------------------------
(***************************************************************************)
(* The push pipeline in its two parts: whom an event is sent for           *)
(* (PushFanout) and what asking the notification services does to the      *)
(* tokens (PushAdapters).  An event that PushFanout notifies a device of   *)
(* is a request of PushAdapters; they share no variable.                   *)
(***************************************************************************)
EXTENDS PushFanout, PushAdapters

PushSpec == PushFanoutSpec /\ PushAdaptersSpec

\* A push reaches who has no socket: nobody is left out of the fan-out (NobodyIsMissed),
\* and the adapters neither drop a row that works nor leave a connection behind
\* (OnlyDeadRowsGo, OneClient; lambda.ts dispatch(), apns.ts, fcm.ts).
PushesArrive == NobodyIsMissed /\ OnlyDeadRowsGo /\ OneClient

=============================================================================
