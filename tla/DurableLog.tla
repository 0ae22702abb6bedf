----------------------------- MODULE DurableLog -----------------------------
(***************************************************************************)
(* What the Chat durable object promises its senders, without buffers,     *)
(* serials, timers or retries: the sends it accepted become durable one by *)
(* one in the order in which they were accepted, none is ever dropped or   *)
(* un-persisted, and only durable sends are acknowledged.                  *)
(***************************************************************************)
EXTENDS Naturals, Sequences

CONSTANT Msgs

VARIABLES
  accepted,  \* the accepted sends, in order
  durable,   \* the positions of `accepted` that are persisted
  acked      \* the positions of `accepted` whose author was told so

vars == <<accepted, durable, acked>>

Init ==
  /\ accepted = << >>
  /\ durable = {}
  /\ acked = {}

Accept(m) ==
  /\ accepted' = Append(accepted, m)
  /\ UNCHANGED <<durable, acked>>

\* The oldest send that is not durable yet becomes durable.
Persist ==
  \E next \in DOMAIN accepted \ durable :
    /\ 1 .. next - 1 \subseteq durable
    /\ durable' = durable \cup {next}
    /\ UNCHANGED <<accepted, acked>>

Ack ==
  /\ acked' \in SUBSET durable
  /\ acked \subseteq acked'
  /\ UNCHANGED <<accepted, durable>>

Next == (\E m \in Msgs : Accept(m)) \/ Persist \/ Ack

Spec == Init /\ [][Next]_vars

=============================================================================
