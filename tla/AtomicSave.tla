----------------------------- MODULE AtomicSave ----------------------------
(* What crash-durable saves promise (docs/ENGINE_PLAN.md: "rename           *)
(* atomically"): there is always exactly one whole save, its revision only  *)
(* grows while the machine runs, and a power loss falls back at most to the *)
(* revision that was made durable.                                          *)
EXTENDS Integers

VARIABLES visible,  \* the revision a load would return, 0 without a save
          floor     \* the oldest revision a power loss can leave

vars == <<visible, floor>>

Init == visible = 0 /\ floor = 0

Replace == visible' > visible /\ floor' = floor

Harden == visible' = visible /\ floor' = visible

PowerLoss == visible' \in floor .. visible /\ floor' = visible'

Spec == Init /\ [][Replace \/ Harden \/ PowerLoss]_vars
=============================================================================
