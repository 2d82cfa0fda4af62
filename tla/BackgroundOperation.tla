------------------------- MODULE BackgroundOperation -------------------------
(***************************************************************************)
(* What the user is promised about a background operation of the main      *)
(* window, and nothing about how it is done: there is one operation at a   *)
(* time, its outcome is applied to the window at most once and only while  *)
(* nobody has asked to cancel it, and every operation ends.                *)
(***************************************************************************)

VARIABLES
  op,       \* "idle", "running" or "cancelling"
  applied   \* the outcome of the current operation was applied

opVars == <<op, applied>>

OpInit == op = "idle" /\ applied = FALSE

Begin == op = "idle" /\ op' = "running" /\ applied' = FALSE

Apply == op = "running" /\ ~applied /\ applied' = TRUE /\ UNCHANGED op

RequestCancel == op = "running" /\ op' = "cancelling" /\ UNCHANGED applied

End == op # "idle" /\ op' = "idle" /\ applied' = FALSE

\* An operation may be chained to the one that ends, with no idle gap.
EndAndBegin == op = "running" /\ op' = "running" /\ applied' = FALSE

OpNext == Begin \/ Apply \/ RequestCancel \/ End \/ EndAndBegin

OpSpec == OpInit /\ [][OpNext]_opVars
=============================================================================
