----------------------------- MODULE MCEvalHarness -----------------------------
(* Two evaluations in a row whose samples overlap, one retry, and an applied
   status of either kind.  A target of one is less than there are strata. *)
EXTENDS EvalHarness

CONSTANTS a1, a2, a3

MCAlerts == {a1, a2, a3}
MCStrata == <<{a1, a2}, {a3}>>
MCLaundering == {a1, a2}
MCTargetSizes == {1}
MCLimits == {1, 3}
MCApplied == {"escalated", "closed_no_action"}
=============================================================================
