------------------------------ MODULE Guardrails ------------------------------
(***************************************************************************)
(* The vocabulary of an investigation (alert statuses, agent actions,      *)
(* verdicts) and the guardrail policies as pure operators on a decision.   *)
(*                                                                         *)
(* A guardrail in the code is a class with an evaluate() method; here it   *)
(* is an operator from a decision to a verdict.  Reasons are wording and   *)
(* left out.  A narrative is abstracted to the features some guardrail     *)
(* tells apart: whether it has any text beyond white space ("words"),      *)
(* whether the PII patterns match it and whether the chat-artifact         *)
(* patterns match it.                                                      *)
(***************************************************************************)
EXTENDS Integers

Dismissals == {"closed_false_positive", "closed_no_action"}
Closed == Dismissals \cup {"closed_sar_filed"}
AlertStatus == {"open", "under_review", "escalated"} \cup Closed

DismissalActions == {"close_false_positive", "close_no_action"}
AgentActions == DismissalActions \cup {"escalate", "close_sar_filed"}

Verdicts == {"pass", "requires_review", "block"}

(* A blank narrative matches no pattern; any other may match either kind. *)
Narratives == {{}} \cup {{"words"} \cup S : S \in SUBSET {"pii", "artifact"}}

(* AgentDecision.  tools is the set of tool names behind the decision: the
   code keeps a duplicate-free list whose order no guardrail looks at. *)
Decisions(Tools) ==
    [current_status : AlertStatus, action : AgentActions, severity : 1..5,
     narrative : Narratives, tools : SUBSET Tools]

-----------------------------------------------------------------------------
(* One operator per guardrail, in the order of their registration. *)

PassUnless(objection, verdict) == IF objection THEN verdict ELSE "pass"

ActionEnum(d) == PassUnless(d.action \notin AgentActions, "block")

NarrativeRequired(d) == PassUnless("words" \notin d.narrative, "block")

(* Variant: only dismissals need evidence. *)
EvidenceTrailOfDismissals(d) ==
    PassUnless(d.tools = {} /\ d.action \in DismissalActions, "block")

EvidenceTrail(d) == PassUnless(d.tools = {}, "block")

ActionableStates == {"open", "under_review"}

(* Variant: a filed SAR is not looked for. *)
LifecycleStateOfDismissed(d) == PassUnless(d.current_status \in Dismissals, "block")

LifecycleState(d) == PassUnless(d.current_status \notin ActionableStates, "block")

(* Variant: the threshold is off by one. *)
TopSeverityDismissal(d) ==
    PassUnless(d.action \in DismissalActions /\ d.severity > 4, "block")

HighSeverityDismissal(d) ==
    PassUnless(d.action \in DismissalActions /\ d.severity >= 4, "block")

MidSeverityDismissalReview(d) ==
    PassUnless(d.action \in DismissalActions /\ d.severity = 3, "requires_review")

SARFilingReview(d) == PassUnless(d.action = "close_sar_filed", "requires_review")

PiiLeak(d) == PassUnless("pii" \in d.narrative, "block")

LlmArtifact(d) == PassUnless("artifact" \in d.narrative, "block")

(* REGISTRY: what every registered guardrail answers on d, by its code. *)
Answers(d) ==
    [ACTION_INVALID_ENUM      |-> ActionEnum(d),
     NARRATIVE_MISSING        |-> NarrativeRequired(d),
     NO_EVIDENCE_TRAIL        |-> EvidenceTrail(d),
     INVALID_LIFECYCLE_STATE  |-> LifecycleState(d),
     HIGH_SEV_DISMISSAL_BLOCK |-> HighSeverityDismissal(d),
     MID_SEV_DISMISSAL_REVIEW |-> MidSeverityDismissalReview(d),
     SAR_FILING_REVIEW        |-> SARFilingReview(d),
     PII_LEAK_SUSPECTED       |-> PiiLeak(d),
     LLM_ARTIFACT_DETECTED    |-> LlmArtifact(d)]

GuardrailCodes ==
    {"ACTION_INVALID_ENUM", "NARRATIVE_MISSING", "NO_EVIDENCE_TRAIL",
     "INVALID_LIFECYCLE_STATE", "HIGH_SEV_DISMISSAL_BLOCK",
     "MID_SEV_DISMISSAL_REVIEW", "SAR_FILING_REVIEW",
     "PII_LEAK_SUSPECTED", "LLM_ARTIFACT_DETECTED"}

-----------------------------------------------------------------------------
(* _PRECEDENCE and _worse: BLOCK dominates REQUIRES_REVIEW dominates PASS. *)
Precedence == [pass |-> 0, requires_review |-> 1, block |-> 2]

Worse(a, b) == IF Precedence[a] >= Precedence[b] THEN a ELSE b

(* The verdict of all guardrails together, independent of the order the
   engine runs them in: DecisionPipeline shows its loop computes exactly it. *)
Verdict(d) ==
    LET given == {Answers(d)[code] : code \in GuardrailCodes}
    IN  CHOOSE v \in given : \A u \in given : Precedence[v] >= Precedence[u]

(* _ACTION_TO_STATUS and _resolve_final_status. *)
ActionToStatus ==
    [escalate |-> "escalated",
     close_false_positive |-> "closed_false_positive",
     close_no_action |-> "closed_no_action",
     close_sar_filed |-> "closed_sar_filed"]

(* Variant: the action is taken for the status it leads to. *)
ResolveToAction(verdict, d) ==
    IF verdict = "pass" THEN d.action
    ELSE IF verdict = "requires_review" THEN "under_review" ELSE "escalated"

ResolveFinalStatus(verdict, d) ==
    IF verdict = "pass" THEN ActionToStatus[d.action]
    ELSE IF verdict = "requires_review" THEN "under_review" ELSE "escalated"
=============================================================================
