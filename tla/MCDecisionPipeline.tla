-------------------------- MODULE MCDecisionPipeline --------------------------
(* Inputs for DecisionPipeline: every combination the policies tell apart, and
   messages on which the extraction strategies disagree. *)
EXTENDS DecisionPipeline

MCPayloads ==
    [action : AgentActions \cup {"file_sar"}, severity : {0, 2, 3, 4, 5},
     narrative : Narratives \cup {{"not_text"}}]

Good == [action |-> "close_no_action", severity |-> 1, narrative |-> {"words"}]
Bad == [action |-> "escalate", severity |-> 6, narrative |-> {"words"}]
NoNarrative == [action |-> "escalate", severity |-> 5]

MCMessages ==
    {<<>>, <<{}, {}, {}>>, <<{}, {Good}, {}>>, <<{}, {}, {Good}>>, <<{}, {Bad}, {Good}>>,
     <<{}, {NoNarrative}, {Good}>>, <<{NoNarrative}, {}, {}>>}
    \cup {<<{p}, {}, {}>> : p \in MCPayloads}

MCRecords == {<<>>, <<"customer_profile">>, <<"alert_history", "alert_history">>}

(* policies.py, then validation.py, as engine.py imports them. *)
MCRegistry ==
    <<"ACTION_INVALID_ENUM", "NARRATIVE_MISSING", "NO_EVIDENCE_TRAIL",
      "INVALID_LIFECYCLE_STATE", "HIGH_SEV_DISMISSAL_BLOCK", "MID_SEV_DISMISSAL_REVIEW",
      "SAR_FILING_REVIEW", "PII_LEAK_SUSPECTED", "LLM_ARTIFACT_DETECTED">>
=============================================================================
