--------------------------- MODULE MCInvestigation ---------------------------
(* Model values and bounds for Investigation. *)
EXTENDS Investigation, TLC

CONSTANTS w1, w2, a1, t1

MCWorkers == {w1, w2}
MCAlerts == {a1}
MCTools == {t1}

(* A dismissal of a severity that is left to the agent and one of a severity that
   is not, and the two other kinds of action; the decision_pipeline run has the
   severities in between. *)
Proposal(action, severity, text) ==
    [action |-> action, severity |-> severity, narrative |-> text]

MCProposals ==
    {Proposal("close_false_positive", s, {"words"}) : s \in {2, 4}}
    \cup {Proposal("close_sar_filed", 4, {"words"}),
          Proposal("escalate", 4, {"words"})}

MCSeverity == [a \in MCAlerts |-> 5]

MCRulings == {"under_review", "closed_sar_filed"}
=============================================================================
