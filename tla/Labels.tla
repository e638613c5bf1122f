-------------------------------- MODULE Labels --------------------------------
(***************************************************************************)
(* eval/labels.py and scripts/eval_rules.py: alerts scored against the     *)
(* labels of the simulation, by pairs of an account and a day.             *)
(***************************************************************************)
EXTENDS Integers, FiniteSets

CONSTANTS
    Laundering,    \* references of the rows the simulation labels is_sar
    DayLength      \* how many units of time a day has

ASSUME DayAssumption == DayLength \in Nat \ {0}

IsLaundering(t) == t.ref \in Laundering

DayOf(t) == t.at \div DayLength

(* By sender, whatever the pattern. *)
ground_truth_account_days(transactions) ==
    {<<t.sender, DayOf(t)>> : t \in {t \in transactions : IsLaundering(t)}}

(* By the account the alert is on, and the day of its transaction. *)
alert_account_days(code, alerts, transactions) ==
    {<<pair[1].account_id, DayOf(pair[2])>> :
        pair \in {p \in alerts \X transactions :
                    p[1].rule_code = code /\ p[1].transaction_id = p[2].id}}

(* _metrics, as the sets it counts. *)
TruePositives(alerted, truth) == alerted \cap truth
FalseNegatives(alerted, truth) == truth \ alerted
=============================================================================
