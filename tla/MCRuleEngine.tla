----------------------------- MODULE MCRuleEngine -----------------------------
(* Two engines, two rules.  structuring matches three transactions, one of them
   ingested late, so that a rule takes two batches and two engines can insert
   the same keys in opposite orders; fan_in matches one of the same. *)
EXTENDS RuleEngine

CONSTANTS t1, t2, t3

MCTransactions == {t1, t2, t3}
MCStored == {t1, t2}
MCRegistry == <<"structuring", "fan_in">>
MCMatches == [structuring |-> {t1, t2, t3}, fan_in |-> {t1}]
=============================================================================
