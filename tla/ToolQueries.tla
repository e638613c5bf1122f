----------------------------- MODULE ToolQueries -----------------------------
(***************************************************************************)
(* tools/: what the queries behind the agent's tools select from the       *)
(* tables.  The date columns of a link and the formatting of rows are left *)
(* out; `days' is in the units of the times of the transactions.           *)
(***************************************************************************)
EXTENDS Integers, FiniteSets, FiniteSetsExt, Functions

(* The window of get_transaction_history and get_linked_accounts reaches back
   from the account's own latest transaction. *)
InWindow(id, days, transactions) ==
    LET own == {t \in transactions : id \in {t.sender, t.receiver}}
    IN  {t \in own : \A o \in own : o.at - days <= t.at}

(* ORDER BY column DESC LIMIT limit: ties are cut anywhere. *)
Top(rows, column, limit) ==
    {S \in kSubset(Min({limit, Cardinality(rows)}), rows) :
        \A s \in S, r \in rows \ S : r[column] <= s[column]}

(* UNION ALL of the two directions: one edge per transaction and direction. *)
Edges(id, window) ==
    {[counterparty |-> t.receiver, direction |-> "sent", row |-> t] :
        t \in {t \in window : t.sender = id}}
    \cup
    {[counterparty |-> t.sender, direction |-> "received", row |-> t] :
        t \in {t \in window : t.receiver = id}}

DirectionSummary(directions) ==
    CASE directions = {"sent", "received"} -> "both"
      [] directions = {"sent"} -> "sent_only"
      [] directions = {"received"} -> "received_only"

Volume(edges) == SumFunction([e \in edges |-> e.row.amount])

(* GROUP BY counterparty_id, with at least min_interactions edges. *)
Links(id, days, min_interactions, transactions) ==
    LET edges == Edges(id, InWindow(id, days, transactions))
        with(c) == {e \in edges : e.counterparty = c}
    IN  {[counterparty |-> c,
          direction |-> DirectionSummary({e.direction : e \in with(c)}),
          volume |-> Volume(with(c)),
          count |-> Cardinality(with(c))] :
            c \in {e.counterparty : e \in {e \in edges :
                     Cardinality(with(e.counterparty)) >= min_interactions}}}

(* get_customer_profile: the customer joined to the account of a reference, or
   the one of the reference itself. *)
CustomersOf(type, ref, accounts, customers) ==
    {c \in customers :
        IF type = "account" THEN \E a \in accounts : a.customer_id = c.id /\ a.ref = ref
                            ELSE c.ref = ref}

(* get_alert_history: the alerts shown and the number there are. *)
AlertsOn(id, alerts) == {alert \in alerts : alert.account_id = id}
=============================================================================
