---------------------------- MODULE MCSharedTables ----------------------------
(* Model values and bounds for SharedTables. *)
EXTENDS SharedTables, TLC

CONSTANTS l1, l2, x, y, z, u, v, r1, r2, r3, r4

MCLoaders == {l1, l2}

Row(ref, orig, bene, amount, at) ==
    [ref |-> ref, orig |-> orig, bene |-> bene, amount |-> amount, at |-> at]

(* Windows of one unit, two payments of at most 2 that make 3, two
   counterparties and 3 in all, four fifths of 2 or more. *)
MCStructuring == [threshold |-> 2, window |-> 1, min_count |-> 2, min_total |-> 3]
MCFan == [min_distinct |-> 2, window |-> 1, min_total |-> 3]
MCRapidMovement == [window |-> 1, ratio |-> 80, min_amount |-> 2]

MCRegistry == {"STRUCTURING_001", "FAN_OUT_001"}
MCLaundering == {r1, r2}

(* Three accounts and two payments: on the bounds of every rule and beside
   them, one way, the other way, forwarded, and to oneself. *)
FirstWith(from, to, amount, at, before) ==
    [accounts |-> <<x, y, z>>,
     transactions |-> <<Row(r1, x, y, before, 0), Row(r2, from, to, amount, at)>>]

First ==
    {FirstWith(pair[1], pair[2], amount, at, before) :
        pair \in {<<x, y>>, <<x, z>>, <<z, y>>, <<y, z>>, <<y, y>>},
        amount \in {1, 2}, at \in {1, 2}, before \in {2, 3}}

(* A later delivery: another account, payments with accounts of the first one,
   and a reference that may have been used before. *)
Second(ref) ==
    [accounts |-> <<u>>, transactions |-> <<Row(r3, x, u, 2, 1), Row(ref, u, y, 2, 1)>>]

(* One that is also something on its own, with the numbers of the first. *)
Later ==
    [accounts |-> <<u, v>>, transactions |-> <<Row(r3, u, v, 1, 1), Row(r4, x, u, 2, 1)>>]

(* The same accounts in another order, so that their numbers mean others. *)
Renumbered ==
    [accounts |-> <<z, x, y>>,
     transactions |-> <<Row(r3, z, x, 2, 1), Row(r4, x, y, 1, 1)>>]

(* Loads only; then a scan, which may find two candidates; then a tool call. *)
LoadSources ==
    {{first} : first \in First} \cup {{FirstWith(x, z, 1, 1, 2), Second(ref)} : ref \in {r2, r4}}

ScanSources == {{FirstWith(x, z, 2, 0, 2), Later}}

CallSources == {{FirstWith(x, z, 2, 1, 2), Renumbered}}

MCSources == LoadSources \cup ScanSources \cup CallSources
MCMaxScans == [s \in MCSources |-> IF s \in ScanSources THEN 1 ELSE 0]
MCMaxCalls == [s \in MCSources |-> IF s \in CallSources THEN 1 ELSE 0]

(* A pattern over two days, and one scan. *)
MCPatternSources == {{FirstWith(x, z, 1, 1, 2)}}
MCPatternScans == [s \in MCPatternSources |-> 1]
MCPatternCalls == [s \in MCPatternSources |-> 0]

Request(tool, type, ref, limit) ==
    [tool |-> tool, type |-> type, ref |-> ref, days_back |-> 1, limit |-> limit,
     min_interactions |-> 1]

MCKnown == {<<"account", x>>, <<"customer", x>>, <<"account", y>>}

MCRequests ==
    {Request("get_transaction_history", "account", x, 2),
     Request("get_transaction_history", "account", y, 1),
     Request("get_linked_accounts", "account", x, 2),
     Request("get_linked_accounts", "account", y, 0),
     Request("get_customer_profile", "account", x, 1),
     Request("get_customer_profile", "customer", x, 1),
     Request("get_alert_history", "account", x, 1),
     Request("get_alert_history", "account", z, 1)}
=============================================================================
