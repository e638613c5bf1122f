---------------------------- MODULE DetectionRules ----------------------------
(***************************************************************************)
(* rule_engine/rules: what the queries of the four registered rules        *)
(* select from a table of transactions.  A window reaches back from a      *)
(* transaction and includes both ends, and so also the transactions of the *)
(* same time.  Amounts are in cents and times in units of the shortest     *)
(* window, hence integers.                                                 *)
(***************************************************************************)
EXTENDS Integers, FiniteSets, Functions

CONSTANTS
    Structuring,     \* threshold_amount, window_days, min_count, min_total
    Fan,             \* min_distinct_counterparties, window_days, min_total
    RapidMovement    \* passthrough_window, passthrough_ratio (in percent), min_amount

ASSUME StructuringAssumption ==
    Structuring \in [threshold : Nat, window : Nat, min_count : Nat, min_total : Nat]
ASSUME FanAssumption ==
    Fan \in [min_distinct : Nat, window : Nat, min_total : Nat]
ASSUME RapidMovementAssumption ==
    RapidMovement \in [window : Nat, ratio : Nat, min_amount : Nat]

RuleCodes == {"STRUCTURING_001", "FAN_IN_001", "FAN_OUT_001", "RAPID_MOVEMENT_001"}

Total(rows) == SumFunction([row \in rows |-> row.amount])

(* Variant: a window that leaves its first instant out. *)
HalfOpenWindow(rows, t, length) == {o \in rows : t.at - length < o.at /\ o.at <= t.at}

(* The rows in the window of the given length that ends with t. *)
Window(rows, t, length) == {o \in rows : t.at - length <= o.at /\ o.at <= t.at}

-----------------------------------------------------------------------------
(* Small payments of one sender that add up. *)
SubThreshold(table) == {t \in table : t.amount <= Structuring.threshold}

StructuringMatches(table) ==
    {t \in SubThreshold(table) :
        LET sent == {o \in SubThreshold(table) : o.sender = t.sender}
            window == Window(sent, t, Structuring.window)
        IN  /\ Cardinality(window) >= Structuring.min_count
            /\ Total(window) >= Structuring.min_total}

(* One account, the hub, dealing with many others.  hub_col and counterparty_col
   are the two account columns, one way round for each of the two rules. *)
FanMatches(table, hub_col, counterparty_col) ==
    {t \in table :
        LET window == Window({o \in table : o[hub_col] = t[hub_col]}, t, Fan.window)
        IN  /\ Cardinality({o[counterparty_col] : o \in window}) >= Fan.min_distinct
            /\ Total(window) >= Fan.min_total}

FanIn(table) == FanMatches(table, "receiver", "sender")
FanOut(table) == FanMatches(table, "sender", "receiver")

(* A payment that forwards most of what its sender has just received.  The
   quotient of the query is compared without dividing. *)
RapidMovementMatches(table) ==
    {t \in table :
        LET received == {o \in table : /\ o.receiver = t.sender
                                       /\ o.amount >= RapidMovement.min_amount}
            inbound == Total(Window(received, t, RapidMovement.window))
        IN  /\ t.amount >= RapidMovement.min_amount
            /\ inbound > 0
            /\ 100 * t.amount >= RapidMovement.ratio * inbound}

Matching(code, table) ==
    CASE code = "STRUCTURING_001" -> StructuringMatches(table)
      [] code = "FAN_IN_001" -> FanIn(table)
      [] code = "FAN_OUT_001" -> FanOut(table)
      [] code = "RAPID_MOVEMENT_001" -> RapidMovementMatches(table)

(* The account an alert is raised on. *)
AlertedAccount(code, t) == IF code = "FAN_IN_001" THEN t.receiver ELSE t.sender

Candidates(code, table) ==
    {[rule_code |-> code, transaction_id |-> t.id, account_id |-> AlertedAccount(code, t)] :
        t \in Matching(code, table)}

-----------------------------------------------------------------------------
(* What the rules are for, said of sets of transactions rather than of windows. *)

(* Transactions that lie within one window of each other. *)
Close(S, length) == \A t, o \in S : t.at - o.at <= length

SameHub(S, hub_col) == \A t, o \in S : t[hub_col] = o[hub_col]

IsStructured(S) ==
    /\ SameHub(S, "sender")
    /\ Close(S, Structuring.window)
    /\ \A t \in S : t.amount <= Structuring.threshold
    /\ Cardinality(S) >= Structuring.min_count
    /\ Total(S) >= Structuring.min_total

IsFan(S, hub_col, counterparty_col) ==
    /\ SameHub(S, hub_col)
    /\ Close(S, Fan.window)
    /\ Cardinality({t[counterparty_col] : t \in S}) >= Fan.min_distinct
    /\ Total(S) >= Fan.min_total

(* The typology a rule is named for.  Rapid movement has none: how much an
   account forwards depends on all it received. *)
IsIncident(code, S) ==
    \/ code = "STRUCTURING_001" /\ IsStructured(S)
    \/ code = "FAN_IN_001" /\ IsFan(S, "receiver", "sender")
    \/ code = "FAN_OUT_001" /\ IsFan(S, "sender", "receiver")

Latest(S) == {t \in S : \A o \in S : o.at <= t.at}
=============================================================================
