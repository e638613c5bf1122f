------------------------------ MODULE RuleEngine ------------------------------
(***************************************************************************)
(* runner.py: run_all_rules, by several engine processes at once, over one *)
(* alerts table with the unique constraint (rule_code, transaction_id).    *)
(*                                                                         *)
(* What a rule looks for is its query; here a rule reports, in any order   *)
(* (no query has an ORDER BY), the stored transactions it matches.  The    *)
(* multi-row INSERT ... ON CONFLICT DO NOTHING is taken row by row, the    *)
(* way Postgres executes it: a row is skipped if its key is committed, and *)
(* waited for while another open transaction holds its key.                *)
(*                                                                         *)
(* Bound: MaxRuns runs are started.                                        *)
(***************************************************************************)
EXTENDS Integers, Sequences, FiniteSets, FiniteSetsExt, SequencesExt

CONSTANTS
    Engines,        \* processes that call run_all_rules
    Transactions,   \* rows that the transactions table may come to hold
    Stored,         \* those it holds at the start
    REGISTRY,       \* the rule codes, in the order of registration
    Matches,        \* for every rule code, the transactions it matches
    BATCH_SIZE,     \* rows of one INSERT
    MaxRuns

Rules == {REGISTRY[i] : i \in DOMAIN REGISTRY}

ASSUME RuleEngineAssumption ==
    /\ IsFiniteSet(Transactions) /\ IsFiniteSet(Engines)
    /\ Stored \subseteq Transactions
    /\ REGISTRY \in Seq(Rules)
    /\ IsInjective(REGISTRY)
    /\ Matches \in [Rules -> SUBSET Transactions]
    /\ BATCH_SIZE \in Nat \ {0}
    /\ MaxRuns \in Nat

VARIABLES
    stored,   \* rows of transactions
    alerts,   \* committed rows of alerts, by their key <<rule, transaction>>
    held,     \* keys inserted by the open transaction of every engine
    pc,       \* idle, evaluate, insert, report
    run,      \* local variables of every engine
    reports,  \* the rule_completed audit rows
    started,  \* how many rule_engine_started audit rows there are
    ended     \* the runs with a rule_engine_completed audit row

vars == <<stored, alerts, held, pc, run, reports, started, ended>>

Keys == Rules \X Transactions

(* rule: position in REGISTRY; found: the candidates of the rule, queue: those
   still to insert; filled: rows in the current INSERT; inserted: row counts
   of the INSERTs committed so far. *)
Fresh(id, dry_run, rule) ==
    [id |-> id, dry_run |-> dry_run, rule |-> rule, found |-> {}, queue |-> <<>>,
     filled |-> 0, inserted |-> 0]

NoRun == Fresh(0, FALSE, 1)

Runs ==
    [id : 0..MaxRuns, dry_run : BOOLEAN, rule : 1..(Len(REGISTRY) + 1), found : SUBSET Keys,
     queue : Seq(Keys), filled : 0..BATCH_SIZE, inserted : Nat]

Reports == [run : 0..MaxRuns, rule : Rules, found : SUBSET Keys, inserted : Nat]

TypeOK ==
    /\ stored \subseteq Transactions
    /\ alerts \subseteq Keys
    /\ held \in [Engines -> SUBSET Keys]
    /\ pc \in [Engines -> {"idle", "evaluate", "insert", "report"}]
    /\ run \in [Engines -> Runs]
    /\ reports \subseteq Reports
    /\ started \in 0..MaxRuns
    /\ ended \subseteq 0..MaxRuns

Init ==
    /\ stored = Stored
    /\ alerts = {}
    /\ held = [e \in Engines |-> {}]
    /\ pc = [e \in Engines |-> "idle"]
    /\ run = [e \in Engines |-> NoRun]
    /\ reports = {}
    /\ started = 0
    /\ ended = {}

-----------------------------------------------------------------------------
(* External: run_ingestion commits another transaction. *)
Ingest ==
    /\ \E t \in Transactions \ stored : stored' = stored \cup {t}
    /\ UNCHANGED <<alerts, held, pc, run, reports, started, ended>>

(* rule_engine_started. *)
Begin(e) ==
    /\ pc[e] = "idle"
    /\ started < MaxRuns
    /\ started' = started + 1
    /\ \E dry_run \in BOOLEAN :
         run' = [run EXCEPT ![e] = Fresh(started + 1, dry_run, 1)]
    /\ pc' = [pc EXCEPT ![e] = "evaluate"]
    /\ UNCHANGED <<stored, alerts, held, reports, ended>>

NextRule(e) ==
    run' = [run EXCEPT ![e] = Fresh(run[e].id, run[e].dry_run, run[e].rule + 1)]

(* list(rule.evaluate(db)); a dry run counts the candidates and goes on. *)
Evaluate(e) ==
    /\ pc[e] = "evaluate"
    /\ run[e].rule <= Len(REGISTRY)
    /\ LET rule == REGISTRY[run[e].rule]
           found == {rule} \X (Matches[rule] \cap stored)
       IN  IF run[e].dry_run
             THEN NextRule(e) /\ UNCHANGED pc
             ELSE /\ \E queue \in SetToSeqs(found) :
                       run' = [run EXCEPT ![e].found = found, ![e].queue = queue]
                  /\ pc' = [pc EXCEPT ![e] = IF found = {} THEN "report" ELSE "insert"]
    /\ UNCHANGED <<stored, alerts, held, reports, started, ended>>

(* Variant: one row too many. *)
BatchIsOverfull(e) == run[e].filled > BATCH_SIZE \/ run[e].queue = <<>>

BatchIsFull(e) == run[e].filled = BATCH_SIZE \/ run[e].queue = <<>>

Inserting(e) == pc[e] = "insert" /\ ~BatchIsFull(e)

WaitsFor(e, other) == e # other /\ Inserting(e) /\ Head(run[e].queue) \in held[other]

(* Variant: a row is skipped for a key that is not committed yet. *)
InsertRowOrSkip(e) ==
    /\ Inserting(e)
    /\ held' = [held EXCEPT ![e] = @ \cup ({Head(run[e].queue)}
                                            \ (alerts \cup UNION {held[o] : o \in Engines}))]
    /\ run' = [run EXCEPT ![e].queue = Tail(@), ![e].filled = @ + 1]
    /\ UNCHANGED <<stored, alerts, pc, reports, started, ended>>

(* The next row of the INSERT, once no other open transaction has its key. *)
InsertRow(e) ==
    /\ Inserting(e)
    /\ ~ \E other \in Engines : WaitsFor(e, other)
    /\ held' = [held EXCEPT ![e] = @ \cup ({Head(run[e].queue)} \ alerts)]
    /\ run' = [run EXCEPT ![e].queue = Tail(@), ![e].filled = @ + 1]
    /\ UNCHANGED <<stored, alerts, pc, reports, started, ended>>

(* Variant: the rows sent are counted, not the rows inserted. *)
CommitAndCountRows(e) ==
    /\ pc[e] = "insert"
    /\ BatchIsFull(e)
    /\ alerts' = alerts \cup held[e]
    /\ held' = [held EXCEPT ![e] = {}]
    /\ run' = [run EXCEPT ![e].filled = 0, ![e].inserted = @ + run[e].filled]
    /\ pc' = [pc EXCEPT ![e] = IF run[e].queue = <<>> THEN "report" ELSE "insert"]
    /\ UNCHANGED <<stored, reports, started, ended>>

(* COMMIT of a batch, whose row count is what the INSERT did insert. *)
CommitBatch(e) ==
    /\ pc[e] = "insert"
    /\ BatchIsFull(e)
    /\ alerts' = alerts \cup held[e]
    /\ held' = [held EXCEPT ![e] = {}]
    /\ run' = [run EXCEPT ![e].filled = 0, ![e].inserted = @ + Cardinality(held[e])]
    /\ pc' = [pc EXCEPT ![e] = IF run[e].queue = <<>> THEN "report" ELSE "insert"]
    /\ UNCHANGED <<stored, reports, started, ended>>

(* rule_completed. *)
ReportRule(e) ==
    /\ pc[e] = "report"
    /\ reports' = reports \cup
         {[run |-> run[e].id, rule |-> REGISTRY[run[e].rule], found |-> run[e].found,
           inserted |-> run[e].inserted]}
    /\ NextRule(e)
    /\ pc' = [pc EXCEPT ![e] = "evaluate"]
    /\ UNCHANGED <<stored, alerts, held, started, ended>>

Leave(e) ==
    /\ pc' = [pc EXCEPT ![e] = "idle"]
    /\ run' = [run EXCEPT ![e] = NoRun]
    /\ held' = [held EXCEPT ![e] = {}]

(* rule_engine_completed. *)
Complete(e) ==
    /\ pc[e] = "evaluate"
    /\ run[e].rule > Len(REGISTRY)
    /\ ended' = ended \cup {run[e].id}
    /\ Leave(e)
    /\ UNCHANGED <<stored, alerts, reports, started>>

(* Variant: lock waits that nobody breaks. *)
IgnoreDeadlock(e) ==
    FALSE /\ Leave(e) /\ UNCHANGED <<stored, alerts, reports, started, ended>>

(* External: Postgres breaks a circle of waiting transactions by failing one
   of them.  Nothing catches the error: the run is over. *)
BreakDeadlock(e) ==
    /\ \E circle \in SUBSET Engines :
         /\ e \in circle
         /\ \A x \in circle : \E y, z \in circle : WaitsFor(x, y) /\ WaitsFor(z, x)
    /\ Leave(e)
    /\ UNCHANGED <<stored, alerts, reports, started, ended>>

(* A rule raises, or the process dies: committed batches stay, the open
   transaction is rolled back. *)
Crash(e) ==
    /\ pc[e] # "idle"
    /\ Leave(e)
    /\ UNCHANGED <<stored, alerts, reports, started, ended>>

Work(e) ==
    \/ Evaluate(e) \/ InsertRow(e) \/ CommitBatch(e) \/ ReportRule(e) \/ Complete(e)
    \/ BreakDeadlock(e)

Next ==
    \/ Ingest
    \/ \E e \in Engines :
         \/ Begin(e) \/ Evaluate(e) \/ InsertRow(e) \/ CommitBatch(e) \/ ReportRule(e)
         \/ Complete(e) \/ BreakDeadlock(e) \/ Crash(e)

Spec == Init /\ [][Next]_vars

(* An engine keeps working, and Postgres resolves the deadlocks it detects. *)
FairSpec == Spec /\ \A e \in Engines : WF_vars(Work(e))

-----------------------------------------------------------------------------
Active == {e \in Engines : pc[e] # "idle"}
InReports == SumFunction([report \in reports |-> report.inserted])
InHand == SumFunction([e \in Engines |-> run[e].inserted])
Reported == InReports + InHand

(* The counts in the audit log never count an alert twice, however runs race
   for the same keys, and add up to the table if no run was lost. *)
AlertsCountedOnce ==
    /\ Reported <= Cardinality(alerts)
    /\ started = Cardinality(ended) + Cardinality(Active) => Reported = Cardinality(alerts)

(* A rule reported complete is complete: every candidate it found is an alert,
   stored by this run or by whoever made it skip the row, even if that one
   died since. *)
ReportedRulesAreCovered == \A report \in reports : report.found \subseteq alerts

(* Engines that block each other do not do so for ever: every run ends. *)
RunsEnd == \A e \in Engines : pc[e] # "idle" ~> pc[e] = "idle"

-----------------------------------------------------------------------------
(* The inductive strengthening of ReportedRulesAreCovered: while a rule is
   being stored, each of its candidates is committed, inserted in the open
   transaction, or still to come. *)
CandidatesAccountedFor(e) ==
    /\ pc[e] = "insert" =>
         run[e].found \subseteq alerts \cup held[e] \cup ToSet(run[e].queue)
    /\ pc[e] = "report" => run[e].found \subseteq alerts
    /\ pc[e] \in {"insert", "report"} => run[e].rule <= Len(REGISTRY)

IInv ==
    /\ TypeOK
    /\ ReportedRulesAreCovered
    /\ \A e \in Engines : CandidatesAccountedFor(e)

(* The inductive strengthening of AlertsCountedOnce.  A key is inserted by one open
   transaction at a time and by none that is committed, ... *)
HeldApart ==
    \A e \in Engines :
      /\ held[e] \cap alerts = {}
      /\ \A other \in Engines \ {e} : held[e] \cap held[other] = {}

(* ... a run has a number of its own and reports a rule once, after the ones before
   it, ... *)
RunsApart ==
    /\ \A e \in Active :
         /\ run[e].id \in 1..started
         /\ \A other \in Active \ {e} : run[e].id # run[other].id
         /\ \A report \in reports : report.run = run[e].id =>
              \E i \in DOMAIN REGISTRY : i < run[e].rule /\ report.rule = REGISTRY[i]
    /\ \A report \in reports : report.run \in 1..started

(* ... what it has counted is of the rule in hand, and runs that neither ended nor
   go on are lost for good. *)
CountInv ==
    /\ AlertsCountedOnce
    /\ HeldApart
    /\ RunsApart
    /\ IsFiniteSet(reports)
    /\ \A e \in Engines : pc[e] \in {"idle", "evaluate"} => run[e].inserted = 0
    /\ Cardinality(ended) + Cardinality(Active) <= started
=============================================================================
