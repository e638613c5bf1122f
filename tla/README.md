# Formal models of the AML investigation agent

TLA+ models of the parts of this repository that change state, TLC
configurations that check them on small instances, and TLAPS proofs of the
results that matter most. `PROJECT.json` maps every definition to the lines it
was translated from and lists the hazards the properties are for.

## 1. The system

Rules scan the transactions table and store alerts. An agent (a language model
in a tool-calling loop) investigates one alert and proposes an action;
deterministic guardrails accept, downgrade or block it; the result is written to
the alert, and every step to an append-only audit log. Identifiers are replaced
by tokens before they reach the model. An evaluation script runs the agent over
a sample of alerts and puts their statuses back. Everything is Python over one
Postgres database: processes interact through its tables only, and every
function commits as it goes.

| Component | State | Operations | Modelled by |
|---|---|---|---|
| orchestrator (`agent/orchestrator.py`) | `alerts.status`, `alerts.narrative`, `audit_log`, the locals of a run | `investigate_alert`, `_apply_status`, `_apply_forced_escalate`, `_write_investigation_audit` | `Investigation`, `AlertLifecycle` (abstract) |
| guardrails (`guardrails/`) | none; one audit row | nine `evaluate`s, `evaluate_all`, `_worse` | `Guardrails`, `DecisionPipeline` |
| case file parser (`agent/case_file.py`) | none | `_extract_json_object`, `build_agent_decision` | `CaseFile`, `DecisionPipeline` |
| reasoning loop (`agent/session.py`, `tools/dispatch.py`) and clients (`agent/*_client.py`) | message history, tool-call records, audit rows; groq's key pool, which outlives a call | `run`, `chat`, `_KeyPool.rotate`, `dispatch` | `ReActSession` |
| tools (`tools/*.py`, `pseudonymization/service.py`) | `pseudonym_map`, the rows read by a call | `execute`, four `_run`s, `pseudonymize_customer`, `pseudonymize_transaction` | `ToolQueries`, `SharedTables` |
| tokenizer (`pseudonymization/tokenizer.py`) | `pseudonym_map` | `pseudonymize`, `pseudonymize_batch`, `depseudonymize` | `Pseudonymizer` |
| narrative resolution (`pseudonymization/depseudonymize.py`) | none | `depseudonymize_case_file` | `CaseReview` |
| rule runner (`rule_engine/runner.py`) | `alerts` (insert), audit rows | `run_all_rules`, `_persist_candidates` | `RuleEngine`, `SharedTables` |
| rule queries (`rule_engine/rules/`) | none | four registered rules, three kinds of query | `DetectionRules` |
| ingestion (`scripts/run_ingestion.py`, `scripts/validate_ingestion.py`) | `customers`, `accounts`, `transactions`, their sequences | load, `--reset` | `Ingestion` |
| evaluation (`scripts/eval_agent.py`, `eval/labels.py`) | the results file, snapshots, `alerts.status` | `main`, `sample_alerts_stratified`, `_load_existing_results`, `_write_results`, `_score_detection` | `EvalHarness` |
| offline scoring (`scripts/eval_rules.py`, `scripts/score_eval.py`) | none | account-days, confusion matrix | `Labels`, `EvalHarness` |
| knowledge base, dashboard, audit query, migrations, prompts, configuration | none of their own, or unused | reads | not modelled, section 8 |

What is hard here: the alert is read once and acted on many commits later, while
reviewers and other runs change it; a decision, its effect and its record are
three commits; the model may answer anything; unique constraints, not locks,
make concurrent writers agree; a load is three commits over tables that a reset
may renumber, while rules and tools hold numbers they read before; every call of
`pseudonymize` commits, and so ends the locks of whoever made it; a reset takes its
tables one by one and can deadlock with a load; an evaluation of an hour is
cut short and resumed from a file. The properties of each component are in section 4.

## 2. Modules

Operators without state of their own:

* `Guardrails` has the statuses, actions and verdicts, one operator per
  guardrail from a decision to a verdict, `Worse`, `Verdict` and
  `ResolveFinalStatus`. A narrative is the set of features some guardrail tells
  apart (any text, a PII match, a chat-artifact match).
* `CaseFile` has the extraction strategies and `BuildAgentDecision`. A message
  is what the three strategies find in it.
* `DetectionRules` has the queries of the rules as sets of matching transactions
  and, beside them, what the rules are for (`IsIncident`) said of sets of
  transactions instead of windows.
* `ToolQueries` has the SELECTs of the four tools.
* `Labels` has the account-days that are laundering and those that are alerted on,
  as `eval_rules.py` compares them.
* `Selections` is the filtering of a sequence by a comprehension, with the test as a
  set. The library's `SelectSeq` has no definition the provers could use.

State machines:

* `DecisionPipeline` is the end of `investigate_alert` for one message: parse,
  the loop of `evaluate_all` one guardrail per step, its audit row, the status.
* `Investigation` is `investigate_alert` by several workers. An action is the
  code between two commits. `run[w].loaded` is the status of the alert object a
  worker holds, never read again because `db/session.py` sets
  `expire_on_commit=False`; `SaveAlert` leaves a status equal to it out of the
  UPDATE, as the ORM does. `Crash` stands for the process dying and for any
  exception that leaves the function. `HumanReview` is external: nothing in
  `src/` records a review, but the statuses exist for it.
* `AlertLifecycle` is the abstract specification of the status column.
  `Investigation` implements it, with `cleared` mapped to the dismissals for
  which the audit log holds a passing evaluation.
* `ReActSession` is the reasoning loop with the provider call, its retry, and the
  dispatch of tool calls. The client is drawn at the start: `session.py` imports
  claude's, and the others are drop-in replacements for it. A request is what the
  client makes of the history, gemini's with its search for a function's name by
  the id of the call; groq's has the pool of keys and where in it the process is.
  `Investigation` sees of all this tool calls and an outcome.
* `Pseudonymizer` is the tokenizer by several sessions. A row is
  `[type, real, hex]`; an INSERT with its COMMIT is an action, the read back is
  another. `CaseReview` adds the case files a reviewer opens, at any time.
* `RuleEngine` is `run_all_rules` by several processes. The multi-row INSERT is
  taken row by row: a row waits for another open transaction that holds its key.
* `Ingestion` is `run_ingestion` by several processes, with rows that refer to
  each other by number and sequences that `--reset` restarts. `TRUNCATE` locks
  transactions, accounts and customers in this order, a step each, and empties them
  with the last. A statement waits for a table that a `TRUNCATE` has (`Exclusive`), a
  `TRUNCATE` for one whose mapping a load has read and not yet committed on
  (`Shared`). Two runs that wait for each other, such as a `TRUNCATE` with
  transactions in its hands and a load that has read accounts, are a deadlock:
  `BreakDeadlock` fails one of them.
* `SharedTables` composes `Ingestion` with those who use its tables: one rule
  engine that evaluates `DetectionRules` on what is there and stores the candidates
  batch by batch, and the agent's tools, each of which reads rows and then
  describes them one by one, a commit for each. They wait for tables that a
  `TRUNCATE` has (`Available`), and it for the table it needs next as long as they
  have read that in a transaction still open (`NoReaders`): the engine until its first
  batch is committed, a tool until its first call of `pseudonymize`, known value or
  not. A reader past that commit can be overtaken, and a payment whose accounts are
  gone by then makes the call an error.
* `EvalHarness` is `eval_agent.py`: the stratified sample, the results file as one
  variable that is emptied before it is filled, and both scorers.

`MC*.tla` and `MC*.cfg` are the instances for TLC, `*Proofs.tla` and
`CommonLemmas.tla` hold the proofs. Operators under a comment that begins
"Variant:" are plausible mistakes in the operator after them. No specification
uses them; substituting one shows that a property depends on that code.

## 3. How definitions relate to code

A run's local variables live in a record (`run`, `call`, `local`) that is reset
when the call returns or dies. Audit rows carry the number of the run that wrote
them, a ghost: the table has only the alert's id. In `EvalHarness`, `baseline`
(the statuses had there been no evaluation) and the sample kept with a snapshot
are ghosts too, as are `resets` and `since` in `Ingestion` and `SharedTables`, and
`misplaced`, the alerts inserted for data that a reset had replaced. Wording, logging, token counts and timestamps are left out.

Simplifications that a reader should know:

* In `Investigation` the narrative written is new text, and the unknown-alert
  sentinel, which changes nothing, is left out, as are the pseudonym rows that
  `Start` also commits (`Pseudonymizer` has them).
* A token collision inside a tool rolls the caller's session back, after which the
  ORM would forget the status it loaded. At odds of 2^-32 a token this is left out
  of `Investigation`; `Pseudonymizer` has collisions.
* A retry after a rate limit in the evaluation calls `investigate_alert` again in
  the same session, with the alert object of the first try. In `Investigation`
  that is a run that was slow; in `EvalHarness` it is `local.original`.
* In `RuleEngine` what a rule matches is the constant `Matches`, cut down to the
  transactions stored. Postgres may also make a row wait for an insert that is
  not yet visible; the order of rows is free, so no schedule is lost.
* In `Ingestion` a dry run writes nothing and is left out, as is the conversion of
  single fields (names, dates, channels, labels) and the fact that an insert fails
  for a missing foreign key: a mapping is used under the lock on its table, so what it
  leads to is there, and `RowsReferToTheirOwn` is stronger.
* In `SharedTables` the tokens of one row are committed together, after both of its
  accounts have been looked up, and `pseudonymize_customer` is one step, since the
  row is in memory; the two SELECTs of the alert history are one, and when alerts
  were created is left out. The SELECTs of a tool are one step as well, which waits
  until it can have all its tables: that it may be failed with some of them in its
  hands, in a deadlock with a `TRUNCATE`, is `MeetsTruncate`, that an engine may be is
  `EngineCrash`, and that the load may be is its `Crash`. The rollback of a token
  collision is left out as in `Investigation`. There is one engine; `RuleEngine` has
  several.
* In `Investigation` a tool call writes its audit row and its record, as calls of
  claude and gemini do; the arguments that groq and cerebras cannot parse, which leave
  a record alone, are in `ReActSession`. There the audit row and the record
  are one step: between them runs only code of the session itself, and nobody else
  reads its records.
* In `ReActSession` which words of an error make `gemini_client.py` take it for
  transient is left out: any error may be.
* In `CaseReview` a text is the tokens in it. What the agent writes may hold tokens
  nobody handed out.
* The quotient of the rapid-movement query is compared by multiplying. Postgres
  computes at least sixteen digits of it, more than amounts in cents can tell apart.
* A sample in `EvalHarness` is not empty: with `--limit 0 --fresh`, or without alerts
  of the rule engine, the script copies whatever results file it finds as a full run.
  `EvalHarnessAssumption` says so, and `SnapshotsMatchSample` needs it.

## 4. Runs and what they show

| Run | Configuration | Question | Bounds | Distinct states |
|---|---|---|---|---|
| `decision_pipeline` | `MCDecisionPipeline.cfg` | does parse, evaluate, resolve come to the policy matrix, and is every evaluation logged whole | every action, severity, narrative and status; messages with up to two objects | 21 888 |
| `react_session` | `MCReActSession.cfg` | with each client: are requests well-formed, records and log in step, all keys tried, does it end | 3 turns of at most 2 calls of 2 tools, 4 clients, 2 keys | 163 439 |
| `investigation` | `MCInvestigation.cfg` | safety, refinement and termination with racing workers, crashes and a reviewer | 2 workers, 1 alert, 2 runs, 1 call each, 1 review | 152 267 |
| `pseudonymizer` | `MCPseudonymizer.cfg` | do tokens stay unique and resolvable, do reviewers read the same | 2 sessions, 2 types, 2 values, 2 hex parts, 2 retries | 164 069 |
| `rule_engine` | `MCRuleEngine.cfg` | are counts exact, reported rules covered, do runs end | 2 engines, 3 runs, 3 transactions, 2 rules, batches of 2 | 196 921 |
| `eval_harness` | `MCEvalHarness.cfg` | are records unique, checkpoints kept, statuses restored, scores those of the sample | 2 evaluations, 3 alerts in 2 strata, all samples of 2 sizes and limits, 1 retry, 1 change by others | 227 710 |
| `shared_tables` | `MCSharedTables.cfg` | do numbers lead to the right rows, are completed loads whole, alerts justified and scored, incidents found, answers true, do loads end | 2 loaders, 2 runs; 40 files of 3 accounts and 2 payments on and beside every bound, 2 with a later delivery, 1 with a scan, 1 with a tool call during renumbering loads | 214 952 |

The bounds are enough for the interesting cases. Two workers and a reviewer on
one alert give every order of load, save and review, and further alerts share
nothing with the first. Two hex parts for two values make every collision case,
up to giving up, reachable. Batches of two with three transactions have a full,
a partial and an empty last batch, two engines can deadlock, and a third run
meets what both left. Three turns allow a refused call after an executed one and the cap after both; two
calls in a turn can have their answers mixed up, and two keys can be tried in either
order. Two loads reach a load over a partial one, a reset during a load, and a second
delivery with known accounts and with a used reference; and both deadlocks of a reset
with a load, over accounts and over customers. The scan has two candidates
and batches of one, so that a reset, and the load after it, fit between the batches;
the tool calls have up to two rows to describe, for the same reason, and the second
file gives the numbers of the first to other accounts. What the engine and the tools
see otherwise is a table, so one scan or call in a behaviour is enough; scans that
compete are in `rule_engine`. Two evaluations reach a resumed one, one over a smaller
sample, and one that meets a torn file.

`CHECK_DEADLOCK FALSE` stands where the system stops for good: a decision is
taken, a session has ended, the bound on runs, reviews, loads or evaluations is reached.

Five more runs state what the documents say and find that the code does otherwise.

| Run | What the counterexample shows |
|---|---|
| `severity_claim` | The severity the guardrails test is the one in the model's answer (`case_file.py:114`), so an alert of severity 4 or 5 can be closed on a claimed 1; README: "never permitted to autonomously close a high-severity alert" |
| `decided_alerts` | A blocked decision is applied as an escalation, so a run on an alert already closed, a filed SAR included, reopens it, which `LifecycleStateGuardrail` is said to prevent |
| `applied_status` | If the status to apply equals the one loaded, a status a reviewer set meanwhile stays, while outcome and audit row report the former as applied |
| `forced_unlogged` | The forced escalation commits before anything about its outcome is in the log; a crash right after it leaves a change without a record |
| `detection_pattern` | Truth and alerts are compared by account and day, windows span days and a rule alerts on the payment that completes a pattern, so the earlier days of a pattern that was found are misses; `labels.py:36-38`: "should score as one detection, not four misses plus one hit" |

`CompletedLoadsAreWhole` is about loads no reset interrupted, and needs to be: a load
whose accounts another process truncates finds none of them, skips every
transaction and is recorded as completed with none.

`AlertsStayJustified`, `IncidentsAreScored` and `AnswersAreTrue` except what a
reset has overtaken after the first commit, and have to: an alert of a later batch
then names another transaction (`misplaced`), and a payment is listed with the
accounts that have its numbers now (`overtaken`). `IncidentsAreScored` leaves
`FAN_IN_001` out, which alerts on the receiver while a label is about the sender.

`RestoredWhenLeftAlone` exempts evaluations cut short: one that dies between the
investigation of an alert and the restore leaves the agent's status, and a resumed one
takes it for the original. `AlertsStayJustified` leaves out the rapid-movement rule,
whose ratio data that arrives late can lower.

Divergences noticed and not run: the branch of `dispatch` that audits calls of
unknown tools is never reached, since `session.py:155-168` takes them for the
final message; `run_all_rules` speaks of one transaction per rule and has one per
batch; its completion row lists candidates under `per_rule_inserted` in a dry
run; `investigate_alert` says failures are absorbed, but exceptions of the
provider and the tokenizer leave it, and `session.py` says `run` returns a result
regardless; a narrative blocked for suspected PII is still saved on the alert;
groq's `chat` says it raises once all keys have been tried, but a rate limit met by
the retry of a transient error leaves at once; the sample of an evaluation is said to
be at most the target, but each stratum gives at least one alert; an evaluation calls
itself non-destructive, but puts the status it read back over one that others
commit during the investigation; `dispatch` is said to return an error
whatever a tool raises, but an error of the database leaves the transaction aborted,
the INSERT of the audit row fails too, and `dispatch` raises.

## 5. Fairness

Safety is checked and proved without fairness. For liveness: a worker, engine,
loader, session or script that has started keeps executing (weak fairness of its own
steps), which is what straight-line code and bounded loops do. A session may be
kept busy with tool calls only up to its cap, so `Investigation` assumes that a
run concludes and `ReActSession` shows it. Nothing is assumed of crashes, reviews,
new data or the start of runs. `RuleEngine` needs two external facts: Postgres
breaks circles of waiting transactions, and a transaction whose wait is over
proceeds; `SharedTables` that a free lock is given to who waits for it, and that of a load and a
`TRUNCATE` that wait for each other one is failed. A loader, the engine and a tool hold
their locks only up to their next commit, and keep working. Without the breaking of
deadlocks the variant `IgnoreDeadlock` hangs, and with a retry in place of the
failed run `RetryAfterDeadlock` meets the same deadlock for ever.

## 6. Proofs

All proofs are for arbitrary constants under the named assumptions in the
modules (`ProposalsAssumption`, `SeverityAssumption`, `MessagesAssumption`,
`RecordsAssumption`, `SessionAssumption`, `PseudonymizerAssumption`,
`RuleEngineAssumption`, `EvalHarnessAssumption`, `IngestionAssumption`, ...).

* `CommonLemmas`: a verdict is the strictest answer (`VerdictIsStrictest`); one
  block makes the verdict a block and the final status escalated, whatever the other
  guardrails say (`BlockDominates`); a passed dismissal was of low
  claimed severity, on an actionable alert, with evidence and a clean narrative
  (`PassedDismissal`). Then sums over finite sets (they take elements out in any
  order, split, may be renamed and grouped: `SumWithout`, `SumTogether`,
  `SumRenamed`, `SumByGroups`) and selections (`SelectRange`, `SelectAppend`,
  `SelectCount`).
* `DecisionPipelineProofs`: `TypeCorrect`, `EvaluationsAlwaysComplete`,
  `FinalStatusAlwaysFollowsPolicy`. The loop invariant `LoopInv` says the results are
  the answers of the guardrails so far and the aggregate their strictest. It makes
  the theorems independent of the order of registration; the policy matrix then
  follows from the lemmas about verdicts and messages.
* `InvestigationProofs`: `TypeCorrect`, `CompletionsAlwaysExplained`,
  `EvidenceAlwaysFirst`, `Refinement`, `DecidedOnlyEscalate`. The properties are
  about rows of the log, while a step adds a row on the strength of local
  variables. `IInv` therefore ties the two at every stage: names of tools in a
  session mean tool rows of that run (`SessionInv`, `EvidenceInv`), a decision
  carries the status loaded (`DecisionInv`), a verdict about to be applied is
  that of an evaluation already logged (`VerdictInv`). The log only grows, so
  what it once explained stays explained (`LogKeepsFacts`). The refinement maps
  `EvaluateAll` to `Clear` or a stutter, `ApplyStatus` to `Dismiss` or
  `SendToHuman`, `ForceEscalate` to `SendToHuman`, everything else to a stutter.
* `ReActSessionProofs`: `TypeCorrect`, `KeysAlwaysAllTried`, `RequestsAlwaysWellFormed`,
  `RecordsAlwaysMatch`, `WholeTurnsAlwaysExecuted`. `PoolInv`: from the key in use
  back to the one a call began with, around the end of the pool, lie exactly the keys
  given up. `RecordInv` is the shape of the history: turns, each right before the
  answers to its calls, with ids that tell turn and call (`MessagesInv`, `IdsInv`);
  only the last turn has answers to come (`PendingInv`); the calls that are answered
  are those in the records, in order, and the audit rows a selection of these
  (`ExecutedInv`). That a request answers each call right after its turn follows
  for each client's conversion of such a history.
* `PseudonymizerProofs`: `TypeCorrect`, `AnswersAlwaysResolve`, `OneTokenAlways`.
  `IInv`: both constraints of the table hold, answers and the answers in preparation
  are rows of it, and the value in hand has a row when it is read back.
  `ReviewsAlwaysAgree` follows: a token has at most one value, rows are never lost,
  and what was handed out is a row.
* `RuleEngineProofs`: `TypeCorrect`, `ReportedAlwaysCovered`, `AlertsAlwaysCountedOnce`.
  `IInv`: while a rule is being stored, each of its candidates is committed, held by
  the open transaction, or still in the queue. For the counts `CountInv` adds that a
  key is held by one open transaction or committed, that runs have numbers of their
  own and report a rule once, and that the runs ended and those active are at most
  the runs started: if they are as many, none was lost.
* `EvalHarnessProofs`: `TypeCorrect`, `AlwaysRestored`, `AlwaysOneRecord`,
  `CheckpointsAlwaysGrow`, `SnapshotsAlwaysMatch`, `ScoresAlwaysMatch`. `RestoreInv`:
  while nobody interferes, the statuses are the baseline but for the alert in hand,
  which has the status the session holds for it. `EvalInv`: an alert of the sample is
  either recorded or to be done (`TodoInv`); the file holds nothing while it is
  rewritten, what is in memory when all is done, and before, unless a fresh start was
  asked for, no completed result that is not in memory too (`FileInv`); and a snapshot
  has a record for each alert of its sample (`SnapshotsInv`), so that both scorers
  count places of distinct alerts.
* `SharedTablesProofs`, all of the composition. `RowsAlwaysReferToTheirOwn` and
  `CompletedLoadsAlwaysWhole`: `TablesInv` says that a number is that of one row,
  since the sequence is ahead of the table and restarts only with it; a mapping a
  loader holds leads into the table still; rows were stored with numbers that lead.
  The mapping holds because of `LocksInv`: nobody else uses a table that a `TRUNCATE`
  has taken, so no `TRUNCATE` has got past a table a load has read, and none can before
  the load has committed. `LoadsInv`: unless a reset has come since a load
  began, what it has got through is whole, and stays so while others add rows. The
  counts follow from a one-to-one correspondence of lines, rows of the INSERT and
  rows of the table.
* There too `IncidentsAlwaysFound`, `AlertsAlwaysJustified`, `IncidentsAlwaysScored`:
  the rules that ask for enough of something find what they found in more data
  (`MatchingGrows`), and payments are only added, after the ones there are, until a
  reset (`PaymentsInv`, `LoadsOnlyAdd`). So an incident among the payments is one
  among those of the rule's window, an alert once justified stays so (`AlertsInv`),
  and what a scan has seen is among the candidates still to be stored or has its key
  in alerts (`ScoresInv`). A scan whose SELECT is not yet committed keeps every `TRUNCATE`
  from taking transactions; of a later batch only what `misplaced` leaves out could be about other data.
* There too `AnswersAlwaysTrue`: what a tool has in hand is true of the files, a link
  for good, since the account of its counterparty was read with it, a payment as long
  as no reset has come (`CallInv`). `LinksAlwaysAddUp`: without transfers to oneself
  an edge is a payment of the window, and the links are the groups of the edges.
  `SharedTypesCorrect`: resets, together with the runs that are about to do one, stay
  within the runs started (`RunsInv`); what the engine holds names payments and
  accounts that there were (`UsersInv`).

The provers cannot instantiate induction theorems that take an operator as a
parameter. Where a fact about all finite sets or sequences is needed, it is proved by
the least counterexample instead: strict inclusion of finite sets is well founded, and
a well-founded relation has minimal elements, both facts of the library without such a
parameter (`MinimalSet`). This needs no recursive operator: sums are the folds of the
community modules, and a selection is defined by the ranks of the places kept.

Every safety property of the passing runs is proved, invariants and action
properties, and each of the inductive invariants named here has been checked by TLC
on the instance of its run. Only model-checked: the liveness properties
`RunsConclude`, `SessionEnds`, `CallsEnd`, `RunsEnd`, `EvalEnds`, `LoadsEnd`, since
fairness and ENABLED are out of this prover's reach. The runs that expect a violation
need no more than their counterexample.

## 7. Plan

Done in this order: guardrails and parser, decision pipeline, the orchestrator with
its abstract lifecycle, the reasoning loop, the tokenizer, the rule runner, the
evaluation, rules and ingestion; then the composition over the shared tables with the
tools and labels, the other clients, case file review, sampling and scores; proofs
for every state machine. Left:

1. Proofs: that a session as `Investigation` sees it is what `ReActSession` makes of
   it; bounds on the number of steps, which liveness then only needs fairness for.
2. Several engines over `SharedTables`, if `RuleEngine` and it should ever be one.
3. The raw fields of the pseudonymization service, should a tool begin to return
   more of them.

## 8. Not modelled, and why

The dashboard and `audit/query.py` only read, and format what they read;
`audit/writer.py` is one INSERT, part of the action that makes it. The knowledge base
is library calls and is not used by the agent. `tools/` holds no other tools than
those modelled. The regexes of the guardrails and JSON parsing are abstracted to
their outcome. The statistical checks of `validate_ingestion.py` and
`check_labels.py` describe the data, not the code; ratios, cost and latency of the
scorers are arithmetic on the counts modelled. `pseudonymize_account` has no caller.
The schema is modelled by the constraints that other modules rely on. Prompts and
configuration are text.

## 9. Running

    tlc -workers 2 -config MCInvestigation.cfg MCInvestigation
    tlapm InvestigationProofs.tla

Each run takes up to three minutes, each proof module a few minutes.
