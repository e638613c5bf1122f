------------------------------ MODULE EvalHarness ------------------------------
(***************************************************************************)
(* scripts/eval_agent.py: main, which investigates a sample of the alerts  *)
(* one after the other, puts each one's status back, and keeps a results   *)
(* file from which a later evaluation resumes.                             *)
(*                                                                         *)
(* The sample is ordered by random() over rows in storage order, and every *)
(* UPDATE moves a row, so two evaluations may draw different samples; so   *)
(* do two values of --target-size and --limit.  investigate_alert is one   *)
(* action here; Investigation models it.  The results are scored twice, by *)
(* the script itself and by score_eval.py.                                 *)
(*                                                                         *)
(* Bounds: MaxEvals evaluations are started; others change a status        *)
(* MaxChanges times.                                                       *)
(***************************************************************************)
EXTENDS Integers, Sequences, FiniteSets, FiniteSetsExt, SequencesExt, Selections

CONSTANTS
    Alerts,                 \* rows of the alerts table
    Strata,                 \* the alerts by rule, severity and label, in some order
    Laundering,             \* the alerts whose transaction is labelled so
    TargetSizes, Limits,    \* values of --target-size and --limit, which is not 0
    Applied,                \* statuses investigate_alert may apply
    MAX_RETRIES_PER_ALERT,  \* 5 in the code
    MaxEvals, MaxChanges

Statuses == Applied \cup {"open"}

(* There are alerts to evaluate. *)
ASSUME EvalHarnessAssumption ==
    /\ IsFiniteSet(Alerts)
    /\ Strata \in Seq(SUBSET Alerts) \ {<<>>}
    /\ \A i \in DOMAIN Strata : Strata[i] # {}
    /\ \A i, j \in DOMAIN Strata : i # j => Strata[i] \cap Strata[j] = {}
    /\ Laundering \subseteq Alerts
    /\ TargetSizes \subseteq Nat /\ Limits \subseteq Nat \ {0}
    /\ {"ERROR", "none"} \cap Applied = {}
    /\ MAX_RETRIES_PER_ALERT \in Nat
    /\ MaxEvals \in Nat /\ MaxChanges \in Nat

VARIABLES
    status,     \* alerts.status
    file,       \* agent_run_latest.json: its records, and whether they are all there
    snapshots,  \* the agent_run_<timestamp>.json files, with the sample of each (ghost)
    pc,         \* idle, next, investigate, restore, write, fill
    local,      \* local variables of main
    evals,      \* how many evaluations have been started
    changes,    \* how many statuses others have changed
    crashed,    \* some evaluation was cut short
    baseline    \* ghost: the statuses without the evaluations

vars == <<status, file, snapshots, pc, local, evals, changes, crashed, baseline>>

Records == [alert : Alerts, applied_status : Applied \cup {"ERROR"}]

(* todo: remaining_ids from the one in hand on; original: its original_status;
   outcome: the status applied, if any; back: where writing the file returns. *)
NoEval ==
    [sample |-> <<>>, fresh |-> FALSE, todo |-> <<>>, records |-> <<>>, retries |-> 0,
     original |-> "open", outcome |-> "none", back |-> "next"]

TypeOK ==
    /\ status \in [Alerts -> Statuses]
    /\ file.records \in Seq(Records)
    /\ file.intact \in BOOLEAN
    /\ pc \in {"idle", "next", "investigate", "restore", "write", "fill"}
    /\ local.records \in Seq(Records)
    /\ local.retries \in 0..(MAX_RETRIES_PER_ALERT + 1)
    /\ local.original \in Statuses
    /\ local.outcome \in Applied \cup {"none"}
    /\ pc = "investigate" => local.retries <= MAX_RETRIES_PER_ALERT /\ local.outcome = "none"

Init ==
    /\ status = [a \in Alerts |-> "open"]
    /\ file = [intact |-> TRUE, records |-> <<>>]
    /\ snapshots = {}
    /\ pc = "idle"
    /\ local = NoEval
    /\ evals = 0
    /\ changes = 0
    /\ crashed = FALSE
    /\ baseline = [a \in Alerts |-> "open"]

-----------------------------------------------------------------------------
(* Even shares, of at least one alert, whatever the target. *)
PerStratum(target) == Max({1, target \div Len(Strata)})

(* ORDER BY random() LIMIT PerStratum, one stratum after the other. *)
sample_alerts_stratified(target) ==
    {sample \in UNION {SetToSeqs(drawn) : drawn \in SUBSET UNION Range(Strata)} :
        /\ \A stratum \in Range(Strata) :
             Cardinality(Range(sample) \cap stratum) =
               Min({PerStratum(target), Cardinality(stratum)})
        /\ \A m, n \in DOMAIN sample : \A i, j \in DOMAIN Strata :
             m < n /\ sample[m] \in Strata[i] /\ sample[n] \in Strata[j] => i <= j}

(* --limit cuts the sample short, whole strata if need be. *)
Cut(sample, limit) == SubSeq(sample, 1, Min({limit, Len(sample)}))

Samples ==
    {Cut(sample, limit) :
        sample \in UNION {sample_alerts_stratified(target) : target \in TargetSizes},
        limit \in Limits}

AlertsOf(records) == {records[i].alert : i \in DOMAIN records}
Completed(records) == {r \in Range(records) : r.applied_status # "ERROR"}

(* _load_existing_results: a file that is missing or is not JSON has none. *)
ExistingResults(fresh) == IF fresh \/ ~file.intact THEN <<>> ELSE file.records

(* Variant: the records of alerts to be done again stay. *)
KeepAll(existing, todo) == existing

(* Variant: the records on file are not taken over. *)
KeepNone(existing, todo) == <<>>

(* A record of an alert that is done again is dropped. *)
Keep(existing, todo) ==
    Select(existing, {r \in Range(existing) : r.alert \notin Range(todo)})

(* Alerts with a result are skipped. *)
Remaining(sample, existing) ==
    LET done_ids == {r.alert : r \in Completed(existing)}
    IN  Select(sample, Range(sample) \ done_ids)

BeginEval ==
    /\ pc = "idle"
    /\ evals < MaxEvals
    /\ evals' = evals + 1
    /\ \E sample \in Samples, fresh \in BOOLEAN :
         LET existing == ExistingResults(fresh)
             todo == Remaining(sample, existing)
         IN  local' = [NoEval EXCEPT !.sample = sample, !.fresh = fresh, !.todo = todo,
                         !.records = Keep(existing, todo)]
    /\ pc' = "next"
    /\ UNCHANGED <<status, file, snapshots, changes, crashed, baseline>>

Alert == Head(local.todo)

(* SELECT the next alert and keep its status. *)
SnapshotAlert ==
    /\ pc = "next"
    /\ local.todo # <<>>
    /\ local' = [local EXCEPT !.original = status[Alert], !.retries = 0, !.outcome = "none"]
    /\ pc' = "investigate"
    /\ UNCHANGED <<status, file, snapshots, evals, changes, crashed, baseline>>

(* The session writes a status only if it differs from the one it holds for
   the alert, which is not read again. *)
Save(a, held, new) == status' = IF new = held THEN status ELSE [status EXCEPT ![a] = new]

Investigate ==
    /\ pc = "investigate"
    /\ \E applied \in Applied :
         /\ Save(Alert, local.original, applied)
         /\ local' = [local EXCEPT !.outcome = applied]
    /\ pc' = "restore"
    /\ UNCHANGED <<file, snapshots, evals, changes, crashed, baseline>>

(* Variant: one retry too many. *)
RateLimitedOnceMore ==
    /\ pc = "investigate"
    /\ \/ /\ local.retries <= MAX_RETRIES_PER_ALERT
          /\ local' = [local EXCEPT !.retries = @ + 1, !.back = "investigate"]
          /\ pc' = "write"
       \/ /\ local.retries > MAX_RETRIES_PER_ALERT
          /\ local' = [local EXCEPT !.retries = @ + 1]
          /\ pc' = "restore"
    /\ UNCHANGED <<status, file, snapshots, evals, changes, crashed, baseline>>

(* Variant: retries are not counted. *)
RateLimitedForEver ==
    /\ pc = "investigate"
    /\ local' = [local EXCEPT !.back = "investigate"]
    /\ pc' = "write"
    /\ UNCHANGED <<status, file, snapshots, evals, changes, crashed, baseline>>

(* AnthropicRateLimitError: write the results, sleep and try again, or give
   the alert up. *)
RateLimited ==
    /\ pc = "investigate"
    /\ \/ /\ local.retries < MAX_RETRIES_PER_ALERT
          /\ local' = [local EXCEPT !.retries = @ + 1, !.back = "investigate"]
          /\ pc' = "write"
       \/ /\ local.retries = MAX_RETRIES_PER_ALERT
          /\ local' = [local EXCEPT !.retries = @ + 1]
          /\ pc' = "restore"
    /\ UNCHANGED <<status, file, snapshots, evals, changes, crashed, baseline>>

(* Variant: the session is thought to hold what was read first. *)
HeldAtFirst == local.original

(* The status the session holds for the alert. *)
Held == IF local.outcome = "none" THEN local.original ELSE local.outcome

(* Put the status back, commit, and record the outcome or the ERROR. *)
Restore ==
    /\ pc = "restore"
    /\ LET result == IF local.outcome = "none" THEN "ERROR" ELSE local.outcome
       IN  /\ Save(Alert, Held, local.original)
           /\ local' = [local EXCEPT !.records = Append(@, [alert |-> Alert,
                                                            applied_status |-> result]),
                                     !.todo = Tail(@), !.back = "next"]
    /\ pc' = "write"
    /\ UNCHANGED <<file, snapshots, evals, changes, crashed, baseline>>

(* _write_results: write_text opens the file, which empties it, ... *)
TruncateFile ==
    /\ pc = "write"
    /\ file' = [intact |-> FALSE, records |-> <<>>]
    /\ pc' = "fill"
    /\ UNCHANGED <<status, snapshots, local, evals, changes, crashed, baseline>>

(* ... and then writes it. *)
FillFile ==
    /\ pc = "fill"
    /\ file' = [intact |-> TRUE, records |-> local.records]
    /\ pc' = local.back
    /\ UNCHANGED <<status, snapshots, local, evals, changes, crashed, baseline>>

(* Variant: more records than the sample has count as a full run. *)
IsAtLeastFullRun == Len(local.records) >= Len(local.sample)

IsFullRun == Len(local.records) = Len(local.sample)

(* The loop is over; a full run is copied to a file of its own. *)
FinishEval ==
    /\ pc = "next"
    /\ local.todo = <<>>
    /\ snapshots' = IF IsFullRun
                      THEN snapshots \cup {[sample |-> local.sample, records |-> file.records]}
                      ELSE snapshots
    /\ pc' = "idle"
    /\ local' = NoEval
    /\ UNCHANGED <<status, file, evals, changes, crashed, baseline>>

(* The process dies, or any other exception ends it. *)
Crash ==
    /\ pc # "idle"
    /\ pc' = "idle"
    /\ local' = NoEval
    /\ crashed' = TRUE
    /\ UNCHANGED <<status, file, snapshots, evals, changes, baseline>>

(* External: a person, or an investigation outside the evaluation, changes a
   status. *)
OthersChange ==
    /\ changes < MaxChanges
    /\ changes' = changes + 1
    /\ \E a \in Alerts : \E new \in Applied \ {status[a]} :
         /\ status' = [status EXCEPT ![a] = new]
         /\ baseline' = [baseline EXCEPT ![a] = new]
    /\ UNCHANGED <<file, snapshots, pc, local, evals, crashed>>

Work ==
    \/ SnapshotAlert \/ Investigate \/ RateLimited \/ Restore
    \/ TruncateFile \/ FillFile \/ FinishEval

Next ==
    \/ BeginEval
    \/ SnapshotAlert \/ Investigate \/ RateLimited \/ Restore
    \/ TruncateFile \/ FillFile \/ FinishEval
    \/ Crash \/ OthersChange

Spec == Init /\ [][Next]_vars

(* The script is sequential; every investigation returns or raises. *)
FairSpec == Spec /\ WF_vars(Work)

-----------------------------------------------------------------------------
(* _score_detection, the same code twice: of all records in eval_agent.py, of the
   completed ones in score_eval.py. *)
TakenSeriously == {"escalated", "closed_sar_filed", "under_review"}

Count(records, of, serious) ==
    Cardinality({i \in DOMAIN records :
        records[i].alert \in of /\ (records[i].applied_status \in TakenSeriously) = serious})

Confusion(records) ==
    LET clean == Alerts \ Laundering
    IN  [tp |-> Count(records, Laundering, TRUE), fn |-> Count(records, Laundering, FALSE),
         fp |-> Count(records, clean, TRUE), tn |-> Count(records, clean, FALSE)]

(* Variant: errors are scored as well. *)
ScoredAll(records) == records

Scored(records) == Select(records, Completed(records))

OnlineScore(records) == Confusion(records)
OfflineScore(records) == Confusion(Scored(records))

(* However evaluations fail, resume and overlap in their samples, no alert is
   recorded, and so scored, twice. *)
OneRecord(records) ==
    \A i, j \in DOMAIN records : records[i].alert = records[j].alert => i = j

OneRecordPerAlert ==
    /\ OneRecord(local.records) /\ OneRecord(file.records)
    /\ \A s \in snapshots : OneRecord(s.records)

(* A snapshot of a full run holds a record for each alert of the sample, and
   for no other. *)
SnapshotsMatchSample ==
    \A s \in snapshots : AlertsOf(s.records) = Range(s.sample)

(* The scores of a full run, after whatever resumed and failed before it, count
   each alert of its sample once, with its own label.  The script itself counts an
   alert it gave up as dismissed and the offline scorer leaves it out: both agree on
   what was taken seriously and differ by exactly the errors. *)
ScoresMatchSample ==
    \A s \in snapshots :
      LET online == OnlineScore(s.records)
          offline == OfflineScore(s.records)
          errors == Range(s.sample) \ {r.alert : r \in Completed(s.records)}
      IN  /\ online.tp + online.fn = Cardinality(Range(s.sample) \cap Laundering)
          /\ online.fp + online.tn = Cardinality(Range(s.sample) \ Laundering)
          /\ offline.tp = online.tp /\ offline.fp = online.fp
          /\ online.fn - offline.fn = Cardinality(errors \cap Laundering)
          /\ online.tn - offline.tn = Cardinality(errors \ Laundering)

(* Checkpoints only grow: unless asked to start afresh, what is about to be
   written holds every result that is on file. *)
CheckpointsOnlyGrow ==
    pc = "write" /\ ~local.fresh => Completed(file.records) \subseteq Completed(local.records)

(* Left alone, evaluations are non-destructive: between two alerts every status
   is what it was before the first evaluation.  A status that others commit while
   an alert is being investigated is overwritten by the one read before. *)
RestoredWhenLeftAlone ==
    pc \in {"idle", "next"} /\ ~crashed /\ changes = 0 => status = baseline

(* Rate limits cannot hold an evaluation for ever. *)
EvalEnds == pc # "idle" ~> pc = "idle"
-----------------------------------------------------------------------------
(* The inductive strengthening of RestoredWhenLeftAlone: while nobody interferes,
   the statuses differ from the baseline only in the alert in hand, which has the
   status the session holds for it, from the investigation to the restore. *)
Undisturbed == ~crashed /\ changes = 0

Untouched == status = baseline /\ local.outcome = "none" /\ local.original = baseline[Alert]

RestoreInv ==
    /\ DOMAIN status = Alerts /\ status = [a \in DOMAIN status |-> status[a]]
    /\ DOMAIN baseline = Alerts /\ baseline = [a \in DOMAIN baseline |-> baseline[a]]
    /\ local = [field \in DOMAIN NoEval |-> local[field]]
    /\ changes \in Nat
    /\ Undisturbed =>
         /\ pc \in {"idle", "next"} => status = baseline
         /\ pc = "investigate" => Untouched
         /\ pc = "restore" => /\ status = [baseline EXCEPT ![Alert] = Held]
                              /\ local.original = baseline[Alert]
         /\ pc \in {"write", "fill"} =>
              status = baseline /\ local.back \in {"next", "investigate"}
         /\ pc \in {"write", "fill"} /\ local.back = "investigate" => Untouched

(* The inductive strengthening of the others: an alert of the sample is recorded or
   to be done, and not both. *)
FileInv ==
    /\ file.records \in Seq(Records) /\ file.intact \in BOOLEAN
    /\ OneRecord(file.records)
    /\ ~file.intact => file.records = <<>>
    /\ pc # "idle" /\ ~local.fresh => Completed(file.records) \subseteq Completed(local.records)
    /\ pc = "next" /\ local.todo = <<>> => file.records = local.records

(* The alert at the head of todo is being investigated or restored. *)
InHand ==
    \/ pc \in {"investigate", "restore"}
    \/ pc \in {"write", "fill"} /\ local.back = "investigate"

TodoInv ==
    /\ local.sample \in Seq(Alerts) /\ IsInjective(local.sample)
    /\ local.todo \in Seq(Alerts) /\ IsInjective(local.todo)
    /\ local.records \in Seq(Records) /\ OneRecord(local.records)
    /\ AlertsOf(local.records) \cap Range(local.todo) = {}
    /\ Range(local.sample) \subseteq AlertsOf(local.records) \cup Range(local.todo)
    /\ InHand => local.todo # <<>>

RetryInv ==
    /\ local.retries \in 0..(MAX_RETRIES_PER_ALERT + 1)
    /\ local.original \in Statuses
    /\ local.outcome \in Applied \cup {"none"}
    /\ local.back \in {"next", "investigate"}
    /\ InHand /\ pc # "restore" =>
         local.retries <= MAX_RETRIES_PER_ALERT /\ local.outcome = "none"

SnapshotsInv ==
    \A s \in snapshots :
        /\ s.records \in Seq(Records) /\ OneRecord(s.records)
        /\ s.sample \in Seq(Alerts) /\ IsInjective(s.sample)
        /\ AlertsOf(s.records) = Range(s.sample)

EvalInv ==
    /\ status \in [Alerts -> Statuses]
    /\ pc \in {"idle", "next", "investigate", "restore", "write", "fill"}
    /\ local = [field \in DOMAIN NoEval |-> local[field]]
    /\ FileInv
    /\ TodoInv
    /\ RetryInv
    /\ SnapshotsInv
=============================================================================
