---------------------------- MODULE RuleEngineProofs ----------------------------
(***************************************************************************)
(* For every finite set of engines and of transactions, all rules and      *)
(* every batch size: a rule reported complete has all its candidates in    *)
(* the alerts table, and the counts reported count no alert twice.         *)
(*                                                                         *)
(* IInv says where the candidates are meanwhile: committed, in the open    *)
(* transaction, or in the queue; a row is skipped only for a committed key.*)
(* CountInv says that open transactions hold keys of their own, that a run *)
(* reports each rule once, and that what is counted is in one run's hand   *)
(* or in one report.                                                       *)
(***************************************************************************)
EXTENDS RuleEngine, CommonLemmas

(* What Head and Tail do to the set of elements of a sequence. *)
LEMMA HeadAndTail ==
    ASSUME NEW S, NEW q \in Seq(S), q # <<>>
    PROVE  /\ Head(q) \in S
           /\ Tail(q) \in Seq(S)
           /\ ToSet(q) \subseteq {Head(q)} \cup ToSet(Tail(q))
<1>1. Head(q) \in S /\ Tail(q) \in Seq(S) OBVIOUS
<1>2. ASSUME NEW i \in DOMAIN q, i # 1
      PROVE  q[i] \in ToSet(Tail(q))
  <2>1. i - 1 \in DOMAIN Tail(q) /\ Tail(q)[i - 1] = q[i] BY <1>2
  <2>2. QED BY <2>1 DEF ToSet
<1>3. QED BY <1>1, <1>2 DEF ToSet

(* An ordering of a finite set holds all of its elements. *)
LEMMA OrderingIsComplete ==
    ASSUME NEW S, IsFiniteSet(S), NEW q \in SetToSeqs(S)
    PROVE  q \in Seq(S) /\ S \subseteq ToSet(q)
<1> DEFINE n == Cardinality(S)
<1>1. n \in Nat BY FS_CardinalityType
<1>2. q \in [1..n -> S] /\ \A i, j \in 1..n : i # j => q[i] # q[j]
  BY DEF SetToSeqs
<1>3. IsFiniteSet(1..n) /\ Cardinality(1..n) = n
  BY <1>1, FS_Interval
<1> HIDE DEF n
<1>4. q \in Injection(1..n, S)
  BY <1>2 DEF Injection, IsInjective
<1>5. q \in Surjection(1..n, S)
  BY <1>3, <1>4, FS_Injection DEF n
<1>6. S \subseteq ToSet(q)
  BY <1>2, <1>5 DEF Surjection, ToSet
<1>7. q \in Seq(S) BY <1>1, <1>2
<1>8. QED BY <1>6, <1>7

(* A run record for the start of a rule is well typed. *)
LEMMA FreshType ==
    ASSUME NEW id \in 0..MaxRuns, NEW dry_run \in BOOLEAN, NEW rule \in 1..(Len(REGISTRY) + 1)
    PROVE  Fresh(id, dry_run, rule) \in Runs
<1>1. <<>> \in Seq(Keys) /\ 0 \in 0..BATCH_SIZE BY RuleEngineAssumption
<1>2. QED BY <1>1 DEF Fresh, Runs

LEMMA NoRunType == NoRun \in Runs
<1>1. Len(REGISTRY) \in Nat BY RuleEngineAssumption
<1>2. 0 \in 0..MaxRuns /\ FALSE \in BOOLEAN /\ 1 \in 1..(Len(REGISTRY) + 1)
  BY <1>1, RuleEngineAssumption
<1>3. Fresh(0, FALSE, 1) \in Runs BY <1>2, FreshType
<1>4. QED BY <1>3 DEF NoRun

(* The invariant holds when no alert is stored and no engine runs. *)
LEMMA InitIInv == Init => IInv
<1> SUFFICES ASSUME Init PROVE IInv OBVIOUS
<1>1. TypeOK BY NoRunType, RuleEngineAssumption DEF Init, TypeOK
<1>2. QED BY <1>1 DEF Init, IInv, ReportedRulesAreCovered, CandidatesAccountedFor

(* A step by one engine disturbs no other engine's candidates, as long as no
   alert disappears. *)
LEMMA OthersUndisturbed ==
    ASSUME IInv, NEW e \in Engines, NEW other \in Engines, other # e,
           alerts \subseteq alerts',
           pc'[other] = pc[other], run'[other] = run[other], held'[other] = held[other]
    PROVE  CandidatesAccountedFor(other)'
BY DEF IInv, CandidatesAccountedFor

(* The rule in hand is one of the registry. *)
LEMMA RuleInRegistry ==
    ASSUME IInv, NEW e \in Engines, run[e].rule <= Len(REGISTRY)
    PROVE  /\ run[e] \in Runs
           /\ REGISTRY[run[e].rule] \in Rules
           /\ run[e].rule + 1 \in 1..(Len(REGISTRY) + 1)
BY RuleEngineAssumption DEF IInv, TypeOK, Runs, Rules

LEMMA EvaluateKeepsIInv ==
    ASSUME IInv, NEW e \in Engines, Evaluate(e)
    PROVE  IInv'
<1> DEFINE rule == REGISTRY[run[e].rule]
           found == {rule} \X (Matches[rule] \cap stored)
<1>1. /\ pc[e] = "evaluate" /\ run[e].rule <= Len(REGISTRY)
      /\ UNCHANGED <<stored, alerts, held, reports, started, ended>>
  BY DEF Evaluate
<1>2. rule \in Rules /\ run[e] \in Runs /\ run[e].rule + 1 \in 1..(Len(REGISTRY) + 1)
  BY <1>1, RuleInRegistry
<1>3. found \subseteq Keys BY <1>2, RuleEngineAssumption DEF Keys
<1>4. ReportedRulesAreCovered' BY <1>1 DEF IInv, ReportedRulesAreCovered
<1>5. CASE run[e].dry_run
  <2>1. run' = [run EXCEPT ![e] = Fresh(run[e].id, run[e].dry_run, run[e].rule + 1)] /\ pc' = pc
    BY <1>5 DEF Evaluate, NextRule
  <2>2. Fresh(run[e].id, run[e].dry_run, run[e].rule + 1) \in Runs
    BY <1>2, FreshType DEF Runs
  <2>3. TypeOK' BY <1>1, <2>1, <2>2 DEF IInv, TypeOK
  <2>4. CandidatesAccountedFor(e)' BY <1>1, <2>1 DEF CandidatesAccountedFor
  <2>5. ASSUME NEW other \in Engines, other # e PROVE CandidatesAccountedFor(other)'
    BY <1>1, <2>1, <2>5, OthersUndisturbed DEF IInv, TypeOK
  <2>6. QED BY <1>4, <2>3, <2>4, <2>5 DEF IInv
<1>6. CASE ~run[e].dry_run
  <2>1. PICK queue \in SetToSeqs(found) :
          run' = [run EXCEPT ![e].found = found, ![e].queue = queue]
    BY <1>6 DEF Evaluate
  <2>2. pc' = [pc EXCEPT ![e] = IF found = {} THEN "report" ELSE "insert"]
    BY <1>6 DEF Evaluate
  <2>3. IsFiniteSet(found)
    <3>1. IsFiniteSet(Matches[rule] \cap stored)
      BY RuleEngineAssumption, FS_Subset DEF IInv, TypeOK
    <3>2. QED BY <3>1, FS_Singleton, FS_Product
  <2>4. queue \in Seq(found) /\ found \subseteq ToSet(queue)
    BY <2>3, OrderingIsComplete
  <2>5. queue \in Seq(Keys) BY <1>3, <2>4
  <2> HIDE DEF found, rule
  <2>6. run'[e] = [run[e] EXCEPT !.found = found, !.queue = queue]
    BY <2>1 DEF IInv, TypeOK
  <2>7. run'[e] \in Runs BY <1>2, <1>3, <2>5, <2>6 DEF Runs
  <2>8. TypeOK'
    <3>1. run' \in [Engines -> Runs] BY <2>1, <2>6, <2>7 DEF IInv, TypeOK
    <3>2. QED BY <1>1, <2>2, <3>1 DEF IInv, TypeOK
  <2>9. CandidatesAccountedFor(e)'
    BY <1>1, <1>2, <2>2, <2>4, <2>6 DEF IInv, TypeOK, CandidatesAccountedFor, Runs
  <2>10. ASSUME NEW other \in Engines, other # e PROVE CandidatesAccountedFor(other)'
    BY <1>1, <2>1, <2>2, <2>10, OthersUndisturbed DEF IInv, TypeOK
  <2>11. QED BY <1>4, <2>8, <2>9, <2>10 DEF IInv
<1>7. QED BY <1>5, <1>6

LEMMA InsertRowKeepsIInv ==
    ASSUME IInv, NEW e \in Engines, InsertRow(e)
    PROVE  IInv'
<1> DEFINE q == run[e].queue
<1>1. /\ pc[e] = "insert" /\ run[e].filled # BATCH_SIZE /\ q # <<>>
      /\ held' = [held EXCEPT ![e] = @ \cup ({Head(q)} \ alerts)]
      /\ run' = [run EXCEPT ![e].queue = Tail(@), ![e].filled = @ + 1]
      /\ UNCHANGED <<stored, alerts, pc, reports, started, ended>>
  BY DEF InsertRow, Inserting, BatchIsFull
<1>2. run[e] \in Runs BY DEF IInv, TypeOK
<1>3. q \in Seq(Keys) BY <1>2 DEF Runs
<1>4. /\ Head(q) \in Keys /\ Tail(q) \in Seq(Keys)
      /\ ToSet(q) \subseteq {Head(q)} \cup ToSet(Tail(q))
  BY <1>1, <1>3, HeadAndTail
<1>5. run'[e] = [run[e] EXCEPT !.queue = Tail(q), !.filled = @ + 1]
  BY <1>1 DEF IInv, TypeOK
<1> HIDE DEF q
<1>6. run'[e] \in Runs
  <2>1. run[e].filled + 1 \in 0..BATCH_SIZE
    BY <1>1, <1>2, RuleEngineAssumption DEF Runs
  <2>2. QED BY <1>2, <1>4, <1>5, <2>1 DEF Runs
<1>7. TypeOK'
  <2>1. run' \in [Engines -> Runs] BY <1>1, <1>5, <1>6 DEF IInv, TypeOK
  <2>2. held' \in [Engines -> SUBSET Keys] BY <1>1, <1>4 DEF IInv, TypeOK
  <2>3. QED BY <1>1, <2>1, <2>2 DEF IInv, TypeOK
<1>8. ReportedRulesAreCovered' BY <1>1 DEF IInv, ReportedRulesAreCovered
<1>9. CandidatesAccountedFor(e)'
  <2>1. run[e].found \subseteq alerts \cup held[e] \cup ToSet(q)
    BY <1>1 DEF IInv, CandidatesAccountedFor, q
  <2>2. held'[e] = held[e] \cup ({Head(q)} \ alerts) BY <1>1 DEF IInv, TypeOK
  <2>3. /\ run'[e].found = run[e].found /\ run'[e].queue = Tail(q)
        /\ run'[e].rule = run[e].rule
    BY <1>2, <1>5 DEF Runs
  <2>4. run[e].found \subseteq alerts \cup held'[e] \cup ToSet(Tail(q))
    BY <1>4, <2>1, <2>2
  <2>5. run[e].rule <= Len(REGISTRY) BY <1>1 DEF IInv, CandidatesAccountedFor
  <2>6. QED BY <1>1, <2>3, <2>4, <2>5 DEF CandidatesAccountedFor
<1>10. ASSUME NEW other \in Engines, other # e PROVE CandidatesAccountedFor(other)'
  BY <1>1, <1>10, OthersUndisturbed DEF IInv, TypeOK
<1>11. QED BY <1>7, <1>8, <1>9, <1>10 DEF IInv

(* There are finitely many keys. *)
LEMMA KeysAreFinite == IsFiniteSet(Keys)
<1>1. DOMAIN REGISTRY = 1..Len(REGISTRY) /\ Len(REGISTRY) \in Nat
  BY RuleEngineAssumption
<1>2. IsFiniteSet(DOMAIN REGISTRY)
  BY <1>1, FS_Interval
<1>3. REGISTRY \in Surjection(DOMAIN REGISTRY, Rules)
  BY RuleEngineAssumption DEF Surjection, Rules
<1>4. IsFiniteSet(Rules)
  BY <1>2, <1>3, FS_Surjection
<1>5. QED BY <1>4, RuleEngineAssumption, FS_Product DEF Keys

LEMMA CommitBatchKeepsIInv ==
    ASSUME IInv, NEW e \in Engines, CommitBatch(e)
    PROVE  IInv'
<1> DEFINE n == Cardinality(held[e])
<1>1. /\ pc[e] = "insert"
      /\ alerts' = alerts \cup held[e]
      /\ held' = [held EXCEPT ![e] = {}]
      /\ run' = [run EXCEPT ![e].filled = 0, ![e].inserted = @ + n]
      /\ pc' = [pc EXCEPT ![e] = IF run[e].queue = <<>> THEN "report" ELSE "insert"]
      /\ UNCHANGED <<stored, reports, started, ended>>
  BY DEF CommitBatch
<1>2. run[e] \in Runs /\ held[e] \subseteq Keys BY DEF IInv, TypeOK
<1>3. n \in Nat
  BY <1>2, KeysAreFinite, FS_Subset, FS_CardinalityType
<1> HIDE DEF n
<1>4. run'[e] = [run[e] EXCEPT !.filled = 0, !.inserted = @ + n]
  BY <1>1 DEF IInv, TypeOK
<1>5. run'[e] \in Runs
  <2>1. run[e].inserted + n \in Nat /\ 0 \in 0..BATCH_SIZE
    BY <1>2, <1>3, RuleEngineAssumption DEF Runs
  <2>2. QED BY <1>2, <1>4, <2>1 DEF Runs
<1>6. TypeOK'
  <2>1. run' \in [Engines -> Runs] BY <1>1, <1>4, <1>5 DEF IInv, TypeOK
  <2>2. QED BY <1>1, <1>2, <2>1 DEF IInv, TypeOK
<1>7. ReportedRulesAreCovered' BY <1>1 DEF IInv, ReportedRulesAreCovered
<1>8. CandidatesAccountedFor(e)'
  <2>1. run[e].found \subseteq alerts' \cup ToSet(run[e].queue)
    BY <1>1 DEF IInv, CandidatesAccountedFor
  <2>2. run[e].queue = <<>> => ToSet(run[e].queue) = {} BY DEF ToSet
  <2>3. /\ run'[e].found = run[e].found /\ run'[e].queue = run[e].queue
        /\ run'[e].rule = run[e].rule
    BY <1>2, <1>4 DEF Runs
  <2>4. run[e].rule <= Len(REGISTRY) BY <1>1 DEF IInv, CandidatesAccountedFor
  <2>5. pc'[e] = IF run[e].queue = <<>> THEN "report" ELSE "insert"
    BY <1>1 DEF IInv, TypeOK
  <2>6. QED BY <2>1, <2>2, <2>3, <2>4, <2>5 DEF CandidatesAccountedFor
<1>9. ASSUME NEW other \in Engines, other # e PROVE CandidatesAccountedFor(other)'
  BY <1>1, <1>9, OthersUndisturbed DEF IInv, TypeOK
<1>10. QED BY <1>6, <1>7, <1>8, <1>9 DEF IInv

LEMMA ReportRuleKeepsIInv ==
    ASSUME IInv, NEW e \in Engines, ReportRule(e)
    PROVE  IInv'
<1> DEFINE report == [run |-> run[e].id, rule |-> REGISTRY[run[e].rule],
                      found |-> run[e].found, inserted |-> run[e].inserted]
           fresh == Fresh(run[e].id, run[e].dry_run, run[e].rule + 1)
<1>1. /\ pc[e] = "report"
      /\ reports' = reports \cup {report}
      /\ run' = [run EXCEPT ![e] = fresh]
      /\ pc' = [pc EXCEPT ![e] = "evaluate"]
      /\ UNCHANGED <<stored, alerts, held, started, ended>>
  BY DEF ReportRule, NextRule
<1>2. run[e].rule <= Len(REGISTRY) /\ run[e].found \subseteq alerts
  BY <1>1 DEF IInv, CandidatesAccountedFor
<1>3. /\ run[e] \in Runs /\ REGISTRY[run[e].rule] \in Rules
      /\ run[e].rule + 1 \in 1..(Len(REGISTRY) + 1)
  BY <1>2, RuleInRegistry
<1>4. report \in Reports /\ fresh \in Runs
  BY <1>3, FreshType DEF Runs, Reports
<1>5. report.found = run[e].found OBVIOUS
<1> HIDE DEF report, fresh
<1>6. TypeOK' BY <1>1, <1>4 DEF IInv, TypeOK
<1>7. ReportedRulesAreCovered'
  BY <1>1, <1>2, <1>5 DEF IInv, ReportedRulesAreCovered
<1>8. CandidatesAccountedFor(e)' BY <1>1 DEF IInv, TypeOK, CandidatesAccountedFor
<1>9. ASSUME NEW other \in Engines, other # e PROVE CandidatesAccountedFor(other)'
  BY <1>1, <1>9, OthersUndisturbed DEF IInv, TypeOK
<1>10. QED BY <1>6, <1>7, <1>8, <1>9 DEF IInv

(* However a run ends, what it has reported stays covered. *)
LEMMA LeaveKeepsIInv ==
    ASSUME IInv, NEW e \in Engines, Leave(e), ended' \subseteq 0..MaxRuns,
           UNCHANGED <<stored, alerts, reports, started>>
    PROVE  IInv'
<1>1. TypeOK' BY NoRunType DEF IInv, TypeOK, Leave
<1>2. ReportedRulesAreCovered' BY DEF IInv, ReportedRulesAreCovered
<1>3. CandidatesAccountedFor(e)' BY DEF IInv, TypeOK, Leave, CandidatesAccountedFor
<1>4. ASSUME NEW other \in Engines, other # e PROVE CandidatesAccountedFor(other)'
  BY <1>4, OthersUndisturbed DEF IInv, TypeOK, Leave
<1>5. QED BY <1>1, <1>2, <1>3, <1>4 DEF IInv

(* Every step keeps the invariant. *)
LEMMA NextKeepsIInv == IInv /\ [Next]_vars => IInv'
<1> SUFFICES ASSUME IInv, [Next]_vars PROVE IInv' OBVIOUS
<1>1. CASE UNCHANGED vars
  BY <1>1 DEF vars, IInv, TypeOK, ReportedRulesAreCovered, CandidatesAccountedFor
<1>2. CASE Ingest
  <2>1. TypeOK' BY <1>2 DEF Ingest, IInv, TypeOK
  <2>2. QED BY <1>2, <2>1 DEF Ingest, IInv, ReportedRulesAreCovered, CandidatesAccountedFor
<1>3. ASSUME NEW e \in Engines, Begin(e) PROVE IInv'
  <2>1. PICK dry_run \in BOOLEAN :
          run' = [run EXCEPT ![e] = Fresh(started + 1, dry_run, 1)]
    BY <1>3 DEF Begin
  <2>2. started + 1 \in 0..MaxRuns /\ 1 \in 1..(Len(REGISTRY) + 1)
    BY <1>3, RuleEngineAssumption DEF Begin, IInv, TypeOK
  <2>3. Fresh(started + 1, dry_run, 1) \in Runs BY <2>2, FreshType
  <2>4. TypeOK' BY <1>3, <2>1, <2>2, <2>3 DEF Begin, IInv, TypeOK
  <2>5. ReportedRulesAreCovered' BY <1>3 DEF Begin, IInv, ReportedRulesAreCovered
  <2>6. CandidatesAccountedFor(e)' BY <1>3 DEF Begin, IInv, TypeOK, CandidatesAccountedFor
  <2>7. ASSUME NEW other \in Engines, other # e PROVE CandidatesAccountedFor(other)'
    BY <1>3, <2>1, <2>7, OthersUndisturbed DEF Begin, IInv, TypeOK
  <2>8. QED BY <2>4, <2>5, <2>6, <2>7 DEF IInv
<1>4. ASSUME NEW e \in Engines, Complete(e) PROVE IInv'
  <2>1. run[e].id \in 0..MaxRuns BY DEF IInv, TypeOK, Runs
  <2>2. ended' \subseteq 0..MaxRuns BY <1>4, <2>1 DEF Complete, IInv, TypeOK
  <2>3. QED BY <1>4, <2>2, LeaveKeepsIInv DEF Complete
<1>5. ASSUME NEW e \in Engines, BreakDeadlock(e) \/ Crash(e) PROVE IInv'
  BY <1>5, LeaveKeepsIInv DEF BreakDeadlock, Crash, IInv, TypeOK
<1>6. QED
  BY <1>1, <1>2, <1>3, <1>4, <1>5, EvaluateKeepsIInv, InsertRowKeepsIInv,
     CommitBatchKeepsIInv, ReportRuleKeepsIInv
     DEF Next

(* Type correctness: above all no INSERT exceeds the batch size and no run
   goes past the end of the registry. *)
THEOREM TypeCorrect == Spec => []TypeOK
<1>1. IInv => TypeOK BY DEF IInv
<1>2. QED BY <1>1, InitIInv, NextKeepsIInv, PTL DEF Spec

(* rule_completed is the truth: every candidate of a rule reported complete is
   an alert, whoever stored it and whatever died since. *)
THEOREM ReportedAlwaysCovered == Spec => []ReportedRulesAreCovered
<1>1. IInv => ReportedRulesAreCovered BY DEF IInv
<1>2. QED BY <1>1, InitIInv, NextKeepsIInv, PTL DEF Spec

-----------------------------------------------------------------------------
(* The counts are numbers, the sets counted finite. *)
LEMMA CountsAreNumbers ==
    ASSUME TypeOK, IsFiniteSet(reports)
    PROVE  /\ InReports \in Nat /\ InHand \in Nat
           /\ IsFiniteSet(alerts) /\ Cardinality(alerts) \in Nat
           /\ \A e \in Engines : IsFiniteSet(held[e]) /\ Cardinality(held[e]) \in Nat
           /\ IsFiniteSet(ended) /\ Cardinality(ended) \in Nat
           /\ IsFiniteSet(Active) /\ Cardinality(Active) \in Nat
           /\ started \in Nat
<1>1. InReports \in Nat
  <2> DEFINE f == [report \in reports |-> report.inserted]
  <2>1. \A report \in reports : f[report] \in Nat
    BY DEF TypeOK, Reports
  <2>2. DOMAIN f = reports
    OBVIOUS
  <2> HIDE DEF f
  <2>3. SumFunctionOnSet(f, reports) \in Nat
    BY <2>1, SumIsNat
  <2>4. QED BY <2>2, <2>3 DEF InReports, SumFunction, f
<1>2. InHand \in Nat
  <2> DEFINE f == [e \in Engines |-> run[e].inserted]
  <2>1. \A e \in Engines : f[e] \in Nat
    BY DEF TypeOK, Runs
  <2>2. DOMAIN f = Engines
    OBVIOUS
  <2> HIDE DEF f
  <2>3. SumFunctionOnSet(f, Engines) \in Nat
    BY <2>1, SumIsNat, RuleEngineAssumption
  <2>4. QED BY <2>2, <2>3 DEF InHand, SumFunction, f
<1>3. IsFiniteSet(alerts) /\ \A e \in Engines : IsFiniteSet(held[e])
  BY KeysAreFinite, FS_Subset DEF TypeOK
<1>4. IsFiniteSet(ended)
  <2>1. IsFiniteSet(0..MaxRuns)
    BY RuleEngineAssumption, FS_Interval
  <2>2. QED BY <2>1, FS_Subset DEF TypeOK
<1>5. IsFiniteSet(Active)
  BY RuleEngineAssumption, FS_Subset DEF Active
<1>6. started \in Nat
  BY RuleEngineAssumption DEF TypeOK
<1>7. QED BY <1>1, <1>2, <1>3, <1>4, <1>5, <1>6, FS_CardinalityType

LEMMA NextCountsAreNumbers ==
    ASSUME TypeOK'
    PROVE  InHand' \in Nat /\ Cardinality(Active') \in Nat /\ Cardinality(ended') \in Nat
<1>1. InHand' \in Nat
  <2> DEFINE f == [e \in Engines |-> run'[e].inserted]
  <2>1. \A e \in Engines : f[e] \in Nat
    BY DEF TypeOK, Runs
  <2>2. DOMAIN f = Engines
    OBVIOUS
  <2> HIDE DEF f
  <2>3. SumFunctionOnSet(f, Engines) \in Nat
    BY <2>1, SumIsNat, RuleEngineAssumption
  <2>4. QED BY <2>2, <2>3 DEF InHand, SumFunction, f
<1>2. IsFiniteSet(ended')
  <2>1. IsFiniteSet(0..MaxRuns)
    BY RuleEngineAssumption, FS_Interval
  <2>2. QED BY <2>1, FS_Subset DEF TypeOK
<1>3. IsFiniteSet(Active')
  BY RuleEngineAssumption, FS_Subset DEF Active
<1>4. QED BY <1>1, <1>2, <1>3, FS_CardinalityType

(* A step by one engine changes what runs have counted by what it counts. *)
LEMMA OneRunCounts ==
    ASSUME TypeOK, TypeOK', NEW e \in Engines,
           \A other \in Engines \ {e} : run'[other] = run[other]
    PROVE  InHand' + run[e].inserted = InHand + run'[e].inserted
<1> DEFINE f == [o \in Engines |-> run[o].inserted]
           g == [o \in Engines |-> run'[o].inserted]
<1>1. \A o \in Engines : f[o] \in Nat /\ g[o] \in Nat
  BY DEF TypeOK, Runs
<1>2. \A o \in Engines \ {e} : f[o] = g[o]
  OBVIOUS
<1>3. DOMAIN f = Engines /\ DOMAIN g = Engines
  OBVIOUS
<1>4. f[e] = run[e].inserted /\ g[e] = run'[e].inserted
  OBVIOUS
<1>5. InHand = SumFunctionOnSet(f, Engines) /\ InHand' = SumFunctionOnSet(g, Engines)
  BY <1>3 DEF InHand, SumFunction
<1> HIDE DEF f, g
<1>6. SumFunctionOnSet(g, Engines) + f[e] = SumFunctionOnSet(f, Engines) + g[e]
  BY <1>1, <1>2, SumChanges, RuleEngineAssumption
<1>7. QED BY <1>4, <1>5, <1>6

(* A new audit row adds what it says. *)
LEMMA ReportCounts ==
    ASSUME TypeOK', IsFiniteSet(reports), NEW report, report \notin reports,
           reports' = reports \cup {report}
    PROVE  InReports' = InReports + report.inserted
<1> DEFINE f == [r \in reports' |-> r.inserted]
           g == [r \in reports |-> r.inserted]
<1>1. \A r \in reports \cup {report} : f[r] \in Nat
  BY DEF TypeOK, Reports
<1>2. \A r \in reports : f[r] = g[r]
  OBVIOUS
<1>3. DOMAIN f = reports \cup {report} /\ DOMAIN g = reports /\ f[report] = report.inserted
  OBVIOUS
<1>4. InReports = SumFunctionOnSet(g, reports)
  BY <1>3 DEF InReports, SumFunction
<1>5. InReports' = SumFunctionOnSet(f, reports \cup {report})
  BY <1>3 DEF InReports, SumFunction
<1>6. report.inserted \in Nat
  BY <1>1, <1>3
<1> HIDE DEF f, g
<1>7. SumFunctionOnSet(f, reports \cup {report}) = f[report] + SumFunctionOnSet(g, reports)
  BY <1>1, <1>2, SumAlso
<1>8. SumFunctionOnSet(g, reports) \in Nat
  BY <1>1, <1>2, SumIsNat
<1>9. QED BY <1>3, <1>4, <1>5, <1>6, <1>7, <1>8

(* Nothing is counted before the first run. *)
LEMMA InitCountInv == Init => CountInv
<1> SUFFICES ASSUME Init PROVE CountInv OBVIOUS
<1>1. IsFiniteSet(reports) /\ Active = {} /\ ended = {} /\ started = 0 /\ alerts = {}
  BY FS_EmptySet DEF Init, Active
<1>2. InReports = 0
  <2> DEFINE f == [report \in reports |-> report.inserted]
  <2>1. DOMAIN f = {} BY DEF Init
  <2> HIDE DEF f
  <2>2. SumFunctionOnSet(f, {}) = 0 BY SumOfNone
  <2>3. QED BY <2>1, <2>2 DEF InReports, SumFunction, f
<1>3. InHand = 0
  <2> DEFINE f == [e \in Engines |-> run[e].inserted]
  <2>1. \A e \in Engines : f[e] = 0 BY DEF Init, NoRun, Fresh
  <2>2. DOMAIN f = Engines OBVIOUS
  <2> HIDE DEF f
  <2>3. SumFunctionOnSet(f, Engines) = 0 BY <2>1, SumOfZeros, RuleEngineAssumption
  <2>4. QED BY <2>2, <2>3 DEF InHand, SumFunction, f
<1>4. Cardinality({}) = 0 BY FS_EmptySet
<1>5. AlertsCountedOnce BY <1>1, <1>2, <1>3, <1>4 DEF AlertsCountedOnce, Reported
<1>6. HeldApart BY DEF Init, HeldApart
<1>7. RunsApart BY <1>1 DEF Init, RunsApart
<1>8. \A e \in Engines : run[e].inserted = 0 BY DEF Init, NoRun, Fresh
<1>9. QED BY <1>1, <1>4, <1>5, <1>6, <1>7, <1>8 DEF CountInv

(* A step that neither counts nor begins or ends a run leaves the count right. *)
LEMMA CountUndisturbed ==
    ASSUME CountInv, IInv, IInv', NEW e \in Engines,
           \A other \in Engines \ {e} : run'[other] = run[other],
           run'[e].inserted = run[e].inserted, Active' = Active,
           UNCHANGED <<alerts, reports, started, ended>>
    PROVE  AlertsCountedOnce'
<1>1. InHand' + run[e].inserted = InHand + run'[e].inserted
  BY OneRunCounts DEF IInv
<1>2. run[e].inserted \in Nat BY DEF IInv, TypeOK, Runs
<1>3. IsFiniteSet(reports) BY DEF CountInv
<1>4. InHand \in Nat /\ InHand' \in Nat
  BY <1>3, CountsAreNumbers, NextCountsAreNumbers DEF IInv
<1>5. InHand' = InHand BY <1>1, <1>2, <1>4
<1>6. InReports' = InReports BY DEF InReports
<1>7. Reported' = Reported BY <1>5, <1>6 DEF Reported
<1>8. QED BY <1>7 DEF CountInv, AlertsCountedOnce

LEMMA RunsStayApart ==
    ASSUME RunsApart, UNCHANGED <<reports, started>>, Active' = Active,
           \A a \in Active : run'[a].id = run[a].id /\ run'[a].rule = run[a].rule
    PROVE  RunsApart'
BY DEF RunsApart

LEMMA EvaluateCounts ==
    ASSUME CountInv, IInv, IInv', NEW e \in Engines, Evaluate(e)
    PROVE  CountInv'
<1>1. /\ pc[e] = "evaluate" /\ run[e].rule <= Len(REGISTRY)
      /\ UNCHANGED <<stored, alerts, held, reports, started, ended>>
  BY DEF Evaluate
<1>2. run[e] \in Runs /\ run[e].inserted = 0
  BY <1>1 DEF IInv, TypeOK, CountInv
<1>3. /\ \A other \in Engines \ {e} : run'[other] = run[other] /\ pc'[other] = pc[other]
      /\ run'[e].inserted = 0 /\ run'[e].id = run[e].id /\ pc'[e] # "idle"
      /\ run'[e].rule \in {run[e].rule, run[e].rule + 1}
  <2>1. CASE run[e].dry_run
    BY <1>1, <2>1 DEF Evaluate, NextRule, Fresh, IInv, TypeOK
  <2>2. CASE ~run[e].dry_run
    <3> DEFINE found == {REGISTRY[run[e].rule]} \X (Matches[REGISTRY[run[e].rule]] \cap stored)
    <3>1. PICK queue \in SetToSeqs(found) :
            run' = [run EXCEPT ![e].found = found, ![e].queue = queue]
      BY <2>2 DEF Evaluate
    <3>2. pc' = [pc EXCEPT ![e] = IF found = {} THEN "report" ELSE "insert"]
      BY <2>2 DEF Evaluate
    <3> HIDE DEF found
    <3>3. run'[e] = [run[e] EXCEPT !.found = found, !.queue = queue]
      BY <3>1 DEF IInv, TypeOK
    <3>4. /\ run'[e].inserted = run[e].inserted /\ run'[e].id = run[e].id
          /\ run'[e].rule = run[e].rule
      BY <1>2, <3>3 DEF Runs
    <3>5. pc'[e] # "idle" /\ \A other \in Engines \ {e} : pc'[other] = pc[other]
      BY <3>2 DEF IInv, TypeOK
    <3>6. \A other \in Engines \ {e} : run'[other] = run[other]
      BY <3>1 DEF IInv, TypeOK
    <3>7. QED BY <1>2, <3>4, <3>5, <3>6
  <2>3. QED BY <2>1, <2>2
<1>4. Active' = Active BY <1>1, <1>3 DEF Active
<1>5. AlertsCountedOnce' BY <1>1, <1>2, <1>3, <1>4, CountUndisturbed
<1>6. HeldApart' BY <1>1 DEF CountInv, HeldApart
<1>7. RunsApart'
  <2>1. \A i \in DOMAIN REGISTRY : i < run[e].rule => i < run'[e].rule
    BY <1>2, <1>3, RuleEngineAssumption DEF Runs
  <2>2. e \in Active BY <1>1 DEF Active
  <2>3. QED BY <1>1, <1>3, <1>4, <2>1, <2>2 DEF CountInv, RunsApart, Active
<1>8. QED BY <1>1, <1>3, <1>4, <1>5, <1>6, <1>7 DEF CountInv

LEMMA InsertRowCounts ==
    ASSUME CountInv, IInv, IInv', NEW e \in Engines, InsertRow(e)
    PROVE  CountInv'
<1> DEFINE key == Head(run[e].queue)
<1>1. /\ pc[e] = "insert"
      /\ \A other \in Engines \ {e} : key \notin held[other]
      /\ held' = [held EXCEPT ![e] = @ \cup ({key} \ alerts)]
      /\ run' = [run EXCEPT ![e].queue = Tail(@), ![e].filled = @ + 1]
      /\ UNCHANGED <<stored, alerts, pc, reports, started, ended>>
  BY DEF InsertRow, Inserting, WaitsFor
<1>2. /\ run'[e].inserted = run[e].inserted /\ run'[e].id = run[e].id
      /\ run'[e].rule = run[e].rule
      /\ \A other \in Engines \ {e} : run'[other] = run[other]
  BY <1>1 DEF IInv, TypeOK, Runs
<1>3. Active' = Active BY <1>1 DEF Active
<1>4. AlertsCountedOnce' BY <1>1, <1>2, <1>3, CountUndisturbed
<1> HIDE DEF key
<1>5. HeldApart'
  <2>1. held'[e] \subseteq held[e] \cup ({key} \ alerts)
    BY <1>1 DEF IInv, TypeOK
  <2>2. \A other \in Engines \ {e} : held'[other] = held[other]
    BY <1>1 DEF IInv, TypeOK
  <2>3. QED BY <1>1, <2>1, <2>2 DEF CountInv, HeldApart
<1>6. RunsApart' BY <1>1, <1>2, <1>3, RunsStayApart DEF CountInv, Active
<1>7. QED BY <1>1, <1>2, <1>3, <1>4, <1>5, <1>6 DEF CountInv

(* A commit counts exactly the rows it adds to the table: no one else has them. *)
LEMMA CommitBatchCounts ==
    ASSUME CountInv, IInv, IInv', NEW e \in Engines, CommitBatch(e)
    PROVE  CountInv'
<1> DEFINE n == Cardinality(held[e])
<1>1. /\ pc[e] = "insert"
      /\ alerts' = alerts \cup held[e]
      /\ held' = [held EXCEPT ![e] = {}]
      /\ run' = [run EXCEPT ![e].filled = 0, ![e].inserted = @ + n]
      /\ pc' = [pc EXCEPT ![e] = IF run[e].queue = <<>> THEN "report" ELSE "insert"]
      /\ UNCHANGED <<stored, reports, started, ended>>
  BY DEF CommitBatch
<1>2. /\ InHand \in Nat /\ InReports \in Nat /\ IsFiniteSet(alerts) /\ IsFiniteSet(held[e])
      /\ Cardinality(alerts) \in Nat /\ n \in Nat
  BY CountsAreNumbers DEF CountInv, IInv
<1>3. InHand' \in Nat BY NextCountsAreNumbers DEF IInv
<1>4. Cardinality(alerts') = Cardinality(alerts) + n
  <2>1. alerts \cap held[e] = {} BY DEF CountInv, HeldApart
  <2>2. Cardinality(alerts \cup held[e]) = Cardinality(alerts) + n - Cardinality({})
    BY <1>2, <2>1, FS_Union
  <2> HIDE DEF n
  <2>3. QED BY <1>1, <1>2, <2>2, FS_EmptySet
<1> HIDE DEF n
<1>5. run[e] \in Runs /\ run'[e] = [run[e] EXCEPT !.filled = 0, !.inserted = @ + n]
  BY <1>1 DEF IInv, TypeOK
<1>6. /\ run'[e].inserted = run[e].inserted + n /\ run'[e].id = run[e].id
      /\ run'[e].rule = run[e].rule /\ run[e].inserted \in Nat
  BY <1>5 DEF Runs
<1>7. \A other \in Engines \ {e} :
        run'[other] = run[other] /\ pc'[other] = pc[other] /\ held'[other] = held[other]
  BY <1>1 DEF IInv, TypeOK
<1>8. pc'[e] \in {"insert", "report"} /\ held'[e] = {}
  BY <1>1 DEF IInv, TypeOK
<1>9. Active' = Active BY <1>1, <1>7, <1>8 DEF Active
<1>10. AlertsCountedOnce'
  <2>1. InHand' + run[e].inserted = InHand + run'[e].inserted
    BY <1>7, OneRunCounts DEF IInv
  <2>2. InHand' = InHand + n BY <1>2, <1>3, <1>6, <2>1
  <2>3. InReports' = InReports BY <1>1 DEF InReports
  <2>4. QED BY <1>1, <1>2, <1>4, <1>9, <2>2, <2>3 DEF CountInv, AlertsCountedOnce, Reported
<1>11. HeldApart' BY <1>1, <1>7, <1>8 DEF CountInv, HeldApart
<1>12. RunsApart'
  BY <1>1, <1>6, <1>7, <1>9, RunsStayApart DEF CountInv, Active
<1>13. QED BY <1>1, <1>7, <1>8, <1>9, <1>10, <1>11, <1>12 DEF CountInv

(* A report carries the count of the rule in hand over to the audit log, once. *)
LEMMA ReportRuleCounts ==
    ASSUME CountInv, IInv, IInv', NEW e \in Engines, ReportRule(e)
    PROVE  CountInv'
<1> DEFINE report == [run |-> run[e].id, rule |-> REGISTRY[run[e].rule],
                      found |-> run[e].found, inserted |-> run[e].inserted]
           fresh == Fresh(run[e].id, run[e].dry_run, run[e].rule + 1)
<1>1. /\ pc[e] = "report"
      /\ reports' = reports \cup {report}
      /\ run' = [run EXCEPT ![e] = fresh]
      /\ pc' = [pc EXCEPT ![e] = "evaluate"]
      /\ UNCHANGED <<stored, alerts, held, started, ended>>
  BY DEF ReportRule, NextRule
<1>2. /\ report.run = run[e].id /\ report.rule = REGISTRY[run[e].rule]
      /\ report.inserted = run[e].inserted
      /\ fresh.inserted = 0 /\ fresh.id = run[e].id /\ fresh.rule = run[e].rule + 1
  BY DEF Fresh
<1> HIDE DEF report, fresh
<1>3. run[e] \in Runs /\ run[e].rule \in DOMAIN REGISTRY /\ e \in Active
  BY <1>1, RuleEngineAssumption DEF IInv, TypeOK, Runs, CandidatesAccountedFor, Active
<1>4. run'[e] = fresh /\ pc'[e] = "evaluate"
  BY <1>1 DEF IInv, TypeOK
<1>5. \A other \in Engines \ {e} : run'[other] = run[other] /\ pc'[other] = pc[other]
  BY <1>1 DEF IInv, TypeOK
<1>6. Active' = Active BY <1>1, <1>4, <1>5 DEF Active
<1>7. report \notin reports
  <2>1. ASSUME report \in reports PROVE FALSE
    <3>1. PICK i \in DOMAIN REGISTRY : i < run[e].rule /\ REGISTRY[run[e].rule] = REGISTRY[i]
      BY <1>2, <1>3, <2>1 DEF CountInv, RunsApart
    <3>2. i = run[e].rule
      BY <1>3, <3>1, RuleEngineAssumption DEF IsInjective
    <3>3. QED BY <1>3, <3>1, <3>2 DEF Runs
  <2>2. QED BY <2>1
<1>8. IsFiniteSet(reports) /\ IsFiniteSet(reports')
  BY <1>1, FS_AddElement DEF CountInv
<1>9. AlertsCountedOnce'
  <2>1. InReports' = InReports + run[e].inserted
    BY <1>1, <1>2, <1>7, <1>8, ReportCounts DEF IInv
  <2>2. InHand' + run[e].inserted = InHand + 0
    BY <1>2, <1>4, <1>5, OneRunCounts DEF IInv
  <2>3. InHand \in Nat /\ InReports \in Nat BY <1>8, CountsAreNumbers DEF IInv
  <2>4. InHand' \in Nat BY NextCountsAreNumbers DEF IInv
  <2>5. run[e].inserted \in Nat BY <1>3 DEF Runs
  <2>6. InReports' + InHand' = InReports + InHand BY <2>1, <2>2, <2>3, <2>4, <2>5
  <2>7. Reported' = Reported BY <2>6 DEF Reported
  <2>8. QED BY <1>1, <1>6, <2>7 DEF CountInv, AlertsCountedOnce
<1>10. HeldApart' BY <1>1 DEF CountInv, HeldApart
<1>11. RunsApart'
  <2>1. ASSUME NEW a \in Active'
        PROVE  /\ run'[a].id = run[a].id /\ run'[a].id \in 1..started'
               /\ \A other \in Active' \ {a} : run'[a].id # run'[other].id
    BY <1>1, <1>2, <1>3, <1>4, <1>5, <1>6 DEF CountInv, RunsApart, Active
  <2>2. ASSUME NEW a \in Active', NEW r \in reports', r.run = run'[a].id
        PROVE  \E i \in DOMAIN REGISTRY : i < run'[a].rule /\ r.rule = REGISTRY[i]
    <3>1. a \in Active BY <1>6
    <3>2. CASE a = e /\ r = report
      <4>1. run[e].rule < run'[a].rule BY <1>2, <1>3, <1>4, <3>2 DEF Runs
      <4>2. QED BY <1>2, <1>3, <3>2, <4>1
    <3>3. CASE a = e /\ r # report
      <4>1. r \in reports /\ r.run = run[e].id BY <1>1, <1>2, <1>4, <2>2, <3>3
      <4>2. PICK i \in DOMAIN REGISTRY : i < run[e].rule /\ r.rule = REGISTRY[i]
        BY <1>3, <4>1 DEF CountInv, RunsApart
      <4>3. i < run'[a].rule BY <1>2, <1>3, <1>4, <3>3, <4>2, RuleEngineAssumption DEF Runs
      <4>4. QED BY <4>2, <4>3
    <3>4. CASE a # e
      <4>1. run'[a] = run[a] BY <1>5, <3>1, <3>4 DEF Active
      <4>2. run[a].id # run[e].id BY <1>3, <3>1, <3>4 DEF CountInv, RunsApart
      <4>3. r \in reports BY <1>1, <1>2, <2>2, <4>1, <4>2
      <4>4. QED BY <2>2, <3>1, <4>1, <4>3 DEF CountInv, RunsApart
    <3>5. QED BY <3>2, <3>3, <3>4
  <2>3. ASSUME NEW r \in reports' PROVE r.run \in 1..started'
    BY <1>1, <1>2, <1>3 DEF CountInv, RunsApart
  <2>4. QED BY <2>1, <2>2, <2>3 DEF RunsApart
<1>12. \A x \in Engines : pc'[x] \in {"idle", "evaluate"} => run'[x].inserted = 0
  BY <1>2, <1>4, <1>5 DEF CountInv
<1>13. QED BY <1>1, <1>6, <1>8, <1>9, <1>10, <1>11, <1>12 DEF CountInv

(* A run that begins has counted nothing and has a number no report carries. *)
LEMMA BeginCounts ==
    ASSUME CountInv, IInv, IInv', NEW e \in Engines, Begin(e)
    PROVE  CountInv'
<1>1. /\ pc[e] = "idle" /\ started' = started + 1
      /\ pc' = [pc EXCEPT ![e] = "evaluate"]
      /\ UNCHANGED <<stored, alerts, held, reports, ended>>
  BY DEF Begin
<1>2. PICK dry_run \in BOOLEAN : run' = [run EXCEPT ![e] = Fresh(started + 1, dry_run, 1)]
  BY DEF Begin
<1>3. /\ run'[e].id = started + 1 /\ run'[e].inserted = 0
      /\ \A other \in Engines \ {e} : run'[other] = run[other] /\ pc'[other] = pc[other]
      /\ pc'[e] = "evaluate" /\ run[e].inserted = 0
  BY <1>1, <1>2 DEF IInv, TypeOK, Fresh, CountInv
<1>4. Active' = Active \cup {e} /\ e \notin Active
  BY <1>1, <1>3 DEF Active
<1>5. /\ InHand \in Nat /\ InReports \in Nat /\ IsFiniteSet(Active) /\ started \in Nat
      /\ Cardinality(ended) \in Nat /\ Cardinality(Active) \in Nat
      /\ Cardinality(alerts) \in Nat
  BY CountsAreNumbers DEF CountInv, IInv
<1>6. InHand' \in Nat BY NextCountsAreNumbers DEF IInv
<1>7. Cardinality(Active') = Cardinality(Active) + 1
  BY <1>4, <1>5, FS_AddElement
<1>8. AlertsCountedOnce' /\ Cardinality(ended') + Cardinality(Active') <= started'
  <2>1. InHand' + run[e].inserted = InHand + run'[e].inserted
    BY <1>3, OneRunCounts DEF IInv
  <2>2. InHand \in Nat /\ run'[e].inserted = run[e].inserted /\ run[e].inserted \in Nat
    BY <1>3, <1>5
  <2>3. InHand' = InHand BY <1>6, <2>1, <2>2
  <2>4. Reported' = Reported BY <1>1, <2>3 DEF Reported, InReports
  <2>5. QED BY <1>1, <1>5, <1>7, <2>4 DEF CountInv, AlertsCountedOnce
<1>9. HeldApart' BY <1>1 DEF CountInv, HeldApart
<1>10. RunsApart'
  <2>1. \A report \in reports : report.run \in 1..started /\ report.run # started + 1
    BY <1>5 DEF CountInv, RunsApart
  <2>2. \A a \in Active : run'[a] = run[a] /\ run[a].id \in 1..started
    BY <1>3, <1>4 DEF CountInv, RunsApart, Active
  <2>3. 1..started \subseteq 1..started' /\ started + 1 \in 1..started'
        /\ started + 1 \notin 1..started
    BY <1>1, <1>5
  <2>4. QED BY <1>1, <1>3, <1>4, <2>1, <2>2, <2>3 DEF CountInv, RunsApart
<1>11. QED BY <1>1, <1>3, <1>8, <1>9, <1>10 DEF CountInv

(* A run is over: what it had reported stays counted.  If it has lost what it had in
   hand, it is not among the ended ones. *)
LEMMA LeaveCounts ==
    ASSUME CountInv, IInv, IInv', NEW e \in Engines, pc[e] # "idle", Leave(e),
           UNCHANGED <<alerts, reports, started>>,
           \/ ended' = ended
           \/ run[e].inserted = 0 /\ ended' = ended \cup {run[e].id}
    PROVE  CountInv'
<1>1. /\ pc'[e] = "idle" /\ run'[e].inserted = 0 /\ held'[e] = {}
      /\ \A other \in Engines \ {e} : /\ run'[other] = run[other] /\ pc'[other] = pc[other]
                                       /\ held'[other] = held[other]
  BY DEF Leave, NoRun, Fresh, IInv, TypeOK
<1>2. Active' = Active \ {e} /\ e \in Active
  BY <1>1 DEF Active
<1>3. /\ InHand \in Nat /\ InReports \in Nat /\ IsFiniteSet(Active) /\ started \in Nat
      /\ Cardinality(ended) \in Nat /\ Cardinality(Active) \in Nat /\ IsFiniteSet(ended)
      /\ Cardinality(alerts) \in Nat
  BY CountsAreNumbers DEF CountInv, IInv
<1>4. /\ InHand' \in Nat /\ Cardinality(Active') \in Nat /\ Cardinality(ended') \in Nat
  BY NextCountsAreNumbers DEF IInv
<1>5. Cardinality(Active') = Cardinality(Active) - 1
  BY <1>2, <1>3, FS_RemoveElement
<1>6. run[e].inserted \in Nat /\ InHand' + run[e].inserted = InHand
  <2>1. run[e].inserted \in Nat BY DEF IInv, TypeOK, Runs
  <2>2. InHand' + run[e].inserted = InHand + 0 BY <1>1, OneRunCounts DEF IInv
  <2>3. QED BY <1>3, <2>1, <2>2
<1>7. InReports' = InReports BY DEF InReports
<1>8. Reported' <= Reported /\ (run[e].inserted = 0 => Reported' = Reported)
  <2>1. InHand \in Nat /\ InHand' \in Nat /\ InReports \in Nat BY <1>3, <1>4
  <2>2. InHand' <= InHand /\ (run[e].inserted = 0 => InHand' = InHand) BY <1>6, <2>1
  <2>3. Reported = InReports + InHand /\ Reported' = InReports + InHand'
    BY <1>7 DEF Reported
  <2>4. InReports + InHand' <= InReports + InHand
    <3> DEFINE reported == InReports
               before == InHand
               after == InHand'
    <3>1. reported \in Nat /\ before \in Nat /\ after \in Nat /\ after <= before
      BY <2>1, <2>2
    <3> HIDE DEF reported, before, after
    <3>2. reported + after <= reported + before BY <3>1
    <3>3. QED BY <3>2 DEF reported, before, after
  <2>5. CASE run[e].inserted = 0 BY <2>2, <2>3, <2>4, <2>5
  <2>6. CASE run[e].inserted # 0 BY <2>3, <2>4, <2>6
  <2>7. QED BY <2>5, <2>6
<1>9. Reported \in Nat /\ Reported' \in Nat
  <2>1. InReports + InHand \in Nat BY <1>3
  <2>2. InReports' + InHand' \in Nat
    <3> DEFINE reported == InReports'
               after == InHand'
    <3>1. reported \in Nat /\ after \in Nat BY <1>3, <1>4, <1>7
    <3> HIDE DEF reported, after
    <3>2. reported + after \in Nat BY <3>1
    <3>3. QED BY <3>2 DEF reported, after
  <2>3. QED BY <2>1, <2>2 DEF Reported
<1>10. /\ Cardinality(ended) + Cardinality(Active) <= started
       /\ Reported <= Cardinality(alerts)
       /\ started = Cardinality(ended) + Cardinality(Active) => Reported = Cardinality(alerts)
  BY DEF CountInv, AlertsCountedOnce
<1>11. AlertsCountedOnce' /\ Cardinality(ended') + Cardinality(Active') <= started'
  <2>1. CASE ended' = ended
    BY <1>3, <1>5, <1>8, <1>9, <1>10, <2>1 DEF AlertsCountedOnce
  <2>2. CASE run[e].inserted = 0 /\ ended' = ended \cup {run[e].id}
    <3>1. Cardinality(ended') <= Cardinality(ended) + 1
      <4> DEFINE id == run[e].id
      <4>1. ended' = ended \cup {id} BY <2>2
      <4> HIDE DEF id
      <4>2. Cardinality(ended \cup {id}) = IF id \in ended THEN Cardinality(ended)
                                           ELSE Cardinality(ended) + 1
        BY <1>3, FS_AddElement
      <4>3. Cardinality(ended) \in Nat BY <1>3
      <4>4. QED BY <4>1, <4>2, <4>3
    <3>2. QED BY <1>3, <1>4, <1>5, <1>8, <1>9, <1>10, <2>2, <3>1 DEF AlertsCountedOnce
  <2>3. QED BY <2>1, <2>2
<1>12. HeldApart' BY <1>1 DEF CountInv, HeldApart
<1>13. RunsApart' BY <1>1, <1>2 DEF CountInv, RunsApart, Active
<1>14. QED BY <1>1, <1>11, <1>12, <1>13 DEF CountInv

(* Every step keeps the count. *)
LEMMA NextKeepsCountInv == CountInv /\ IInv /\ IInv' /\ [Next]_vars => CountInv'
<1> SUFFICES ASSUME CountInv, IInv, IInv', [Next]_vars PROVE CountInv' OBVIOUS
<1>1. CASE UNCHANGED vars
  BY <1>1 DEF vars, CountInv, AlertsCountedOnce, Reported, InReports, InHand, Active, HeldApart,
              RunsApart
<1>2. CASE Ingest
  BY <1>2 DEF Ingest, CountInv, AlertsCountedOnce, Reported, InReports, InHand, Active,
              HeldApart, RunsApart
<1>3. ASSUME NEW e \in Engines, Complete(e) PROVE CountInv'
  <2>1. run[e].inserted = 0 BY <1>3 DEF Complete, CountInv
  <2>2. QED BY <1>3, <2>1, LeaveCounts DEF Complete
<1>4. ASSUME NEW e \in Engines, BreakDeadlock(e) PROVE CountInv'
  <2>1. pc[e] # "idle"
    BY <1>4 DEF BreakDeadlock, WaitsFor, Inserting
  <2>2. QED BY <1>4, <2>1, LeaveCounts DEF BreakDeadlock
<1>5. ASSUME NEW e \in Engines, Crash(e) PROVE CountInv'
  BY <1>5, LeaveCounts DEF Crash
<1>6. QED
  BY <1>1, <1>2, <1>3, <1>4, <1>5, BeginCounts, EvaluateCounts, InsertRowCounts,
     CommitBatchCounts, ReportRuleCounts
     DEF Next

(* The row counts of the audit log count no alert twice, however runs race for the same
   keys and whichever of them dies; when no run was lost they are the size of the table. *)
THEOREM AlertsAlwaysCountedOnce == Spec => []AlertsCountedOnce
<1>1. CountInv => AlertsCountedOnce BY DEF CountInv
<1>2. QED
  BY <1>1, InitIInv, NextKeepsIInv, InitCountInv, NextKeepsCountInv, PTL DEF Spec
=============================================================================
