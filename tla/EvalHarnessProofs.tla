--------------------------- MODULE EvalHarnessProofs ---------------------------
(***************************************************************************)
(* For every finite set of alerts, strata, retries and evaluations: left   *)
(* alone, evaluations put every status back; results have one record of an *)
(* alert, grow unless a fresh start is asked for, and are of the sample    *)
(* when a snapshot is made; scores count each alert once.                  *)
(*                                                                         *)
(* RestoreInv is the argument for the first, EvalInv for the others: an    *)
(* alert of the sample is either recorded or to be done.                   *)
(***************************************************************************)
EXTENDS EvalHarness, CommonLemmas

(* What saving does to a table of statuses: it stays one, and the status of the
   alert saved is the new one, if the session held the old one for it. *)
LEMMA SaveKeepsTable ==
    ASSUME NEW a, NEW held, NEW new, Save(a, held, new), DOMAIN status = Alerts,
           status = [x \in DOMAIN status |-> status[x]]
    PROVE  DOMAIN status' = Alerts /\ status' = [x \in DOMAIN status' |-> status'[x]]
BY DEF Save

LEMMA SaveReplaces ==
    ASSUME NEW a, NEW held, NEW new, NEW table, Save(a, held, new),
           DOMAIN table = Alerts, table = [x \in DOMAIN table |-> table[x]],
           status = [table EXCEPT ![a] = held]
    PROVE  status' = [table EXCEPT ![a] = new]
BY DEF Save

LEMMA InitRestoreInv == Init => RestoreInv
BY DEF Init, RestoreInv, NoEval

LEMMA NextKeepsRestoreInv == RestoreInv /\ [Next]_vars => RestoreInv'
<1> SUFFICES ASSUME RestoreInv, [Next]_vars PROVE RestoreInv'
  OBVIOUS
<1>1. CASE UNCHANGED vars
  BY <1>1 DEF vars, RestoreInv, Undisturbed, Untouched, Alert, Held
<1>2. CASE BeginEval
  <2>1. PICK sample \in Samples, fresh \in BOOLEAN :
          local' = [NoEval EXCEPT !.sample = sample, !.fresh = fresh,
                      !.todo = Remaining(sample, ExistingResults(fresh)),
                      !.records = Keep(ExistingResults(fresh),
                                       Remaining(sample, ExistingResults(fresh)))]
    BY <1>2 DEF BeginEval
  <2>2. local' = [field \in DOMAIN NoEval |-> local'[field]]
    BY <2>1 DEF NoEval
  <2>3. QED BY <1>2, <2>2 DEF BeginEval, RestoreInv, Undisturbed
<1>3. CASE SnapshotAlert
  BY <1>3 DEF SnapshotAlert, RestoreInv, Undisturbed, Untouched, Alert, NoEval
<1>4. CASE Investigate
  <2>1. PICK applied \in Applied :
          /\ Save(Alert, local.original, applied)
          /\ local' = [local EXCEPT !.outcome = applied]
    BY <1>4 DEF Investigate
  <2>2. /\ local' = [field \in DOMAIN NoEval |-> local'[field]]
        /\ local'.outcome = applied
        /\ local'.original = local.original /\ local'.todo = local.todo
    BY <2>1 DEF RestoreInv, NoEval
  <2>3. DOMAIN status' = Alerts /\ status' = [a \in DOMAIN status' |-> status'[a]]
    BY <2>1, SaveKeepsTable DEF RestoreInv
  <2>4. applied # "none" => Held' = applied
    BY <2>2 DEF Held
  <2>5. ASSUME Undisturbed
        PROVE  status' = [baseline EXCEPT ![Alert] = applied]
    <3>1. status = baseline /\ local.original = baseline[Alert]
      BY <1>4, <2>5 DEF Investigate, RestoreInv, Untouched
    <3>2. status = [baseline EXCEPT ![Alert] = local.original]
      BY <3>1 DEF RestoreInv
    <3>3. DOMAIN baseline = Alerts /\ baseline = [a \in DOMAIN baseline |-> baseline[a]]
      BY DEF RestoreInv
    <3>4. QED BY <2>1, <3>2, <3>3, SaveReplaces
  <2>6. /\ local.original = baseline[Alert] \/ ~Undisturbed
        /\ pc' = "restore" /\ UNCHANGED <<changes, crashed, baseline>>
    BY <1>4 DEF Investigate, RestoreInv, Untouched
  <2>7. Alert' = Alert /\ Undisturbed' = Undisturbed
    BY <2>2, <2>6 DEF Alert, Undisturbed
  <2>8. Held' = applied
    BY <2>4, EvalHarnessAssumption
  <2>9. QED BY <2>2, <2>3, <2>5, <2>6, <2>7, <2>8 DEF RestoreInv
<1>5. CASE RateLimited
  <2>a. /\ local = [field \in DOMAIN NoEval |-> local[field]]
        /\ DOMAIN NoEval = {"sample", "fresh", "todo", "records", "retries", "original",
                            "outcome", "back"}
    BY DEF RestoreInv, NoEval
  <2>1. /\ local' = [field \in DOMAIN NoEval |-> local'[field]]
        /\ local'.outcome = local.outcome
        /\ local'.original = local.original /\ local'.todo = local.todo
        /\ pc' = "restore" \/ (pc' = "write" /\ local'.back = "investigate")
    <3>1. CASE /\ local' = [local EXCEPT !.retries = local.retries + 1, !.back = "investigate"]
               /\ pc' = "write"
      BY <2>a, <3>1
    <3>2. CASE /\ local' = [local EXCEPT !.retries = local.retries + 1]
               /\ pc' = "restore"
      BY <2>a, <3>2
    <3>3. QED BY <1>5, <3>1, <3>2 DEF RateLimited
  <2>2. UNCHANGED <<status, changes, crashed, baseline>> /\ pc = "investigate"
    BY <1>5 DEF RateLimited
  <2>3. Alert' = Alert /\ Undisturbed' = Undisturbed
    BY <2>1, <2>2 DEF Alert, Undisturbed
  <2>4. Undisturbed => Untouched /\ Untouched'
    BY <2>1, <2>2, <2>3 DEF RestoreInv, Untouched
  <2>5. Undisturbed => Held' = baseline[Alert]
    BY <2>1, <2>4 DEF Held, Untouched
  <2>6. Undisturbed => status = [baseline EXCEPT ![Alert] = baseline[Alert]]
    BY <2>4 DEF Untouched, RestoreInv
  <2>7. QED BY <2>1, <2>2, <2>3, <2>4, <2>5, <2>6 DEF RestoreInv, Untouched
<1>6. CASE Restore
  <2>1. /\ local' = [field \in DOMAIN NoEval |-> local'[field]]
        /\ local'.back = "next"
    BY <1>6 DEF Restore, RestoreInv, NoEval
  <2>2. /\ Save(Alert, Held, local.original) /\ pc = "restore" /\ pc' = "write"
        /\ UNCHANGED <<changes, crashed, baseline>>
    BY <1>6 DEF Restore
  <2>3. DOMAIN status' = Alerts /\ status' = [a \in DOMAIN status' |-> status'[a]]
    BY <2>2, SaveKeepsTable DEF RestoreInv
  <2>4. ASSUME Undisturbed
        PROVE  status' = baseline
    <3>1. /\ status = [baseline EXCEPT ![Alert] = Held]
          /\ local.original = baseline[Alert]
      BY <2>2, <2>4 DEF RestoreInv
    <3>2. DOMAIN baseline = Alerts /\ baseline = [a \in DOMAIN baseline |-> baseline[a]]
      BY DEF RestoreInv
    <3>3. status' = [baseline EXCEPT ![Alert] = local.original]
      BY <2>2, <3>1, <3>2, SaveReplaces
    <3>4. QED BY <3>1, <3>2, <3>3
  <2>5. QED BY <2>1, <2>2, <2>3, <2>4 DEF RestoreInv, Undisturbed
<1>7. CASE TruncateFile
  BY <1>7 DEF TruncateFile, RestoreInv, Undisturbed, Untouched, Alert
<1>8. CASE FillFile
  BY <1>8 DEF FillFile, RestoreInv, Undisturbed, Untouched, Alert
<1>9. CASE FinishEval
  BY <1>9 DEF FinishEval, RestoreInv, Undisturbed, NoEval
<1>10. CASE Crash
  BY <1>10 DEF Crash, RestoreInv, Undisturbed, NoEval
<1>11. CASE OthersChange
  <2>1. PICK a \in Alerts, new \in Applied :
          /\ status' = [status EXCEPT ![a] = new]
          /\ baseline' = [baseline EXCEPT ![a] = new]
    BY <1>11 DEF OthersChange
  <2>2. /\ DOMAIN status' = Alerts /\ status' = [x \in DOMAIN status' |-> status'[x]]
        /\ DOMAIN baseline' = Alerts /\ baseline' = [x \in DOMAIN baseline' |-> baseline'[x]]
    BY <2>1 DEF RestoreInv
  <2>3. changes' \in Nat /\ changes' # 0 /\ UNCHANGED local
    BY <1>11 DEF OthersChange, RestoreInv
  <2>4. QED BY <2>2, <2>3 DEF RestoreInv, Undisturbed
<1>12. QED
  BY <1>1, <1>2, <1>3, <1>4, <1>5, <1>6, <1>7, <1>8, <1>9, <1>10, <1>11 DEF Next

LEMMA RestoreInvAlways == Spec => []RestoreInv
BY InitRestoreInv, NextKeepsRestoreInv, PTL DEF Spec

(* Between two alerts every status is what it was before the first evaluation,
   unless an evaluation was cut short or someone else changed one. *)
THEOREM AlwaysRestored == Spec => []RestoredWhenLeftAlone
<1>1. RestoreInv => RestoredWhenLeftAlone
  BY DEF RestoreInv, RestoredWhenLeftAlone, Undisturbed
<1>2. QED BY <1>1, RestoreInvAlways, PTL

-----------------------------------------------------------------------------
LEMMA MinOfTwo ==
    ASSUME NEW a \in Nat, NEW b \in Nat
    PROVE  Min({a, b}) \in {a, b} /\ Min({a, b}) <= a /\ Min({a, b}) <= b
<1>1. \E x \in {a, b} : \A y \in {a, b} : x =< y
  <2>1. CASE a <= b BY <2>1
  <2>2. CASE ~(a <= b) BY <2>2
  <2>3. QED BY <2>1, <2>2
<1>2. QED BY <1>1 DEF Min

LEMMA MaxOfTwo ==
    ASSUME NEW a \in Nat, NEW b \in Nat
    PROVE  Max({a, b}) \in {a, b} /\ Max({a, b}) >= a
<1>1. \E x \in {a, b} : \A y \in {a, b} : x >= y
  <2>1. CASE a <= b BY <2>1
  <2>2. CASE ~(a <= b) BY <2>2
  <2>3. QED BY <2>1, <2>2
<1>2. QED BY <1>1 DEF Max

(* A sample is not empty and holds no alert twice, wherever the limit cuts it. *)
LEMMA StratifiedSample ==
    ASSUME NEW target \in TargetSizes, NEW full \in sample_alerts_stratified(target)
    PROVE  full \in Seq(Alerts) /\ IsInjective(full) /\ Len(full) >= 1
<1>1. PICK drawn \in SUBSET UNION Range(Strata) : full \in SetToSeqs(drawn)
  BY DEF sample_alerts_stratified
<1>2. drawn \subseteq Alerts
  BY <1>1, EvalHarnessAssumption DEF Range
<1>3. IsFiniteSet(drawn) /\ Cardinality(drawn) \in Nat
  BY <1>2, EvalHarnessAssumption, FS_Subset, FS_CardinalityType
<1>4. full \in [1..Cardinality(drawn) -> Alerts] /\ IsInjective(full)
  BY <1>1, <1>2 DEF SetToSeqs, IsInjective
<1>5. full \in Seq(Alerts) /\ Len(full) \in Nat
  BY <1>3, <1>4
<1> DEFINE n == PerStratum(target)
           stratum == Strata[1]
<1>6. Len(Strata) \in Nat \ {0} /\ 1 \in DOMAIN Strata
  BY EvalHarnessAssumption
<1>7. stratum \in Range(Strata) /\ stratum # {} /\ stratum \subseteq Alerts
  BY <1>6, EvalHarnessAssumption DEF Range
<1>8. n \in Nat /\ n >= 1
  <2>1. target \in Nat
    BY EvalHarnessAssumption
  <2>2. target \div Len(Strata) \in Nat
    BY <1>6, <2>1
  <2> DEFINE share == target \div Len(Strata)
  <2> HIDE DEF share
  <2>3. share \in Nat /\ n = Max({1, share})
    BY <2>2 DEF share, PerStratum
  <2>4. QED BY <2>3, MaxOfTwo
<1>9. Cardinality(stratum) \in Nat /\ Cardinality(stratum) # 0
  BY <1>7, EvalHarnessAssumption, FS_Subset, FS_CardinalityType, FS_EmptySet
<1>10. Cardinality(Range(full) \cap stratum) = Min({n, Cardinality(stratum)})
  BY <1>7 DEF sample_alerts_stratified
<1> HIDE DEF n, stratum
<1>11. Cardinality(Range(full) \cap stratum) # 0
  BY <1>8, <1>9, <1>10, MinOfTwo
<1>12. Range(full) # {}
  BY <1>11, FS_EmptySet
<1>13. DOMAIN full # {}
  BY <1>12 DEF Range
<1>14. DOMAIN full = 1..Len(full)
  BY <1>5
<1>15. Len(full) >= 1
  BY <1>5, <1>13, <1>14
<1>16. QED BY <1>4, <1>5, <1>15

LEMMA SampleType ==
    ASSUME NEW sample \in Samples
    PROVE  sample \in Seq(Alerts) /\ IsInjective(sample) /\ sample # <<>>
<1> DEFINE fulls == UNION {sample_alerts_stratified(target) : target \in TargetSizes}
<1>1. PICK full \in fulls, limit \in Limits : sample = Cut(full, limit)
  BY DEF Samples
<1>2. full \in Seq(Alerts) /\ IsInjective(full) /\ Len(full) >= 1
  BY <1>1, StratifiedSample
<1> DEFINE k == Min({limit, Len(full)})
<1>3. k \in Nat /\ k >= 1 /\ k <= Len(full)
  BY <1>2, EvalHarnessAssumption, MinOfTwo
<1> HIDE DEF k
<1>4. sample \in Seq(Alerts) /\ Len(sample) = k /\ \A i \in 1..k : sample[i] = full[i]
  <2>1. sample = SubSeq(full, 1, k)
    BY <1>1 DEF Cut, k
  <2>2. \A i \in 1..k : full[i] \in Alerts
    BY <1>2, <1>3
  <2>3. /\ SubSeq(full, 1, k) \in Seq(Alerts)
        /\ Len(SubSeq(full, 1, k)) = k
        /\ \A i \in 1..k : SubSeq(full, 1, k)[i] = full[i]
    BY <1>2, <1>3, <2>2
  <2>4. QED BY <2>1, <2>3
<1>5. IsInjective(sample)
  BY <1>2, <1>3, <1>4 DEF IsInjective
<1>6. QED BY <1>3, <1>4, <1>5

-----------------------------------------------------------------------------
(* Selections neither repeat an alert nor record one twice. *)
LEMMA SelectIsInjective ==
    ASSUME NEW S, NEW s \in Seq(S), NEW P, IsInjective(s)
    PROVE  IsInjective(Select(s, P))
<1> DEFINE t == Select(s, P)
           at(n) == Nth(Kept(s, P), n)
<1>1. \A n \in DOMAIN t : /\ at(n) \in Kept(s, P) /\ t[n] = s[at(n)]
                         /\ \A m \in DOMAIN t : m < n => at(m) < at(n)
  BY SelectPlaces
<1>2. DOMAIN t \subseteq Nat /\ Kept(s, P) \subseteq DOMAIN s /\ Kept(s, P) \subseteq Nat
  BY SelectIsASeq, KeptIsFinite DEF Kept
<1> HIDE DEF t, at
<1>3. SUFFICES ASSUME NEW m \in DOMAIN t, NEW n \in DOMAIN t, t[m] = t[n], m # n PROVE FALSE
  BY DEF IsInjective, t
<1>4. at(m) = at(n)
  BY <1>1, <1>2, <1>3 DEF IsInjective
<1>5. m < n \/ n < m
  BY <1>2, <1>3
<1>6. QED BY <1>1, <1>2, <1>4, <1>5

LEMMA SelectKeepsOneRecord ==
    ASSUME NEW s \in Seq(Records), NEW P, OneRecord(s)
    PROVE  OneRecord(Select(s, P))
<1> DEFINE t == Select(s, P)
           at(n) == Nth(Kept(s, P), n)
<1>1. \A n \in DOMAIN t : /\ at(n) \in Kept(s, P) /\ t[n] = s[at(n)]
                         /\ \A m \in DOMAIN t : m < n => at(m) < at(n)
  BY SelectPlaces
<1>2. DOMAIN t \subseteq Nat /\ Kept(s, P) \subseteq DOMAIN s /\ Kept(s, P) \subseteq Nat
  BY SelectIsASeq, KeptIsFinite DEF Kept
<1> HIDE DEF t, at
<1>3. SUFFICES ASSUME NEW m \in DOMAIN t, NEW n \in DOMAIN t, t[m].alert = t[n].alert, m # n
               PROVE FALSE
  BY DEF OneRecord, t
<1>4. at(m) = at(n)
  BY <1>1, <1>2, <1>3 DEF OneRecord
<1>5. m < n \/ n < m
  BY <1>2, <1>3
<1>6. QED BY <1>1, <1>2, <1>4, <1>5

LEMMA AlertsOfRange ==
    ASSUME NEW records
    PROVE  AlertsOf(records) = {r.alert : r \in Range(records)}
BY DEF AlertsOf, Range

(* What an evaluation starts from: every alert of its sample is either to be done
   or has kept its record, and no completed record is lost. *)
LEMMA ResumeIsComplete ==
    ASSUME NEW sample \in Seq(Alerts), IsInjective(sample),
           NEW existing \in Seq(Records), OneRecord(existing)
    PROVE  LET todo == Remaining(sample, existing)
               records == Keep(existing, todo)
           IN  /\ todo \in Seq(Alerts) /\ IsInjective(todo)
               /\ records \in Seq(Records) /\ OneRecord(records)
               /\ AlertsOf(records) \cap Range(todo) = {}
               /\ Range(sample) \subseteq AlertsOf(records) \cup Range(todo)
               /\ Completed(existing) \subseteq Completed(records)
               /\ todo = <<>> => records = existing
<1> DEFINE todo == Remaining(sample, existing)
           records == Keep(existing, todo)
           done == {r.alert : r \in Completed(existing)}
           stay == {r \in Range(existing) : r.alert \notin Range(todo)}
<1>1. todo = Select(sample, Range(sample) \ done) /\ records = Select(existing, stay)
  BY DEF Remaining, Keep
<1>2. todo \in Seq(Alerts) /\ IsInjective(todo)
  <2> HIDE DEF todo
  <2> QED BY <1>1, SelectIsASeq, SelectIsInjective
<1>3. Range(todo) = Range(sample) \ done
  <2>1. Range(todo) = Range(sample) \cap (Range(sample) \ done)
    <3> HIDE DEF todo, done
    <3> QED BY <1>1, SelectRange
  <2>2. QED BY <2>1
<1>4. records \in Seq(Records) /\ OneRecord(records) /\ Range(records) = Range(existing) \cap stay
  <2> HIDE DEF records, stay
  <2> QED BY <1>1, SelectIsASeq, SelectKeepsOneRecord, SelectRange
<1>5. Range(records) = stay
  BY <1>4
<1>6. AlertsOf(records) = {r.alert : r \in stay}
  <2> HIDE DEF records, stay
  <2> QED BY <1>5, AlertsOfRange
<1>7. AlertsOf(records) \cap Range(todo) = {}
  BY <1>6
<1>8. ASSUME NEW r \in Completed(existing)
      PROVE  r \in stay
  <2>1. r \in Range(existing) /\ r.alert \in done
    BY DEF Completed
  <2>2. r.alert \notin Range(todo)
    <3> HIDE DEF todo, done
    <3> QED BY <1>3, <2>1
  <2>3. QED BY <2>1, <2>2
<1>9. ASSUME NEW a \in Range(sample), a \notin Range(todo)
      PROVE  a \in AlertsOf(records)
  <2>1. a \in done
    <3> HIDE DEF todo, done
    <3> QED BY <1>3, <1>9
  <2>2. PICK r \in Completed(existing) : r.alert = a
    BY <2>1
  <2>3. r \in stay
    BY <1>8
  <2>4. QED BY <1>6, <2>2, <2>3
<1>10. Completed(existing) \subseteq Completed(records)
  <2> HIDE DEF records, stay
  <2> QED BY <1>5, <1>8 DEF Completed
<1>11. ASSUME todo = <<>> PROVE records = existing
  <2>1. Range(todo) = {}
    <3> HIDE DEF todo
    <3> QED BY <1>11 DEF Range
  <2>2. Range(existing) \subseteq stay
    BY <2>1
  <2> HIDE DEF records, stay
  <2>3. QED BY <1>1, <2>2, SelectAll
<1>12. QED BY <1>2, <1>4, <1>7, <1>9, <1>10, <1>11

(* As many records as the sample has alerts, one for each alert and one at least for
   each of the sample: the records are those of the sample. *)
LEMMA FullRunMatches ==
    ASSUME NEW sample \in Seq(Alerts), IsInjective(sample),
           NEW records \in Seq(Records), Len(records) = Len(sample),
           Range(sample) \subseteq AlertsOf(records)
    PROVE  AlertsOf(records) = Range(sample)
<1> DEFINE D == 1..Len(sample)
           alert == [i \in D |-> records[i].alert]
<1>1. Len(sample) \in Nat /\ DOMAIN sample = D /\ DOMAIN records = D
  OBVIOUS
<1>2. IsFiniteSet(D)
  BY <1>1, FS_Interval
<1>3. alert \in Surjection(D, AlertsOf(records))
  BY <1>1 DEF Surjection, AlertsOf
<1>4. sample \in Surjection(D, Range(sample)) /\ sample \in Injection(D, Range(sample))
  BY <1>1 DEF Surjection, Injection, Range
<1> HIDE DEF D, alert
<1>5. IsFiniteSet(AlertsOf(records)) /\ Cardinality(AlertsOf(records)) <= Cardinality(D)
  BY <1>2, <1>3, FS_Surjection
<1>6. Cardinality(Range(sample)) = Cardinality(D)
  BY <1>2, <1>4, FS_Surjection
<1>7. Cardinality(Range(sample)) <= Cardinality(AlertsOf(records))
  BY <1>5, FS_Subset
<1>8. Cardinality(D) \in Nat /\ Cardinality(AlertsOf(records)) \in Nat
  BY <1>2, <1>5, FS_CardinalityType
<1>9. Cardinality(Range(sample)) = Cardinality(AlertsOf(records))
  BY <1>5, <1>6, <1>7, <1>8
<1>10. QED BY <1>5, <1>9, FS_Subset

-----------------------------------------------------------------------------
(* local keeps its fields. *)
LEMMA LocalFields ==
    ASSUME local = [field \in DOMAIN NoEval |-> local[field]]
    PROVE  DOMAIN local = {"sample", "fresh", "todo", "records", "retries", "original",
                           "outcome", "back"}
BY DEF NoEval

LEMMA NoEvalInv ==
    ASSUME local' = NoEval, pc' = "idle"
    PROVE  /\ local' = [field \in DOMAIN NoEval |-> local'[field]]
           /\ TodoInv' /\ RetryInv'
<1>1. local' = [field \in DOMAIN NoEval |-> local'[field]]
  BY DEF NoEval
<1>2. /\ local'.sample = <<>> /\ local'.todo = <<>> /\ local'.records = <<>>
      /\ local'.retries = 0 /\ local'.original = "open" /\ local'.outcome = "none"
      /\ local'.back = "next" /\ ~InHand'
  BY DEF NoEval, InHand
<1>3. TodoInv'
  BY <1>2 DEF TodoInv, IsInjective, OneRecord, AlertsOf, Range
<1>4. RetryInv'
  BY <1>2, EvalHarnessAssumption DEF RetryInv, Statuses
<1>5. QED BY <1>1, <1>3, <1>4

LEMMA InitEvalInv == Init => EvalInv
<1> SUFFICES ASSUME Init PROVE EvalInv
  OBVIOUS
<1>1. local = NoEval /\ pc = "idle"
  BY DEF Init
<1>2. local = [field \in DOMAIN NoEval |-> local[field]]
  BY <1>1 DEF NoEval
<1>3. /\ local.sample = <<>> /\ local.todo = <<>> /\ local.records = <<>>
      /\ local.retries = 0 /\ local.original = "open" /\ local.outcome = "none"
      /\ local.back = "next" /\ ~InHand
  BY <1>1 DEF NoEval, InHand
<1>4. TodoInv
  BY <1>3 DEF TodoInv, IsInjective, OneRecord, AlertsOf, Range
<1>5. RetryInv
  BY <1>3, EvalHarnessAssumption DEF RetryInv, Statuses
<1>6. FileInv
  BY DEF Init, FileInv, OneRecord
<1>7. QED BY <1>1, <1>2, <1>4, <1>5, <1>6 DEF Init, EvalInv, SnapshotsInv, Statuses

LEMMA BeginEvalKeepsInv == EvalInv /\ BeginEval => EvalInv'
<1> SUFFICES ASSUME EvalInv, BeginEval PROVE EvalInv'
  OBVIOUS
<1>1. PICK sample \in Samples, fresh \in BOOLEAN :
        local' = [NoEval EXCEPT !.sample = sample, !.fresh = fresh,
                    !.todo = Remaining(sample, ExistingResults(fresh)),
                    !.records = Keep(ExistingResults(fresh),
                                     Remaining(sample, ExistingResults(fresh)))]
  BY DEF BeginEval
<1> DEFINE existing == ExistingResults(fresh)
           todo == Remaining(sample, existing)
           records == Keep(existing, todo)
<1>2. pc' = "next" /\ UNCHANGED <<status, file, snapshots>>
  BY DEF BeginEval
<1>3. sample \in Seq(Alerts) /\ IsInjective(sample) /\ sample # <<>>
  BY SampleType
<1>4. existing \in Seq(Records) /\ OneRecord(existing)
  BY DEF EvalInv, FileInv, ExistingResults, OneRecord
<1>5. fresh => existing = <<>>
  BY DEF ExistingResults
<1>6. ~fresh => existing = file.records
  BY DEF ExistingResults, EvalInv, FileInv
<1> HIDE DEF existing
<1>7. /\ todo \in Seq(Alerts) /\ IsInjective(todo)
      /\ records \in Seq(Records) /\ OneRecord(records)
      /\ AlertsOf(records) \cap Range(todo) = {}
      /\ Range(sample) \subseteq AlertsOf(records) \cup Range(todo)
      /\ Completed(existing) \subseteq Completed(records)
      /\ todo = <<>> => records = existing
  BY <1>3, <1>4, ResumeIsComplete
<1>8. local' = [NoEval EXCEPT !.sample = sample, !.fresh = fresh, !.todo = todo,
                  !.records = records]
  BY <1>1 DEF existing
<1> HIDE DEF todo, records
<1>9. local' = [field \in DOMAIN NoEval |-> local'[field]]
  BY <1>8 DEF NoEval
<1>10. /\ local'.sample = sample /\ local'.fresh = fresh /\ local'.todo = todo
       /\ local'.records = records /\ local'.retries = 0 /\ local'.original = "open"
       /\ local'.outcome = "none" /\ local'.back = "next"
  BY <1>8 DEF NoEval
<1>11. ~InHand'
  BY <1>2, <1>10 DEF InHand
<1>12. TodoInv'
  BY <1>3, <1>7, <1>10, <1>11 DEF TodoInv
<1>13. RetryInv'
  BY <1>10, <1>11, EvalHarnessAssumption DEF RetryInv, Statuses
<1>14. ASSUME todo = <<>>
       PROVE  ~fresh
  <2>1. ASSUME existing = <<>> PROVE FALSE
    <3>1. AlertsOf(records) = {}
      BY <1>7, <1>14, <2>1 DEF AlertsOf
    <3>2. Range(todo) = {}
      BY <1>14 DEF Range
    <3>3. Range(sample) = {}
      BY <1>7, <3>1, <3>2
    <3>4. DOMAIN sample # {}
      <4>1. Len(sample) \in Nat \ {0} /\ DOMAIN sample = 1..Len(sample)
        BY <1>3, EmptySeq
      <4>2. QED BY <4>1
    <3>5. QED BY <3>3, <3>4 DEF Range
  <2>2. QED BY <1>5, <2>1
<1>15. FileInv'
  BY <1>2, <1>6, <1>7, <1>10, <1>14 DEF EvalInv, FileInv
<1>16. QED BY <1>2, <1>9, <1>12, <1>13, <1>15 DEF EvalInv, SnapshotsInv

LEMMA SnapshotAlertKeepsInv == EvalInv /\ SnapshotAlert => EvalInv'
<1> SUFFICES ASSUME EvalInv, SnapshotAlert PROVE EvalInv'
  OBVIOUS
<1>1. /\ pc = "next" /\ pc' = "investigate" /\ local.todo # <<>>
      /\ local' = [local EXCEPT !.original = status[Alert], !.retries = 0, !.outcome = "none"]
      /\ UNCHANGED <<status, file, snapshots>>
  BY DEF SnapshotAlert
<1>2. DOMAIN local = {"sample", "fresh", "todo", "records", "retries", "original",
                      "outcome", "back"}
  BY LocalFields DEF EvalInv
<1>3. local' = [field \in DOMAIN NoEval |-> local'[field]]
  BY <1>1, <1>2 DEF NoEval
<1>4. /\ local'.sample = local.sample /\ local'.fresh = local.fresh
      /\ local'.todo = local.todo /\ local'.records = local.records
      /\ local'.retries = 0 /\ local'.original = status[Alert] /\ local'.outcome = "none"
      /\ local'.back = local.back
  BY <1>1, <1>2
<1>5. Alert \in Alerts
  BY <1>1 DEF EvalInv, TodoInv, Alert
<1>6. TodoInv'
  BY <1>1, <1>4 DEF EvalInv, TodoInv, InHand
<1>7. RetryInv'
  BY <1>4, <1>5, EvalHarnessAssumption DEF EvalInv, RetryInv
<1>8. FileInv'
  BY <1>1, <1>4 DEF EvalInv, FileInv
<1>9. QED BY <1>1, <1>3, <1>6, <1>7, <1>8 DEF EvalInv, SnapshotsInv

LEMMA InvestigateKeepsInv == EvalInv /\ Investigate => EvalInv'
<1> SUFFICES ASSUME EvalInv, Investigate PROVE EvalInv'
  OBVIOUS
<1>1. PICK applied \in Applied :
        /\ Save(Alert, local.original, applied)
        /\ local' = [local EXCEPT !.outcome = applied]
  BY DEF Investigate
<1>2. pc = "investigate" /\ pc' = "restore" /\ UNCHANGED <<file, snapshots>>
  BY DEF Investigate
<1>3. DOMAIN local = {"sample", "fresh", "todo", "records", "retries", "original",
                      "outcome", "back"}
  BY LocalFields DEF EvalInv
<1>4. local' = [field \in DOMAIN NoEval |-> local'[field]]
  BY <1>1, <1>3 DEF NoEval
<1>5. /\ local'.sample = local.sample /\ local'.fresh = local.fresh
      /\ local'.todo = local.todo /\ local'.records = local.records
      /\ local'.retries = local.retries /\ local'.original = local.original
      /\ local'.outcome = applied /\ local'.back = local.back
  BY <1>1, <1>3
<1>6. status' \in [Alerts -> Statuses]
  BY <1>1 DEF EvalInv, Save, Statuses
<1>7. TodoInv'
  BY <1>2, <1>5 DEF EvalInv, TodoInv, InHand
<1>8. RetryInv'
  BY <1>2, <1>5 DEF EvalInv, RetryInv
<1>9. FileInv'
  BY <1>2, <1>5 DEF EvalInv, FileInv
<1>10. QED BY <1>2, <1>4, <1>6, <1>7, <1>8, <1>9 DEF EvalInv, SnapshotsInv

LEMMA RateLimitedKeepsInv == EvalInv /\ RateLimited => EvalInv'
<1> SUFFICES ASSUME EvalInv, RateLimited PROVE EvalInv'
  OBVIOUS
<1>1. pc = "investigate" /\ UNCHANGED <<status, file, snapshots>>
  BY DEF RateLimited
<1>2. DOMAIN local = {"sample", "fresh", "todo", "records", "retries", "original",
                      "outcome", "back"}
  BY LocalFields DEF EvalInv
<1>3. local.retries \in 0..MAX_RETRIES_PER_ALERT /\ local.outcome = "none"
      /\ local.todo # <<>>
  BY <1>1, EvalHarnessAssumption DEF EvalInv, TodoInv, RetryInv, InHand
<1>4. /\ local' = [field \in DOMAIN NoEval |-> local'[field]]
      /\ local'.sample = local.sample /\ local'.fresh = local.fresh
      /\ local'.todo = local.todo /\ local'.records = local.records
      /\ local'.retries = local.retries + 1 /\ local'.original = local.original
      /\ local'.outcome = "none"
      /\ \/ /\ local'.back = "investigate" /\ pc' = "write"
            /\ local.retries < MAX_RETRIES_PER_ALERT
         \/ local'.back = local.back /\ pc' = "restore"
  <2>1. CASE /\ local' = [local EXCEPT !.retries = local.retries + 1, !.back = "investigate"]
             /\ pc' = "write" /\ local.retries < MAX_RETRIES_PER_ALERT
    BY <1>2, <1>3, <2>1 DEF NoEval
  <2>2. CASE /\ local' = [local EXCEPT !.retries = local.retries + 1]
             /\ pc' = "restore"
    BY <1>2, <1>3, <2>2 DEF NoEval
  <2>3. QED BY <2>1, <2>2 DEF RateLimited
<1>5. TodoInv'
  BY <1>3, <1>4 DEF EvalInv, TodoInv
<1>6. RetryInv'
  BY <1>3, <1>4, EvalHarnessAssumption DEF EvalInv, RetryInv
<1>7. FileInv'
  BY <1>1, <1>4 DEF EvalInv, FileInv
<1>8. QED BY <1>1, <1>4, <1>5, <1>6, <1>7 DEF EvalInv, SnapshotsInv

LEMMA RestoreKeepsInv == EvalInv /\ Restore => EvalInv'
<1> SUFFICES ASSUME EvalInv, Restore PROVE EvalInv'
  OBVIOUS
<1> DEFINE result == IF local.outcome = "none" THEN "ERROR" ELSE local.outcome
           r == [alert |-> Alert, applied_status |-> result]
<1>1. /\ pc = "restore" /\ pc' = "write" /\ UNCHANGED <<file, snapshots>>
      /\ Save(Alert, Held, local.original)
      /\ local' = [local EXCEPT !.records = Append(local.records, r),
                               !.todo = Tail(local.todo), !.back = "next"]
  BY DEF Restore
<1>2. DOMAIN local = {"sample", "fresh", "todo", "records", "retries", "original",
                      "outcome", "back"}
  BY LocalFields DEF EvalInv
<1>3. /\ local.todo \in Seq(Alerts) /\ local.todo # <<>> /\ IsInjective(local.todo)
      /\ local.records \in Seq(Records) /\ OneRecord(local.records)
      /\ AlertsOf(local.records) \cap Range(local.todo) = {}
      /\ Range(local.sample) \subseteq AlertsOf(local.records) \cup Range(local.todo)
  BY <1>1 DEF EvalInv, TodoInv, InHand
<1>4. r \in Records /\ r.alert = Alert /\ Alert = local.todo[1]
  BY <1>3 DEF EvalInv, RetryInv, Records, Alert
<1> HIDE DEF r
<1>5. /\ local' = [field \in DOMAIN NoEval |-> local'[field]]
      /\ local'.sample = local.sample /\ local'.fresh = local.fresh
      /\ local'.todo = Tail(local.todo) /\ local'.records = Append(local.records, r)
      /\ local'.retries = local.retries /\ local'.original = local.original
      /\ local'.outcome = local.outcome /\ local'.back = "next"
  BY <1>1, <1>2 DEF NoEval
<1>6. status' \in [Alerts -> Statuses]
  BY <1>1 DEF EvalInv, RetryInv, Save
<1> DEFINE n == Len(local.records)
           k == Len(local.todo)
           todo == Tail(local.todo)
           records == Append(local.records, r)
<1>7. /\ n \in Nat /\ DOMAIN local.records = 1..n
      /\ records \in Seq(Records) /\ DOMAIN records = 1..(n + 1)
      /\ records[n + 1] = r /\ \A i \in 1..n : records[i] = local.records[i]
  BY <1>3, <1>4
<1>8. /\ k \in Nat \ {0} /\ DOMAIN local.todo = 1..k
      /\ todo \in Seq(Alerts) /\ DOMAIN todo = 1..(k - 1)
      /\ \A i \in 1..(k - 1) : todo[i] = local.todo[i + 1]
  BY <1>3, HeadTailProperties, EmptySeq
<1> HIDE DEF n, k, todo, records
<1>a. \A i \in 1..(k - 1) : i + 1 \in 1..k /\ i + 1 # 1
  BY <1>8
<1>9. IsInjective(todo)
  <2> SUFFICES ASSUME NEW i \in 1..(k - 1), NEW j \in 1..(k - 1), todo[i] = todo[j]
               PROVE  i = j
    BY <1>8 DEF IsInjective
  <2>1. local.todo[i + 1] = local.todo[j + 1]
    BY <1>8
  <2>2. i + 1 = j + 1
    BY <1>3, <1>8, <1>a, <2>1 DEF IsInjective
  <2>3. QED BY <1>8, <2>2
<1>10. Range(todo) = Range(local.todo) \ {Alert}
  <2>1. ASSUME NEW i \in 1..(k - 1)
        PROVE  todo[i] \in Range(local.todo) /\ todo[i] # Alert
    <3>1. todo[i] = local.todo[i + 1] /\ i + 1 \in DOMAIN local.todo /\ 1 \in DOMAIN local.todo
      BY <1>8, <1>a
    <3>2. local.todo[i + 1] # local.todo[1]
      BY <1>3, <1>a, <3>1 DEF IsInjective
    <3>3. QED BY <1>4, <3>1, <3>2 DEF Range
  <2>2. ASSUME NEW i \in 1..k, local.todo[i] # Alert
        PROVE  local.todo[i] \in Range(todo)
    <3>1. i # 1 /\ i - 1 \in 1..(k - 1) /\ (i - 1) + 1 = i
      BY <1>4, <1>8, <2>2
    <3>2. todo[i - 1] = local.todo[i]
      BY <1>8, <3>1
    <3>3. QED BY <1>8, <3>1, <3>2 DEF Range
  <2>3. QED BY <1>8, <2>1, <2>2 DEF Range
<1>11. AlertsOf(records) = AlertsOf(local.records) \cup {Alert}
  <2>1. \A i \in 1..(n + 1) : i = n + 1 \/ i \in 1..n
    BY <1>7
  <2>2. n + 1 \in 1..(n + 1) /\ 1..n \subseteq 1..(n + 1)
    BY <1>7
  <2>3. QED BY <1>4, <1>7, <2>1, <2>2 DEF AlertsOf
<1>12. Alert \in Range(local.todo) /\ Alert \notin AlertsOf(local.records)
  <2>1. Alert \in Range(local.todo)
    BY <1>4, <1>8 DEF Range
  <2>2. QED BY <1>3, <2>1
<1>13. OneRecord(records)
  <2> SUFFICES ASSUME NEW i \in 1..(n + 1), NEW j \in 1..(n + 1),
                      records[i].alert = records[j].alert
               PROVE  i = j
    BY <1>7 DEF OneRecord
  <2>1. \A m \in 1..n : records[m] = local.records[m] /\ local.records[m].alert # Alert
    BY <1>7, <1>12 DEF AlertsOf
  <2>2. CASE i = n + 1 /\ j # n + 1
    <3>1. j \in 1..n BY <1>7, <2>2
    <3>2. QED BY <1>4, <1>7, <2>1, <2>2, <3>1
  <2>3. CASE i # n + 1 /\ j = n + 1
    <3>1. i \in 1..n BY <1>7, <2>3
    <3>2. QED BY <1>4, <1>7, <2>1, <2>3, <3>1
  <2>4. CASE i # n + 1 /\ j # n + 1
    <3>1. i \in 1..n /\ j \in 1..n BY <1>7, <2>4
    <3>2. QED BY <1>3, <1>7, <3>1 DEF OneRecord
  <2>5. QED BY <2>2, <2>3, <2>4
<1>14. local'.todo = todo /\ local'.records = records
  BY <1>5 DEF todo, records
<1>15. ~InHand'
  BY <1>1, <1>5 DEF InHand
<1>16. TodoInv'
  <2>1. local'.sample \in Seq(Alerts) /\ IsInjective(local'.sample)
    BY <1>5 DEF EvalInv, TodoInv
  <2>2. AlertsOf(records) \cap Range(todo) = {}
    BY <1>3, <1>10, <1>11
  <2>3. Range(local.sample) \subseteq AlertsOf(records) \cup Range(todo)
    BY <1>3, <1>10, <1>11
  <2>4. QED BY <1>5, <1>7, <1>8, <1>9, <1>13, <1>14, <1>15, <2>1, <2>2, <2>3 DEF TodoInv
<1>17. RetryInv'
  BY <1>5, <1>15 DEF EvalInv, RetryInv
<1>18. FileInv'
  <2>1. Range(local.records) \subseteq Range(records)
    <3>1. 1..n \subseteq 1..(n + 1)
      BY <1>7
    <3>2. QED BY <1>7, <3>1 DEF Range
  <2>2. Completed(local.records) \subseteq Completed(records)
    BY <2>1 DEF Completed
  <2>3. QED BY <1>1, <1>5, <1>14, <2>2 DEF EvalInv, FileInv
<1>19. QED BY <1>1, <1>5, <1>6, <1>16, <1>17, <1>18 DEF EvalInv, SnapshotsInv

LEMMA TruncateFileKeepsInv == EvalInv /\ TruncateFile => EvalInv'
<1> SUFFICES ASSUME EvalInv, TruncateFile PROVE EvalInv'
  OBVIOUS
<1>1. /\ pc = "write" /\ pc' = "fill" /\ UNCHANGED <<status, snapshots, local>>
      /\ file'.intact = FALSE /\ file'.records = <<>>
  BY DEF TruncateFile
<1>2. FileInv'
  <2>1. Range(<<>>) = {}
    BY DEF Range
  <2>2. Completed(file'.records) = {}
    BY <1>1, <2>1 DEF Completed
  <2>3. OneRecord(file'.records) /\ file'.records \in Seq(Records)
    BY <1>1 DEF OneRecord
  <2>4. QED BY <1>1, <2>2, <2>3 DEF FileInv
<1>3. TodoInv' /\ RetryInv'
  BY <1>1 DEF EvalInv, TodoInv, RetryInv, InHand
<1>4. QED BY <1>1, <1>2, <1>3 DEF EvalInv, SnapshotsInv

LEMMA FillFileKeepsInv == EvalInv /\ FillFile => EvalInv'
<1> SUFFICES ASSUME EvalInv, FillFile PROVE EvalInv'
  OBVIOUS
<1>1. /\ pc = "fill" /\ pc' = local.back /\ UNCHANGED <<status, snapshots, local>>
      /\ file'.intact = TRUE /\ file'.records = local.records
      /\ local.back \in {"next", "investigate"}
  BY DEF FillFile, EvalInv, RetryInv
<1>2. FileInv'
  BY <1>1 DEF EvalInv, TodoInv, FileInv
<1>3. TodoInv' /\ RetryInv'
  BY <1>1 DEF EvalInv, TodoInv, RetryInv, InHand
<1>4. QED BY <1>1, <1>2, <1>3 DEF EvalInv, SnapshotsInv

LEMMA FinishEvalKeepsInv == EvalInv /\ FinishEval => EvalInv'
<1> SUFFICES ASSUME EvalInv, FinishEval PROVE EvalInv'
  OBVIOUS
<1> DEFINE s == [sample |-> local.sample, records |-> file.records]
<1>1. /\ pc = "next" /\ local.todo = <<>> /\ pc' = "idle" /\ local' = NoEval
      /\ snapshots' = IF IsFullRun THEN snapshots \cup {s} ELSE snapshots
      /\ UNCHANGED <<status, file>>
  BY DEF FinishEval
<1>2. /\ local.records \in Seq(Records) /\ OneRecord(local.records)
      /\ local.sample \in Seq(Alerts) /\ IsInjective(local.sample)
      /\ file.records = local.records
  BY <1>1 DEF EvalInv, TodoInv, FileInv
<1>3. Range(local.sample) \subseteq AlertsOf(local.records)
  <2>1. Range(<<>>) = {}
    BY DEF Range
  <2>2. QED BY <1>1, <2>1 DEF EvalInv, TodoInv
<1>4. IsFullRun => AlertsOf(local.records) = Range(local.sample)
  BY <1>2, <1>3, FullRunMatches DEF IsFullRun
<1>5. SnapshotsInv'
  BY <1>1, <1>2, <1>4 DEF EvalInv, SnapshotsInv
<1>6. FileInv'
  BY <1>1 DEF EvalInv, FileInv
<1>7. QED BY <1>1, <1>5, <1>6, NoEvalInv DEF EvalInv

LEMMA CrashKeepsInv == EvalInv /\ Crash => EvalInv'
<1> SUFFICES ASSUME EvalInv, Crash PROVE EvalInv'
  OBVIOUS
<1>1. pc' = "idle" /\ local' = NoEval /\ UNCHANGED <<status, file, snapshots>>
  BY DEF Crash
<1>2. FileInv'
  BY <1>1 DEF EvalInv, FileInv
<1>3. QED BY <1>1, <1>2, NoEvalInv DEF EvalInv, SnapshotsInv

LEMMA NextKeepsEvalInv == EvalInv /\ [Next]_vars => EvalInv'
<1> SUFFICES ASSUME EvalInv, [Next]_vars PROVE EvalInv'
  OBVIOUS
<1>1. CASE UNCHANGED vars
  BY <1>1 DEF vars, EvalInv, FileInv, TodoInv, RetryInv, SnapshotsInv, InHand
<1>2. CASE OthersChange
  <2>1. UNCHANGED <<file, snapshots, pc, local>> /\ status' \in [Alerts -> Statuses]
    BY <1>2 DEF OthersChange, EvalInv, Statuses
  <2>2. QED BY <2>1 DEF EvalInv, FileInv, TodoInv, RetryInv, SnapshotsInv, InHand
<1>3. QED
  BY <1>1, <1>2, BeginEvalKeepsInv, SnapshotAlertKeepsInv, InvestigateKeepsInv,
     RateLimitedKeepsInv, RestoreKeepsInv, TruncateFileKeepsInv, FillFileKeepsInv,
     FinishEvalKeepsInv, CrashKeepsInv DEF Next

LEMMA EvalInvAlways == Spec => []EvalInv
BY InitEvalInv, NextKeepsEvalInv, PTL DEF Spec

(* Every alert of every file is recorded with a status it may have, and an alert is
   investigated at most MAX_RETRIES_PER_ALERT times more. *)
THEOREM TypeCorrect == Spec => []TypeOK
<1>1. EvalInv => TypeOK
  BY DEF EvalInv, FileInv, TodoInv, RetryInv, InHand, TypeOK
<1>2. QED BY <1>1, EvalInvAlways, PTL

(* No alert is recorded twice, in memory, in the results file or in a snapshot,
   however many evaluations were cut short and resumed before. *)
THEOREM AlwaysOneRecord == Spec => []OneRecordPerAlert
<1>1. EvalInv => OneRecordPerAlert
  BY DEF EvalInv, FileInv, TodoInv, SnapshotsInv, OneRecordPerAlert
<1>2. QED BY <1>1, EvalInvAlways, PTL

(* A snapshot of a full run is about the alerts of its sample and about no other. *)
THEOREM SnapshotsAlwaysMatch == Spec => []SnapshotsMatchSample
<1>1. EvalInv => SnapshotsMatchSample
  BY DEF EvalInv, SnapshotsInv, SnapshotsMatchSample
<1>2. QED BY <1>1, EvalInvAlways, PTL

(* Writing the results loses none that is on file, unless a fresh start was asked for. *)
THEOREM CheckpointsAlwaysGrow == Spec => []CheckpointsOnlyGrow
<1>1. EvalInv => CheckpointsOnlyGrow
  BY DEF EvalInv, FileInv, CheckpointsOnlyGrow
<1>2. QED BY <1>1, EvalInvAlways, PTL

-----------------------------------------------------------------------------
(* Where records have an alert of a set, there are as many of them as alerts. *)
LEMMA RecordsPerAlert ==
    ASSUME NEW records \in Seq(Records), OneRecord(records), NEW T
    PROVE  /\ IsFiniteSet({i \in DOMAIN records : records[i].alert \in T})
           /\ Cardinality({i \in DOMAIN records : records[i].alert \in T}) =
                Cardinality(AlertsOf(records) \cap T)
<1> DEFINE A == {i \in DOMAIN records : records[i].alert \in T}
           B == AlertsOf(records) \cap T
           alert == [i \in A |-> records[i].alert]
<1>2. IsFiniteSet(A)
  <2>1. A \subseteq DOMAIN records
    OBVIOUS
  <2> HIDE DEF A
  <2>2. QED BY <2>1, PlacesAreFinite
<1>3. alert \in Surjection(A, B)
  BY DEF Surjection, AlertsOf
<1>4. alert \in Injection(A, B)
  BY <1>3 DEF Surjection, Injection, IsInjective, OneRecord
<1> HIDE DEF A, B, alert
<1>5. alert \in Bijection(A, B)
  BY <1>3, <1>4 DEF Bijection
<1>6. Cardinality(B) = Cardinality(A)
  BY <1>2, <1>5, FS_Bijection DEF ExistsBijection
<1>7. QED BY <1>2, <1>6 DEF A, B

(* Every alert of a set is counted as one or the other. *)
LEMMA CountsApart ==
    ASSUME NEW records \in Seq(Records), OneRecord(records), NEW T
    PROVE  Count(records, T, TRUE) + Count(records, T, FALSE) =
             Cardinality(AlertsOf(records) \cap T)
<1> DEFINE A == {i \in DOMAIN records : records[i].alert \in T}
           C(serious) == {i \in DOMAIN records :
                records[i].alert \in T
                  /\ (records[i].applied_status \in TakenSeriously) = serious}
<1>1. IsFiniteSet(A) /\ Cardinality(A) = Cardinality(AlertsOf(records) \cap T)
  BY RecordsPerAlert
<1>2. C(TRUE) \cup C(FALSE) = A /\ C(TRUE) \cap C(FALSE) = {}
  OBVIOUS
<1>3. Count(records, T, TRUE) = Cardinality(C(TRUE))
      /\ Count(records, T, FALSE) = Cardinality(C(FALSE))
  BY DEF Count
<1> HIDE DEF A, C
<1>4. IsFiniteSet(C(TRUE)) /\ IsFiniteSet(C(FALSE))
  BY <1>1, <1>2, FS_Subset
<1>5. Cardinality(A) = Cardinality(C(TRUE)) + Cardinality(C(FALSE))
  BY <1>2, <1>4, CardinalityApart
<1>6. QED BY <1>1, <1>3, <1>5

(* The offline scorer leaves the errors out. *)
LEMMA ScoredCount ==
    ASSUME NEW records \in Seq(Records), NEW T, NEW serious \in BOOLEAN
    PROVE  Count(Scored(records), T, serious) =
             Cardinality({i \in DOMAIN records :
               /\ records[i].applied_status # "ERROR"
               /\ records[i].alert \in T
               /\ (records[i].applied_status \in TakenSeriously) = serious})
<1> DEFINE scored == Scored(records)
           Q == {r \in Records : r.alert \in T /\ (r.applied_status \in TakenSeriously) = serious}
<1>1. scored = Select(records, Completed(records))
  BY DEF Scored
<1>2. scored \in Seq(Records)
  BY <1>1, SelectIsASeq
<1>3. Count(scored, T, serious) = Cardinality(Kept(scored, Q))
  <2> HIDE DEF scored
  <2>1. \A n \in DOMAIN scored : scored[n] \in Records
    BY <1>2
  <2>2. Kept(scored, Q) =
          {n \in DOMAIN scored : scored[n].alert \in T
             /\ (scored[n].applied_status \in TakenSeriously) = serious}
    BY <2>1 DEF Kept
  <2>3. QED BY <2>2 DEF Count
<1>4. Kept(records, Completed(records) \cap Q) =
        {i \in DOMAIN records :
               /\ records[i].applied_status # "ERROR"
               /\ records[i].alert \in T
               /\ (records[i].applied_status \in TakenSeriously) = serious}
  BY DEF Kept, Completed, Range
<1>5. Cardinality(Kept(scored, Q)) = Cardinality(Kept(records, Completed(records) \cap Q))
  <2> HIDE DEF Q
  <2> QED BY <1>1, SelectCount
<1>6. QED BY <1>3, <1>4, <1>5

(* Both scorers take the same alerts seriously; what the script counts as dismissed
   and the offline scorer does not are the errors. *)
LEMMA SeriousAlike ==
    ASSUME NEW records \in Seq(Records), NEW T
    PROVE  Count(Scored(records), T, TRUE) = Count(records, T, TRUE)
<1>1. {i \in DOMAIN records :
               /\ records[i].applied_status # "ERROR"
               /\ records[i].alert \in T
               /\ (records[i].applied_status \in TakenSeriously) = TRUE} =
      {i \in DOMAIN records : records[i].alert \in T
               /\ (records[i].applied_status \in TakenSeriously) = TRUE}
  BY DEF TakenSeriously
<1>2. Count(Scored(records), T, TRUE) =
        Cardinality({i \in DOMAIN records :
               /\ records[i].applied_status # "ERROR"
               /\ records[i].alert \in T
               /\ (records[i].applied_status \in TakenSeriously) = TRUE})
  BY ScoredCount
<1>3. QED BY <1>1, <1>2 DEF Count

LEMMA DismissedApart ==
    ASSUME NEW records \in Seq(Records), OneRecord(records), NEW T
    PROVE  Count(records, T, FALSE) - Count(Scored(records), T, FALSE) =
             Cardinality((AlertsOf(records) \ {r.alert : r \in Completed(records)}) \cap T)
<1> DEFINE completed == {r.alert : r \in Completed(records)}
           E == T \ completed
           A == {i \in DOMAIN records : records[i].alert \in E}
           all == {i \in DOMAIN records : records[i].alert \in T
                     /\ (records[i].applied_status \in TakenSeriously) = FALSE}
           some == {i \in DOMAIN records :
               /\ records[i].applied_status # "ERROR"
               /\ records[i].alert \in T
               /\ (records[i].applied_status \in TakenSeriously) = FALSE}
<1>1. IsFiniteSet(A) /\ Cardinality(A) = Cardinality(AlertsOf(records) \cap E)
  <2> HIDE DEF E
  <2> QED BY RecordsPerAlert
<1>2. ASSUME NEW i \in DOMAIN records
      PROVE  records[i].alert \notin completed <=> records[i].applied_status = "ERROR"
  <2>1. CASE records[i].applied_status # "ERROR"
    <3>1. records[i] \in Completed(records)
      BY <2>1 DEF Completed, Range
    <3>2. QED BY <2>1, <3>1
  <2>2. CASE records[i].applied_status = "ERROR"
    <3> SUFFICES ASSUME records[i].alert \in completed PROVE FALSE
      BY <2>2
    <3>1. PICK r \in Completed(records) : r.alert = records[i].alert
      OBVIOUS
    <3>2. PICK j \in DOMAIN records : records[j] = r
      BY DEF Completed, Range
    <3>3. j = i
      BY <3>1, <3>2 DEF OneRecord
    <3>4. QED BY <2>2, <3>2, <3>3 DEF Completed
  <2>3. QED BY <2>1, <2>2
<1>3. \A i \in DOMAIN records : i \in A <=> records[i].alert \in T /\ records[i].applied_status = "ERROR"
  <2> HIDE DEF completed
  <2> QED BY <1>2
<1>4. all = some \cup A /\ some \cap A = {}
  <2>1. "ERROR" \notin TakenSeriously
    BY DEF TakenSeriously
  <2>2. A \subseteq DOMAIN records
    OBVIOUS
  <2> HIDE DEF A
  <2>3. QED BY <1>3, <2>1, <2>2
<1>5. IsFiniteSet(some)
  <2>1. some \subseteq DOMAIN records
    OBVIOUS
  <2> HIDE DEF some
  <2>2. QED BY <2>1, PlacesAreFinite
<1>6. Count(records, T, FALSE) = Cardinality(all)
  BY DEF Count
<1>7. Count(Scored(records), T, FALSE) = Cardinality(some)
  BY ScoredCount
<1>8. AlertsOf(records) \cap E = (AlertsOf(records) \ completed) \cap T
  OBVIOUS
<1> HIDE DEF all, some, A, E, completed
<1>9. /\ Cardinality(all) = Cardinality(some) + Cardinality(A)
      /\ Cardinality(some) \in Nat /\ Cardinality(A) \in Nat
  BY <1>1, <1>4, <1>5, CardinalityApart
<1>10. Cardinality(all) - Cardinality(some) = Cardinality(A)
  BY <1>9
<1>11. Count(records, T, FALSE) - Count(Scored(records), T, FALSE) = Cardinality(A)
  BY <1>6, <1>7, <1>10
<1>12. QED BY <1>1, <1>8, <1>11 DEF completed

(* The scores of a full run count each alert of its sample once, with its own label,
   and the two scorers differ by exactly the alerts that were given up. *)
THEOREM ScoresAlwaysMatch == Spec => []ScoresMatchSample
<1>1. EvalInv => ScoresMatchSample
  <2> SUFFICES ASSUME EvalInv, NEW s \in snapshots
               PROVE  LET online == OnlineScore(s.records)
                          offline == OfflineScore(s.records)
                          errors == Range(s.sample) \ {r.alert : r \in Completed(s.records)}
                      IN  /\ online.tp + online.fn = Cardinality(Range(s.sample) \cap Laundering)
                          /\ online.fp + online.tn = Cardinality(Range(s.sample) \ Laundering)
                          /\ offline.tp = online.tp /\ offline.fp = online.fp
                          /\ online.fn - offline.fn = Cardinality(errors \cap Laundering)
                          /\ online.tn - offline.tn = Cardinality(errors \ Laundering)
    BY DEF ScoresMatchSample
  <2> DEFINE records == s.records
             clean == Alerts \ Laundering
             errors == Range(s.sample) \ {r.alert : r \in Completed(records)}
  <2>1. /\ records \in Seq(Records) /\ OneRecord(records)
        /\ AlertsOf(records) = Range(s.sample) /\ s.sample \in Seq(Alerts)
    BY DEF EvalInv, SnapshotsInv
  <2>2. Range(s.sample) \subseteq Alerts
    BY <2>1 DEF Range
  <2>3. /\ Range(s.sample) \cap clean = Range(s.sample) \ Laundering
        /\ errors \cap clean = errors \ Laundering
    BY <2>2
  <2>4. /\ Count(records, Laundering, TRUE) + Count(records, Laundering, FALSE) =
              Cardinality(Range(s.sample) \cap Laundering)
        /\ Count(records, clean, TRUE) + Count(records, clean, FALSE) =
              Cardinality(Range(s.sample) \ Laundering)
    <3> HIDE DEF records, clean
    <3> QED BY <2>1, <2>3, CountsApart
  <2>5. /\ Count(Scored(records), Laundering, TRUE) = Count(records, Laundering, TRUE)
        /\ Count(Scored(records), clean, TRUE) = Count(records, clean, TRUE)
    <3> HIDE DEF records, clean
    <3> QED BY <2>1, SeriousAlike
  <2>6. /\ Count(records, Laundering, FALSE) - Count(Scored(records), Laundering, FALSE) =
              Cardinality(errors \cap Laundering)
        /\ Count(records, clean, FALSE) - Count(Scored(records), clean, FALSE) =
              Cardinality(errors \ Laundering)
    <3>1. errors = AlertsOf(records) \ {r.alert : r \in Completed(records)}
      BY <2>1
    <3> HIDE DEF records, clean, errors
    <3>2. QED BY <2>1, <2>3, <3>1, DismissedApart
  <2>7. QED BY <2>4, <2>5, <2>6 DEF OnlineScore, OfflineScore, Confusion
<1>2. QED BY <1>1, EvalInvAlways, PTL
=============================================================================
