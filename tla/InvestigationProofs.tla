-------------------------- MODULE InvestigationProofs --------------------------
(***************************************************************************)
(* What holds of investigate_alert for any number of workers, alerts and   *)
(* tools, any model answers and any bounds: IInv is an inductive invariant *)
(* of Investigation, and Investigation implements AlertLifecycle.          *)
(***************************************************************************)
EXTENDS Investigation, CommonLemmas, SequenceTheorems

(* A row's kind tells which of the three sets of rows it is in. *)
LEMMA RowKinds ==
    ASSUME NEW row \in Rows
    PROVE  /\ IsEvaluation(row) => row \in EvaluationRows
           /\ IsCompletion(row) => row \in CompletionRows
           /\ row.kind = "tool_call" => row \in ToolRows
BY DEF Rows, EvaluationRows, CompletionRows, ToolRows, IsEvaluation, IsCompletion

(* Log appends one row to one alert's trail and changes nothing else. *)
LEMMA LogAppends ==
    ASSUME trail \in [Alerts -> Seq(Rows)],
           NEW a \in Alerts, NEW row \in Rows, Log(a, row)
    PROVE  /\ trail' \in [Alerts -> Seq(Rows)]
           /\ \A b \in Alerts : \A i \in DOMAIN trail[b] :
                i \in DOMAIN trail'[b] /\ trail'[b][i] = trail[b][i]
           /\ \A b \in Alerts \ {a} : trail'[b] = trail[b]
           /\ \E n \in Nat \ {0} :
                /\ DOMAIN trail[a] = 1..(n - 1)
                /\ DOMAIN trail'[a] = 1..n
                /\ trail'[a][n] = row
<1>1. trail[a] \in Seq(Rows)
  OBVIOUS
<1>2. trail' = [trail EXCEPT ![a] = Append(trail[a], row)]
  BY DEF Log
<1>3. Append(trail[a], row) \in Seq(Rows)
  BY <1>1
<1>4. trail' \in [Alerts -> Seq(Rows)]
  BY <1>2, <1>3
<1>5. trail'[a] = Append(trail[a], row) /\ \A b \in Alerts \ {a} : trail'[b] = trail[b]
  BY <1>2
<1>6. DOMAIN trail[a] = 1..Len(trail[a]) /\ Len(trail[a]) \in Nat
  BY <1>1
<1>7. DOMAIN trail'[a] = 1..(Len(trail[a]) + 1)
  BY <1>1, <1>5
<1>8. trail'[a][Len(trail[a]) + 1] = row
  BY <1>1, <1>5
<1>9. \A i \in DOMAIN trail[a] : trail'[a][i] = trail[a][i]
  BY <1>1, <1>5, <1>6
<1>10. \A b \in Alerts : \A i \in DOMAIN trail[b] :
         i \in DOMAIN trail'[b] /\ trail'[b][i] = trail[b][i]
  <2> SUFFICES ASSUME NEW b \in Alerts, NEW i \in DOMAIN trail[b]
               PROVE  i \in DOMAIN trail'[b] /\ trail'[b][i] = trail[b][i]
    OBVIOUS
  <2>1. CASE b = a
    BY <2>1, <1>6, <1>7, <1>9
  <2>2. CASE b # a
    BY <2>2, <1>5
  <2>3. QED
    BY <2>1, <2>2
<1>11. \E n \in Nat \ {0} : /\ DOMAIN trail[a] = 1..(n - 1)
                            /\ DOMAIN trail'[a] = 1..n
                            /\ trail'[a][n] = row
  <2> WITNESS Len(trail[a]) + 1 \in Nat \ {0}
  <2> QED
    BY <1>6, <1>7, <1>8
<1>12. QED
  BY <1>4, <1>5, <1>10, <1>11

LEMMA RowIsLogged ==
    ASSUME TypeOK, NEW a \in Alerts, NEW row \in Rows, Log(a, row)
    PROVE  \E n \in DOMAIN trail'[a] : trail'[a][n] = row
<1>1. PICK n \in Nat \ {0} : DOMAIN trail'[a] = 1..n /\ trail'[a][n] = row
  BY LogAppends DEF TypeOK
<1>2. n \in DOMAIN trail'[a]
  BY <1>1
<1>3. QED
  BY <1>1, <1>2

-----------------------------------------------------------------------------
(* What a new row must satisfy for the log to stay explained. *)
NewRowOK(a, row) ==
    /\ IsEvaluation(row) =>
         /\ row.verdict = Verdict(row.decision)
         /\ row.verdict = "pass" => Called(a, row.run)
    /\ IsCompletion(row) =>
         \/ row.verdict = "none" /\ row.action = "none" /\ row.applied = "escalated"
         \/ \E d \in Decisions(Tools) :
              /\ Evaluated(a, row.run, d, row.verdict)
              /\ d.action = row.action
              /\ row.applied = ResolveFinalStatus(row.verdict, d)

LogInvariants == LogInv /\ CompletionsExplained /\ EvidenceBeforeClearance

(* Rows stay, so what was called or evaluated stays called or evaluated. *)
LEMMA LogKeepsFacts ==
    ASSUME TypeOK, NEW a \in Alerts, NEW row \in Rows, Log(a, row)
    PROVE  /\ \A b \in Alerts : \A id : Called(b, id) => Called(b, id)'
           /\ \A b \in Alerts : \A id, d, v : Evaluated(b, id, d, v) => Evaluated(b, id, d, v)'
<1>1. \A b \in Alerts : \A i \in DOMAIN trail[b] :
        i \in DOMAIN trail'[b] /\ trail'[b][i] = trail[b][i]
  BY LogAppends DEF TypeOK
<1>2. QED
  BY <1>1 DEF Called, Evaluated, IsEvaluation

LEMMA LogStep ==
    ASSUME TypeOK, LogInvariants, NEW a \in Alerts, NEW row \in Rows,
           Log(a, row), NewRowOK(a, row)
    PROVE  LogInvariants'
<1>1. PICK n \in Nat \ {0} :
        DOMAIN trail[a] = 1..(n - 1) /\ DOMAIN trail'[a] = 1..n /\ trail'[a][n] = row
  BY LogAppends DEF TypeOK
<1>2. /\ \A b \in Alerts : \A i \in DOMAIN trail[b] :
            i \in DOMAIN trail'[b] /\ trail'[b][i] = trail[b][i]
      /\ \A b \in Alerts \ {a} : trail'[b] = trail[b]
  BY LogAppends DEF TypeOK
<1>3. \A b \in Alerts : \A i \in DOMAIN trail'[b] :
        \/ i \in DOMAIN trail[b] /\ trail'[b][i] = trail[b][i]
        \/ b = a /\ i = n /\ trail'[b][i] = row
  <2> SUFFICES ASSUME NEW b \in Alerts, NEW i \in DOMAIN trail'[b]
               PROVE  \/ i \in DOMAIN trail[b] /\ trail'[b][i] = trail[b][i]
                      \/ b = a /\ i = n /\ trail'[b][i] = row
    OBVIOUS
  <2>1. CASE b = a
    BY <1>1, <1>2, <2>1
  <2>2. CASE b # a
    BY <1>2, <2>2
  <2>3. QED
    BY <2>1, <2>2
<1>4. \A b \in Alerts : \A i \in DOMAIN trail[b] : 1..(i - 1) \subseteq DOMAIN trail[b]
  <2> SUFFICES ASSUME NEW b \in Alerts, NEW i \in DOMAIN trail[b]
               PROVE  1..(i - 1) \subseteq DOMAIN trail[b]
    OBVIOUS
  <2>1. trail[b] \in Seq(Rows)
    BY DEF TypeOK
  <2>2. DOMAIN trail[b] = 1..Len(trail[b]) /\ Len(trail[b]) \in Nat
    BY <2>1
  <2>3. QED
    BY <2>2
<1>5. LogInv'
  BY <1>3 DEF LogInvariants, LogInv, NewRowOK, IsEvaluation
<1>6. CompletionsExplained'
  <2> SUFFICES ASSUME NEW b \in Alerts, NEW i \in DOMAIN trail'[b],
                      IsCompletion(trail'[b][i]),
                      ~(/\ trail'[b][i].verdict = "none" /\ trail'[b][i].action = "none"
                        /\ trail'[b][i].applied = "escalated")
               PROVE  \E j \in 1..(i - 1) :
                        /\ IsEvaluation(trail'[b][j])
                        /\ trail'[b][j].run = trail'[b][i].run
                        /\ trail'[b][j].verdict = trail'[b][i].verdict
                        /\ trail'[b][j].decision.action = trail'[b][i].action
                        /\ trail'[b][i].applied =
                             ResolveFinalStatus(trail'[b][i].verdict, trail'[b][j].decision)
    BY DEF CompletionsExplained, IsCompletion, IsEvaluation
  <2>1. CASE i \in DOMAIN trail[b] /\ trail'[b][i] = trail[b][i]
    BY <1>2, <1>4, <2>1 DEF LogInvariants, CompletionsExplained, IsCompletion, IsEvaluation
  <2>2. CASE b = a /\ i = n /\ trail'[b][i] = row
    <3>1. PICK d \in Decisions(Tools) :
            /\ Evaluated(a, row.run, d, row.verdict)
            /\ d.action = row.action
            /\ row.applied = ResolveFinalStatus(row.verdict, d)
      BY <2>2 DEF NewRowOK
    <3>2. PICK j \in DOMAIN trail[a] :
            /\ IsEvaluation(trail[a][j]) /\ trail[a][j].run = row.run
            /\ trail[a][j].decision = d /\ trail[a][j].verdict = row.verdict
      BY <3>1 DEF Evaluated
    <3>3. j \in 1..(i - 1) /\ trail'[b][j] = trail[a][j]
      BY <1>1, <1>2, <2>2
    <3>4. QED
      BY <2>2, <3>1, <3>2, <3>3
  <2>3. QED
    BY <1>3, <2>1, <2>2
<1>7. EvidenceBeforeClearance'
  <2> SUFFICES ASSUME NEW b \in Alerts, NEW i \in DOMAIN trail'[b],
                      IsEvaluation(trail'[b][i]), trail'[b][i].verdict = "pass"
               PROVE  \E j \in 1..(i - 1) :
                        trail'[b][j].kind = "tool_call" /\ trail'[b][j].run = trail'[b][i].run
    BY DEF EvidenceBeforeClearance, IsEvaluation
  <2>1. CASE i \in DOMAIN trail[b] /\ trail'[b][i] = trail[b][i]
    BY <1>2, <1>4, <2>1 DEF LogInvariants, EvidenceBeforeClearance, IsEvaluation
  <2>2. CASE b = a /\ i = n /\ trail'[b][i] = row
    <3>1. PICK j \in DOMAIN trail[a] :
            trail[a][j].kind = "tool_call" /\ trail[a][j].run = row.run
      BY <2>2 DEF NewRowOK, Called
    <3>2. j \in 1..(i - 1) /\ trail'[b][j] = trail[a][j]
      BY <1>1, <1>2, <2>2
    <3>3. QED
      BY <2>2, <3>1, <3>2
  <2>3. QED
    BY <1>3, <2>1, <2>2
<1>8. QED
  BY <1>5, <1>6, <1>7 DEF LogInvariants

-----------------------------------------------------------------------------
(* Types. *)

LEMMA NoRunType == NoRun \in RunRecords
<1>1. (CHOOSE a \in Alerts : TRUE) \in Alerts
  BY AlertsAssumption
<1>2. NoDecision \in Decisions(Tools)
  BY DEF NoDecision, Decisions, AlertStatus, AgentActions, Narratives
<1>3. QED
  BY <1>1, <1>2 DEF NoRun, RunRecords, AlertStatus, Verdicts

LEMMA FinalStatusType ==
    ASSUME NEW d \in Decisions(Tools), NEW v \in Verdicts
    PROVE  ResolveFinalStatus(v, d) \in AlertStatus
BY DEF ResolveFinalStatus, ActionToStatus, Decisions, AgentActions, DismissalActions,
       AlertStatus, Closed, Dismissals

(* The narratives of the rule engine and of a forced escalation have text. *)
LEMMA PlainNarrative == {"words"} \in Narratives
<1>1. {} \in SUBSET {"pii", "artifact"}
  OBVIOUS
<1>2. {"words"} \cup {} \in {{"words"} \cup S : S \in SUBSET {"pii", "artifact"}}
  BY <1>1
<1>3. {"words"} \cup {} = {"words"}
  OBVIOUS
<1>4. QED
  BY <1>2, <1>3 DEF Narratives

LEMMA InitType == Init => TypeOK
<1> SUFFICES ASSUME Init PROVE TypeOK
  OBVIOUS
<1>1. [by |-> "rule", text |-> {"words"}] \in
        [by : {"rule", "agent", "fallback"}, text : Narratives]
  BY PlainNarrative
<1>2. <<>> \in Seq(Rows)
  OBVIOUS
<1>3. QED
  BY <1>1, <1>2, NoRunType DEF Init, TypeOK, AlertStatus, Stages

(* What a run may add to the log is a row. *)
LEMMA NewRows ==
    ASSUME NEW r \in RunRecords
    PROVE  /\ \A t \in Tools : [kind |-> "tool_call", run |-> r.id, tool |-> t] \in Rows
           /\ [kind |-> "guardrail_evaluated", run |-> r.id, decision |-> r.decision,
                verdict |-> Verdict(r.decision)] \in Rows
           /\ [kind |-> "investigation_completed", run |-> r.id, applied |-> r.final,
                action |-> r.decision.action, verdict |-> r.verdict] \in Rows
           /\ [kind |-> "investigation_completed", run |-> r.id, applied |-> "escalated",
                action |-> "none", verdict |-> "none"] \in Rows
BY VerdictType DEF RunRecords, Rows, ToolRows, EvaluationRows, CompletionRows, Decisions,
                   AlertStatus

LEMMA RecordedCallType ==
    ASSUME NEW r \in RunRecords, NEW t \in Tools
    PROVE  [r EXCEPT !.tools = @ \cup {t}, !.calls = @ + 1] \in RunRecords
<1>1. r.tools \cup {t} \in SUBSET Tools /\ r.calls + 1 \in Nat
  BY DEF RunRecords
<1>2. [r EXCEPT !.tools = r.tools \cup {t}, !.calls = r.calls + 1] \in RunRecords
  BY <1>1 DEF RunRecords
<1>3. QED
  BY <1>2

LEMMA TypeStep == TypeOK /\ [Next]_vars => TypeOK'
<1> SUFFICES ASSUME TypeOK, [Next]_vars PROVE TypeOK'
  OBVIOUS
<1> USE DEF TypeOK
<1>1. ASSUME NEW w \in Workers, NEW a \in Alerts, Start(w, a) PROVE TypeOK'
  <2>1. [id |-> runs + 1, alert |-> a, loaded |-> status[a], tools |-> {}, calls |-> 0,
         decision |-> NoDecision, verdict |-> "pass", final |-> status[a]] \in RunRecords
    BY NoRunType DEF RunRecords, NoRun
  <2>2. QED
    BY <1>1, <2>1 DEF Start, Goto, Stages
<1>2. ASSUME NEW w \in Workers, NEW t \in Tools, DispatchTool(w, t) PROVE TypeOK'
  <2>1. trail' \in [Alerts -> Seq(Rows)]
    BY <1>2, NewRows, LogAppends DEF DispatchTool, RunRecords
  <2>2. [run[w] EXCEPT !.tools = @ \cup {t}, !.calls = @ + 1] \in RunRecords
    BY RecordedCallType
  <2>3. run' = [run EXCEPT ![w] = [run[w] EXCEPT !.tools = @ \cup {t}, !.calls = @ + 1]]
    BY <1>2 DEF DispatchTool
  <2>4. run' \in [Workers -> RunRecords]
    BY <2>2, <2>3
  <2>5. QED
    BY <1>2, <2>1, <2>4 DEF DispatchTool
<1>3. ASSUME NEW w \in Workers, Decide(w) PROVE TypeOK'
  <2>1. PICK p \in Proposals :
          run' = [run EXCEPT ![w].decision =
                   [current_status |-> run[w].loaded, action |-> p.action,
                    severity |-> p.severity, narrative |-> p.narrative,
                    tools |-> run[w].tools]]
    BY <1>3 DEF Decide
  <2> DEFINE d == [current_status |-> run[w].loaded, action |-> p.action,
                   severity |-> p.severity, narrative |-> p.narrative,
                   tools |-> run[w].tools]
  <2>2. run[w] \in RunRecords
    OBVIOUS
  <2>3. p \in [action : AgentActions, severity : 1..5, narrative : Narratives]
    BY ProposalsAssumption
  <2>4. d \in Decisions(Tools)
    BY <2>2, <2>3 DEF RunRecords, Decisions
  <2>5. [run[w] EXCEPT !.decision = d] \in RunRecords
    BY <2>2, <2>4 DEF RunRecords
  <2>6. run' \in [Workers -> RunRecords]
    BY <2>1, <2>5
  <2>7. QED
    BY <1>3, <2>6 DEF Decide, Goto, Stages
<1>4. ASSUME NEW w \in Workers, GiveUp(w) PROVE TypeOK'
  BY <1>4 DEF GiveUp, Goto, Stages
<1>5. ASSUME NEW w \in Workers, EvaluateAll(w) PROVE TypeOK'
  <2>1. trail' \in [Alerts -> Seq(Rows)]
    BY <1>5, NewRows, LogAppends DEF EvaluateAll, RunRecords
  <2>2. /\ Verdict(run[w].decision) \in Verdicts
        /\ ResolveFinalStatus(Verdict(run[w].decision), run[w].decision) \in AlertStatus
    BY VerdictType, FinalStatusType DEF RunRecords
  <2>3. run' \in [Workers -> RunRecords]
    BY <1>5, <2>2 DEF EvaluateAll, RunRecords
  <2>4. QED
    BY <1>5, <2>1, <2>3 DEF EvaluateAll, Goto, Stages
<1>6. ASSUME NEW w \in Workers, ApplyStatus(w) PROVE TypeOK'
  BY <1>6 DEF ApplyStatus, SaveAlert, Goto, Stages, RunRecords, Decisions
<1>7. ASSUME NEW w \in Workers, ForceEscalate(w) PROVE TypeOK'
  BY <1>7, PlainNarrative DEF ForceEscalate, SaveAlert, Goto, Stages, RunRecords, AlertStatus
<1>8. ASSUME NEW w \in Workers, WriteAudit(w) PROVE TypeOK'
  <2>1. run' \in [Workers -> RunRecords]
    BY <1>8, NoRunType DEF WriteAudit, Completed, Return
  <2>2. trail' \in [Alerts -> Seq(Rows)]
    BY <1>8, NewRows, LogAppends DEF WriteAudit, Completed, RunRecords
  <2>3. QED
    BY <1>8, <2>1, <2>2 DEF WriteAudit, Completed, Return, Goto, Stages
<1>9. ASSUME NEW w \in Workers, Crash(w) PROVE TypeOK'
  BY <1>9, NoRunType DEF Crash, Return, Goto, Stages
<1>10. ASSUME NEW a \in Alerts, HumanReview(a) PROVE TypeOK'
  BY <1>10, RulingsAssumption DEF HumanReview
<1>11. CASE UNCHANGED vars
  BY <1>11 DEF vars
<1>12. QED
  BY <1>1, <1>2, <1>3, <1>4, <1>5, <1>6, <1>7, <1>8, <1>9, <1>10, <1>11 DEF Next

(* Every reachable state is well typed. *)
THEOREM TypeCorrect == Spec => []TypeOK
BY InitType, TypeStep, PTL DEF Spec

-----------------------------------------------------------------------------
(* The inductive invariant. *)

(* The facts a run relies on are rows, and rows stay. *)
FactsStay ==
    /\ \A b \in Alerts : \A id : Called(b, id) => Called(b, id)'
    /\ \A b \in Alerts : \A id, d, v : Evaluated(b, id, d, v) => Evaluated(b, id, d, v)'

LEMMA UntouchedRun ==
    ASSUME TypeOK, FactsStay, NEW v \in Workers, RunInv(v),
           pc'[v] = pc[v], run'[v] = run[v]
    PROVE  RunInv(v)'
<1>1. run[v].alert \in Alerts
  BY DEF TypeOK, RunRecords
<1>2. /\ \A b \in Alerts : \A id : Called(b, id) => Called(b, id)'
      /\ \A b \in Alerts : \A id, d, u : Evaluated(b, id, d, u) => Evaluated(b, id, d, u)'
  BY DEF FactsStay
<1>3. SessionInv(v)'
  <2>1. SessionInv(v)
    BY DEF RunInv
  <2>2. Called(run[v].alert, run[v].id) => Called(run[v].alert, run[v].id)'
    BY <1>1, <1>2
  <2>3. QED
    BY <2>1, <2>2 DEF SessionInv, Called
<1>4. DecisionInv(v)'
  BY DEF RunInv, DecisionInv
<1>5. EvidenceInv(v)'
  <2>1. EvidenceInv(v)
    BY DEF RunInv
  <2>2. Called(run[v].alert, run[v].id) => Called(run[v].alert, run[v].id)'
    BY <1>1, <1>2
  <2>3. QED
    BY <2>1, <2>2 DEF EvidenceInv, Called
<1>6. VerdictInv(v)'
  <2>1. VerdictInv(v)
    BY DEF RunInv
  <2>2. Evaluated(run[v].alert, run[v].id, run[v].decision, run[v].verdict)
          => Evaluated(run[v].alert, run[v].id, run[v].decision, run[v].verdict)'
    BY <1>1, <1>2
  <2>3. QED
    BY <2>1, <2>2 DEF VerdictInv, Evaluated, IsEvaluation
<1>7. QED
  BY <1>3, <1>4, <1>5, <1>6 DEF RunInv

LEMMA IdleRun ==
    ASSUME NEW v \in Workers, pc'[v] \in {"idle", "force", "audit_forced"}
    PROVE  RunInv(v)'
BY DEF RunInv, SessionInv, DecisionInv, EvidenceInv, VerdictInv

LEMMA SameLogKeepsFacts ==
    ASSUME UNCHANGED trail
    PROVE  FactsStay
BY DEF FactsStay, Called, Evaluated, IsEvaluation

LEMMA SameLogKeepsInvariants ==
    ASSUME UNCHANGED trail, LogInvariants
    PROVE  LogInvariants'
BY DEF LogInvariants, LogInv, CompletionsExplained, EvidenceBeforeClearance,
       IsEvaluation, IsCompletion

LEMMA InitIInv == Init => IInv
<1> SUFFICES ASSUME Init PROVE IInv
  OBVIOUS
<1>1. TypeOK
  BY InitType
<1>2. \A a \in Alerts : DOMAIN trail[a] = {}
  BY DEF Init
<1>3. LogInv /\ CompletionsExplained /\ EvidenceBeforeClearance
  BY <1>2 DEF LogInv, CompletionsExplained, EvidenceBeforeClearance
<1>4. \A w \in Workers : RunInv(w)
  BY DEF Init, RunInv, SessionInv, DecisionInv, EvidenceInv, VerdictInv
<1>5. QED
  BY <1>1, <1>3, <1>4 DEF IInv

LEMMA IInvStep == IInv /\ [Next]_vars => IInv'
<1> SUFFICES ASSUME IInv, [Next]_vars PROVE IInv'
  OBVIOUS
<1>0. TypeOK /\ TypeOK' /\ LogInvariants /\ \A v \in Workers : RunInv(v)
  BY TypeStep DEF IInv, LogInvariants
<1> SUFFICES LogInvariants' /\ \A v \in Workers : RunInv(v)'
  BY <1>0 DEF IInv, LogInvariants
<1>1. ASSUME NEW w \in Workers, NEW a \in Alerts, Start(w, a)
      PROVE  LogInvariants' /\ \A v \in Workers : RunInv(v)'
  <2>1. LogInvariants' /\ FactsStay
    BY <1>0, <1>1, SameLogKeepsFacts, SameLogKeepsInvariants DEF Start
  <2>2. pc'[w] = "session" /\ run'[w].tools = {}
    BY <1>0, <1>1 DEF Start, Goto, TypeOK
  <2>3. RunInv(w)'
    BY <2>2 DEF RunInv, SessionInv, DecisionInv, EvidenceInv, VerdictInv
  <2>4. \A v \in Workers \ {w} : RunInv(v)'
    BY <1>0, <1>1, <2>1, UntouchedRun DEF Start, Goto, TypeOK
  <2>5. QED
    BY <2>1, <2>3, <2>4
<1>2. ASSUME NEW w \in Workers, NEW t \in Tools, DispatchTool(w, t)
      PROVE  LogInvariants' /\ \A v \in Workers : RunInv(v)'
  <2> DEFINE a == run[w].alert
             row == [kind |-> "tool_call", run |-> run[w].id, tool |-> t]
  <2>1. a \in Alerts /\ row \in Rows /\ Log(a, row)
    BY <1>0, <1>2, NewRows DEF DispatchTool, TypeOK, RunRecords
  <2>2. NewRowOK(a, row)
    BY DEF NewRowOK, IsEvaluation, IsCompletion
  <2>3. LogInvariants' /\ FactsStay
    BY <1>0, <2>1, <2>2, LogStep, LogKeepsFacts DEF FactsStay
  <2>4. pc'[w] = "session" /\ run'[w].alert = a /\ run'[w].id = run[w].id
    BY <1>0, <1>2 DEF DispatchTool, TypeOK, RunRecords
  <2>5. Called(a, run[w].id)'
    <3>1. \E n \in DOMAIN trail'[a] : trail'[a][n] = row
      BY <1>0, <2>1, RowIsLogged
    <3>2. PICK n \in DOMAIN trail'[a] : trail'[a][n] = row
      BY <3>1
    <3>3. trail'[a][n].kind = "tool_call" /\ trail'[a][n].run = run'[w].id
      BY <3>2, <2>4
    <3>4. QED
      BY <3>3, <2>4 DEF Called
  <2>6. RunInv(w)'
    BY <2>4, <2>5 DEF RunInv, SessionInv, DecisionInv, EvidenceInv, VerdictInv, Called
  <2>7. \A v \in Workers \ {w} : RunInv(v)'
    BY <1>0, <1>2, <2>3, UntouchedRun DEF DispatchTool, TypeOK
  <2>8. QED
    BY <2>3, <2>6, <2>7
<1>3. ASSUME NEW w \in Workers, Decide(w)
      PROVE  LogInvariants' /\ \A v \in Workers : RunInv(v)'
  <2>1. LogInvariants' /\ FactsStay
    BY <1>0, <1>3, SameLogKeepsFacts, SameLogKeepsInvariants DEF Decide
  <2>2. /\ pc'[w] = "evaluate" /\ pc[w] = "session" /\ trail' = trail
        /\ run'[w].decision.current_status = run[w].loaded
        /\ run'[w].decision.tools = run[w].tools
        /\ run'[w].loaded = run[w].loaded /\ run'[w].alert = run[w].alert
        /\ run'[w].id = run[w].id
    BY <1>0, <1>3 DEF Decide, Goto, TypeOK, RunRecords
  <2>3. run[w].tools # {} => Called(run[w].alert, run[w].id)
    BY <1>0, <2>2 DEF RunInv, SessionInv
  <2>4. RunInv(w)'
    BY <2>2, <2>3 DEF RunInv, SessionInv, DecisionInv, EvidenceInv, VerdictInv, Called
  <2>5. \A v \in Workers \ {w} : RunInv(v)'
    BY <1>0, <1>3, <2>1, UntouchedRun DEF Decide, Goto, TypeOK
  <2>6. QED
    BY <2>1, <2>4, <2>5
<1>4. ASSUME NEW w \in Workers, GiveUp(w) \/ ForceEscalate(w) \/ Crash(w)
      PROVE  LogInvariants' /\ \A v \in Workers : RunInv(v)'
  <2>1. LogInvariants' /\ FactsStay
    BY <1>0, <1>4, SameLogKeepsFacts, SameLogKeepsInvariants DEF GiveUp, ForceEscalate, Crash
  <2>2. RunInv(w)'
    BY <1>0, <1>4, IdleRun DEF GiveUp, ForceEscalate, Crash, Return, Goto, TypeOK
  <2>3. \A v \in Workers \ {w} : RunInv(v)'
    BY <1>0, <1>4, <2>1, UntouchedRun DEF GiveUp, ForceEscalate, Crash, Return, Goto, TypeOK
  <2>4. QED
    BY <2>1, <2>2, <2>3
<1>5. ASSUME NEW w \in Workers, EvaluateAll(w)
      PROVE  LogInvariants' /\ \A v \in Workers : RunInv(v)'
  <2> DEFINE a == run[w].alert
             d == run[w].decision
             row == [kind |-> "guardrail_evaluated", run |-> run[w].id,
                     decision |-> d, verdict |-> Verdict(d)]
  <2>1. a \in Alerts /\ row \in Rows /\ Log(a, row)
    BY <1>0, <1>5, NewRows DEF EvaluateAll, TypeOK, RunRecords
  <2>2. Verdict(d) = "pass" => Called(a, run[w].id)
    BY <1>0, <1>5, PassedDecision DEF EvaluateAll, RunInv, EvidenceInv
  <2>3. NewRowOK(a, row)
    BY <2>2 DEF NewRowOK, IsEvaluation, IsCompletion
  <2>4. LogInvariants' /\ FactsStay
    BY <1>0, <2>1, <2>3, LogStep, LogKeepsFacts DEF FactsStay
  <2>5. /\ pc'[w] = "apply" /\ run'[w].alert = a /\ run'[w].id = run[w].id
        /\ run'[w].decision = d /\ run'[w].loaded = run[w].loaded
        /\ run'[w].verdict = Verdict(d)
        /\ run'[w].final = ResolveFinalStatus(Verdict(d), d)
    BY <1>0, <1>5 DEF EvaluateAll, Goto, TypeOK, RunRecords
  <2>6. Evaluated(a, run[w].id, d, Verdict(d))'
    <3>1. \E n \in DOMAIN trail'[a] : trail'[a][n] = row
      BY <1>0, <2>1, RowIsLogged
    <3>2. \E n \in DOMAIN trail'[a] :
             /\ trail'[a][n].kind = "guardrail_evaluated" /\ trail'[a][n].run = run[w].id
             /\ trail'[a][n].decision = d /\ trail'[a][n].verdict = Verdict(d)
      BY <3>1
    <3>3. PICK n \in DOMAIN trail'[a] :
             /\ trail'[a][n].kind = "guardrail_evaluated" /\ trail'[a][n].run = run[w].id
             /\ trail'[a][n].decision = d /\ trail'[a][n].verdict = Verdict(d)
      BY <3>2
    <3>4. QED
      BY <3>3, <2>5 DEF Evaluated, IsEvaluation
  <2>7. d.current_status = run[w].loaded
    BY <1>0, <1>5 DEF EvaluateAll, RunInv, DecisionInv
  <2>8. RunInv(w)'
    BY <2>5, <2>6, <2>7 DEF RunInv, SessionInv, DecisionInv, EvidenceInv, VerdictInv, Evaluated
  <2>9. \A v \in Workers \ {w} : RunInv(v)'
    BY <1>0, <1>5, <2>4, UntouchedRun DEF EvaluateAll, Goto, TypeOK
  <2>10. QED
    BY <2>4, <2>8, <2>9
<1>6. ASSUME NEW w \in Workers, ApplyStatus(w)
      PROVE  LogInvariants' /\ \A v \in Workers : RunInv(v)'
  <2>1. LogInvariants' /\ FactsStay
    BY <1>0, <1>6, SameLogKeepsFacts, SameLogKeepsInvariants DEF ApplyStatus
  <2>2. pc[w] = "apply" /\ pc'[w] = "audit" /\ run' = run /\ trail' = trail
    BY <1>0, <1>6 DEF ApplyStatus, Goto, TypeOK
  <2>3. RunInv(w)'
    BY <1>0, <2>2 DEF RunInv, SessionInv, DecisionInv, EvidenceInv, VerdictInv, Evaluated,
                      IsEvaluation
  <2>4. \A v \in Workers \ {w} : RunInv(v)'
    BY <1>0, <1>6, <2>1, UntouchedRun DEF ApplyStatus, Goto, TypeOK
  <2>5. QED
    BY <2>1, <2>3, <2>4
<1>7. ASSUME NEW w \in Workers, WriteAudit(w)
      PROVE  LogInvariants' /\ \A v \in Workers : RunInv(v)'
  <2> DEFINE a == run[w].alert
  <2>1. a \in Alerts /\ run[w] \in RunRecords
    BY <1>0 DEF TypeOK, RunRecords
  <2>2. LogInvariants' /\ FactsStay
    <3>1. CASE /\ pc[w] = "audit"
               /\ Completed(w, run[w].final, run[w].decision.action, run[w].verdict)
      <4> DEFINE row == [kind |-> "investigation_completed", run |-> run[w].id,
                         applied |-> run[w].final, action |-> run[w].decision.action,
                         verdict |-> run[w].verdict]
      <4>1. row \in Rows /\ Log(a, row)
        BY <2>1, <3>1, NewRows DEF Completed
      <4>2. VerdictInv(w) /\ run[w].decision \in Decisions(Tools)
        BY <1>0, <2>1 DEF RunInv, RunRecords
      <4>3. NewRowOK(a, row)
        BY <3>1, <4>2 DEF VerdictInv, NewRowOK, IsEvaluation, IsCompletion
      <4>4. QED
        BY <1>0, <2>1, <4>1, <4>3, LogStep, LogKeepsFacts DEF FactsStay
    <3>2. CASE /\ pc[w] = "audit_forced"
               /\ Completed(w, "escalated", "none", "none")
      <4> DEFINE row == [kind |-> "investigation_completed", run |-> run[w].id,
                         applied |-> "escalated", action |-> "none", verdict |-> "none"]
      <4>1. row \in Rows /\ Log(a, row)
        BY <2>1, <3>2, NewRows DEF Completed
      <4>2. NewRowOK(a, row)
        BY DEF NewRowOK, IsEvaluation, IsCompletion
      <4>3. QED
        BY <1>0, <2>1, <4>1, <4>2, LogStep, LogKeepsFacts DEF FactsStay
    <3>3. QED
      BY <1>7, <3>1, <3>2 DEF WriteAudit
  <2>3. RunInv(w)'
    BY <1>0, <1>7, IdleRun DEF WriteAudit, Completed, Return, Goto, TypeOK
  <2>4. \A v \in Workers \ {w} : RunInv(v)'
    BY <1>0, <1>7, <2>2, UntouchedRun DEF WriteAudit, Completed, Return, Goto, TypeOK
  <2>5. QED
    BY <2>2, <2>3, <2>4
<1>8. CASE (\E a \in Alerts : HumanReview(a)) \/ UNCHANGED vars
  <2>1. trail' = trail /\ pc' = pc /\ run' = run
    BY <1>8 DEF HumanReview, vars
  <2>2. LogInvariants' /\ FactsStay
    BY <1>0, <2>1, SameLogKeepsFacts, SameLogKeepsInvariants
  <2>3. QED
    BY <1>0, <2>1, <2>2, UntouchedRun
<1>9. QED
  BY <1>1, <1>2, <1>3, <1>4, <1>5, <1>6, <1>7, <1>8 DEF Next

LEMMA InvariantHolds == Spec => []IInv
BY InitIInv, IInvStep, PTL DEF Spec

(* Whatever runs, crashes and people do, every completion row in the log is
   explained by an earlier evaluation of the same run or is an escalation. *)
THEOREM CompletionsAlwaysExplained == Spec => []CompletionsExplained
<1>1. IInv => CompletionsExplained
  BY DEF IInv
<1>2. QED
  BY <1>1, InvariantHolds, PTL

(* No evaluation in the log passes without a tool call of its run before it. *)
THEOREM EvidenceAlwaysFirst == Spec => []EvidenceBeforeClearance
<1>1. IInv => EvidenceBeforeClearance
  BY DEF IInv
<1>2. QED
  BY <1>1, InvariantHolds, PTL

-----------------------------------------------------------------------------
(* Refinement. *)

LEMMA ClearedMember ==
    ASSUME NEW c
    PROVE  c \in ClearedDecisions <=>
             \E a \in Alerts : \E i \in DOMAIN trail[a] :
               IsClearance(trail[a][i]) /\ c = <<a, trail[a][i].decision>>
BY DEF ClearedDecisions

LEMMA ClearedMemberNext ==
    ASSUME NEW c
    PROVE  c \in ClearedDecisions' <=>
             \E a \in Alerts : \E i \in DOMAIN trail'[a] :
               IsClearance(trail'[a][i]) /\ c = <<a, trail'[a][i].decision>>
BY DEF ClearedDecisions, IsClearance, IsEvaluation

(* A new row clears its decision if it is a clearance, and nothing otherwise. *)
LEMMA ClearedGrows ==
    ASSUME TypeOK, NEW a \in Alerts, NEW row \in Rows, Log(a, row)
    PROVE  ClearedDecisions' =
             ClearedDecisions \cup (IF IsClearance(row) THEN {<<a, row.decision>>} ELSE {})
<1>1. PICK n \in Nat \ {0} :
        DOMAIN trail[a] = 1..(n - 1) /\ DOMAIN trail'[a] = 1..n /\ trail'[a][n] = row
  BY LogAppends DEF TypeOK
<1>2. /\ \A b \in Alerts : \A i \in DOMAIN trail[b] :
            i \in DOMAIN trail'[b] /\ trail'[b][i] = trail[b][i]
      /\ \A b \in Alerts \ {a} : trail'[b] = trail[b]
  BY LogAppends DEF TypeOK
<1>3. \A i \in DOMAIN trail'[a] : i \in DOMAIN trail[a] \/ i = n
  BY <1>1
<1>4. n \in DOMAIN trail'[a]
  BY <1>1
<1> DEFINE new == IF IsClearance(row) THEN {<<a, row.decision>>} ELSE {}
<1>5. ASSUME NEW c \in ClearedDecisions' PROVE c \in ClearedDecisions \cup new
  <2>1. PICK b \in Alerts : \E i \in DOMAIN trail'[b] :
          IsClearance(trail'[b][i]) /\ c = <<b, trail'[b][i].decision>>
    BY <1>5, ClearedMemberNext
  <2>2. PICK i \in DOMAIN trail'[b] :
          IsClearance(trail'[b][i]) /\ c = <<b, trail'[b][i].decision>>
    BY <2>1
  <2>3. CASE b = a /\ i = n
    BY <1>1, <2>2, <2>3
  <2>4. CASE i \in DOMAIN trail[b]
    BY <1>2, <2>2, <2>4, ClearedMember
  <2>5. QED
    BY <1>2, <1>3, <2>2, <2>3, <2>4
<1>6. ASSUME NEW c \in ClearedDecisions PROVE c \in ClearedDecisions'
  <2>1. PICK b \in Alerts : \E i \in DOMAIN trail[b] :
          IsClearance(trail[b][i]) /\ c = <<b, trail[b][i].decision>>
    BY <1>6, ClearedMember
  <2>2. QED
    BY <1>2, <2>1, ClearedMemberNext
<1>7. ASSUME NEW c \in new PROVE c \in ClearedDecisions'
  BY <1>1, <1>4, <1>7, ClearedMemberNext
<1>8. QED
  BY <1>5, <1>6, <1>7

LEMMA SameCleared ==
    ASSUME UNCHANGED trail
    PROVE  ClearedDecisions' = ClearedDecisions
BY DEF ClearedDecisions, IsClearance, IsEvaluation

(* Both specifications speak of the same statuses and actions. *)
LEMMA SameVocabulary ==
    /\ Lifecycle!AlertStatus = AlertStatus
    /\ Lifecycle!DismissalActions = DismissalActions
    /\ Lifecycle!ActionToStatus = ActionToStatus
BY DEF Lifecycle!AlertStatus, AlertStatus, Lifecycle!Closed, Closed,
       Lifecycle!Dismissals, Dismissals, Lifecycle!DismissalActions, DismissalActions,
       Lifecycle!ActionToStatus, ActionToStatus

LEMMA ClearanceIsDismissible ==
    ASSUME NEW d \in Decisions(Tools), Verdict(d) = "pass", d.action \in DismissalActions
    PROVE  d \in Lifecycle!DismissibleDecisions
<1>1. d.severity \in 1..2
  BY PassedDismissal DEF Decisions
<1>2. d.tools \in (SUBSET Tools) \ {{}} /\ d.current_status \in {"open", "under_review"}
  BY PassedDecision DEF Decisions, ActionableStates
<1>3. d.narrative = {"words"}
  <2>1. "words" \in d.narrative /\ "pii" \notin d.narrative /\ "artifact" \notin d.narrative
    BY PassedDecision
  <2>2. d.narrative \subseteq {"words", "pii", "artifact"}
    BY DEF Decisions, Narratives
  <2>3. QED
    BY <2>1, <2>2
<1>4. QED
  BY <1>1, <1>2, <1>3, SameVocabulary DEF Lifecycle!DismissibleDecisions, Decisions

LEMMA LifecycleInit == Init => Lifecycle!Init
<1> SUFFICES ASSUME Init PROVE Lifecycle!Init
  OBVIOUS
<1>1. \A a \in Alerts : DOMAIN trail[a] = {}
  BY DEF Init
<1>2. ClearedDecisions = {}
  BY <1>1, ClearedMember
<1>3. QED
  BY <1>2 DEF Init, Lifecycle!Init

(* A step that only adds rows which clear nothing is a stutter. *)
LEMMA QuietStep ==
    ASSUME UNCHANGED <<status, reviews>>, ClearedDecisions' = ClearedDecisions
    PROVE  UNCHANGED Lifecycle!vars
BY DEF Lifecycle!vars

LEMMA LifecycleStep == IInv /\ [Next]_vars => [Lifecycle!Next]_(Lifecycle!vars)
<1> SUFFICES ASSUME IInv, [Next]_vars PROVE [Lifecycle!Next]_(Lifecycle!vars)
  OBVIOUS
<1>0. TypeOK /\ \A w \in Workers : RunInv(w)
  BY DEF IInv
<1>1. ASSUME NEW w \in Workers, NEW a \in Alerts, Start(w, a)
      PROVE  UNCHANGED Lifecycle!vars
  BY <1>1, SameCleared, QuietStep DEF Start
<1>2. ASSUME NEW w \in Workers, NEW t \in Tools, DispatchTool(w, t)
      PROVE  UNCHANGED Lifecycle!vars
  <2> DEFINE row == [kind |-> "tool_call", run |-> run[w].id, tool |-> t]
  <2>1. run[w].alert \in Alerts /\ row \in Rows /\ Log(run[w].alert, row)
    BY <1>0, <1>2, NewRows DEF DispatchTool, TypeOK, RunRecords
  <2>2. ~IsClearance(row)
    BY DEF IsClearance, IsEvaluation
  <2>3. ClearedDecisions' = ClearedDecisions
    BY <1>0, <2>1, <2>2, ClearedGrows
  <2>4. QED
    BY <1>2, <2>3, QuietStep DEF DispatchTool
<1>3. ASSUME NEW w \in Workers, Decide(w) \/ GiveUp(w) \/ Crash(w)
      PROVE  UNCHANGED Lifecycle!vars
  BY <1>3, SameCleared, QuietStep DEF Decide, GiveUp, Crash
<1>4. ASSUME NEW w \in Workers, EvaluateAll(w)
      PROVE  [Lifecycle!Next]_(Lifecycle!vars)
  <2> DEFINE a == run[w].alert
             d == run[w].decision
             row == [kind |-> "guardrail_evaluated", run |-> run[w].id,
                     decision |-> d, verdict |-> Verdict(d)]
  <2>1. /\ a \in Alerts /\ row \in Rows /\ Log(a, row) /\ d \in Decisions(Tools)
        /\ UNCHANGED <<status, reviews>>
    BY <1>0, <1>4, NewRows DEF EvaluateAll, TypeOK, RunRecords
  <2>2. CASE IsClearance(row)
    <3>1. ClearedDecisions' = ClearedDecisions \cup {<<a, d>>}
      BY <1>0, <2>1, <2>2, ClearedGrows
    <3>2. d \in Lifecycle!DismissibleDecisions
      BY <2>1, <2>2, ClearanceIsDismissible DEF IsClearance
    <3>3. CASE ClearedDecisions' = ClearedDecisions
      BY <2>1, <3>3, QuietStep
    <3>4. CASE ClearedDecisions' # ClearedDecisions
      <4>1. Lifecycle!Clear(a)
        BY <2>1, <3>1, <3>2, <3>4 DEF Lifecycle!Clear
      <4>2. QED
        BY <2>1, <4>1 DEF Lifecycle!Next
    <3>5. QED
      BY <3>3, <3>4
  <2>3. CASE ~IsClearance(row)
    BY <1>0, <2>1, <2>3, ClearedGrows, QuietStep
  <2>4. QED
    BY <2>2, <2>3
<1>5. ASSUME NEW w \in Workers, ApplyStatus(w)
      PROVE  [Lifecycle!Next]_(Lifecycle!vars)
  <2> DEFINE a == run[w].alert
             d == run[w].decision
  <2>1. /\ a \in Alerts /\ d \in Decisions(Tools) /\ UNCHANGED reviews
        /\ run[w].verdict = Verdict(d) /\ Verdict(d) \in Verdicts
        /\ run[w].final = ResolveFinalStatus(Verdict(d), d)
        /\ Evaluated(a, run[w].id, d, Verdict(d))
    BY <1>0, <1>5, VerdictType DEF ApplyStatus, RunInv, VerdictInv, TypeOK, RunRecords
  <2>2. ClearedDecisions' = ClearedDecisions
    BY <1>5, SameCleared DEF ApplyStatus
  <2>3. status' = status \/ status' = [status EXCEPT ![a] = run[w].final]
    BY <1>5 DEF ApplyStatus, SaveAlert
  <2>4. CASE status' = status
    BY <2>1, <2>2, <2>4, QuietStep
  <2>5. CASE status' = [status EXCEPT ![a] = run[w].final]
    <3>1. CASE run[w].final \in {"escalated", "under_review"}
      <4>1. Lifecycle!SendToHuman(a)
        BY <2>1, <2>2, <2>5, <3>1 DEF Lifecycle!SendToHuman
      <4>2. QED
        BY <2>1, <4>1 DEF Lifecycle!Next
    <3>2. CASE run[w].final \notin {"escalated", "under_review"}
      <4>1. Verdict(d) = "pass" /\ run[w].final = ActionToStatus[d.action]
        BY <2>1, <3>2 DEF ResolveFinalStatus, Verdicts
      <4>2. d.action \in DismissalActions
        <5>1. d.action \in AgentActions /\ d.action # "close_sar_filed"
          BY <4>1, PassedDecision
        <5>2. d.action # "escalate"
          BY <3>2, <4>1 DEF ActionToStatus
        <5>3. QED
          BY <5>1, <5>2 DEF AgentActions
      <4>3. d \in Lifecycle!DismissibleDecisions
        BY <2>1, <4>1, <4>2, ClearanceIsDismissible
      <4>4. <<a, d>> \in ClearedDecisions
        <5>1. PICK j \in DOMAIN trail[a] :
                /\ IsEvaluation(trail[a][j]) /\ trail[a][j].decision = d
                /\ trail[a][j].verdict = "pass"
          BY <2>1, <4>1 DEF Evaluated
        <5>2. IsClearance(trail[a][j]) /\ <<a, d>> = <<a, trail[a][j].decision>>
          BY <5>1, <4>2 DEF IsClearance
        <5>3. QED
          BY <2>1, <5>2, ClearedMember
      <4>5. Lifecycle!Dismiss(a)
        BY <2>1, <2>2, <2>5, <4>1, <4>3, <4>4, SameVocabulary DEF Lifecycle!Dismiss
      <4>6. QED
        BY <2>1, <4>5 DEF Lifecycle!Next
    <3>3. QED
      BY <3>1, <3>2
  <2>6. QED
    BY <2>3, <2>4, <2>5
<1>6. ASSUME NEW w \in Workers, ForceEscalate(w)
      PROVE  [Lifecycle!Next]_(Lifecycle!vars)
  <2> DEFINE a == run[w].alert
  <2>1. a \in Alerts /\ UNCHANGED reviews
    BY <1>0, <1>6 DEF ForceEscalate, TypeOK, RunRecords
  <2>2. ClearedDecisions' = ClearedDecisions
    BY <1>6, SameCleared DEF ForceEscalate
  <2>3. status' = status \/ status' = [status EXCEPT ![a] = "escalated"]
    BY <1>6 DEF ForceEscalate, SaveAlert
  <2>4. CASE status' = status
    BY <2>1, <2>2, <2>4, QuietStep
  <2>5. CASE status' = [status EXCEPT ![a] = "escalated"]
    <3>1. Lifecycle!SendToHuman(a)
      BY <2>1, <2>2, <2>5 DEF Lifecycle!SendToHuman
    <3>2. QED
      BY <2>1, <3>1 DEF Lifecycle!Next
  <2>6. QED
    BY <2>3, <2>4, <2>5
<1>7. ASSUME NEW w \in Workers, WriteAudit(w)
      PROVE  UNCHANGED Lifecycle!vars
  <2>1. PICK row \in Rows :
          IsCompletion(row) /\ Log(run[w].alert, row) /\ UNCHANGED <<status, reviews>>
    <3>1. run[w] \in RunRecords
      BY <1>0 DEF TypeOK
    <3>2. CASE Completed(w, run[w].final, run[w].decision.action, run[w].verdict)
      BY <3>1, <3>2, NewRows DEF Completed, IsCompletion
    <3>3. CASE Completed(w, "escalated", "none", "none")
      BY <3>1, <3>3, NewRows DEF Completed, IsCompletion
    <3>4. QED
      BY <1>7, <3>2, <3>3 DEF WriteAudit
  <2>2. run[w].alert \in Alerts /\ ~IsClearance(row)
    BY <1>0, <2>1 DEF TypeOK, RunRecords, IsCompletion, IsClearance, IsEvaluation
  <2>3. ClearedDecisions' = ClearedDecisions
    BY <1>0, <2>1, <2>2, ClearedGrows
  <2>4. QED
    BY <2>1, <2>3, QuietStep
<1>8. ASSUME NEW a \in Alerts, HumanReview(a)
      PROVE  [Lifecycle!Next]_(Lifecycle!vars)
  <2>1. ClearedDecisions' = ClearedDecisions
    BY <1>8, SameCleared DEF HumanReview
  <2>2. Lifecycle!HumanReview(a)
    <3>1. \E s \in Lifecycle!AlertStatus : status' = [status EXCEPT ![a] = s]
      BY <1>8, RulingsAssumption, SameVocabulary DEF HumanReview
    <3>2. QED
      BY <1>8, <2>1, <3>1 DEF HumanReview, Lifecycle!HumanReview
  <2>3. QED
    BY <2>2 DEF Lifecycle!Next
<1>9. CASE UNCHANGED vars
  BY <1>9, SameCleared, QuietStep DEF vars
<1>10. QED
  BY <1>1, <1>2, <1>3, <1>4, <1>5, <1>6, <1>7, <1>8, <1>9 DEF Next

(* The pipeline keeps its promise about the status column: what it dismisses
   an evaluation has cleared before, and it never files a SAR. *)
THEOREM Refinement == Spec => ImplementsLifecycle
<1>1. Spec => Lifecycle!Spec
  BY LifecycleInit, LifecycleStep, InvariantHolds, PTL DEF Spec, Lifecycle!Spec
<1>2. QED
  BY <1>1 DEF ImplementsLifecycle

-----------------------------------------------------------------------------
LEMMA DecidedStep ==
    ASSUME IInv, [Next]_vars, NEW w \in Workers,
           pc[w] \in {"apply", "force"}, pc'[w] \notin {pc[w], "idle"},
           run[w].loaded \notin ActionableStates,
           status'[run[w].alert] # status[run[w].alert]
    PROVE  status'[run[w].alert] = "escalated"
<1>0. TypeOK /\ RunInv(w) /\ run[w].alert \in Alerts /\ pc[w] # "session"
  BY DEF IInv, TypeOK, RunRecords
<1>1. CASE ApplyStatus(w)
  <2>1. run[w].decision.current_status = run[w].loaded
    BY <1>0, <1>1 DEF ApplyStatus, RunInv, DecisionInv
  <2>2. Verdict(run[w].decision) = "block"
    BY <2>1, InactionableIsBlocked
  <2>3. run[w].final = "escalated"
    BY <1>0, <1>1, <2>2 DEF ApplyStatus, RunInv, VerdictInv, ResolveFinalStatus
  <2>4. QED
    BY <1>0, <1>1, <2>3 DEF ApplyStatus, SaveAlert, TypeOK
<1>2. CASE ForceEscalate(w)
  BY <1>0, <1>2 DEF ForceEscalate, SaveAlert, TypeOK
<1>3. CASE ~ApplyStatus(w) /\ ~ForceEscalate(w)
  <2>1. ASSUME NEW v \in Workers,
               \/ \E a \in Alerts : Start(v, a)
               \/ \E t \in Tools : DispatchTool(v, t)
               \/ Decide(v) \/ GiveUp(v) \/ EvaluateAll(v) \/ WriteAudit(v) \/ Crash(v)
        PROVE  UNCHANGED status
    BY <2>1 DEF Start, DispatchTool, Decide, GiveUp, EvaluateAll, WriteAudit, Completed, Crash
  <2>2. ASSUME NEW v \in Workers \ {w}, ApplyStatus(v) \/ ForceEscalate(v)
        PROVE  pc'[w] = pc[w]
    BY <1>0, <2>2 DEF ApplyStatus, ForceEscalate, Goto, TypeOK
  <2>3. ASSUME NEW a \in Alerts, HumanReview(a) PROVE pc'[w] = pc[w]
    BY <2>3 DEF HumanReview
  <2>4. QED
    BY <1>3, <2>1, <2>2, <2>3 DEF Next, vars
<1>4. QED
  BY <1>1, <1>2, <1>3

(* A run that starts on an alert already decided never changes its status to
   anything but escalated. *)
THEOREM DecidedOnlyEscalate == Spec => DecidedAlertsOnlyEscalate
<1>1. IInv /\ [Next]_vars =>
        [\A w \in Workers : LET a == run[w].alert IN
           ( /\ pc[w] \in {"apply", "force"} /\ pc'[w] \notin {pc[w], "idle"}
             /\ run[w].loaded \notin ActionableStates
             /\ status'[a] # status[a] )
           => status'[a] = "escalated"]_vars
  BY DecidedStep
<1>2. QED
  BY <1>1, InvariantHolds, PTL DEF Spec, DecidedAlertsOnlyEscalate
=============================================================================
