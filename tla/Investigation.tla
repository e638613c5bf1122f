----------------------------- MODULE Investigation -----------------------------
(***************************************************************************)
(* investigate_alert: one agent-driven investigation of one alert, by any  *)
(* number of workers at once (scripts/eval_agent.py, several invocations   *)
(* of scripts/investigate_one.py), sharing the alerts and audit_log tables.*)
(*                                                                         *)
(* Every action is the code between two commits.  The alert is read when a *)
(* run starts and never again (sessions keep their objects after a commit),*)
(* so everything a run decides, it decides on the status it loaded then.   *)
(* The reasoning loop is here what its caller sees of it: tool calls, each *)
(* committing an audit row, and one final message.  ReActSession models    *)
(* the loop itself.                                                        *)
(*                                                                         *)
(* Bounds: MaxRuns investigations are started and MaxReviews human         *)
(* decisions recorded; a run makes at most MaxCalls tool calls.            *)
(***************************************************************************)
EXTENDS Guardrails, Sequences

CONSTANTS
    Workers,        \* processes that call investigate_alert
    Alerts,         \* rows of the alerts table
    Tools,          \* names in TOOL_REGISTRY
    Proposals,      \* what the model may answer, besides unusable output
    Severity,       \* the severity column, which no decision looks at
    Rulings,        \* the statuses people record
    MaxRuns, MaxCalls, MaxReviews

ASSUME ProposalsAssumption ==
    Proposals \subseteq
        [action : AgentActions, severity : 1..5, narrative : Narratives]

ASSUME AlertsAssumption == Alerts # {}

ASSUME RulingsAssumption == Rulings \subseteq AlertStatus

ASSUME SeverityAssumption == Severity \in [Alerts -> 1..5]

ASSUME BoundsAssumption ==
    /\ MaxRuns \in Nat /\ MaxCalls \in Nat /\ MaxReviews \in Nat

VARIABLES
    status,     \* alerts.status
    narrative,  \* alerts.narrative: who wrote it, and its features
    trail,      \* the audit_log rows of every alert, in audit_id order
    pc,         \* where every worker is in investigate_alert
    run,        \* the local variables of every worker
    runs,       \* how many investigations have been started
    reviews     \* how many decisions people have recorded

vars == <<status, narrative, trail, pc, run, runs, reviews>>

-----------------------------------------------------------------------------
(* Audit rows.  The number of the run is a ghost: the table does not keep it. *)
ToolRows == [kind : {"tool_call"}, run : Nat, tool : Tools]
EvaluationRows ==
    [kind : {"guardrail_evaluated"}, run : Nat,
     decision : Decisions(Tools), verdict : Verdicts]
CompletionRows ==
    [kind : {"investigation_completed"}, run : Nat, applied : AlertStatus,
     action : AgentActions \cup {"none"}, verdict : Verdicts \cup {"none"}]
Rows == ToolRows \cup EvaluationRows \cup CompletionRows

Stages == {"idle", "session", "evaluate", "apply", "force", "audit", "audit_forced"}

NoDecision ==
    [current_status |-> "open", action |-> "escalate", severity |-> 1,
     narrative |-> {}, tools |-> {}]

(* The local variables of a run.  loaded is the alert object's status as read,
   tools the names in the session's ToolCallRecords, calls how many there are.
   NoRun is the value outside a run. *)
RunRecords ==
    [id : Nat, alert : Alerts, loaded : AlertStatus, tools : SUBSET Tools, calls : Nat,
     decision : Decisions(Tools), verdict : Verdicts, final : AlertStatus]

NoRun ==
    [id |-> 0, alert |-> CHOOSE a \in Alerts : TRUE, loaded |-> "open", tools |-> {},
     calls |-> 0, decision |-> NoDecision, verdict |-> "pass", final |-> "open"]

TypeOK ==
    /\ status \in [Alerts -> AlertStatus]
    /\ narrative \in [Alerts -> [by : {"rule", "agent", "fallback"}, text : Narratives]]
    /\ trail \in [Alerts -> Seq(Rows)]
    /\ pc \in [Workers -> Stages]
    /\ run \in [Workers -> RunRecords]
    /\ runs \in Nat
    /\ reviews \in Nat

Init ==
    /\ status = [a \in Alerts |-> "open"]
    /\ narrative = [a \in Alerts |-> [by |-> "rule", text |-> {"words"}]]
    /\ trail = [a \in Alerts |-> <<>>]
    /\ pc = [w \in Workers |-> "idle"]
    /\ run = [w \in Workers |-> NoRun]
    /\ runs = 0
    /\ reviews = 0

Log(a, row) == trail' = [trail EXCEPT ![a] = Append(@, row)]
Goto(w, stage) == pc' = [pc EXCEPT ![w] = stage]

(* The call is over, and its local variables with it. *)
Return(w) == Goto(w, "idle") /\ run' = [run EXCEPT ![w] = NoRun]

-----------------------------------------------------------------------------
(* SELECT the alert, its account and its transaction; pseudonymise both
   references; snapshot the status; open the session.  An alert id with no
   row returns a sentinel and changes nothing. *)
Start(w, a) ==
    /\ pc[w] = "idle"
    /\ runs < MaxRuns
    /\ runs' = runs + 1
    /\ run' = [run EXCEPT ![w] =
                 [id |-> runs + 1, alert |-> a, loaded |-> status[a], tools |-> {},
                  calls |-> 0, decision |-> NoDecision, verdict |-> "pass",
                  final |-> status[a]]]
    /\ Goto(w, "session")
    /\ UNCHANGED <<status, narrative, trail, reviews>>

(* A tool call is dispatched: executed, audited and recorded, whether its
   result is ok or an error.  (claude_client, the provider in use, only hands
   over arguments that are JSON; ReActSession has the ones that are not.) *)
DispatchTool(w, t) ==
    /\ pc[w] = "session"
    /\ run[w].calls < MaxCalls
    /\ run' = [run EXCEPT ![w].tools = @ \cup {t}, ![w].calls = @ + 1]
    /\ Log(run[w].alert, [kind |-> "tool_call", run |-> run[w].id, tool |-> t])
    /\ UNCHANGED <<status, narrative, pc, runs, reviews>>

(* The loop ended with a message build_agent_decision accepts ... *)
Decide(w) ==
    /\ pc[w] = "session"
    /\ \E p \in Proposals :
         run' = [run EXCEPT ![w].decision =
                   [current_status |-> run[w].loaded, action |-> p.action,
                    severity |-> p.severity, narrative |-> p.narrative,
                    tools |-> run[w].tools]]
    /\ Goto(w, "evaluate")
    /\ UNCHANGED <<status, narrative, trail, runs, reviews>>

(* ... or with none: the iteration cap, or output that does not parse. *)
GiveUp(w) ==
    /\ pc[w] = "session"
    /\ Goto(w, "force")
    /\ UNCHANGED <<status, narrative, trail, run, runs, reviews>>

(* evaluate_all: every guardrail, one audit row, committed. *)
EvaluateAll(w) ==
    /\ pc[w] = "evaluate"
    /\ LET d == run[w].decision
       IN  /\ run' = [run EXCEPT ![w].verdict = Verdict(d),
                                 ![w].final = ResolveFinalStatus(Verdict(d), d)]
           /\ Log(run[w].alert, [kind |-> "guardrail_evaluated", run |-> run[w].id,
                                 decision |-> d, verdict |-> Verdict(d)])
    /\ Goto(w, "apply")
    /\ UNCHANGED <<status, narrative, runs, reviews>>

(* _apply_status flushes only what changed: a status equal to the one the
   alert object was loaded with is not part of the UPDATE.  (The narrative is
   new text.  A token collision inside a tool would roll the session back and
   make it forget what it loaded; at 2^-32 a token that is left out.) *)
SaveAlert(w, new, text) ==
    /\ status' = IF new = run[w].loaded
                   THEN status
                   ELSE [status EXCEPT ![run[w].alert] = new]
    /\ narrative' = [narrative EXCEPT ![run[w].alert] = text]

ApplyStatus(w) ==
    /\ pc[w] = "apply"
    /\ SaveAlert(w, run[w].final, [by |-> "agent", text |-> run[w].decision.narrative])
    /\ Goto(w, "audit")
    /\ UNCHANGED <<trail, run, runs, reviews>>

(* _apply_forced_escalate: the same save, with no guardrail evaluated. *)
ForceEscalate(w) ==
    /\ pc[w] = "force"
    /\ SaveAlert(w, "escalated", [by |-> "fallback", text |-> {"words"}])
    /\ Goto(w, "audit_forced")
    /\ UNCHANGED <<trail, run, runs, reviews>>

Completed(w, applied, action, verdict) ==
    /\ Log(run[w].alert, [kind |-> "investigation_completed", run |-> run[w].id,
                          applied |-> applied, action |-> action, verdict |-> verdict])
    /\ Return(w)
    /\ UNCHANGED <<status, narrative, runs, reviews>>

(* Variant: the row reports what was proposed, not what was applied. *)
WriteAuditOfProposal(w) ==
    \/ /\ pc[w] = "audit"
       /\ Completed(w, ActionToStatus[run[w].decision.action], run[w].decision.action,
                    run[w].verdict)
    \/ /\ pc[w] = "audit_forced"
       /\ Completed(w, "escalated", "none", "none")

(* Variant: the forced path never gets to its audit row. *)
WriteAuditOfDecision(w) ==
    /\ pc[w] = "audit"
    /\ Completed(w, run[w].final, run[w].decision.action, run[w].verdict)

(* _write_investigation_audit at the end of either path. *)
WriteAudit(w) ==
    \/ /\ pc[w] = "audit"
       /\ Completed(w, run[w].final, run[w].decision.action, run[w].verdict)
    \/ /\ pc[w] = "audit_forced"
       /\ Completed(w, "escalated", "none", "none")

(* The process dies, or an exception nobody catches (a provider error, five
   token collisions, a lost connection) leaves investigate_alert: what was
   committed stays, the rest is gone. *)
Crash(w) ==
    /\ pc[w] # "idle"
    /\ Return(w)
    /\ UNCHANGED <<status, narrative, trail, runs, reviews>>

(* External: a person records a decision on an alert. *)
HumanReview(a) ==
    /\ reviews < MaxReviews
    /\ reviews' = reviews + 1
    /\ \E s \in Rulings \ {status[a]} : status' = [status EXCEPT ![a] = s]
    /\ UNCHANGED <<narrative, trail, pc, run, runs>>

-----------------------------------------------------------------------------
Conclude(w) == GiveUp(w) \/ Decide(w)
Finish(w) == WriteAudit(w) \/ ApplyStatus(w) \/ ForceEscalate(w) \/ EvaluateAll(w)

Next ==
    \/ \E w \in Workers :
         \/ \E a \in Alerts : Start(w, a)
         \/ \E t \in Tools : DispatchTool(w, t)
         \/ Decide(w)
         \/ GiveUp(w)
         \/ EvaluateAll(w)
         \/ ApplyStatus(w)
         \/ ForceEscalate(w)
         \/ WriteAudit(w)
         \/ Crash(w)
    \/ \E a \in Alerts : HumanReview(a)

Spec == Init /\ [][Next]_vars

(* A worker that has started keeps going: the loop is bounded by
   MAX_ITERATIONS and what follows it is straight-line code. *)
FairSpec == Spec /\ \A w \in Workers : WF_vars(Conclude(w) \/ Finish(w))

-----------------------------------------------------------------------------
IsEvaluation(row) == row.kind = "guardrail_evaluated"
IsCompletion(row) == row.kind = "investigation_completed"

(* An evaluation that lets a dismissal through, and all of those, by alert. *)
IsClearance(row) ==
    IsEvaluation(row) /\ row.verdict = "pass" /\ row.decision.action \in DismissalActions

ClearedDecisions ==
    UNION {{<<a, trail[a][i].decision>> :
              i \in {j \in DOMAIN trail[a] : IsClearance(trail[a][j])}} : a \in Alerts}

Lifecycle == INSTANCE AlertLifecycle WITH cleared <- ClearedDecisions

(* Whatever the model answers and however runs, crashes and people interleave,
   the pipeline changes a status only as AlertLifecycle allows: a dismissal
   needs an evaluation of that alert, already committed to the audit log, that
   passed every policy, and a SAR is never filed by the pipeline. *)
ImplementsLifecycle == Lifecycle!Spec

(* The audit log explains every completion row: either no decision was usable
   and the alert was escalated, or an earlier row of the same run holds the
   evaluation whose verdict and action lead to the status reported. *)
CompletionsExplained ==
    \A a \in Alerts : \A i \in DOMAIN trail[a] :
        LET row == trail[a][i] IN
        IsCompletion(row) =>
            \/ row.verdict = "none" /\ row.action = "none" /\ row.applied = "escalated"
            \/ \E j \in 1..(i - 1) :
                  /\ IsEvaluation(trail[a][j])
                  /\ trail[a][j].run = row.run
                  /\ trail[a][j].verdict = row.verdict
                  /\ trail[a][j].decision.action = row.action
                  /\ row.applied = ResolveFinalStatus(row.verdict, trail[a][j].decision)

(* The evidence trail is real: no evaluation passes unless the log already
   holds a tool call of the same run. *)
EvidenceBeforeClearance ==
    \A a \in Alerts : \A i \in DOMAIN trail[a] :
        IsEvaluation(trail[a][i]) /\ trail[a][i].verdict = "pass" =>
            \E j \in 1..(i - 1) :
                trail[a][j].kind = "tool_call" /\ trail[a][j].run = trail[a][i].run

(* A run that starts on an alert already decided can do no more than escalate
   it, whatever it proposes and whatever happens to the alert meanwhile. *)
DecidedAlertsOnlyEscalate ==
    [][\A w \in Workers : LET a == run[w].alert IN
         ( /\ pc[w] \in {"apply", "force"} /\ pc'[w] \notin {pc[w], "idle"}
           /\ run[w].loaded \notin ActionableStates
           /\ status'[a] # status[a] )
         => status'[a] = "escalated"]_vars

(* No run hangs: every worker that starts an investigation leaves it. *)
RunsConclude == \A w \in Workers : pc[w] # "idle" ~> pc[w] = "idle"

-----------------------------------------------------------------------------
(* The inductive strengthening of the invariants above: what the local
   variables of a run and the rows it has committed have to do with each
   other at every stage. *)
Called(a, id) ==
    \E j \in DOMAIN trail[a] : trail[a][j].kind = "tool_call" /\ trail[a][j].run = id

Evaluated(a, id, d, v) ==
    \E j \in DOMAIN trail[a] :
        /\ IsEvaluation(trail[a][j]) /\ trail[a][j].run = id
        /\ trail[a][j].decision = d /\ trail[a][j].verdict = v

SessionInv(w) ==
    pc[w] = "session" /\ run[w].tools # {} => Called(run[w].alert, run[w].id)

DecisionInv(w) ==
    pc[w] \in {"evaluate", "apply", "audit"} =>
        run[w].decision.current_status = run[w].loaded

EvidenceInv(w) ==
    pc[w] = "evaluate" /\ run[w].decision.tools # {} => Called(run[w].alert, run[w].id)

VerdictInv(w) ==
    pc[w] \in {"apply", "audit"} =>
        /\ run[w].verdict = Verdict(run[w].decision)
        /\ run[w].final = ResolveFinalStatus(run[w].verdict, run[w].decision)
        /\ Evaluated(run[w].alert, run[w].id, run[w].decision, run[w].verdict)

LogInv ==
    \A a \in Alerts : \A i \in DOMAIN trail[a] :
        IsEvaluation(trail[a][i]) => trail[a][i].verdict = Verdict(trail[a][i].decision)

RunInv(w) == SessionInv(w) /\ DecisionInv(w) /\ EvidenceInv(w) /\ VerdictInv(w)

IInv ==
    /\ TypeOK
    /\ LogInv
    /\ CompletionsExplained
    /\ EvidenceBeforeClearance
    /\ \A w \in Workers : RunInv(w)

-----------------------------------------------------------------------------
(* What the documents say and the code does not do: each is refuted by a run. *)

(* README.md: "The agent is never permitted to autonomously close a
   high-severity alert".  The severity the guardrails test is the one the
   model's answer claims, not the alert's. *)
HighSeverityStaysOpen ==
    \A a \in Alerts :
        status[a] \in Closed /\ Severity[a] >= 4 => reviews > 0

(* LifecycleStateGuardrail: "Agent can only act on alerts in 'open' or
   'under_review'", lest it "reopen a filed SAR".  A blocked decision is applied
   as an escalation all the same, and so is a run that gave up. *)
DecidedAlertsStay ==
    [][reviews' = reviews =>
         \A a \in Alerts : status[a] \in Closed => status'[a] = status[a]]_vars

(* InvestigationOutcome.applied_status: "what we actually set in DB".  The
   status is left out of the UPDATE when it equals the one loaded, so a change
   made meanwhile survives under the run's narrative. *)
AppliedStatusIsSet ==
    [][\A w \in Workers :
         pc[w] = "apply" /\ pc'[w] = "audit" => status'[run[w].alert] = run[w].final]_vars

(* _apply_status: the audit row may lag by one commit "because the guardrail
   evaluation already wrote its own audit row before we got here".  On the
   forced path nothing did, so a crash after the commit leaves no row at all. *)
ChangesAreLogged ==
    \A a \in Alerts :
        narrative[a].by # "rule" /\ (\A w \in Workers : pc[w] = "idle") =>
            \E i \in DOMAIN trail[a] : IsEvaluation(trail[a][i]) \/ IsCompletion(trail[a][i])
=============================================================================
