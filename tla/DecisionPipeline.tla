--------------------------- MODULE DecisionPipeline ---------------------------
(***************************************************************************)
(* What investigate_alert does with the end of a session: parse the final  *)
(* message, run every registered guardrail over the decision, write the    *)
(* evaluation to the audit log and map the aggregate verdict to a status.  *)
(* evaluate_all is a loop over REGISTRY and is modelled as one; CaseFile   *)
(* and Guardrails hold the functions it calls.                             *)
(***************************************************************************)
EXTENDS CaseFile, Sequences

CONSTANTS
    Messages,   \* final messages to be tried
    Records,    \* names in the ToolCallRecords to be tried, as sequences
    REGISTRY    \* guardrail codes in the order of their registration

(* register() refuses a second guardrail with the same code. *)
ASSUME RegistryAssumption ==
    /\ REGISTRY \in Seq(GuardrailCodes)
    /\ \A code \in GuardrailCodes : \E i \in DOMAIN REGISTRY : REGISTRY[i] = code
    /\ \A i, j \in DOMAIN REGISTRY : REGISTRY[i] = REGISTRY[j] => i = j

(* A strategy finds at most one object; a narrative that is a text has the features
   of one. *)
ASSUME MessagesAssumption ==
    \A m \in Messages :
        /\ m = <<>> \/ DOMAIN m = 1..3
        /\ \A i \in DOMAIN m : \A p, q \in m[i] : p = q
        /\ \A i \in DOMAIN m : \A p \in m[i] :
             "narrative" \in DOMAIN p =>
               p.narrative \in Narratives \/ "not_text" \in p.narrative

ASSUME RecordsAssumption == Records \subseteq Seq(STRING)

VARIABLES
    input,      \* the message, the records and the status loaded by the run
    stage,      \* parse, evaluate, apply, done
    decision,   \* {} or the decision parsed
    results,    \* the answers so far, in the order given
    aggregate,  \* the verdict so far
    logged,     \* rows of guardrail_evaluated written
    final       \* the status to be applied, once known

vars == <<input, stage, decision, results, aggregate, logged, final>>

Inputs == [message : Messages, records : Records, loaded : AlertStatus]

Init ==
    /\ input \in Inputs
    /\ stage = "parse"
    /\ decision = {}
    /\ results = <<>>
    /\ aggregate = "pass"
    /\ logged = {}
    /\ final = "none"

Parse ==
    /\ stage = "parse"
    /\ decision' = BuildAgentDecision(input.message, input.records, input.loaded)
    /\ IF decision' = {}
         THEN stage' = "done" /\ final' = "escalated"
         ELSE stage' = "evaluate" /\ UNCHANGED final
    /\ UNCHANGED <<input, results, aggregate, logged>>

EvaluateNext ==
    /\ stage = "evaluate"
    /\ Len(results) < Len(REGISTRY)
    /\ \E d \in decision :
         LET code == REGISTRY[Len(results) + 1]
             answer == Answers(d)[code]
         IN  /\ results' = Append(results, [code |-> code, decision |-> answer])
             /\ aggregate' = Worse(aggregate, answer)
    /\ UNCHANGED <<input, stage, decision, logged, final>>

(* Variant: the loop stops at the first block. *)
AuditAtFirstBlock ==
    /\ stage = "evaluate"
    /\ Len(results) = Len(REGISTRY) \/ aggregate = "block"
    /\ logged' = logged \cup {[aggregate |-> aggregate, guardrails |-> results]}
    /\ stage' = "apply"
    /\ UNCHANGED <<input, decision, results, aggregate, final>>

Audit ==
    /\ stage = "evaluate"
    /\ Len(results) = Len(REGISTRY)
    /\ logged' = logged \cup {[aggregate |-> aggregate, guardrails |-> results]}
    /\ stage' = "apply"
    /\ UNCHANGED <<input, decision, results, aggregate, final>>

Resolve ==
    /\ stage = "apply"
    /\ \E d \in decision : final' = ResolveFinalStatus(aggregate, d)
    /\ stage' = "done"
    /\ UNCHANGED <<input, decision, results, aggregate, logged>>

Next == Parse \/ EvaluateNext \/ Audit \/ Resolve

Spec == Init /\ [][Next]_vars

-----------------------------------------------------------------------------
TypeOK ==
    /\ input \in Inputs
    /\ stage \in {"parse", "evaluate", "apply", "done"}
    /\ \A d \in decision : d.action \in AgentActions /\ d.severity \in 1..5
    /\ results \in Seq([code : GuardrailCodes, decision : Verdicts])
    /\ aggregate \in Verdicts
    /\ \A row \in logged : row.aggregate \in Verdicts
    /\ final \in AlertStatus \cup {"none"}

(* Every evaluation in the audit log holds the answer of every guardrail, the
   ones that ran after a block included, and the strictest as aggregate. *)
EvaluationsAreComplete ==
    \A row \in logged, d \in decision :
        /\ row.aggregate = Verdict(d)
        /\ \A code \in GuardrailCodes :
             \E i \in DOMAIN row.guardrails :
                row.guardrails[i] = [code |-> code, decision |-> Answers(d)[code]]

(* The policy matrix, read off the message itself: what each kind of final
   message, evidence and loaded status comes to. *)
Objectionable(p) ==
    \/ input.records = <<>>
    \/ input.loaded \notin {"open", "under_review"}
    \/ p.narrative # {"words"}
    \/ p.action \in {"close_false_positive", "close_no_action"} /\ p.severity > 3

NeedsSignOff(p) ==
    \/ p.action = "close_sar_filed"
    \/ p.action \in {"close_false_positive", "close_no_action"} /\ p.severity = 3

FirstObject ==
    LET message == input.message
        first == {i \in DOMAIN message : \A j \in DOMAIN message : j < i => message[j] = {}}
    IN  UNION {message[i] : i \in first}

(* Failures of any kind end as an escalation, a doubt as a review, and nothing
   else can: the final status is the one the policy matrix gives. *)
FinalStatusFollowsPolicy ==
    stage = "done" =>
        LET usable == {p \in FirstObject : UsablePayload(p)} IN
        /\ usable = {} => final = "escalated"
        /\ \A p \in usable :
             final = CASE Objectionable(p) -> "escalated"
                       [] ~Objectionable(p) /\ NeedsSignOff(p) -> "under_review"
                       [] OTHER -> ActionToStatus[p.action]

(* The loop's invariant: what EvaluationsAreComplete rests on. *)
Strictest(v, answers) ==
    /\ v = "pass" \/ v \in answers
    /\ \A a \in answers : Precedence[v] >= Precedence[a]

AnswersSoFar(d) == {Answers(d)[REGISTRY[i]] : i \in DOMAIN results}

LoopInv ==
    /\ results \in Seq([code : GuardrailCodes, decision : Verdicts])
    /\ aggregate \in Verdicts
    /\ \A d, e \in decision : d = e
    /\ Len(results) <= Len(REGISTRY)
    /\ \A d \in decision :
         /\ \A i \in DOMAIN results :
              results[i] = [code |-> REGISTRY[i], decision |-> Answers(d)[REGISTRY[i]]]
         /\ Strictest(aggregate, AnswersSoFar(d))
    /\ stage = "parse" => results = <<>> /\ aggregate = "pass"
=============================================================================
