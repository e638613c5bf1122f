------------------------ MODULE DecisionPipelineProofs ------------------------
(* evaluate_all is complete and its verdict the strictest answer, whatever the
   messages and in whatever order the guardrails are registered. *)
EXTENDS DecisionPipeline, CommonLemmas, SequenceTheorems

(* A message holds at most one decision. *)
LEMMA ParseYieldsOne ==
    ASSUME NEW m \in Messages, NEW records, NEW s,
           NEW d \in BuildAgentDecision(m, records, s),
           NEW e \in BuildAgentDecision(m, records, s)
    PROVE  d = e
<1> DEFINE hits == {i \in DOMAIN m : m[i] # {}}
<1>1. ASSUME NEW p \in ExtractJsonObject(m), NEW q \in ExtractJsonObject(m) PROVE p = q
  <2>1. hits # {}
    BY <1>1 DEF ExtractJsonObject
  <2>2. hits \subseteq {1, 2, 3}
    <3>1. m = <<>> \/ DOMAIN m = 1..3
      BY MessagesAssumption
    <3>2. DOMAIN m \subseteq {1, 2, 3}
      BY <3>1
    <3>3. QED
      BY <3>2
  <2>3. \E i \in hits : \A j \in hits : i <= j
    <3>1. CASE 1 \in hits
      BY <2>2, <3>1
    <3>2. CASE 1 \notin hits /\ 2 \in hits
      BY <2>2, <3>2
    <3>3. CASE 1 \notin hits /\ 2 \notin hits
      BY <2>1, <2>2, <3>3
    <3>4. QED
      BY <3>1, <3>2, <3>3
  <2> DEFINE first == CHOOSE i \in hits : \A j \in hits : i <= j
  <2>4. first \in hits
    BY <2>3
  <2>5. ExtractJsonObject(m) = m[first]
    BY <2>1 DEF ExtractJsonObject
  <2>6. QED
    BY <1>1, <2>4, <2>5, MessagesAssumption
<1>2. QED
  BY <1>1 DEF BuildAgentDecision

LEMMA WorseIsStrictest ==
    ASSUME NEW v \in Verdicts, NEW answer \in Verdicts, NEW S \in SUBSET Verdicts,
           Strictest(v, S)
    PROVE  /\ Worse(v, answer) \in Verdicts
           /\ Strictest(Worse(v, answer), S \cup {answer})
BY DEF Worse, Strictest, Verdicts, Precedence

LEMMA InitLoop == Init => LoopInv
<1> SUFFICES ASSUME Init PROVE LoopInv
  OBVIOUS
<1>1. REGISTRY \in Seq(GuardrailCodes)
  BY RegistryAssumption
<1>2. /\ results = <<>> /\ results \in Seq([code : GuardrailCodes, decision : Verdicts])
      /\ Len(results) = 0 /\ DOMAIN results = {} /\ Len(REGISTRY) \in Nat
  BY <1>1 DEF Init
<1>3. QED
  BY <1>2 DEF Init, LoopInv, Verdicts

LEMMA LoopStep == input \in Inputs /\ LoopInv /\ [Next]_vars => LoopInv'
<1> SUFFICES ASSUME input \in Inputs, LoopInv, [Next]_vars PROVE LoopInv'
  OBVIOUS
<1>0. REGISTRY \in Seq(GuardrailCodes) /\ Len(REGISTRY) \in Nat
  BY RegistryAssumption
<1>1. CASE Parse
  <2>1. results' = <<>> /\ aggregate' = "pass" /\ stage' # "parse"
    BY <1>1 DEF Parse, LoopInv
  <2>2. DOMAIN results' = {} /\ Len(results') = 0
    BY <2>1
  <2>3. \A d, e \in decision' : d = e
    BY <1>1, ParseYieldsOne DEF Parse, Inputs
  <2>4. \A d \in decision' : Strictest(aggregate', AnswersSoFar(d)')
    BY <2>1, <2>2 DEF Strictest, AnswersSoFar
  <2>5. results' \in Seq([code : GuardrailCodes, decision : Verdicts])
    BY <2>1
  <2>6. QED
    BY <1>0, <2>1, <2>2, <2>3, <2>4, <2>5 DEF LoopInv, Verdicts
<1>2. CASE EvaluateNext
  <2>1. PICK d \in decision :
          LET code == REGISTRY[Len(results) + 1]
              answer == Answers(d)[code]
          IN  /\ results' = Append(results, [code |-> code, decision |-> answer])
              /\ aggregate' = Worse(aggregate, answer)
    BY <1>2 DEF EvaluateNext
  <2> DEFINE n == Len(results) + 1
             code == REGISTRY[n]
             answer == Answers(d)[code]
  <2>2. /\ results \in Seq([code : GuardrailCodes, decision : Verdicts])
        /\ Len(results) \in Nat /\ DOMAIN results = 1..Len(results)
        /\ Len(results) < Len(REGISTRY)
    BY <1>2 DEF LoopInv, EvaluateNext
  <2>3. code \in GuardrailCodes
    BY <1>0, <2>2
  <2>4. answer \in Verdicts
    BY <2>3, AnswersType
  <2>5. /\ results' \in Seq([code : GuardrailCodes, decision : Verdicts])
        /\ Len(results') = n /\ DOMAIN results' = 1..n
        /\ results'[n] = [code |-> code, decision |-> answer]
        /\ \A i \in DOMAIN results : results'[i] = results[i]
    BY <2>1, <2>2, <2>3, <2>4
  <2>6. decision' = decision /\ stage' = stage /\ stage = "evaluate"
    BY <1>2 DEF EvaluateNext
  <2>7. \A e \in decision : e = d
    BY DEF LoopInv
  <2>8. \A i \in DOMAIN results' :
          results'[i] = [code |-> REGISTRY[i], decision |-> Answers(d)[REGISTRY[i]]]
    <3> SUFFICES ASSUME NEW i \in DOMAIN results'
                 PROVE  results'[i] =
                          [code |-> REGISTRY[i], decision |-> Answers(d)[REGISTRY[i]]]
      OBVIOUS
    <3>1. CASE i = n
      BY <2>5, <3>1
    <3>2. CASE i \in DOMAIN results
      BY <2>5, <3>2 DEF LoopInv
    <3>3. QED
      BY <2>2, <2>5, <3>1, <3>2
  <2>9. AnswersSoFar(d)' = AnswersSoFar(d) \cup {answer}
    BY <2>2, <2>5 DEF AnswersSoFar
  <2>10. aggregate' \in Verdicts /\ Strictest(aggregate', AnswersSoFar(d)')
    <3>1. AnswersSoFar(d) \in SUBSET Verdicts
      <4> SUFFICES ASSUME NEW i \in DOMAIN results PROVE Answers(d)[REGISTRY[i]] \in Verdicts
        BY DEF AnswersSoFar
      <4>1. REGISTRY[i] \in GuardrailCodes
        BY <1>0, <2>2
      <4>2. QED
        BY <4>1, AnswersType
    <3>2. aggregate \in Verdicts /\ Strictest(aggregate, AnswersSoFar(d))
      BY DEF LoopInv
    <3>3. aggregate' = Worse(aggregate, answer)
      BY <2>1
    <3>4. Worse(aggregate, answer) \in Verdicts
          /\ Strictest(Worse(aggregate, answer), AnswersSoFar(d) \cup {answer})
      BY <2>4, <3>1, <3>2, WorseIsStrictest
    <3>5. QED
      BY <2>9, <3>3, <3>4
  <2>11. \A e \in decision' : Strictest(aggregate', AnswersSoFar(e)')
    BY <2>6, <2>7, <2>10
  <2>12. QED
    BY <2>2, <2>5, <2>6, <2>7, <2>8, <2>10, <2>11 DEF LoopInv
<1>3. CASE Audit \/ Resolve \/ UNCHANGED vars
  <2>1. results' = results /\ aggregate' = aggregate /\ decision' = decision
        /\ (stage' = "parse" => stage = "parse")
    BY <1>3 DEF Audit, Resolve, vars
  <2>2. QED
    BY <2>1 DEF LoopInv, AnswersSoFar
<1>4. QED
  BY <1>1, <1>2, <1>3 DEF Next

(* At the end of the loop the aggregate is the verdict and every answer is in. *)
LEMMA LoopEnd ==
    ASSUME LoopInv, Len(results) = Len(REGISTRY), NEW d \in decision
    PROVE  /\ aggregate = Verdict(d)
           /\ \A code \in GuardrailCodes : \E i \in DOMAIN results :
                results[i] = [code |-> code, decision |-> Answers(d)[code]]
<1>1. DOMAIN results = DOMAIN REGISTRY
  BY RegistryAssumption DEF LoopInv
<1>2. \A code \in GuardrailCodes : \E i \in DOMAIN results :
        results[i] = [code |-> code, decision |-> Answers(d)[code]]
  BY <1>1, RegistryAssumption DEF LoopInv
<1>3. \A code \in GuardrailCodes : Answers(d)[code] \in AnswersSoFar(d)
  BY <1>1, RegistryAssumption DEF AnswersSoFar
<1>4. /\ Strictest(aggregate, AnswersSoFar(d)) /\ aggregate \in Verdicts
  BY DEF LoopInv
<1>5. \E code \in GuardrailCodes : Verdict(d) = Answers(d)[code]
  BY VerdictIsStrictest
<1>6. Precedence[aggregate] >= Precedence[Verdict(d)]
  BY <1>3, <1>4, <1>5 DEF Strictest
<1>7. Precedence[Verdict(d)] >= Precedence[aggregate]
  <2>1. CASE aggregate = "pass"
    BY <2>1, VerdictType DEF Verdicts, Precedence
  <2>2. CASE aggregate \in AnswersSoFar(d)
    <3>1. PICK i \in DOMAIN results : aggregate = Answers(d)[REGISTRY[i]]
      BY <2>2 DEF AnswersSoFar
    <3>2. REGISTRY[i] \in GuardrailCodes
      BY <1>1, RegistryAssumption
    <3>3. QED
      BY <3>1, <3>2, VerdictIsStrictest
  <2>3. QED
    BY <1>4, <2>1, <2>2 DEF Strictest
<1>8. aggregate = Verdict(d)
  BY <1>4, <1>6, <1>7, VerdictType DEF Verdicts, Precedence
<1>9. QED
  BY <1>2, <1>8

PipelineInv ==
    /\ input \in Inputs
    /\ LoopInv
    /\ EvaluationsAreComplete
    /\ stage = "parse" => logged = {}

LEMMA PipelineStep == PipelineInv /\ [Next]_vars => PipelineInv'
<1> SUFFICES ASSUME PipelineInv, [Next]_vars PROVE PipelineInv'
  OBVIOUS
<1>1. input' \in Inputs
  BY DEF PipelineInv, Next, Parse, EvaluateNext, Audit, Resolve, vars
<1>2. LoopInv'
  BY LoopStep DEF PipelineInv
<1>3. EvaluationsAreComplete' /\ (stage' = "parse" => logged' = {})
  <2>1. CASE Parse
    BY <2>1 DEF Parse, PipelineInv, EvaluationsAreComplete
  <2>2. CASE Audit
    <3>1. /\ logged' = logged \cup {[aggregate |-> aggregate, guardrails |-> results]}
          /\ decision' = decision /\ stage' = "apply" /\ Len(results) = Len(REGISTRY)
      BY <2>2 DEF Audit
    <3>2. \A d \in decision :
            /\ aggregate = Verdict(d)
            /\ \A code \in GuardrailCodes : \E i \in DOMAIN results :
                 results[i] = [code |-> code, decision |-> Answers(d)[code]]
      BY <3>1, LoopEnd DEF PipelineInv
    <3>3. QED
      BY <3>1, <3>2 DEF PipelineInv, EvaluationsAreComplete
  <2>3. CASE EvaluateNext \/ Resolve \/ UNCHANGED vars
    <3>1. logged' = logged /\ decision' = decision /\ (stage' = "parse" => stage = "parse")
      BY <2>3 DEF EvaluateNext, Resolve, vars
    <3>2. QED
      BY <3>1 DEF PipelineInv, EvaluationsAreComplete
  <2>4. QED
    BY <2>1, <2>2, <2>3 DEF Next
<1>4. QED
  BY <1>1, <1>2, <1>3 DEF PipelineInv

(* Every row of guardrail_evaluated holds all answers and the strictest. *)
THEOREM EvaluationsAlwaysComplete == Spec => []EvaluationsAreComplete
<1>1. Init => PipelineInv
  BY InitLoop DEF Init, PipelineInv, EvaluationsAreComplete
<1>2. PipelineInv => EvaluationsAreComplete
  BY DEF PipelineInv
<1>3. QED
  BY <1>1, <1>2, PipelineStep, PTL DEF Spec

-----------------------------------------------------------------------------
(* The policy matrix on a decision: which ones some guardrail blocks, and which of
   the others one wants reviewed. *)
Blocked(d) ==
    \/ d.tools = {}
    \/ d.current_status \notin ActionableStates
    \/ d.narrative # {"words"}
    \/ d.action \in DismissalActions /\ d.severity > 3

LEMMA VerdictOfBlocked ==
    ASSUME NEW d, d.action \in AgentActions, d.severity \in 1..5, d.narrative \in Narratives
    PROVE  Verdict(d) = "block" <=> Blocked(d)
<1>1. d.narrative = {"words"} <=>
        "words" \in d.narrative /\ "pii" \notin d.narrative /\ "artifact" \notin d.narrative
  BY DEF Narratives
<1>2. Blocked(d) <=> \E code \in GuardrailCodes : Answers(d)[code] = "block"
  BY <1>1 DEF Blocked, GuardrailCodes, Answers, PassUnless, ActionEnum, NarrativeRequired,
              EvidenceTrail, LifecycleState, HighSeverityDismissal,
              MidSeverityDismissalReview, SARFilingReview, PiiLeak, LlmArtifact
<1>3. QED BY <1>2, BlockDominates, VerdictIsStrictest

LEMMA VerdictOfUnblocked ==
    ASSUME NEW d, d.severity \in 1..5, Verdict(d) # "block"
    PROVE  Verdict(d) = "requires_review" <=>
             \/ d.action = "close_sar_filed"
             \/ d.action \in DismissalActions /\ d.severity = 3
<1>1. Verdict(d) \in {"pass", "requires_review"}
  BY VerdictType DEF Verdicts
<1>2. CASE Verdict(d) = "pass"
  BY <1>2, PassedDecision, PassedDismissal
<1>3. CASE Verdict(d) = "requires_review"
  <2>1. PICK code \in GuardrailCodes : Answers(d)[code] = "requires_review"
    BY <1>3, VerdictIsStrictest
  <2>2. MidSeverityDismissalReview(d) = "requires_review"
          \/ SARFilingReview(d) = "requires_review"
    BY <2>1 DEF GuardrailCodes, Answers, PassUnless, ActionEnum, NarrativeRequired,
                EvidenceTrail, LifecycleState, HighSeverityDismissal, PiiLeak, LlmArtifact
  <2>3. QED BY <1>3, <2>2 DEF MidSeverityDismissalReview, SARFilingReview, PassUnless
<1>4. QED BY <1>1, <1>2, <1>3

(* What is known of the decision and its verdict at each stage. *)
FinalInv ==
    /\ stage # "parse" =>
         decision = BuildAgentDecision(input.message, input.records, input.loaded)
    /\ stage = "evaluate" => decision # {}
    /\ stage = "apply" => decision # {} /\ \A d \in decision : aggregate = Verdict(d)
    /\ stage = "done" =>
         /\ decision = {} => final = "escalated"
         /\ \A d \in decision : final = ResolveFinalStatus(Verdict(d), d)

LEMMA FinalStep == PipelineInv /\ FinalInv /\ [Next]_vars => FinalInv'
<1> SUFFICES ASSUME PipelineInv, FinalInv, [Next]_vars PROVE FinalInv'
  OBVIOUS
<1>1. CASE Parse
  BY <1>1 DEF Parse, FinalInv
<1>2. CASE EvaluateNext
  BY <1>2 DEF EvaluateNext, FinalInv
<1>3. CASE Audit
  <2>1. \A d \in decision : aggregate = Verdict(d)
    BY <1>3, LoopEnd DEF Audit, PipelineInv
  <2>2. QED BY <1>3, <2>1 DEF Audit, FinalInv
<1>4. CASE Resolve
  <2>1. PICK d \in decision : final' = ResolveFinalStatus(aggregate, d)
    BY <1>4 DEF Resolve
  <2>2. \A e \in decision : e = d
    BY DEF PipelineInv, LoopInv
  <2>3. QED BY <1>4, <2>1, <2>2 DEF Resolve, FinalInv
<1>5. CASE UNCHANGED vars
  BY <1>5 DEF vars, FinalInv
<1>6. QED BY <1>1, <1>2, <1>3, <1>4, <1>5 DEF Next

(* What the strategies extract is the first object there is. *)
LEMMA FirstObjectDecides ==
    ASSUME input \in Inputs
    PROVE  FirstObject = ExtractJsonObject(input.message)
<1> DEFINE m == input.message
           hits == {i \in DOMAIN m : m[i] # {}}
           first == {i \in DOMAIN m : \A j \in DOMAIN m : j < i => m[j] = {}}
           n == CHOOSE i \in hits : \A j \in hits : i <= j
<1>1. m = <<>> \/ DOMAIN m = 1..3
  BY MessagesAssumption DEF Inputs
<1>2. hits \subseteq {1, 2, 3}
  BY <1>1
<1>3. CASE hits = {}
  <2>1. FirstObject = {} BY <1>3 DEF FirstObject
  <2>2. QED BY <1>3, <2>1 DEF ExtractJsonObject
<1>4. CASE hits # {}
  <2>1. \E i \in hits : \A j \in hits : i <= j
    <3>1. CASE 1 \in hits BY <1>2, <3>1
    <3>2. CASE 1 \notin hits /\ 2 \in hits BY <1>2, <3>2
    <3>3. CASE 1 \notin hits /\ 2 \notin hits BY <1>2, <1>4, <3>3
    <3>4. QED BY <3>1, <3>2, <3>3
  <2>2. n \in hits /\ \A j \in hits : n <= j
    BY <2>1
  <2>3. n \in first
    BY <1>1, <1>2, <2>2
  <2>4. \A i \in first : i # n => m[i] = {}
    <3> SUFFICES ASSUME NEW i \in first, i \in hits, i # n PROVE FALSE
      OBVIOUS
    <3>1. n < i BY <1>2, <2>2
    <3>2. QED BY <2>2, <3>1
  <2>5. FirstObject = UNION {m[i] : i \in first}
    BY DEF FirstObject
  <2>6. UNION {m[i] : i \in first} = m[n]
    <3> HIDE DEF n, first
    <3> QED BY <2>3, <2>4
  <2>7. ExtractJsonObject(m) = m[n]
    BY <1>4 DEF ExtractJsonObject
  <2>8. QED BY <2>5, <2>6, <2>7
<1>5. QED BY <1>3, <1>4

(* A usable payload and the decision made of it meet the same policies. *)
LEMMA DecisionOfPayload ==
    ASSUME input \in Inputs, NEW p \in FirstObject, UsablePayload(p),
           NEW d, d = [current_status |-> input.loaded, action |-> p.action,
                       severity |-> p.severity, narrative |-> p.narrative,
                       tools |-> {input.records[i] : i \in DOMAIN input.records}]
    PROVE  /\ Verdict(d) = "block" <=> Objectionable(p)
           /\ Verdict(d) # "block" => (Verdict(d) = "requires_review" <=> NeedsSignOff(p))
<1>1. p.narrative \in Narratives
  <2>1. PICK i \in DOMAIN input.message : p \in input.message[i]
    BY DEF FirstObject
  <2>2. input.message \in Messages
    BY DEF Inputs
  <2>3. QED BY <2>1, <2>2, MessagesAssumption DEF UsablePayload, RequiredKeys
<1>2. d.tools = {} <=> input.records = <<>>
  <2>1. input.records \in Seq(STRING)
    BY RecordsAssumption DEF Inputs
  <2>2. DOMAIN input.records = {} <=> input.records = <<>>
    BY <2>1
  <2>3. QED BY <2>2
<1>3. p.action \in AgentActions /\ p.severity \in 1..5
  BY DEF UsablePayload
<1>4. Verdict(d) = "block" <=> Blocked(d)
  BY <1>1, <1>3, VerdictOfBlocked
<1>5. Blocked(d) <=> Objectionable(p)
  BY <1>2 DEF Blocked, Objectionable, ActionableStates, DismissalActions
<1>6. Verdict(d) # "block" => (Verdict(d) = "requires_review" <=> NeedsSignOff(p))
  BY <1>3, VerdictOfUnblocked DEF NeedsSignOff, DismissalActions
<1>7. QED BY <1>4, <1>5, <1>6

(* FinalStatusFollowsPolicy for every message, every record list and every order of
   registration: the status is the one the policy matrix gives. *)
THEOREM FinalStatusAlwaysFollowsPolicy == Spec => []FinalStatusFollowsPolicy
<1>1. Init => PipelineInv /\ FinalInv
  BY InitLoop DEF Init, PipelineInv, FinalInv, EvaluationsAreComplete
<1>2. PipelineInv /\ FinalInv => FinalStatusFollowsPolicy
  <2> SUFFICES ASSUME PipelineInv, FinalInv, stage = "done" PROVE FinalStatusFollowsPolicy
    BY DEF FinalStatusFollowsPolicy
  <2> DEFINE usable == {p \in FirstObject : UsablePayload(p)}
             made(p) == [current_status |-> input.loaded, action |-> p.action,
                         severity |-> p.severity, narrative |-> p.narrative,
                         tools |-> {input.records[i] : i \in DOMAIN input.records}]
  <2>1. input \in Inputs
    BY DEF PipelineInv
  <2>2. decision = {made(p) : p \in usable}
    BY <2>1, FirstObjectDecides DEF FinalInv, BuildAgentDecision
  <2>3. usable = {} => final = "escalated"
    BY <2>2 DEF FinalInv
  <2>4. ASSUME NEW p \in usable
        PROVE  final = CASE Objectionable(p) -> "escalated"
                         [] ~Objectionable(p) /\ NeedsSignOff(p) -> "under_review"
                         [] OTHER -> ActionToStatus[p.action]
    <3>1. final = ResolveFinalStatus(Verdict(made(p)), made(p))
      BY <2>2, <2>4 DEF FinalInv
    <3>2. /\ Verdict(made(p)) = "block" <=> Objectionable(p)
          /\ Verdict(made(p)) # "block" =>
               (Verdict(made(p)) = "requires_review" <=> NeedsSignOff(p))
      BY <2>1, <2>4, DecisionOfPayload
    <3>3. Verdict(made(p)) \in {"pass", "requires_review", "block"}
      BY VerdictType DEF Verdicts
    <3>4. made(p).action = p.action
      OBVIOUS
    <3> HIDE DEF made
    <3>5. CASE Objectionable(p)
      BY <3>1, <3>2, <3>5 DEF ResolveFinalStatus
    <3>6. CASE ~Objectionable(p) /\ NeedsSignOff(p)
      BY <3>1, <3>2, <3>6 DEF ResolveFinalStatus
    <3>7. CASE ~Objectionable(p) /\ ~NeedsSignOff(p)
      BY <3>1, <3>2, <3>3, <3>4, <3>7 DEF ResolveFinalStatus
    <3>8. QED BY <3>5, <3>6, <3>7
  <2>5. QED BY <2>3, <2>4 DEF FinalStatusFollowsPolicy
<1>3. PipelineInv /\ FinalInv /\ [Next]_vars => PipelineInv' /\ FinalInv'
  BY PipelineStep, FinalStep
<1>4. QED BY <1>1, <1>2, <1>3, PTL DEF Spec

LEMMA TypeStep == TypeOK /\ LoopInv /\ [Next]_vars /\ LoopInv' => TypeOK'
<1> SUFFICES ASSUME TypeOK, LoopInv, [Next]_vars, LoopInv' PROVE TypeOK'
  OBVIOUS
<1>1. results' \in Seq([code : GuardrailCodes, decision : Verdicts]) /\ aggregate' \in Verdicts
  BY DEF LoopInv
<1>2. CASE Parse
  <2>1. \A d \in decision' : d.action \in AgentActions /\ d.severity \in 1..5
    BY <1>2 DEF Parse, BuildAgentDecision, UsablePayload
  <2>2. QED BY <1>1, <1>2, <2>1 DEF Parse, TypeOK, AlertStatus
<1>3. CASE EvaluateNext
  BY <1>1, <1>3 DEF EvaluateNext, TypeOK
<1>4. CASE Audit
  BY <1>1, <1>4 DEF Audit, TypeOK
<1>5. CASE Resolve
  <2>1. PICK d \in decision : final' = ResolveFinalStatus(aggregate, d)
    BY <1>5 DEF Resolve
  <2>2. d.action \in AgentActions
    BY DEF TypeOK
  <2>3. final' \in AlertStatus
    BY <2>1, <2>2 DEF ResolveFinalStatus, ActionToStatus, AgentActions, DismissalActions,
                      AlertStatus, Closed, Dismissals
  <2>4. QED BY <1>1, <1>5, <2>3 DEF Resolve, TypeOK
<1>6. CASE UNCHANGED vars
  BY <1>6 DEF vars, TypeOK
<1>7. QED BY <1>2, <1>3, <1>4, <1>5, <1>6 DEF Next

(* Type correctness: no stage leaves a verdict or a status outside the enums. *)
THEOREM TypeCorrect == Spec => []TypeOK
<1>1. Init => TypeOK /\ PipelineInv
  <2> SUFFICES ASSUME Init PROVE TypeOK /\ PipelineInv
    OBVIOUS
  <2>1. PipelineInv
    BY InitLoop DEF Init, PipelineInv, EvaluationsAreComplete
  <2>2. QED BY <2>1 DEF Init, PipelineInv, LoopInv, TypeOK
<1>2. TypeOK /\ PipelineInv /\ [Next]_vars => TypeOK' /\ PipelineInv'
  BY PipelineStep, TypeStep DEF PipelineInv
<1>3. QED BY <1>1, <1>2, PTL DEF Spec
=============================================================================
