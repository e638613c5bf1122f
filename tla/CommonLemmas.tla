---------------------------- MODULE CommonLemmas ----------------------------
(***************************************************************************)
(* What several proofs rest on: facts about the policies and their         *)
(* aggregate verdict, about sums over finite sets and about selections     *)
(* from sequences.                                                         *)
(*                                                                         *)
(* Facts about data are proved by the least counterexample: a finite set   *)
(* none of whose proper subsets is one.                                    *)
(***************************************************************************)
EXTENDS Guardrails, Selections, Functions, FiniteSetTheorems, SequenceTheorems,
        WellFoundedInduction, TLAPS

(* Every guardrail answers with a verdict. *)
LEMMA AnswersType ==
    ASSUME NEW d, NEW code \in GuardrailCodes
    PROVE  Answers(d)[code] \in Verdicts
BY DEF Answers, GuardrailCodes, Verdicts, PassUnless, ActionEnum, NarrativeRequired,
       EvidenceTrail, LifecycleState, HighSeverityDismissal,
       MidSeverityDismissalReview, SARFilingReview, PiiLeak, LlmArtifact

(* Verdict is the strictest of the answers: one guardrail gave it, and none
   gave a worse one. *)
LEMMA VerdictIsStrictest ==
    ASSUME NEW d
    PROVE  /\ \E code \in GuardrailCodes : Verdict(d) = Answers(d)[code]
           /\ \A code \in GuardrailCodes :
                Precedence[Verdict(d)] >= Precedence[Answers(d)[code]]
<1> DEFINE given == {Answers(d)[code] : code \in GuardrailCodes}
<1> DEFINE Top(v) == \A u \in given : Precedence[v] >= Precedence[u]
<1>1. given \subseteq Verdicts
  BY AnswersType
<1>2. given # {}
  BY DEF GuardrailCodes
<1>3. \E v \in given : Top(v)
  <2>1. CASE "block" \in given
    BY <1>1, <2>1 DEF Verdicts, Precedence
  <2>2. CASE "block" \notin given /\ "requires_review" \in given
    BY <1>1, <2>2 DEF Verdicts, Precedence
  <2>3. CASE given = {"pass"}
    BY <2>3 DEF Precedence
  <2>4. QED
    BY <1>1, <1>2, <2>1, <2>2, <2>3 DEF Verdicts
<1>4. Verdict(d) = CHOOSE v \in given : Top(v)
  BY DEF Verdict
<1>5. Verdict(d) \in given /\ Top(Verdict(d))
  <2> HIDE DEF given, Top
  <2> QED
    BY <1>3, <1>4
<1>6. QED
  BY <1>5

LEMMA VerdictType ==
    ASSUME NEW d
    PROVE  Verdict(d) \in Verdicts
BY VerdictIsStrictest, AnswersType

(* A decision passes only if no guardrail objects. *)
LEMMA PassMeansNoObjection ==
    ASSUME NEW d, Verdict(d) = "pass", NEW code \in GuardrailCodes
    PROVE  Answers(d)[code] = "pass"
<1>1. Precedence["pass"] >= Precedence[Answers(d)[code]]
  BY VerdictIsStrictest
<1>2. QED
  BY <1>1, AnswersType DEF Verdicts, Precedence

(* One objection of the blocking kind blocks the decision: whatever it asks for, and
   whatever the other guardrails say, the alert is escalated. *)
LEMMA BlockDominates ==
    ASSUME NEW d, NEW code \in GuardrailCodes, Answers(d)[code] = "block"
    PROVE  Verdict(d) = "block" /\ ResolveFinalStatus(Verdict(d), d) = "escalated"
<1>1. Precedence[Verdict(d)] >= Precedence["block"]
  BY VerdictIsStrictest
<1>2. Verdict(d) = "block"
  BY <1>1, VerdictType DEF Verdicts, Precedence
<1>3. QED
  BY <1>2 DEF ResolveFinalStatus

(* What a passed decision has been tested for. *)
LEMMA PassedDecision ==
    ASSUME NEW d, Verdict(d) = "pass"
    PROVE  /\ d.action \in AgentActions
           /\ d.action # "close_sar_filed"
           /\ d.tools # {}
           /\ d.current_status \in ActionableStates
           /\ "words" \in d.narrative
           /\ "pii" \notin d.narrative
           /\ "artifact" \notin d.narrative
<1>1. /\ ActionEnum(d) = "pass" /\ SARFilingReview(d) = "pass"
      /\ EvidenceTrail(d) = "pass" /\ LifecycleState(d) = "pass"
      /\ NarrativeRequired(d) = "pass" /\ PiiLeak(d) = "pass" /\ LlmArtifact(d) = "pass"
  BY PassMeansNoObjection DEF Answers, GuardrailCodes
<1>2. QED
  BY <1>1 DEF PassUnless, ActionEnum, SARFilingReview, EvidenceTrail, LifecycleState,
              NarrativeRequired, PiiLeak, LlmArtifact

(* A dismissal that passes claims a severity below the review threshold. *)
LEMMA PassedDismissal ==
    ASSUME NEW d, Verdict(d) = "pass", d.action \in DismissalActions, d.severity \in 1..5
    PROVE  d.severity <= 2
<1>1. HighSeverityDismissal(d) = "pass" /\ MidSeverityDismissalReview(d) = "pass"
  BY PassMeansNoObjection DEF Answers, GuardrailCodes
<1>2. QED
  BY <1>1 DEF PassUnless, HighSeverityDismissal, MidSeverityDismissalReview

(* A decision on an alert that is not actionable is blocked. *)
LEMMA InactionableIsBlocked ==
    ASSUME NEW d, d.current_status \notin ActionableStates
    PROVE  Verdict(d) = "block"
<1>1. Answers(d)["INVALID_LIFECYCLE_STATE"] = "block"
  BY DEF Answers, LifecycleState, PassUnless
<1>2. QED
  BY <1>1, BlockDominates DEF GuardrailCodes

-----------------------------------------------------------------------------
(* Some finite set of a collection has no proper subset in it. *)
LEMMA MinimalSet ==
    ASSUME NEW C, C # {}, \A S \in C : IsFiniteSet(S)
    PROVE  \E S \in C : \A R \in C : R \subseteq S => R = S
<1> DEFINE U == UNION C
<1>1. C \subseteq FiniteSubsetsOf(U)
  BY DEF FiniteSubsetsOf
<1>2. IsWellFoundedOn(StrictSubsetOrdering(U), FiniteSubsetsOf(U))
  BY FS_StrictSubsetOrderingWellFounded
<1>3. PICK S \in C : \A R \in C : ~(<<R, S>> \in StrictSubsetOrdering(U))
  BY <1>1, <1>2, WFMin
<1>4. QED
  BY <1>3 DEF StrictSubsetOrdering

Picked(s) == CHOOSE x \in s : TRUE

LEMMA PickedIsIn == ASSUME NEW s, s # {} PROVE Picked(s) \in s
BY DEF Picked

LEMMA CardinalityApart ==
    ASSUME NEW A, NEW B, IsFiniteSet(A), IsFiniteSet(B), A \cap B = {}
    PROVE  /\ Cardinality(A) \in Nat /\ Cardinality(B) \in Nat
           /\ Cardinality(A \cup B) = Cardinality(A) + Cardinality(B)
<1>1. Cardinality(A) \in Nat /\ Cardinality(B) \in Nat
  BY FS_CardinalityType
<1>2. Cardinality(A \cup B) = Cardinality(A) + Cardinality(B) - Cardinality(A \cap B)
  BY FS_Union
<1>3. Cardinality(A \cap B) = 0
  BY FS_EmptySet
<1>4. QED BY <1>1, <1>2, <1>3

LEMMA PlacesAreFinite ==
    ASSUME NEW S, NEW s \in Seq(S), NEW A, A \subseteq DOMAIN s
    PROVE  IsFiniteSet(A)
<1>1. DOMAIN s = 1..Len(s) /\ Len(s) \in Nat
  OBVIOUS
<1>2. IsFiniteSet(1..Len(s))
  BY <1>1, FS_Interval
<1>3. QED BY <1>1, <1>2, FS_Subset

(* The recursion that SumFunctionOnSet(f, S) is defined by. *)
AddsUp(g, f, S) ==
    g = [s \in SUBSET S |-> IF s = {} THEN 0 ELSE f[Picked(s)] + g[s \ {Picked(s)}]]

LEMMA SumByRecursion ==
    ASSUME NEW f, NEW S
    PROVE  SumFunctionOnSet(f, S) = (CHOOSE g : AddsUp(g, f, S))[S]
BY DEF SumFunctionOnSet, FoldFunctionOnSet, MapThenFoldSet, AddsUp, Picked

LEMMA AddsUpOnce ==
    ASSUME NEW f, NEW S, IsFiniteSet(S), NEW g, NEW h, AddsUp(g, f, S), AddsUp(h, f, S)
    PROVE  g = h
<1> DEFINE C == {s \in SUBSET S : g[s] # h[s]}
<1>1. ASSUME C # {} PROVE FALSE
  <2>1. \A s \in C : IsFiniteSet(s)
    BY FS_Subset
  <2>2. PICK s \in C : \A r \in C : r \subseteq s => r = s
    <3> HIDE DEF C
    <3> QED BY <1>1, <2>1, MinimalSet
  <2>3. g[s] = IF s = {} THEN 0 ELSE f[Picked(s)] + g[s \ {Picked(s)}]
    BY DEF AddsUp
  <2>4. h[s] = IF s = {} THEN 0 ELSE f[Picked(s)] + h[s \ {Picked(s)}]
    BY DEF AddsUp
  <2>5. s # {} => g[s \ {Picked(s)}] = h[s \ {Picked(s)}]
    BY <2>2, PickedIsIn
  <2>6. QED BY <2>3, <2>4, <2>5
<1>2. QED BY <1>1 DEF AddsUp

(* A sum of a set is defined by the sums of its subsets. *)
LEMMA AddsUpBelow ==
    ASSUME NEW f, NEW S, NEW g, AddsUp(g, f, S), NEW T \in SUBSET S
    PROVE  AddsUp([s \in SUBSET T |-> g[s]], f, T)
<1> DEFINE h == [s \in SUBSET T |-> g[s]]
<1>1. ASSUME NEW s \in SUBSET T
      PROVE  h[s] = IF s = {} THEN 0 ELSE f[Picked(s)] + h[s \ {Picked(s)}]
  BY DEF AddsUp
<1>2. h = [s \in SUBSET T |-> IF s = {} THEN 0 ELSE f[Picked(s)] + h[s \ {Picked(s)}]]
  <2> DEFINE k == [s \in SUBSET T |-> IF s = {} THEN 0 ELSE f[Picked(s)] + h[s \ {Picked(s)}]]
  <2>1. \A s \in SUBSET T : h[s] = k[s] BY <1>1
  <2>2. h = [s \in SUBSET T |-> h[s]] OBVIOUS
  <2>3. k = [s \in SUBSET T |-> k[s]] OBVIOUS
  <2> HIDE DEF h, k
  <2>4. h = k BY <2>1, <2>2, <2>3
  <2>5. QED BY <2>4 DEF k
<1>3. QED BY <1>2 DEF AddsUp

LEMMA AddsUpExists ==
    ASSUME NEW f, NEW S, IsFiniteSet(S)
    PROVE  \E g : AddsUp(g, f, S)
<1> DEFINE C == {s \in SUBSET S : ~ \E g : AddsUp(g, f, s)}
<1>1. ASSUME C # {} PROVE FALSE
  <2>1. \A s \in C : IsFiniteSet(s)
    BY FS_Subset
  <2>2. PICK s \in C : \A r \in C : r \subseteq s => r = s
    <3> HIDE DEF C
    <3> QED BY <1>1, <2>1, MinimalSet
  <2> DEFINE p == Picked(s)
             below == CHOOSE g : AddsUp(g, f, s \ {p})
             H(t) == CHOOSE g : AddsUp(g, f, t)
             g == [t \in SUBSET s |-> IF t = {} THEN 0
                                      ELSE f[Picked(t)] + H(t \ {Picked(t)})[t \ {Picked(t)}]]
  <2>3. ASSUME NEW t \in SUBSET s, t # s
        PROVE  AddsUp(H(t), f, t) /\ IsFiniteSet(t)
    BY <2>2, <2>1, <2>3, FS_Subset
  <2>4. ASSUME NEW t \in SUBSET s, t # s, NEW u \in SUBSET t
        PROVE  H(t)[u] = H(u)[u]
    <3> HIDE DEF H
    <3>1. AddsUp([r \in SUBSET u |-> H(t)[r]], f, u)
      BY <2>3, <2>4, AddsUpBelow
    <3>2. AddsUp(H(u), f, u) /\ IsFiniteSet(u)
      BY <2>3, <2>4
    <3>3. [r \in SUBSET u |-> H(t)[r]] = H(u)
      BY <3>1, <3>2, AddsUpOnce
    <3>4. QED BY <3>3
  <2>5. ASSUME NEW t \in SUBSET s, t # s
        PROVE  g[t] = H(t)[t]
    <3>1. AddsUp(H(t), f, t) BY <2>3, <2>5
    <3> HIDE DEF H
    <3>2. H(t)[t] = IF t = {} THEN 0 ELSE f[Picked(t)] + H(t)[t \ {Picked(t)}]
      BY <3>1 DEF AddsUp
    <3>3. H(t)[t \ {Picked(t)}] = H(t \ {Picked(t)})[t \ {Picked(t)}]
      BY <2>4, <2>5
    <3>4. QED BY <3>2, <3>3
  <2>6. ASSUME NEW t \in SUBSET s
        PROVE  g[t] = IF t = {} THEN 0 ELSE f[Picked(t)] + g[t \ {Picked(t)}]
    <3>1. t # {} => t \ {Picked(t)} \in SUBSET s /\ t \ {Picked(t)} # s
      BY PickedIsIn
    <3>2. t # {} => g[t \ {Picked(t)}] = H(t \ {Picked(t)})[t \ {Picked(t)}]
      BY <2>5, <3>1
    <3>3. QED BY <3>2
  <2>7. AddsUp(g, f, s)
    <3> DEFINE k == [t \in SUBSET s |-> IF t = {} THEN 0 ELSE f[Picked(t)] + g[t \ {Picked(t)}]]
    <3>1. \A t \in SUBSET s : g[t] = k[t] BY <2>6
    <3>2. g = [t \in SUBSET s |-> g[t]] OBVIOUS
    <3>3. k = [t \in SUBSET s |-> k[t]] OBVIOUS
    <3> HIDE DEF g, k
    <3>4. g = k BY <3>1, <3>2, <3>3
    <3>5. QED BY <3>4 DEF AddsUp, k
  <2>8. QED BY <2>7
<1>2. QED BY <1>1

(* The recursion, as an equation: the sum of one element and of the others. *)
LEMMA SumUnfolds ==
    ASSUME NEW f, NEW S, IsFiniteSet(S)
    PROVE  SumFunctionOnSet(f, S) =
             IF S = {} THEN 0 ELSE f[Picked(S)] + SumFunctionOnSet(f, S \ {Picked(S)})
<1> DEFINE H(t) == CHOOSE g : AddsUp(g, f, t)
           rest == S \ {Picked(S)}
<1>1. AddsUp(H(S), f, S)
  BY AddsUpExists
<1>2. AddsUp(H(rest), f, rest) /\ IsFiniteSet(rest)
  BY AddsUpExists, FS_Subset
<1>3. SumFunctionOnSet(f, S) = H(S)[S] /\ SumFunctionOnSet(f, rest) = H(rest)[rest]
  BY SumByRecursion
<1> HIDE DEF H
<1>4. AddsUp([s \in SUBSET rest |-> H(S)[s]], f, rest)
  BY <1>1, AddsUpBelow
<1>5. [s \in SUBSET rest |-> H(S)[s]] = H(rest)
  BY <1>2, <1>4, AddsUpOnce
<1>6. H(S)[rest] = H(rest)[rest]
  BY <1>5
<1>7. H(S)[S] = IF S = {} THEN 0 ELSE f[Picked(S)] + H(S)[rest]
  BY <1>1 DEF AddsUp
<1>8. QED BY <1>3, <1>6, <1>7

LEMMA SumOfNone == ASSUME NEW f PROVE SumFunctionOnSet(f, {}) = 0
BY SumUnfolds, FS_EmptySet

LEMMA SumOfZeros ==
    ASSUME NEW f, NEW S, IsFiniteSet(S), \A x \in S : f[x] = 0
    PROVE  SumFunctionOnSet(f, S) = 0
<1> DEFINE C == {s \in SUBSET S : SumFunctionOnSet(f, s) # 0}
<1>1. ASSUME C # {} PROVE FALSE
  <2>1. \A s \in C : IsFiniteSet(s)
    BY FS_Subset
  <2>2. PICK s \in C : \A r \in C : r \subseteq s => r = s
    <3> HIDE DEF C
    <3> QED BY <1>1, <2>1, MinimalSet
  <2>3. SumFunctionOnSet(f, s) =
          IF s = {} THEN 0 ELSE f[Picked(s)] + SumFunctionOnSet(f, s \ {Picked(s)})
    BY <2>1, SumUnfolds
  <2>4. s # {} => SumFunctionOnSet(f, s \ {Picked(s)}) = 0 /\ f[Picked(s)] = 0
    BY <2>2, PickedIsIn
  <2>5. QED BY <2>3, <2>4
<1>2. QED BY <1>1

LEMMA SumIsNat ==
    ASSUME NEW f, NEW S, IsFiniteSet(S), \A x \in S : f[x] \in Nat
    PROVE  SumFunctionOnSet(f, S) \in Nat
<1> DEFINE C == {s \in SUBSET S : SumFunctionOnSet(f, s) \notin Nat}
<1>1. ASSUME C # {} PROVE FALSE
  <2>1. \A s \in C : IsFiniteSet(s)
    BY FS_Subset
  <2>2. PICK s \in C : \A r \in C : r \subseteq s => r = s
    <3> HIDE DEF C
    <3> QED BY <1>1, <2>1, MinimalSet
  <2>3. SumFunctionOnSet(f, s) =
          IF s = {} THEN 0 ELSE f[Picked(s)] + SumFunctionOnSet(f, s \ {Picked(s)})
    BY <2>1, SumUnfolds
  <2>4. s # {} => SumFunctionOnSet(f, s \ {Picked(s)}) \in Nat /\ f[Picked(s)] \in Nat
    BY <2>2, PickedIsIn
  <2>5. QED BY <2>3, <2>4
<1>2. QED BY <1>1

(* Whichever element is taken first. *)
LEMMA SumWithout ==
    ASSUME NEW f, NEW S, IsFiniteSet(S), \A x \in S : f[x] \in Nat, NEW e \in S
    PROVE  SumFunctionOnSet(f, S) = f[e] + SumFunctionOnSet(f, S \ {e})
<1> DEFINE Sum(s) == SumFunctionOnSet(f, s)
           C == {s \in SUBSET S : \E x \in s : Sum(s) # f[x] + Sum(s \ {x})}
<1>1. ASSUME C # {} PROVE FALSE
  <2>1. \A s \in SUBSET S : IsFiniteSet(s)
    BY FS_Subset
  <2>2. PICK s \in C : \A r \in C : r \subseteq s => r = s
    <3>1. \A s \in C : IsFiniteSet(s) BY <2>1
    <3> HIDE DEF C
    <3> QED BY <1>1, <3>1, MinimalSet
  <2>3. PICK x \in s : Sum(s) # f[x] + Sum(s \ {x})
    OBVIOUS
  <2> DEFINE p == Picked(s)
  <2>4. p \in s /\ Sum(s) = f[p] + Sum(s \ {p})
    BY <2>1, PickedIsIn, SumUnfolds
  <2>5. p # x
    BY <2>3, <2>4
  <2>6. s \ {p} \notin C /\ s \ {x} \notin C
    BY <2>2, <2>4
  <2>7. /\ Sum(s \ {p}) = f[x] + Sum((s \ {p}) \ {x})
        /\ Sum(s \ {x}) = f[p] + Sum((s \ {x}) \ {p})
    BY <2>4, <2>5, <2>6
  <2>8. (s \ {p}) \ {x} = (s \ {x}) \ {p}
    OBVIOUS
  <2>9. f[x] \in Nat /\ f[p] \in Nat /\ Sum((s \ {x}) \ {p}) \in Nat
    BY <2>1, <2>4, SumIsNat
  <2> HIDE DEF Sum, p, C
  <2>10. QED BY <2>3, <2>4, <2>7, <2>8, <2>9
<1>2. QED BY <1>1

(* Sums over equal values are equal, and sums grow with the set. *)
LEMMA SumOfEqual ==
    ASSUME NEW f, NEW g, NEW S, IsFiniteSet(S), \A x \in S : f[x] = g[x]
    PROVE  SumFunctionOnSet(f, S) = SumFunctionOnSet(g, S)
<1> DEFINE C == {s \in SUBSET S : SumFunctionOnSet(f, s) # SumFunctionOnSet(g, s)}
<1>1. ASSUME C # {} PROVE FALSE
  <2>1. \A s \in C : IsFiniteSet(s)
    BY FS_Subset
  <2>2. PICK s \in C : \A r \in C : r \subseteq s => r = s
    <3> HIDE DEF C
    <3> QED BY <1>1, <2>1, MinimalSet
  <2>3. /\ SumFunctionOnSet(f, s) =
             IF s = {} THEN 0 ELSE f[Picked(s)] + SumFunctionOnSet(f, s \ {Picked(s)})
        /\ SumFunctionOnSet(g, s) =
             IF s = {} THEN 0 ELSE g[Picked(s)] + SumFunctionOnSet(g, s \ {Picked(s)})
    BY <2>1, SumUnfolds
  <2>4. s # {} => /\ f[Picked(s)] = g[Picked(s)]
                  /\ SumFunctionOnSet(f, s \ {Picked(s)}) = SumFunctionOnSet(g, s \ {Picked(s)})
    BY <2>2, PickedIsIn
  <2>5. QED BY <2>3, <2>4
<1>2. QED BY <1>1

LEMMA SumGrows ==
    ASSUME NEW f, NEW S, IsFiniteSet(S), \A x \in S : f[x] \in Nat, NEW T \in SUBSET S
    PROVE  SumFunctionOnSet(f, T) <= SumFunctionOnSet(f, S)
<1> DEFINE Sum(s) == SumFunctionOnSet(f, s)
           C == {s \in SUBSET S : T \subseteq s /\ ~(Sum(T) <= Sum(s))}
<1>1. ASSUME C # {} PROVE FALSE
  <2>1. \A s \in SUBSET S : IsFiniteSet(s) /\ Sum(s) \in Nat
    BY FS_Subset, SumIsNat
  <2>2. PICK s \in C : \A r \in C : r \subseteq s => r = s
    <3>1. \A s \in C : IsFiniteSet(s) BY <2>1
    <3> HIDE DEF C
    <3> QED BY <1>1, <3>1, MinimalSet
  <2>3. PICK e \in s : e \notin T
    BY <2>1
  <2>4. Sum(s) = f[e] + Sum(s \ {e})
    BY <2>1, SumWithout
  <2>5. Sum(T) <= Sum(s \ {e})
    BY <2>2, <2>3
  <2>6. Sum(T) \in Nat /\ Sum(s \ {e}) \in Nat /\ f[e] \in Nat
    BY <2>1
  <2> HIDE DEF Sum
  <2>7. QED BY <2>4, <2>5, <2>6
<1>2. QED BY <1>1

(* Two sums that differ in one element differ by that element. *)
LEMMA SumChanges ==
    ASSUME NEW f, NEW g, NEW S, IsFiniteSet(S), NEW e \in S,
           \A x \in S : f[x] \in Nat /\ g[x] \in Nat, \A x \in S \ {e} : f[x] = g[x]
    PROVE  SumFunctionOnSet(g, S) + f[e] = SumFunctionOnSet(f, S) + g[e]
<1> DEFINE F == SumFunctionOnSet(f, S \ {e})
           G == SumFunctionOnSet(g, S \ {e})
<1>1. IsFiniteSet(S \ {e})
  BY FS_Subset
<1>2. F = G /\ F \in Nat
  BY <1>1, SumOfEqual, SumIsNat
<1>3. SumFunctionOnSet(f, S) = f[e] + F /\ SumFunctionOnSet(g, S) = g[e] + G
  BY SumWithout
<1> HIDE DEF F, G
<1>4. QED BY <1>2, <1>3

(* One more element. *)
LEMMA SumAlso ==
    ASSUME NEW f, NEW g, NEW S, IsFiniteSet(S), NEW e, e \notin S,
           \A x \in S \cup {e} : f[x] \in Nat, \A x \in S : f[x] = g[x]
    PROVE  SumFunctionOnSet(f, S \cup {e}) = f[e] + SumFunctionOnSet(g, S)
<1>1. IsFiniteSet(S \cup {e}) /\ (S \cup {e}) \ {e} = S
  BY FS_AddElement
<1>2. SumFunctionOnSet(f, S \cup {e}) = f[e] + SumFunctionOnSet(f, S)
  BY <1>1, SumWithout
<1>3. QED BY <1>2, SumOfEqual

(* Two sets without a common element. *)
LEMMA SumTogether ==
    ASSUME NEW f, NEW S, NEW T, IsFiniteSet(S), IsFiniteSet(T), S \cap T = {},
           \A x \in S \cup T : f[x] \in Nat
    PROVE  SumFunctionOnSet(f, S \cup T) = SumFunctionOnSet(f, S) + SumFunctionOnSet(f, T)
<1> DEFINE Sum(s) == SumFunctionOnSet(f, s)
           C == {s \in SUBSET S : Sum(s \cup T) # Sum(s) + Sum(T)}
<1>1. ASSUME C # {} PROVE FALSE
  <2>1. \A s \in SUBSET S : /\ IsFiniteSet(s) /\ Sum(s) \in Nat
                            /\ IsFiniteSet(s \cup T) /\ Sum(s \cup T) \in Nat
    BY FS_Subset, FS_Union, SumIsNat
  <2>2. PICK s \in C : \A r \in C : r \subseteq s => r = s
    <3>1. \A s \in C : IsFiniteSet(s) BY <2>1
    <3> HIDE DEF C
    <3> QED BY <1>1, <3>1, MinimalSet
  <2>0. Sum(s \cup T) # Sum(s) + Sum(T)
    BY <2>2
  <2>3. Sum(T) \in Nat /\ Sum({}) = 0
    BY SumIsNat, SumOfNone
  <2>4. s # {}
    <3>1. ASSUME s = {} PROVE FALSE
      <4>1. s \cup T = T
        BY <3>1
      <4>2. Sum(s \cup T) = Sum(T)
        BY <4>1
      <4>3. Sum(s) = 0
        BY <2>3, <3>1
      <4> HIDE DEF Sum, C
      <4>4. Sum(s) + Sum(T) = Sum(T)
        BY <2>3, <4>3
      <4>5. QED BY <2>0, <4>2, <4>4
    <3>2. QED BY <3>1
  <2>5. PICK e : e \in s
    BY <2>4
  <2>6. Sum(s) = f[e] + Sum(s \ {e})
    BY <2>1, <2>5, SumWithout
  <2>7. Sum(s \cup T) = f[e] + Sum((s \cup T) \ {e})
    BY <2>1, <2>5, SumWithout
  <2>8. (s \cup T) \ {e} = (s \ {e}) \cup T
    BY <2>5
  <2>9. Sum((s \ {e}) \cup T) = Sum(s \ {e}) + Sum(T)
    BY <2>2, <2>5
  <2>10. f[e] \in Nat /\ Sum(s \ {e}) \in Nat
    BY <2>1, <2>5
  <2> HIDE DEF Sum, C
  <2>11. QED BY <2>0, <2>3, <2>6, <2>7, <2>8, <2>9, <2>10
<1>2. QED BY <1>1

LEMMA SumOfOnes ==
    ASSUME NEW f, NEW S, IsFiniteSet(S), \A x \in S : f[x] = 1
    PROVE  SumFunctionOnSet(f, S) = Cardinality(S)
<1> DEFINE Sum(s) == SumFunctionOnSet(f, s)
           C == {s \in SUBSET S : Sum(s) # Cardinality(s)}
<1>1. ASSUME C # {} PROVE FALSE
  <2>1. \A s \in SUBSET S : IsFiniteSet(s)
    BY FS_Subset
  <2>2. PICK s \in C : \A r \in C : r \subseteq s => r = s
    <3>1. \A s \in C : IsFiniteSet(s) BY <2>1
    <3> HIDE DEF C
    <3> QED BY <1>1, <3>1, MinimalSet
  <2>0. Sum(s) # Cardinality(s)
    BY <2>2
  <2>3. s # {}
    BY <2>0, SumOfNone, FS_EmptySet
  <2>4. PICK e : e \in s
    BY <2>3
  <2>5. Sum(s) = f[e] + Sum(s \ {e}) /\ f[e] = 1
    BY <2>1, <2>4, SumWithout
  <2>6. Sum(s \ {e}) = Cardinality(s \ {e})
    BY <2>2, <2>4
  <2>7. Cardinality(s) = Cardinality(s \ {e}) + 1 /\ Cardinality(s \ {e}) \in Nat
    <3>1. IsFiniteSet(s \ {e}) /\ (s \ {e}) \cup {e} = s
      BY <2>1, <2>4
    <3>2. QED BY <3>1, FS_AddElement, FS_CardinalityType
  <2> HIDE DEF Sum, C
  <2>8. QED BY <2>0, <2>5, <2>6, <2>7
<1>2. QED BY <1>1

(* A sum over other names for the same things. *)
LEMMA SumRenamed ==
    ASSUME NEW S, IsFiniteSet(S), NEW name, NEW f, NEW g,
           \A x \in S : f[x] \in Nat /\ f[x] = g[name[x]],
           \A x, y \in S : name[x] = name[y] => x = y
    PROVE  SumFunctionOnSet(g, {name[x] : x \in S}) = SumFunctionOnSet(f, S)
<1> DEFINE Names(s) == {name[x] : x \in s}
           F(s) == SumFunctionOnSet(f, s)
           G(s) == SumFunctionOnSet(g, Names(s))
           C == {s \in SUBSET S : G(s) # F(s)}
<1>1. ASSUME C # {} PROVE FALSE
  <2>1. ASSUME NEW s \in SUBSET S
        PROVE  IsFiniteSet(s) /\ IsFiniteSet(Names(s)) /\ \A n \in Names(s) : g[n] \in Nat
    <3>1. IsFiniteSet(s)
      BY FS_Subset
    <3>2. [x \in s |-> name[x]] \in Surjection(s, Names(s))
      BY DEF Surjection
    <3>3. IsFiniteSet(Names(s))
      <4> HIDE DEF Names
      <4> QED BY <3>1, <3>2, FS_Surjection
    <3>4. QED BY <3>1, <3>3
  <2>2. PICK s \in C : \A r \in C : r \subseteq s => r = s
    <3>1. \A s \in C : IsFiniteSet(s) BY <2>1
    <3> HIDE DEF C
    <3> QED BY <1>1, <3>1, MinimalSet
  <2>3. Names({}) = {}
    OBVIOUS
  <2>4. s # {}
    BY <2>2, <2>3, SumOfNone
  <2>5. PICK e : e \in s
    BY <2>4
  <2>6. F(s) = f[e] + F(s \ {e})
    BY <2>1, <2>5, SumWithout
  <2>7. G(s) = g[name[e]] + SumFunctionOnSet(g, Names(s) \ {name[e]})
    <3>1. name[e] \in Names(s) /\ IsFiniteSet(Names(s)) /\ \A n \in Names(s) : g[n] \in Nat
      BY <2>1, <2>5
    <3> HIDE DEF Names
    <3>2. QED BY <3>1, SumWithout
  <2>8. Names(s) \ {name[e]} = Names(s \ {e})
    BY <2>5
  <2>9. G(s \ {e}) = F(s \ {e})
    BY <2>2, <2>5
  <2>10. f[e] = g[name[e]]
    BY <2>5
  <2>11. G(s) # F(s)
    BY <2>2
  <2> HIDE DEF F, Names
  <2>12. QED BY <2>6, <2>7, <2>8, <2>9, <2>10, <2>11
<1>2. QED BY <1>1

(* A sum of the sums of groups. *)
LEMMA SumByGroups ==
    ASSUME NEW S, IsFiniteSet(S), NEW f, \A x \in S : f[x] \in Nat,
           NEW Keys, IsFiniteSet(Keys), NEW key, \A x \in S : key[x] \in Keys,
           NEW group, \A c \in Keys : \A x : x \in group[c] <=> x \in S /\ key[x] = c,
           NEW h, \A c \in Keys : h[c] = SumFunctionOnSet(f, group[c])
    PROVE  SumFunctionOnSet(h, Keys) = SumFunctionOnSet(f, S)
<1> DEFINE Group(D) == {x \in S : key[x] \in D}
           H(D) == SumFunctionOnSet(h, D)
           F(s) == SumFunctionOnSet(f, s)
           C == {D \in SUBSET Keys : H(D) # F(Group(D))}
<1>1. \A s \in SUBSET S : IsFiniteSet(s) /\ F(s) \in Nat
  BY FS_Subset, SumIsNat
<1>2. ASSUME NEW c \in Keys PROVE h[c] = F(Group({c})) /\ h[c] \in Nat
  <2>1. group[c] = Group({c})
    OBVIOUS
  <2>2. Group({c}) \in SUBSET S
    OBVIOUS
  <2> HIDE DEF Group
  <2>3. h[c] = F(Group({c}))
    BY <2>1
  <2>4. F(Group({c})) \in Nat
    <3> HIDE DEF F
    <3> QED BY <1>1, <2>2
  <2>5. QED BY <2>3, <2>4
<1>3. ASSUME C # {} PROVE FALSE
  <2>1. \A D \in SUBSET Keys : IsFiniteSet(D)
    BY FS_Subset
  <2>2. PICK D \in C : \A r \in C : r \subseteq D => r = D
    <3>1. \A D \in C : IsFiniteSet(D) BY <2>1
    <3> HIDE DEF C
    <3> QED BY <1>3, <3>1, MinimalSet
  <2>3. D # {}
    <3>1. Group({}) = {}
      OBVIOUS
    <3>2. H({}) = 0 /\ F({}) = 0
      BY SumOfNone
    <3>3. H({}) = F(Group({}))
      BY <3>1, <3>2
    <3> HIDE DEF H, F, Group
    <3>4. D \in SUBSET Keys /\ H(D) # F(Group(D))
      BY <2>2
    <3>5. QED BY <3>3, <3>4
  <2>4. PICK c : c \in D
    BY <2>3
  <2>5. D \in SUBSET Keys /\ D \ {c} \in SUBSET Keys /\ c \in Keys /\ H(D) # F(Group(D))
    BY <2>2, <2>4
  <2>6. H(D \ {c}) = F(Group(D \ {c}))
    BY <2>2, <2>4, <2>5
  <2>7. H(D) = h[c] + H(D \ {c})
    <3>1. \A x \in D : h[x] \in Nat
      BY <1>2, <2>5
    <3>2. QED BY <2>1, <2>4, <2>5, <3>1, SumWithout
  <2>8. /\ Group(D) = Group({c}) \cup Group(D \ {c})
        /\ Group({c}) \cap Group(D \ {c}) = {}
        /\ Group({c}) \in SUBSET S /\ Group(D \ {c}) \in SUBSET S
    BY <2>4
  <2>9. F(Group(D)) = F(Group({c})) + F(Group(D \ {c}))
    <3> DEFINE A == Group({c})
               B == Group(D \ {c})
    <3>1. A \in SUBSET S /\ B \in SUBSET S /\ A \cap B = {} /\ Group(D) = A \cup B
      BY <2>8
    <3> HIDE DEF A, B
    <3>2. IsFiniteSet(A) /\ IsFiniteSet(B) /\ \A x \in A \cup B : f[x] \in Nat
      BY <1>1, <3>1
    <3>3. F(A \cup B) = F(A) + F(B)
      BY <3>1, <3>2, SumTogether
    <3>4. QED BY <3>1, <3>3 DEF A, B
  <2>10. h[c] = F(Group({c}))
    BY <1>2, <2>5
  <2> HIDE DEF F, H, Group
  <2>11. QED BY <2>5, <2>6, <2>7, <2>9, <2>10
<1>4. QED
  <2>1. Keys \in SUBSET Keys /\ Group(Keys) = S
    OBVIOUS
  <2>2. H(Keys) = F(Group(Keys))
    BY <1>3
  <2>3. QED BY <2>1, <2>2

-----------------------------------------------------------------------------
(* The rank of a place among others. *)
LEMMA RankRange ==
    ASSUME NEW places \in SUBSET Nat, IsFiniteSet(places), NEW i \in places
    PROVE  Rank(i, places) \in 1..Cardinality(places)
<1> DEFINE below == {j \in places : j <= i}
<1>1. IsFiniteSet(below) /\ Cardinality(below) <= Cardinality(places)
  BY FS_Subset
<1>2. i \in below
  OBVIOUS
<1>3. Cardinality(below) # 0
  BY <1>1, <1>2, FS_EmptySet
<1>4. Cardinality(below) \in Nat /\ Cardinality(places) \in Nat
  BY <1>1, FS_CardinalityType
<1>5. QED BY <1>1, <1>3, <1>4 DEF Rank

LEMMA RankIncreases ==
    ASSUME NEW places \in SUBSET Nat, IsFiniteSet(places), NEW i \in places, NEW j \in places,
           i < j
    PROVE  Rank(i, places) < Rank(j, places)
<1> DEFINE upto(k) == {m \in places : m <= k}
<1>0. i \in Nat /\ j \in Nat /\ \A m \in places : m \in Nat
  OBVIOUS
<1>a. ~(j <= i) /\ j <= j /\ \A m \in Nat : m <= i => m <= j
  BY <1>0
<1>1. upto(i) \subseteq upto(j) /\ j \in upto(j) /\ j \notin upto(i)
  BY <1>0, <1>a
<1>2. IsFiniteSet(upto(j)) /\ IsFiniteSet(upto(i))
  BY FS_Subset
<1>3. Cardinality(upto(i)) <= Cardinality(upto(j)) /\ Cardinality(upto(i)) # Cardinality(upto(j))
  <2> HIDE DEF upto
  <2> QED BY <1>1, <1>2, FS_Subset
<1>4. Cardinality(upto(i)) \in Nat /\ Cardinality(upto(j)) \in Nat
  BY <1>2, FS_CardinalityType
<1>5. QED BY <1>3, <1>4 DEF Rank

(* Every rank is the rank of exactly one place. *)
LEMMA NthPlace ==
    ASSUME NEW places \in SUBSET Nat, IsFiniteSet(places), NEW n \in 1..Cardinality(places)
    PROVE  Nth(places, n) \in places /\ Rank(Nth(places, n), places) = n
<1> DEFINE N == 1..Cardinality(places)
           rank == [i \in places |-> Rank(i, places)]
<1>1. Cardinality(places) \in Nat
  BY FS_CardinalityType
<1>2. IsFiniteSet(N) /\ Cardinality(N) = Cardinality(places)
  BY <1>1, FS_Interval
<1>3. rank \in [places -> N]
  BY RankRange
<1>4. \A i, j \in places : rank[i] = rank[j] => i = j
  <2> SUFFICES ASSUME NEW i \in places, NEW j \in places, i # j PROVE rank[i] # rank[j]
    OBVIOUS
  <2>1. i < j \/ j < i
    OBVIOUS
  <2>2. Rank(i, places) \in Nat /\ Rank(j, places) \in Nat
    BY <1>1, RankRange
  <2>3. Rank(i, places) # Rank(j, places)
    BY <2>1, <2>2, RankIncreases
  <2>4. QED BY <2>3
<1>5. rank \in Injection(places, N)
  BY <1>3, <1>4 DEF Injection, IsInjective
<1>6. rank \in Surjection(places, N)
  <2> HIDE DEF rank, N
  <2> QED BY <1>2, <1>5, FS_Injection
<1>7. PICK i \in places : rank[i] = n
  BY <1>6 DEF Surjection
<1>8. QED BY <1>7 DEF Nth

LEMMA NthOfRank ==
    ASSUME NEW places \in SUBSET Nat, IsFiniteSet(places), NEW i \in places
    PROVE  Nth(places, Rank(i, places)) = i
<1> DEFINE k == Nth(places, Rank(i, places))
<1>1. k \in places /\ Rank(k, places) = Rank(i, places)
  BY RankRange, NthPlace
<1>2. Rank(i, places) \in Int
  BY RankRange, FS_CardinalityType
<1>3. ~(k < i) /\ ~(i < k)
  <2> HIDE DEF k
  <2> QED BY <1>1, <1>2, RankIncreases
<1>4. k \in Nat /\ i \in Nat
  BY <1>1
<1> HIDE DEF k
<1>5. k = i
  BY <1>3, <1>4
<1>6. QED BY <1>5 DEF k

LEMMA NthIncreases ==
    ASSUME NEW places \in SUBSET Nat, IsFiniteSet(places), NEW m \in 1..Cardinality(places),
           NEW n \in 1..Cardinality(places), m < n
    PROVE  Nth(places, m) < Nth(places, n)
<1> DEFINE a == Nth(places, m)
           b == Nth(places, n)
<1>1. a \in places /\ b \in places /\ Rank(a, places) = m /\ Rank(b, places) = n
  BY NthPlace
<1>2. Cardinality(places) \in Nat
  BY FS_CardinalityType
<1> HIDE DEF a, b
<1>3. ~(b < a)
  BY <1>1, <1>2, RankIncreases
<1>4. a # b /\ a \in Nat /\ b \in Nat
  BY <1>1, <1>2
<1>5. a < b
  BY <1>3, <1>4
<1>6. QED BY <1>5 DEF a, b

(* What is kept of a sequence, and where it was. *)
LEMMA KeptIsFinite ==
    ASSUME NEW S, NEW s \in Seq(S), NEW P
    PROVE  /\ Kept(s, P) \in SUBSET Nat
           /\ IsFiniteSet(Kept(s, P))
           /\ Cardinality(Kept(s, P)) \in Nat
<1>1. Len(s) \in Nat /\ DOMAIN s = 1..Len(s)
  OBVIOUS
<1>2. IsFiniteSet(1..Len(s))
  BY <1>1, FS_Interval
<1>3. Kept(s, P) \in SUBSET (1..Len(s))
  BY <1>1 DEF Kept
<1>4. IsFiniteSet(Kept(s, P))
  BY <1>2, <1>3, FS_Subset
<1>5. QED BY <1>1, <1>3, <1>4, FS_CardinalityType

LEMMA SelectIsASeq ==
    ASSUME NEW S, NEW s \in Seq(S), NEW P
    PROVE  /\ Select(s, P) \in Seq(S)
           /\ Select(s, P) \in Seq(P)
           /\ Len(Select(s, P)) = Cardinality(Kept(s, P))
           /\ DOMAIN Select(s, P) = 1..Cardinality(Kept(s, P))
<1> DEFINE kept == Kept(s, P)
           c == Cardinality(kept)
<1>1. c \in Nat /\ \A n \in 1..c : Nth(kept, n) \in kept
  BY KeptIsFinite, NthPlace
<1>2. \A i \in kept : s[i] \in S /\ s[i] \in P
  BY DEF Kept
<1> HIDE DEF c, kept
<1>3. \A n \in 1..c : s[Nth(kept, n)] \in S /\ s[Nth(kept, n)] \in P
  BY <1>1, <1>2
<1>4. Select(s, P) = [n \in 1..c |-> s[Nth(kept, n)]]
  BY DEF Select, c, kept
<1>5. QED BY <1>1, <1>3, <1>4 DEF c, kept

(* Each place of a selection is a place of the sequence, in the same order. *)
LEMMA SelectPlaces ==
    ASSUME NEW S, NEW s \in Seq(S), NEW P
    PROVE  \A n \in DOMAIN Select(s, P) :
             /\ Nth(Kept(s, P), n) \in Kept(s, P)
             /\ Select(s, P)[n] = s[Nth(Kept(s, P), n)]
             /\ \A m \in DOMAIN Select(s, P) :
                  m < n => Nth(Kept(s, P), m) < Nth(Kept(s, P), n)
<1> DEFINE kept == Kept(s, P)
<1>1. kept \in SUBSET Nat /\ IsFiniteSet(kept) /\ DOMAIN Select(s, P) = 1..Cardinality(kept)
  BY KeptIsFinite, SelectIsASeq
<1>2. \A n \in 1..Cardinality(kept) : Select(s, P)[n] = s[Nth(kept, n)]
  BY DEF Select
<1> HIDE DEF kept
<1>3. QED BY <1>1, <1>2, NthPlace, NthIncreases DEF kept

LEMMA SelectHoldsKept ==
    ASSUME NEW S, NEW s \in Seq(S), NEW P, NEW i \in Kept(s, P)
    PROVE  /\ Rank(i, Kept(s, P)) \in DOMAIN Select(s, P)
           /\ Select(s, P)[Rank(i, Kept(s, P))] = s[i]
<1> DEFINE kept == Kept(s, P)
<1>1. kept \in SUBSET Nat /\ IsFiniteSet(kept) /\ DOMAIN Select(s, P) = 1..Cardinality(kept)
  BY KeptIsFinite, SelectIsASeq
<1>2. \A n \in 1..Cardinality(kept) : Select(s, P)[n] = s[Nth(kept, n)]
  BY DEF Select
<1> HIDE DEF kept
<1>3. i \in kept
  BY DEF kept
<1>4. QED BY <1>1, <1>2, <1>3, RankRange, NthOfRank DEF kept

LEMMA SelectRange ==
    ASSUME NEW S, NEW s \in Seq(S), NEW P
    PROVE  Range(Select(s, P)) = Range(s) \cap P
<1>1. ASSUME NEW n \in DOMAIN Select(s, P)
      PROVE  Select(s, P)[n] \in Range(s) \cap P
  <2>1. /\ Nth(Kept(s, P), n) \in Kept(s, P)
        /\ Select(s, P)[n] = s[Nth(Kept(s, P), n)]
    BY SelectPlaces
  <2>2. \A i \in Kept(s, P) : s[i] \in Range(s) \cap P
    BY DEF Kept, Range
  <2>3. QED BY <2>1, <2>2
<1>2. ASSUME NEW i \in DOMAIN s, s[i] \in P
      PROVE  s[i] \in Range(Select(s, P))
  <2>1. i \in Kept(s, P)
    BY <1>2 DEF Kept
  <2>2. QED BY <2>1, SelectHoldsKept DEF Range
<1>3. QED BY <1>1, <1>2 DEF Range

(* Nothing is left out when everything is in the set. *)
LEMMA SelectAll ==
    ASSUME NEW S, NEW s \in Seq(S), NEW P, Range(s) \subseteq P
    PROVE  Select(s, P) = s
<1> DEFINE kept == Kept(s, P)
<1>1. kept = 1..Len(s) /\ Len(s) \in Nat
  BY DEF Kept, Range
<1>2. IsFiniteSet(kept) /\ Cardinality(kept) = Len(s)
  BY <1>1, FS_Interval
<1>3. ASSUME NEW n \in 1..Len(s)
      PROVE  Nth(kept, n) = n
  <2>1. {j \in kept : j <= n} = 1..n
    BY <1>1
  <2>2. Cardinality(1..n) = n
    BY FS_Interval
  <2>a. Rank(n, kept) = n
    BY <2>1, <2>2 DEF Rank
  <2> HIDE DEF kept
  <2>3. QED BY <1>1, <1>2, <2>a, NthOfRank
<1>4. Select(s, P) = [n \in 1..Len(s) |-> s[Nth(kept, n)]]
  BY <1>2 DEF Select
<1> HIDE DEF kept
<1>5. Select(s, P) = [n \in 1..Len(s) |-> s[n]]
  BY <1>3, <1>4
<1>6. QED BY <1>5

(* One more element. *)
LEMMA SelectAppend ==
    ASSUME NEW S, NEW s \in Seq(S), NEW e \in S, NEW P
    PROVE  Select(Append(s, e), P) =
             IF e \in P THEN Append(Select(s, P), e) ELSE Select(s, P)
<1> DEFINE t == Append(s, e)
           kept == Kept(s, P)
           keptToo == Kept(t, P)
           c == Cardinality(kept)
           k == Len(s) + 1
<1>1. /\ t \in Seq(S) /\ Len(s) \in Nat /\ DOMAIN s = 1..Len(s) /\ DOMAIN t = 1..k
      /\ t[k] = e /\ \A i \in 1..Len(s) : t[i] = s[i]
  OBVIOUS
<1>2. keptToo = IF e \in P THEN kept \cup {k} ELSE kept
  <2>1. ASSUME NEW i \in 1..k PROVE i \in keptToo <=> (i \in kept \/ (i = k /\ e \in P))
    <3>1. CASE i = k BY <1>1, <3>1 DEF Kept
    <3>2. CASE i # k
      <4>1. i \in 1..Len(s) BY <1>1, <3>2
      <4>2. QED BY <1>1, <3>2, <4>1 DEF Kept
    <3>3. QED BY <3>1, <3>2
  <2>2. kept \subseteq 1..k /\ keptToo \subseteq 1..k /\ k \in 1..k
    BY <1>1 DEF Kept
  <2> HIDE DEF kept, keptToo
  <2>3. QED BY <2>1, <2>2
<1>3. /\ kept \in SUBSET Nat /\ IsFiniteSet(kept) /\ c \in Nat
      /\ keptToo \in SUBSET Nat /\ IsFiniteSet(keptToo)
  BY <1>1, KeptIsFinite
<1>4. k \notin kept /\ \A i \in kept : i < k
  BY <1>1 DEF Kept
<1>5. Cardinality(keptToo) = IF e \in P THEN c + 1 ELSE c
  BY <1>2, <1>3, <1>4, FS_AddElement
<1>6. ASSUME NEW i \in kept
      PROVE  i \in keptToo /\ Rank(i, keptToo) = Rank(i, kept)
  <2>1. {j \in keptToo : j <= i} = {j \in kept : j <= i}
    <3>1. ~(k <= i) /\ k \in Nat /\ i \in Nat
      BY <1>1, <1>3, <1>4
    <3> HIDE DEF k, kept, keptToo
    <3>2. QED BY <1>2, <3>1
  <2>2. QED BY <1>2, <2>1 DEF Rank
<1>7. ASSUME NEW n \in 1..c
      PROVE  Nth(keptToo, n) = Nth(kept, n) /\ Nth(kept, n) \in kept
  <2> DEFINE i == Nth(kept, n)
  <2>1. i \in kept /\ Rank(i, kept) = n
    BY <1>3, NthPlace
  <2>2. Rank(i, keptToo) = n /\ i \in keptToo
    BY <1>6, <2>1
  <2> HIDE DEF i, kept, keptToo
  <2>3. Nth(keptToo, n) = i
    BY <1>3, <2>2, NthOfRank
  <2>4. QED BY <2>1, <2>3 DEF i
<1>8. e \in P => Nth(keptToo, c + 1) = k
  <2> SUFFICES ASSUME e \in P PROVE Nth(keptToo, c + 1) = k
    OBVIOUS
  <2>1. k \in keptToo /\ {j \in keptToo : j <= k} = keptToo
    <3>1. k \in Nat /\ \A j \in kept : j \in Nat /\ j <= k
      BY <1>1, <1>3, <1>4
    <3> HIDE DEF k, kept, keptToo
    <3>2. \A j \in keptToo : j <= k
      BY <1>2, <3>1
    <3>3. QED BY <1>2, <3>2
  <2>2. Rank(k, keptToo) = c + 1
    BY <1>5, <2>1 DEF Rank
  <2> HIDE DEF kept, keptToo, k, c
  <2>3. QED BY <1>3, <2>1, <2>2, NthOfRank
<1>9. /\ Select(t, P) = [n \in 1..Cardinality(keptToo) |-> t[Nth(keptToo, n)]]
      /\ Select(s, P) = [n \in 1..c |-> s[Nth(kept, n)]]
  BY DEF Select
<1>10. kept \subseteq 1..Len(s)
  BY <1>1 DEF Kept
<1>11. \A n \in 1..c : t[Nth(keptToo, n)] = s[Nth(kept, n)]
  <2> HIDE DEF kept, keptToo, t, c
  <2> QED BY <1>1, <1>7, <1>10
<1>12. Select(s, P) \in Seq(S) /\ Len(Select(s, P)) = c
  BY SelectIsASeq
<1> HIDE DEF t, kept, keptToo, c, k
<1>13. CASE e \notin P
  BY <1>3, <1>5, <1>9, <1>11, <1>13 DEF t
<1>14. CASE e \in P
  <2>1. Select(t, P) = [n \in 1..(c + 1) |-> IF n = c + 1 THEN e ELSE Select(s, P)[n]]
    BY <1>1, <1>3, <1>5, <1>8, <1>9, <1>11, <1>14
  <2>2. Append(Select(s, P), e) = [n \in 1..(c + 1) |-> IF n = c + 1 THEN e ELSE Select(s, P)[n]]
    <3>1. /\ Len(Append(Select(s, P), e)) = c + 1
          /\ Append(Select(s, P), e)[c + 1] = e
          /\ \A n \in 1..c : Append(Select(s, P), e)[n] = Select(s, P)[n]
          /\ Append(Select(s, P), e) \in Seq(S)
      BY <1>3, <1>12
    <3>2. \A n \in 1..(c + 1) : n # c + 1 => n \in 1..c
      BY <1>3
    <3>3. Append(Select(s, P), e) = [n \in 1..(c + 1) |-> Append(Select(s, P), e)[n]]
      <4> DEFINE longer == Append(Select(s, P), e)
      <4> HIDE DEF longer
      <4>1. longer \in [1..Len(longer) -> S]
        BY <3>1, LenProperties DEF longer
      <4>2. QED BY <3>1, <4>1 DEF longer
    <3> DEFINE longer == Append(Select(s, P), e)
    <3> HIDE DEF longer
    <3>4. \A n \in 1..(c + 1) : longer[n] = IF n = c + 1 THEN e ELSE Select(s, P)[n]
      BY <3>1, <3>2 DEF longer
    <3>5. longer = [n \in 1..(c + 1) |-> longer[n]]
      BY <3>3 DEF longer
    <3>6. longer = [n \in 1..(c + 1) |-> IF n = c + 1 THEN e ELSE Select(s, P)[n]]
      BY <3>4, <3>5
    <3>7. QED BY <3>6 DEF longer
  <2>3. QED BY <1>14, <2>1, <2>2 DEF t
<1>15. QED BY <1>13, <1>14

(* What a selection has of a kind, the sequence has of that kind and the set. *)
LEMMA SelectCount ==
    ASSUME NEW S, NEW s \in Seq(S), NEW P, NEW Q
    PROVE  Cardinality(Kept(Select(s, P), Q)) = Cardinality(Kept(s, P \cap Q))
<1> DEFINE t == Select(s, P)
           kept == Kept(s, P)
           A == Kept(t, Q)
           B == Kept(s, P \cap Q)
           at == [n \in A |-> Nth(kept, n)]
<1>a. A = {n \in DOMAIN t : t[n] \in Q}
  BY DEF Kept
<1>1. kept \in SUBSET Nat /\ IsFiniteSet(kept) /\ Cardinality(kept) \in Nat
  BY KeptIsFinite
<1>2. DOMAIN t = 1..Cardinality(kept) /\ IsFiniteSet(DOMAIN t) /\ DOMAIN t \subseteq Nat
  <2>1. DOMAIN t = 1..Cardinality(kept)
    BY SelectIsASeq
  <2> DEFINE c == Cardinality(kept)
  <2> HIDE DEF t, kept, c
  <2>2. c \in Nat /\ DOMAIN t = 1..c
    BY <1>1, <2>1 DEF c
  <2>3. QED BY <2>2, FS_Interval DEF c
<1>3. IsFiniteSet(A)
  BY <1>a, <1>2, FS_Subset
<1>4. B \subseteq kept /\ \A i \in kept : i \in B <=> s[i] \in Q
  BY DEF Kept
<1>5. \A n \in DOMAIN t : /\ Nth(kept, n) \in kept /\ t[n] = s[Nth(kept, n)]
                         /\ \A m \in DOMAIN t : m < n => Nth(kept, m) < Nth(kept, n)
  BY SelectPlaces
<1> HIDE DEF t, kept, A, B
<1>6. at \in [A -> B]
  BY <1>a, <1>4, <1>5
<1>7. ASSUME NEW m \in A, NEW n \in A, at[m] = at[n] PROVE m = n
  <2>1. m \in Nat /\ n \in Nat /\ Nth(kept, m) \in Nat /\ Nth(kept, m) = Nth(kept, n)
    BY <1>a, <1>1, <1>2, <1>5, <1>7
  <2>2. ~(m < n) /\ ~(n < m)
    BY <1>a, <1>5, <2>1
  <2>3. QED BY <2>1, <2>2
<1>8. ASSUME NEW i \in B PROVE \E n \in A : at[n] = i
  <2>1. i \in kept
    BY <1>4
  <2>2. Rank(i, kept) \in DOMAIN t /\ t[Rank(i, kept)] = s[i]
    BY <2>1, SelectHoldsKept DEF t, kept
  <2>3. Nth(kept, Rank(i, kept)) = i
    BY <1>1, <2>1, NthOfRank
  <2>4. s[i] \in Q
    BY <1>4
  <2>5. QED BY <1>a, <2>2, <2>3, <2>4
<1>9. at \in Bijection(A, B)
  <2> HIDE DEF at
  <2> QED BY <1>6, <1>7, <1>8 DEF Bijection, Injection, Surjection, IsInjective
<1>10. Cardinality(B) = Cardinality(A)
  BY <1>3, <1>9, FS_Bijection DEF ExistsBijection
<1>11. QED BY <1>10 DEF A, B, t
=============================================================================
