-------------------------- MODULE PseudonymizerProofs --------------------------
(***************************************************************************)
(* For every set of sessions, types, values and random parts and every     *)
(* number of retries: tokens resolve for good, and an entity has one.      *)
(* The argument is IInv: the table obeys its two constraints, it only      *)
(* grows, and whatever a call holds or has returned is a row of it.  Hence *)
(* reviewers read the same: a table that obeys its constraints gives a     *)
(* token at most one value, so what resolves goes on resolving to it.      *)
(***************************************************************************)
EXTENDS CaseReview, TLAPS

(* An entity that is in hand is one of those to do. *)
LEMMA CurrentInTodo ==
    ASSUME NEW s \in Sessions, call[s].todo # {}
    PROVE  Current(s) \in call[s].todo
BY DEF Current

(* IInv holds when the tables are empty and nobody calls. *)
LEMMA InitIInv == Init => IInv
BY PseudonymizerAssumption
   DEF Init, IInv, TypeOK, KeysUnique, NoCall, Entities, Rows

(* Going on with the rest of a batch, or returning, keeps the invariant as long
   as the rows held are rows of the table. *)
LEMMA ProceedKeepsIInv ==
    ASSUME IInv, NEW s \in Sessions, map' = map,
           NEW todo \in SUBSET Entities, NEW known \in SUBSET map,
           Proceed(s, todo, known)
    PROVE  IInv'
<1>1. map \subseteq Rows /\ known \subseteq Rows BY DEF IInv, TypeOK
<1>2. CASE todo = {}
  <2>1. /\ answers' = answers \cup known
        /\ call' = [call EXCEPT ![s] = NoCall]
        /\ pc' = [pc EXCEPT ![s] = "idle"]
    BY <1>2 DEF Proceed, Answer
  <2>2. TypeOK'
    BY <1>1, <2>1, PseudonymizerAssumption DEF IInv, TypeOK, NoCall
  <2>3. KeysUnique' /\ answers' \subseteq map'
    BY <2>1 DEF IInv, KeysUnique
  <2>4. ASSUME NEW r \in Sessions
        PROVE  /\ call'[r].known \subseteq map'
               /\ pc'[r] = "idle" <=> call'[r].todo = {}
               /\ pc'[r] = "read" => RowsOf(Current(r))' # {}
               /\ pc'[r] = "insert" => call'[r].tried < MAX_COLLISION_RETRIES
    BY <2>1, PseudonymizerAssumption DEF IInv, TypeOK, NoCall, RowsOf, Current
  <2>5. QED BY <2>2, <2>3, <2>4 DEF IInv
<1>3. CASE todo # {}
  <2>1. /\ call' = [call EXCEPT ![s] = [todo |-> todo, known |-> known, tried |-> 0]]
        /\ pc' = [pc EXCEPT ![s] = "insert"]
        /\ answers' = answers
    BY <1>3 DEF Proceed
  <2>2. TypeOK'
    BY <1>1, <2>1, PseudonymizerAssumption DEF IInv, TypeOK
  <2>3. KeysUnique' /\ answers' \subseteq map'
    BY <2>1 DEF IInv, KeysUnique
  <2>4. ASSUME NEW r \in Sessions
        PROVE  /\ call'[r].known \subseteq map'
               /\ pc'[r] = "idle" <=> call'[r].todo = {}
               /\ pc'[r] = "read" => RowsOf(Current(r))' # {}
               /\ pc'[r] = "insert" => call'[r].tried < MAX_COLLISION_RETRIES
    BY <1>3, <2>1, PseudonymizerAssumption DEF IInv, TypeOK, RowsOf, Current
  <2>5. QED BY <2>2, <2>3, <2>4 DEF IInv
<1>4. QED BY <1>2, <1>3

(* Leaving a call without an answer keeps the invariant. *)
LEMMA AbandonKeepsIInv ==
    ASSUME IInv, NEW s \in Sessions, map' = map, answers' = answers,
           pc' = [pc EXCEPT ![s] = "idle"], call' = [call EXCEPT ![s] = NoCall]
    PROVE  IInv'
<1>1. TypeOK' BY PseudonymizerAssumption DEF IInv, TypeOK, NoCall
<1>2. KeysUnique' /\ answers' \subseteq map' BY DEF IInv, KeysUnique
<1>3. ASSUME NEW r \in Sessions
      PROVE  /\ call'[r].known \subseteq map'
             /\ pc'[r] = "idle" <=> call'[r].todo = {}
             /\ pc'[r] = "read" => RowsOf(Current(r))' # {}
             /\ pc'[r] = "insert" => call'[r].tried < MAX_COLLISION_RETRIES
  BY DEF IInv, TypeOK, NoCall, RowsOf, Current
<1>4. QED BY <1>1, <1>2, <1>3 DEF IInv

(* The insert, whose four outcomes are the four branches of the action. *)
LEMMA InsertKeepsIInv ==
    ASSUME IInv, NEW s \in Sessions, Insert(s)
    PROVE  IInv'
<1> DEFINE entity == Current(s)
<1>1. pc[s] = "insert" /\ answers' = answers BY DEF Insert
<1>2. entity \in call[s].todo /\ entity \in Entities
  BY <1>1, CurrentInTodo DEF IInv, TypeOK
<1>3. PICK hex \in Hexes :
        \/ /\ RowsOf(entity) # {}
           /\ pc' = [pc EXCEPT ![s] = "read"]
           /\ UNCHANGED <<map, call>>
        \/ /\ RowsOf(entity) = {}
           /\ Holders(entity.type, hex) = {}
           /\ map' = map \cup {[type |-> entity.type, real |-> entity.real, hex |-> hex]}
           /\ pc' = [pc EXCEPT ![s] = "read"]
           /\ UNCHANGED call
        \/ /\ call[s].tried + 1 < MAX_COLLISION_RETRIES
           /\ call' = [call EXCEPT ![s].tried = @ + 1]
           /\ UNCHANGED <<map, pc>>
        \/ /\ call' = [call EXCEPT ![s] = NoCall]
           /\ pc' = [pc EXCEPT ![s] = "idle"]
           /\ UNCHANGED map
  BY DEF Insert, Collide, KeyTaken, TokenTaken
<1> HIDE DEF entity
<1>4. CASE /\ RowsOf(entity) # {}
           /\ pc' = [pc EXCEPT ![s] = "read"]
           /\ UNCHANGED <<map, call>>
  <2>1. TypeOK' /\ KeysUnique' /\ answers' \subseteq map'
    BY <1>1, <1>4 DEF IInv, TypeOK, KeysUnique
  <2>2. ASSUME NEW r \in Sessions
        PROVE  /\ call'[r].known \subseteq map'
               /\ pc'[r] = "idle" <=> call'[r].todo = {}
               /\ pc'[r] = "read" => RowsOf(Current(r))' # {}
               /\ pc'[r] = "insert" => call'[r].tried < MAX_COLLISION_RETRIES
    BY <1>1, <1>4 DEF IInv, TypeOK, RowsOf, Current, entity
  <2>3. QED BY <2>1, <2>2 DEF IInv
<1>5. CASE /\ RowsOf(entity) = {}
           /\ Holders(entity.type, hex) = {}
           /\ map' = map \cup {[type |-> entity.type, real |-> entity.real, hex |-> hex]}
           /\ pc' = [pc EXCEPT ![s] = "read"]
           /\ UNCHANGED call
  <2> DEFINE new == [type |-> entity.type, real |-> entity.real, hex |-> hex]
  <2>1. new \in Rows /\ new.type = entity.type /\ new.real = entity.real /\ new.hex = hex
    BY <1>2 DEF Rows, Entities
  <2>2. map' = map \cup {new} BY <1>5
  <2> HIDE DEF new
  <2>3. TypeOK' BY <1>1, <1>5, <2>1, <2>2 DEF IInv, TypeOK
  <2>4. ASSUME NEW row \in map, row.type = new.type
        PROVE  row.real # new.real /\ row.hex # new.hex
    BY <1>5, <2>1, <2>4 DEF RowsOf, Holders
  <2>5. KeysUnique' BY <2>2, <2>4 DEF IInv, KeysUnique
  <2>6. answers' \subseteq map' BY <1>1, <2>2 DEF IInv
  <2>7. new \in RowsOf(Current(s))'
    <3>1. Current(s)' = entity BY <1>5 DEF Current, entity
    <3>2. QED BY <2>1, <2>2, <3>1 DEF RowsOf
  <2>8. ASSUME NEW r \in Sessions
        PROVE  /\ call'[r].known \subseteq map'
               /\ pc'[r] = "idle" <=> call'[r].todo = {}
               /\ pc'[r] = "read" => RowsOf(Current(r))' # {}
               /\ pc'[r] = "insert" => call'[r].tried < MAX_COLLISION_RETRIES
    <3>1. RowsOf(Current(r)) \subseteq RowsOf(Current(r))'
      BY <1>5, <2>2 DEF RowsOf, Current
    <3>2. CASE r = s
      BY <1>1, <1>5, <2>2, <2>7, <3>2 DEF IInv, TypeOK
    <3>3. CASE r # s
      BY <1>5, <2>2, <3>1, <3>3 DEF IInv, TypeOK
    <3>4. QED BY <3>2, <3>3
  <2>9. QED BY <2>3, <2>5, <2>6, <2>8 DEF IInv
<1>6. CASE /\ call[s].tried + 1 < MAX_COLLISION_RETRIES
           /\ call' = [call EXCEPT ![s].tried = @ + 1]
           /\ UNCHANGED <<map, pc>>
  <2>1. TypeOK' BY <1>1, <1>6, PseudonymizerAssumption DEF IInv, TypeOK
  <2>2. KeysUnique' /\ answers' \subseteq map' BY <1>1, <1>6 DEF IInv, KeysUnique
  <2>3. ASSUME NEW r \in Sessions
        PROVE  /\ call'[r].known \subseteq map'
               /\ pc'[r] = "idle" <=> call'[r].todo = {}
               /\ pc'[r] = "read" => RowsOf(Current(r))' # {}
               /\ pc'[r] = "insert" => call'[r].tried < MAX_COLLISION_RETRIES
    BY <1>1, <1>6, PseudonymizerAssumption DEF IInv, TypeOK, RowsOf, Current
  <2>4. QED BY <2>1, <2>2, <2>3 DEF IInv
<1>7. CASE /\ call' = [call EXCEPT ![s] = NoCall]
           /\ pc' = [pc EXCEPT ![s] = "idle"]
           /\ UNCHANGED map
  BY <1>1, <1>7, AbandonKeepsIInv
<1>8. QED BY <1>3, <1>4, <1>5, <1>6, <1>7

(* Every step keeps the invariant. *)
LEMMA NextKeepsIInv == IInv /\ [Next]_vars => IInv'
<1> SUFFICES ASSUME IInv, [Next]_vars PROVE IInv' OBVIOUS
<1>1. CASE UNCHANGED vars
  BY <1>1 DEF vars, IInv, TypeOK, KeysUnique, RowsOf, Current
<1>2. ASSUME NEW s \in Sessions, CallOne(s) PROVE IInv'
  <2>1. PICK entity \in Entities : Proceed(s, {entity}, {}) BY <1>2 DEF CallOne
  <2>2. map' = map BY <1>2 DEF CallOne
  <2>3. QED BY <2>1, <2>2, ProceedKeepsIInv
<1>3. ASSUME NEW s \in Sessions, CallBatch(s) PROVE IInv'
  <2>1. PICK type \in Types, reals \in SUBSET Reals \ {{}} :
          LET known == {row \in map : row.type = type /\ row.real \in reals}
              todo == {[type |-> type, real |-> v] :
                         v \in reals \ {row.real : row \in known}}
          IN  Proceed(s, todo, known)
    BY <1>3 DEF CallBatch
  <2> DEFINE known == {row \in map : row.type = type /\ row.real \in reals}
             todo == {[type |-> type, real |-> v] :
                        v \in reals \ {row.real : row \in known}}
  <2>2. map' = map BY <1>3 DEF CallBatch
  <2>3. known \in SUBSET map OBVIOUS
  <2>4. todo \in SUBSET Entities BY DEF Entities
  <2>5. Proceed(s, todo, known) BY <2>1
  <2> HIDE DEF known, todo
  <2>6. QED BY <2>2, <2>3, <2>4, <2>5, ProceedKeepsIInv
<1>4. ASSUME NEW s \in Sessions, Insert(s) PROVE IInv'
  BY <1>4, InsertKeepsIInv
<1>5. ASSUME NEW s \in Sessions, ReadBack(s) PROVE IInv'
  <2> DEFINE todo == call[s].todo \ {Current(s)}
             known == call[s].known \cup RowsOf(Current(s))
  <2>1. map' = map /\ Proceed(s, todo, known) BY <1>5 DEF ReadBack
  <2>2. todo \in SUBSET Entities BY DEF IInv, TypeOK
  <2>3. known \in SUBSET map BY DEF IInv, RowsOf
  <2> HIDE DEF todo, known
  <2>4. QED BY <2>1, <2>2, <2>3, ProceedKeepsIInv
<1>6. ASSUME NEW s \in Sessions, Crash(s) PROVE IInv'
  BY <1>6, AbandonKeepsIInv DEF Crash
<1>7. QED BY <1>1, <1>2, <1>3, <1>4, <1>5, <1>6 DEF Next

(* IInv holds in every reachable state. *)
LEMMA InvariantHolds == Spec => []IInv
BY InitIInv, NextKeepsIInv, PTL DEF Spec

(* Type correctness: in particular the loop over collisions stays within its
   retries, and what a call holds is made of rows and entities. *)
THEOREM TypeCorrect == Spec => []TypeOK
<1>1. IInv => TypeOK BY DEF IInv
<1>2. QED BY <1>1, InvariantHolds, PTL

(* Tokens handed out resolve for good: depseudonymize gives, for a token any
   call ever returned, the value it stood for and nothing else. *)
THEOREM AnswersAlwaysResolve == Spec => []AnswersResolve
<1>1. IInv => AnswersResolve
  BY DEF IInv, KeysUnique, AnswersResolve, Depseudonymize, Holders
<1>2. QED BY <1>1, InvariantHolds, PTL

(* Entity continuity: pseudonymize and pseudonymize_batch never return two
   tokens for one entity, to whichever sessions. *)
THEOREM OneTokenAlways == Spec => []OneTokenPerEntity
<1>1. IInv => OneTokenPerEntity
  BY DEF IInv, KeysUnique, OneTokenPerEntity
<1>2. QED BY <1>1, InvariantHolds, PTL

-----------------------------------------------------------------------------
(* A token has one value, if any. *)
LEMMA OneValue ==
    ASSUME KeysUnique, NEW token,
           NEW v \in Depseudonymize(token.type, token.hex)
    PROVE  Depseudonymize(token.type, token.hex) = {v}
BY DEF KeysUnique, Depseudonymize, Holders

(* No step of a session takes a row out of the table. *)
LEMMA MapGrows == [Next]_vars => map \subseteq map'
<1>1. ASSUME NEW s \in Sessions, Insert(s) PROVE map \subseteq map'
  BY <1>1 DEF Insert, Collide
<1>2. ASSUME NEW s \in Sessions, CallOne(s) \/ CallBatch(s) \/ ReadBack(s) \/ Crash(s)
      PROVE  map \subseteq map'
  BY <1>2 DEF CallOne, CallBatch, ReadBack, Crash
<1>3. QED BY <1>1, <1>2 DEF Next, vars

(* A token that resolves goes on to resolve to the same value. *)
LEMMA ResolutionStays ==
    ASSUME KeysUnique, KeysUnique', map \subseteq map', NEW token,
           Depseudonymize(token.type, token.hex) # {}
    PROVE  Resolved(token)' = Resolved(token)
<1>1. PICK v \in Depseudonymize(token.type, token.hex) : TRUE
  OBVIOUS
<1>2. Depseudonymize(token.type, token.hex) = {v}
  BY OneValue
<1>3. v \in Depseudonymize(token.type, token.hex)'
  BY <1>1 DEF Depseudonymize, Holders
<1>4. Depseudonymize(token.type, token.hex)' = {v}
  BY <1>3 DEF KeysUnique, Depseudonymize, Holders
<1>5. QED BY <1>2, <1>4 DEF Resolved

(* What was handed out resolves. *)
LEMMA HandedOutResolves ==
    ASSUME IInv, NEW token, HandedOut(token)
    PROVE  Depseudonymize(token.type, token.hex) # {}
<1>1. PICK row \in answers : row.type = token.type /\ row.hex = token.hex
  BY DEF HandedOut
<1>2. row \in Holders(token.type, token.hex)
  BY <1>1 DEF IInv, Holders
<1>3. QED BY <1>2 DEF Depseudonymize

(* One step changes what is shown for a token only if it was made up. *)
LEMMA StepKeepsReadings ==
    ASSUME IInv, IInv', [Next]_vars, NEW token, Resolved(token)' # Resolved(token)
    PROVE  Resolved(token) = token /\ ~HandedOut(token)
<1>1. Depseudonymize(token.type, token.hex) = {}
  BY MapGrows, ResolutionStays DEF IInv
<1>2. QED BY <1>1, HandedOutResolves DEF Resolved

(* ReviewsAgree for every instance: the reading of a case file changes only where
   the agent made a token up. *)
THEOREM ReviewsAlwaysAgree == Spec => ReviewsAgree
<1>1. ASSUME IInv, IInv', [Next]_vars,
             NEW file \in CaseFiles, NEW place \in DOMAIN file, NEW i \in DOMAIN file[place],
             depseudonymize_case_file(file)[place][i]
               # depseudonymize_case_file(file)'[place][i]
      PROVE  /\ depseudonymize_case_file(file)[place][i] = file[place][i]
             /\ ~HandedOut(file[place][i])
  <2>1. depseudonymize_case_file(file)[place][i] = Resolved(file[place][i])
    BY DEF depseudonymize_case_file, resolve_tokens_in_text
  <2>2. depseudonymize_case_file(file)'[place][i] = Resolved(file[place][i])'
    BY DEF depseudonymize_case_file, resolve_tokens_in_text
  <2>3. QED BY <1>1, <2>1, <2>2, StepKeepsReadings
<1>2. IInv /\ IInv' /\ [Next]_vars => SameReading
  BY <1>1 DEF SameReading
<1>3. QED BY <1>2, InvariantHolds, PTL DEF Spec, ReviewsAgree
=============================================================================
