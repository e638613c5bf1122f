----------------------------- MODULE Pseudonymizer -----------------------------
(***************************************************************************)
(* tokenizer.py: pseudonymize, pseudonymize_batch and depseudonymize over  *)
(* the table pseudonym_map, called by any number of sessions at once.      *)
(*                                                                         *)
(* A token is the prefix of its entity type and a random hex part, so a    *)
(* row is [type, real, hex].  INSERT ... ON CONFLICT DO NOTHING and its    *)
(* COMMIT are one action: an insert that meets an uncommitted duplicate    *)
(* waits for its fate.  The read back is another.  What the caller gets    *)
(* leaves for the LLM and the audit log, where answers keeps it.           *)
(***************************************************************************)
EXTENDS Integers

CONSTANTS
    Sessions,               \* database sessions that call the tokenizer
    Types,                  \* domain of PREFIXES
    Reals,                  \* real values: names, external references
    Hexes,                  \* 2^32 random parts in the code
    MAX_COLLISION_RETRIES   \* 5 in the code

ASSUME PseudonymizerAssumption == MAX_COLLISION_RETRIES \in Nat \ {0}

VARIABLES
    map,      \* rows of pseudonym_map
    pc,       \* idle, insert, read
    call,     \* local variables of the call in progress
    answers   \* every row a call has ever returned

vars == <<map, pc, call, answers>>

Rows == [type : Types, real : Reals, hex : Hexes]

(* todo: values without a token yet; known: the dict to return; tried: turns
   of the collision loop used on the value in hand. *)
NoCall == [todo |-> {}, known |-> {}, tried |-> 0]

Entities == [type : Types, real : Reals]

TypeOK ==
    /\ map \subseteq Rows
    /\ pc \in [Sessions -> {"idle", "insert", "read"}]
    /\ call \in [Sessions -> [todo : SUBSET Entities, known : SUBSET Rows,
                              tried : 0..(MAX_COLLISION_RETRIES - 1)]]
    /\ answers \subseteq Rows

Init ==
    /\ map = {}
    /\ pc = [s \in Sessions |-> "idle"]
    /\ call = [s \in Sessions |-> NoCall]
    /\ answers = {}

-----------------------------------------------------------------------------
RowsOf(entity) == {row \in map : row.type = entity.type /\ row.real = entity.real}
Holders(type, hex) == {row \in map : row.type = type /\ row.hex = hex}

(* Variant: the entity type is not looked at. *)
DepseudonymizeAnyType(type, hex) == {row.real : row \in {row \in map : row.hex = hex}}

(* depseudonymize: the real values the table gives for a token, at most one. *)
Depseudonymize(type, hex) == {row.real : row \in Holders(type, hex)}

(* Hand the mapping to the caller. *)
Answer(s, known) ==
    /\ answers' = answers \cup known
    /\ call' = [call EXCEPT ![s] = NoCall]
    /\ pc' = [pc EXCEPT ![s] = "idle"]

(* Go on with the values that remain, or return. *)
Proceed(s, todo, known) ==
    IF todo = {}
      THEN Answer(s, known)
      ELSE /\ call' = [call EXCEPT ![s] = [todo |-> todo, known |-> known, tried |-> 0]]
           /\ pc' = [pc EXCEPT ![s] = "insert"]
           /\ UNCHANGED answers

(* pseudonymize: no lookup first, an insert is always attempted. *)
CallOne(s) ==
    /\ pc[s] = "idle"
    /\ \E entity \in Entities : Proceed(s, {entity}, {})
    /\ UNCHANGED map

(* pseudonymize_batch: one SELECT for what is mapped already; the rest goes
   through pseudonymize value by value. *)
CallBatch(s) ==
    /\ pc[s] = "idle"
    /\ \E type \in Types, reals \in SUBSET Reals \ {{}} :
         LET known == {row \in map : row.type = type /\ row.real \in reals}
             todo == {[type |-> type, real |-> v] : v \in reals \ {row.real : row \in known}}
         IN  Proceed(s, todo, known)
    /\ UNCHANGED map

(* Variant: no primary key. *)
KeyNeverTaken(entity) == FALSE

(* Variant: no unique constraint on the token. *)
TokenNeverTaken(entity, hex) == FALSE

(* The constraints of the table. *)
KeyTaken(entity) == RowsOf(entity) # {}
TokenTaken(entity, hex) == Holders(entity.type, hex) # {}

(* The entity in hand.  A batch walks a list in an order of no consequence. *)
Current(s) == CHOOSE entity \in call[s].todo : TRUE

(* Variant: one turn of the loop too many. *)
CollideOnceMore(s) ==
    /\ UNCHANGED map
    /\ IF call[s].tried < MAX_COLLISION_RETRIES
         THEN call' = [call EXCEPT ![s].tried = @ + 1] /\ UNCHANGED pc
         ELSE call' = [call EXCEPT ![s] = NoCall] /\ pc' = [pc EXCEPT ![s] = "idle"]

(* Variant: the loop starts over instead of raising. *)
CollideForEver(s) ==
    /\ call' = [call EXCEPT ![s].tried = (@ + 1) % MAX_COLLISION_RETRIES]
    /\ UNCHANGED <<map, pc>>

(* IntegrityError: roll back and go round the loop again, or raise. *)
Collide(s) ==
    /\ UNCHANGED map
    /\ IF call[s].tried + 1 < MAX_COLLISION_RETRIES
         THEN call' = [call EXCEPT ![s].tried = @ + 1] /\ UNCHANGED pc
         ELSE call' = [call EXCEPT ![s] = NoCall] /\ pc' = [pc EXCEPT ![s] = "idle"]

(* INSERT of a fresh token.  A row of the entity makes it do nothing; a token
   another entity of the type holds makes it fail. *)
Insert(s) ==
    /\ pc[s] = "insert"
    /\ \E hex \in Hexes : LET entity == Current(s) IN
         \/ /\ KeyTaken(entity)
            /\ pc' = [pc EXCEPT ![s] = "read"]
            /\ UNCHANGED <<map, call>>
         \/ /\ ~KeyTaken(entity)
            /\ ~TokenTaken(entity, hex)
            /\ map' = map \cup {[type |-> entity.type, real |-> entity.real, hex |-> hex]}
            /\ pc' = [pc EXCEPT ![s] = "read"]
            /\ UNCHANGED call
         \/ /\ ~KeyTaken(entity)
            /\ TokenTaken(entity, hex)
            /\ Collide(s)
    /\ UNCHANGED answers

(* SELECT the token that landed, this call's or an earlier one's. *)
ReadBack(s) ==
    /\ pc[s] = "read"
    /\ Proceed(s, call[s].todo \ {Current(s)}, call[s].known \cup RowsOf(Current(s)))
    /\ UNCHANGED map

(* The process dies or the connection is lost; committed rows stay. *)
Crash(s) ==
    /\ pc[s] # "idle"
    /\ pc' = [pc EXCEPT ![s] = "idle"]
    /\ call' = [call EXCEPT ![s] = NoCall]
    /\ UNCHANGED <<map, answers>>

Next ==
    \E s \in Sessions : CallOne(s) \/ CallBatch(s) \/ Insert(s) \/ ReadBack(s) \/ Crash(s)

Spec == Init /\ [][Next]_vars

(* A call that has begun keeps executing its straight-line code. *)
FairSpec == Spec /\ \A s \in Sessions : WF_vars(Insert(s) \/ ReadBack(s))

-----------------------------------------------------------------------------
(* What was handed out stays good: a token in a prompt, a narrative or an audit
   row leads a reviewer back to the very value it stood for, and to no other,
   whatever other sessions insert, collide with or lose afterwards. *)
AnswersResolve ==
    \A row \in answers : Depseudonymize(row.type, row.hex) = {row.real}

(* Entity continuity: any two sessions, turns or runs that name the same entity
   name it by the same token. *)
OneTokenPerEntity ==
    \A r1, r2 \in answers : r1.type = r2.type /\ r1.real = r2.real => r1.hex = r2.hex

(* Collisions cannot hold a caller for ever: every call returns or raises. *)
CallsEnd == \A s \in Sessions : pc[s] # "idle" ~> pc[s] = "idle"

-----------------------------------------------------------------------------
(* The inductive strengthening: the two constraints of the table, and that
   whatever is handed out or about to be is a row of it. *)
KeysUnique ==
    \A r1, r2 \in map :
        r1.type = r2.type => (r1.real = r2.real <=> r1.hex = r2.hex)

IInv ==
    /\ TypeOK
    /\ KeysUnique
    /\ answers \subseteq map
    /\ \A s \in Sessions :
         /\ call[s].known \subseteq map
         /\ pc[s] = "idle" <=> call[s].todo = {}
         /\ pc[s] = "read" => RowsOf(Current(s)) # {}
         /\ pc[s] = "insert" => call[s].tried < MAX_COLLISION_RETRIES
=============================================================================
