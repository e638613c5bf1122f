-------------------------- MODULE ReActSessionProofs --------------------------
(***************************************************************************)
(* For every set of tools and clients, every cap, every number of calls    *)
(* per turn and every pool of keys: the loop is well typed, a call of chat *)
(* gives up for lack of keys only after all of them, requests are well     *)
(* formed whichever client converts the history, and the records and audit *)
(* rows are those of the calls executed, in whole turns.                   *)
(*                                                                         *)
(* PoolInv: the keys given up are the ones just behind the current one.    *)
(* RecordInv: the history is turns, each followed by the answers to its    *)
(* calls; the answers there are tell what has been executed.               *)
(***************************************************************************)
EXTENDS ReActSession, CommonLemmas, FunctionTheorems

(* The calls of a turn are typed, and so is what is done with them. *)
LEMMA NumberedCallsType ==
    ASSUME TypeOK, NEW turn \in Replies, iteration < MAX_ITERATIONS
    PROVE  /\ NumberedCalls(turn) \in Seq(Calls)
           /\ NumberedCalls(turn) # <<>>
<1>1. PICK n \in 1..MaxCallsPerTurn :
        turn \in [1..n -> [tool : Tools \cup {"unregistered"}, parses : BOOLEAN]]
  <2>1. PICK n \in 1..MaxCallsPerTurn :
          turn \in [1..n -> [tool : Tools \cup {"unregistered"},
                             parses : IF client \in {"claude", "gemini"} THEN {TRUE}
                                                                        ELSE BOOLEAN]]
    BY DEF Replies
  <2>2. QED BY <2>1
<1>2. n \in Nat /\ n >= 1 /\ 1..n \subseteq 1..MaxCallsPerTurn
  BY SessionAssumption
<1>3. iteration + 1 \in 1..MAX_ITERATIONS
  BY SessionAssumption DEF TypeOK
<1>4. NumberedCalls(turn) \in [1..n -> Calls]
  BY <1>1, <1>2, <1>3 DEF NumberedCalls, Calls, Ids
<1>5. QED BY <1>2, <1>4

LEMMA InitPoolInv == Init => PoolInv
<1> SUFFICES ASSUME Init PROVE PoolInv
  OBVIOUS
<1>1. TypeOK
  <2>1. System \in Messages /\ User \in Messages
    BY DEF System, User, Messages
  <2>2. messages \in Seq(Messages)
    BY <2>1 DEF Init
  <2>3. key \in 1..PoolSize /\ 0 \in 0..PoolSize /\ 0 \in 0..MAX_ITERATIONS
    BY SessionAssumption DEF Init
  <2>4. pending \in Seq(Calls) /\ toolCalls \in Seq(Calls) /\ audit \in Seq(Calls)
    BY DEF Init
  <2>5. /\ pc \in {"chat", "tools", "done", "raised"}
        /\ error # "none" <=> pc = "raised"
        /\ error \in {"none", "rate_limit", "transient", "other", "audit"}
        /\ retried \in BOOLEAN
        /\ final \in {"none", "empty", "text", "arguments"}
        /\ stopped \in {"iteration_cap", "complete"}
        /\ iteration = 0 /\ attempts = 0
    BY DEF Init
  <2>6. QED BY <2>2, <2>3, <2>4, <2>5 DEF TypeOK
<1>2. client = "groq" => tried = Behind
  BY SessionAssumption DEF Init, Behind
<1>3. QED BY <1>1, <1>2, SessionAssumption DEF Init, PoolInv, KeysAreAllTried

(* A session that has ended without an error, or that goes on with a new call of
   chat, keeps the invariant. *)
LEMMA FreshChat ==
    ASSUME PoolInv, TypeOK', client' = client, key' = key, attempts' = 0, tried' = {},
           error' = error, pc # "raised", pc' = "tools" => pending' # <<>>
    PROVE  PoolInv'
<1>1. tried' = Behind'
  BY SessionAssumption DEF Behind, PoolInv, TypeOK
<1>2. error' = "none"
  BY DEF PoolInv, TypeOK
<1>3. QED BY <1>1, <1>2, SessionAssumption DEF PoolInv, KeysAreAllTried, TypeOK

LEMMA TurnType ==
    ASSUME TypeOK, NEW calls \in Seq(Calls), TakeTurn(calls)
    PROVE  /\ iteration' \in 0..MAX_ITERATIONS /\ retried' \in BOOLEAN
           /\ attempts' \in 0..PoolSize /\ key' \in 1..PoolSize
           /\ messages' \in Seq(Messages)
<1>1. Assistant(calls) \in Messages
  BY DEF Assistant, Messages
<1>2. iteration' \in 0..MAX_ITERATIONS /\ 0 \in 0..PoolSize
  BY SessionAssumption DEF TypeOK, TakeTurn, InLoop
<1>3. messages' \in Seq(Messages)
  BY <1>1 DEF TypeOK, TakeTurn
<1>4. QED BY <1>2, <1>3 DEF TypeOK, TakeTurn

LEMMA ReplyTextKeepsPoolInv == PoolInv /\ ReplyText => PoolInv'
<1> SUFFICES ASSUME PoolInv, ReplyText PROVE PoolInv'
  OBVIOUS
<1>1. TypeOK /\ TakeTurn(<<>>)
  BY DEF PoolInv, ReplyText
<1>2. <<>> \in Seq(Calls)
  OBVIOUS
<1>3. /\ iteration' \in 0..MAX_ITERATIONS /\ retried' \in BOOLEAN
      /\ attempts' \in 0..PoolSize /\ key' \in 1..PoolSize
      /\ messages' \in Seq(Messages)
  BY <1>1, <1>2, TurnType
<1>4. PICK message \in {"empty", "text"} : Finish(message)
  BY DEF ReplyText
<1>5. TypeOK'
  BY <1>1, <1>3, <1>4 DEF Finish, TypeOK, TakeTurn, InLoop
<1>6. QED BY <1>1, <1>4, <1>5, FreshChat DEF TakeTurn, InLoop, Finish

LEMMA ReplyUnregisteredKeepsPoolInv == PoolInv /\ ReplyUnregistered => PoolInv'
<1> SUFFICES ASSUME PoolInv, ReplyUnregistered PROVE PoolInv'
  OBVIOUS
<1>1. PICK turn \in Replies : TakeTurn(NumberedCalls(turn)) /\ Finish("arguments")
  BY DEF ReplyUnregistered
<1>2. TypeOK /\ iteration < MAX_ITERATIONS
  BY <1>1 DEF PoolInv, TakeTurn, InLoop
<1>3. NumberedCalls(turn) \in Seq(Calls)
  BY <1>2, NumberedCallsType
<1>4. TypeOK'
  BY <1>1, <1>2, <1>3, TurnType DEF Finish, TypeOK, TakeTurn, InLoop
<1>5. QED BY <1>1, <1>4, FreshChat DEF TakeTurn, InLoop, Finish

LEMMA ReplyToolCallsKeepsPoolInv == PoolInv /\ ReplyToolCalls => PoolInv'
<1> SUFFICES ASSUME PoolInv, ReplyToolCalls PROVE PoolInv'
  OBVIOUS
<1>1. PICK turn \in Replies :
        /\ TakeTurn(NumberedCalls(turn))
        /\ pending' = NumberedCalls(turn)
        /\ pc' = "tools"
        /\ UNCHANGED <<toolCalls, audit, final, stopped>>
  BY DEF ReplyToolCalls
<1>2. TypeOK /\ iteration < MAX_ITERATIONS
  BY <1>1 DEF PoolInv, TakeTurn, InLoop
<1>3. NumberedCalls(turn) \in Seq(Calls) /\ NumberedCalls(turn) # <<>>
  BY <1>2, NumberedCallsType
<1>4. TypeOK'
  BY <1>1, <1>2, <1>3, TurnType DEF TypeOK, TakeTurn, InLoop
<1>5. QED BY <1>1, <1>3, <1>4, FreshChat DEF TakeTurn, InLoop

(* The actions that keep the record of the session: what is left of the type. *)
LEMMA ProviderType ==
    ASSUME TypeOK, UNCHANGED record, pc' \in {"chat", "tools", "done", "raised"},
           key' \in 1..PoolSize, attempts' \in 0..PoolSize, retried' \in BOOLEAN,
           error' \in {"none", "rate_limit", "transient", "other", "audit"},
           error' # "none" <=> pc' = "raised"
    PROVE  TypeOK'
BY DEF TypeOK, record

LEMMA ChatTransientErrorKeepsPoolInv == PoolInv /\ ChatTransientError => PoolInv'
<1> SUFFICES ASSUME PoolInv, ChatTransientError PROVE PoolInv'
  OBVIOUS
<1>1. TypeOK'
  BY ProviderType DEF PoolInv, TypeOK, ChatTransientError
<1>2. Behind' = Behind
  BY DEF ChatTransientError, Behind
<1>3. QED BY <1>1, <1>2 DEF PoolInv, KeysAreAllTried, ChatTransientError, InLoop, TypeOK

(* Going round the pool, the key given up joins the ones behind, and the next key
   is not one of them while there are keys left. *)
LEMMA RotateMovesOn ==
    ASSUME key \in 1..PoolSize, attempts \in 0..PoolSize, attempts < PoolSize,
           tried = Behind, GiveUpKey, key' = Rotate
    PROVE  /\ tried' = Behind'
           /\ key' \in 1..PoolSize
           /\ attempts + 1 < PoolSize => key' \notin tried'
           /\ attempts + 1 = PoolSize => tried' = 1..PoolSize
BY SessionAssumption DEF GiveUpKey, Rotate, Behind

LEMMA ChatTransientAgainKeepsPoolInv == PoolInv /\ ChatTransientAgain => PoolInv'
<1> SUFFICES ASSUME PoolInv, ChatTransientAgain PROVE PoolInv'
  OBVIOUS
<1>1. TypeOK /\ client = "groq" /\ attempts < PoolSize /\ tried = Behind /\ error = "none"
  BY DEF PoolInv, ChatTransientAgain, InLoop, GiveUpKey, TypeOK
<1>2. /\ tried' = Behind' /\ key' \in 1..PoolSize
      /\ attempts + 1 < PoolSize => key' \notin tried'
      /\ attempts + 1 = PoolSize => tried' = 1..PoolSize
  BY <1>1, RotateMovesOn DEF ChatTransientAgain, TypeOK
<1>3. attempts' \in 0..PoolSize /\ attempts' = attempts + 1
  BY <1>1, SessionAssumption DEF ChatTransientAgain, GiveUpKey, TypeOK
<1>4. CASE attempts + 1 < PoolSize
  <2>1. pc' = pc /\ error' = "none"
    BY <1>1, <1>4 DEF ChatTransientAgain
  <2>2. TypeOK'
    BY <1>1, <1>2, <1>3, <2>1, ProviderType
       DEF ChatTransientAgain, GiveUpKey, InLoop, TypeOK
  <2>3. pc' # "tools"
    BY <2>1 DEF ChatTransientAgain, InLoop
  <2>4. QED BY <1>2, <1>3, <1>4, <2>1, <2>2, <2>3 DEF PoolInv, KeysAreAllTried
<1>5. CASE attempts + 1 = PoolSize
  <2>1. pc' = "raised" /\ error' = "transient"
    BY <1>5, SessionAssumption DEF ChatTransientAgain, Raise
  <2>2. TypeOK'
    BY <1>1, <1>2, <1>3, <2>1, ProviderType DEF ChatTransientAgain, GiveUpKey
  <2>3. QED BY <1>2, <1>5, <2>1, <2>2 DEF PoolInv, KeysAreAllTried, InLoop
<1>6. QED BY <1>1, <1>4, <1>5, SessionAssumption DEF TypeOK

LEMMA ChatRateLimitedKeepsPoolInv == PoolInv /\ ChatRateLimited => PoolInv'
<1> SUFFICES ASSUME PoolInv, ChatRateLimited PROVE PoolInv'
  OBVIOUS
<1>1. TypeOK /\ client = "groq" /\ attempts < PoolSize /\ tried = Behind /\ error = "none"
  BY DEF PoolInv, ChatRateLimited, InLoop, GiveUpKey, TypeOK
<1>2. attempts' \in 0..PoolSize /\ attempts' = attempts + 1
  BY <1>1, SessionAssumption DEF ChatRateLimited, GiveUpKey, TypeOK
<1>3. CASE attempts + 1 < PoolSize
  <2>1. key' = Rotate /\ pc' = pc /\ error' = "none" /\ retried' = retried
    BY <1>1, <1>3 DEF ChatRateLimited
  <2>2. tried' = Behind' /\ key' \in 1..PoolSize /\ key' \notin tried'
    BY <1>1, <1>3, <2>1, RotateMovesOn DEF ChatRateLimited, TypeOK
  <2>3. TypeOK'
    BY <1>1, <1>2, <2>1, <2>2, ProviderType DEF ChatRateLimited, GiveUpKey, InLoop, TypeOK
  <2>4. pc' # "tools"
    BY <2>1 DEF ChatRateLimited, InLoop
  <2>5. QED BY <1>2, <1>3, <2>1, <2>2, <2>3, <2>4 DEF PoolInv, KeysAreAllTried
<1>4. CASE attempts + 1 = PoolSize
  <2>1. pc' = "raised" /\ error' = "rate_limit" /\ key' = key /\ retried' = retried
    BY <1>4, SessionAssumption DEF ChatRateLimited, Raise
  <2>2. tried' = 1..PoolSize
    BY <1>1, <1>4, SessionAssumption DEF ChatRateLimited, GiveUpKey, Behind, TypeOK
  <2>3. TypeOK'
    BY <1>1, <1>2, <2>1, ProviderType DEF ChatRateLimited, GiveUpKey, TypeOK
  <2>4. QED BY <2>1, <2>2, <2>3 DEF PoolInv, KeysAreAllTried, InLoop
<1>5. QED BY <1>1, <1>3, <1>4, SessionAssumption DEF TypeOK

LEMMA ChatRaisesKeepsPoolInv == PoolInv /\ ChatRaises => PoolInv'
<1> SUFFICES ASSUME PoolInv, ChatRaises PROVE PoolInv'
  OBVIOUS
<1>1. /\ pc' = "raised" /\ error' \in {"rate_limit", "transient", "other"}
      /\ client = "groq" /\ error' # "other" => retried
      /\ UNCHANGED <<provider, record>>
  BY DEF ChatRaises, Raise
<1>2. TypeOK'
  BY <1>1, ProviderType DEF PoolInv, TypeOK, provider
<1>3. QED BY <1>1, <1>2 DEF PoolInv, KeysAreAllTried, InLoop, provider

LEMMA DispatchRaisesKeepsPoolInv == PoolInv /\ DispatchRaises => PoolInv'
<1> SUFFICES ASSUME PoolInv, DispatchRaises PROVE PoolInv'
  OBVIOUS
<1>1. pc' = "raised" /\ error' = "audit" /\ UNCHANGED <<provider, record>>
  BY DEF DispatchRaises, Raise
<1>2. TypeOK'
  BY <1>1, ProviderType DEF PoolInv, TypeOK, provider
<1>3. QED BY <1>1, <1>2 DEF PoolInv, KeysAreAllTried, InLoop, provider

LEMMA ReachCapKeepsPoolInv == PoolInv /\ ReachCap => PoolInv'
<1> SUFFICES ASSUME PoolInv, ReachCap PROVE PoolInv'
  OBVIOUS
<1>1. pc = "chat" /\ pc' = "done" /\ UNCHANGED <<provider, error, record>>
  BY DEF ReachCap
<1>2. TypeOK'
  BY <1>1, ProviderType DEF PoolInv, TypeOK, provider
<1>3. Behind' = Behind
  BY <1>1 DEF Behind, provider
<1>4. QED BY <1>1, <1>2, <1>3 DEF PoolInv, KeysAreAllTried, InLoop, provider

LEMMA ExecuteCallKeepsPoolInv == PoolInv /\ ExecuteCall => PoolInv'
<1> SUFFICES ASSUME PoolInv, ExecuteCall PROVE PoolInv'
  OBVIOUS
<1>. DEFINE call == Head(pending)
<1>1. /\ pc = "tools" /\ UNCHANGED <<provider, error, iteration, final, stopped>>
      /\ pc' \in {"chat", "tools"} /\ TypeOK
  BY DEF ExecuteCall, PoolInv
<1>2. Behind' = Behind
  BY <1>1 DEF Behind, provider
<1>3. pending \in Seq(Calls) /\ pending # <<>>
  BY <1>1 DEF PoolInv, TypeOK
<1>4. call \in Calls /\ pending' \in Seq(Calls)
  BY <1>3 DEF ExecuteCall
<1>5. ToolAnswer(call.id) \in Messages
  BY <1>4 DEF ToolAnswer, Messages, Calls
<1>6. audit' \in Seq(Calls) /\ toolCalls' \in Seq(Calls) /\ messages' \in Seq(Messages)
  <2>1. audit' \in Seq(Calls) /\ toolCalls' \in Seq(Calls)
    BY <1>1, <1>4 DEF ExecuteCall, TypeOK
  <2>2. messages' = Append(messages, ToolAnswer(call.id))
    BY DEF ExecuteCall
  <2>3. QED BY <1>1, <1>5, <2>1, <2>2 DEF TypeOK
<1>7. TypeOK'
  BY <1>1, <1>4, <1>6 DEF TypeOK, provider
<1>8. pc' = "tools" => pending' # <<>>
  <2>1. pending' = Tail(pending) /\ pc' = IF Len(pending) = 1 THEN "chat" ELSE "tools"
    BY DEF ExecuteCall
  <2>2. Len(pending) # 1 => Tail(pending) # <<>>
    <3>1. Len(pending) \in Nat /\ Len(pending) > 0 /\ Len(Tail(pending)) = Len(pending) - 1
      BY <1>3
    <3>2. Tail(pending) = <<>> => Len(Tail(pending)) = 0
      OBVIOUS
    <3>3. QED BY <3>1, <3>2
  <2>3. QED BY <2>1, <2>2
<1>9. client = "groq" => key \notin Behind
  BY <1>1, SessionAssumption DEF PoolInv, Behind, TypeOK
<1>10. QED BY <1>1, <1>2, <1>7, <1>8, <1>9 DEF PoolInv, KeysAreAllTried, provider, TypeOK

LEMMA NextKeepsPoolInv == PoolInv /\ [Next]_vars => PoolInv'
<1> SUFFICES ASSUME PoolInv, [Next]_vars PROVE PoolInv'
  OBVIOUS
<1>1. CASE UNCHANGED vars
  BY <1>1 DEF vars, provider, record, PoolInv, TypeOK, KeysAreAllTried, Behind, InLoop
<1>2. CASE Next
  BY <1>2, ChatTransientErrorKeepsPoolInv, ChatTransientAgainKeepsPoolInv,
     ChatRateLimitedKeepsPoolInv, ChatRaisesKeepsPoolInv, ReplyTextKeepsPoolInv,
     ReplyUnregisteredKeepsPoolInv, ReplyToolCallsKeepsPoolInv, ExecuteCallKeepsPoolInv,
     DispatchRaisesKeepsPoolInv, ReachCapKeepsPoolInv
     DEF Next
<1>3. QED BY <1>1, <1>2

LEMMA PoolInvAlways == Spec => []PoolInv
BY InitPoolInv, NextKeepsPoolInv, PTL DEF Spec

(* The loop stays well typed: within its cap, its pool and the kinds of outcome it
   reports, whichever client is imported and whatever the provider answers. *)
THEOREM TypeCorrect == Spec => []TypeOK
<1>1. PoolInv => TypeOK
  BY DEF PoolInv
<1>2. QED BY <1>1, PoolInvAlways, PTL

(* One call of groq_client.chat never comes back to a key it has given up, wherever
   in the pool an earlier session left it, and it raises for lack of keys only when
   all of them are used up or the failing request was itself a repetition. *)
THEOREM KeysAlwaysAllTried == Spec => []KeysAreAllTried
<1>1. PoolInv => KeysAreAllTried
  BY DEF PoolInv
<1>2. QED BY <1>1, PoolInvAlways, PTL

-----------------------------------------------------------------------------
(* One more message: the others stay where they are. *)
LEMMA OneMoreMessage ==
    ASSUME TypeOK, NEW m \in Messages, messages' = Append(messages, m)
    PROVE  /\ Len(messages) \in Nat /\ Len(messages') = Len(messages) + 1
           /\ DOMAIN messages = 1..Len(messages)
           /\ DOMAIN messages' = 1..(Len(messages) + 1)
           /\ messages'[Len(messages) + 1] = m
           /\ \A i \in 1..Len(messages) : messages'[i] = messages[i]
           /\ Turns \subseteq 1..Len(messages)
           /\ Turns' = IF m.role = "assistant" THEN Turns \cup {Len(messages) + 1} ELSE Turns
<1>1. /\ messages \in Seq(Messages) /\ Len(messages) \in Nat
      /\ DOMAIN messages = 1..Len(messages)
  BY DEF TypeOK
<1>2. /\ Len(messages') = Len(messages) + 1
      /\ DOMAIN messages' = 1..(Len(messages) + 1)
      /\ messages'[Len(messages) + 1] = m
      /\ \A i \in 1..Len(messages) : messages'[i] = messages[i]
  BY <1>1
<1> DEFINE n == Len(messages)
<1> HIDE DEF n
<1>3. /\ n \in Nat /\ DOMAIN messages = 1..n /\ DOMAIN messages' = 1..(n + 1)
      /\ messages'[n + 1] = m /\ \A i \in 1..n : messages'[i] = messages[i]
  BY <1>1, <1>2 DEF n
<1>4. \A i \in 1..(n + 1) : i = n + 1 \/ i \in 1..n
  BY <1>3
<1>5. n + 1 \in 1..(n + 1) /\ 1..n \subseteq 1..(n + 1)
  BY <1>3
<1>6. Turns' = IF m.role = "assistant" THEN Turns \cup {n + 1} ELSE Turns
  BY <1>3, <1>4, <1>5 DEF Turns
<1>7. Turns \subseteq 1..n
  BY <1>3 DEF Turns
<1>8. QED BY <1>1, <1>2, <1>6, <1>7 DEF n

LEMMA TurnsTypes ==
    ASSUME TypeOK
    PROVE  /\ Turns \subseteq 1..Len(messages) /\ Turns \subseteq Nat /\ IsFiniteSet(Turns)
           /\ \A i \in Turns : /\ messages[i].calls \in Seq(Calls)
                               /\ DOMAIN messages[i].calls = 1..Len(messages[i].calls)
                               /\ Len(messages[i].calls) \in Nat
                               /\ \A k \in DOMAIN messages[i].calls :
                                    /\ messages[i].calls[k] \in Calls
                                    /\ messages[i].calls[k].id \in Ids
<1>1. messages \in Seq(Messages) /\ DOMAIN messages = 1..Len(messages) /\ Len(messages) \in Nat
  BY DEF TypeOK
<1>2. Turns \subseteq 1..Len(messages) /\ Turns \subseteq DOMAIN messages
  BY <1>1 DEF Turns
<1>3. IsFiniteSet(Turns)
  BY <1>1, <1>2, PlacesAreFinite
<1>4. ASSUME NEW i \in Turns
      PROVE  /\ messages[i].calls \in Seq(Calls)
             /\ DOMAIN messages[i].calls = 1..Len(messages[i].calls)
             /\ Len(messages[i].calls) \in Nat
             /\ \A k \in DOMAIN messages[i].calls :
                  /\ messages[i].calls[k] \in Calls
                  /\ messages[i].calls[k].id \in Ids
  <2>1. messages[i] \in Messages
    BY <1>1, <1>2
  <2>2. messages[i].calls \in Seq(Calls)
    BY <2>1 DEF Messages
  <2> DEFINE cs == messages[i].calls
  <2> HIDE DEF cs
  <2>3. cs \in Seq(Calls)
    BY <2>2 DEF cs
  <2>4. DOMAIN cs = 1..Len(cs) /\ Len(cs) \in Nat /\ \A k \in DOMAIN cs : cs[k] \in Calls
    BY <2>3
  <2>5. \A k \in DOMAIN cs : cs[k].id \in Ids
    BY <2>4 DEF Calls
  <2>6. QED BY <2>3, <2>4, <2>5 DEF cs
<1>5. QED BY <1>1, <1>2, <1>3, <1>4

LEMMA IdsAreNumbers == ASSUME NEW id \in Ids PROVE id[1] \in Nat /\ id[2] \in Nat /\ id = <<id[1], id[2]>>
BY DEF Ids

(* A new turn comes after the answers to all earlier ones. *)
LEMMA TakeTurnKeepsRecord ==
    ASSUME TypeOK, RecordInv, NEW calls \in Seq(Calls),
           \A k \in DOMAIN calls : calls[k].id = <<iteration + 1, k>>,
           TakeTurn(calls), UNCHANGED <<toolCalls, audit>>
    PROVE  /\ MessagesInv' /\ IdsInv' /\ ExecutedInv'
           /\ Cardinality(Turns') = iteration'
           /\ Len(messages') = Len(messages) + 1 /\ Len(messages') \in Turns'
           /\ messages'[Len(messages')].calls = calls
           /\ \A j \in Turns' : j <= Len(messages')
<1> DEFINE n == Len(messages)
           m == Assistant(calls)
<1>1. /\ messages' = Append(messages, m) /\ pc = "chat" /\ iteration' = iteration + 1
      /\ m \in Messages /\ m.role = "assistant" /\ m.calls = calls /\ m.answers = {}
  BY DEF TakeTurn, InLoop, Assistant, Messages
<1> HIDE DEF m
<1>2. /\ n \in Nat /\ Len(messages') = n + 1
      /\ DOMAIN messages = 1..n /\ DOMAIN messages' = 1..(n + 1)
      /\ messages'[n + 1] = m /\ \A i \in 1..n : messages'[i] = messages[i]
      /\ Turns \subseteq 1..n /\ Turns' = Turns \cup {n + 1}
  BY <1>1, OneMoreMessage
<1>3. /\ \A i \in Turns : /\ Len(messages[i].calls) \in Nat
                          /\ DOMAIN messages[i].calls = 1..Len(messages[i].calls)
                          /\ \A k \in DOMAIN messages[i].calls : messages[i].calls[k].id \in Ids
      /\ IsFiniteSet(Turns)
  BY TurnsTypes
<1>4. \A i \in Turns : i + Len(messages[i].calls) <= n
  BY <1>1 DEF RecordInv, PendingInv
<1>5. \A i \in Turns : \A k \in DOMAIN messages[i].calls : i + k \in 1..n
  BY <1>2, <1>3, <1>4
<1>6. DOMAIN calls = 1..Len(calls) /\ Len(calls) \in Nat
  OBVIOUS
<1>7. /\ n >= 2 /\ messages[1] = System /\ messages[2] = User
      /\ \A i \in DOMAIN messages : i > 2 =>
           \/ messages[i].role = "assistant" /\ messages[i].answers = {}
           \/ /\ messages[i].role = "tool" /\ messages[i].calls = <<>>
              /\ \E j \in Turns : j < i /\ i <= j + Len(messages[j].calls)
      /\ \A i \in Turns : \A k \in DOMAIN messages[i].calls :
           i + k <= n => messages[i + k] = ToolAnswer(messages[i].calls[k].id)
      /\ \A i, j \in Turns : i < j => i + Len(messages[i].calls) < j
  BY DEF RecordInv, MessagesInv
<1>8. n + 1 \notin Turns /\ \A i \in Turns : i < n + 1 /\ i \in 1..n
  BY <1>2
<1>a. \A i \in 1..(n + 1) : i = n + 1 \/ i \in 1..n
  BY <1>2
<1> HIDE DEF n
<1>9. MessagesInv'
  <2>1. n + 1 >= 2 /\ messages'[1] = System /\ messages'[2] = User
    BY <1>2, <1>7
  <2>2. ASSUME NEW i \in 1..(n + 1), i > 2
        PROVE  \/ messages'[i].role = "assistant" /\ messages'[i].answers = {}
               \/ /\ messages'[i].role = "tool" /\ messages'[i].calls = <<>>
                  /\ \E j \in Turns' : j < i /\ i <= j + Len(messages'[j].calls)
    <3>1. CASE i = n + 1
      BY <1>1, <1>2, <3>1
    <3>2. CASE i \in 1..n
      BY <1>2, <1>7, <1>8, <2>2, <3>2
    <3>3. QED BY <1>a, <3>1, <3>2
  <2>3. ASSUME NEW i \in Turns', NEW k \in DOMAIN messages'[i].calls, i + k <= n + 1
        PROVE  messages'[i + k] = ToolAnswer(messages'[i].calls[k].id)
    <3>1. CASE i = n + 1
      <4>1. k \in 1..Len(calls)
        BY <1>1, <1>2, <1>6, <3>1
      <4>2. QED BY <1>2, <1>6, <2>3, <3>1, <4>1
    <3>2. CASE i \in Turns
      <4>1. messages'[i] = messages[i] /\ k \in DOMAIN messages[i].calls
        BY <1>2, <1>8, <3>2
      <4>2. i + k \in 1..n
        BY <1>5, <3>2, <4>1
      <4>3. i + k <= n
        BY <1>2, <4>2
      <4>4. messages[i + k] = ToolAnswer(messages[i].calls[k].id)
        BY <1>7, <3>2, <4>1, <4>3
      <4>5. messages'[i + k] = messages[i + k]
        BY <1>2, <4>2
      <4>6. QED BY <4>1, <4>4, <4>5
    <3>3. QED BY <1>2, <3>1, <3>2
  <2>4. ASSUME NEW i \in Turns', NEW j \in Turns', i < j
        PROVE  i + Len(messages'[i].calls) < j
    <3>1. i \in Turns
      BY <1>2, <1>8, <2>4
    <3>2. messages'[i] = messages[i] /\ i + Len(messages[i].calls) <= n
      BY <1>2, <1>4, <1>8, <3>1 DEF n
    <3> DEFINE l == Len(messages[i].calls)
    <3>a. l \in Nat /\ i \in Nat /\ i + l <= n /\ Len(messages'[i].calls) = l
      BY <1>2, <1>3, <3>1, <3>2
    <3> HIDE DEF l
    <3>3. CASE j = n + 1
      BY <1>2, <3>3, <3>a
    <3>4. CASE j \in Turns
      BY <1>7, <2>4, <3>1, <3>2, <3>4
    <3>5. QED BY <1>2, <3>3, <3>4
  <2>5. QED BY <1>2, <2>1, <2>2, <2>3, <2>4 DEF MessagesInv
<1>10. IdsInv'
  <2>1. iteration \in Nat
    BY SessionAssumption DEF TypeOK
  <2>2. SUFFICES ASSUME NEW i \in Turns', NEW j \in Turns', NEW k \in DOMAIN messages'[i].calls,
                        NEW o \in DOMAIN messages'[j].calls
                 PROVE  LET a == messages'[i].calls[k].id
                            b == messages'[j].calls[o].id
                        IN  /\ a[2] = k /\ a[1] <= iteration'
                            /\ i < j => a[1] < b[1]
                            /\ i = j => a[1] = b[1]
    BY DEF IdsInv
  <2>3. CASE i = n + 1 /\ j = n + 1
    BY <1>1, <1>2, <2>1, <2>3
  <2>4. CASE i = n + 1 /\ j \in Turns
    BY <1>1, <1>2, <1>8, <2>1, <2>4
  <2> DEFINE a == messages[i].calls[k].id
             b == messages[j].calls[o].id
  <2>5. CASE i \in Turns /\ j = n + 1
    <3>1. messages'[i] = messages[i] /\ k \in DOMAIN messages[i].calls
      BY <1>2, <1>8, <2>5
    <3>2. a[2] = k /\ a[1] <= iteration /\ a \in Ids
      BY <1>3, <2>5, <3>1 DEF RecordInv, IdsInv
    <3>3. a[1] \in Nat
      BY <3>2, IdsAreNumbers
    <3>4. messages'[j].calls[o].id[1] = iteration + 1
      BY <1>1, <1>2, <2>5
    <3> HIDE DEF a
    <3>5. a[1] <= iteration + 1 /\ a[1] < iteration + 1 /\ i # j
      BY <1>8, <2>1, <2>5, <3>2, <3>3
    <3>6. messages'[i].calls[k].id = a
      BY <3>1 DEF a
    <3>7. QED BY <1>1, <3>2, <3>4, <3>5, <3>6
  <2>6. CASE i \in Turns /\ j \in Turns
    <3>1. /\ messages'[i] = messages[i] /\ k \in DOMAIN messages[i].calls
          /\ messages'[j] = messages[j] /\ o \in DOMAIN messages[j].calls
      BY <1>2, <1>8, <2>6
    <3>2. /\ a[2] = k /\ a[1] <= iteration /\ a \in Ids
          /\ i < j => a[1] < b[1]
          /\ i = j => a[1] = b[1]
      BY <1>3, <2>6, <3>1 DEF RecordInv, IdsInv
    <3>3. a[1] \in Nat
      BY <3>2, IdsAreNumbers
    <3> HIDE DEF a, b
    <3>4. a[1] <= iteration + 1
      BY <2>1, <3>2, <3>3
    <3>5. messages'[i].calls[k].id = a /\ messages'[j].calls[o].id = b
      BY <3>1 DEF a, b
    <3>6. QED BY <1>1, <3>2, <3>4, <3>5
  <2>7. QED BY <1>2, <2>3, <2>4, <2>5, <2>6
<1>11. ExecutedInv'
  <2>1. ASSUME NEW q \in DOMAIN toolCalls
        PROVE  \E i \in Turns' : \E k \in DOMAIN messages'[i].calls :
                 i + k <= n + 1 /\ toolCalls[q] = messages'[i].calls[k]
    <3>0. PICK i \in Turns : \E k \in DOMAIN messages[i].calls :
            i + k <= n /\ toolCalls[q] = messages[i].calls[k]
      BY DEF RecordInv, ExecutedInv, n
    <3>1. PICK k \in DOMAIN messages[i].calls :
            i + k <= n /\ toolCalls[q] = messages[i].calls[k]
      BY <3>0
    <3>2. i \in Turns' /\ messages'[i] = messages[i]
      BY <1>2, <1>8
    <3>3. i + k \in Nat /\ i + k <= n + 1
      BY <1>2, <1>5, <3>1
    <3>4. QED BY <3>1, <3>2, <3>3
  <2>2. ASSUME NEW i \in Turns', NEW k \in DOMAIN messages'[i].calls, i + k <= n + 1
        PROVE  messages'[i].calls[k] \in Range(toolCalls)
    <3>1. CASE i = n + 1
      <4>1. k \in 1..Len(calls)
        BY <1>1, <1>2, <1>6, <3>1
      <4>2. QED BY <1>2, <1>6, <2>2, <3>1, <4>1
    <3>2. CASE i \in Turns
      <4>1. messages'[i] = messages[i] /\ k \in DOMAIN messages[i].calls
        BY <1>2, <1>8, <3>2
      <4>2. i + k \in 1..n
        BY <1>5, <3>2, <4>1
      <4>3. i + k <= n
        BY <1>2, <4>2
      <4>4. QED BY <3>2, <4>1, <4>3 DEF RecordInv, ExecutedInv, n
    <3>3. QED BY <1>2, <3>1, <3>2
  <2>3. InOrder(toolCalls) /\ audit = Select(toolCalls, {call \in Calls : call.parses})
    BY DEF RecordInv, ExecutedInv
  <2>4. UNCHANGED toolCalls /\ UNCHANGED audit
    OBVIOUS
  <2>5. InOrder(toolCalls)' /\ (audit = Select(toolCalls, {call \in Calls : call.parses}))'
    BY <2>3, <2>4 DEF InOrder
  <2>6. QED BY <1>2, <2>1, <2>2, <2>4, <2>5 DEF ExecutedInv
<1>12. Cardinality(Turns') = iteration'
  <2>1. Cardinality(Turns) = iteration
    BY DEF RecordInv, EndInv
  <2>2. QED BY <1>1, <1>2, <1>3, <1>8, <2>1, FS_AddElement
<1>13. Len(messages') = Len(messages) + 1 /\ Len(messages') = n + 1
  BY <1>2 DEF n
<1>14. \A j \in Turns' : j <= n + 1
  BY <1>2, <1>8
<1>15. QED BY <1>1, <1>2, <1>9, <1>10, <1>11, <1>12, <1>13, <1>14

LEMMA InitRecordInv == Init => RecordInv
<1> SUFFICES ASSUME Init PROVE RecordInv
  OBVIOUS
<1>1. messages = <<System, User>> /\ toolCalls = <<>> /\ audit = <<>>
  BY DEF Init
<1>2. Len(messages) = 2 /\ DOMAIN messages = 1..2 /\ messages[1] = System /\ messages[2] = User
  BY <1>1
<1>3. \A i \in DOMAIN messages : messages[i].role # "assistant" /\ ~(i > 2)
  BY <1>2 DEF System, User
<1>4. Turns = {}
  BY <1>3 DEF Turns
<1>5. audit = Select(toolCalls, {call \in Calls : call.parses})
  <2>1. toolCalls \in Seq(Calls) /\ Range(toolCalls) = {}
    BY <1>1 DEF Range
  <2>2. QED BY <1>1, <2>1, SelectAll
<1>6. DOMAIN toolCalls = {}
  BY <1>1
<1>7. MessagesInv /\ IdsInv
  BY <1>2, <1>3, <1>4 DEF MessagesInv, IdsInv
<1>8. PendingInv
  BY <1>4 DEF PendingInv, Init
<1>9. ExecutedInv
  BY <1>4, <1>5, <1>6 DEF ExecutedInv, InOrder
<1>10. EndInv
  BY <1>4, FS_EmptySet DEF EndInv, Init
<1>11. QED BY <1>7, <1>8, <1>9, <1>10 DEF RecordInv

(* A turn that ends the session. *)
LEMMA FinishKeepsRecord ==
    ASSUME TypeOK, RecordInv, NEW calls \in Seq(Calls),
           \A k \in DOMAIN calls : calls[k].id = <<iteration + 1, k>>,
           TakeTurn(calls), NEW message \in {"empty", "text", "arguments"}, Finish(message)
    PROVE  RecordInv'
<1>1. UNCHANGED <<toolCalls, audit>> /\ pc' = "done" /\ stopped' = "complete" /\ final' = message
  BY DEF Finish
<1>2. /\ MessagesInv' /\ IdsInv' /\ ExecutedInv' /\ Cardinality(Turns') = iteration'
      /\ Len(messages') \in Turns'
  BY <1>1, TakeTurnKeepsRecord
<1>3. PendingInv'
  BY <1>1 DEF PendingInv
<1>4. EndInv'
  BY <1>1, <1>2 DEF EndInv
<1>5. QED BY <1>2, <1>3, <1>4 DEF RecordInv

LEMMA ReplyTextKeepsRecordInv == TypeOK /\ RecordInv /\ ReplyText => RecordInv'
<1> SUFFICES ASSUME TypeOK, RecordInv, ReplyText PROVE RecordInv'
  OBVIOUS
<1>1. PICK message \in {"empty", "text"} : Finish(message)
  BY DEF ReplyText
<1>2. TakeTurn(<<>>) /\ <<>> \in Seq(Calls) /\ DOMAIN <<>> = {}
  BY DEF ReplyText
<1>3. QED BY <1>1, <1>2, FinishKeepsRecord

LEMMA NumberedCallsIds ==
    ASSUME NEW turn
    PROVE  \A k \in DOMAIN NumberedCalls(turn) :
             NumberedCalls(turn)[k].id = <<iteration + 1, k>>
BY DEF NumberedCalls

LEMMA ReplyUnregisteredKeepsRecordInv == TypeOK /\ RecordInv /\ ReplyUnregistered => RecordInv'
<1> SUFFICES ASSUME TypeOK, RecordInv, ReplyUnregistered PROVE RecordInv'
  OBVIOUS
<1>1. PICK turn \in Replies : TakeTurn(NumberedCalls(turn)) /\ Finish("arguments")
  BY DEF ReplyUnregistered
<1>2. iteration < MAX_ITERATIONS
  BY <1>1 DEF TakeTurn, InLoop
<1>3. NumberedCalls(turn) \in Seq(Calls)
  BY <1>2, NumberedCallsType
<1>4. QED BY <1>1, <1>3, NumberedCallsIds, FinishKeepsRecord

LEMMA ReplyToolCallsKeepsRecordInv == TypeOK /\ RecordInv /\ ReplyToolCalls => RecordInv'
<1> SUFFICES ASSUME TypeOK, RecordInv, ReplyToolCalls PROVE RecordInv'
  OBVIOUS
<1> DEFINE calls(turn) == NumberedCalls(turn)
<1>1. PICK turn \in Replies :
        /\ TakeTurn(calls(turn)) /\ pending' = calls(turn) /\ pc' = "tools"
        /\ UNCHANGED <<toolCalls, audit, final, stopped>>
  BY DEF ReplyToolCalls
<1>2. iteration < MAX_ITERATIONS /\ pc = "chat"
  BY <1>1 DEF TakeTurn, InLoop
<1> DEFINE cs == NumberedCalls(turn)
           i == Len(messages')
<1>3. cs \in Seq(Calls)
  BY <1>2, NumberedCallsType
<1>4. /\ MessagesInv' /\ IdsInv' /\ ExecutedInv' /\ Cardinality(Turns') = iteration'
      /\ i = Len(messages) + 1 /\ i \in Turns' /\ messages'[i].calls = cs
      /\ \A j \in Turns' : j <= i
  BY <1>1, <1>3, NumberedCallsIds, TakeTurnKeepsRecord
<1>5. i \in Nat
  BY <1>4 DEF TypeOK
<1> HIDE DEF cs, i
<1>6. DOMAIN cs = 1..Len(cs) /\ Len(cs) \in Nat
  BY <1>3
<1>7. \A k \in DOMAIN cs : i - i + k = k
  BY <1>5, <1>6
<1>8. pending' = cs /\ pc' = "tools" /\ UNCHANGED stopped /\ UNCHANGED final
  BY <1>1 DEF cs
<1>9. PendingInv'
  <2>1. i + Len(messages'[i].calls) = i + Len(pending')
    BY <1>4, <1>8
  <2>2. \A k \in DOMAIN pending' : pending'[k] = messages'[i].calls[i - i + k]
    BY <1>4, <1>7, <1>8
  <2>3. QED BY <1>4, <1>8, <2>1, <2>2 DEF PendingInv, i
<1>10. EndInv'
  BY <1>2, <1>4, <1>8 DEF RecordInv, EndInv
<1>11. QED BY <1>4, <1>9, <1>10 DEF RecordInv

(* The steps that touch nothing of the record. *)
LEMMA UntouchedRecord ==
    ASSUME TypeOK, RecordInv, UNCHANGED record,
           \/ pc = "chat" /\ pc' = "chat"
           \/ pc \in {"chat", "tools"} /\ pc' = "raised"
           \/ pc = "chat" /\ pc' = "done" /\ iteration = MAX_ITERATIONS
    PROVE  RecordInv'
<1>1. UNCHANGED <<iteration, pending, messages, toolCalls, audit, final, stopped>>
  BY DEF record
<1>2. UNCHANGED Turns
  BY <1>1 DEF Turns
<1>3. MessagesInv'
  BY <1>1, <1>2 DEF RecordInv, MessagesInv
<1>4. IdsInv'
  BY <1>1, <1>2 DEF RecordInv, IdsInv
<1>5. PendingInv'
  BY <1>1, <1>2 DEF RecordInv, PendingInv
<1>6. ExecutedInv'
  BY <1>1, <1>2 DEF RecordInv, ExecutedInv, InOrder
<1>7. EndInv'
  BY <1>1, <1>2 DEF RecordInv, EndInv
<1>8. QED BY <1>3, <1>4, <1>5, <1>6, <1>7 DEF RecordInv

(* The next call is the one that the answer to come belongs to. *)
LEMMA NextCall ==
    ASSUME TypeOK, RecordInv, pc = "tools", pending # <<>>
    PROVE  \E i \in Turns : \E k \in DOMAIN messages[i].calls :
             /\ Head(pending) = messages[i].calls[k]
             /\ i + k = Len(messages) + 1
             /\ i + Len(messages[i].calls) = Len(messages) + Len(pending)
             /\ \A j \in Turns : j <= i
             /\ \A n \in 1..Len(pending) : pending[n] = messages[i].calls[Len(messages) - i + n]
<1> DEFINE n == Len(messages)
           p == Len(pending)
<1>1. n \in Nat /\ p \in Nat \ {0} /\ DOMAIN pending = 1..p /\ Head(pending) = pending[1]
  BY EmptySeq DEF TypeOK
<1>2. PICK i \in Turns :
        /\ \A j \in Turns : j <= i
        /\ i + Len(messages[i].calls) = n + p
        /\ \A x \in DOMAIN pending : pending[x] = messages[i].calls[n - i + x]
  BY DEF RecordInv, PendingInv
<1> DEFINE l == Len(messages[i].calls)
           k == n - i + 1
<1>3. i \in 1..n /\ l \in Nat /\ DOMAIN messages[i].calls = 1..l
  BY TurnsTypes
<1> HIDE DEF n, p, l
<1>4. i + l = n + p
  BY <1>2 DEF l
<1>5. k \in 1..l /\ i + k = n + 1
  BY <1>1, <1>3, <1>4
<1>6. pending[1] = messages[i].calls[k]
  BY <1>1, <1>2
<1>7. QED BY <1>1, <1>2, <1>3, <1>5, <1>6 DEF n, p

LEMMA ExecuteCallKeepsRecordInv ==
    ASSUME TypeOK, RecordInv, pending # <<>>, ExecuteCall
    PROVE  RecordInv'
<1> DEFINE n == Len(messages)
           p == Len(pending)
           call == Head(pending)
           m == ToolAnswer(call.id)
           parsing == {c \in Calls : c.parses}
<1>1. /\ pc = "tools"
      /\ audit' = IF call.parses THEN Append(audit, call) ELSE audit
      /\ toolCalls' = Append(toolCalls, call)
      /\ messages' = Append(messages, m)
      /\ pending' = Tail(pending)
      /\ pc' = IF p = 1 THEN "chat" ELSE "tools"
      /\ UNCHANGED <<iteration, final, stopped>>
  BY DEF ExecuteCall
<1>2. PICK i0 \in Turns : \E k \in DOMAIN messages[i0].calls :
         /\ call = messages[i0].calls[k]
         /\ i0 + k = n + 1
         /\ i0 + Len(messages[i0].calls) = n + p
         /\ \A j \in Turns : j <= i0
         /\ \A x \in 1..p : pending[x] = messages[i0].calls[n - i0 + x]
  BY <1>1, NextCall
<1>3. PICK k0 \in DOMAIN messages[i0].calls :
         /\ call = messages[i0].calls[k0]
         /\ i0 + k0 = n + 1
         /\ i0 + Len(messages[i0].calls) = n + p
         /\ \A j \in Turns : j <= i0
         /\ \A x \in 1..p : pending[x] = messages[i0].calls[n - i0 + x]
  BY <1>2
<1>4. /\ \A i \in Turns : /\ i \in 1..n
                          /\ Len(messages[i].calls) \in Nat
                          /\ DOMAIN messages[i].calls = 1..Len(messages[i].calls)
                          /\ \A k \in DOMAIN messages[i].calls :
                               /\ messages[i].calls[k] \in Calls
                               /\ messages[i].calls[k].id \in Ids
  BY TurnsTypes
<1>5. call \in Calls /\ call.id \in Ids /\ toolCalls \in Seq(Calls) /\ audit \in Seq(Calls)
  BY <1>3, <1>4 DEF TypeOK
<1>6. m \in Messages /\ m.role = "tool" /\ m.calls = <<>> /\ m.answers = {call.id}
  BY <1>5 DEF ToolAnswer, Messages
<1>7. p \in Nat \ {0} /\ pending \in Seq(Calls)
  BY EmptySeq DEF TypeOK
<1> HIDE DEF m, call
<1>8. /\ n \in Nat /\ Len(messages') = n + 1
      /\ DOMAIN messages = 1..n /\ DOMAIN messages' = 1..(n + 1)
      /\ messages'[n + 1] = m /\ \A i \in 1..n : messages'[i] = messages[i]
      /\ Turns \subseteq 1..n /\ Turns' = Turns
  BY <1>1, <1>6, OneMoreMessage
<1> HIDE DEF n, p
<1>9. \A i \in Turns : messages'[i] = messages[i]
  BY <1>8
<1>10. \A i \in 1..(n + 1) : i = n + 1 \/ i \in 1..n
  BY <1>8
<1>11. /\ \A i, j \in Turns : i < j => i + Len(messages[i].calls) < j
  BY DEF RecordInv, MessagesInv
<1>12. ASSUME NEW i \in Turns, i # i0
       PROVE  i < i0 /\ i + Len(messages[i].calls) <= n
  <2>1. i <= i0 /\ i \in Nat /\ i0 \in Nat /\ i0 <= n
    BY <1>3, <1>4, <1>8
  <2>2. i < i0
    BY <1>12, <2>1
  <2> DEFINE l == Len(messages[i].calls)
  <2>3. i + l < i0 /\ l \in Nat
    BY <1>4, <1>11, <2>2
  <2> HIDE DEF l
  <2>4. i + l <= n
    BY <1>8, <2>1, <2>3
  <2>5. QED BY <2>2, <2>4 DEF l
(* Which calls have an answer now. *)
<1>13. ASSUME NEW i \in Turns, NEW k \in DOMAIN messages[i].calls, i + k <= n + 1
       PROVE  (i + k \in 1..n) \/ (i = i0 /\ k = k0)
  <2> DEFINE l == Len(messages[i].calls)
  <2>1. l \in Nat /\ k \in 1..l /\ i \in 1..n /\ k0 \in Nat /\ i0 \in Nat
    BY <1>3, <1>4
  <2> HIDE DEF l
  <2>2. CASE i # i0
    <3>1. i + l <= n
      BY <1>12, <2>2 DEF l
    <3>2. QED BY <1>8, <2>1, <3>1
  <2>3. CASE i = i0
    BY <1>3, <1>8, <1>13, <2>1, <2>3
  <2>4. QED BY <2>2, <2>3
<1>14. i0 \in 1..n /\ k0 \in Nat \ {0} /\ i0 + k0 = n + 1 /\ i0 < n + 1
  BY <1>3, <1>4, <1>8
<1>15. MessagesInv'
  <2>1. /\ n >= 2 /\ messages[1] = System /\ messages[2] = User
        /\ \A i \in DOMAIN messages : i > 2 =>
             \/ messages[i].role = "assistant" /\ messages[i].answers = {}
             \/ /\ messages[i].role = "tool" /\ messages[i].calls = <<>>
                /\ \E j \in Turns : j < i /\ i <= j + Len(messages[j].calls)
        /\ \A i \in Turns : \A k \in DOMAIN messages[i].calls :
             i + k <= n => messages[i + k] = ToolAnswer(messages[i].calls[k].id)
    BY DEF RecordInv, MessagesInv, n
  <2>2. n + 1 >= 2 /\ messages'[1] = System /\ messages'[2] = User
    BY <1>8, <2>1
  <2>3. ASSUME NEW i \in 1..(n + 1), i > 2
        PROVE  \/ messages'[i].role = "assistant" /\ messages'[i].answers = {}
               \/ /\ messages'[i].role = "tool" /\ messages'[i].calls = <<>>
                  /\ \E j \in Turns : j < i /\ i <= j + Len(messages'[j].calls)
    <3>1. CASE i = n + 1
      <4> DEFINE l == Len(messages[i0].calls)
      <4>1. i0 + l = n + p
        BY <1>3
      <4> HIDE DEF l
      <4>2. i0 < i /\ i <= i0 + l
        BY <1>7, <1>8, <1>14, <3>1, <4>1
      <4>3. messages'[i].role = "tool" /\ messages'[i].calls = <<>>
        BY <1>6, <1>8, <3>1
      <4>4. QED BY <1>9, <4>2, <4>3 DEF l
    <3>2. CASE i \in 1..n
      <4>1. messages'[i] = messages[i]
        BY <1>8, <3>2
      <4>2. \/ messages[i].role = "assistant" /\ messages[i].answers = {}
            \/ /\ messages[i].role = "tool" /\ messages[i].calls = <<>>
               /\ \E j \in Turns : j < i /\ i <= j + Len(messages[j].calls)
        BY <1>8, <2>1, <2>3, <3>2
      <4>3. QED BY <1>9, <4>1, <4>2
    <3>3. QED BY <1>10, <3>1, <3>2
  <2>4. ASSUME NEW i \in Turns, NEW k \in DOMAIN messages[i].calls, i + k <= n + 1
        PROVE  messages'[i + k] = ToolAnswer(messages[i].calls[k].id)
    <3>1. CASE i = i0 /\ k = k0
      BY <1>3, <1>8, <3>1 DEF m
    <3>2. CASE i + k \in 1..n
      <4>1. i + k <= n /\ messages'[i + k] = messages[i + k]
        BY <1>8, <3>2
      <4>2. QED BY <2>1, <4>1
    <3>3. QED BY <1>13, <2>4, <3>1, <3>2
  <2>5. \A i \in Turns' : \A k \in DOMAIN messages'[i].calls :
          i + k <= n + 1 => messages'[i + k] = ToolAnswer(messages'[i].calls[k].id)
    <3>1. SUFFICES ASSUME NEW i \in Turns', NEW k \in DOMAIN messages'[i].calls, i + k <= n + 1
                   PROVE  messages'[i + k] = ToolAnswer(messages'[i].calls[k].id)
      OBVIOUS
    <3>2. i \in Turns /\ messages'[i] = messages[i] /\ k \in DOMAIN messages[i].calls
      BY <1>8, <1>9
    <3>3. messages'[i + k] = ToolAnswer(messages[i].calls[k].id)
      BY <2>4, <3>1, <3>2
    <3>4. QED BY <3>2, <3>3
  <2>6. \A i, j \in Turns' : i < j => i + Len(messages'[i].calls) < j
    BY <1>8, <1>9, <1>11
  <2>7. Len(messages') = n + 1 /\ DOMAIN messages' = 1..(n + 1) /\ Turns' = Turns
    BY <1>8
  <2>8. Len(messages') >= 2
    BY <2>2, <2>7
  <2>9. \A i \in DOMAIN messages' : i > 2 =>
          \/ messages'[i].role = "assistant" /\ messages'[i].answers = {}
          \/ /\ messages'[i].role = "tool" /\ messages'[i].calls = <<>>
             /\ \E j \in Turns' : j < i /\ i <= j + Len(messages'[j].calls)
    BY <2>3, <2>7
  <2>10. \A i \in Turns' : \A k \in DOMAIN messages'[i].calls :
           i + k <= Len(messages') => messages'[i + k] = ToolAnswer(messages'[i].calls[k].id)
    BY <2>5, <2>7
  <2>11. QED BY <2>2, <2>6, <2>8, <2>9, <2>10 DEF MessagesInv
<1>16. IdsInv'
  BY <1>1, <1>8, <1>9 DEF RecordInv, IdsInv
<1>17. PendingInv'
  <2>1. CASE p = 1
    <3>1. ASSUME NEW i \in Turns
          PROVE  i + Len(messages[i].calls) <= n + 1
      <4> DEFINE l == Len(messages[i].calls)
      <4>1. i \in Nat /\ l \in Nat
        BY <1>4
      <4>2. i = i0 => i + l = n + p
        BY <1>3
      <4>3. i # i0 => i + l <= n
        BY <1>12
      <4> HIDE DEF l
      <4>4. i + l <= n + 1
        BY <1>8, <2>1, <4>1, <4>2, <4>3
      <4>5. QED BY <4>4 DEF l
    <3>2. QED BY <1>1, <1>8, <1>9, <2>1, <3>1 DEF PendingInv
  <2>2. CASE p # 1
    <3>1. /\ Len(pending') = p - 1 /\ DOMAIN pending' = 1..(p - 1)
          /\ \A x \in 1..(p - 1) : pending'[x] = pending[x + 1]
      BY <1>1, <1>7 DEF p
    <3>2. \A x \in 1..(p - 1) : x + 1 \in 1..p /\ n - i0 + (x + 1) = n + 1 - i0 + x
      BY <1>7, <1>8, <1>14
    <3>3. \A x \in 1..(p - 1) : pending'[x] = messages[i0].calls[n + 1 - i0 + x]
      BY <1>3, <3>1, <3>2
    <3> DEFINE l == Len(messages[i0].calls)
    <3>4. i0 + l = n + p /\ l \in Nat
      BY <1>3, <1>4
    <3> HIDE DEF l
    <3>5. i0 + l = (n + 1) + (p - 1)
      BY <1>7, <1>8, <3>4
    <3>6. pc' = "tools" /\ \A j \in Turns : j <= i0
      BY <1>1, <1>3, <2>2
    <3>7. /\ i0 + Len(messages'[i0].calls) = Len(messages') + Len(pending')
          /\ \A x \in DOMAIN pending' :
               pending'[x] = messages'[i0].calls[Len(messages') - i0 + x]
      <4>1. messages'[i0] = messages[i0] /\ Len(messages') = n + 1
        BY <1>8, <1>9
      <4>2. i0 + Len(messages[i0].calls) = (n + 1) + Len(pending')
        BY <3>1, <3>5 DEF l
      <4>3. \A x \in DOMAIN pending' : pending'[x] = messages[i0].calls[n + 1 - i0 + x]
        BY <3>1, <3>3
      <4>4. i0 + Len(messages'[i0].calls) = Len(messages') + Len(pending')
        BY <4>1, <4>2
      <4>5. ASSUME NEW x \in DOMAIN pending'
            PROVE  pending'[x] = messages'[i0].calls[Len(messages') - i0 + x]
        <5>1. Len(messages') - i0 + x = n + 1 - i0 + x
          BY <1>7, <1>8, <1>14, <3>1, <4>1
        <5>2. pending'[x] = messages[i0].calls[n + 1 - i0 + x]
          BY <4>3
        <5>3. QED BY <4>1, <5>1, <5>2
      <4>6. QED BY <4>4, <4>5
    <3>8. i0 \in Turns' /\ \A j \in Turns' : j <= i0
      BY <1>8, <3>6
    <3>9. QED BY <3>6, <3>7, <3>8 DEF PendingInv
  <2>3. QED BY <2>1, <2>2
<1>18. ExecutedInv'
  <2>0. /\ \A x \in DOMAIN toolCalls : \E i \in Turns : \E k \in DOMAIN messages[i].calls :
             i + k <= n /\ toolCalls[x] = messages[i].calls[k]
        /\ \A i \in Turns : \A k \in DOMAIN messages[i].calls :
             i + k <= n => messages[i].calls[k] \in Range(toolCalls)
        /\ InOrder(toolCalls)
        /\ audit = Select(toolCalls, parsing)
    BY DEF RecordInv, ExecutedInv, n
  <2> DEFINE t == Len(toolCalls)
  <2>1. /\ t \in Nat /\ DOMAIN toolCalls = 1..t /\ DOMAIN toolCalls' = 1..(t + 1)
        /\ toolCalls'[t + 1] = call /\ \A x \in 1..t : toolCalls'[x] = toolCalls[x]
    BY <1>1, <1>5
  <2> HIDE DEF t
  <2>2. \A x \in 1..(t + 1) : x = t + 1 \/ x \in 1..t
    BY <2>1
  <2>3. ASSUME NEW x \in 1..t
        PROVE  /\ \E i \in Turns : \E k \in DOMAIN messages[i].calls :
                    i + k <= n + 1 /\ toolCalls[x] = messages[i].calls[k]
               /\ Before(toolCalls[x].id, call.id)
    <3>1. PICK i \in Turns : \E k \in DOMAIN messages[i].calls :
             i + k <= n /\ toolCalls[x] = messages[i].calls[k]
      BY <2>0, <2>1
    <3>2. PICK k \in DOMAIN messages[i].calls :
             i + k <= n /\ toolCalls[x] = messages[i].calls[k]
      BY <3>1
    <3>3. i \in Nat /\ k \in Nat /\ i + k <= n + 1 /\ (i = i0 => k < k0)
      BY <1>4, <1>8, <1>14, <3>2
    <3> DEFINE a == messages[i].calls[k].id
               b == messages[i0].calls[k0].id
    <3>4. /\ a[2] = k /\ b[2] = k0
          /\ i < i0 => a[1] < b[1]
          /\ i = i0 => a[1] = b[1]
      BY DEF RecordInv, IdsInv
    <3>5. i = i0 \/ i < i0
      BY <1>12
    <3>6. Before(a, b)
      BY <3>3, <3>4, <3>5 DEF Before
    <3>7. QED BY <1>3, <3>2, <3>3, <3>6
  <2>4. ASSUME NEW x \in 1..(t + 1)
        PROVE  \E i \in Turns : \E k \in DOMAIN messages[i].calls :
                 i + k <= n + 1 /\ toolCalls'[x] = messages[i].calls[k]
    <3>1. CASE x = t + 1
      <4>1. i0 + k0 <= n + 1
        BY <1>8, <1>14
      <4>2. QED BY <1>3, <2>1, <3>1, <4>1
    <3>2. CASE x \in 1..t
      BY <2>1, <2>3, <3>2
    <3>3. QED BY <2>2, <3>1, <3>2
  <2>5. ASSUME NEW i \in Turns, NEW k \in DOMAIN messages[i].calls, i + k <= n + 1
        PROVE  messages[i].calls[k] \in Range(toolCalls')
    <3>1. CASE i = i0 /\ k = k0
      <4>1. t + 1 \in DOMAIN toolCalls'
        BY <2>1
      <4>2. QED BY <1>3, <2>1, <3>1, <4>1 DEF Range
    <3>2. CASE i + k \in 1..n
      <4>1. i + k <= n
        BY <1>8, <3>2
      <4>2. PICK x \in DOMAIN toolCalls : toolCalls[x] = messages[i].calls[k]
        BY <2>0, <4>1 DEF Range
      <4>3. x \in DOMAIN toolCalls' /\ toolCalls'[x] = toolCalls[x]
        BY <2>1, <4>2
      <4>4. QED BY <4>2, <4>3 DEF Range
    <3>3. QED BY <1>13, <2>5, <3>1, <3>2
  <2>6. InOrder(toolCalls)'
    <3>1. SUFFICES ASSUME NEW x \in 1..(t + 1), NEW y \in 1..(t + 1), x < y
                   PROVE  Before(toolCalls'[x].id, toolCalls'[y].id)
      BY <2>1 DEF InOrder
    <3>2. x \in 1..t
      BY <2>1, <3>1
    <3>3. CASE y = t + 1
      BY <2>1, <2>3, <3>2, <3>3
    <3>4. CASE y \in 1..t
      BY <2>0, <2>1, <3>1, <3>2, <3>4 DEF InOrder
    <3>5. QED BY <2>2, <3>3, <3>4
  <2>7. audit' = Select(toolCalls', parsing)
    <3>1. Select(Append(toolCalls, call), parsing)
            = IF call \in parsing THEN Append(Select(toolCalls, parsing), call)
                                  ELSE Select(toolCalls, parsing)
      BY <1>5, SelectAppend
    <3>2. call \in parsing <=> call.parses
      BY <1>5
    <3>3. QED BY <1>1, <2>0, <3>1, <3>2
  <2>8. (audit = Select(toolCalls, {c \in Calls : c.parses}))'
    BY <2>7
  <2>9. \A x \in DOMAIN toolCalls' : \E i \in Turns' : \E k \in DOMAIN messages'[i].calls :
          i + k <= Len(messages') /\ toolCalls'[x] = messages'[i].calls[k]
    BY <1>8, <1>9, <2>1, <2>4
  <2>10. \A i \in Turns' : \A k \in DOMAIN messages'[i].calls :
           i + k <= Len(messages') => messages'[i].calls[k] \in Range(toolCalls')
    BY <1>8, <1>9, <2>5
  <2>11. QED BY <2>6, <2>8, <2>9, <2>10 DEF ExecutedInv
<1>19. EndInv'
  <2>1. Cardinality(Turns) = iteration /\ stopped # "complete" /\ final = "none"
    BY <1>1 DEF RecordInv, EndInv, TypeOK
  <2>2. QED BY <1>1, <1>8, <2>1 DEF EndInv
<1>20. QED BY <1>15, <1>16, <1>17, <1>18, <1>19 DEF RecordInv

LEMMA NextKeepsRecordInv == PoolInv /\ RecordInv /\ [Next]_vars => RecordInv'
<1> SUFFICES ASSUME PoolInv, RecordInv, [Next]_vars PROVE RecordInv'
  OBVIOUS
<1>1. TypeOK /\ (pc = "tools" => pending # <<>>)
  BY DEF PoolInv
<1>2. CASE ChatTransientError
  BY <1>1, <1>2, UntouchedRecord DEF ChatTransientError, InLoop
<1>3. CASE ChatTransientAgain
  BY <1>1, <1>3, UntouchedRecord DEF ChatTransientAgain, InLoop, GiveUpKey, Raise
<1>4. CASE ChatRateLimited
  BY <1>1, <1>4, UntouchedRecord DEF ChatRateLimited, InLoop, GiveUpKey, Raise
<1>5. CASE ChatRaises
  BY <1>1, <1>5, UntouchedRecord DEF ChatRaises, InLoop, Raise
<1>6. CASE DispatchRaises
  BY <1>1, <1>6, UntouchedRecord DEF DispatchRaises, Raise
<1>7. CASE ReachCap
  BY <1>1, <1>7, UntouchedRecord DEF ReachCap
<1>8. CASE ExecuteCall
  <2>1. pending # <<>>
    BY <1>1, <1>8 DEF ExecuteCall
  <2>2. QED BY <1>1, <1>8, <2>1, ExecuteCallKeepsRecordInv
<1>9. CASE ReplyText \/ ReplyUnregistered \/ ReplyToolCalls
  BY <1>1, <1>9, ReplyTextKeepsRecordInv, ReplyUnregisteredKeepsRecordInv,
     ReplyToolCallsKeepsRecordInv
<1>10. CASE UNCHANGED vars
  <2>1. UNCHANGED <<pc, iteration, pending, messages, toolCalls, audit, final, stopped>>
    BY <1>10 DEF vars, record
  <2>2. UNCHANGED Turns
    BY <2>1 DEF Turns
  <2>3. QED BY <2>1, <2>2 DEF RecordInv, MessagesInv, IdsInv, PendingInv, ExecutedInv,
                              InOrder, EndInv
<1>11. QED BY <1>2, <1>3, <1>4, <1>5, <1>6, <1>7, <1>8, <1>9, <1>10 DEF Next

LEMMA RecordInvAlways == Spec => [](PoolInv /\ RecordInv)
<1>1. Init => PoolInv /\ RecordInv
  BY InitPoolInv, InitRecordInv
<1>2. PoolInv /\ RecordInv /\ [Next]_vars => PoolInv' /\ RecordInv'
  BY NextKeepsPoolInv, NextKeepsRecordInv
<1>3. QED BY <1>1, <1>2, PTL DEF Spec

(* No call comes before itself. *)
LEMMA InOrderOnce ==
    ASSUME NEW calls \in Seq(Calls), InOrder(calls), NEW i \in DOMAIN calls,
           NEW j \in DOMAIN calls, calls[i].id = calls[j].id
    PROVE  i = j
<1>1. i \in Nat /\ j \in Nat /\ calls[i] \in Calls
  OBVIOUS
<1>2. calls[i].id \in Ids
  BY <1>1 DEF Calls
<1> DEFINE a == calls[i].id[1]
           b == calls[i].id[2]
<1>3. a \in Nat /\ b \in Nat
  BY <1>2, IdsAreNumbers
<1> HIDE DEF a, b
<1>4. ~(a < a \/ (a = a /\ b < b))
  BY <1>3
<1>5. ~Before(calls[i].id, calls[j].id) /\ ~Before(calls[j].id, calls[i].id)
  BY <1>4 DEF Before, a, b
<1>6. ~(i < j) /\ ~(j < i)
  BY <1>5 DEF InOrder
<1>7. QED BY <1>1, <1>6

(* Every call that session.run has executed is a record of its own, and dispatch has
   left an audit row for each of them but the ones whose arguments did not parse, in
   the order of the records. *)
THEOREM RecordsAlwaysMatch == Spec => []RecordsMatchAudit
<1>1. PoolInv /\ RecordInv => RecordsMatchAudit
  <2> SUFFICES ASSUME PoolInv, RecordInv PROVE RecordsMatchAudit
    OBVIOUS
  <2>1. /\ audit = Select(toolCalls, {call \in Calls : call.parses})
        /\ InOrder(toolCalls) /\ toolCalls \in Seq(Calls)
    BY DEF PoolInv, TypeOK, RecordInv, ExecutedInv
  <2>2. \A i, j \in DOMAIN toolCalls : toolCalls[i].id = toolCalls[j].id => i = j
    BY <2>1, InOrderOnce
  <2>3. QED BY <2>1, <2>2 DEF RecordsMatchAudit
<1>2. QED BY <1>1, RecordInvAlways, PTL

LEMMA EndedWhole ==
    ASSUME TypeOK, RecordInv
    PROVE  OnlyWholeTurnsExecuted
<1> SUFFICES ASSUME pc = "done"
             PROVE  /\ Range(toolCalls) =
                         UNION {Range(messages[i].calls) :
                                  i \in IF stopped = "complete" THEN Turns \ {Len(messages)}
                                                                 ELSE Turns}
                    /\ InOrder(toolCalls)
                    /\ final = "none" <=> stopped = "iteration_cap"
                    /\ stopped = "iteration_cap" => Cardinality(Turns) = MAX_ITERATIONS
  BY DEF OnlyWholeTurnsExecuted
<1> DEFINE n == Len(messages)
           executed == IF stopped = "complete" THEN Turns \ {n} ELSE Turns
<1>1. /\ Turns \subseteq 1..n
      /\ \A i \in Turns : /\ DOMAIN messages[i].calls = 1..Len(messages[i].calls)
                          /\ Len(messages[i].calls) \in Nat
  BY TurnsTypes
<1>2. n \in Nat /\ stopped \in {"iteration_cap", "complete"}
  BY DEF TypeOK
<1>3. /\ \A q \in DOMAIN toolCalls : \E i \in Turns : \E k \in DOMAIN messages[i].calls :
           i + k <= n /\ toolCalls[q] = messages[i].calls[k]
      /\ \A i \in Turns : \A k \in DOMAIN messages[i].calls :
           i + k <= n => messages[i].calls[k] \in Range(toolCalls)
      /\ InOrder(toolCalls)
  BY DEF RecordInv, ExecutedInv
<1>4. \A i, j \in Turns : i < j => i + Len(messages[i].calls) < j
  BY DEF RecordInv, MessagesInv
<1>5. /\ Cardinality(Turns) = iteration
      /\ stopped = "iteration_cap" => final = "none" /\ iteration = MAX_ITERATIONS
      /\ stopped = "complete" => final # "none" /\ n \in Turns
  BY DEF RecordInv, EndInv
<1>6. stopped = "iteration_cap" => \A i \in Turns : i + Len(messages[i].calls) <= n
  BY DEF RecordInv, PendingInv
<1> HIDE DEF n
<1>7. ASSUME NEW c \in Range(toolCalls)
      PROVE  \E i \in executed : c \in Range(messages[i].calls)
  <2>1. PICK q \in DOMAIN toolCalls : c = toolCalls[q]
    BY DEF Range
  <2>2. PICK i \in Turns : \E k \in DOMAIN messages[i].calls :
           i + k <= n /\ toolCalls[q] = messages[i].calls[k]
    BY <1>3
  <2>3. PICK k \in DOMAIN messages[i].calls :
           i + k <= n /\ toolCalls[q] = messages[i].calls[k]
    BY <2>2
  <2>4. k \in Nat /\ k >= 1 /\ i \in Nat
    BY <1>1
  <2>5. i # n
    BY <1>2, <2>3, <2>4
  <2>6. QED BY <2>1, <2>3, <2>5 DEF Range
<1>8. ASSUME NEW i \in executed, NEW c \in Range(messages[i].calls)
      PROVE  c \in Range(toolCalls)
  <2>1. PICK k \in DOMAIN messages[i].calls : c = messages[i].calls[k]
    BY DEF Range
  <2> DEFINE l == Len(messages[i].calls)
  <2>2. i \in Turns /\ i \in Nat /\ l \in Nat /\ k \in 1..l /\ i <= n
    BY <1>1
  <2>3. stopped = "complete" => i < n /\ i + l < n
    BY <1>2, <1>4, <1>5, <2>2
  <2>4. stopped = "iteration_cap" => i + l <= n
    BY <1>6, <2>2
  <2> HIDE DEF l
  <2>5. i + k <= n
    BY <1>2, <2>2, <2>3, <2>4
  <2>6. QED BY <1>3, <2>1, <2>2, <2>5
<1>9. Range(toolCalls) = UNION {Range(messages[i].calls) : i \in executed}
  BY <1>7, <1>8
<1>10. QED BY <1>2, <1>3, <1>5, <1>9 DEF n

(* However session.run ends without an exception, the calls executed are the calls of
   whole turns, in the order the model made them: those of all turns before the one
   that ends the session, whose own calls are not executed, or those of all turns,
   as many as MAX_ITERATIONS, where the cap is met. *)
THEOREM WholeTurnsAlwaysExecuted == Spec => []OnlyWholeTurnsExecuted
<1>1. PoolInv /\ RecordInv => OnlyWholeTurnsExecuted
  BY EndedWhole DEF PoolInv
<1>2. QED BY <1>1, RecordInvAlways, PTL

-----------------------------------------------------------------------------
(* What the three conversions have in common: the first d messages travel apart, every
   other one keeps its place, its tool uses and its results. *)
Conversion(r, d) ==
    /\ DOMAIN r = 1..(Len(messages) - d)
    /\ \A i \in DOMAIN r :
         /\ DOMAIN r[i].uses = DOMAIN messages[i + d].calls
         /\ messages[i + d].role \in {"user", "tool"} => r[i].role \in {"user", "tool"}
         /\ messages[i + d].role = "user" => r[i].role = "user"
         /\ messages[i + d].role = "system" => r[i].role = "system"
         /\ r[i].results # {} <=> messages[i + d].answers # {}
    /\ \A i, j \in DOMAIN r : i + d \in Turns =>
         \A k \in DOMAIN r[i].uses :
           messages[j + d] = ToolAnswer(messages[i + d].calls[k].id)
             => r[j].results = {r[i].uses[k]}

LEMMA SentAsTheyAre ==
    ASSUME TypeOK
    PROVE  Conversion(AsTheyAre(messages), 0)
<1> DEFINE r == AsTheyAre(messages)
<1>1. DOMAIN messages = 1..Len(messages) /\ Len(messages) \in Nat /\ DOMAIN r = DOMAIN messages
  BY DEF TypeOK, AsTheyAre
<1>2. Len(messages) - 0 = Len(messages) /\ \A i \in DOMAIN r : i + 0 = i
  BY <1>1
<1>3. \A i \in DOMAIN r : /\ DOMAIN r[i].uses = DOMAIN messages[i].calls
                          /\ \A k \in DOMAIN r[i].uses : r[i].uses[k] = messages[i].calls[k].id
                          /\ r[i].role = messages[i].role
                          /\ r[i].results = messages[i].answers
  BY DEF AsTheyAre
<1> HIDE DEF r
<1>4. ASSUME NEW i \in DOMAIN r, NEW j \in DOMAIN r, NEW k \in DOMAIN r[i].uses,
             messages[j] = ToolAnswer(messages[i].calls[k].id)
      PROVE  r[j].results = {r[i].uses[k]}
  BY <1>3, <1>4 DEF ToolAnswer
<1>5. Conversion(r, 0)
  BY <1>1, <1>2, <1>3, <1>4 DEF Conversion
<1>6. QED BY <1>5 DEF r

LEMMA SentByClaude ==
    ASSUME TypeOK, RecordInv
    PROVE  Conversion(ConvertMessages(messages), 1)
<1> DEFINE r == ConvertMessages(messages)
<1>1. /\ DOMAIN messages = 1..Len(messages) /\ Len(messages) \in Nat
      /\ DOMAIN r = 1..(Len(messages) - 1) /\ \A i \in DOMAIN r : i + 1 \in DOMAIN messages
  BY DEF TypeOK, ConvertMessages
<1>2. \A i \in DOMAIN r :
        /\ DOMAIN r[i].uses = DOMAIN messages[i + 1].calls
        /\ \A k \in DOMAIN r[i].uses : r[i].uses[k] = messages[i + 1].calls[k].id
        /\ r[i].role = IF messages[i + 1].role = "tool" THEN "user" ELSE messages[i + 1].role
        /\ r[i].results = messages[i + 1].answers
  BY <1>1 DEF ConvertMessages, AsTheyAre
<1> HIDE DEF r
<1>3. ASSUME NEW i \in DOMAIN r, NEW j \in DOMAIN r, NEW k \in DOMAIN r[i].uses,
             messages[j + 1] = ToolAnswer(messages[i + 1].calls[k].id)
      PROVE  r[j].results = {r[i].uses[k]}
  BY <1>2, <1>3 DEF ToolAnswer
<1>4. Conversion(r, 1)
  BY <1>1, <1>2, <1>3 DEF Conversion
<1>5. QED BY <1>4 DEF r

(* gemini_client finds the function an answer belongs to. *)
LEMMA FuncNameFound ==
    ASSUME TypeOK, RecordInv, NEW i \in Turns, NEW k \in DOMAIN messages[i].calls
    PROVE  FindFuncName(messages, messages[i].calls[k].id) = messages[i].calls[k].tool
<1> DEFINE call == messages[i].calls[k]
           Names(tool) == \E m \in Range(messages) : \E c \in Range(m.calls) :
                            c.id = call.id /\ c.tool = tool
<1>1. call \in Calls /\ i \in DOMAIN messages
  BY TurnsTypes DEF Turns
<1>2. call.tool \in Tools \cup {"unregistered"} /\ Names(call.tool)
  <2>1. messages[i] \in Range(messages) /\ call \in Range(messages[i].calls)
    BY <1>1 DEF Range
  <2>2. QED BY <1>1, <2>1 DEF Calls
<1>3. ASSUME NEW tool, Names(tool)
      PROVE  tool = call.tool
  <2>1. PICK j \in DOMAIN messages : \E c \in Range(messages[j].calls) :
           c.id = call.id /\ c.tool = tool
    BY <1>3 DEF Range
  <2>2. PICK x \in DOMAIN messages[j].calls :
           messages[j].calls[x].id = call.id /\ messages[j].calls[x].tool = tool
    BY <2>1 DEF Range
  <2>3. j \in Turns
    <3>1. j \in Nat /\ j >= 1
      BY DEF TypeOK
    <3>2. j = 1 \/ j = 2 \/ j > 2
      BY <3>1
    <3>3. messages[j].calls # <<>>
      BY <2>2
    <3>4. messages[1].calls = <<>> /\ messages[2].calls = <<>>
      BY DEF RecordInv, MessagesInv, System, User
    <3>5. j > 2 => messages[j].role = "assistant" \/ messages[j].calls = <<>>
      BY DEF RecordInv, MessagesInv
    <3>6. QED BY <3>2, <3>3, <3>4, <3>5 DEF Turns
  <2> DEFINE a == call.id
             b == messages[j].calls[x].id
  <2>4. /\ a[2] = k /\ b[2] = x
        /\ i < j => a[1] < b[1]
        /\ j < i => b[1] < a[1]
    BY <2>3 DEF RecordInv, IdsInv
  <2>5. a = b /\ a[1] \in Nat /\ i \in Nat /\ j \in Nat
    BY <1>1, <2>2, <2>3, TurnsTypes, IdsAreNumbers DEF Calls
  <2> HIDE DEF a, b
  <2>6. i = j /\ k = x
    BY <2>4, <2>5
  <2>7. QED BY <2>2, <2>6
<1> HIDE DEF call
<1>4. FindFuncName(messages, call.id) = CHOOSE tool \in Tools \cup {"unregistered"} : Names(tool)
  BY DEF FindFuncName
<1> HIDE DEF Names
<1>5. (CHOOSE tool \in Tools \cup {"unregistered"} : Names(tool)) = call.tool
  BY <1>2, <1>3
<1>6. QED BY <1>4, <1>5 DEF call

LEMMA SentByGemini ==
    ASSUME TypeOK, RecordInv
    PROVE  Conversion(BuildContents(messages), 1)
<1> DEFINE r == BuildContents(messages)
<1>1. /\ DOMAIN messages = 1..Len(messages) /\ Len(messages) \in Nat
      /\ DOMAIN r = 1..(Len(messages) - 1) /\ \A i \in DOMAIN r : i + 1 \in DOMAIN messages
  BY DEF TypeOK, BuildContents
<1>2. \A i \in DOMAIN r :
        /\ DOMAIN r[i].uses = DOMAIN messages[i + 1].calls
        /\ \A k \in DOMAIN r[i].uses : r[i].uses[k] = messages[i + 1].calls[k].tool
        /\ r[i].role = CASE messages[i + 1].role = "assistant" -> "model" [] OTHER -> "user"
        /\ r[i].results = {FindFuncName(messages, id) : id \in messages[i + 1].answers}
  BY DEF BuildContents
<1> HIDE DEF r
<1>3. ASSUME NEW i \in DOMAIN r
      PROVE  messages[i + 1].role # "system"
  <2>1. i \in Nat /\ i >= 1 /\ (i + 1 = 2 \/ i + 1 > 2)
    BY <1>1
  <2>2. messages[2].role = "user"
    BY DEF RecordInv, MessagesInv, User
  <2>3. i + 1 > 2 => messages[i + 1].role \in {"assistant", "tool"}
    BY <1>1 DEF RecordInv, MessagesInv
  <2>4. QED BY <2>1, <2>2, <2>3
<1>4. ASSUME NEW i \in DOMAIN r, NEW j \in DOMAIN r, i + 1 \in Turns, NEW k \in DOMAIN r[i].uses,
             messages[j + 1] = ToolAnswer(messages[i + 1].calls[k].id)
      PROVE  r[j].results = {r[i].uses[k]}
  <2>1. messages[j + 1].answers = {messages[i + 1].calls[k].id}
    BY <1>4 DEF ToolAnswer
  <2>2. FindFuncName(messages, messages[i + 1].calls[k].id) = messages[i + 1].calls[k].tool
    BY <1>2, <1>4, FuncNameFound
  <2>3. QED BY <1>2, <2>1, <2>2
<1>5. ASSUME NEW i \in DOMAIN r
      PROVE  /\ messages[i + 1].role \in {"user", "tool"} => r[i].role = "user"
             /\ r[i].results # {} <=> messages[i + 1].answers # {}
  BY <1>2
<1>6. Conversion(r, 1)
  BY <1>1, <1>2, <1>3, <1>4, <1>5 DEF Conversion
<1>7. QED BY <1>6 DEF r

WellFormed(r) ==
    /\ \E i \in DOMAIN r : r[i].role = "user" /\ \A j \in 1..(i - 1) : r[j].role = "system"
    /\ \A i \in DOMAIN r : \A k \in DOMAIN r[i].uses :
         /\ i + k \in DOMAIN r
         /\ r[i + k].role \in {"user", "tool"}
         /\ r[i + k].results = {r[i].uses[k]}
    /\ Cardinality({i \in DOMAIN r : r[i].results # {}})
         = Cardinality(UNION {{i} \X (DOMAIN r[i].uses) : i \in DOMAIN r})

(* In a conversion of the messages that are sent, every tool use is answered right
   after it, and the answers are as many as the uses: a use and its answer stand for
   each other. *)
LEMMA ConversionIsWellFormed ==
    ASSUME TypeOK, RecordInv, pc = "chat", NEW r, NEW d \in {0, 1}, Conversion(r, d)
    PROVE  WellFormed(r)
<1> DEFINE n == Len(messages)
           answered == {i \in DOMAIN r : r[i].results # {}}
           uses == UNION {{i} \X (DOMAIN r[i].uses) : i \in DOMAIN r}
<1>1. n \in Nat /\ n >= 2 /\ DOMAIN messages = 1..n /\ messages[1] = System /\ messages[2] = User
  BY DEF TypeOK, RecordInv, MessagesInv
<1>2. \A i \in Turns : /\ i \in 1..n
                       /\ Len(messages[i].calls) \in Nat
                       /\ DOMAIN messages[i].calls = 1..Len(messages[i].calls)
  BY TurnsTypes
<1>3. /\ \A i \in 1..n : i > 2 =>
           \/ messages[i].role = "assistant" /\ messages[i].answers = {}
           \/ /\ messages[i].role = "tool" /\ messages[i].calls = <<>>
              /\ \E j \in Turns : j < i /\ i <= j + Len(messages[j].calls)
      /\ \A i \in Turns : \A k \in DOMAIN messages[i].calls :
           i + k <= n => messages[i + k] = ToolAnswer(messages[i].calls[k].id)
      /\ \A i, j \in Turns : i < j => i + Len(messages[i].calls) < j
  BY <1>1 DEF RecordInv, MessagesInv
<1>4. \A i \in Turns : i + Len(messages[i].calls) <= n
  BY DEF RecordInv, PendingInv
<1> HIDE DEF n
<1>5. /\ DOMAIN r = 1..(n - d)
      /\ \A i \in DOMAIN r :
           /\ DOMAIN r[i].uses = DOMAIN messages[i + d].calls
           /\ messages[i + d].role \in {"user", "tool"} => r[i].role \in {"user", "tool"}
           /\ messages[i + d].role = "user" => r[i].role = "user"
           /\ messages[i + d].role = "system" => r[i].role = "system"
           /\ r[i].results # {} <=> messages[i + d].answers # {}
      /\ \A i, j \in DOMAIN r : i + d \in Turns =>
           \A k \in DOMAIN r[i].uses :
             messages[j + d] = ToolAnswer(messages[i + d].calls[k].id)
               => r[j].results = {r[i].uses[k]}
  BY DEF Conversion, n
<1>6. \A i \in DOMAIN r : i \in Nat /\ i >= 1 /\ i + d \in 1..n /\ d \in Nat
  BY <1>1, <1>5
<1>7. \A i \in Turns : i > 2
  <2>1. messages[1].role # "assistant" /\ messages[2].role # "assistant"
    BY <1>1 DEF System, User
  <2>2. \A i \in Turns : i # 1 /\ i # 2 /\ i \in 1..n
    BY <1>2, <2>1 DEF Turns
  <2>3. QED BY <1>1, <2>2
<1>8. ASSUME NEW i \in DOMAIN r, NEW k \in DOMAIN r[i].uses
      PROVE  /\ i + d \in Turns /\ k \in 1..Len(messages[i + d].calls)
             /\ k \in DOMAIN messages[i + d].calls
             /\ i + k \in DOMAIN r /\ (i + d) + k \in 1..n /\ (i + k) + d = (i + d) + k
  <2>1. k \in DOMAIN messages[i + d].calls
    BY <1>5
  <2>2. messages[i + d].calls # <<>>
    BY <2>1
  <2>3. messages[1].calls = <<>> /\ messages[2].calls = <<>>
    BY <1>1 DEF System, User
  <2>4. i + d \in 1..n
    BY <1>6
  <2>5. i + d > 2
    <3>1. i + d # 1 /\ i + d # 2
      BY <2>2, <2>3
    <3>2. QED BY <1>1, <2>4, <3>1
  <2>6. i + d \in Turns
    <3>1. messages[i + d].role = "assistant"
      BY <1>3, <2>2, <2>4, <2>5
    <3>2. QED BY <1>1, <2>4, <3>1 DEF Turns
  <2> DEFINE l == Len(messages[i + d].calls)
  <2>7. l \in Nat /\ k \in 1..l /\ (i + d) + l <= n
    BY <1>2, <1>4, <2>1, <2>6
  <2> HIDE DEF l
  <2>8. (i + d) + k \in 1..n /\ i + k \in 1..(n - d) /\ (i + k) + d = (i + d) + k
    BY <1>1, <1>6, <2>7
  <2>9. QED BY <1>5, <2>1, <2>6, <2>7, <2>8 DEF l
<1>9. ASSUME NEW i \in DOMAIN r, NEW k \in DOMAIN r[i].uses
      PROVE  /\ r[i + k].role \in {"user", "tool"}
             /\ r[i + k].results = {r[i].uses[k]}
  <2>1. (i + d) + k <= n
    BY <1>1, <1>8
  <2>2. messages[(i + d) + k] = ToolAnswer(messages[i + d].calls[k].id)
    BY <1>3, <1>8, <2>1
  <2>3. messages[(i + k) + d] = ToolAnswer(messages[i + d].calls[k].id)
    BY <1>8, <2>2
  <2>4. messages[(i + k) + d].role = "tool"
    BY <2>3 DEF ToolAnswer
  <2>5. QED BY <1>5, <1>8, <2>3, <2>4
<1>10. \E i \in DOMAIN r : r[i].role = "user" /\ \A j \in 1..(i - 1) : r[j].role = "system"
  <2>1. 2 - d \in DOMAIN r /\ (2 - d) + d = 2
    BY <1>1, <1>5
  <2>2. r[2 - d].role = "user"
    BY <1>1, <1>5, <2>1 DEF User
  <2>3. ASSUME NEW j \in 1..((2 - d) - 1)
        PROVE  r[j].role = "system"
    <3>1. j = 1 /\ d = 0 /\ j \in DOMAIN r /\ j + d = 1
      BY <1>1, <1>5
    <3>2. QED BY <1>1, <1>5, <3>1 DEF System
  <2>4. QED BY <2>1, <2>2, <2>3
<1>11. Cardinality(answered) = Cardinality(uses)
  <2> DEFINE F == [u \in uses |-> u[1] + u[2]]
  <2>1. ASSUME NEW u \in uses
        PROVE  u[1] \in DOMAIN r /\ u[2] \in DOMAIN r[u[1]].uses /\ u = <<u[1], u[2]>>
    OBVIOUS
  <2>2. ASSUME NEW i \in DOMAIN r, NEW k \in DOMAIN r[i].uses
        PROVE  <<i, k>> \in uses
    OBVIOUS
  <2> HIDE DEF uses
  <2>3. ASSUME NEW u \in uses
        PROVE  F[u] \in answered
    <3> DEFINE i == u[1]
               k == u[2]
    <3>1. i \in DOMAIN r /\ k \in DOMAIN r[i].uses /\ F[u] = i + k
      BY <2>1
    <3> HIDE DEF i, k, F
    <3>2. i + k \in DOMAIN r /\ r[i + k].results # {}
      BY <1>8, <1>9, <3>1
    <3>3. QED BY <3>1, <3>2
  <2>4. ASSUME NEW u \in uses, NEW v \in uses, F[u] = F[v]
        PROVE  u = v
    <3> DEFINE i == u[1] + d
               j == v[1] + d
               k == u[2]
               o == v[2]
               l == Len(messages[i].calls)
               m == Len(messages[j].calls)
    <3>1. /\ i \in Turns /\ k \in 1..l /\ l \in Nat /\ i \in Nat
          /\ j \in Turns /\ o \in 1..m /\ m \in Nat /\ j \in Nat
      <4>1. i \in Turns /\ k \in 1..l
        BY <1>8, <2>1
      <4>2. j \in Turns /\ o \in 1..m
        BY <1>8, <2>1
      <4> HIDE DEF i, j, k, o
      <4>3. l \in Nat /\ i \in Nat /\ m \in Nat /\ j \in Nat
        BY <1>2, <4>1, <4>2
      <4>4. QED BY <4>1, <4>2, <4>3
    <3>2. u[1] \in Nat /\ v[1] \in Nat /\ d \in Nat /\ u[1] + k = v[1] + o
      BY <1>6, <2>1, <2>4
    <3>3. i + k = j + o
      <4> DEFINE a == u[1]
                 b == v[1]
      <4>1. a \in Nat /\ b \in Nat /\ d \in Nat /\ a + k = b + o /\ i = a + d /\ j = b + d
        BY <3>2
      <4>2. k \in Nat /\ o \in Nat
        <5> HIDE DEF k, o, l, m
        <5>1. QED BY <3>1
      <4> HIDE DEF a, b, i, j, k, o
      <4>3. QED BY <4>1, <4>2
    <3>4. (i < j => i + l < j) /\ (j < i => j + m < i)
      BY <1>3, <3>1
    <3>5. i = j => u[1] = v[1]
      BY <3>2
    <3> HIDE DEF i, j, l, m, k, o
    <3>6. i = j /\ k = o
      BY <3>1, <3>3, <3>4
    <3>7. QED BY <2>1, <3>5, <3>6 DEF k, o
  <2>5. ASSUME NEW a \in answered
        PROVE  \E u \in uses : F[u] = a
    <3>1. a \in DOMAIN r /\ a + d \in 1..n /\ messages[a + d].answers # {} /\ a \in Nat
      BY <1>5, <1>6
    <3>2. messages[1].answers = {} /\ messages[2].answers = {}
      BY <1>1 DEF System, User
    <3>3. a + d > 2
      <4>1. a + d # 1 /\ a + d # 2
        BY <3>1, <3>2
      <4>2. QED BY <1>1, <3>1, <4>1
    <3>4. PICK j \in Turns : j < a + d /\ a + d <= j + Len(messages[j].calls)
      BY <1>3, <3>1, <3>3
    <3> DEFINE l == Len(messages[j].calls)
               i == j - d
               k == a - i
    <3>5. j \in 1..n /\ j > 2 /\ l \in Nat /\ DOMAIN messages[j].calls = 1..l
      BY <1>2, <1>7
    <3>6. a + d <= j + l
      BY <3>4
    <3> HIDE DEF l
    <3>7. i \in 1..(n - d) /\ i + d = j /\ k \in 1..l /\ i + k = a
      <4>1. n \in Nat /\ a \in Nat /\ j \in Nat /\ j <= n /\ j > 2 /\ d \in Nat /\ d <= 1
        BY <1>1, <3>1, <3>5
      <4>2. j < a + d
        BY <3>4
      <4>3. i \in 1..(n - d) /\ i + d = j
        BY <4>1
      <4>4. k \in 1..l /\ i + k = a
        BY <3>5, <3>6, <4>1, <4>2
      <4>5. QED BY <4>3, <4>4
    <3> HIDE DEF i, k
    <3>8. i \in DOMAIN r /\ k \in DOMAIN r[i].uses
      BY <1>5, <3>5, <3>7
    <3>9. <<i, k>> \in uses
      BY <2>2, <3>8
    <3>10. QED BY <3>7, <3>9
  <2>6. F \in Bijection(uses, answered)
    <3>1. F \in [uses -> answered]
      BY <2>3
    <3> HIDE DEF F, answered
    <3>2. \A u, v \in uses : F[u] = F[v] => u = v
      BY <2>4
    <3>3. \A a \in answered : \E u \in uses : F[u] = a
      BY <2>5
    <3>4. QED BY <3>1, <3>2, <3>3, Fun_IsBij
  <2>7. IsFiniteSet(answered)
    <3>1. n - d \in Nat
      BY <1>1
    <3>2. IsFiniteSet(1..(n - d)) /\ answered \subseteq 1..(n - d)
      BY <1>5, <3>1, FS_Interval
    <3>3. QED BY <3>2, FS_Subset
  <2>8. ExistsBijection(answered, uses)
    <3>1. ExistsBijection(uses, answered)
      BY <2>6 DEF ExistsBijection
    <3>2. QED BY <3>1, Fun_ExistsBijSymmetric
  <2> HIDE DEF answered
  <2>9. QED BY <2>7, <2>8, FS_Bijection
<1>12. QED BY <1>8, <1>9, <1>10, <1>11 DEF WellFormed

(* Whatever the model has asked for and whichever client is imported, the request that
   chat sends is one the provider accepts: a user message comes first, every tool use
   is answered right after its turn, in order, under the id or the function name that
   this client pairs them by, and nothing else is an answer. *)
THEOREM RequestsAlwaysWellFormed == Spec => []RequestsWellFormed
<1>1. PoolInv /\ RecordInv => RequestsWellFormed
  <2> SUFFICES ASSUME TypeOK, RecordInv, InLoop PROVE RequestsWellFormed
    BY DEF PoolInv, RequestsWellFormed
  <2> DEFINE r == Request(messages)
  <2>1. \E d \in {0, 1} : Conversion(r, d)
    <3>1. CASE client = "claude"
      BY <3>1, SentByClaude DEF Request
    <3>2. CASE client = "gemini"
      BY <3>2, SentByGemini DEF Request
    <3>3. CASE client \notin {"claude", "gemini"}
      BY <3>3, SentAsTheyAre DEF Request
    <3>4. QED BY <3>1, <3>2, <3>3
  <2> HIDE DEF r
  <2>2. pc = "chat"
    BY DEF InLoop
  <2>3. PICK d \in {0, 1} : Conversion(r, d)
    BY <2>1
  <2>4. WellFormed(r)
    BY <2>2, <2>3, ConversionIsWellFormed
  <2>5. QED BY <2>4 DEF WellFormed, RequestsWellFormed, r
<1>2. QED BY <1>1, RecordInvAlways, PTL
=============================================================================
