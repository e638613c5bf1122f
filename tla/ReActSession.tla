----------------------------- MODULE ReActSession -----------------------------
(***************************************************************************)
(* InvestigationSession.run: the reasoning loop of one investigation, with *)
(* the provider call that it makes, chat of one of the four clients, and   *)
(* the dispatch of tool calls.  session.py imports claude_client; the      *)
(* others are there to be imported in its place.                           *)
(*                                                                         *)
(* A tool call is [id, tool, parses]: tool is "unregistered" for a name    *)
(* outside TOOL_REGISTRY, and parses says whether its arguments are JSON   *)
(* (always so where the client makes them; two pass on what they get).     *)
(* Every action ends at a commit, a provider call or the end of the loop.  *)
(***************************************************************************)
EXTENDS Integers, Sequences, FiniteSets, Functions, Selections

CONSTANTS
    Tools,              \* names in TOOL_REGISTRY
    Clients,            \* the clients that may be imported
    PoolSize,           \* keys of groq_client's pool
    MAX_ITERATIONS,     \* cap of the loop, 15 in the code
    MaxCallsPerTurn     \* bound: calls in one assistant turn

ASSUME SessionAssumption ==
    /\ "unregistered" \notin Tools
    /\ Clients \subseteq {"claude", "gemini", "cerebras", "groq"}
    /\ PoolSize \in Nat \ {0}
    /\ MAX_ITERATIONS \in Nat \ {0}
    /\ MaxCallsPerTurn \in Nat

VARIABLES
    pc,         \* chat, tools, done, raised
    iteration,  \* turns taken so far
    client,     \* the client imported
    key,        \* _pool._index, which outlives sessions
    attempts,   \* turns of the loop over the keys, in this call of chat
    retried,    \* the request in progress repeats one that failed
    tried,      \* ghost: keys given up in this call of chat
    error,      \* ghost: what the session was abandoned for
    pending,    \* calls of the current turn not yet executed
    messages,   \* self.messages
    toolCalls,  \* self.tool_calls: the ToolCallRecords
    audit,      \* the tool_call rows dispatch has committed
    final,      \* final_message: none, or what it was taken from
    stopped     \* stopped_reason

provider == <<client, key, attempts, retried, tried>>
record == <<iteration, pending, messages, toolCalls, audit, final, stopped>>
vars == <<pc, provider, error, record>>

Ids == (1..MAX_ITERATIONS) \X (1..MaxCallsPerTurn)
Calls == [id : Ids, tool : Tools \cup {"unregistered"}, parses : BOOLEAN]
Messages == [role : {"system", "user", "assistant", "tool"},
             calls : Seq(Calls), answers : SUBSET Ids]

System == [role |-> "system", calls |-> <<>>, answers |-> {}]
User == [role |-> "user", calls |-> <<>>, answers |-> {}]
Assistant(calls) == [role |-> "assistant", calls |-> calls, answers |-> {}]
ToolAnswer(id) == [role |-> "tool", calls |-> <<>>, answers |-> {id}]

TypeOK ==
    /\ pc \in {"chat", "tools", "done", "raised"}
    /\ iteration \in 0..MAX_ITERATIONS
    /\ key \in 1..PoolSize
    /\ attempts \in 0..PoolSize
    /\ retried \in BOOLEAN
    /\ error \in {"none", "rate_limit", "transient", "other", "audit"}
    /\ error # "none" <=> pc = "raised"
    /\ pending \in Seq(Calls)
    /\ messages \in Seq(Messages)
    /\ toolCalls \in Seq(Calls)
    /\ audit \in Seq(Calls)
    /\ final \in {"none", "empty", "text", "arguments"}
    /\ stopped \in {"iteration_cap", "complete"}

Init ==
    /\ pc = "chat"
    /\ iteration = 0
    /\ client \in Clients
    /\ key \in IF client = "groq" THEN 1..PoolSize ELSE {1}
    /\ attempts = 0
    /\ retried = FALSE
    /\ tried = {}
    /\ error = "none"
    /\ pending = <<>>
    /\ messages = <<System, User>>
    /\ toolCalls = <<>>
    /\ audit = <<>>
    /\ final = "none"
    /\ stopped = "iteration_cap"

-----------------------------------------------------------------------------
(* What a client sends: each message with the keys of its tool uses, in order,
   and of the results it holds.  groq_client and cerebras_client send the messages
   as they are. *)
AsTheyAre(ms) ==
    [i \in DOMAIN ms |->
        [role |-> ms[i].role,
         uses |-> [k \in DOMAIN ms[i].calls |-> ms[i].calls[k].id],
         results |-> ms[i].answers]]

(* claude_client._convert_messages: the system prompt travels apart, a tool
   answer becomes a user turn that holds the result. *)
ConvertMessages(ms) ==
    [i \in 1..(Len(ms) - 1) |->
        LET m == AsTheyAre(ms)[i + 1]
        IN  [m EXCEPT !.role = IF @ = "tool" THEN "user" ELSE @]]

FindFuncName(ms, id) ==
    CHOOSE tool \in Tools \cup {"unregistered"} :
        \E m \in Range(ms) : \E call \in Range(m.calls) : call.id = id /\ call.tool = tool

(* gemini_client._build_contents: the same, but uses and results are keyed by the
   name of the function. *)
BuildContents(ms) ==
    [i \in 1..(Len(ms) - 1) |->
        LET m == ms[i + 1] IN
        [role |-> CASE m.role = "assistant" -> "model" [] OTHER -> "user",
         uses |-> [k \in DOMAIN m.calls |-> m.calls[k].tool],
         results |-> {FindFuncName(ms, id) : id \in m.answers}]]

Request(ms) ==
    CASE client = "claude" -> ConvertMessages(ms)
      [] client = "gemini" -> BuildContents(ms)
      [] OTHER -> AsTheyAre(ms)

(* Variant: one turn too many. *)
InLoopAtCap == pc = "chat" /\ iteration <= MAX_ITERATIONS

InLoop == pc = "chat" /\ iteration < MAX_ITERATIONS

Raise(what) ==
    /\ pc' = "raised"
    /\ error' = what

(* Variant: a second error starts the retries over. *)
ChatRetriesAgain ==
    /\ InLoop
    /\ retried' = ~retried
    /\ UNCHANGED <<pc, client, key, attempts, tried, error, record>>

(* A connection or server error: chat sleeps and repeats the request once. *)
ChatTransientError ==
    /\ InLoop
    /\ ~retried
    /\ retried' = TRUE
    /\ UNCHANGED <<pc, client, key, attempts, tried, error, record>>

(* Variant: rotation stops at the end of the pool. *)
RotateToEnd == IF key < PoolSize THEN key + 1 ELSE key

Rotate == IF key < PoolSize THEN key + 1 ELSE 1

(* One more turn of groq_client's loop over the keys is used up. *)
GiveUpKey ==
    /\ client = "groq"
    /\ attempts' = attempts + 1
    /\ tried' = tried \cup {key}
    /\ UNCHANGED <<client, record>>

(* groq_client, where the repeated request fails in the same way: on to the next
   key, and when there is none, the error is raised after all. *)
ChatTransientAgain ==
    /\ InLoop
    /\ retried
    /\ GiveUpKey
    /\ key' = Rotate
    /\ retried' = FALSE
    /\ IF attempts + 1 < PoolSize THEN UNCHANGED <<pc, error>> ELSE Raise("transient")

(* groq_client, where a key's limit is reached: on to the next key, but after the
   last one the pool stays where it is. *)
ChatRateLimited ==
    /\ InLoop
    /\ ~retried
    /\ GiveUpKey
    /\ UNCHANGED retried
    /\ IF attempts + 1 < PoolSize
         THEN key' = Rotate /\ UNCHANGED <<pc, error>>
         ELSE Raise("rate_limit") /\ UNCHANGED key

(* What is not caught: a second transient error and a rate limit, except as above,
   and any other error. *)
ChatRaises ==
    /\ InLoop
    /\ \/ Raise("other")
       \/ retried /\ client # "groq" /\ Raise("transient")
       \/ (retried \/ client # "groq") /\ Raise("rate_limit")
    /\ UNCHANGED <<provider, record>>

TakeTurn(calls) ==
    /\ InLoop
    /\ iteration' = iteration + 1
    /\ attempts' = 0
    /\ retried' = FALSE
    /\ tried' = {}
    /\ messages' = Append(messages, Assistant(calls))
    /\ UNCHANGED <<client, key, error>>

Finish(message) ==
    /\ final' = message
    /\ stopped' = "complete"
    /\ pc' = "done"
    /\ UNCHANGED <<pending, toolCalls, audit>>

(* Text and no tool call: the agent is done, though the text may be empty. *)
ReplyText ==
    /\ TakeTurn(<<>>)
    /\ \E message \in {"empty", "text"} : Finish(message)

(* The calls a turn can make, numbered within the turn.  Two clients make the JSON
   of the arguments themselves. *)
Replies ==
    UNION {[1..n -> [tool : Tools \cup {"unregistered"},
                     parses : IF client \in {"claude", "gemini"} THEN {TRUE} ELSE BOOLEAN]] :
             n \in 1..MaxCallsPerTurn}

NumberedCalls(turn) ==
    [k \in DOMAIN turn |->
        [id |-> <<iteration + 1, k>>, tool |-> turn[k].tool, parses |-> turn[k].parses]]

Unregistered(calls) == {k \in DOMAIN calls : calls[k].tool = "unregistered"}

(* Variant: the calls that can be executed are, before the turn is refused. *)
ReplyPartlyExecuted ==
    \E turn \in Replies : LET calls == NumberedCalls(turn) IN
        /\ Unregistered(calls) # {}
        /\ TakeTurn(calls)
        /\ toolCalls' = toolCalls \o Select(calls, {call \in Calls : call.tool \in Tools})
        /\ final' = "arguments" /\ stopped' = "complete" /\ pc' = "done"
        /\ UNCHANGED <<pending, audit>>

(* Some call names no registered tool: its arguments are taken for the final
   message and no call of the turn is executed. *)
ReplyUnregistered ==
    \E turn \in Replies : LET calls == NumberedCalls(turn) IN
        /\ Unregistered(calls) # {}
        /\ TakeTurn(calls)
        /\ Finish("arguments")

ReplyToolCalls ==
    \E turn \in Replies : LET calls == NumberedCalls(turn) IN
        /\ Unregistered(calls) = {}
        /\ TakeTurn(calls)
        /\ pending' = calls
        /\ pc' = "tools"
        /\ UNCHANGED <<toolCalls, audit, final, stopped>>

(* Variant: a call that does not parse gets no answer. *)
ExecuteCallOrSkip ==
    /\ pc = "tools"
    /\ LET call == Head(pending) IN
         /\ audit' = IF call.parses THEN Append(audit, call) ELSE audit
         /\ toolCalls' = Append(toolCalls, call)
         /\ messages' = IF call.parses THEN Append(messages, ToolAnswer(call.id)) ELSE messages
    /\ pending' = Tail(pending)
    /\ pc' = IF Len(pending) = 1 THEN "chat" ELSE "tools"
    /\ UNCHANGED <<provider, error, iteration, final, stopped>>

(* Variant: only calls that parse are recorded, all of them are audited. *)
ExecuteCallUnrecorded ==
    /\ pc = "tools"
    /\ LET call == Head(pending) IN
         /\ audit' = Append(audit, call)
         /\ toolCalls' = IF call.parses THEN Append(toolCalls, call) ELSE toolCalls
         /\ messages' = Append(messages, ToolAnswer(call.id))
    /\ pending' = Tail(pending)
    /\ pc' = IF Len(pending) = 1 THEN "chat" ELSE "tools"
    /\ UNCHANGED <<provider, error, iteration, final, stopped>>

(* The next call of the turn: dispatched, with an audit row whatever its
   result, if its arguments parse; recorded and answered in any case. *)
ExecuteCall ==
    /\ pc = "tools"
    /\ LET call == Head(pending) IN
         /\ audit' = IF call.parses THEN Append(audit, call) ELSE audit
         /\ toolCalls' = Append(toolCalls, call)
         /\ messages' = Append(messages, ToolAnswer(call.id))
    /\ pending' = Tail(pending)
    /\ pc' = IF Len(pending) = 1 THEN "chat" ELSE "tools"
    /\ UNCHANGED <<provider, error, iteration, final, stopped>>

(* dispatch catches what a tool raises, not what its own audit write does. *)
DispatchRaises ==
    /\ pc = "tools"
    /\ Head(pending).parses
    /\ Raise("audit")
    /\ UNCHANGED <<provider, record>>

(* The for loop is exhausted: no final message. *)
ReachCap ==
    /\ pc = "chat"
    /\ iteration = MAX_ITERATIONS
    /\ pc' = "done"
    /\ UNCHANGED <<provider, error, record>>

Next ==
    \/ ChatTransientError \/ ChatTransientAgain \/ ChatRateLimited \/ ChatRaises
    \/ ReplyText \/ ReplyUnregistered \/ ReplyToolCalls
    \/ ExecuteCall \/ DispatchRaises
    \/ ReachCap

Spec == Init /\ [][Next]_vars

(* The loop is sequential code and every provider call returns or raises. *)
FairSpec == Spec /\ WF_vars(Next)

-----------------------------------------------------------------------------
(* Every request a provider gets is one it accepts, through each client's
   conversion: each tool use is answered by the messages right after it, in order,
   and nothing is answered twice. *)
RequestsWellFormed ==
    InLoop =>
        LET request == Request(messages)
            uses == UNION {{i} \X (DOMAIN request[i].uses) : i \in DOMAIN request}
        IN  /\ \E i \in DOMAIN request : /\ request[i].role = "user"
                                          /\ \A j \in 1..(i - 1) : request[j].role = "system"
            /\ \A i \in DOMAIN request : \A k \in DOMAIN request[i].uses :
                 /\ i + k \in DOMAIN request
                 /\ request[i + k].role \in {"user", "tool"}
                 /\ request[i + k].results = {request[i].uses[k]}
            /\ Cardinality({i \in DOMAIN request : request[i].results # {}}) = Cardinality(uses)

(* groq_client's pool: whichever key an earlier session left it at, one call of chat
   gives no key up twice, and gives itself up for lack of keys only after all of
   them.  A rate limit met by a repeated request is the exception: it is not caught
   by the rotation, so the session ends with keys untried. *)
KeysAreAllTried ==
    client = "groq" =>
        /\ InLoop => key \notin tried
        /\ error \in {"rate_limit", "transient"} => tried = 1..PoolSize \/ retried

(* The record the guardrails see and the audit log agree: every call executed
   is recorded once, in order, and every record but the ones whose arguments
   did not parse is an audit row. *)
RecordsMatchAudit ==
    /\ audit = Select(toolCalls, {call \in Calls : call.parses})
    /\ \A i, j \in DOMAIN toolCalls : toolCalls[i].id = toolCalls[j].id => i = j

(* Where the model's turns are among the messages. *)
Turns == {i \in DOMAIN messages : messages[i].role = "assistant"}

Before(a, b) == a[1] < b[1] \/ (a[1] = b[1] /\ a[2] < b[2])

InOrder(calls) == \A m, n \in DOMAIN calls : m < n => Before(calls[m].id, calls[n].id)

(* A turn that ends the session executes nothing, and every earlier turn was
   executed whole and in order: no call is left half way but by an exception.
   Without a final message, the cap has been met with every turn used on tools. *)
OnlyWholeTurnsExecuted ==
    pc = "done" =>
        LET executed == IF stopped = "complete" THEN Turns \ {Len(messages)} ELSE Turns
        IN  /\ Range(toolCalls) = UNION {Range(messages[i].calls) : i \in executed}
            /\ InOrder(toolCalls)
            /\ final = "none" <=> stopped = "iteration_cap"
            /\ stopped = "iteration_cap" => Cardinality(Turns) = MAX_ITERATIONS

(* Whatever the model answers and whichever keys fail, the session ends. *)
SessionEnds == <>(pc \in {"done", "raised"})

-----------------------------------------------------------------------------
(* The inductive strengthening of KeysAreAllTried: the keys given up are the ones
   just behind the current one, going round the pool. *)
Behind ==
    {k \in 1..PoolSize : \/ key - attempts <= k /\ k < key
                         \/ key - attempts + PoolSize <= k}

PoolInv ==
    /\ TypeOK
    /\ KeysAreAllTried
    /\ client = "groq" /\ pc # "raised" => attempts < PoolSize /\ tried = Behind
    /\ pc = "tools" => pending # <<>>

(* The inductive strengthening of the three invariants of the record.  After the two
   first messages come the turns, each right before the answers to its calls. *)
MessagesInv ==
    /\ Len(messages) >= 2 /\ messages[1] = System /\ messages[2] = User
    /\ \A i \in DOMAIN messages : i > 2 =>
         \/ messages[i].role = "assistant" /\ messages[i].answers = {}
         \/ /\ messages[i].role = "tool" /\ messages[i].calls = <<>>
            /\ \E j \in Turns : j < i /\ i <= j + Len(messages[j].calls)
    /\ \A i \in Turns : \A k \in DOMAIN messages[i].calls :
         i + k <= Len(messages) => messages[i + k] = ToolAnswer(messages[i].calls[k].id)
    /\ \A i, j \in Turns : i < j => i + Len(messages[i].calls) < j

(* Ids tell the turn, and then the call of the turn. *)
IdsInv ==
    \A i, j \in Turns :
      \A k \in DOMAIN messages[i].calls : \A m \in DOMAIN messages[j].calls :
        LET a == messages[i].calls[k].id
            b == messages[j].calls[m].id
        IN  /\ a[2] = k /\ a[1] <= iteration
            /\ i < j => a[1] < b[1]
            /\ i = j => a[1] = b[1]

(* Before a new turn all calls are answered; else the pending ones, at the end of
   the last turn, are not. *)
PendingInv ==
    /\ pc = "chat" \/ (pc = "done" /\ stopped = "iteration_cap") =>
         \A i \in Turns : i + Len(messages[i].calls) <= Len(messages)
    /\ pc = "tools" =>
         \E i \in Turns :
           /\ \A j \in Turns : j <= i
           /\ i + Len(messages[i].calls) = Len(messages) + Len(pending)
           /\ \A n \in DOMAIN pending :
                pending[n] = messages[i].calls[Len(messages) - i + n]

(* The calls executed are the ones that are answered. *)
ExecutedInv ==
    /\ \A n \in DOMAIN toolCalls : \E i \in Turns : \E k \in DOMAIN messages[i].calls :
         i + k <= Len(messages) /\ toolCalls[n] = messages[i].calls[k]
    /\ \A i \in Turns : \A k \in DOMAIN messages[i].calls :
         i + k <= Len(messages) => messages[i].calls[k] \in Range(toolCalls)
    /\ InOrder(toolCalls)
    /\ audit = Select(toolCalls, {call \in Calls : call.parses})

EndInv ==
    /\ Cardinality(Turns) = iteration
    /\ stopped = "iteration_cap" => final = "none"
    /\ stopped = "complete" => pc = "done" /\ final # "none" /\ Len(messages) \in Turns
    /\ pc = "done" /\ stopped = "iteration_cap" => iteration = MAX_ITERATIONS

RecordInv == MessagesInv /\ IdsInv /\ PendingInv /\ ExecutedInv /\ EndInv
=============================================================================
