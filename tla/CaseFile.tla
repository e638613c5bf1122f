------------------------------- MODULE CaseFile -------------------------------
(***************************************************************************)
(* build_agent_decision: from the final message of a session to a decision *)
(* or none.                                                                *)
(*                                                                         *)
(* A message is what the three extraction strategies find in its text, in  *)
(* the order they are tried: the whole text, a fenced block, the slice     *)
(* from the first to the last brace.  Each finds at most one JSON object,  *)
(* so the message is a sequence of three sets of at most one payload; an   *)
(* absent or empty message is the empty sequence.  A payload is a function *)
(* on the keys it has.                                                     *)
(***************************************************************************)
EXTENDS Guardrails

RequiredKeys == {"action", "severity", "narrative"}

(* A severity outside 1..5 stands for everything the range check refuses, and
   the feature "not_text" marks a narrative that is no string. *)
UsablePayload(p) ==
    /\ RequiredKeys \subseteq DOMAIN p
    /\ p.action \in AgentActions
    /\ p.severity \in 1..5
    /\ "not_text" \notin p.narrative

(* Variant: the last strategy that yields an object decides. *)
ExtractLastJsonObject(message) ==
    LET hits == {i \in DOMAIN message : message[i] # {}}
    IN  IF hits = {} THEN {}
        ELSE message[CHOOSE i \in hits : \A j \in hits : i >= j]

(* The first strategy that yields an object decides, usable or not. *)
ExtractJsonObject(message) ==
    LET hits == {i \in DOMAIN message : message[i] # {}}
    IN  IF hits = {} THEN {}
        ELSE message[CHOOSE i \in hits : \A j \in hits : i <= j]

(* {} for None.  records are the names in the session's ToolCallRecords. *)
BuildAgentDecision(message, records, current_status) ==
    {[current_status |-> current_status, action |-> p.action, severity |-> p.severity,
      narrative |-> p.narrative, tools |-> {records[i] : i \in DOMAIN records}] :
        p \in {q \in ExtractJsonObject(message) : UsablePayload(q)}}
=============================================================================
