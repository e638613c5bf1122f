---------------------------- MODULE AlertLifecycle ----------------------------
(***************************************************************************)
(* What the pipeline promises about the status column of the alerts table, *)
(* whatever the language model says and however its runs interleave, crash *)
(* or overlap with a human reviewer:                                       *)
(*                                                                         *)
(*   - it may send any alert to a human (escalated, under_review);         *)
(*   - it may dismiss an alert only on a decision cleared for that alert   *)
(*     before, and only a decision that claims a low severity, was taken   *)
(*     on an actionable alert, cites a tool and has a clean narrative can  *)
(*     be cleared;                                                         *)
(*   - it never files a SAR.                                               *)
(*                                                                         *)
(* Investigation implements this specification.                            *)
(***************************************************************************)
EXTENDS Guardrails

CONSTANTS Alerts, Tools

VARIABLES
    status,     \* the status column of every alert
    cleared,    \* the decisions cleared so far, as <<alert, decision>>
    reviews     \* how many decisions people have recorded themselves

vars == <<status, cleared, reviews>>

DismissibleDecisions ==
    [current_status : {"open", "under_review"}, action : DismissalActions,
     severity : 1..2, narrative : {{"words"}}, tools : (SUBSET Tools) \ {{}}]

Init ==
    /\ status = [a \in Alerts |-> "open"]
    /\ cleared = {}
    /\ reviews = 0

Clear(a) ==
    /\ cleared' # cleared
    /\ \E d \in DismissibleDecisions : cleared' = cleared \cup {<<a, d>>}
    /\ UNCHANGED <<status, reviews>>

SendToHuman(a) ==
    /\ \E s \in {"escalated", "under_review"} : status' = [status EXCEPT ![a] = s]
    /\ UNCHANGED <<cleared, reviews>>

Dismiss(a) ==
    /\ \E d \in DismissibleDecisions :
         /\ <<a, d>> \in cleared
         /\ status' = [status EXCEPT ![a] = ActionToStatus[d.action]]
    /\ UNCHANGED <<cleared, reviews>>

(* A person, outside the pipeline, may record any status. *)
HumanReview(a) ==
    /\ \E s \in AlertStatus : status' = [status EXCEPT ![a] = s]
    /\ reviews' = reviews + 1
    /\ UNCHANGED cleared

Next ==
    \E a \in Alerts :
        \/ Clear(a)
        \/ SendToHuman(a)
        \/ Dismiss(a)
        \/ HumanReview(a)

Spec == Init /\ [][Next]_vars
=============================================================================
