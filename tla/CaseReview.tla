------------------------------ MODULE CaseReview ------------------------------
(***************************************************************************)
(* pseudonymization/depseudonymize.py: the case file an agent has written, *)
(* as a reviewer reads it, with real values in place of tokens.            *)
(*                                                                         *)
(* A case file is nested dicts and lists in the code; here it maps the     *)
(* places where there are strings to their texts, and a text is its        *)
(* recognised tokens in order: [type, hex], made up ones among them.  The  *)
(* words between them, like keys and numbers, are not touched.             *)
(***************************************************************************)
EXTENDS Pseudonymizer, Sequences

CONSTANT CaseFiles

Tokens == [type : Types, hex : Hexes]

ASSUME CaseFilesAssumption ==
    \A file \in CaseFiles : \A place \in DOMAIN file : file[place] \in Seq(Tokens)

(* A token that stands for nothing is left as it is. *)
Resolved(token) ==
    LET reals == Depseudonymize(token.type, token.hex)
    IN  IF reals = {} THEN token ELSE [real |-> CHOOSE real \in reals : TRUE]

(* One pass: what has been put in place of a token is not looked at again. *)
resolve_tokens_in_text(text) == [i \in DOMAIN text |-> Resolved(text[i])]

depseudonymize_case_file(file) ==
    [place \in DOMAIN file |-> resolve_tokens_in_text(file[place])]

HandedOut(token) ==
    \E row \in answers : row.type = token.type /\ row.hex = token.hex

-----------------------------------------------------------------------------
(* Nothing a reviewer reads changes, but for made up tokens. *)
SameReading ==
    \A file \in CaseFiles : \A place \in DOMAIN file : \A i \in DOMAIN file[place] :
      LET token == file[place][i]
          before == depseudonymize_case_file(file)[place][i]
          after == depseudonymize_case_file(file)'[place][i]
      IN  before # after => before = token /\ ~HandedOut(token)

(* Reviewers of one case file read the same, whenever they read it and whatever
   sessions did in between: where a value was shown it stays, and a token that the
   agent was given never shows as one.  Only a token the agent made up may come to
   stand for somebody, when it is drawn later. *)
ReviewsAgree == [][SameReading]_vars
=============================================================================
