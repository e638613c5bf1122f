---------------------------- MODULE MCPseudonymizer ----------------------------
(* Two sessions race over two values of each of two types.  With two hex parts
   a second value of a type collides every other time, two collisions in a row
   exhaust the retries, and the same hex part occurs under both types.  One case
   file names every token there can be, in a narrative and on its own. *)
EXTENDS CaseReview

CONSTANTS account_external_ref, customer_name, h1, h2

Token(type, hex) == [type |-> type, hex |-> hex]

MCCaseFiles ==
    {[narrative |-> <<Token(account_external_ref, h1), Token(customer_name, h1),
                      Token(account_external_ref, h2)>>,
      subject |-> <<Token(customer_name, h2)>>]}
=============================================================================
