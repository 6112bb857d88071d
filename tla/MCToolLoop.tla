------------------------------ MODULE MCToolLoop ------------------------------
(***************************************************************************)
(* Instances of ToolLoop for TLC.                                          *)
(***************************************************************************)
EXTENDS ToolLoop

CONSTANTS k1

\* All is told; only the ids are; only results are; only errors are.
SomeLibraries ==
    {[ids |-> TRUE, plain |-> TRUE, errors |-> TRUE],
     [ids |-> TRUE, plain |-> FALSE, errors |-> FALSE],
     [ids |-> FALSE, plain |-> TRUE, errors |-> FALSE],
     [ids |-> FALSE, plain |-> FALSE, errors |-> TRUE]}

CallsOfAllRules ==
    {[tool |-> "http_post", rule |-> "allow", key |-> k1],
     [tool |-> "http_post", rule |-> "ask", key |-> k1],
     [tool |-> "http_post", rule |-> "deny", key |-> NoKey],
     [tool |-> "http_get", rule |-> "allow", key |-> NoKey],
     [tool |-> "search_docs", rule |-> "route", key |-> NoKey]}

=============================================================================
