----------------------------- MODULE MCContextPack -----------------------------
(***************************************************************************)
(* Instances of ContextPack for TLC.                                       *)
(***************************************************************************)
EXTENDS ContextPack

CONSTANTS m1, d1

\* A result of a tool is twice as long as the other messages.  A summary, with its
\* headings, is longer than a short turn and the prompt together.
Sizes ==
    [kind \in Kind |->
        CASE kind = "summary" -> 4
          [] kind \in {"tool", "rag"} -> 2
          [] OTHER -> 1]

=============================================================================
