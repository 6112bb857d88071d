--------------------------- MODULE MCThreadLifecycle ---------------------------
(***************************************************************************)
(* Instances of ThreadLifecycle for TLC.                                   *)
(***************************************************************************)
EXTENDS ThreadLifecycle

CONSTANTS t1, t2

\* One thread is used and closed, the other is created and left to the cleaner.
TurnsOfOne == [t \in Thread |-> IF t = t1 THEN 3 ELSE 0]

=============================================================================
