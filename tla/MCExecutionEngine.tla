------------------------- MODULE MCExecutionEngine -------------------------
(***************************************************************************)
(* Instances of ExecutionEngine for TLC.                                   *)
(***************************************************************************)
EXTENDS ExecutionEngine, TLC

CONSTANTS t1, t2, r1, r2, r3, m1, m2, m3

OneThread  == [r \in Run |-> t1]
TwoThreads == [r \in Run |-> IF r = r1 THEN t1 ELSE t2]

\* Bound of some runs: no thread is ended or archived.
ThreadsStayOpen == closed = {}

\* The objects are interchangeable.  Used only where no liveness is checked.
ManagedSymmetry == Permutations(Managed)

=============================================================================
