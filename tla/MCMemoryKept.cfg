CONSTANTS
    h1 = h1
    h2 = h2
    Content <- Texts
    Candidate <- Wishes
    Similar <- Resembling
    Conflicting <- Conflicts
    Opposed <- Contradictions
    Protected = {"name"}
    Mortal = {"loves"}
    Keep = 1
    Tombstone = Tombstone
    Absent = Absent
    Handler = {h1, h2}
    MaxItems = 3
    MaxRequests = 2
    MaxCrashes = 1
SPECIFICATION Spec
CHECK_DEADLOCK FALSE
SYMMETRY HandlerSymmetry
\* Each of these is violated; one at a time.
\* INVARIANT ProofIsTrue
\* INVARIANT DeletedStaysOut
\* INVARIANT NoRivals
\* INVARIANT PendingReplacesNothing
INVARIANT DeletionIsProven
