\* Include structures as a complete scan leaves them: without cycles, or every list
\* names all that is reachable.
CONSTANTS
    N = 4
    Missing = Missing
    MaxDeps = 2
    Graphs <- TestGraphs
SPECIFICATION FairSpec
INVARIANTS TypeOK SearchExact LeftIsFinal UnknownHasDeps UpToDateKeepsDeps
PROPERTY Terminates
CHECK_DEADLOCK FALSE
