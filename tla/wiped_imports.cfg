\* Only a file without imports is rescanned.
CONSTANTS
    A = A  B = B  std = std  hdr = hdr
    N = 4
    Module <- MCModule
    StdCore = std
    Header = {hdr}
    Family = "plain"
    Worlds <- MCWorlds
    MaxEdits = 1
    NoModule = NoModule
    MaxStops = 1
SPECIFICATION GenSpec
INVARIANT PreviousResultsCollated
