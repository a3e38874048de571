\* Scans of all items, one after another, whatever the tool reports.
CONSTANTS
    A = A  B = B  std = std  hdr = hdr
    N = 4
    Module <- MCModule
    StdCore = std
    Header = {hdr}
    Family = "all"
    Worlds <- MCWorlds
    MaxEdits = 2
    NoModule = NoModule
    MaxStops = 1
SPECIFICATION GenSpec
INVARIANTS TypeOK ToldExactly RowsAreReports CollatedExact CollateSucceeds FilesExact HeadersPrinted
