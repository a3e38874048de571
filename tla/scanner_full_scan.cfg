\* Scans of all items, none fails, no edit during a scan: as good as from scratch.
CONSTANTS
    m = m  a = a  fm = fm  fa = fa  fh = fh  p1 = p1  p2 = p2
    Proc = {p1}
    Item <- MCItem
    File <- ThreeFiles
    FileOf <- MCFileOf
    HeaderUnit <- HuItems
    Includes <- ThreeIncludes
    Cmd = {c1}
    ItemSets <- AllItems
    Faults = {"crash"}
    MaxTime = 4
    MaxVer = 2
    Free = Free
    NoCmd = NoCmd
SPECIFICATION Spec
INVARIANT UpToDateIsFresh
PROPERTY ImplementsFullScan
