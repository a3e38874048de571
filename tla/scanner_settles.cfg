\* Edits during scans of two processes, no failure: the scans come to rest.
CONSTANTS
    m = m  a = a  fm = fm  fa = fa  fh = fh  p1 = p1  p2 = p2
    Proc = {p1, p2}
    Item <- MCItem
    File <- TwoFiles
    FileOf <- MCFileOf
    HeaderUnit <- HuItems
    Includes <- TwoIncludes
    Cmd = {c1}
    ItemSets <- AllSets
    Faults = {"race"}
    MaxTime = 3
    MaxVer = 1
    Free = Free
    NoCmd = NoCmd
SPECIFICATION BuildSpec
PROPERTIES LockReleased Settles
