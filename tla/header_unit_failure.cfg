\* A header unit is rescanned, its importer fails: the importer is up to date next time.
CONSTANTS
    m = m  a = a  fm = fm  fa = fa  fh = fh  p1 = p1  p2 = p2
    Proc = {p1}
    Item <- MCItem
    File <- TwoFiles
    FileOf <- MCFileOf
    HeaderUnit <- HuItems
    Includes <- TwoIncludes
    Cmd = {c1}
    ItemSets <- AllItems
    Faults = {"tool_fail"}
    MaxTime = 3
    MaxVer = 1
    Free = Free
    NoCmd = NoCmd
SPECIFICATION Spec
INVARIANT UpToDateSucceeded
