\* Everything that can go wrong, with two processes and any subset of the items.
CONSTANTS
    m = m  a = a  fm = fm  fa = fa  fh = fh  p1 = p1  p2 = p2
    Proc <- TwoProcs
    Item <- MCItem
    File <- TwoFiles
    FileOf <- MCFileOf
    HeaderUnit <- HuItems
    Includes <- TwoIncludes
    Cmd = {c1}
    ItemSets <- AllSets
    Faults = {"race", "tool_fail", "tool_dies", "crash", "delete"}
    MaxTime = 3
    MaxVer = 1
    Free = Free
    NoCmd = NoCmd
SPECIFICATION Spec
INVARIANTS TypeOK ReadIsCurrent StaleExplained NoNeedlessRescan PathsKnown
PROPERTY RowsMoveForward
SYMMETRY ProcSym
