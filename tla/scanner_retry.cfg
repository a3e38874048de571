\* Partial scans, failures, crashes, command changes, deleted files that come back,
\* without header units: nothing is forgotten.
CONSTANTS
    m = m  a = a  fm = fm  fa = fa  fh = fh  p1 = p1  p2 = p2
    Proc = {p1}
    Item <- MCItem
    File <- TwoFiles
    FileOf <- MCFileOf
    HeaderUnit <- NoHuItems
    Includes <- TwoIncludes
    Cmd = {c1, c2}
    ItemSets <- AllSets
    Faults = {"crash", "tool_fail", "delete"}
    MaxTime = 2
    MaxVer = 2
    Free = Free
    NoCmd = NoCmd
SPECIFICATION Spec
INVARIANT UpToDateSucceeded
PROPERTY OodUntilRescanned
SYMMETRY CmdSym
