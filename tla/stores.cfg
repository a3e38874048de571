\* Scans and cleans of one item after another, each in a directory of its own.
CONSTANTS
    exe = exe  dll = dll  A = A  B = B
    ChunkSize = 5
    Roots <- MCRoots
    Paths <- MCPaths
    ItemPaths <- MCItemPaths
    UnitPaths <- MCUnitPaths
    Targets = {exe, dll}
    Names = {A, B}
    NoName = NoName
    MaxCommands = 3
    MaxLines = 2
SPECIFICATION Spec
INVARIANTS TypeOK RowsMeanWhatWasReported RowsAreFound AppendsSucceed
PROPERTIES ImplementsStringTables ImplementsPathTable
SYMMETRY Renamings
