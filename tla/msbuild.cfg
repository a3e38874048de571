\* Builds and cleans of two projects, any of which may be stopped.
CONSTANTS
    app = app  lib = lib  m = m  a = a  b = b
    Item <- MCItem
    Project <- MCProject
    ProjectOf <- MCProjectOf
    References <- MCReferences
    Order <- MCOrder
    Edited = {a, b}
    MaxVersion = 2
    MaxChanges = 2
    MaxStops = 1
SPECIFICATION Spec
INVARIANTS TypeOK MapsAreReports ThrowsExplained RowsHaveDefinitions MissedExplained
