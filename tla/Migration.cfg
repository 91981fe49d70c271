SPECIFICATION Spec
CONSTANTS
    None = None
    Openers = {o1, o2}
    Columns <- ColumnsOfMC
    FreshColumns <- FreshOfMC
    Keys = {"x", "y"}
    Ids = {0, 1, 2}
    OldRows <- OldRowsOfMC
INVARIANTS
    TypeOK
    NoRowIsLost
    OpenedIsCurrent
    LoneOpeningSucceeds
PROPERTIES
    ImplementsTable
SYMMETRY Alike
