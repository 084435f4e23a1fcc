CONSTANTS
    RebuiltIfMissing = FALSE
    MaxVersion = 4
    MaxSaves = 3
SPECIFICATION DiskSpec
INVARIANTS
    GracefulStop
PROPERTIES
    RestartsFromLastSave
