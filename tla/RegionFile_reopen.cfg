SPECIFICATION Spec
CONSTANTS
    Keys = {k1, k2}
    None = None
    Sizes = {2}
    MaxEnd = 8
    MaxSaves = 6
    MaxMisread = 1
    EntryBytes = 2
    StampRange = 8
    MisreadOffs = {0}
    EventSets = {{"reopen"}}
INVARIANTS StoresLastSave
CHECK_DEADLOCK FALSE
