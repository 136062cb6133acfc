SPECIFICATION Spec
CONSTANTS
    Keys = {k1, k2}
    None = None
    Sizes = {1, 2}
    MaxEnd = 5
    MaxSaves = 4
    MaxMisread = 1
    EntryBytes = 2
    StampRange = 4
    MisreadOffs = {3}
    EventSets = {{"compact", "dat_fails", "clock_back"}, {"compact", "compact_fails"}, {"reopen", "crash"}, {"reopen", "dat_fails", "compact", "compact_crash"}, {"reopen", "compact", "toc_fails"}, {"reopen", "compact", "compact_fails"}}
INVARIANTS FileIsConsistent SessionStoresLastSave
CHECK_DEADLOCK FALSE
