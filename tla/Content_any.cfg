SPECIFICATION Spec
CONSTANTS
    Size = 4
    RangeXZ = 64
    RangeY = 16
    Types = {"stone", "glass"}
    MaxLight = 3
    Rotations = 24
    Scenes <- TheScenes
    TagNames = {"c:ingots", "c:ingots/iron", "metal"}
    ItemNames <- TheItems
    FamilyOf <- TheFamilies
    NamespaceOf <- TheNamespaces
    BaseOf <- TheBases
    IdOf <- TheIds
    TagFiles <- TheFiles
    MaxTagCalls = 4
    ModuleNames = {"a", "b", "c"}
    DependencySets <- TheDependencies
    MaxModuleCalls = 6
    ByteValues = 3
    Designs <- TheDesigns
    Swaps <- TheSwaps
    MaxEdits = 3
    Setups <- TheSetups
    MaxSurface = 8
    ItemTypes = {"coal", "pick"}
    MaxStackSize <- TheStackSizes
    Counts = {1, 2, 4}
    SlotCounts = {1, 3}
    MaxInventoryCalls = 5
    LooksLike <- TheWords
    Colons <- TheColons
    FileSets <- TheFileSets
    SettingValues = {3, 5}
    WorldValues <- TheWorldValues
    MaxTime = 2
    MaxSettingCalls = 4
INVARIANTS SettingsAreKept MeshesShowTheChunk TagsAreConsistent DependenciesOutlive CopiesAreFaithful LandIsSound InventoryIsSound
CHECK_DEADLOCK FALSE
