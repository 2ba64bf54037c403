SPECIFICATION Spec
CONSTANTS
    Paths <- MCPaths
    Above <- MCAbove
    Leaves <- MCLeaves
    Object = Object
    Null = Null
    Failed = Failed
    None = None
    Limit = 2
    NoName = 0
    Me = 3
    OtherLabels <- MCOtherLabels
    MyLabels <- MCMyLabels
    DefaultPath = "spec.replicas"
    DefaultValue = 0
    Setups <- MCSetups
    PatchLists <- MCPatchLists
    Filters <- MCFilters
    EditPaths <- MCEditPaths
    MaxEdits = 2
INVARIANTS
    TypeOK
    Transparent
PROPERTIES
    WakesWhatSlept
    SelectedAsDocumented
