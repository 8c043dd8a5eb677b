SPECIFICATION Spec
CONSTANTS
    Categories <- MCCategories
    Prefixed <- MCPrefixed
    Toplevel <- MCToplevel
    DefaultFilters <- MCDefaultFilters
    Files <- MCFiles
    Args <- MCArgs
    MaxFiles = 3
    MaxTotal = 5
    NormalTrigger = 1
    TestTrigger = 2
INVARIANT GlobalSuppressesAll
CHECK_DEADLOCK FALSE
