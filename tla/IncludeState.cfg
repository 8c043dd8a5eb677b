SPECIFICATION Spec
CONSTANTS
    Headers <- MCHeaders
    OwnIncludes <- MCOwnIncludes
    Uses <- MCUses
    MaxLines = 5
INVARIANTS
    ScopesMatchConditions
    DuplicatesPerBranch
    SystemHeadersInOrder
    AlphaWithLineBefore
    AsksForMissing
CHECK_DEADLOCK FALSE
