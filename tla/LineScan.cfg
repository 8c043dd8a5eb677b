SPECIFICATION Spec
CONSTANT
    Alphabets <- MCAlphabets
INVARIANTS
    
    TextInsideNested
    BracketsRecognised
    CommentsRemoved
    SearchUpEnds
CHECK_DEADLOCK FALSE
