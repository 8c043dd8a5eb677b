SPECIFICATION Spec
CONSTANTS
    Lines <- MCLines
    MaxLines = 5
INVARIANTS
    ElseTransparent
    BlocksAreBraces
CHECK_DEADLOCK FALSE
