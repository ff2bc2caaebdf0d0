SPECIFICATION Spec
CONSTANTS
    SH_MAX_ARGS = 3
    SH_MAX_STAGES = 3
    Lines <- MCLines
    MaxLength = 5
    MaxLines = 1
    MaxWrites = 2
INVARIANTS
    RedirectTaken
CHECK_DEADLOCK FALSE
