SPECIFICATION Spec
CONSTANTS
    INPUT_QUEUE_CAPACITY = 3
    SH_LINE_MAX = 4
    Lengths = {2}
    SerialChars = {"x", "CR", "BS"}
    KeyEvents = {}
    MaxTyped = 4
INVARIANTS
    LineEdited
