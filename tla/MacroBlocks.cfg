SPECIFICATION Spec
CONSTANTS
    r1 = r1
    r2 = r2
    Receiver = {r1, r2}
    Blocks <- AllBlocks
INVARIANTS ChosenCaseRuns BlocksExpand
CHECK_DEADLOCK FALSE
