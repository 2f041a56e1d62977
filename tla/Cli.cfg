\* Extractions, additions and removals of the command.
SPECIFICATION Spec
CONSTANTS
    LowerCase <- MCLowerCase
    DeviceNames <- MCDeviceNames
    Name <- MCName
    Payload <- MCPayload
    Absent = Absent
    Torn = Torn
    Tree <- MCTree
    MaxDepth <- MCMaxDepth
    Runs <- MCRuns
INVARIANTS
    EditsAreAllOrNothing
    ExitZeroIsDone
    RefusedBeforeWriting
    LeavesTheRest
\* The command ends.
CHECK_DEADLOCK FALSE
