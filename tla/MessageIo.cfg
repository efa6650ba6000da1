CONSTANTS
    None = None
    Pools <- MCPools
SPECIFICATION Spec
INVARIANTS TypeOK SizeExact ReadsWhatWasWritten FrameOutcome
CHECK_DEADLOCK FALSE
