CONSTANTS
    None = None
    Pools <- FewPool
SPECIFICATION Spec
INVARIANT ReadsWhateverWasWritten
CHECK_DEADLOCK FALSE
