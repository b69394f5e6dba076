SPECIFICATION Spec
CONSTANT MaxStarts = 1
INVARIANT CancelledMeansNotStored
CHECK_DEADLOCK FALSE
