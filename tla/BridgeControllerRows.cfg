CONSTANT Backlog = 2
SPECIFICATION Spec
INVARIANT RowsLockedWhileUp
CHECK_DEADLOCK FALSE
