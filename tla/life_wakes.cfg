SPECIFICATION Spec
CONSTANTS
    MaxReconnects = 0
INVARIANTS StopResets
\* The process ends.
CHECK_DEADLOCK FALSE
