SPECIFICATION Spec
CONSTANTS
    MaxReconnects = 1
INVARIANTS LifeSafe ActuatorsReset
PROPERTIES SignalEnds
\* The process ends.
CHECK_DEADLOCK FALSE
