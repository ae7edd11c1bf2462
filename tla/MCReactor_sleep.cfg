SPECIFICATION Spec
CONSTANTS
    Child = {c}
    MaxLines = 1
INVARIANT SleepBoundedUntilReaped
\* The daemon really stops.
CHECK_DEADLOCK FALSE
