SPECIFICATION Spec
CONSTANTS
    Child = {c}
    MaxLines = 1
PROPERTY StopHonoured
\* The daemon really stops.
CHECK_DEADLOCK FALSE
