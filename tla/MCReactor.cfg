SPECIFICATION Spec
CONSTANTS
    Child = {c, d}
    MaxLines = 2
INVARIANTS TypeOK NothingUnwritten
PROPERTIES LogcatLossExits ZombiesReaped StopHonouredUnderTraffic
\* The daemon really stops.
CHECK_DEADLOCK FALSE
