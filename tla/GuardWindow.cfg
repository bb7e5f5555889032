SPECIFICATION Spec
CONSTANTS
    Commands = {a, b}
    Targets = {x, y}
    Migrations = {1, 2}
    MaxAge = 1
    MaxTime = 3
    MaxEdits = 2
    EditsAnyTime = TRUE
PROPERTIES
    RemoteIsRehearsed
CHECK_DEADLOCK FALSE
