SPECIFICATION Spec
CONSTANTS
    Host = h
    Client = {c1, c2}
    Accepted = {c1, c2}
    Restless = {c1, c2}
    MaxConnects = 2
    MaxRestarts = 0
PROPERTIES
    HostKeepsListening
CHECK_DEADLOCK FALSE
