SPECIFICATION Spec
CONSTANTS
    Host = h
    Client = {c1, c2, c3}
    Accepted = {c1, c2}
    Restless = {h, c1, c3}
    MaxConnects = 2
    MaxRestarts = 1
INVARIANTS
    NodesAreUnique
CHECK_DEADLOCK FALSE
