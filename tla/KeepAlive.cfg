SPECIFICATION TimedSpec
CONSTANTS
    Server = s
    Client = {c1, c2}
    Mortal = {c1, c2}
    Script <- TimedScript
    Timeout = 2
INVARIANTS
    TypeOK
    NeverAhead
PROPERTIES
    NobodyWaitsForever
