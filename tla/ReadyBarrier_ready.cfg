SPECIFICATION Spec
CONSTANTS
    Server = s
    Client = {c1, c2, c3}
    Mortal = {}
    Script <- MatchScript
INVARIANTS
    CountIsExact
    Agreement
PROPERTIES
    AllReady
    DataArrivesAtWaiter
    Implements
    EverybodyFinishes
