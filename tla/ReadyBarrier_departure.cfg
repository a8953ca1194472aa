SPECIFICATION Spec
CONSTANTS
    Server = s
    Client = {c1, c2}
    Mortal = {c1}
    Script <- ShortScript
PROPERTIES
    DataArrivesAtWaiter
