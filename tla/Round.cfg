SPECIFICATION Spec
CONSTANTS
    PositionThreshold = 2
    AnalogThreshold = 2
    AnalogFrames = 2
    Plays <- Themes
    MaxDatagrams = 2
INVARIANTS
    TypeOK
    EventsAgree
    HPAgrees
    NothingEchoed
    MirrorAgrees
PROPERTIES
    ButtonsFollow
    StickFollows
    AngleFollows
    PositionFollows
    ResultFollows
