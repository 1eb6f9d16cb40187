SPECIFICATION Spec
CONSTANTS
    Settings = {a, b}
    NoSettings = none
    Parts = 2
    Need = 2
    MaxSessions = 2
    MaxReplies = 2
    MaxInfo = 2
    MaxSends = 3
SYMMETRY Symmetry
INVARIANTS
    TypeOK
    SettingsFollow
    BridgeServesTun
    InfoInOrder
    NothingForgotten
PROPERTIES
    ContractSpec
CHECK_DEADLOCK FALSE
