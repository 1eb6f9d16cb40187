SPECIFICATION Spec
CONSTANTS
    Host = {h1, h2}
    MaxEntries = 2
    MaxAddresses = 2
    MaxReconnects = 0
PROPERTIES
    RotationReachesAll
CHECK_DEADLOCK FALSE
