SPECIFICATION Spec
CONSTANTS
    Host = {h1, h2}
    MaxEntries = 3
    MaxAddresses = 2
    MaxReconnects = 2
INVARIANTS
    TypeOK
    EndpointDefined
    OwnAddresses
PROPERTIES
    PrunedRight
    RotationUnpolled
CHECK_DEADLOCK FALSE
