\* Three boots of any releases over two files, of which the second is not rerunnable.
SPECIFICATION FairSpec
CONSTANTS
    b1 = b1
    b2 = b2
    b3 = b3
    Boots = {b1, b2, b3}
    MaxFiles = 2
    Rerunnable = {1}
    NoBoot = NoBoot
CHECK_DEADLOCK FALSE
INVARIANTS
    NoBootCollides
    SchemaIsRecorded
    ServingHasItsSchema
PROPERTIES
    EveryBootEnds
