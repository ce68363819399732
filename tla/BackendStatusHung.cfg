SPECIFICATION FairSpec
CONSTANTS
    Threshold = 3
PROPERTIES
    HungIsFlagged
