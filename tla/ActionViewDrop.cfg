SPECIFICATION Spec
CONSTANTS
    MaxActs = 3
    Listed = 3
    Long = {1}
    MaxOps = 2
PROPERTY
    DropLands
