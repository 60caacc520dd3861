SPECIFICATION Spec
CONSTANTS
    Customers = {"c1", "c2"}
    Names <- MCNames
    Aliases <- MCAliases
    Batches <- MCBatches
    KeysOf <- MCKeysOf
    Alike <- MCAlike
    SuffixRatio = 67
    MaxWrites = 3
PROPERTY NamesakeFound
CHECK_DEADLOCK FALSE
