SPECIFICATION Spec
CONSTANTS
    SlaveCount = 2
    Contents <- MCContents
    EightByte <- MCEightByte
    SiiBytes <- MCSiiBytes
    Image <- MCImage
    Alias <- MCAlias
    MaxNacks = 3
    MaxFaults = 1
    Boards <- MCBoards
INVARIANTS EepromSafe SizesTrue
PROPERTIES FetchEnds
\* The program ends.
CHECK_DEADLOCK FALSE
