SPECIFICATION Spec
CONSTANTS
    Dirs <- MCDirs
    Root = 1
    Image <- MCImage
    Foreign <- MCForeign
    OffsetRange = 6
    Asked <- MCAsked
    NL = 10
    Nil = nil
    Error = error
    Chunk = 3
    Base = 8
    Word = 64
    Heap = 10
    Counts <- MCCounts
    Offsets <- MCOffsets
    Reach = 2
INVARIANTS TraverseFinds ListComplete NothingLost
PROPERTIES LinesWhole CallsReturn
