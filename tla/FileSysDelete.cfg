SPECIFICATION Spec
CONSTANTS
    Raw <- MCRaw
    Rom <- MCRom
    Handles = {h1, h2}
    MaxFds = 2
    MaxDirs = 2
    MaxSize = 2
    StackDepth = 7
INVARIANT DeleteReturns
