SPECIFICATION Spec
CONSTANTS
    SCREEN_WIDTH = 3
    SCREEN_HEIGHT = 2
    Glyphs <- MCGlyphs
    Blank = " "
    Garbage = garbage
    Texts <- MCTexts
    Blits <- MCBlits
    Places <- MCPlaces
    Lines <- MCLines
    ColorArgs <- MCColorArgs
    Levels <- MCLevels
    MaxCalls = 4
INVARIANTS TypeOK NeverOverruns PaletteClose
PROPERTIES RefinesWindow
CHECK_DEADLOCK FALSE
