SPECIFICATION Spec
CONSTANTS
    Height = 2
    Glyphs = {0, 1}
    Blank = 0
    Attrs = {0}
    Palettes = {0, 1}
    CursorRows = {1}
    Overlap = FALSE
INVARIANTS TypeOK NoLostUpdate NoLostFrame CursorColorValid
PROPERTIES DisplaySettles
