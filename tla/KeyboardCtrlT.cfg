SPECIFICATION SpecPlugged
CONSTANTS
    left = left
    right = right
    ctrl = ctrl
    shift = shift
    backslash = backslash
    RollOver = RollOver
    T = T
    Caps = Caps
    Keyboards = {left}
    Keys = {T, Caps}
    Mods = {ctrl}
    Ctrls = {ctrl}
    Shifts = {}
    Code <- FewCodes
    Prints = {T}
    MaxKeys = 2
    Hold = 1
PROPERTIES CtrlTTerminates
