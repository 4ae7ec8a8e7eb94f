SPECIFICATION Spec
CONSTANTS
    left = left
    right = right
    ctrl = ctrl
    shift = shift
    backslash = backslash
    RollOver = RollOver
    T = T
    Caps = Caps
    Keyboards = {left, right}
    Keys = {T, Caps, backslash}
    Mods = {shift}
    Ctrls = {}
    Shifts = {shift}
    Code <- TwinCodes
    Prints = {T}
    MaxKeys = 2
    Hold = 0
INVARIANTS TypeOK Balanced ProgramKnowsKeys
