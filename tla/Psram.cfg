SPECIFICATION Spec
CONSTANTS
    Blocks = {b1, b2, b3}
    MaxNested = 3
INVARIANTS HeapsRight ForceReturns LostOnlyStrayed
PROPERTIES BlocksStay
