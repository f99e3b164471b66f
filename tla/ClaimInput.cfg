SPECIFICATION Spec
CONSTANTS
    Slots = {s1, s2}
    None = None
    Clients = {c1}
    Buttons = {left}
    MaxFrames = 1
SYMMETRY SlotSymmetry
INVARIANTS
    InputIsAccepted
CHECK_DEADLOCK FALSE
