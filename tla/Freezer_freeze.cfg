SPECIFICATION FreezerSpec
CONSTANTS
    Carts = {"ar", "fc3", "kcs", "ss5", "fm", "ff"}
    MaxPresses = 3
INVARIANTS
    FrozenAtVector
    GameLowAtVector
PROPERTIES
    Unmoved
