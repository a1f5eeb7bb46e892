SPECIFICATION Spec
CONSTANTS
    Banks = 2
    SectorBanks = 2
    Bits = {1}
    Chips <- MCChips
    MaxCommands = 2
    MaxLaunches = 2
CHECK_DEADLOCK FALSE
INVARIANTS
    NameIsDummy
