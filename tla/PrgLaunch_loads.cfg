SPECIFICATION Spec
CONSTANTS
    Page = 2
    Split = 10
    Top = 16
    Buffer = 4
    Low = 2
    Loader = {2, 3}
    IO = {15}
    Programs <- SomePrograms
    Enough = 2
    Modem = TRUE
    MaxResets = 2
    MaxHangs = 2
INVARIANTS ProgramLoaded NothingElseWritten
PROPERTIES HungIsReset
CHECK_DEADLOCK FALSE
