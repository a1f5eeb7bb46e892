SPECIFICATION Spec
CONSTANTS
    Scripts <- MCScripts
    MaxRemote = 3
    Nuls <- MCNuls
    NmiDelay = 2
    KeepLow = 1
    MaxLaunches = 2
INVARIANTS
    ScreenTrue
PROPERTIES
    LineSpec
    NoAccessLost
    HaltEnds
    ByteFetched
