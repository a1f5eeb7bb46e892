SPECIFICATION Spec
CONSTANTS
    Size = 8
    Frame = 5
    Batch = 3
    Slack = 3
    Users = {"oled", "slides"}
    MaxCommands = 15
    MaxResets = 2
INVARIANTS TypeOK TurnsTaken
PROPERTIES InOrder FrameShown CommandsLeave
CHECK_DEADLOCK FALSE
