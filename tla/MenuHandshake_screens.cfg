SPECIFICATION FairSpec
CONSTANTS
  TimeOut = 1
  MaxResets = 2
  MaxRefreshes = 3
  MaxLaunches = 1
INVARIANTS TypeOK NoCrash ScreenWhole
PROPERTIES LaunchAfterCode MenuAnswered
CHECK_DEADLOCK FALSE
