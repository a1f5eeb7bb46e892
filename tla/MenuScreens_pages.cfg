SPECIFICATION Spec
CONSTANTS
    ConnectOnBoot = FALSE
    UseWLAN = TRUE
    Outcomes = {"ok", "card", "wlan", "link", "usb"}
    ImageDelay = 4
    MaxFiles = 2
    MaxReboots = 1
    Countdown = 2
INVARIANTS TypeOK StickyHasCause PageFollowsKey WorkAnnounced
CHECK_DEADLOCK FALSE
