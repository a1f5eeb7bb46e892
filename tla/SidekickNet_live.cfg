SPECIFICATION FairSpec
CONSTANTS
  Uploads = {}
  Downloads = {d1}
  Images = {i1}
  Picks = {}
  WebPrg = webprg
  None = none
  UseWLAN = TRUE
  BootConnect = {TRUE}
  WebOnBoot = FALSE
  PageRequests = FALSE
  WebDuringGet = FALSE
  Yields = 1
  ImageDelay = 2
  SaveRefresh = 1
  MaxReboots = 0
INVARIANTS TypeOK SaveOrLaunch
PROPERTIES QueueDrains FilesDrain
CHECK_DEADLOCK FALSE
