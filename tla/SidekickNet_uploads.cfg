SPECIFICATION Spec
CONSTANTS
  Uploads = {u1, u2}
  Downloads = {}
  Images = {}
  Picks = {}
  WebPrg = webprg
  None = none
  UseWLAN = TRUE
  BootConnect = {TRUE}
  WebOnBoot = TRUE
  PageRequests = TRUE
  WebDuringGet = TRUE
  Yields = 1
  ImageDelay = 2
  SaveRefresh = 2
  MaxReboots = 0
INVARIANTS KernelNameTruthful LaunchPromiseKept SavedIntact
CHECK_DEADLOCK FALSE
SYMMETRY FileSymmetry
