SPECIFICATION FairSpec
CONSTANTS
  Uploads = {}
  Downloads = {}
  Images = {}
  Picks = {p1}
  WebPrg = webprg
  None = none
  UseWLAN = FALSE
  BootConnect = {TRUE, FALSE}
  WebOnBoot = TRUE
  PageRequests = TRUE
  WebDuringGet = FALSE
  Yields = 2
  ImageDelay = 2
  SaveRefresh = 2
  MaxReboots = 2
PROPERTIES WebServerServed RebootHappens
CHECK_DEADLOCK FALSE
