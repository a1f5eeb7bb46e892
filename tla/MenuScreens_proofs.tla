-------------------------- MODULE MenuScreens_proofs --------------------------
(***************************************************************************)
(* Proofs about MenuScreens, for every way a connection may end and any    *)
(* number of files and reboots: types, the cause of a message that stays,  *)
(* and that pages follow the user's keys alone.                            *)
(***************************************************************************)
EXTENDS MenuScreens, TLAPS

(***************************************************************************)
(* What the three functions of the message box return.                     *)
(***************************************************************************)
LEMMA SetKeepsType ==
  ASSUME NEW m \in Menus, NEW text \in Messages, NEW sticky \in BOOLEAN
  PROVE  /\ SetErrorMsg2(m, text, sticky) \in Menus
         /\ SetErrorMsg2(m, text, sticky).screen = "error"
         /\ SetErrorMsg2(m, text, sticky).prev = m.screen
         /\ SetErrorMsg2(m, text, sticky).msg = text
         /\ SetErrorMsg2(m, text, sticky).sticky = sticky
         /\ text # None
BY DEF SetErrorMsg2, Menus, Screens, Messages, None

LEMMA ClearKeepsType ==
  ASSUME NEW m \in Menus
  PROVE  /\ ClearErrorMsg(m) \in Menus
         /\ ClearErrorMsg(m).msg = None
         /\ ClearErrorMsg(m).sticky = FALSE
         /\ ClearErrorMsg(m).prev = m.prev
         /\ m.msg = None => ClearErrorMsg(m).screen = m.screen
         /\ m.msg # None => ClearErrorMsg(m).screen = Restored(m)
         /\ Restored(m) \in Screens
BY DEF ClearErrorMsg, Restored, Menus, Screens, Messages, None

LEMMA RenderKeepsType ==
  ASSUME NEW m \in Menus
  PROVE  /\ RenderC64(m) \in Menus
         /\ RenderC64(m).sticky = m.sticky
         /\ RenderC64(m).prev = m.prev
         /\ m.msg = None => RenderC64(m) = m
         /\ m.msg # None => RenderC64(m).screen = m.prev
         /\ ~m.sticky => RenderC64(m).msg = None
BY DEF RenderC64, RenderErrorMsg, Menus, Screens, Messages, None

LEMMA DrawnType ==
  ASSUME NEW m \in Menus, NEW s \in Sights
  PROVE  Drawn(m, s) \in Sights
BY DEF Drawn, Menus, Sights, Screens, Pages, Messages, None

(* What the connection attempt leaves of the message box.                  *)
LEMMA InitializeMenu ==
  ASSUME UserTypeOK, NEW o \in Outcomes, Initialize(o)
  PROVE  /\ menu' \in Menus
         /\ running' => menu' = ClearErrorMsg(menu)
         /\ ~running' => menu' = menu \/ menu'.sticky = TRUE
         /\ running' \in BOOLEAN
<1>1. menu \in Menus
  BY DEF UserTypeOK
<1>0. \A m \in Menus : Fail(m) \in Menus /\ Fail(m).sticky = TRUE
  <2> SUFFICES ASSUME NEW m \in Menus
               PROVE  Fail(m) \in Menus /\ Fail(m).sticky = TRUE
    OBVIOUS
  <2>1. "failed" \in Messages /\ TRUE \in BOOLEAN
    BY DEF Messages
  <2> QED
    BY <2>1, SetKeepsType DEF Fail
<1>2. /\ Fail(menu) \in Menus /\ Fail(menu).sticky = TRUE
      /\ Fail(Fail(menu)) \in Menus /\ Fail(Fail(menu)).sticky = TRUE
  BY <1>0, <1>1
<1>3. menu' = AfterConnecting(menu, o)
  BY DEF Initialize
<1>4. CASE o = "ok"
  <2>1. menu' = ClearErrorMsg(menu)
    BY <1>3, <1>4 DEF AfterConnecting
  <2>2. running' = TRUE
    BY <1>4 DEF Initialize
  <2> QED
    BY <1>1, <2>1, <2>2, ClearKeepsType
<1>5. CASE o # "ok"
  <2>1. menu' = menu \/ menu' = AfterFailure(menu, o)
    BY <1>3, <1>5 DEF AfterConnecting
  <2>2. running' = FALSE
    BY <1>5 DEF Initialize
  <2> QED
    BY <1>1, <1>2, <2>1, <2>2 DEF AfterFailure
<1> QED
  BY <1>4, <1>5

LEMMA InitializeNet ==
  ASSUME NEW o \in Outcomes, Initialize(o)
  PROVE  running' \in BOOLEAN /\ prepared' \in {"no", "usb", "all"}
<1>1. running' \in BOOLEAN
  BY DEF Initialize
<1>2. o \in {"usb", "card", "wlan", "link", "ok"}
  BY ConfigAssumption DEF Failures
<1>3. prepared' \in {"no", "usb", "all"}
  BY <1>2 DEF Initialize
<1> QED
  BY <1>1, <1>3

LEMMA MovesKeepType ==
  ASSUME NEW m \in Menus, NEW s \in Screens, NEW p \in Screens
  PROVE  /\ [m EXCEPT !.screen = s, !.prev = p] \in Menus
         /\ [m EXCEPT !.screen = s] \in Menus
         /\ [m EXCEPT !.screen = s, !.prev = p, !.msg = "local"] \in Menus
         /\ [m EXCEPT !.msg = None] \in Menus
         /\ m.screen \in Screens /\ m.prev \in Screens
BY DEF Menus, Messages

LEMMA MovesKeepSticky ==
  ASSUME NEW m \in Menus, NEW s, NEW p, NEW t
  PROVE  /\ [m EXCEPT !.screen = s, !.prev = p].sticky = m.sticky
         /\ [m EXCEPT !.screen = s].sticky = m.sticky
         /\ [m EXCEPT !.screen = s, !.prev = p, !.msg = t].sticky = m.sticky
         /\ [m EXCEPT !.msg = t].sticky = m.sticky
BY DEF Menus

LEMMA LinksType == \A l \in Links : l[2] \in Keys /\ l[3] \in Screens
BY DEF Links, Keys, Screens, Pages

LEMMA CleanupType ==
  ASSUME UserTypeOK, CleanupDownloadData
  PROVE  menu' \in Menus
BY ClearKeepsType DEF UserTypeOK, CleanupDownloadData

LEMMA AnnounceType ==
  ASSUME UserTypeOK, saveFlag \in BOOLEAN, Announce
  PROVE  menu' \in Menus
<1>1. menu \in Menus
  BY DEF UserTypeOK
<1>2. "saving" \in Messages /\ "launching" \in Messages
  BY DEF Messages
<1>3. /\ SetErrorMsg2(menu, "saving", FALSE) \in Menus
      /\ SetErrorMsg2(menu, "launching", TRUE) \in Menus
  BY <1>1, <1>2, SetKeepsType
<1> QED
  BY <1>3 DEF Announce

LEMMA StartFrameType ==
  ASSUME UserTypeOK, NEW k \in Keys \cup {None}, StartFrame(k)
  PROVE  key' \in Keys \cup {None} /\ before' \in Screens /\ shown' = shown
<1>1. menu.screen \in Screens /\ Restored(menu) \in Screens
  BY MovesKeepType, ClearKeepsType DEF UserTypeOK, Menus
<1> QED
  BY <1>1 DEF StartFrame, UserTypeOK

(***************************************************************************)
(* Types.                                                                  *)
(***************************************************************************)
LEMMA LoopTypeStep ==
  ASSUME LoopTypeOK, [Next]_vars
  PROVE  LoopTypeOK'
<1>1. CASE Boot
  BY <1>1, ConfigAssumption
     DEF Boot, Initialize, Fail, AfterFailure, Possible, Silent, loopVars, sysVars, LoopTypeOK
<1>2. CASE RebootCountdown
  BY <1>2, ConfigAssumption
     DEF RebootCountdown, loopVars, sysVars, LoopTypeOK
<1>3. CASE RebootNow
  BY <1>3, ConfigAssumption
     DEF RebootNow, loopVars, sysVars, LoopTypeOK
<1>4. CASE NoKey
  BY <1>4, ConfigAssumption
     DEF NoKey, StartFrame, loopVars, sysVars, LoopTypeOK
<1>5. ASSUME NEW k \in Keys, LeaveError(k) PROVE LoopTypeOK'
  BY <1>5, ConfigAssumption
     DEF LeaveError, StartFrame, loopVars, sysVars, LoopTypeOK
<1>6. ASSUME NEW l \in Links, Navigate(l[2], l[3]) PROVE LoopTypeOK'
  BY <1>6, ConfigAssumption
     DEF Navigate, StartFrame, Links, loopVars, sysVars, LoopTypeOK
<1>7. CASE LocalError
  BY <1>7, ConfigAssumption
     DEF LocalError, StartFrame, loopVars, sysVars, LoopTypeOK
<1>8. CASE LaunchCRT
  BY <1>8, ConfigAssumption
     DEF LaunchCRT, StartFrame, loopVars, sysVars, LoopTypeOK
<1>9. CASE Connect
  BY <1>9, ConfigAssumption
     DEF Connect, StartFrame, loopVars, sysVars, LoopTypeOK
<1>10. CASE AskServer
  BY <1>10, ConfigAssumption
     DEF AskServer, StartFrame, AnyQueued, loopVars, sysVars, LoopTypeOK
<1>11. ASSUME NEW k \in Keys, OtherKey(k) PROVE LoopTypeOK'
  BY <1>11, ConfigAssumption
     DEF OtherKey, StartFrame, loopVars, sysVars, LoopTypeOK
<1>12. CASE Refresh
  BY <1>12, ConfigAssumption
     DEF Refresh, loopVars, sysVars, LoopTypeOK
<1>13. ASSUME NEW mode \in {"save", "launch", "both"}, Upload(mode) PROVE LoopTypeOK'
  BY <1>13, ConfigAssumption
     DEF Upload, WebTurn, loopVars, sysVars, LoopTypeOK
<1>14. CASE RequestReboot
  BY <1>14, ConfigAssumption
     DEF RequestReboot, WebTurn, loopVars, sysVars, LoopTypeOK
<1>15. CASE Delayed
  BY <1>15, ConfigAssumption
     DEF Delayed, CountDown, AfterQueue, NextCheck, loopVars, sysVars, LoopTypeOK
<1>16. CASE RunInit
  BY <1>16, ConfigAssumption
     DEF RunInit, Initialize, Fail, AfterFailure, Possible, Silent, AfterQueue, NextCheck, loopVars, sysVars, LoopTypeOK
<1>17. ASSUME NEW ok \in BOOLEAN, RunDownload(ok) PROVE LoopTypeOK'
  BY <1>17, ConfigAssumption
     DEF RunDownload, NextCheck, loopVars, sysVars, LoopTypeOK
<1>18. ASSUME NEW command \in BOOLEAN, NEW save \in BOOLEAN, RunKeypress(command, save) PROVE LoopTypeOK'
  BY <1>18, ConfigAssumption
     DEF RunKeypress, NextCheck, loopVars, sysVars, LoopTypeOK
<1>19. CASE NothingToDo
  BY <1>19, ConfigAssumption
     DEF NothingToDo, AfterQueue, NextCheck, loopVars, sysVars, LoopTypeOK
<1>20. CASE LaunchCheck
  BY <1>20, ConfigAssumption
     DEF LaunchCheck, NextCheck, CleanupDownloadData, loopVars, sysVars, LoopTypeOK
<1>21. CASE SaveCheck
  BY <1>21, ConfigAssumption
     DEF SaveCheck, NextCheck, CleanupDownloadData, loopVars, sysVars, LoopTypeOK
<1>22. CASE FinishCheck
  BY <1>22, ConfigAssumption
     DEF FinishCheck, NextCheck, CleanupDownloadData, Announce, loopVars, sysVars, LoopTypeOK
<1>23. CASE NothingFinished
  BY <1>23, ConfigAssumption
     DEF NothingFinished, NextCheck, loopVars, sysVars, LoopTypeOK
<1>24. CASE EndFrame
  <2>1. CASE QueueImage
    BY <1>24, <2>1 DEF EndFrame, QueueImage, loopVars, LoopTypeOK
  <2>2. CASE UNCHANGED <<files, dlQueued, ext, delay>>
    BY <1>24, <2>2 DEF EndFrame, loopVars, LoopTypeOK
  <2> QED
    BY <1>24, <2>1, <2>2 DEF EndFrame
<1>25. CASE EndRefresh
  <2>1. files' \in Nat
    BY <1>25 DEF EndRefresh, QueueImage, LoopTypeOK
  <2>2. updateNeeded' \in BOOLEAN
    BY <1>25 DEF EndRefresh
  <2> QED
    BY <1>25, <2>1, <2>2 DEF EndRefresh, LoopTypeOK
<1>26. CASE UNCHANGED vars
  BY <1>26 DEF vars, loopVars, userVars, connVars, pageVars, fileVars, sysVars, LoopTypeOK
<1> QED
  BY <1>1, <1>2, <1>3, <1>4, <1>5, <1>6, <1>7, <1>8, <1>9, <1>10, <1>11, <1>12, <1>13, <1>14, <1>15, <1>16, <1>17, <1>18, <1>19, <1>20, <1>21, <1>22, <1>23, <1>24, <1>25, <1>26
     DEF Next, HandleC64

LEMMA UserTypeStep ==
  ASSUME UserTypeOK, NetTypeOK, [Next]_vars
  PROVE  UserTypeOK'
<1>1. CASE Boot
  <2>1. menu' \in Menus
    BY <1>1, InitializeMenu DEF Boot, UserTypeOK
  <2> QED
    BY <1>1, <2>1 DEF Boot, userVars, UserTypeOK
<1>2. CASE RebootCountdown
  BY <1>2, SetKeepsType, ClearKeepsType
     DEF RebootCountdown, userVars, UserTypeOK, Keys, Menus, Screens, Pages, Messages
<1>3. CASE RebootNow
  BY <1>3, SetKeepsType, ClearKeepsType
     DEF RebootNow, userVars, UserTypeOK, Keys, Menus, Screens, Pages, Messages
<1>4. CASE NoKey
  BY <1>4, SetKeepsType, ClearKeepsType
     DEF NoKey, StartFrame, userVars, UserTypeOK, Keys, Menus, Screens, Pages, Messages
<1>5. ASSUME NEW k \in Keys, LeaveError(k) PROVE UserTypeOK'
  BY <1>5, SetKeepsType, ClearKeepsType
     DEF LeaveError, StartFrame, userVars, UserTypeOK, Keys, Menus, Screens, Pages, Messages
<1>6. ASSUME NEW l \in Links, Navigate(l[2], l[3]) PROVE UserTypeOK'
  <2>1. menu' \in Menus
    BY <1>6, LinksType, MovesKeepType DEF Navigate, UserTypeOK, Screens, Pages
  <2> QED
    BY <1>6, <2>1, StartFrameType, LinksType DEF Navigate, userVars, UserTypeOK, Keys
<1>7. CASE LocalError
  <2>1. menu' \in Menus
    BY <1>7, MovesKeepType DEF LocalError, UserTypeOK, Screens
  <2> QED
    BY <1>7, <2>1, StartFrameType DEF LocalError, userVars, UserTypeOK, Keys
<1>8. CASE LaunchCRT
  <2>1. menu' \in Menus
    BY <1>8, MovesKeepType DEF LaunchCRT, UserTypeOK
  <2> QED
    BY <1>8, <2>1, StartFrameType DEF LaunchCRT, userVars, UserTypeOK, Keys
<1>9. CASE Connect
  BY <1>9, SetKeepsType, ClearKeepsType
     DEF Connect, StartFrame, userVars, UserTypeOK, Keys, Menus, Screens, Pages, Messages
<1>10. CASE AskServer
  BY <1>10, SetKeepsType, ClearKeepsType
     DEF AskServer, StartFrame, AnyQueued, userVars, UserTypeOK, Keys, Menus, Screens, Pages, Messages
<1>11. ASSUME NEW k \in Keys, OtherKey(k) PROVE UserTypeOK'
  BY <1>11, SetKeepsType, ClearKeepsType
     DEF OtherKey, StartFrame, userVars, UserTypeOK, Keys, Menus, Screens, Pages, Messages
<1>12. CASE Refresh
  BY <1>12, SetKeepsType, ClearKeepsType
     DEF Refresh, userVars, UserTypeOK, Keys, Menus, Screens, Pages, Messages
<1>13. ASSUME NEW mode \in {"save", "launch", "both"}, Upload(mode) PROVE UserTypeOK'
  BY <1>13, SetKeepsType, ClearKeepsType
     DEF Upload, WebTurn, userVars, UserTypeOK, Keys, Menus, Screens, Pages, Messages
<1>14. CASE RequestReboot
  BY <1>14, SetKeepsType, ClearKeepsType
     DEF RequestReboot, WebTurn, userVars, UserTypeOK, Keys, Menus, Screens, Pages, Messages
<1>15. CASE Delayed
  BY <1>15, SetKeepsType, ClearKeepsType
     DEF Delayed, CountDown, AfterQueue, NextCheck, userVars, UserTypeOK, Keys, Menus, Screens, Pages, Messages
<1>16. CASE RunInit
  <2>1. menu' \in Menus
    BY <1>16, InitializeMenu DEF RunInit
  <2> QED
    BY <1>16, <2>1 DEF RunInit, userVars, UserTypeOK
<1>17. ASSUME NEW ok \in BOOLEAN, RunDownload(ok) PROVE UserTypeOK'
  BY <1>17, SetKeepsType, ClearKeepsType
     DEF RunDownload, NextCheck, userVars, UserTypeOK, Keys, Menus, Screens, Pages, Messages
<1>18. ASSUME NEW command \in BOOLEAN, NEW save \in BOOLEAN, RunKeypress(command, save) PROVE UserTypeOK'
  BY <1>18, SetKeepsType, ClearKeepsType
     DEF RunKeypress, NextCheck, userVars, UserTypeOK, Keys, Menus, Screens, Pages, Messages
<1>19. CASE NothingToDo
  BY <1>19, SetKeepsType, ClearKeepsType
     DEF NothingToDo, AfterQueue, NextCheck, userVars, UserTypeOK, Keys, Menus, Screens, Pages, Messages
<1>20. CASE LaunchCheck
  <2>1. menu' \in Menus
    BY <1>20, CleanupType DEF LaunchCheck, UserTypeOK, NetTypeOK
  <2> QED
    BY <1>20, <2>1 DEF LaunchCheck, userVars, UserTypeOK, Keys
<1>21. CASE SaveCheck
  <2>1. menu' \in Menus
    BY <1>21, CleanupType DEF SaveCheck, UserTypeOK, NetTypeOK
  <2> QED
    BY <1>21, <2>1 DEF SaveCheck, userVars, UserTypeOK, Keys
<1>22. CASE FinishCheck
  <2>1. menu' \in Menus
    BY <1>22, CleanupType, AnnounceType DEF FinishCheck, UserTypeOK, NetTypeOK
  <2> QED
    BY <1>22, <2>1 DEF FinishCheck, userVars, UserTypeOK, Keys
<1>23. CASE NothingFinished
  BY <1>23, SetKeepsType, ClearKeepsType
     DEF NothingFinished, NextCheck, userVars, UserTypeOK, Keys, Menus, Screens, Pages, Messages
<1>24. CASE EndFrame
  <2>1. AfterRender \in Menus /\ RenderC64(AfterRender) \in Menus
    BY RenderKeepsType DEF AfterRender, UserTypeOK
  <2>2. Drawn(menu, shown) \in Sights
    BY DrawnType DEF UserTypeOK
  <2>3. \A s \in Sights : Drawn(AfterRender, s) \in Sights
    BY <2>1, DrawnType
  <2> QED
    BY <1>24, <2>1, <2>2, <2>3 DEF EndFrame, UserTypeOK
<1>25. CASE EndRefresh
  <2>1. AfterRender \in Menus /\ RenderC64(AfterRender) \in Menus
    BY RenderKeepsType DEF AfterRender, UserTypeOK
  <2>2. Drawn(menu, shown) \in Sights
    BY DrawnType DEF UserTypeOK
  <2>3. \A s \in Sights : Drawn(AfterRender, s) \in Sights
    BY <2>1, DrawnType
  <2> QED
    BY <1>25, <2>1, <2>2, <2>3 DEF EndRefresh, UserTypeOK
<1>26. CASE UNCHANGED vars
  BY <1>26 DEF vars, loopVars, userVars, connVars, pageVars, fileVars, sysVars, UserTypeOK
<1> QED
  BY <1>1, <1>2, <1>3, <1>4, <1>5, <1>6, <1>7, <1>8, <1>9, <1>10, <1>11, <1>12, <1>13, <1>14, <1>15, <1>16, <1>17, <1>18, <1>19, <1>20, <1>21, <1>22, <1>23, <1>24, <1>25, <1>26
     DEF Next, HandleC64

LEMMA NetTypeStep ==
  ASSUME LoopTypeOK, NetTypeOK, [Next]_vars
  PROVE  NetTypeOK'
<1>1. CASE Boot
  BY <1>1, InitializeNet
     DEF Boot, connVars, pageVars, fileVars, NetTypeOK
<1>2. CASE RebootCountdown
  BY <1>2, ConfigAssumption
     DEF RebootCountdown, connVars, pageVars, fileVars, NetTypeOK, LoopTypeOK, Failures
<1>3. CASE RebootNow
  BY <1>3, ConfigAssumption
     DEF RebootNow, connVars, pageVars, fileVars, NetTypeOK, LoopTypeOK, Failures
<1>4. CASE NoKey
  BY <1>4, ConfigAssumption
     DEF NoKey, StartFrame, connVars, pageVars, fileVars, NetTypeOK, LoopTypeOK, Failures
<1>5. ASSUME NEW k \in Keys, LeaveError(k) PROVE NetTypeOK'
  BY <1>5, ConfigAssumption
     DEF LeaveError, StartFrame, connVars, pageVars, fileVars, NetTypeOK, LoopTypeOK, Failures
<1>6. ASSUME NEW l \in Links, Navigate(l[2], l[3]) PROVE NetTypeOK'
  BY <1>6, ConfigAssumption
     DEF Navigate, StartFrame, Links, connVars, pageVars, fileVars, NetTypeOK, LoopTypeOK, Failures
<1>7. CASE LocalError
  BY <1>7, ConfigAssumption
     DEF LocalError, StartFrame, connVars, pageVars, fileVars, NetTypeOK, LoopTypeOK, Failures
<1>8. CASE LaunchCRT
  BY <1>8, ConfigAssumption
     DEF LaunchCRT, StartFrame, connVars, pageVars, fileVars, NetTypeOK, LoopTypeOK, Failures
<1>9. CASE Connect
  BY <1>9, ConfigAssumption
     DEF Connect, StartFrame, connVars, pageVars, fileVars, NetTypeOK, LoopTypeOK, Failures
<1>10. CASE AskServer
  BY <1>10, ConfigAssumption
     DEF AskServer, StartFrame, AnyQueued, connVars, pageVars, fileVars, NetTypeOK, LoopTypeOK, Failures
<1>11. ASSUME NEW k \in Keys, OtherKey(k) PROVE NetTypeOK'
  BY <1>11, ConfigAssumption
     DEF OtherKey, StartFrame, connVars, pageVars, fileVars, NetTypeOK, LoopTypeOK, Failures
<1>12. CASE Refresh
  BY <1>12, ConfigAssumption
     DEF Refresh, connVars, pageVars, fileVars, NetTypeOK, LoopTypeOK, Failures
<1>13. ASSUME NEW mode \in {"save", "launch", "both"}, Upload(mode) PROVE NetTypeOK'
  BY <1>13, ConfigAssumption
     DEF Upload, WebTurn, connVars, pageVars, fileVars, NetTypeOK, LoopTypeOK, Failures
<1>14. CASE RequestReboot
  BY <1>14, ConfigAssumption
     DEF RequestReboot, WebTurn, connVars, pageVars, fileVars, NetTypeOK, LoopTypeOK, Failures
<1>15. CASE Delayed
  BY <1>15, ConfigAssumption
     DEF Delayed, CountDown, AfterQueue, NextCheck, connVars, pageVars, fileVars, NetTypeOK, LoopTypeOK, Failures
<1>16. CASE RunInit
  BY <1>16, InitializeNet
     DEF RunInit, connVars, pageVars, fileVars, NetTypeOK
<1>17. ASSUME NEW ok \in BOOLEAN, RunDownload(ok) PROVE NetTypeOK'
  BY <1>17, ConfigAssumption
     DEF RunDownload, NextCheck, connVars, pageVars, fileVars, NetTypeOK, LoopTypeOK, Failures
<1>18. ASSUME NEW command \in BOOLEAN, NEW save \in BOOLEAN, RunKeypress(command, save) PROVE NetTypeOK'
  BY <1>18, ConfigAssumption
     DEF RunKeypress, NextCheck, connVars, pageVars, fileVars, NetTypeOK, LoopTypeOK, Failures
<1>19. CASE NothingToDo
  BY <1>19, ConfigAssumption
     DEF NothingToDo, AfterQueue, NextCheck, connVars, pageVars, fileVars, NetTypeOK, LoopTypeOK, Failures
<1>20. CASE LaunchCheck
  BY <1>20, ConfigAssumption
     DEF LaunchCheck, NextCheck, CleanupDownloadData, connVars, pageVars, fileVars, NetTypeOK, LoopTypeOK, Failures
<1>21. CASE SaveCheck
  BY <1>21, ConfigAssumption
     DEF SaveCheck, NextCheck, CleanupDownloadData, connVars, pageVars, fileVars, NetTypeOK, LoopTypeOK, Failures
<1>22. CASE FinishCheck
  BY <1>22, ConfigAssumption
     DEF FinishCheck, NextCheck, CleanupDownloadData, Announce, connVars, pageVars, fileVars, NetTypeOK, LoopTypeOK, Failures
<1>23. CASE NothingFinished
  BY <1>23, ConfigAssumption
     DEF NothingFinished, NextCheck, connVars, pageVars, fileVars, NetTypeOK, LoopTypeOK, Failures
<1>24. CASE EndFrame
  <2>1. CASE QueueImage
    BY <1>24, <2>1, ConfigAssumption DEF EndFrame, QueueImage, connVars, NetTypeOK
  <2>2. CASE UNCHANGED <<files, dlQueued, ext, delay>>
    BY <1>24, <2>2 DEF EndFrame, connVars, NetTypeOK
  <2> QED
    BY <1>24, <2>1, <2>2 DEF EndFrame
<1>25. CASE EndRefresh
  <2>1. CASE QueueImage
    BY <1>25, <2>1, ConfigAssumption DEF EndRefresh, QueueImage, connVars, NetTypeOK
  <2>2. CASE UNCHANGED <<files, dlQueued, ext, delay>>
    BY <1>25, <2>2 DEF EndRefresh, connVars, NetTypeOK
  <2> QED
    BY <1>25, <2>1, <2>2 DEF EndRefresh
<1>26. CASE UNCHANGED vars
  BY <1>26 DEF vars, loopVars, userVars, connVars, pageVars, fileVars, sysVars, NetTypeOK
<1> QED
  BY <1>1, <1>2, <1>3, <1>4, <1>5, <1>6, <1>7, <1>8, <1>9, <1>10, <1>11, <1>12, <1>13, <1>14, <1>15, <1>16, <1>17, <1>18, <1>19, <1>20, <1>21, <1>22, <1>23, <1>24, <1>25, <1>26
     DEF Next, HandleC64

LEMMA TypeInit == Init => TypeOK
<1> SUFFICES ASSUME Init PROVE TypeOK
  OBVIOUS
<1>1. LoopTypeOK /\ NetTypeOK
  BY DEF Init, LoopTypeOK, NetTypeOK, None
<1>2. UserTypeOK
  BY DEF Init, UserTypeOK, Menus, Sights, Screens, Pages, Messages, Keys, None
<1> QED
  BY <1>1, <1>2 DEF TypeOK

LEMMA TypeStep == TypeOK /\ [Next]_vars => TypeOK'
BY LoopTypeStep, UserTypeStep, NetTypeStep DEF TypeOK

\* Whatever raises and removes messages, the menu has a page to go back to,
\* and the queue's delay never passes 0 (c64screen.cpp, net.cpp).
THEOREM MenuTypeCorrect == Spec => []TypeOK
BY TypeInit, TypeStep, PTL DEF Spec
(***************************************************************************)
(* A message that stays has a cause.  The property is inductive: a step    *)
(* that takes the cause away removes the message, and a step that makes a  *)
(* message stay has its cause.                                             *)
(***************************************************************************)

(* Steps that keep the flag and take no cause away.                        *)
LEMMA CauseRemains ==
  ASSUME StickyHasCause, menu'.sticky = menu.sticky, running' = running,
         ready => ready', reboot => reboot'
  PROVE  StickyHasCause'
BY DEF StickyHasCause

(* Removing the message makes its cause needless.                          *)
LEMMA CleanupClears ==
  ASSUME UserTypeOK, CleanupDownloadData
  PROVE  menu'.sticky = FALSE
BY ClearKeepsType DEF UserTypeOK, CleanupDownloadData

LEMMA InitializeCause ==
  ASSUME UserTypeOK, NetTypeOK, StickyHasCause, NEW o \in Outcomes, Initialize(o)
  PROVE  StickyHasCause'
<1>1. CASE running'
  <2>1. menu' = ClearErrorMsg(menu)
    BY <1>1, InitializeMenu
  <2>2. menu'.sticky = FALSE
    BY <2>1, ClearKeepsType DEF UserTypeOK
  <2> QED
    BY <2>2 DEF StickyHasCause
<1>2. CASE ~running'
  BY <1>2 DEF StickyHasCause
<1> QED
  BY <1>1, <1>2

LEMMA StickyStep ==
  ASSUME TypeOK, StickyHasCause, [Next]_vars
  PROVE  StickyHasCause'
<1> USE DEF TypeOK
<1>0. menu \in Menus
  BY DEF UserTypeOK
<1>1. CASE Boot
  <2>1. reboot' = reboot
    BY <1>1 DEF Boot, sysVars
  <2>2. CASE ~ConnectOnBoot
    BY <1>1, <2>1, <2>2, CauseRemains DEF Boot, fileVars
  <2>3. CASE ConnectOnBoot
    <3>1. PICK o \in Outcomes : Initialize(o)
      BY <1>1, <2>3 DEF Boot
    <3> QED
      BY <3>1, InitializeCause
  <2> QED
    BY <2>2, <2>3
<1>2. CASE RebootCountdown
  BY <1>2 DEF RebootCountdown, StickyHasCause
<1>3. CASE RebootNow
  BY <1>3, CauseRemains DEF RebootNow, connVars, fileVars, sysVars
<1>4. CASE NoKey
  BY <1>4, CauseRemains DEF NoKey, StartFrame, fileVars, sysVars
<1>5. ASSUME NEW k \in Keys, LeaveError(k) PROVE StickyHasCause'
  <2>1. menu'.sticky = menu.sticky
    BY <1>0, <1>5, MovesKeepSticky DEF LeaveError
  <2> QED
    BY <1>5, <2>1, CauseRemains DEF LeaveError, StartFrame, fileVars, sysVars
<1>6. ASSUME NEW l \in Links, Navigate(l[2], l[3]) PROVE StickyHasCause'
  <2>1. menu'.sticky = menu.sticky
    BY <1>0, <1>6, MovesKeepSticky DEF Navigate
  <2> QED
    BY <1>6, <2>1, CauseRemains DEF Navigate, StartFrame, fileVars, sysVars
<1>7. CASE LocalError
  <2>1. menu'.sticky = menu.sticky
    BY <1>0, <1>7, MovesKeepSticky DEF LocalError
  <2> QED
    BY <1>7, <2>1, CauseRemains DEF LocalError, StartFrame, fileVars, sysVars
<1>8. CASE LaunchCRT
  <2>1. menu'.sticky = menu.sticky
    BY <1>0, <1>8, MovesKeepSticky DEF LaunchCRT
  <2> QED
    BY <1>8, <2>1, CauseRemains DEF LaunchCRT, StartFrame, fileVars, sysVars
<1>9. CASE Connect
  BY <1>9 DEF Connect, StartFrame, StickyHasCause
<1>10. CASE AskServer
  BY <1>10, CauseRemains DEF AskServer, StartFrame, fileVars, sysVars
<1>11. ASSUME NEW k \in Keys, OtherKey(k) PROVE StickyHasCause'
  BY <1>11, CauseRemains DEF OtherKey, StartFrame, fileVars, sysVars
<1>12. CASE Refresh
  BY <1>12, CauseRemains DEF Refresh, connVars, fileVars, sysVars
<1>13. ASSUME NEW mode \in {"save", "launch", "both"}, Upload(mode)
      PROVE  StickyHasCause'
  BY <1>13, CauseRemains DEF Upload, WebTurn, connVars
<1>14. CASE RequestReboot
  BY <1>14 DEF RequestReboot, StickyHasCause
<1>15. CASE Delayed
  BY <1>15, CauseRemains DEF Delayed, connVars, fileVars, sysVars
<1>16. CASE RunInit
  <2>1. PICK o \in Outcomes : Initialize(o)
    BY <1>16 DEF RunInit
  <2> QED
    BY <2>1, InitializeCause
<1>17. ASSUME NEW ok \in BOOLEAN, RunDownload(ok) PROVE StickyHasCause'
  <2>1. CASE ok
    BY <1>17, <2>1, CauseRemains DEF RunDownload, connVars, sysVars
  <2>2. CASE ~ok
    <3>1. menu' = SetErrorMsg2(menu, "http", FALSE)
      BY <1>17, <2>2 DEF RunDownload
    <3>2. menu'.sticky = FALSE
      BY <3>1 DEF SetErrorMsg2
    <3> QED
      BY <3>2 DEF StickyHasCause
  <2> QED
    BY <2>1, <2>2
<1>18. ASSUME NEW command \in BOOLEAN, NEW save \in BOOLEAN, RunKeypress(command, save)
      PROVE  StickyHasCause'
  BY <1>18, CauseRemains DEF RunKeypress, connVars
<1>19. CASE NothingToDo
  BY <1>19, CauseRemains DEF NothingToDo, connVars, fileVars, sysVars
<1>20. CASE LaunchCheck
  <2>1. CASE ready
    BY <1>20, <2>1, CleanupClears DEF LaunchCheck, StickyHasCause
  <2>2. CASE ~ready
    BY <1>20, <2>2, CauseRemains DEF LaunchCheck, connVars, sysVars
  <2> QED
    BY <2>1, <2>2
<1>21. CASE SaveCheck
  <2>1. CASE saveQueued # None /\ ~launchAfterSave
    <3>1. menu'.sticky = FALSE
      BY <1>21, <2>1, CleanupClears DEF SaveCheck
    <3> QED
      BY <3>1 DEF StickyHasCause
  <2>2. CASE ~(saveQueued # None /\ ~launchAfterSave)
    <3>1. menu' = menu /\ (ready => ready') /\ running' = running /\ reboot' = reboot
      BY <1>21, <2>2 DEF SaveCheck, connVars, sysVars
    <3> QED
      BY <3>1, CauseRemains
  <2> QED
    BY <2>1, <2>2
<1>22. CASE FinishCheck
  <2>1. CASE ext = "image"
    <3>1. menu'.sticky = FALSE
      BY <1>22, <2>1, CleanupClears DEF FinishCheck
    <3> QED
      BY <3>1 DEF StickyHasCause
  <2>2. CASE ext # "image" /\ saveFlag
    <3>1. menu' = SetErrorMsg2(menu, "saving", FALSE)
      BY <1>22, <2>2 DEF FinishCheck, Announce
    <3>2. menu'.sticky = FALSE
      BY <3>1 DEF SetErrorMsg2
    <3> QED
      BY <3>2 DEF StickyHasCause
  <2>3. CASE ext # "image" /\ ~saveFlag
    <3>1. ready' = TRUE
      BY <1>22, <2>3 DEF FinishCheck, Announce
    <3> QED
      BY <3>1 DEF StickyHasCause
  <2> QED
    BY <2>1, <2>2, <2>3
<1>23. CASE NothingFinished
  BY <1>23, CauseRemains DEF NothingFinished, connVars, fileVars, sysVars
<1>24. CASE EndFrame
  <2>1. AfterRender.sticky = menu.sticky
    BY <1>0, RenderKeepsType DEF AfterRender
  <2> QED
    BY <1>24, <2>1, CauseRemains DEF EndFrame, connVars
<1>25. CASE EndRefresh
  <2>1. AfterRender \in Menus /\ AfterRender.sticky = menu.sticky
    BY <1>0, RenderKeepsType DEF AfterRender
  <2>2. RenderC64(AfterRender).sticky = menu.sticky
    BY <2>1, RenderKeepsType
  <2> QED
    BY <1>25, <2>2, CauseRemains DEF EndRefresh, connVars
<1>26. CASE UNCHANGED vars
  BY <1>26, CauseRemains DEF vars, connVars, fileVars, sysVars
<1> QED
  BY <1>1, <1>2, <1>3, <1>4, <1>5, <1>6, <1>7, <1>8, <1>9, <1>10, <1>11, <1>12, <1>13, <1>14, <1>15, <1>16, <1>17, <1>18, <1>19, <1>20, <1>21, <1>22, <1>23, <1>24, <1>25, <1>26
     DEF Next, HandleC64

\* A message that stays on every page has its cause: no connection, a launch
\* that waits, or the reboot; errorSticky is cleared with it (net.cpp 1137).
THEOREM StickyHasItsCause == Spec => []StickyHasCause
<1>1. Init => StickyHasCause
  BY DEF Init, StickyHasCause
<1>2. TypeOK /\ StickyHasCause /\ [Next]_vars => StickyHasCause'
  BY StickyStep
<1> QED
  BY <1>1, <1>2, MenuTypeCorrect, PTL DEF Spec
(***************************************************************************)
(* Pages follow keys alone.  What has to be known in between: where a    *)
(* message can be, that a page under a message is never a message page     *)
(* where another message may be raised, and that the page the user will    *)
(* see is the one under the message.                                       *)
(***************************************************************************)

(* A message that goes with the next drawing has its page, and has gone    *)
(* when the frame ends.                                                    *)
MessageIsPage ==
    menu.msg # None /\ ~menu.sticky => menu.screen = "error" /\ pc \notin {"loop", "off"}

(* A message page without a message has no page to go back to (a second    *)
(* message in one frame does that): then it stays, and all agree on it.    *)
NoWayBack ==
    ~reboot /\ menu.screen = "error" /\ (menu.msg = None \/ pc = "loop") =>
        menu.prev = "error"

DownloadIsPrompt == dlReady => pc \in {"launch", "save", "finish"}

FrameRenders ==
    /\ pc \notin {"loop", "off"} => doRender \/ refreshing
    /\ pc = "loop" => ~refreshing

(* Where the network may raise a message of its own, no other has been     *)
(* raised in this frame.                                                   *)
Raises == \/ pc = "net" /\ running
          \/ pc \in {"launch", "save", "finish"} /\ dlReady

MessageAlone ==
    Raises /\ ~reboot /\ key # "bad" /\ menu.screen = "error" => menu.prev = "error"

(* Before it is drawn, the page is there already, under the message.       *)
KeyPending ==
    /\ pc \notin {"loop", "off"} /\ (pc = "render" => ~menu.sticky)
    /\ ~reboot /\ key # "bad"
    => Follows(before, key, Restored(menu))

PageIInv ==
    /\ MessageIsPage /\ NoWayBack /\ DownloadIsPrompt /\ FrameRenders
    /\ MessageAlone /\ KeyPending /\ PageFollowsKey

LEMMA RestoredAfterClear ==
  ASSUME NEW m \in Menus
  PROVE  /\ Restored(ClearErrorMsg(m)) = Restored(m)
         /\ m.msg # None /\ ClearErrorMsg(m).screen = "error" => m.prev = "error"
         /\ m.msg = None => ClearErrorMsg(m).screen = m.screen
BY DEF ClearErrorMsg, Restored, Menus

LEMMA RestoredAfterSet ==
  ASSUME NEW m, NEW text, NEW sticky
  PROVE  Restored(SetErrorMsg2(m, text, sticky)) = m.screen
BY DEF SetErrorMsg2, Restored

LEMMA RenderTwice ==
  ASSUME NEW m \in Menus
  PROVE  RenderC64(RenderC64(m)) = RenderC64(m)
<1>1. CASE m.msg = None
  BY <1>1 DEF RenderC64
<1>2. CASE m.msg # None /\ ~m.sticky
  BY <1>2, RenderKeepsType DEF RenderC64
<1>3. CASE m.msg # None /\ m.sticky
  <2>1. RenderC64(m) = [m EXCEPT !.msg = m.msg, !.screen = m.prev]
    BY <1>3 DEF RenderC64, RenderErrorMsg
  <2>2. RenderC64(m).msg = m.msg /\ RenderC64(m).sticky = m.sticky
        /\ RenderC64(m).prev = m.prev /\ RenderC64(m) \in Menus
    BY <2>1, RenderKeepsType DEF Menus
  <2>3. RenderC64(RenderC64(m)) = [RenderC64(m) EXCEPT !.msg = m.msg, !.screen = m.prev]
    BY <1>3, <2>2 DEF RenderC64, RenderErrorMsg
  <2> QED
    BY <2>1, <2>3 DEF Menus
<1> QED
  BY <1>1, <1>2, <1>3

LEMMA LinksArePages ==
  ASSUME NEW l \in Links
  PROVE  /\ l = <<l[1], l[2], l[3]>> /\ l[1] # "error" /\ l[3] # "error"
         /\ l[2] # None /\ l[2] # "bad" /\ l[2] # "crt" /\ l[2] # "c"
         /\ l[1] = "sktp" => l[2] # "other"
BY DEF Links, None

LEMMA FollowsNothing ==
  ASSUME NEW p \in Screens
  PROVE  /\ Follows(p, None, p) /\ Follows(p, "crt", p) /\ Follows(p, "c", p)
         /\ Follows("sktp", "other", "sktp")
         /\ \A k \in Keys : NoLink(p, k) \/ k = "star" => Follows(p, k, p)
BY DEF Follows, NoLink, Links, None

(* Where the user is when a frame begins is the page under the message.    *)
LEMMA BeforeIsRestored ==
  ASSUME TypeOK, NoWayBack, pc = "loop", ~reboot
  PROVE  /\ Restored(menu) = IF menu.msg = None THEN menu.screen ELSE Restored(menu)
         /\ Restored(menu) \in Screens
<1>1. menu \in Menus
  BY DEF TypeOK, UserTypeOK
<1>2. Restored(menu) \in Screens
  BY <1>1, ClearKeepsType
<1>3. menu.screen = "error" => menu.prev = "error"
  BY DEF NoWayBack
<1> QED
  BY <1>2, <1>3 DEF Restored

(* A frame begins: what its first step has to establish.                   *)
LEMMA FrameBegins ==
  ASSUME PageIInv, pc = "loop", pc' = "net", doRender' \/ refreshing',
         UNCHANGED <<dlReady, reboot, running>>,
         menu'.msg # None /\ ~menu'.sticky => menu'.screen = "error",
         ~reboot /\ menu'.screen = "error" /\ menu'.msg = None => menu'.prev = "error",
         running /\ ~reboot /\ key' # "bad" /\ menu'.screen = "error"
            => menu'.prev = "error",
         ~reboot /\ key' # "bad" => Follows(before', key', Restored(menu'))
  PROVE  PageIInv'
<1>1. MessageIsPage' /\ NoWayBack'
  BY DEF MessageIsPage, NoWayBack
<1>2. DownloadIsPrompt' /\ FrameRenders'
  BY DEF PageIInv, DownloadIsPrompt, FrameRenders
<1>3. MessageAlone'
  <2>1. ~dlReady
    BY DEF PageIInv, DownloadIsPrompt
  <2> QED
    BY <2>1 DEF MessageAlone, Raises
<1>4. KeyPending' /\ PageFollowsKey'
  BY DEF KeyPending, PageFollowsKey
<1> QED
  BY <1>1, <1>2, <1>3, <1>4 DEF PageIInv

(* Steps within a frame that leave the menu alone.                         *)
LEMMA MenuStays ==
  ASSUME PageIInv, pc \notin {"loop", "off"}, pc' \notin {"loop", "off"},
         pc = "render" => pc' = "render",
         UNCHANGED <<menu, key, before, doRender, refreshing>>,
         reboot => reboot', dlReady' => pc' \in {"launch", "save", "finish"},
         Raises' => Raises
  PROVE  PageIInv'
<1>1. MessageIsPage' /\ NoWayBack'
  BY DEF PageIInv, MessageIsPage, NoWayBack
<1>2. DownloadIsPrompt' /\ FrameRenders'
  BY DEF PageIInv, DownloadIsPrompt, FrameRenders
<1>3. MessageAlone'
  BY DEF PageIInv, MessageAlone
<1>4. KeyPending' /\ PageFollowsKey'
  BY DEF PageIInv, KeyPending, PageFollowsKey
<1> QED
  BY <1>1, <1>2, <1>3, <1>4 DEF PageIInv

(* Steps within a frame that remove the message.                           *)
LEMMA MenuCleared ==
  ASSUME TypeOK, PageIInv, pc \notin {"loop", "off"}, pc' \notin {"loop", "off"},
         pc # "render", menu' = ClearErrorMsg(menu),
         UNCHANGED <<key, before, doRender, refreshing, reboot>>,
         dlReady' => pc' \in {"launch", "save", "finish"}, Raises' => Raises
  PROVE  PageIInv'
<1>1. menu \in Menus
  BY DEF TypeOK, UserTypeOK
<1>2. /\ menu'.msg = None /\ menu'.prev = menu.prev
      /\ menu.msg # None /\ menu'.screen = "error" => menu.prev = "error"
      /\ menu.msg = None => menu'.screen = menu.screen
      /\ Restored(menu') = Restored(menu)
  BY <1>1, ClearKeepsType, RestoredAfterClear
<1>3. MessageIsPage' /\ NoWayBack'
  BY <1>2 DEF PageIInv, MessageIsPage, NoWayBack
<1>4. DownloadIsPrompt' /\ FrameRenders'
  BY DEF PageIInv, DownloadIsPrompt, FrameRenders
<1>5. MessageAlone'
  BY <1>2 DEF PageIInv, MessageAlone
<1>6. KeyPending'
  <2>1. ~reboot /\ key # "bad" => Follows(before, key, Restored(menu))
    BY DEF PageIInv, KeyPending
  <2> QED
    BY <1>2, <2>1 DEF KeyPending
<1>7. PageFollowsKey'
  BY DEF PageFollowsKey
<1> QED
  BY <1>3, <1>4, <1>5, <1>6, <1>7 DEF PageIInv

(* Steps within a frame in which the network raises a message: either it   *)
(* stays, and the frame ends, or no other was raised before.               *)
LEMMA MessageRaised ==
  ASSUME TypeOK, PageIInv, pc \notin {"loop", "off", "render"}, pc' \notin {"loop", "off"},
         menu'.screen = "error", menu'.msg # None,
         \/ menu'.sticky = TRUE /\ pc' = "render"
         \/ menu'.prev = menu.screen /\ Raises,
         UNCHANGED <<key, before, doRender, refreshing, reboot>>, ~dlReady', pc' # "net"
  PROVE  PageIInv'
<1>1. MessageIsPage' /\ NoWayBack'
  BY DEF MessageIsPage, NoWayBack
<1>2. DownloadIsPrompt' /\ FrameRenders'
  BY DEF PageIInv, DownloadIsPrompt, FrameRenders
<1>3. MessageAlone'
  BY DEF MessageAlone, Raises
<1>4. KeyPending'
  <2>1. CASE menu'.sticky = TRUE /\ pc' = "render"
    BY <2>1 DEF KeyPending
  <2>2. CASE menu'.prev = menu.screen /\ Raises
    <3>1. Restored(menu') = menu.screen
      BY <2>2 DEF Restored
    <3> SUFFICES ASSUME ~reboot, key # "bad"
                 PROVE  Follows(before, key, menu.screen)
      BY <3>1 DEF KeyPending
    <3>2. Restored(menu) = menu.screen
      BY <2>2 DEF PageIInv, MessageAlone, Restored
    <3>3. Follows(before, key, Restored(menu))
      BY DEF PageIInv, KeyPending
    <3> QED
      BY <3>2, <3>3
  <2> QED
    BY <2>1, <2>2
<1>5. PageFollowsKey'
  BY DEF PageFollowsKey
<1> QED
  BY <1>1, <1>2, <1>3, <1>4, <1>5 DEF PageIInv

(* The frame ends: the message is drawn, and the page under it comes back. *)
LEMMA FrameEnds ==
  ASSUME TypeOK, PageIInv, pc = "render", pc' = "loop", menu' = RenderC64(menu),
         UNCHANGED <<key, before, reboot, dlReady>>, ~refreshing'
  PROVE  PageIInv'
<1>1. menu \in Menus
  BY DEF TypeOK, UserTypeOK
<1>2. /\ menu'.sticky = menu.sticky /\ menu'.prev = menu.prev
      /\ menu.msg = None => menu' = menu
      /\ menu.msg # None => menu'.screen = menu.prev
      /\ ~menu.sticky => menu'.msg = None
  BY <1>1, RenderKeepsType
<1>3. MessageIsPage'
  BY <1>2 DEF MessageIsPage
<1>4. NoWayBack'
  BY <1>2 DEF PageIInv, NoWayBack
<1>5. DownloadIsPrompt' /\ FrameRenders'
  BY DEF PageIInv, DownloadIsPrompt, FrameRenders
<1>6. MessageAlone' /\ KeyPending'
  BY DEF MessageAlone, Raises, KeyPending
<1>7. PageFollowsKey'
  <2> SUFFICES ASSUME ~menu.sticky, ~reboot, key # "bad"
               PROVE  Follows(before, key, menu'.screen)
    BY <1>2 DEF PageFollowsKey
  <2>1. Follows(before, key, Restored(menu))
    BY DEF PageIInv, KeyPending
  <2>2. menu.msg # None => menu'.screen = Restored(menu)
    BY <1>2 DEF PageIInv, MessageIsPage, Restored
  <2>3. menu.msg = None => menu'.screen = Restored(menu)
    BY <1>2 DEF PageIInv, NoWayBack, Restored
  <2> QED
    BY <2>1, <2>2, <2>3
<1> QED
  BY <1>3, <1>4, <1>5, <1>6, <1>7 DEF PageIInv

(* A connection attempt: silent, successful, or with a message that stays. *)
LEMMA InitializeCases ==
  ASSUME TypeOK, NEW o \in Outcomes, Initialize(o)
  PROVE  \/ menu' = ClearErrorMsg(menu) /\ running' = TRUE
         \/ menu' = menu /\ running' = FALSE
         \/ /\ menu'.screen = "error" /\ menu'.msg # None /\ menu'.sticky = TRUE
            /\ running' = FALSE
<1>1. menu' = AfterConnecting(menu, o)
  BY DEF Initialize
<1>2. \A m : Fail(m).screen = "error" /\ Fail(m).msg # None /\ Fail(m).sticky = TRUE
  BY DEF Fail, SetErrorMsg2, None
<1>3. CASE o = "ok"
  <2>1. menu' = ClearErrorMsg(menu)
    BY <1>1, <1>3 DEF AfterConnecting
  <2>2. running' = TRUE
    BY <1>3 DEF Initialize
  <2> QED
    BY <2>1, <2>2
<1>4. CASE o # "ok"
  <2>1. running' = FALSE
    BY <1>4 DEF Initialize
  <2>2. menu' = menu \/ menu' = Fail(menu) \/ menu' = Fail(Fail(menu))
    BY <1>1, <1>4 DEF AfterConnecting, AfterFailure
  <2> QED
    BY <1>2, <2>1, <2>2
<1> QED
  BY <1>3, <1>4

LEMMA AttemptKeepsPage ==
  ASSUME TypeOK, PageIInv, NEW o \in Outcomes, Initialize(o),
         pc \in {"boot", "net"}, pc' \in {"render", "launch"}, running' \/ pc' = "render",
         UNCHANGED <<key, before, doRender, refreshing, reboot, dlReady>>
  PROVE  PageIInv'
<1>1. ~dlReady /\ ~dlReady'
  BY DEF PageIInv, DownloadIsPrompt
<1>2. ~Raises'
  BY <1>1 DEF Raises
<1>3. CASE menu' = ClearErrorMsg(menu)
  BY <1>1, <1>2, <1>3, MenuCleared
<1>4. CASE menu' = menu
  BY <1>1, <1>2, <1>4, MenuStays
<1>5. CASE /\ menu'.screen = "error" /\ menu'.msg # None /\ menu'.sticky = TRUE
           /\ running' = FALSE
  BY <1>1, <1>5, MessageRaised
<1> QED
  BY <1>3, <1>4, <1>5, InitializeCases

LEMMA PageStep ==
  ASSUME TypeOK, TypeOK', PageIInv, [Next]_vars
  PROVE  PageIInv'
<1>0. menu \in Menus /\ menu' \in Menus /\ menu.screen \in Screens
  BY DEF TypeOK, UserTypeOK, Menus
<1>1. CASE Boot
  <2>1. /\ pc = "boot" /\ pc' = "render"
        /\ UNCHANGED <<key, before, doRender, refreshing, reboot, dlReady>>
    BY <1>1 DEF Boot, userVars, fileVars, sysVars
  <2>2. CASE ConnectOnBoot
    BY <1>1, <2>1, <2>2, AttemptKeepsPage DEF Boot
  <2>3. CASE ~ConnectOnBoot
    <3>1. menu' = menu
      BY <1>1, <2>3 DEF Boot
    <3>2. ~dlReady
      BY <2>1 DEF PageIInv, DownloadIsPrompt
    <3> QED
      BY <2>1, <3>1, <3>2, MenuStays DEF Raises
  <2> QED
    BY <2>2, <2>3
<1>2. CASE RebootCountdown
  <2>1. /\ pc = "loop" /\ pc' = "loop" /\ reboot /\ reboot'
        /\ UNCHANGED <<dlReady, refreshing>>
    BY <1>2 DEF RebootCountdown, fileVars
  <2>2. menu'.sticky = TRUE
    BY <1>2 DEF RebootCountdown, SetErrorMsg2
  <2>3. MessageIsPage' /\ NoWayBack' /\ MessageAlone' /\ KeyPending' /\ PageFollowsKey'
    BY <2>1, <2>2 DEF MessageIsPage, NoWayBack, MessageAlone, KeyPending, PageFollowsKey
  <2>4. DownloadIsPrompt' /\ FrameRenders'
    BY <2>1 DEF PageIInv, DownloadIsPrompt, FrameRenders
  <2> QED
    BY <2>3, <2>4 DEF PageIInv
<1>3. CASE RebootNow
  <2>1. /\ pc = "loop" /\ pc' = "off" /\ reboot /\ reboot'
        /\ UNCHANGED <<menu, dlReady>>
    BY <1>3 DEF RebootNow, fileVars, sysVars
  <2>2. NoWayBack' /\ MessageAlone' /\ KeyPending' /\ PageFollowsKey'
    BY <2>1 DEF NoWayBack, MessageAlone, KeyPending, PageFollowsKey
  <2>3. MessageIsPage'
    BY <2>1 DEF PageIInv, MessageIsPage
  <2>4. DownloadIsPrompt' /\ FrameRenders'
    BY <2>1 DEF PageIInv, DownloadIsPrompt, FrameRenders
  <2> QED
    BY <2>2, <2>3, <2>4 DEF PageIInv
<1>4. CASE NoKey
  <2>1. /\ pc = "loop" /\ pc' = "net" /\ doRender' /\ key' = IF menu.screen = "error" THEN None ELSE None
        /\ before' = IF menu.msg = None THEN menu.screen ELSE Restored(menu)
        /\ UNCHANGED <<dlReady, reboot, running>>
    BY <1>4 DEF NoKey, StartFrame, fileVars, sysVars
  <2>2. ~(menu.msg # None /\ ~menu.sticky)
    BY <2>1 DEF PageIInv, MessageIsPage
  <2>3. ~reboot /\ menu.screen = "error" => menu.prev = "error"
    BY <2>1 DEF PageIInv, NoWayBack
  <2>4. menu' = menu /\ key' = None
    BY <1>4, <2>1 DEF NoKey
  <2>5. ~reboot => Follows(before', key', Restored(menu'))
    BY <2>1, <2>4, BeforeIsRestored, FollowsNothing DEF PageIInv
  <2> QED
    BY <2>1, <2>2, <2>3, <2>4, <2>5, FrameBegins
<1>5. ASSUME NEW k \in Keys, LeaveError(k) PROVE PageIInv'
  <2>1. /\ pc = "loop" /\ pc' = "net" /\ doRender' /\ key' = IF menu.screen = "error" THEN None ELSE k
        /\ before' = IF menu.msg = None THEN menu.screen ELSE Restored(menu)
        /\ UNCHANGED <<dlReady, reboot, running>>
    BY <1>5 DEF LeaveError, StartFrame, fileVars, sysVars
  <2>2. ~(menu.msg # None /\ ~menu.sticky)
    BY <2>1 DEF PageIInv, MessageIsPage
  <2>3. ~reboot /\ menu.screen = "error" => menu.prev = "error"
    BY <2>1 DEF PageIInv, NoWayBack
  <2>4. /\ menu.screen = "error" /\ key' = None
        /\ menu' = [menu EXCEPT !.screen = menu.prev]
    BY <1>5, <2>1 DEF LeaveError
  <2>5. /\ menu'.screen = menu.prev /\ menu'.prev = menu.prev
        /\ menu'.msg = menu.msg /\ menu'.sticky = menu.sticky
    BY <1>0, <2>4 DEF Menus
  <2>6. ~reboot => Restored(menu') = Restored(menu)
    BY <2>3, <2>4, <2>5 DEF Restored
  <2>7. ~reboot => Follows(before', key', Restored(menu'))
    BY <2>1, <2>4, <2>6, BeforeIsRestored, FollowsNothing DEF PageIInv
  <2>8. ~(menu'.msg # None /\ ~menu'.sticky)
    BY <2>2, <2>5
  <2> QED
    BY <2>1, <2>3, <2>4, <2>5, <2>7, <2>8, FrameBegins
<1>6. ASSUME NEW l \in Links, Navigate(l[2], l[3]) PROVE PageIInv'
  <2>1. /\ pc = "loop" /\ pc' = "net" /\ doRender' /\ key' = IF menu.screen = "error" THEN None ELSE l[2]
        /\ before' = IF menu.msg = None THEN menu.screen ELSE Restored(menu)
        /\ UNCHANGED <<dlReady, reboot, running>>
    BY <1>6 DEF Navigate, StartFrame, fileVars, sysVars
  <2>2. ~(menu.msg # None /\ ~menu.sticky)
    BY <2>1 DEF PageIInv, MessageIsPage
  <2>3. ~reboot /\ menu.screen = "error" => menu.prev = "error"
    BY <2>1 DEF PageIInv, NoWayBack
  <2>4. /\ <<menu.screen, l[2], l[3]>> \in Links
        /\ menu' = [menu EXCEPT !.screen = l[3],
                     !.prev = IF menu.screen = "sktp" THEN "sktp" ELSE @]
    BY <1>6 DEF Navigate
  <2>5. /\ menu'.screen = l[3] /\ menu'.msg = menu.msg /\ menu'.sticky = menu.sticky
    BY <1>0, <2>4 DEF Menus
  <2>6. menu.screen # "error" /\ l[3] # "error"
    BY <2>4, LinksArePages
  <2>7. Follows(before', key', Restored(menu'))
    BY <2>1, <2>4, <2>5, <2>6 DEF Follows, Restored
  <2>8. ~(menu'.msg # None /\ ~menu'.sticky)
    BY <2>2, <2>5
  <2> QED
    BY <2>1, <2>5, <2>6, <2>7, <2>8, FrameBegins
<1>7. CASE LocalError
  <2>1. /\ pc = "loop" /\ pc' = "net" /\ doRender' /\ key' = IF menu.screen = "error" THEN None ELSE "bad"
        /\ before' = IF menu.msg = None THEN menu.screen ELSE Restored(menu)
        /\ UNCHANGED <<dlReady, reboot, running>>
    BY <1>7 DEF LocalError, StartFrame, fileVars, sysVars
  <2>2. ~(menu.msg # None /\ ~menu.sticky)
    BY <2>1 DEF PageIInv, MessageIsPage
  <2>3. ~reboot /\ menu.screen = "error" => menu.prev = "error"
    BY <2>1 DEF PageIInv, NoWayBack
  <2>4. /\ menu.screen # "error"
        /\ menu' = [menu EXCEPT !.screen = "error", !.prev = menu.screen, !.msg = "local"]
    BY <1>7 DEF LocalError
  <2>5. /\ menu'.screen = "error" /\ menu'.msg # None /\ key' = "bad"
    BY <1>0, <2>1, <2>4 DEF Menus, None
  <2> QED
    BY <2>1, <2>5, FrameBegins
<1>8. CASE LaunchCRT
  <2>1. /\ pc = "loop" /\ pc' = "net" /\ doRender' /\ key' = IF menu.screen = "error" THEN None ELSE "crt"
        /\ before' = IF menu.msg = None THEN menu.screen ELSE Restored(menu)
        /\ UNCHANGED <<dlReady, reboot, running>>
    BY <1>8 DEF LaunchCRT, StartFrame, fileVars, sysVars
  <2>2. ~(menu.msg # None /\ ~menu.sticky)
    BY <2>1 DEF PageIInv, MessageIsPage
  <2>3. ~reboot /\ menu.screen = "error" => menu.prev = "error"
    BY <2>1 DEF PageIInv, NoWayBack
  <2>4. /\ menu.screen # "error" /\ menu' = [menu EXCEPT !.msg = None]
    BY <1>8 DEF LaunchCRT
  <2>5. /\ menu'.screen = menu.screen /\ menu'.msg = None /\ key' = "crt"
    BY <1>0, <2>1, <2>4 DEF Menus
  <2>6. Restored(menu') = menu.screen /\ before' = menu.screen
    BY <2>1, <2>4, <2>5 DEF Restored
  <2>7. Follows(before', key', Restored(menu'))
    BY <1>0, <2>5, <2>6, FollowsNothing
  <2> QED
    BY <2>1, <2>4, <2>5, <2>7, FrameBegins
<1>9. CASE Connect
  <2>1. /\ pc = "loop" /\ pc' = "net" /\ doRender' /\ key' = IF menu.screen = "error" THEN None ELSE "c"
        /\ before' = IF menu.msg = None THEN menu.screen ELSE Restored(menu)
        /\ UNCHANGED <<dlReady, reboot, running>>
    BY <1>9 DEF Connect, StartFrame, fileVars, sysVars
  <2>2. ~(menu.msg # None /\ ~menu.sticky)
    BY <2>1 DEF PageIInv, MessageIsPage
  <2>3. ~reboot /\ menu.screen = "error" => menu.prev = "error"
    BY <2>1 DEF PageIInv, NoWayBack
  <2>4. /\ menu.screen = "network" /\ ~running
        /\ menu' = SetErrorMsg2(ClearErrorMsg(menu), "connecting", FALSE)
    BY <1>9 DEF Connect
  <2>5. ClearErrorMsg(menu).screen = menu.screen
    BY <1>0, <2>4, ClearKeepsType DEF Restored
  <2>6. menu'.screen = "error" /\ menu'.msg # None /\ key' = "c"
    BY <2>1, <2>4 DEF SetErrorMsg2, None
  <2>7. Restored(menu') = menu.screen /\ before' = menu.screen
    BY <2>1, <2>4, <2>5, RestoredAfterSet DEF Restored
  <2>8. Follows(before', key', Restored(menu'))
    BY <1>0, <2>6, <2>7, FollowsNothing
  <2> QED
    BY <2>1, <2>4, <2>6, <2>8, FrameBegins
<1>10. CASE AskServer
  <2>1. /\ pc = "loop" /\ pc' = "net" /\ doRender' /\ key' = IF menu.screen = "error" THEN None ELSE "other"
        /\ before' = IF menu.msg = None THEN menu.screen ELSE Restored(menu)
        /\ UNCHANGED <<dlReady, reboot, running>>
    BY <1>10 DEF AskServer, StartFrame, fileVars, sysVars
  <2>2. ~(menu.msg # None /\ ~menu.sticky)
    BY <2>1 DEF PageIInv, MessageIsPage
  <2>3. ~reboot /\ menu.screen = "error" => menu.prev = "error"
    BY <2>1 DEF PageIInv, NoWayBack
  <2>4. menu.screen = "sktp" /\ menu' = menu
    BY <1>10 DEF AskServer
  <2>5. Restored(menu') = "sktp" /\ before' = "sktp" /\ key' = "other"
    BY <2>1, <2>4 DEF Restored
  <2>6. Follows(before', key', Restored(menu'))
    BY <1>0, <2>5, FollowsNothing
  <2> QED
    BY <2>1, <2>2, <2>4, <2>6, FrameBegins
<1>11. ASSUME NEW k \in Keys, OtherKey(k) PROVE PageIInv'
  <2>1. /\ pc = "loop" /\ pc' = "net" /\ doRender' /\ key' = IF menu.screen = "error" THEN None ELSE k
        /\ before' = IF menu.msg = None THEN menu.screen ELSE Restored(menu)
        /\ UNCHANGED <<dlReady, reboot, running>>
    BY <1>11 DEF OtherKey, StartFrame, fileVars, sysVars
  <2>2. ~(menu.msg # None /\ ~menu.sticky)
    BY <2>1 DEF PageIInv, MessageIsPage
  <2>3. ~reboot /\ menu.screen = "error" => menu.prev = "error"
    BY <2>1 DEF PageIInv, NoWayBack
  <2>4. /\ menu.screen # "error" /\ menu' = menu /\ key' = k
        /\ NoLink(menu.screen, k) \/ k = "star"
    BY <1>11, <2>1 DEF OtherKey
  <2>5. Restored(menu') = menu.screen /\ before' = menu.screen
    BY <2>1, <2>4 DEF Restored
  <2>6. Follows(before', key', Restored(menu'))
    BY <1>0, <2>4, <2>5, FollowsNothing
  <2> QED
    BY <2>1, <2>2, <2>4, <2>6, FrameBegins
<1>12. CASE Refresh
  <2>1. /\ pc = "loop" /\ pc' = "net" /\ refreshing' /\ key' = None /\ menu' = menu
        /\ before' = IF menu.msg = None THEN menu.screen ELSE Restored(menu)
        /\ UNCHANGED <<dlReady, reboot, running>>
    BY <1>12 DEF Refresh, connVars, fileVars, sysVars
  <2>2. ~(menu.msg # None /\ ~menu.sticky)
    BY <2>1 DEF PageIInv, MessageIsPage
  <2>3. ~reboot /\ menu.screen = "error" => menu.prev = "error"
    BY <2>1 DEF PageIInv, NoWayBack
  <2>4. ~reboot => Follows(before', key', Restored(menu'))
    BY <2>1, BeforeIsRestored, FollowsNothing DEF PageIInv
  <2> QED
    BY <2>1, <2>2, <2>3, <2>4, FrameBegins
<1>13. ASSUME NEW mode \in {"save", "launch", "both"}, Upload(mode) PROVE PageIInv'
  <2>1. /\ pc = "net" /\ pc' = "net"
        /\ UNCHANGED <<menu, key, before, doRender, refreshing, reboot, dlReady, running>>
    BY <1>13 DEF Upload, WebTurn, loopVars, userVars, connVars
  <2>2. ~dlReady
    BY <2>1 DEF PageIInv, DownloadIsPrompt
  <2> QED
    BY <2>1, <2>2, MenuStays DEF Raises
<1>14. CASE RequestReboot
  <2>1. /\ pc = "net" /\ pc' = "net" /\ reboot'
        /\ UNCHANGED <<menu, key, before, doRender, refreshing, dlReady, running>>
    BY <1>14 DEF RequestReboot, WebTurn, loopVars, userVars, connVars, fileVars
  <2>2. ~dlReady
    BY <2>1 DEF PageIInv, DownloadIsPrompt
  <2> QED
    BY <2>1, <2>2, MenuStays DEF Raises
<1>15. CASE Delayed
  <2>1. /\ pc = "net" /\ pc' \in {"launch", "render"}
        /\ UNCHANGED <<menu, key, before, doRender, refreshing, reboot, dlReady>>
    BY <1>15 DEF Delayed, AfterQueue, NextCheck, loopVars, userVars, fileVars, sysVars
  <2>2. ~dlReady
    BY <2>1 DEF PageIInv, DownloadIsPrompt
  <2> QED
    BY <2>1, <2>2, MenuStays DEF Raises
<1>16. CASE RunInit
  <2>1. /\ pc = "net" /\ pc' = AfterQueue(running')
        /\ UNCHANGED <<key, before, doRender, refreshing, reboot, dlReady>>
    BY <1>16 DEF RunInit, userVars, fileVars, sysVars
  <2>2. pc' \in {"render", "launch"} /\ (running' \/ pc' = "render")
    BY <2>1 DEF AfterQueue, NextCheck
  <2>3. PICK o \in Outcomes : Initialize(o)
    BY <1>16 DEF RunInit
  <2> QED
    BY <2>1, <2>2, <2>3, AttemptKeepsPage
<1>17. ASSUME NEW ok \in BOOLEAN, RunDownload(ok) PROVE PageIInv'
  <2>1. /\ pc = "net" /\ pc' = "launch" /\ running
        /\ UNCHANGED <<key, before, doRender, refreshing, reboot>>
    BY <1>17 DEF RunDownload, NextCheck, userVars, sysVars
  <2>2. ~dlReady /\ Raises
    BY <2>1 DEF PageIInv, DownloadIsPrompt, Raises
  <2>3. CASE ok
    <3>1. menu' = menu
      BY <1>17, <2>3 DEF RunDownload
    <3> QED
      BY <2>1, <2>2, <3>1, MenuStays
  <2>4. CASE ~ok
    <3>1. menu' = SetErrorMsg2(menu, "http", FALSE)
      BY <1>17, <2>4 DEF RunDownload
    <3>2. ~dlReady'
      BY <1>17, <2>2, <2>4 DEF RunDownload
    <3>3. menu'.screen = "error" /\ menu'.msg # None /\ menu'.prev = menu.screen
      BY <3>1 DEF SetErrorMsg2, None
    <3> QED
      BY <2>1, <2>2, <3>2, <3>3, MessageRaised
  <2> QED
    BY <2>3, <2>4
<1>18. ASSUME NEW command \in BOOLEAN, NEW save \in BOOLEAN, RunKeypress(command, save)
       PROVE  PageIInv'
  <2>1. /\ pc = "net" /\ pc' \in {"launch", "render"}
        /\ UNCHANGED <<menu, key, before, doRender, refreshing, reboot, dlReady>>
    BY <1>18 DEF RunKeypress, AfterQueue, NextCheck, loopVars, userVars, fileVars, sysVars
  <2>2. ~dlReady
    BY <2>1 DEF PageIInv, DownloadIsPrompt
  <2> QED
    BY <2>1, <2>2, MenuStays DEF Raises
<1>19. CASE NothingToDo
  <2>1. /\ pc = "net" /\ pc' \in {"launch", "render"}
        /\ UNCHANGED <<menu, key, before, doRender, refreshing, reboot, dlReady>>
    BY <1>19 DEF NothingToDo, AfterQueue, NextCheck, loopVars, userVars, fileVars, sysVars
  <2>2. ~dlReady
    BY <2>1 DEF PageIInv, DownloadIsPrompt
  <2> QED
    BY <2>1, <2>2, MenuStays DEF Raises
<1>20. CASE LaunchCheck
  <2>1. /\ pc = "launch" /\ pc' = "save"
        /\ UNCHANGED <<key, before, doRender, refreshing, reboot, dlReady>>
    BY <1>20 DEF LaunchCheck, NextCheck, loopVars, userVars, sysVars
  <2>2. Raises' => Raises
    BY <2>1 DEF Raises
  <2>3. menu' = menu \/ menu' = ClearErrorMsg(menu)
    BY <1>20 DEF LaunchCheck, CleanupDownloadData
  <2>4. CASE menu' = menu
    BY <2>1, <2>2, <2>4, MenuStays
  <2>5. CASE menu' = ClearErrorMsg(menu)
    BY <2>1, <2>2, <2>5, MenuCleared
  <2> QED
    BY <2>3, <2>4, <2>5
<1>21. CASE SaveCheck
  <2>1. /\ pc = "save" /\ pc' = "finish"
        /\ UNCHANGED <<key, before, doRender, refreshing, reboot, dlReady>>
    BY <1>21 DEF SaveCheck, NextCheck, loopVars, userVars, sysVars
  <2>2. Raises' => Raises
    BY <2>1 DEF Raises
  <2>3. menu' = menu \/ menu' = ClearErrorMsg(menu)
    BY <1>21 DEF SaveCheck, CleanupDownloadData
  <2>4. CASE menu' = menu
    BY <2>1, <2>2, <2>4, MenuStays
  <2>5. CASE menu' = ClearErrorMsg(menu)
    BY <2>1, <2>2, <2>5, MenuCleared
  <2> QED
    BY <2>3, <2>4, <2>5
<1>22. CASE FinishCheck
  <2>1. /\ pc = "finish" /\ pc' = "render" /\ dlReady /\ dlReady' = FALSE
        /\ UNCHANGED <<key, before, doRender, refreshing, reboot>>
    BY <1>22 DEF FinishCheck, NextCheck, userVars, sysVars
  <2>2. Raises /\ ~Raises'
    BY <2>1 DEF Raises
  <2>3. CASE ext = "image"
    <3>1. menu' = ClearErrorMsg(menu)
      BY <1>22, <2>3 DEF FinishCheck, CleanupDownloadData
    <3> QED
      BY <2>1, <2>2, <3>1, MenuCleared
  <2>4. CASE ext # "image"
    <3>1. \/ menu' = SetErrorMsg2(menu, "saving", FALSE)
          \/ menu' = SetErrorMsg2(menu, "launching", TRUE)
      BY <1>22, <2>4 DEF FinishCheck, Announce
    <3>2. menu'.screen = "error" /\ menu'.msg # None /\ menu'.prev = menu.screen
      BY <3>1 DEF SetErrorMsg2, None
    <3> QED
      BY <2>1, <2>2, <3>2, MessageRaised
  <2> QED
    BY <2>3, <2>4
<1>23. CASE NothingFinished
  <2>1. /\ pc = "finish" /\ pc' = "render" /\ ~dlReady
        /\ UNCHANGED <<menu, key, before, doRender, refreshing, reboot, dlReady>>
    BY <1>23 DEF NothingFinished, NextCheck, loopVars, userVars, fileVars, sysVars
  <2> QED
    BY <2>1, MenuStays DEF Raises
<1>24. CASE EndFrame
  <2>1. /\ pc = "render" /\ pc' = "loop" /\ ~refreshing /\ ~refreshing'
        /\ menu' = AfterRender
        /\ UNCHANGED <<key, before, reboot, dlReady>>
    BY <1>24 DEF EndFrame
  <2>2. doRender
    BY <2>1 DEF PageIInv, FrameRenders
  <2>3. menu' = RenderC64(menu)
    BY <2>1, <2>2 DEF AfterRender, Renders
  <2> QED
    BY <2>1, <2>3, FrameEnds
<1>25. CASE EndRefresh
  <2>1. /\ pc = "render" /\ pc' = "loop" /\ ~refreshing'
        /\ menu' = RenderC64(AfterRender)
        /\ UNCHANGED <<key, before, reboot, dlReady>>
    BY <1>25 DEF EndRefresh
  <2>2. menu' = RenderC64(menu)
    BY <1>0, <2>1, RenderTwice DEF AfterRender
  <2> QED
    BY <2>1, <2>2, FrameEnds
<1>26. CASE UNCHANGED vars
  <2>1. UNCHANGED <<pc, menu, key, before, doRender, refreshing, reboot, dlReady, running>>
    BY <1>26 DEF vars, loopVars, userVars, connVars, fileVars, sysVars
  <2> QED
    BY <2>1 DEF PageIInv, MessageIsPage, NoWayBack, DownloadIsPrompt, FrameRenders, MessageAlone, KeyPending, PageFollowsKey, Raises
<1> QED
  BY <1>1, <1>2, <1>3, <1>4, <1>5, <1>6, <1>7, <1>8, <1>9, <1>10, <1>11, <1>12, <1>13, <1>14, <1>15, <1>16, <1>17, <1>18, <1>19, <1>20, <1>21, <1>22, <1>23, <1>24, <1>25, <1>26
     DEF Next, HandleC64

LEMMA PageInvariant == Spec => []PageIInv
<1>1. Init => PageIInv
  <2> SUFFICES ASSUME Init PROVE PageIInv
    OBVIOUS
  <2>1. Follows(before, key, Restored(menu))
    <3>1. before = "main" /\ key = None /\ Restored(menu) = "main"
      BY DEF Init, Restored
    <3>2. "main" \in Screens
      BY DEF Screens, Pages
    <3> QED
      BY <3>1, <3>2, FollowsNothing
  <2>2. MessageIsPage /\ NoWayBack
    BY DEF Init, MessageIsPage, NoWayBack
  <2>3. DownloadIsPrompt /\ FrameRenders /\ MessageAlone
    BY DEF Init, DownloadIsPrompt, FrameRenders, MessageAlone, Raises
  <2>4. KeyPending /\ PageFollowsKey
    BY <2>1 DEF Init, KeyPending, PageFollowsKey
  <2> QED
    BY <2>2, <2>3, <2>4 DEF PageIInv
<1>2. TypeOK /\ TypeOK' /\ PageIInv /\ [Next]_vars => PageIInv'
  BY PageStep
<1> QED
  BY <1>1, <1>2, MenuTypeCorrect, PTL DEF Spec

\* After a frame the user is where his key leads to, or where he was,
\* whatever the network has raised and removed meanwhile (c64screen.cpp
\* handleC64, setErrorMsg2, renderErrorMsg), with the property's exceptions.
THEOREM PagesFollowKeys == Spec => []PageFollowsKey
<1>1. PageIInv => PageFollowsKey
  BY DEF PageIInv
<1> QED
  BY <1>1, PageInvariant, PTL


(***************************************************************************)
(* Long work is announced.  A queued connection attempt waits one frame,   *)
(* and so does a queued save; in it their message is drawn.                *)
(***************************************************************************)
ConnectingTold ==
    initQueued /\ pc # "off" =>
        /\ ~running
        /\ \/ /\ (pc = "net" /\ delay = 1) \/ (pc = "render" /\ delay = 0)
              /\ menu.msg = "connecting" /\ menu.screen = "error" /\ ~refreshing
           \/ pc \in {"loop", "net"} /\ delay = 0 /\ shown.msg = "connecting"

SavingTold ==
    saveQueued = "download" /\ ~reboot /\ pc # "off" =>
        /\ running
        /\ \/ pc = "render" /\ menu.msg = "saving" /\ ~refreshing
           \/ pc \in {"loop", "net", "launch", "save"} /\ shown.msg = "saving"

(* A refresh that could hide a message by drawing twice begins with a      *)
(* connection only in a reboot's countdown; one in which the connection    *)
(* comes up has no download yet.                                           *)
RefreshIsReboot == pc = "loop" /\ running /\ updateNeeded => reboot
RefreshIsQuiet == refreshing /\ running /\ ~reboot => pc # "net" /\ ~dlReady

DownloadNeedsLink == dlReady => running

WorkIInv ==
    /\ ConnectingTold /\ SavingTold /\ RefreshIsQuiet /\ RefreshIsReboot
    /\ DownloadNeedsLink

LEMMA WorkFrameBegins ==
  ASSUME PageIInv, WorkIInv, pc = "loop", pc' = "net",
         UNCHANGED <<running, dlReady, saveQueued, reboot, shown, refreshing>>,
         initQueued' =>
            \/ initQueued /\ delay' = delay
            \/ ~running /\ delay' = 1 /\ menu'.msg = "connecting" /\ menu'.screen = "error"
  PROVE  WorkIInv'
<1>1. ~dlReady /\ ~refreshing
  BY DEF PageIInv, DownloadIsPrompt, FrameRenders
<1>2. ConnectingTold'
  BY <1>1 DEF WorkIInv, ConnectingTold
<1>3. SavingTold'
  BY DEF WorkIInv, SavingTold
<1> QED
  BY <1>1, <1>2, <1>3 DEF WorkIInv, RefreshIsQuiet, RefreshIsReboot, DownloadNeedsLink

LEMMA WorkStep ==
  ASSUME TypeOK, PageIInv, WorkIInv, [Next]_vars
  PROVE  WorkIInv'
<1>1. CASE Boot
  <2>1. /\ pc = "boot" /\ pc' = "render"
        /\ UNCHANGED <<initQueued, saveQueued, reboot, dlReady>>
    BY <1>1 DEF Boot, fileVars, sysVars
  <2>2. ~initQueued /\ (saveQueued = "download" => reboot) /\ ~dlReady
    BY <2>1 DEF WorkIInv, ConnectingTold, SavingTold, PageIInv, DownloadIsPrompt
  <2> QED
    BY <2>1, <2>2 DEF WorkIInv, ConnectingTold, SavingTold, RefreshIsQuiet, RefreshIsReboot, DownloadNeedsLink
<1>2. CASE RebootCountdown
  <2>1. /\ pc = "loop" /\ pc' = "loop" /\ reboot /\ reboot'
        /\ UNCHANGED <<initQueued, running, delay, shown, dlReady>>
    BY <1>2 DEF RebootCountdown, connVars, pageVars, userVars, fileVars
  <2>2. ConnectingTold'
    BY <2>1 DEF WorkIInv, ConnectingTold
  <2> QED
    BY <2>1, <2>2 DEF WorkIInv, ConnectingTold, SavingTold, RefreshIsQuiet, RefreshIsReboot, DownloadNeedsLink
<1>3. CASE RebootNow
  <2>1. pc' = "off" /\ reboot' /\ UNCHANGED <<running, dlReady>>
    BY <1>3 DEF RebootNow, connVars, fileVars, sysVars
  <2> QED
    BY <2>1 DEF WorkIInv, ConnectingTold, SavingTold, RefreshIsQuiet, RefreshIsReboot, DownloadNeedsLink
<1>4. CASE NoKey
  <2>1. /\ pc = "loop" /\ pc' = "net"
        /\ UNCHANGED <<running, dlReady, saveQueued, reboot, shown, refreshing>>
    BY <1>4 DEF NoKey, StartFrame, fileVars, sysVars
  <2>2. UNCHANGED <<initQueued, delay>>
    BY <1>4 DEF NoKey
  <2> QED
    BY <2>1, <2>2, WorkFrameBegins
<1>5. ASSUME NEW k \in Keys, LeaveError(k) PROVE WorkIInv'
  <2>1. /\ pc = "loop" /\ pc' = "net"
        /\ UNCHANGED <<running, dlReady, saveQueued, reboot, shown, refreshing>>
    BY <1>5 DEF LeaveError, StartFrame, fileVars, sysVars
  <2>2. UNCHANGED <<initQueued, delay>>
    BY <1>5 DEF LeaveError
  <2> QED
    BY <2>1, <2>2, WorkFrameBegins
<1>6. ASSUME NEW l \in Links, Navigate(l[2], l[3]) PROVE WorkIInv'
  <2>1. /\ pc = "loop" /\ pc' = "net"
        /\ UNCHANGED <<running, dlReady, saveQueued, reboot, shown, refreshing>>
    BY <1>6 DEF Navigate, StartFrame, fileVars, sysVars
  <2>2. UNCHANGED <<initQueued, delay>>
    BY <1>6 DEF Navigate
  <2> QED
    BY <2>1, <2>2, WorkFrameBegins
<1>7. CASE LocalError
  <2>1. /\ pc = "loop" /\ pc' = "net"
        /\ UNCHANGED <<running, dlReady, saveQueued, reboot, shown, refreshing>>
    BY <1>7 DEF LocalError, StartFrame, fileVars, sysVars
  <2>2. UNCHANGED <<initQueued, delay>>
    BY <1>7 DEF LocalError
  <2> QED
    BY <2>1, <2>2, WorkFrameBegins
<1>8. CASE LaunchCRT
  <2>1. /\ pc = "loop" /\ pc' = "net"
        /\ UNCHANGED <<running, dlReady, saveQueued, reboot, shown, refreshing>>
    BY <1>8 DEF LaunchCRT, StartFrame, fileVars, sysVars
  <2>2. UNCHANGED <<initQueued, delay>>
    BY <1>8 DEF LaunchCRT
  <2> QED
    BY <2>1, <2>2, WorkFrameBegins
<1>9. CASE Connect
  <2>1. /\ pc = "loop" /\ pc' = "net"
        /\ UNCHANGED <<running, dlReady, saveQueued, reboot, shown, refreshing>>
    BY <1>9 DEF Connect, StartFrame, fileVars, sysVars
  <2>2. ~running /\ delay' = 1 /\ menu'.msg = "connecting" /\ menu'.screen = "error"
    BY <1>9 DEF Connect, SetErrorMsg2
  <2> QED
    BY <2>1, <2>2, WorkFrameBegins
<1>10. CASE AskServer
  <2>1. /\ pc = "loop" /\ pc' = "net"
        /\ UNCHANGED <<running, dlReady, saveQueued, reboot, shown, refreshing>>
    BY <1>10 DEF AskServer, StartFrame, fileVars, sysVars
  <2>2. initQueued' => initQueued /\ delay' = delay
    BY <1>10 DEF AskServer, AnyQueued
  <2> QED
    BY <2>1, <2>2, WorkFrameBegins
<1>11. ASSUME NEW k \in Keys, OtherKey(k) PROVE WorkIInv'
  <2>1. /\ pc = "loop" /\ pc' = "net"
        /\ UNCHANGED <<running, dlReady, saveQueued, reboot, shown, refreshing>>
    BY <1>11 DEF OtherKey, StartFrame, fileVars, sysVars
  <2>2. UNCHANGED <<initQueued, delay>>
    BY <1>11 DEF OtherKey
  <2> QED
    BY <2>1, <2>2, WorkFrameBegins
<1>12. CASE Refresh
  <2>1. /\ pc = "loop" /\ pc' = "net" /\ updateNeeded
        /\ UNCHANGED <<running, dlReady, saveQueued, reboot, shown, initQueued, delay>>
    BY <1>12 DEF Refresh, connVars, pageVars, fileVars, sysVars
  <2>2. ConnectingTold'
    BY <2>1 DEF WorkIInv, ConnectingTold
  <2>3. SavingTold'
    BY <2>1 DEF WorkIInv, SavingTold
  <2> QED
    BY <2>1, <2>2, <2>3 DEF WorkIInv, RefreshIsQuiet, RefreshIsReboot, DownloadNeedsLink
<1>13. ASSUME NEW mode \in {"save", "launch", "both"}, Upload(mode) PROVE WorkIInv'
  <2>1. /\ pc = "net" /\ pc' = "net" /\ running /\ saveQueued' # "download"
        /\ UNCHANGED <<running, initQueued, refreshing, reboot, dlReady>>
    BY <1>13 DEF Upload, WebTurn, connVars, loopVars, None
  <2>2. ~initQueued
    BY <2>1 DEF WorkIInv, ConnectingTold
  <2> QED
    BY <2>1, <2>2 DEF WorkIInv, ConnectingTold, SavingTold, RefreshIsQuiet, RefreshIsReboot, DownloadNeedsLink
<1>14. CASE RequestReboot
  <2>1. /\ pc = "net" /\ pc' = "net" /\ running /\ reboot'
        /\ UNCHANGED <<running, initQueued, dlReady>>
    BY <1>14 DEF RequestReboot, WebTurn, connVars, fileVars
  <2>2. ~initQueued
    BY <2>1 DEF WorkIInv, ConnectingTold
  <2> QED
    BY <2>1, <2>2 DEF WorkIInv, ConnectingTold, SavingTold, RefreshIsQuiet, RefreshIsReboot, DownloadNeedsLink
<1>15. CASE Delayed
  <2>1. /\ pc = "net" /\ pc' = AfterQueue(running) /\ delay > 0 /\ delay' = delay - 1
        /\ UNCHANGED <<menu, running, initQueued, refreshing, reboot, dlReady, saveQueued,
                       shown>>
    BY <1>15 DEF Delayed, CountDown, loopVars, userVars, connVars, fileVars, sysVars
  <2>2. pc' = IF running THEN "launch" ELSE "render"
    BY <2>1 DEF AfterQueue, NextCheck
  <2>3. ConnectingTold'
    <3> SUFFICES ASSUME initQueued
                 PROVE  /\ ~running /\ delay' = 0 /\ menu.msg = "connecting"
                        /\ menu.screen = "error" /\ ~refreshing
      BY <2>1, <2>2 DEF ConnectingTold
    <3>1. delay # 0
      BY <2>1 DEF TypeOK, NetTypeOK
    <3>2. /\ ~running /\ delay = 1 /\ menu.msg = "connecting"
          /\ menu.screen = "error" /\ ~refreshing
      BY <2>1, <3>1 DEF WorkIInv, ConnectingTold
    <3>3. delay' = 0
      BY <2>1, <3>2
    <3> QED
      BY <3>2, <3>3
  <2>4. SavingTold'
    BY <2>1, <2>2 DEF WorkIInv, SavingTold
  <2> QED
    BY <2>1, <2>2, <2>3, <2>4 DEF WorkIInv, RefreshIsQuiet, RefreshIsReboot, DownloadNeedsLink
<1>16. CASE RunInit
  <2>1. /\ pc = "net" /\ ~running /\ initQueued' = FALSE /\ pc' = AfterQueue(running')
        /\ UNCHANGED <<reboot, dlReady, saveQueued>>
    BY <1>16 DEF RunInit, fileVars, sysVars
  <2>2. ~dlReady /\ (saveQueued = "download" => reboot)
    BY <2>1 DEF WorkIInv, SavingTold, PageIInv, DownloadIsPrompt
  <2>3. pc' \in {"launch", "render"}
    BY <2>1 DEF AfterQueue, NextCheck
  <2> QED
    BY <2>1, <2>2, <2>3 DEF WorkIInv, ConnectingTold, SavingTold, RefreshIsQuiet, RefreshIsReboot, DownloadNeedsLink
<1>17. ASSUME NEW ok \in BOOLEAN, RunDownload(ok) PROVE WorkIInv'
  <2>1. /\ pc = "net" /\ pc' = "launch" /\ running
        /\ UNCHANGED <<running, initQueued, refreshing, reboot, saveQueued, shown>>
    BY <1>17 DEF RunDownload, NextCheck, connVars, userVars, sysVars
  <2>2. ~initQueued /\ ~(refreshing /\ ~reboot)
    BY <2>1 DEF WorkIInv, ConnectingTold, RefreshIsQuiet
  <2> QED
    BY <2>1, <2>2 DEF WorkIInv, ConnectingTold, SavingTold, RefreshIsQuiet, RefreshIsReboot, DownloadNeedsLink
<1>18. ASSUME NEW command \in BOOLEAN, NEW save \in BOOLEAN, RunKeypress(command, save)
       PROVE  WorkIInv'
  <2>1. /\ pc = "net" /\ pc' = "launch" /\ running
        /\ UNCHANGED <<running, initQueued, refreshing, reboot, saveQueued, shown, dlReady>>
    BY <1>18 DEF RunKeypress, NextCheck, connVars, userVars, loopVars
  <2>2. ~initQueued /\ ~(refreshing /\ ~reboot)
    BY <2>1 DEF WorkIInv, ConnectingTold, RefreshIsQuiet
  <2> QED
    BY <2>1, <2>2 DEF WorkIInv, ConnectingTold, SavingTold, RefreshIsQuiet, RefreshIsReboot, DownloadNeedsLink
<1>19. CASE NothingToDo
  <2>1. /\ pc = "net" /\ pc' = AfterQueue(running) /\ (~running => ~initQueued)
        /\ UNCHANGED <<running, initQueued, refreshing, reboot, saveQueued, shown, dlReady>>
    BY <1>19 DEF NothingToDo, connVars, userVars, loopVars, fileVars, sysVars
  <2>2. ~initQueued /\ ~(refreshing /\ running /\ ~reboot)
    BY <2>1 DEF WorkIInv, ConnectingTold, RefreshIsQuiet
  <2>3. pc' = IF running THEN "launch" ELSE "render"
    BY <2>1 DEF AfterQueue, NextCheck
  <2> QED
    BY <2>1, <2>2, <2>3 DEF WorkIInv, ConnectingTold, SavingTold, RefreshIsQuiet, RefreshIsReboot, DownloadNeedsLink
<1>20. CASE LaunchCheck
  <2>1. /\ pc = "launch" /\ pc' = "save"
        /\ UNCHANGED <<running, initQueued, refreshing, reboot, saveQueued, shown, dlReady>>
    BY <1>20 DEF LaunchCheck, NextCheck, connVars, userVars, loopVars, sysVars
  <2> QED
    BY <2>1 DEF WorkIInv, ConnectingTold, SavingTold, RefreshIsQuiet, RefreshIsReboot, DownloadNeedsLink
<1>21. CASE SaveCheck
  <2>1. /\ pc = "save" /\ pc' = "finish" /\ saveQueued' # "download"
        /\ UNCHANGED <<running, initQueued, refreshing, reboot, dlReady>>
    BY <1>21 DEF SaveCheck, NextCheck, connVars, loopVars, sysVars, None
  <2> QED
    BY <2>1 DEF WorkIInv, ConnectingTold, SavingTold, RefreshIsQuiet, RefreshIsReboot, DownloadNeedsLink
<1>22. CASE FinishCheck
  <2>1. /\ pc = "finish" /\ pc' = "render" /\ dlReady /\ dlReady' = FALSE
        /\ UNCHANGED <<running, initQueued, refreshing, reboot>>
    BY <1>22 DEF FinishCheck, NextCheck, connVars, sysVars
  <2>2. /\ ~initQueued /\ (saveQueued = "download" => reboot)
        /\ running /\ (~reboot => ~refreshing)
    BY <2>1 DEF WorkIInv, ConnectingTold, SavingTold, RefreshIsQuiet, RefreshIsReboot, DownloadNeedsLink
  <2>3. saveQueued' = "download" => saveQueued = "download" \/ menu'.msg = "saving"
    BY <1>22 DEF FinishCheck, Announce, SetErrorMsg2, None
  <2> QED
    BY <2>1, <2>2, <2>3 DEF WorkIInv, ConnectingTold, SavingTold, RefreshIsQuiet, RefreshIsReboot, DownloadNeedsLink
<1>23. CASE NothingFinished
  <2>1. /\ pc = "finish" /\ pc' = "render"
        /\ UNCHANGED <<running, initQueued, refreshing, reboot, saveQueued, dlReady>>
    BY <1>23 DEF NothingFinished, NextCheck, connVars, loopVars, fileVars, sysVars
  <2> QED
    BY <2>1 DEF WorkIInv, ConnectingTold, SavingTold, RefreshIsQuiet, RefreshIsReboot, DownloadNeedsLink
<1>24. CASE EndFrame
  <2>1. /\ pc = "render" /\ pc' = "loop" /\ ~refreshing
        /\ UNCHANGED <<running, initQueued, refreshing, reboot, saveQueued, dlReady>>
    BY <1>24 DEF EndFrame, connVars
  <2>2. doRender /\ ~dlReady
    BY <2>1 DEF PageIInv, FrameRenders, DownloadIsPrompt
  <2>3. shown'.msg = menu.msg
    BY <1>24, <2>2 DEF EndFrame, Renders, Drawn
  <2>4. running => ~updateNeeded'
    BY <1>24 DEF EndFrame
  <2>5. menu.screen # "sktp" => delay' = delay
    BY <1>24 DEF EndFrame, QueueImage
  <2>6. ConnectingTold'
    BY <2>1, <2>3, <2>5 DEF WorkIInv, ConnectingTold
  <2>7. SavingTold'
    BY <2>1, <2>3 DEF WorkIInv, SavingTold
  <2> QED
    BY <2>1, <2>2, <2>4, <2>6, <2>7 DEF WorkIInv, RefreshIsQuiet, RefreshIsReboot,
       DownloadNeedsLink
<1>25. CASE EndRefresh
  <2>1. /\ pc = "render" /\ pc' = "loop" /\ refreshing /\ ~refreshing'
        /\ UNCHANGED <<running, initQueued, reboot, saveQueued, dlReady>>
    BY <1>25 DEF EndRefresh, connVars
  <2>2. running => ~updateNeeded'
    BY <1>25 DEF EndRefresh
  <2>3. ~initQueued /\ (saveQueued = "download" => reboot) /\ ~dlReady
    BY <2>1 DEF WorkIInv, ConnectingTold, SavingTold, PageIInv, DownloadIsPrompt
  <2> QED
    BY <2>1, <2>2, <2>3 DEF WorkIInv, ConnectingTold, SavingTold, RefreshIsQuiet, RefreshIsReboot, DownloadNeedsLink
<1>26. CASE UNCHANGED vars
  <2>1. UNCHANGED <<pc, menu, shown, running, initQueued, delay, refreshing, reboot,
                    saveQueued, dlReady, updateNeeded>>
    BY <1>26 DEF vars, loopVars, userVars, connVars, pageVars, fileVars, sysVars
  <2> QED
    BY <2>1 DEF WorkIInv, ConnectingTold, SavingTold, RefreshIsQuiet, RefreshIsReboot, DownloadNeedsLink
<1> QED
  BY <1>1, <1>2, <1>3, <1>4, <1>5, <1>6, <1>7, <1>8, <1>9, <1>10, <1>11, <1>12, <1>13, <1>14, <1>15, <1>16, <1>17, <1>18, <1>19, <1>20, <1>21, <1>22, <1>23, <1>24, <1>25, <1>26
     DEF Next, HandleC64

\* Connecting and saving a download begin when the C64 shows the message
\* that tells the user to wait (kernel_menu.cpp 816, net.cpp 970), except
\* that a save in a reboot's countdown may not be shown.
THEOREM LongWorkIsAnnounced == Spec => []WorkAnnounced
<1>1. Init => WorkIInv
  BY DEF Init, WorkIInv, None, ConnectingTold, SavingTold, RefreshIsQuiet, RefreshIsReboot, DownloadNeedsLink
<1>2. TypeOK /\ PageIInv /\ WorkIInv /\ [Next]_vars => WorkIInv'
  BY WorkStep
<1>3. TypeOK /\ PageIInv /\ WorkIInv => WorkAnnounced
  <2> SUFFICES ASSUME TypeOK, PageIInv, WorkIInv PROVE WorkAnnounced
    OBVIOUS
  <2>1. pc = "net" /\ initQueued /\ ~running /\ delay = 0 => shown.msg = "connecting"
    BY DEF WorkIInv, ConnectingTold
  <2>2. pc = "save" /\ saveQueued = "download" => shown.msg = "saving" \/ reboot
    BY DEF WorkIInv, SavingTold
  <2> QED
    BY <2>1, <2>2 DEF WorkAnnounced
<1> QED
  BY <1>1, <1>2, <1>3, MenuTypeCorrect, PageInvariant, PTL DEF Spec
=============================================================================
