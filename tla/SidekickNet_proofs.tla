----------------------- MODULE SidekickNet_proofs -----------------------
(***************************************************************************)
(* Theorems about SidekickNet, for every set of files and every            *)
(* configuration that meets the module's assumptions.                      *)
(***************************************************************************)
EXTENDS SidekickNet, TLAPS

USE DEF progVars, netVars, queueVars, metaVars, fileVars, sktpVars, sysVars, envVars

LEMMA InitTypeOK == Init => TypeOK
  <1> SUFFICES ASSUME Init PROVE TypeOK
    OBVIOUS
  <1> USE DEF Init
  <1>1. ProgTypeOK
    <2>1. started \in [file : Launchable, data : Launchable]
      BY DEF Launchable
    <2>2. yields \in 0..Yields
      BY ConfigAssumption
    <2>3. QED
      BY <2>1, <2>2 DEF ProgTypeOK, Pcs, Launchable
  <1>2. NetTypeOK
    <2>1. active \in BOOLEAN /\ WebOnBoot \in BOOLEAN
      BY ConfigAssumption
    <2>2. QED
      BY <2>1 DEF NetTypeOK
  <1>3. FileTypeOK
    BY DEF FileTypeOK, FileOrNone
  <1>4a. SktpTypeOK
    <2>1. session = 0 /\ refresh = FALSE /\ skip = 0 /\ timeout = 0
      OBVIOUS
    <2>2. session \in 0..2 /\ skip \in Nat /\ timeout \in Nat
      BY <2>1
    <2>3. QED
      BY <2>1, <2>2 DEF SktpTypeOK
  <1>4b. PageTypeOK
    BY DEF PageTypeOK
  <1>5. SysTypeOK
    <2>1. reboots \in 0..MaxReboots
      BY ConfigAssumption
    <2>2. card \in [Files -> FileOrNone \cup {Missing}]
      BY DEF FileOrNone
    <2>3. sent \in [Uploads -> {"no", "save", "launch", "both"}]
      OBVIOUS
    <2>4. QED
      BY <2>1, <2>2, <2>3 DEF SysTypeOK
  <1>6. QED
    BY <1>1, <1>2, <1>3, <1>4a, <1>4b, <1>5 DEF TypeOK

(* A frame without a key. *)
LEMMA KeyNoneTypeOK ==
  ASSUME TypeOK, pc' = "enter", UNCHANGED <<yields, sysVars, envVars>>, 
         KeyNone
  PROVE  TypeOK'
  <1>t. ProgTypeOK /\ NetTypeOK /\ FileTypeOK /\ SktpTypeOK /\ PageTypeOK
        /\ SysTypeOK
    BY DEF TypeOK
  <1>1. ProgTypeOK'
    BY <1>t, ConfigAssumption DEF KeyNone, QueueSktpKeypress, ProgTypeOK, Pcs,
       FileOrNone, Launchable
  <1>2. NetTypeOK'
    <2>1. CASE screen = "sktp" /\ session = 2
      BY <1>t, <2>1 DEF KeyNone, QueueSktpKeypress, NetTypeOK
    <2>2. CASE ~(screen = "sktp" /\ session = 2)
      BY <1>t, <2>2 DEF KeyNone, NetTypeOK
    <2>3. QED
      BY <2>1, <2>2
  <1>3. FileTypeOK'
    BY <1>t, ConfigAssumption DEF KeyNone, QueueSktpKeypress, FileTypeOK,
       FileOrNone
  <1>4. SktpTypeOK'
    BY <1>t, ConfigAssumption DEF KeyNone, QueueSktpKeypress, SktpTypeOK
  <1>5. PageTypeOK'
    BY <1>t, ConfigAssumption DEF KeyNone, QueueSktpKeypress, PageTypeOK
  <1>6. SysTypeOK'
    BY <1>t, ConfigAssumption DEF KeyNone, QueueSktpKeypress, SysTypeOK,
       FileOrNone
  <1> QED
    BY <1>1, <1>2, <1>3, <1>4, <1>5, <1>6 DEF TypeOK

(* A key is sent. *)
LEMMA SendKeyTypeOK ==
  ASSUME TypeOK, SendKey
  PROVE  TypeOK'
  <1>t. ProgTypeOK /\ NetTypeOK /\ FileTypeOK /\ SktpTypeOK /\ PageTypeOK
        /\ SysTypeOK
    BY DEF TypeOK
  <1>1. ProgTypeOK'
    BY <1>t, ConfigAssumption DEF SendKey, UpdateSktpScreenContent, AfterQueue,
       ProgTypeOK, Pcs, FileOrNone, Launchable
  <1>2. NetTypeOK'
    BY <1>t, ConfigAssumption DEF SendKey, UpdateSktpScreenContent, AfterQueue,
       NetTypeOK
  <1>3. FileTypeOK'
    BY <1>t, ConfigAssumption DEF SendKey, UpdateSktpScreenContent, AfterQueue,
       FileTypeOK, FileOrNone
  <1>4. SktpTypeOK'
    BY <1>t, ConfigAssumption DEF SendKey, UpdateSktpScreenContent, AfterQueue,
       SktpTypeOK
  <1>5. PageTypeOK'
    BY <1>t, ConfigAssumption DEF SendKey, UpdateSktpScreenContent, AfterQueue,
       PageTypeOK
  <1>6. SysTypeOK'
    BY <1>t, ConfigAssumption DEF SendKey, UpdateSktpScreenContent, AfterQueue,
       SysTypeOK, FileOrNone
  <1> QED
    BY <1>1, <1>2, <1>3, <1>4, <1>5, <1>6 DEF TypeOK

(* A page refreshes itself. *)
LEMMA RefreshTypeOK ==
  ASSUME TypeOK, Refresh
  PROVE  TypeOK'
  <1>t. ProgTypeOK /\ NetTypeOK /\ FileTypeOK /\ SktpTypeOK /\ PageTypeOK
        /\ SysTypeOK
    BY DEF TypeOK
  <1>1. ProgTypeOK'
    BY <1>t, ConfigAssumption DEF Refresh, UpdateSktpScreenContent, AfterQueue,
       ProgTypeOK, Pcs, FileOrNone, Launchable
  <1>2. NetTypeOK'
    BY <1>t, ConfigAssumption DEF Refresh, UpdateSktpScreenContent, AfterQueue,
       NetTypeOK
  <1>3. FileTypeOK'
    BY <1>t, ConfigAssumption DEF Refresh, UpdateSktpScreenContent, AfterQueue,
       FileTypeOK, FileOrNone
  <1>4. SktpTypeOK'
    <2>1. CASE skip + 1 >= timeout
      <3>1. refresh' = FALSE /\ skip' = 0 /\ timeout' = 0
        BY <2>1 DEF Refresh
      <3>2. session' \in 0..2
        BY <1>t, <2>1 DEF Refresh, UpdateSktpScreenContent, SktpTypeOK
      <3>3. skip' \in Nat /\ timeout' \in Nat
        BY <3>1
      <3>4. QED
        BY <3>1, <3>2, <3>3 DEF SktpTypeOK
    <2>2. CASE ~(skip + 1 >= timeout)
      BY <1>t, <2>2 DEF Refresh, SktpTypeOK
    <2>3. QED
      BY <2>1, <2>2
  <1>5. PageTypeOK'
    BY <1>t, ConfigAssumption DEF Refresh, UpdateSktpScreenContent, AfterQueue,
       PageTypeOK
  <1>6. SysTypeOK'
    BY <1>t, ConfigAssumption DEF Refresh, UpdateSktpScreenContent, AfterQueue,
       SysTypeOK, FileOrNone
  <1> QED
    BY <1>1, <1>2, <1>3, <1>4, <1>5, <1>6 DEF TypeOK

(* The answer to the request for a session. *)
LEMMA SessionAnswerTypeOK ==
  ASSUME TypeOK, NEW ok \in BOOLEAN, SessionAnswer(ok)
  PROVE  TypeOK'
  <1>t. ProgTypeOK /\ NetTypeOK /\ FileTypeOK /\ SktpTypeOK /\ PageTypeOK
        /\ SysTypeOK
    BY DEF TypeOK
  <1>1. ProgTypeOK'
    BY <1>t, ConfigAssumption DEF SessionAnswer, UpdateEnds, AfterQueue,
       ProgTypeOK, Pcs, FileOrNone, Launchable
  <1>2. NetTypeOK'
    BY <1>t, ConfigAssumption DEF SessionAnswer, UpdateEnds, AfterQueue,
       NetTypeOK
  <1>3. FileTypeOK'
    BY <1>t, ConfigAssumption DEF SessionAnswer, UpdateEnds, AfterQueue,
       FileTypeOK, FileOrNone
  <1>4. SktpTypeOK'
    BY <1>t, ConfigAssumption DEF SessionAnswer, UpdateEnds, AfterQueue,
       SktpTypeOK
  <1>5. PageTypeOK'
    BY <1>t, ConfigAssumption DEF SessionAnswer, UpdateEnds, AfterQueue,
       PageTypeOK
  <1>6. SysTypeOK'
    BY <1>t, ConfigAssumption DEF SessionAnswer, UpdateEnds, AfterQueue,
       SysTypeOK, FileOrNone
  <1> QED
    BY <1>1, <1>2, <1>3, <1>4, <1>5, <1>6 DEF TypeOK

(* The session has expired. *)
LEMMA ExpiredAnswerTypeOK ==
  ASSUME TypeOK, ExpiredAnswer
  PROVE  TypeOK'
  <1>t. ProgTypeOK /\ NetTypeOK /\ FileTypeOK /\ SktpTypeOK /\ PageTypeOK
        /\ SysTypeOK
    BY DEF TypeOK
  <1>1. ProgTypeOK'
    BY <1>t, ConfigAssumption DEF ExpiredAnswer, UpdateEnds, AfterQueue,
       ProgTypeOK, Pcs, FileOrNone, Launchable
  <1>2. NetTypeOK'
    BY <1>t, ConfigAssumption DEF ExpiredAnswer, UpdateEnds, AfterQueue,
       NetTypeOK
  <1>3. FileTypeOK'
    BY <1>t, ConfigAssumption DEF ExpiredAnswer, UpdateEnds, AfterQueue,
       FileTypeOK, FileOrNone
  <1>4. SktpTypeOK'
    BY <1>t, ConfigAssumption DEF ExpiredAnswer, UpdateEnds, AfterQueue,
       SktpTypeOK
  <1>5. PageTypeOK'
    BY <1>t, ConfigAssumption DEF ExpiredAnswer, UpdateEnds, AfterQueue,
       PageTypeOK
  <1>6. SysTypeOK'
    BY <1>t, ConfigAssumption DEF ExpiredAnswer, UpdateEnds, AfterQueue,
       SysTypeOK, FileOrNone
  <1> QED
    BY <1>1, <1>2, <1>3, <1>4, <1>5, <1>6 DEF TypeOK

(* A page arrives. *)
LEMMA PageAnswerTypeOK ==
  ASSUME TypeOK, NEW chunk \in Chunks, PageAnswer(chunk)
  PROVE  TypeOK'
  <1>t. ProgTypeOK /\ NetTypeOK /\ FileTypeOK /\ SktpTypeOK /\ PageTypeOK
        /\ SysTypeOK
    BY DEF TypeOK
  <1>1. ProgTypeOK' /\ FileTypeOK'
    BY <1>t, ConfigAssumption DEF PageAnswer, UpdateEnds, AfterQueue, Chunks,
       ProgTypeOK, FileTypeOK, Pcs, FileOrNone, Launchable
  <1>2. NetTypeOK' /\ SktpTypeOK'
    BY <1>t, ConfigAssumption DEF PageAnswer, UpdateEnds, AfterQueue, Chunks,
       NetTypeOK, SktpTypeOK
  <1>3. PageTypeOK' /\ SysTypeOK'
    BY <1>t, ConfigAssumption DEF PageAnswer, UpdateEnds, AfterQueue, Chunks,
       PageTypeOK, SysTypeOK, FileOrNone
  <1> QED
    BY <1>1, <1>2, <1>3 DEF TypeOK

(* A download command arrives. *)
LEMMA DownloadAnswerTypeOK ==
  ASSUME TypeOK, NEW d \in Downloads, NEW save \in BOOLEAN,
         DownloadAnswer(d, save)
  PROVE  TypeOK'
  <1>t. ProgTypeOK /\ NetTypeOK /\ FileTypeOK /\ SktpTypeOK /\ PageTypeOK
        /\ SysTypeOK
    BY DEF TypeOK
  <1>1. ProgTypeOK' /\ FileTypeOK'
    BY <1>t, ConfigAssumption DEF DownloadAnswer, ParseDownloadCommand,
       UpdateEnds, AfterQueue, Files, ProgTypeOK, FileTypeOK, Pcs, FileOrNone,
       Launchable
  <1>2. NetTypeOK' /\ SktpTypeOK'
    BY <1>t, ConfigAssumption DEF DownloadAnswer, ParseDownloadCommand,
       UpdateEnds, AfterQueue, Files, NetTypeOK, SktpTypeOK
  <1>3. PageTypeOK' /\ SysTypeOK'
    BY <1>t, ConfigAssumption DEF DownloadAnswer, ParseDownloadCommand,
       UpdateEnds, AfterQueue, Files, PageTypeOK, SysTypeOK, FileOrNone
  <1> QED
    BY <1>1, <1>2, <1>3 DEF TypeOK

(* The file arrives, or does not. *)
LEMMA FileAnswerTypeOK ==
  ASSUME TypeOK, NEW ok \in BOOLEAN, FileAnswer(ok)
  PROVE  TypeOK'
  <1>t. ProgTypeOK /\ NetTypeOK /\ FileTypeOK /\ SktpTypeOK /\ PageTypeOK
        /\ SysTypeOK
    BY DEF TypeOK
  <1>1. ProgTypeOK'
    BY <1>t, ConfigAssumption DEF FileAnswer, DownloadEnds, AfterQueue,
       ProgTypeOK, Pcs, FileOrNone, Launchable
  <1>2. NetTypeOK'
    BY <1>t, ConfigAssumption DEF FileAnswer, DownloadEnds, AfterQueue,
       NetTypeOK
  <1>3. FileTypeOK'
    BY <1>t, ConfigAssumption DEF FileAnswer, DownloadEnds, AfterQueue,
       FileTypeOK, FileOrNone
  <1>4. SktpTypeOK'
    BY <1>t, ConfigAssumption DEF FileAnswer, DownloadEnds, AfterQueue,
       SktpTypeOK
  <1>5. PageTypeOK'
    BY <1>t, ConfigAssumption DEF FileAnswer, DownloadEnds, AfterQueue,
       PageTypeOK
  <1>6. SysTypeOK'
    BY <1>t, ConfigAssumption DEF FileAnswer, DownloadEnds, AfterQueue,
       SysTypeOK, FileOrNone
  <1> QED
    BY <1>1, <1>2, <1>3, <1>4, <1>5, <1>6 DEF TypeOK

(* A connection is attempted. *)
LEMMA QueuedInitTypeOK ==
  ASSUME TypeOK, QueuedInit
  PROVE  TypeOK'
  <1>t. ProgTypeOK /\ NetTypeOK /\ FileTypeOK /\ SktpTypeOK /\ PageTypeOK
        /\ SysTypeOK
    BY DEF TypeOK
  <1>1. ProgTypeOK' /\ FileTypeOK'
    BY <1>t, ConfigAssumption DEF QueuedInit, AfterQueue, ProgTypeOK,
       FileTypeOK, Pcs, FileOrNone, Launchable
  <1>2. NetTypeOK' /\ SktpTypeOK'
    BY <1>t, ConfigAssumption DEF QueuedInit, AfterQueue, NetTypeOK, SktpTypeOK
  <1>3. PageTypeOK' /\ SysTypeOK'
    BY <1>t, ConfigAssumption DEF QueuedInit, AfterQueue, PageTypeOK,
       SysTypeOK, FileOrNone
  <1> QED
    BY <1>1, <1>2, <1>3 DEF TypeOK

(* A file is launched. *)
LEMMA LaunchCheckTypeOK ==
  ASSUME TypeOK, LaunchCheck
  PROVE  TypeOK'
  <1>t. ProgTypeOK /\ NetTypeOK /\ FileTypeOK /\ SktpTypeOK /\ PageTypeOK
        /\ SysTypeOK
    BY DEF TypeOK
  <1>1. ProgTypeOK'
    BY <1>t, ConfigAssumption DEF LaunchCheck, CleanupDownloadData,
       RedrawSession, ProgTypeOK, Pcs, FileOrNone, Launchable, FileTypeOK
  <1>2. NetTypeOK'
    BY <1>t, ConfigAssumption DEF LaunchCheck, CleanupDownloadData,
       RedrawSession, NetTypeOK
  <1>3. FileTypeOK'
    BY <1>t, ConfigAssumption DEF LaunchCheck, CleanupDownloadData,
       RedrawSession, FileTypeOK, FileOrNone
  <1>4. SktpTypeOK'
    BY <1>t, ConfigAssumption DEF LaunchCheck, CleanupDownloadData,
       RedrawSession, SktpTypeOK
  <1>5. PageTypeOK'
    BY <1>t, ConfigAssumption DEF LaunchCheck, CleanupDownloadData,
       RedrawSession, PageTypeOK
  <1>6. SysTypeOK'
    BY <1>t, ConfigAssumption DEF LaunchCheck, CleanupDownloadData,
       RedrawSession, SysTypeOK, FileOrNone
  <1> QED
    BY <1>1, <1>2, <1>3, <1>4, <1>5, <1>6 DEF TypeOK

(* A file is saved. *)
LEMMA SaveCheckTypeOK ==
  ASSUME TypeOK, SaveCheck
  PROVE  TypeOK'
  <1>t. ProgTypeOK /\ NetTypeOK /\ FileTypeOK /\ SktpTypeOK /\ PageTypeOK
        /\ SysTypeOK
    BY DEF TypeOK
  <1>1. ProgTypeOK'
    BY <1>t, ConfigAssumption DEF SaveCheck, SaveDownload2SD, WriteCard,
       CleanupDownloadData, RedrawSession, ProgTypeOK, Pcs, FileOrNone,
       Launchable
  <1>2. NetTypeOK'
    BY <1>t, ConfigAssumption DEF SaveCheck, SaveDownload2SD, WriteCard,
       CleanupDownloadData, RedrawSession, NetTypeOK
  <1>3. FileTypeOK'
    BY <1>t, ConfigAssumption DEF SaveCheck, SaveDownload2SD, WriteCard,
       CleanupDownloadData, RedrawSession, FileTypeOK, FileOrNone
  <1>4. SktpTypeOK'
    <2>1. SaveRefresh \in Nat
      BY ConfigAssumption
    <2>2. session' \in 0..2
      BY <1>t DEF SaveCheck, CleanupDownloadData, RedrawSession, SktpTypeOK
    <2>3. UNCHANGED <<refresh, skip, timeout>>
            \/ (refresh' = TRUE /\ skip' = 0 /\ timeout' = SaveRefresh)
      BY DEF SaveCheck
    <2>4. skip' \in Nat /\ timeout' \in Nat
      BY <1>t, <2>1, <2>3 DEF SktpTypeOK
    <2>5. refresh' \in BOOLEAN
      BY <1>t, <2>3 DEF SktpTypeOK
    <2>6. QED
      BY <2>2, <2>4, <2>5 DEF SktpTypeOK
  <1>5. PageTypeOK'
    BY <1>t, ConfigAssumption DEF SaveCheck, SaveDownload2SD, WriteCard,
       CleanupDownloadData, RedrawSession, PageTypeOK
  <1>6. SysTypeOK'
    BY <1>t, ConfigAssumption DEF SaveCheck, SaveDownload2SD, WriteCard,
       CleanupDownloadData, RedrawSession, SysTypeOK, FileOrNone, FileTypeOK
  <1> QED
    BY <1>1, <1>2, <1>3, <1>4, <1>5, <1>6 DEF TypeOK

(* A download has ended. *)
LEMMA FinishCheckTypeOK ==
  ASSUME TypeOK, FinishCheck
  PROVE  TypeOK'
  <1>t. ProgTypeOK /\ NetTypeOK /\ FileTypeOK /\ SktpTypeOK /\ PageTypeOK
        /\ SysTypeOK
    BY DEF TypeOK
  <1>1. ProgTypeOK'
    BY <1>t, ConfigAssumption DEF FinishCheck, FinishedProgram,
       CleanupDownloadData, RedrawSession, ProgTypeOK, Pcs, FileOrNone,
       Launchable
  <1>2. NetTypeOK'
    BY <1>t, ConfigAssumption DEF FinishCheck, FinishedProgram,
       CleanupDownloadData, RedrawSession, NetTypeOK
  <1>3. FileTypeOK'
    BY <1>t, ConfigAssumption DEF FinishCheck, FinishedProgram,
       CleanupDownloadData, RedrawSession, FileTypeOK, FileOrNone
  <1>4. SktpTypeOK'
    BY <1>t, ConfigAssumption DEF FinishCheck, FinishedProgram,
       CleanupDownloadData, RedrawSession, SktpTypeOK
  <1>5. PageTypeOK'
    BY <1>t, ConfigAssumption DEF FinishCheck, FinishedProgram,
       CleanupDownloadData, RedrawSession, PageTypeOK
  <1>6. SysTypeOK'
    BY <1>t, ConfigAssumption DEF FinishCheck, FinishedProgram,
       CleanupDownloadData, RedrawSession, SysTypeOK, FileOrNone
  <1> QED
    BY <1>1, <1>2, <1>3, <1>4, <1>5, <1>6 DEF TypeOK

(* A screen without side effects is drawn. *)
LEMMA RenderPlainTypeOK ==
  ASSUME TypeOK, RenderPlain
  PROVE  TypeOK'
  <1>t. ProgTypeOK /\ NetTypeOK /\ FileTypeOK /\ SktpTypeOK /\ PageTypeOK
        /\ SysTypeOK
    BY DEF TypeOK
  <1>1. ProgTypeOK' /\ FileTypeOK'
    BY <1>t, ConfigAssumption DEF RenderPlain, ProgTypeOK, FileTypeOK, Pcs,
       FileOrNone, Launchable
  <1>2. NetTypeOK' /\ SktpTypeOK'
    BY <1>t, ConfigAssumption DEF RenderPlain, NetTypeOK, SktpTypeOK
  <1>3. PageTypeOK' /\ SysTypeOK'
    BY <1>t, ConfigAssumption DEF RenderPlain, PageTypeOK, SysTypeOK,
       FileOrNone
  <1> QED
    BY <1>1, <1>2, <1>3 DEF TypeOK

(* A download is started. *)
LEMMA StartDownloadTypeOK ==
  ASSUME TypeOK, StartDownload
  PROVE  TypeOK'
  <1>t. ProgTypeOK /\ NetTypeOK /\ FileTypeOK /\ SktpTypeOK /\ PageTypeOK
        /\ SysTypeOK
    BY DEF TypeOK
  <1>1. ProgTypeOK' /\ FileTypeOK'
    BY <1>t, ConfigAssumption DEF StartDownload, ProgTypeOK, FileTypeOK, Pcs,
       FileOrNone, Launchable
  <1>2. NetTypeOK' /\ SktpTypeOK'
    BY <1>t, ConfigAssumption DEF StartDownload, NetTypeOK, SktpTypeOK
  <1>3. PageTypeOK' /\ SysTypeOK'
    BY <1>t, ConfigAssumption DEF StartDownload, PageTypeOK, SysTypeOK,
       FileOrNone
  <1> QED
    BY <1>1, <1>2, <1>3 DEF TypeOK

(* The button is pressed while the cartridge is off. *)
LEMMA ActivateCartTypeOK ==
  ASSUME TypeOK, ActivateCart
  PROVE  TypeOK'
  <1>t. ProgTypeOK /\ NetTypeOK /\ FileTypeOK /\ SktpTypeOK /\ PageTypeOK
        /\ SysTypeOK
    BY DEF TypeOK
  <1>1. ProgTypeOK'
    BY <1>t, ConfigAssumption DEF ActivateCart, ProgTypeOK, Pcs, FileOrNone,
       Launchable
  <1>2. NetTypeOK'
    BY <1>t, ConfigAssumption DEF ActivateCart, NetTypeOK
  <1>3. FileTypeOK'
    BY <1>t, ConfigAssumption DEF ActivateCart, FileTypeOK, FileOrNone
  <1>4. SktpTypeOK'
    BY <1>t, ConfigAssumption DEF ActivateCart, SktpTypeOK
  <1>5. PageTypeOK'
    BY <1>t, ConfigAssumption DEF ActivateCart, PageTypeOK
  <1>6. SysTypeOK'
    BY <1>t, ConfigAssumption DEF ActivateCart, SysTypeOK, FileOrNone
  <1> QED
    BY <1>1, <1>2, <1>3, <1>4, <1>5, <1>6 DEF TypeOK

(* The launcher returns to the menu. *)
LEMMA LauncherReturnsTypeOK ==
  ASSUME TypeOK, LauncherReturns
  PROVE  TypeOK'
  <1>t. ProgTypeOK /\ NetTypeOK /\ FileTypeOK /\ SktpTypeOK /\ PageTypeOK
        /\ SysTypeOK
    BY DEF TypeOK
  <1>1. ProgTypeOK' /\ FileTypeOK'
    BY <1>t, ConfigAssumption DEF LauncherReturns, BackToMenu, ProgTypeOK,
       FileTypeOK, Pcs, FileOrNone, Launchable
  <1>2. NetTypeOK' /\ SktpTypeOK'
    BY <1>t, ConfigAssumption DEF LauncherReturns, BackToMenu, NetTypeOK,
       SktpTypeOK
  <1>3. PageTypeOK' /\ SysTypeOK'
    BY <1>t, ConfigAssumption DEF LauncherReturns, BackToMenu, PageTypeOK,
       SysTypeOK, FileOrNone
  <1> QED
    BY <1>1, <1>2, <1>3 DEF TypeOK

(* Every other key of the menu. *)
LEMMA KeyTypeOK ==
  ASSUME TypeOK, MenuFrame
  PROVE  TypeOK'
  <1> USE ConfigAssumption DEF TypeOK, ProgTypeOK, NetTypeOK, FileTypeOK,
          SktpTypeOK, PageTypeOK, SysTypeOK, Pcs, FileOrNone, Launchable
  <1>f. pc' = "enter" /\ UNCHANGED <<yields, sysVars, envVars>> /\ HandleC64
    BY DEF MenuFrame
  <1>1. CASE KeyNone
    BY <1>1, <1>f, KeyNoneTypeOK
  <1>2. ASSUME NEW m \in Moves, KeyScreen(m[1], m[2])  PROVE TypeOK'
    <2>1. screen' \in {"main", "browser", "network", "sktp"}
      BY <1>2 DEF KeyScreen, Moves
    <2>2. ProgTypeOK' /\ FileTypeOK' /\ PageTypeOK'
      BY <2>1, <1>2, <1>f DEF KeyScreen
    <2>3. SysTypeOK'
      BY <1>f
    <2>4. NetTypeOK'
      <3>1. UNCHANGED netVars /\ (QueueSktpKeypress(1) \/ UNCHANGED queueVars)
        BY <1>2 DEF KeyScreen
      <3>2. CASE QueueSktpKeypress(1)
        BY <3>1, <3>2 DEF QueueSktpKeypress
      <3>3. CASE UNCHANGED queueVars
        BY <3>1, <3>3
      <3>4. QED
        BY <3>1, <3>2, <3>3
    <2>5. SktpTypeOK'
      BY <1>2 DEF KeyScreen, RedrawSession
    <2>6. QED
      BY <2>2, <2>3, <2>4, <2>5
  <1>3. CASE KeySktp
    BY <1>3, <1>f DEF KeySktp, QueueSktpKeypress
  <1>4. CASE KeyConnect
    BY <1>4, <1>f DEF KeyConnect
  <1>5. CASE KeyWebserver
    BY <1>5, <1>f DEF KeyWebserver
  <1>6. ASSUME NEW f \in Picks, KeyPick(f)  PROVE TypeOK'
    BY <1>6, <1>f DEF KeyPick, Files
  <1>7. CASE KeyLaunch
    BY <1>7, <1>f DEF KeyLaunch
  <1>8. CASE KeyExit
    BY <1>8, <1>f DEF KeyExit
  <1> HIDE DEF TypeOK
  <1> QED
    BY <1>f, <1>1, <1>2, <1>3, <1>4, <1>5, <1>6, <1>7, <1>8 DEF HandleC64

(* The steps of the web server and of the programs. *)
LEMMA WebTypeOK ==
  ASSUME TypeOK, WebRequest \/ RebootElapses
  PROVE  TypeOK'
  <1> USE ConfigAssumption DEF TypeOK, ProgTypeOK, NetTypeOK, FileTypeOK,
          SktpTypeOK, PageTypeOK, SysTypeOK, Pcs, FileOrNone, Launchable
  <1>1. ASSUME NEW u \in Uploads, NEW mode \in {"save", "launch", "both"},
               Upload(u, mode)
        PROVE  TypeOK'
    BY <1>1 DEF Upload, UploadSavePath, Files
  <1>2. CASE OpenPage
    BY <1>2 DEF OpenPage, Files
  <1>3. CASE RequestReboot
    BY <1>3 DEF RequestReboot
  <1>4. CASE RebootElapses
    BY <1>4 DEF RebootElapses
  <1> HIDE DEF TypeOK
  <1> QED
    BY <1>1, <1>2, <1>3, <1>4 DEF WebRequest

LEMMA ProgramTypeOK ==
  ASSUME TypeOK,
         MenuRefresh \/ Start \/ LeaveByReset \/ LauncherReturns \/ LauncherPolls
           \/ ActivateCart \/ RebootMenu
  PROVE  TypeOK'
  <1> USE ConfigAssumption DEF TypeOK, ProgTypeOK, NetTypeOK, FileTypeOK,
          SktpTypeOK, PageTypeOK, SysTypeOK, Pcs, FileOrNone, Launchable
  <1>1. CASE MenuRefresh
    BY <1>1 DEF MenuRefresh
  <1>2. ASSUME NEW next \in {"launcher", "other"}, LeaveMenu(next)  PROVE TypeOK'
    BY <1>2 DEF LeaveMenu
  <1>3. CASE LeaveByReset
    BY <1>3 DEF LeaveByReset, BackToMenu
  <1>4. CASE LauncherReturns
    BY <1>4, LauncherReturnsTypeOK
  <1>5. CASE LauncherPolls
    BY <1>5 DEF LauncherPolls
  <1>6. CASE ActivateCart
    BY <1>6, ActivateCartTypeOK
  <1>7. CASE RebootMenu
    BY <1>7 DEF RebootMenu
  <1> HIDE DEF TypeOK
  <1> QED
    BY <1>1, <1>2, <1>3, <1>4, <1>5, <1>6, <1>7 DEF Start

(* handleQueuedNetworkAction and the rest of handleNetwork. *)
LEMMA NetStepTypeOK ==
  ASSUME TypeOK, NetStep
  PROVE  TypeOK'
  <1> USE ConfigAssumption DEF TypeOK, ProgTypeOK, NetTypeOK, FileTypeOK,
          SktpTypeOK, PageTypeOK, SysTypeOK, Pcs, FileOrNone, Launchable
  <1>1. CASE EnterQueue
    BY <1>1 DEF EnterQueue
  <1>2. CASE YieldLoop
    BY <1>2 DEF YieldLoop, StopYielding
  <1>3. CASE YieldReturns
    BY <1>3 DEF YieldReturns
  <1>4. CASE CountDelay
    BY <1>4 DEF CountDelay, AfterQueue
  <1>5. CASE StartDownload
    BY <1>5, StartDownloadTypeOK
  <1>6. CASE NothingQueued
    BY <1>6 DEF NothingQueued, AfterQueue
  <1>7. CASE NothingToSave \/ NothingFinished
    BY <1>7 DEF NothingToSave, NothingFinished
  <1>8. ASSUME NEW t \in 1..SaveRefresh, RenderRefresh(t)  PROVE TypeOK'
    BY <1>8 DEF RenderRefresh
  <1>9. ASSUME NEW i \in Images, NEW save \in BOOLEAN, RenderImageUrl(i, save)
        PROVE  TypeOK'
    BY <1>9 DEF RenderImageUrl, ParseDownloadCommand, Files
  <1>10. CASE RenderImageBytes
    BY <1>10 DEF RenderImageBytes
  <1> HIDE DEF TypeOK
  <1>11. CASE HttpAnswer
    BY <1>11, SessionAnswerTypeOK, FileAnswerTypeOK, PageAnswerTypeOK,
       DownloadAnswerTypeOK, ExpiredAnswerTypeOK DEF HttpAnswer
  <1>12. CASE Render
    BY <1>8, <1>9, <1>10, <1>12, RenderPlainTypeOK DEF Render
  <1> QED
    BY <1>1, <1>2, <1>3, <1>4, <1>5, <1>6, <1>7, <1>11, <1>12, SendKeyTypeOK,
       RefreshTypeOK, QueuedInitTypeOK, LaunchCheckTypeOK, SaveCheckTypeOK,
       FinishCheckTypeOK DEF NetStep

LEMMA StutterTypeOK ==
  ASSUME TypeOK, UNCHANGED vars
  PROVE  TypeOK'
  <1> USE ConfigAssumption DEF TypeOK, ProgTypeOK, NetTypeOK, FileTypeOK,
          SktpTypeOK, PageTypeOK, SysTypeOK, Pcs, FileOrNone, Launchable
  <1> QED
    BY DEF vars

(* Every reachable state is well typed, whatever the files and the         *)
(* configuration are.                                                      *)
THEOREM TypeCorrect == Spec => []TypeOK
  <1>1. TypeOK /\ [Next]_vars => TypeOK'
    BY KeyTypeOK, WebTypeOK, ProgramTypeOK, NetStepTypeOK, StutterTypeOK DEF Next
  <1> QED
    BY InitTypeOK, <1>1, PTL DEF Spec
----------------------------------------------------------------------------
(* KernelNameTruthful is inductive together with: only the menu is ever     *)
(* switched off.                                                            *)
NameIInv ==
    /\ KernelNameTruthful
    /\ cartOff => prog \in {"menu", "rebooting"}

LEMMA NameStep ==
  ASSUME NameIInv, [Next]_vars
  PROVE  NameIInv'
  <1> USE DEF NameIInv, KernelNameTruthful
  <1>1. CASE MenuFrame
    <2>1. CASE KeyExit
      BY <1>1, <2>1 DEF MenuFrame, InMenu, KeyExit
    <2>2. CASE ~KeyExit
      <3>1. UNCHANGED <<prog, running, cartOff>>
        BY <1>1, <2>2 DEF MenuFrame, HandleC64, KeyNone, KeyScreen, KeySktp,
           KeyConnect, KeyWebserver, KeyPick, KeyLaunch
      <3>2. QED
        BY <3>1
    <2>3. QED
      BY <2>1, <2>2
  <1>2. CASE MenuRefresh \/ WebRequest \/ RebootElapses \/ LauncherPolls
             \/ UNCHANGED vars
    BY <1>2 DEF MenuRefresh, WebRequest, Upload, OpenPage, RequestReboot,
       RebootElapses, LauncherPolls, vars
  <1>3. CASE NetStep
    <2>1. UNCHANGED <<prog, running, cartOff>>
      BY <1>3 DEF NetStep, EnterQueue, YieldLoop, YieldReturns, CountDelay,
         QueuedInit, StartDownload, SendKey, Refresh, NothingQueued, HttpAnswer,
         SessionAnswer, PageAnswer, DownloadAnswer, ExpiredAnswer, FileAnswer,
         LaunchCheck, SaveCheck, NothingToSave, FinishCheck, NothingFinished,
         Render, RenderPlain, RenderRefresh, RenderImageUrl, RenderImageBytes
    <2>2. QED
      BY <2>1
  <1>4. CASE Start
    BY <1>4 DEF Start, LeaveMenu, InMenu
  <1>5. CASE LeaveByReset \/ LauncherReturns
    BY <1>5 DEF LeaveByReset, LauncherReturns, BackToMenu
  <1>6. CASE ActivateCart \/ RebootMenu
    BY <1>6 DEF ActivateCart, RebootMenu
  <1>7. QED
    BY <1>1, <1>2, <1>3, <1>4, <1>5, <1>6 DEF Next

(* The handlers of the network are never wrong about the kernel that runs. *)
THEOREM KernelNameIsTruthful == Spec => []KernelNameTruthful
  <1>1. Init => NameIInv
    BY DEF Init, NameIInv, KernelNameTruthful
  <1>2. NameIInv => KernelNameTruthful
    BY DEF NameIInv
  <1>3. QED
    BY <1>1, <1>2, NameStep, PTL DEF Spec
----------------------------------------------------------------------------
(* LaunchPromiseKept is inductive as it stands: of the steps that set the   *)
(* three flags, each is looked at on its own.                               *)
LEMMA PromiseStep ==
  ASSUME LaunchPromiseKept, [Next]_vars
  PROVE  LaunchPromiseKept'
  <1> USE DEF LaunchPromiseKept
  <1>1. CASE MenuFrame
    <2>1. UNCHANGED <<launchAfterSave, saveQueued, ready>>
      BY <1>1 DEF MenuFrame, HandleC64, KeyNone, QueueSktpKeypress, KeyScreen,
         KeySktp, KeyConnect, KeyWebserver, KeyPick, KeyLaunch, KeyExit
    <2>2. QED
      BY <2>1
  <1>2. CASE WebRequest
    BY <1>2 DEF WebRequest, Upload, OpenPage, RequestReboot
  <1>3. CASE LaunchCheck
    BY <1>3 DEF LaunchCheck, CleanupDownloadData
  <1>4. CASE SaveCheck
    BY <1>4 DEF SaveCheck, CleanupDownloadData
  <1>5. CASE FinishCheck
    BY <1>5 DEF FinishCheck, FinishedProgram, CleanupDownloadData
  <1>6. CASE NetStep /\ ~LaunchCheck /\ ~SaveCheck /\ ~FinishCheck
    <2>1. UNCHANGED <<launchAfterSave, saveQueued, ready>>
      BY <1>6 DEF NetStep, EnterQueue, YieldLoop, YieldReturns, CountDelay,
         QueuedInit, StartDownload, SendKey, Refresh, NothingQueued, HttpAnswer,
         SessionAnswer, PageAnswer, DownloadAnswer, ExpiredAnswer, FileAnswer,
         NothingToSave, NothingFinished, Render, RenderPlain, RenderRefresh,
         RenderImageUrl, RenderImageBytes
    <2>2. QED
      BY <2>1
  <1>7. CASE \/ MenuRefresh \/ RebootElapses \/ Start \/ LeaveByReset
             \/ LauncherReturns \/ LauncherPolls \/ ActivateCart \/ RebootMenu
             \/ UNCHANGED vars
    <2>1. UNCHANGED <<launchAfterSave, saveQueued, ready>>
      BY <1>7 DEF MenuRefresh, RebootElapses, Start, LeaveMenu, LeaveByReset,
         LauncherReturns, BackToMenu, LauncherPolls, ActivateCart, RebootMenu, vars
    <2>2. QED
      BY <2>1
  <1>8. QED
    BY <1>1, <1>2, <1>3, <1>4, <1>5, <1>6, <1>7 DEF Next

(* No handler loses an upload that is to be launched after its save.       *)
THEOREM LaunchPromiseIsKept == Spec => []LaunchPromiseKept
  <1>1. Init => LaunchPromiseKept
    BY DEF Init, LaunchPromiseKept
  <1>2. QED
    BY <1>1, PromiseStep, PTL DEF Spec
----------------------------------------------------------------------------
(* What is stored is right as long as files come from the web server only: *)
(* the SKTP browser shows pages (and images inside pages), but offers no   *)
(* downloads.  With downloads two files at a time get mixed up (README,    *)
(* section 8).                                                             *)
UploadsOnly == Downloads = {} /\ Images = {} /\ Picks = {}

(* A pending save either belongs to the bytes in the buffer or has lost    *)
(* its path, unless the upload page was opened on top of it: that page is  *)
(* launched, and the path lost, before the save is looked at.              *)
SaveMatchesBuffer == saveQueued /\ ~ready => savePath \in {buf, None}

(* Nothing that changes the buffer outside of the yield loop meets a       *)
(* pending save: the frame that queued it also carries it out.             *)
SaveIsPrompt ==
    /\ pc \in {"finish", "render"} => ~saveQueued
    /\ prog = "other" => pc = "idle" /\ ~saveQueued
    /\ prog = "menu" /\ pc = "idle" /\ saveQueued => launch = NoLaunch

NothingDownloaded == ~dlQueued /\ ~dlReady /\ pc # "file"

SavedIInv ==
    /\ SavedIntact
    /\ SaveMatchesBuffer
    /\ SaveIsPrompt
    /\ NothingDownloaded
    /\ pc = "save" => ~ready
    /\ webRunning \/ saveQueued \/ ready => active

LEMMA SavedStep ==
  ASSUME UploadsOnly, TypeOK, SavedIInv, [Next]_vars
  PROVE  SavedIInv'
  <1> USE DEF UploadsOnly, SavedIInv, SavedIntact, SaveMatchesBuffer, SaveIsPrompt,
              NothingDownloaded
  <1>1. CASE MenuFrame
    <2>1. UNCHANGED <<card, saveQueued, ready, savePath, buf, dlQueued, dlReady,
                      webRunning, active, prog>>
          /\ pc' = "enter" /\ prog = "menu"
      BY <1>1 DEF MenuFrame, InMenu, HandleC64, KeyNone, QueueSktpKeypress, KeyScreen,
         KeySktp, KeyConnect, KeyWebserver, KeyPick, KeyLaunch, KeyExit
    <2>2. QED
      BY <2>1
  <1>2. CASE WebRequest
    <2>1. ASSUME NEW u \in Uploads, NEW mode \in {"save", "launch", "both"},
                 Upload(u, mode)
          PROVE  SavedIInv'
      BY <2>1 DEF Upload, Serving, UploadSavePath
    <2>2. CASE OpenPage
      BY <2>2 DEF OpenPage, Serving
    <2>3. CASE RequestReboot
      BY <2>3 DEF RequestReboot
    <2>4. QED
      BY <1>2, <2>1, <2>2, <2>3 DEF WebRequest
  <1>3. CASE EnterQueue \/ YieldLoop \/ YieldReturns
    <2>1. UNCHANGED <<card, saveQueued, ready, savePath, buf, dlQueued, dlReady,
                      active, prog, launch>>
          /\ pc' \in {"net", "yield", "queue"}
          /\ pc # "idle"
          /\ (webRunning' => active)
      BY <1>3 DEF EnterQueue, YieldLoop, YieldReturns
    <2>2. QED
      BY <2>1
  <1>4. CASE CountDelay \/ QueuedInit \/ SendKey \/ Refresh \/ NothingQueued
    <2>1. UNCHANGED <<card, saveQueued, ready, savePath, buf, dlQueued, dlReady,
                      prog, launch>>
          /\ pc' \in {"session", "page", AfterQueue} /\ pc = "queue"
      BY <1>4 DEF CountDelay, QueuedInit, SendKey, Refresh, NothingQueued,
         UpdateSktpScreenContent, Dispatch, NoDownload, RefreshDue
    <2>2. webRunning' \/ saveQueued \/ ready => active'
      BY <1>4 DEF CountDelay, QueuedInit, SendKey, Refresh, NothingQueued, TypeOK,
         NetTypeOK, FileTypeOK
    <2>3. QED
      BY <2>1, <2>2 DEF AfterQueue
  <1>5. CASE HttpAnswer
    <2>1. ~(\E ok \in BOOLEAN : FileAnswer(ok))
      BY DEF FileAnswer
    <2>2. UNCHANGED <<card, saveQueued, ready, savePath, buf, dlQueued, dlReady,
                      webRunning, active, prog, launch>>
          /\ pc' \in {"session", "page", AfterQueue} /\ pc \in {"session", "page"}
      BY <1>5, <2>1 DEF HttpAnswer, SessionAnswer, PageAnswer, DownloadAnswer,
         ExpiredAnswer, UpdateEnds
    <2>3. QED
      BY <2>2 DEF AfterQueue
  <1>6. CASE LaunchCheck
    BY <1>6 DEF LaunchCheck, CleanupDownloadData, TypeOK, FileTypeOK
  <1>7. CASE SaveCheck
    <2>1. savePath \in {buf, None} /\ ~ready
      BY <1>7 DEF SaveCheck
    <2>2. SavedIntact'
      BY <1>7, <2>1 DEF SaveCheck, SaveDownload2SD, WriteCard, TypeOK, SysTypeOK
    <2>3. saveQueued' = FALSE /\ pc' = "finish" /\ active
          /\ UNCHANGED <<prog, active, webRunning, dlQueued, dlReady>>
      BY <1>7 DEF SaveCheck, SaveDownload2SD
    <2>4. prog # "other"
      BY <1>7 DEF SaveCheck
    <2>5. QED
      BY <2>2, <2>3, <2>4
  <1>8. CASE NothingToSave \/ NothingFinished
    BY <1>8 DEF NothingToSave, NothingFinished
  <1>9. CASE Render
    <2>1. UNCHANGED <<card, saveQueued, ready, savePath, dlQueued, dlReady,
                      webRunning, active, prog, launch>>
          /\ pc' = "idle" /\ pc = "render"
      BY <1>9 DEF Render, RenderPlain, RenderRefresh, RenderImageUrl, RenderImageBytes
    <2>2. QED
      BY <2>1
  <1>10. CASE StartDownload \/ FinishCheck
    BY <1>10 DEF StartDownload, FinishCheck
  <1>11. CASE NetStep
    BY <1>3, <1>4, <1>5, <1>6, <1>7, <1>8, <1>9, <1>10, <1>11 DEF NetStep
  <1>12. CASE Start
    BY <1>12 DEF Start, LeaveMenu, InMenu
  <1>13. CASE LeaveByReset \/ LauncherReturns
    <2>1. UNCHANGED <<card, saveQueued, ready, savePath, dlQueued, dlReady, pc,
                      webRunning, active>>
          /\ prog' = "menu" /\ pc = "idle" /\ launch' = NoLaunch
      BY <1>13 DEF LeaveByReset, LauncherReturns, BackToMenu
    <2>2. prog # "other" => buf' = buf
      BY <1>13 DEF LeaveByReset, LauncherReturns
    <2>3. QED
      BY <2>1, <2>2
  <1>14. CASE MenuRefresh \/ RebootElapses \/ LauncherPolls \/ ActivateCart
              \/ RebootMenu \/ UNCHANGED vars
    BY <1>14 DEF MenuRefresh, RebootElapses, LauncherPolls, ActivateCart, RebootMenu,
       vars
  <1>15. QED
    BY <1>1, <1>2, <1>11, <1>12, <1>13, <1>14 DEF Next

(* Whatever is uploaded, in whatever order and with whichever button, the  *)
(* SD card never stores the bytes of one file under the name of another.   *)
THEOREM UploadsSavedIntact ==
  ASSUME UploadsOnly
  PROVE  Spec => []SavedIntact
  <1>1. Init => SavedIInv
    BY ConfigAssumption DEF Init, SavedIInv, SavedIntact, SaveMatchesBuffer,
       SaveIsPrompt, NothingDownloaded
  <1>2. TypeOK /\ SavedIInv /\ [Next]_vars => SavedIInv'
    BY UploadsOnly, SavedStep
  <1>3. SavedIInv => SavedIntact
    BY DEF SavedIInv
  <1>4. QED
    BY <1>1, <1>2, <1>3, TypeCorrect, PTL DEF Spec
----------------------------------------------------------------------------
(* Uploads and downloads together are stored right as long as the user and *)
(* the servers deal with one file at a time: while a download is on its    *)
(* way nothing is uploaded, asked for or picked and no kernel without      *)
(* network is started, nor while a save is pending, but for uploads.       *)
Downloading == dlQueued \/ dlReady \/ pc = "file"

Asked ==
    \/ \E d \in Downloads, save \in BOOLEAN : DownloadAnswer(d, save)
    \/ \E i \in Images, save \in BOOLEAN : RenderImageUrl(i, save)

OneAtATime ==
    /\ sent' # sent => ~Downloading
    /\ Asked => ~Downloading /\ ~saveQueued
    /\ buf' # buf /\ buf' \in Picks => ~Downloading /\ ~saveQueued
    /\ prog # "other" /\ prog' = "other" => ~Downloading /\ ~saveQueued

(* A file passes from the queue to the buffer and from there to the card.  *)
OneFile ==
    /\ saveQueued => ~Downloading
    /\ dlReady => ~dlQueued /\ pc # "file"
    /\ pc = "file" => ~dlQueued

(* A download that is to be saved has its own path, or has lost it; one on *)
(* which the upload page was opened loses its flags before they are used.  *)
DownloadMatches ==
    saveFlag /\ ext \notin Images /\ ~ready =>
        /\ dlQueued \/ pc = "file" => savePath \in {path, None}
        /\ dlReady => savePath \in {buf, None}

(* The checks of a frame come in an order in which no file is left where   *)
(* its bytes can be overwritten: a page with an image does not get         *)
(* rendered behind the message that a file is going to be saved.           *)
CheckPlaces ==
    /\ pc = "save" => ~ready
    /\ pc = "finish" => ~saveQueued /\ (dlReady => ~ready)
    /\ pc = "render" => ~dlReady /\ (saveQueued => msg)

FilePlaces ==
    /\ prog = "other" => pc = "idle" /\ ~Downloading /\ ~saveQueued
    /\ webRunning \/ saveQueued \/ ready \/ Downloading \/ pc \in {"session", "page"} => active

FilesIInv ==
    SavedIntact /\ SaveMatchesBuffer /\ OneFile /\ DownloadMatches /\ CheckPlaces /\ FilePlaces

LEMMA FilesStep ==
  ASSUME TypeOK, FilesIInv, OneAtATime, [Next]_vars
  PROVE  FilesIInv'
  <1> USE DEF FilesIInv, SavedIntact, SaveMatchesBuffer, OneFile, DownloadMatches,
              CheckPlaces, FilePlaces, Downloading
  <1>1. CASE MenuFrame
    <2>1. /\ UNCHANGED <<card, saveQueued, ready, savePath, dlQueued, dlReady, ext, path,
                         saveFlag, webRunning, active, prog>>
          /\ pc' = "enter" /\ pc = "idle" /\ prog = "menu"
          /\ buf' # buf => buf' \in Picks
      BY <1>1 DEF MenuFrame, InMenu, HandleC64, KeyNone, QueueSktpKeypress, KeyScreen,
         KeySktp, KeyConnect, KeyWebserver, KeyPick, KeyLaunch, KeyExit
    <2>2. QED
      BY <2>1 DEF OneAtATime
  <1>2. CASE WebRequest
    <2>1. ASSUME NEW u \in Uploads, NEW mode \in {"save", "launch", "both"},
                 Upload(u, mode)
          PROVE  FilesIInv'
      <3>1. sent' # sent
        BY <2>1 DEF Upload, TypeOK, SysTypeOK
      <3>2. ~Downloading /\ pc \in {"yield", "session", "page"} /\ active
        BY <2>1, <3>1 DEF Upload, Serving, OneAtATime
      <3>3. QED
        BY <2>1, <3>2 DEF Upload, UploadSavePath
    <2>2. CASE OpenPage
      BY <2>2 DEF OpenPage, Serving
    <2>3. CASE RequestReboot
      BY <2>3 DEF RequestReboot
    <2>4. QED
      BY <1>2, <2>1, <2>2, <2>3 DEF WebRequest
  <1>3. CASE EnterQueue \/ YieldLoop \/ YieldReturns
    <2>1. /\ UNCHANGED <<card, saveQueued, ready, savePath, buf, dlQueued, dlReady, ext, path,
                         saveFlag, active, prog>>
          /\ pc' \in {"net", "yield", "queue"} /\ pc \in {"enter", "net", "yield"}
          /\ (webRunning' => webRunning \/ active)
      BY <1>3 DEF EnterQueue, YieldLoop, YieldReturns
    <2>2. QED
      BY <2>1
  <1>4. CASE CountDelay \/ QueuedInit \/ SendKey \/ Refresh \/ NothingQueued
    <2>1. /\ UNCHANGED <<card, saveQueued, ready, savePath, buf, dlQueued, dlReady, ext, path,
                         saveFlag, prog>>
          /\ pc' \in {"session", "page", AfterQueue} /\ pc = "queue"
      BY <1>4 DEF CountDelay, QueuedInit, SendKey, Refresh, NothingQueued,
         UpdateSktpScreenContent, Dispatch, NoDownload, RefreshDue
    <2>2. /\ webRunning' \/ saveQueued \/ ready \/ dlQueued \/ dlReady => active'
          /\ pc' \in {"session", "page"} => active'
      BY <1>4 DEF CountDelay, QueuedInit, SendKey, Refresh, NothingQueued, TypeOK,
         NetTypeOK, FileTypeOK, NoDownload, RefreshDue, AfterQueue
    <2>3. QED
      BY <2>1, <2>2 DEF AfterQueue
  <1>5. CASE StartDownload
    BY <1>5 DEF StartDownload, Dispatch
  <1>6. CASE \E ok \in BOOLEAN : FileAnswer(ok)
    BY <1>6 DEF FileAnswer, DownloadEnds, AfterQueue
  <1>7. CASE \E d \in Downloads, save \in BOOLEAN : DownloadAnswer(d, save)
    <2>1. ~Downloading /\ ~saveQueued
      BY <1>7 DEF OneAtATime, Asked
    <2>2. QED
      BY <1>7, <2>1 DEF DownloadAnswer, ParseDownloadCommand, UpdateEnds, AfterQueue
  <1>8. CASE \/ \E ok \in BOOLEAN : SessionAnswer(ok)
             \/ \E chunk \in Chunks : PageAnswer(chunk)
             \/ ExpiredAnswer
    <2>1. /\ UNCHANGED <<card, saveQueued, ready, savePath, buf, dlQueued, dlReady, ext, path,
                         saveFlag, webRunning, active, prog>>
          /\ pc' \in {"session", "page", AfterQueue} /\ pc \in {"session", "page"}
      BY <1>8 DEF SessionAnswer, PageAnswer, ExpiredAnswer, UpdateEnds
    <2>2. QED
      BY <2>1 DEF AfterQueue
  <1>9. CASE HttpAnswer
    BY <1>6, <1>7, <1>8, <1>9 DEF HttpAnswer
  <1>10. CASE LaunchCheck
    BY <1>10 DEF LaunchCheck, CleanupDownloadData, TypeOK, FileTypeOK
  <1>11. CASE SaveCheck
    <2>1. savePath \in {buf, None} /\ ~ready /\ active /\ prog # "other" /\ ~Downloading
      BY <1>11 DEF SaveCheck
    <2>2. SavedIntact'
      BY <1>11, <2>1 DEF SaveCheck, SaveDownload2SD, WriteCard, TypeOK, SysTypeOK
    <2>3. /\ saveQueued' = FALSE /\ pc' = "finish"
          /\ UNCHANGED <<prog, active, webRunning, dlQueued, dlReady>>
      BY <1>11 DEF SaveCheck, SaveDownload2SD
    <2>4. QED
      BY <2>1, <2>2, <2>3
  <1>12. CASE NothingToSave \/ NothingFinished
    BY <1>12 DEF NothingToSave, NothingFinished
  <1>13. CASE FinishCheck
    BY <1>13 DEF FinishCheck, FinishedProgram, CleanupDownloadData
  <1>14. CASE RenderPlain \/ \E t \in 1 .. SaveRefresh : RenderRefresh(t)
    BY <1>14 DEF RenderPlain, RenderRefresh
  <1>15. CASE \E i \in Images, save \in BOOLEAN : RenderImageUrl(i, save)
    <2>1. ~Downloading /\ ~saveQueued
      BY <1>15 DEF OneAtATime, Asked
    <2>2. QED
      BY <1>15, <2>1 DEF RenderImageUrl, ParseDownloadCommand, PageShown
  <1>16. CASE RenderImageBytes
    BY <1>16 DEF RenderImageBytes, PageShown
  <1>17. CASE NetStep
    BY <1>3, <1>4, <1>5, <1>9, <1>10, <1>11, <1>12, <1>13, <1>14, <1>15, <1>16, <1>17
       DEF NetStep, Render
  <1>18. CASE Start
    BY <1>18 DEF Start, LeaveMenu, InMenu, OneAtATime
  <1>19. CASE LeaveByReset \/ LauncherReturns
    <2>1. /\ UNCHANGED <<card, saveQueued, ready, savePath, dlQueued, dlReady, ext, path,
                         saveFlag, pc, webRunning, active>>
          /\ prog' = "menu" /\ pc = "idle"
          /\ prog # "other" => buf' = buf
      BY <1>19 DEF LeaveByReset, LauncherReturns, BackToMenu
    <2>2. QED
      BY <2>1
  <1>20. CASE MenuRefresh \/ RebootElapses \/ LauncherPolls \/ ActivateCart
              \/ RebootMenu \/ UNCHANGED vars
    BY <1>20 DEF MenuRefresh, RebootElapses, LauncherPolls, ActivateCart, RebootMenu,
       vars
  <1>21. QED
    BY <1>1, <1>2, <1>17, <1>18, <1>19, <1>20 DEF Next

(* Dealing with one file at a time, from the SKTP browser, the web server  *)
(* or the card, on WLAN or LAN, with images, launches, failures, resets and*)
(* the upload page in between: the SD card stores under a path the bytes   *)
(* of its file.  Only files that overlap can be mixed up.                  *)
THEOREM OneAtATimeSavedIntact == Spec /\ [][OneAtATime]_vars => []SavedIntact
  <1>1. Init => FilesIInv
    BY ConfigAssumption DEF Init, FilesIInv, SavedIntact, SaveMatchesBuffer, OneFile,
       DownloadMatches, CheckPlaces, FilePlaces, Downloading
  <1>2. FilesIInv /\ UNCHANGED vars => FilesIInv'
    BY DEF FilesIInv, SavedIntact, SaveMatchesBuffer, OneFile, DownloadMatches, CheckPlaces,
       FilePlaces, Downloading, vars, progVars, netVars, queueVars, metaVars, fileVars,
       sktpVars, sysVars, envVars
  <1>3. TypeOK /\ FilesIInv /\ [Next]_vars /\ [OneAtATime]_vars => FilesIInv'
    BY <1>2, FilesStep
  <1>4. FilesIInv => SavedIntact
    BY DEF FilesIInv
  <1>5. QED
    BY <1>1, <1>3, <1>4, TypeCorrect, PTL DEF Spec
----------------------------------------------------------------------------
(* What is launched is what was chosen, unless somebody else uses the buffer *)
(* of the programs meanwhile.  The web server has to wait for a download,   *)
(* and may replace a program that is chosen only with one that is launched  *)
(* at once.  The others have to wait for both: a new download, an image of  *)
(* a page, a program picked from an image file, and MODplay.                *)
Chosen == launch \in Files /\ prog = "menu"

ToLaunch == ready \/ launchAfterSave \/ Chosen

WebUse == OpenPage \/ \E u \in Uploads, mode \in {"save", "launch", "both"} : Upload(u, mode)

OtherUse ==
    \/ Asked \/ RenderImageBytes
    \/ launch' # launch /\ launch' \in Picks
    \/ LeaveByReset /\ buf' # buf

Undisturbed ==
    /\ WebUse => ~Downloading /\ (Chosen => ready')
    /\ OtherUse => ~Downloading /\ ~ToLaunch

LaunchedIntact == started.file \in Files => started.data = started.file

OneDownload ==
    /\ dlReady => ~dlQueued /\ pc # "file"
    /\ pc = "file" => ~dlQueued
    /\ Downloading => ~ToLaunch

(* The name decides what is launched: it is that of the bytes, or is gone. *)
NameOfBytes ==
    /\ dlQueued \/ pc = "file" => ext \in {path, None}
    /\ ready \/ launchAfterSave \/ dlReady => ext \in {buf, None}

(* A chosen program whose bytes were replaced is replaced itself before the *)
(* menu can be left.                                                        *)
ChosenBytes ==
    Chosen =>
        \/ launch = buf
        \/ /\ ready /\ active
           /\ pc \in {"enter", "net", "yield", "queue", "session", "page", "file", "launch"}

LaunchIInv ==
    OneDownload /\ NameOfBytes /\ ChosenBytes /\ LaunchedIntact /\ (webRunning => active)

LEMMA LaunchStep ==
  ASSUME TypeOK, LaunchIInv, Undisturbed, [Next]_vars
  PROVE  LaunchIInv'
  <1> USE DEF LaunchIInv, OneDownload, NameOfBytes, ChosenBytes, LaunchedIntact, Chosen,
              ToLaunch, Downloading
  <1>1. CASE MenuFrame
    <2>1. /\ UNCHANGED <<dlQueued, dlReady, ext, path, ready, launchAfterSave, webRunning,
                         active, prog, started>>
          /\ pc' = "enter" /\ pc = "idle"
          /\ \/ UNCHANGED <<launch, buf>>
             \/ launch' = FromCard /\ buf' = buf
             \/ launch' = buf' /\ buf' \in Picks
      BY <1>1 DEF MenuFrame, InMenu, HandleC64, KeyNone, QueueSktpKeypress, KeyScreen,
         KeySktp, KeyConnect, KeyWebserver, KeyPick, KeyLaunch, KeyExit
    <2>2. CASE UNCHANGED <<launch, buf>>
      BY <2>1, <2>2
    <2>3. CASE launch' = FromCard /\ buf' = buf
      <3>1. FromCard \notin Files
        BY FilesAssumption
      <3>2. QED
        BY <2>1, <2>3, <3>1
    <2>4. CASE launch' = buf' /\ buf' \in Picks
      <3>1. CASE launch' # launch
        <4>1. ~Downloading /\ ~ToLaunch
          BY <2>4, <3>1 DEF Undisturbed, OtherUse
        <4>2. QED
          BY <2>1, <2>4, <4>1
      <3>2. CASE launch' = launch
        <4>1. launch \in Files /\ prog = "menu"
          BY <1>1, <2>4, <3>2 DEF MenuFrame, InMenu, Files
        <4>2. UNCHANGED <<launch, buf>>
          BY <2>1, <2>4, <3>2, <4>1
        <4>3. QED
          BY <2>1, <4>2
      <3>3. QED
        BY <3>1, <3>2
    <2>5. QED
      BY <2>1, <2>2, <2>3, <2>4
  <1>2. CASE WebRequest
    <2>1. ASSUME NEW u \in Uploads, NEW mode \in {"save", "launch", "both"},
                 Upload(u, mode)
          PROVE  LaunchIInv'
      <3>1. ~Downloading /\ (Chosen => ready')
        BY <2>1 DEF Undisturbed, WebUse
      <3>2. active /\ pc \in {"yield", "session", "page"}
        BY <2>1, <3>1 DEF Upload, Serving
      <3>3. /\ buf' = u /\ ext' = u
            /\ UNCHANGED <<pc, dlQueued, dlReady, launch, prog, started, active, webRunning>>
        BY <2>1 DEF Upload, progVars, netVars
      <3>4. QED
        BY <3>1, <3>2, <3>3
    <2>2. CASE OpenPage
      <3>1. ~Downloading
        BY <2>2 DEF Undisturbed, WebUse
      <3>2. active /\ pc \in {"yield", "session", "page"}
        BY <2>2, <3>1 DEF OpenPage, Serving
      <3>3. /\ buf' = WebPrg /\ ext' = WebPrg /\ ready' = TRUE
            /\ UNCHANGED <<pc, dlQueued, dlReady, launch, prog, started, active, webRunning>>
        BY <2>2 DEF OpenPage, progVars, netVars, queueVars
      <3>4. QED
        BY <3>1, <3>2, <3>3
    <2>3. CASE RequestReboot
      BY <2>3 DEF RequestReboot, progVars, netVars, queueVars, fileVars, metaVars
    <2>4. QED
      BY <1>2, <2>1, <2>2, <2>3 DEF WebRequest
  <1>3. CASE EnterQueue \/ YieldLoop \/ YieldReturns
    <2>1. /\ UNCHANGED <<dlReady, dlQueued, ext, path, buf, launch, started, ready,
                         launchAfterSave, prog, active>>
          /\ pc' \in {"net", "yield", "queue"} /\ pc \in {"enter", "net", "yield"}
          /\ (webRunning' => webRunning \/ active)
      BY <1>3 DEF EnterQueue, YieldLoop, YieldReturns, progVars, netVars, queueVars, fileVars,
         metaVars
    <2>2. QED
      BY <2>1
  <1>4. CASE CountDelay \/ QueuedInit \/ SendKey \/ Refresh \/ NothingQueued
    <2>1. /\ UNCHANGED <<dlReady, dlQueued, ext, path, buf, launch, started, ready,
                         launchAfterSave, prog>>
          /\ pc' \in {"session", "page", AfterQueue} /\ pc = "queue"
      BY <1>4 DEF CountDelay, QueuedInit, SendKey, Refresh, NothingQueued,
         UpdateSktpScreenContent, Dispatch, NoDownload, RefreshDue, progVars, fileVars, metaVars,
         queueVars
    <2>2. (active => active') /\ (webRunning' => active')
      BY <1>4 DEF CountDelay, QueuedInit, SendKey, Refresh, NothingQueued, netVars, TypeOK,
         NetTypeOK
    <2>3. QED
      BY <2>1, <2>2 DEF AfterQueue
  <1>5. CASE StartDownload
    BY <1>5 DEF StartDownload, Dispatch, progVars, netVars, fileVars, metaVars
  <1>6. CASE \E ok \in BOOLEAN : FileAnswer(ok)
    <2>1. /\ UNCHANGED <<dlQueued, ext, path, launch, started, ready, launchAfterSave, prog,
                         active, webRunning>>
          /\ pc = "file" /\ pc' \in {"launch", "idle"}
          /\ \/ buf' = path /\ dlReady' = TRUE
             \/ dlReady' = dlReady
      BY <1>6 DEF FileAnswer, DownloadEnds, AfterQueue, progVars, netVars, queueVars, metaVars
    <2>2. QED
      BY <2>1
  <1>7. CASE \E d \in Downloads, save \in BOOLEAN : DownloadAnswer(d, save)
    <2>1. ~Downloading /\ ~ToLaunch
      BY <1>7 DEF Undisturbed, OtherUse, Asked
    <2>2. /\ ext' = path' /\ pc' \in {"launch", "idle"}
          /\ UNCHANGED <<buf, dlReady, launch, started, ready, launchAfterSave, prog, active,
                         webRunning>>
      BY <1>7 DEF DownloadAnswer, ParseDownloadCommand, UpdateEnds, AfterQueue, progVars, netVars
    <2>3. QED
      BY <2>1, <2>2
  <1>8. CASE \/ \E ok \in BOOLEAN : SessionAnswer(ok)
             \/ \E chunk \in Chunks : PageAnswer(chunk)
             \/ ExpiredAnswer
    <2>1. /\ UNCHANGED <<dlReady, dlQueued, ext, path, buf, launch, started, ready,
                         launchAfterSave, prog, active, webRunning>>
          /\ pc' \in {"session", "page", AfterQueue} /\ pc \in {"session", "page"}
      BY <1>8 DEF SessionAnswer, PageAnswer, ExpiredAnswer, UpdateEnds, progVars, netVars,
         fileVars, metaVars
    <2>2. QED
      BY <2>1 DEF AfterQueue
  <1>9. CASE HttpAnswer
    BY <1>6, <1>7, <1>8, <1>9 DEF HttpAnswer
  <1>10. CASE LaunchCheck
    <2>1. /\ UNCHANGED <<dlQueued, dlReady, buf, started, prog, active, webRunning>>
          /\ pc = "launch" /\ pc' \in {"save", "render"}
      BY <1>10 DEF LaunchCheck, netVars, queueVars
    <2>2. CASE active /\ ready
      <3>1. /\ launch' = ext /\ ext' = None /\ path' = None
            /\ ready' = FALSE /\ launchAfterSave' = FALSE
        BY <1>10, <2>2 DEF LaunchCheck, CleanupDownloadData
      <3>2. None \notin Files
        BY FilesAssumption
      <3>3. QED
        BY <2>1, <2>2, <3>1, <3>2
    <2>3. CASE ~(active /\ ready)
      <3>1. UNCHANGED <<launch, ext, path, ready, launchAfterSave>>
        BY <1>10, <2>3 DEF LaunchCheck, metaVars
      <3>2. QED
        BY <2>1, <2>3, <3>1
    <2>4. QED
      BY <2>2, <2>3
  <1>11. CASE SaveCheck
    <2>1. /\ UNCHANGED <<dlQueued, dlReady, buf, launch, started, prog, active, webRunning>>
          /\ pc = "save" /\ pc' = "finish"
      BY <1>11 DEF SaveCheck, progVars, netVars
    <2>2. \/ launchAfterSave /\ ready' = TRUE /\ launchAfterSave' = FALSE
             /\ UNCHANGED <<ext, path>>
          \/ ext' = None /\ path' = None /\ ready' = FALSE /\ launchAfterSave' = FALSE
          \/ UNCHANGED <<ext, path, ready, launchAfterSave>>
      <3>1. CASE launchAfterSave
        BY <1>11, <3>1 DEF SaveCheck, metaVars
      <3>2. CASE ~launchAfterSave /\ running = "m"
        BY <1>11, <3>2 DEF SaveCheck, CleanupDownloadData
      <3>3. CASE ~launchAfterSave /\ running # "m"
        BY <1>11, <3>3, Zenon DEF SaveCheck, metaVars
      <3>4. QED
        BY <3>1, <3>2, <3>3
    <2>3. QED
      BY <2>1, <2>2
  <1>12. CASE NothingToSave \/ NothingFinished
    BY <1>12 DEF NothingToSave, NothingFinished, progVars, netVars, queueVars, fileVars, metaVars
  <1>13. CASE FinishCheck
    <2>1. /\ UNCHANGED <<dlQueued, buf, launch, started, prog, active, webRunning>>
          /\ dlReady /\ dlReady' = FALSE /\ pc = "finish" /\ pc' = "render"
      BY <1>13 DEF FinishCheck, progVars, netVars
    <2>2. \/ ext' = None /\ path' = None /\ ready' = FALSE /\ launchAfterSave' = FALSE
          \/ UNCHANGED <<ext, path, launchAfterSave>>
      BY <1>13 DEF FinishCheck, CleanupDownloadData, metaVars
    <2>3. QED
      BY <2>1, <2>2
  <1>14. CASE RenderPlain \/ \E t \in 1 .. SaveRefresh : RenderRefresh(t)
    <2>1. /\ UNCHANGED <<dlReady, dlQueued, ext, path, buf, launch, started, ready,
                         launchAfterSave, prog, active, webRunning>>
          /\ pc = "render" /\ pc' = "idle"
      BY <1>14 DEF RenderPlain, RenderRefresh, progVars, netVars, queueVars, fileVars, metaVars
    <2>2. QED
      BY <2>1
  <1>15. CASE \E i \in Images, save \in BOOLEAN : RenderImageUrl(i, save)
    <2>1. ~Downloading /\ ~ToLaunch
      BY <1>15 DEF Undisturbed, OtherUse, Asked
    <2>2. /\ ext' = path' /\ pc' = "idle"
          /\ UNCHANGED <<buf, dlReady, launch, started, ready, launchAfterSave, prog, active,
                         webRunning>>
      BY <1>15 DEF RenderImageUrl, ParseDownloadCommand, progVars, netVars, fileVars
    <2>3. QED
      BY <2>1, <2>2
  <1>16. CASE RenderImageBytes
    <2>1. ~Downloading /\ ~ToLaunch
      BY <1>16 DEF Undisturbed, OtherUse
    <2>2. /\ UNCHANGED <<dlQueued, dlReady, launch, started, ready, launchAfterSave, prog, active,
                         webRunning>>
          /\ pc' = "idle"
      BY <1>16 DEF RenderImageBytes, progVars, netVars, queueVars
    <2>3. QED
      BY <2>1, <2>2
  <1>17. CASE NetStep
    BY <1>3, <1>4, <1>5, <1>9, <1>10, <1>11, <1>12, <1>13, <1>14, <1>15, <1>16, <1>17
       DEF NetStep, Render
  <1>18. CASE Start
    <2>1. /\ UNCHANGED <<dlQueued, dlReady, ext, path, buf, launch, ready, launchAfterSave,
                         active, webRunning>>
          /\ prog = "menu" /\ pc = "idle" /\ pc' = "idle" /\ prog' \in {"launcher", "other"}
          /\ started' = [file |-> launch,
                         data |-> IF launch = FromCard THEN FromCard ELSE buf]
      BY <1>18 DEF Start, LeaveMenu, InMenu, netVars, queueVars, fileVars, metaVars
    <2>2. launch \in Files => launch = buf /\ launch # FromCard
      BY <2>1, FilesAssumption
    <2>3. started'.file = launch
          /\ started'.data = IF launch = FromCard THEN FromCard ELSE buf
      BY <2>1
    <2>4. QED
      BY <2>1, <2>2, <2>3
  <1>19. CASE LeaveByReset \/ LauncherReturns
    <2>1. /\ UNCHANGED <<dlQueued, dlReady, ext, path, started, ready, launchAfterSave, pc,
                         active, webRunning>>
          /\ launch' = NoLaunch /\ pc = "idle"
      BY <1>19 DEF LeaveByReset, LauncherReturns, BackToMenu, netVars, queueVars, metaVars
    <2>2. buf' = buf \/ (~Downloading /\ ~ToLaunch)
      BY <1>19 DEF Undisturbed, OtherUse, LauncherReturns
    <2>3. NoLaunch \notin Files
      BY FilesAssumption
    <2>4. QED
      BY <2>1, <2>2, <2>3
  <1>20. CASE RebootMenu
    BY <1>20 DEF RebootMenu, netVars, queueVars, fileVars, metaVars
  <1>21. CASE MenuRefresh \/ RebootElapses \/ LauncherPolls \/ ActivateCart \/ UNCHANGED vars
    <2>1. UNCHANGED <<dlReady, dlQueued, ext, path, buf, launch, started, ready,
                      launchAfterSave, prog, active, webRunning>>
      BY <1>21 DEF MenuRefresh, RebootElapses, LauncherPolls, ActivateCart, progVars, netVars,
         queueVars, fileVars, metaVars, vars
    <2>2. pc' = pc \/ (pc = "idle" /\ pc' = "enter")
      BY <1>21 DEF MenuRefresh, RebootElapses, LauncherPolls, ActivateCart, vars
    <2>3. QED
      BY <2>1, <2>2
  <1>22. QED
    BY <1>1, <1>2, <1>17, <1>18, <1>19, <1>20, <1>21 DEF Next

(* Every kernel that is started with a file from the network, from the web  *)
(* browser or from an image file gets the bytes of that file (main() and    *)
(* KernelLaunchRun, kernel_menu.cpp:2401), however uploads, downloads, keys *)
(* and resets interleave, as long as nobody of those named above uses the   *)
(* buffer while it is needed.                                               *)
THEOREM LaunchedIsIntact == Spec /\ [][Undisturbed]_vars => []LaunchedIntact
  <1>1. Init => LaunchIInv
    <2>1. NoLaunch \notin Files
      BY FilesAssumption
    <2>2. QED
      BY <2>1, ConfigAssumption DEF Init, LaunchIInv, OneDownload, NameOfBytes, ChosenBytes,
         LaunchedIntact, Chosen, ToLaunch, Downloading
  <1>2. LaunchIInv /\ UNCHANGED vars => LaunchIInv'
    BY DEF LaunchIInv, OneDownload, NameOfBytes, ChosenBytes, LaunchedIntact, Chosen, ToLaunch,
       Downloading, vars, progVars, netVars, queueVars, metaVars, fileVars
  <1>3. TypeOK /\ LaunchIInv /\ [Next]_vars /\ [Undisturbed]_vars => LaunchIInv'
    BY <1>2, LaunchStep
  <1>4. LaunchIInv => LaunchedIntact
    BY DEF LaunchIInv
  <1>5. QED
    BY <1>1, <1>3, <1>4, TypeCorrect, PTL DEF Spec
----------------------------------------------------------------------------
(* Without a web server a file is either saved or launched: at the point    *)
(* where the download is looked at, the previous save is always done.       *)
NoWebFiles == Uploads = {} /\ ~PageRequests

EitherIInv == SaveOrLaunch /\ (pc = "finish" => ~saveQueued)

LEMMA EitherStep ==
  ASSUME NoWebFiles, TypeOK, EitherIInv, [Next]_vars
  PROVE  EitherIInv'
  <1> USE DEF NoWebFiles, EitherIInv, SaveOrLaunch
  <1>1. CASE MenuFrame
    <2>1. UNCHANGED <<saveQueued, ready>> /\ pc' = "enter"
      BY <1>1 DEF MenuFrame, HandleC64, KeyNone, QueueSktpKeypress, KeyScreen,
         KeySktp, KeyConnect, KeyWebserver, KeyPick, KeyLaunch, KeyExit
    <2>2. QED
      BY <2>1
  <1>2. CASE WebRequest \/ RebootElapses
    <2>1. UNCHANGED <<saveQueued, ready, pc>>
      BY <1>2 DEF WebRequest, OpenPage, RequestReboot, RebootElapses
    <2>2. QED
      BY <2>1
  <1>3. CASE LaunchCheck
    BY <1>3 DEF LaunchCheck, CleanupDownloadData
  <1>4. CASE SaveCheck
    BY <1>4 DEF SaveCheck, SaveDownload2SD
  <1>5. CASE NothingToSave
    BY <1>5 DEF NothingToSave
  <1>6. CASE FinishCheck
    BY <1>6 DEF FinishCheck, FinishedProgram, CleanupDownloadData
  <1>7. CASE NetStep /\ ~LaunchCheck /\ ~SaveCheck /\ ~NothingToSave /\ ~FinishCheck
    <2>1. UNCHANGED <<saveQueued, ready>> /\ pc' # "finish"
      BY <1>7 DEF NetStep, EnterQueue, YieldLoop, YieldReturns, CountDelay,
         QueuedInit, StartDownload, SendKey, Refresh, UpdateSktpScreenContent,
         NothingQueued, HttpAnswer, SessionAnswer, PageAnswer, DownloadAnswer,
         ExpiredAnswer, FileAnswer, UpdateEnds, AfterQueue, NothingFinished, Render,
         RenderPlain, RenderRefresh, RenderImageUrl, RenderImageBytes
    <2>2. QED
      BY <2>1
  <1>8. CASE \/ MenuRefresh \/ Start \/ LeaveByReset \/ LauncherReturns
             \/ LauncherPolls \/ ActivateCart \/ RebootMenu \/ UNCHANGED vars
    <2>1. UNCHANGED <<saveQueued, ready>> /\ pc' \in {pc, "enter"}
      BY <1>8 DEF MenuRefresh, Start, LeaveMenu, LeaveByReset, LauncherReturns,
         BackToMenu, LauncherPolls, ActivateCart, RebootMenu, vars
    <2>2. QED
      BY <2>1
  <1>9. QED
    BY <1>1, <1>2, <1>3, <1>4, <1>5, <1>6, <1>7, <1>8 DEF Next

(* With the web server unused, a download that is to be saved never meets  *)
(* one that is to be launched.                                             *)
THEOREM DownloadsSavedOrLaunched ==
  ASSUME NoWebFiles
  PROVE  Spec => []SaveOrLaunch
  <1>1. Init => EitherIInv
    BY DEF Init, EitherIInv, SaveOrLaunch
  <1>2. TypeOK /\ EitherIInv /\ [Next]_vars => EitherIInv'
    BY NoWebFiles, EitherStep
  <1>3. EitherIInv => SaveOrLaunch
    BY DEF EitherIInv
  <1>4. QED
    BY <1>1, <1>2, <1>3, TypeCorrect, PTL DEF Spec
============================================================================
