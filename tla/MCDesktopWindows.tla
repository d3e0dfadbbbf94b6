------------------------- MODULE MCDesktopWindows -------------------------
(***************************************************************************)
(* Small instances, for TLC, of what stands between the services and the   *)
(* user: the windows and panels, the settings files and the crash reports. *)
(* They share no state with each other or with the services, so they are   *)
(* taken in turn, one behaviour for the one in `focus'; their variables    *)
(* are then held in the same slots, v1 to v18, and a slot that the one in  *)
(* focus has no use for is Off.                                            *)
(***************************************************************************)
EXTENDS NodeLifecycle, Sequences, TLC

CONSTANTS
    Accounts, MaxLaunches, CutShort,
    Blocks, Secrets, Choices, Default,
    MaxCrumbs, MaxLen, MaxLines, MaxActs, MaxSaves, MaxConfirms, MaxLooks,
    MaxPanelCalls, MaxPins, MaxClicks, MaxChanges, MaxBalance, MaxPasses,
    MaxPresses

VARIABLES
    focus,
    v1, v2, v3, v4, v5, v6, v7, v8, v9, v10, v11, v12, v13, v14, v15, v16, v17,
    v18

\* The bounds are numbers, and None is neither one nor a name; a file of the log holds a line or
\* more, and the daemon may have had a pin before.
ASSUME WindowsAssumption ==
    /\ None \notin Nat /\ None \notin {"k1", "k2", "missing"}
    /\ MaxLaunches \in Nat \ {0} /\ MaxCrumbs \in Nat
    /\ MaxLen \in Nat \ {0} /\ MaxLines \in Nat
    /\ MaxActs \in Nat /\ MaxSaves \in Nat /\ MaxConfirms \in Nat
    /\ MaxLooks \in Nat /\ MaxPanelCalls \in Nat /\ MaxPins \in Nat \ {0}
    /\ MaxClicks \in Nat /\ MaxChanges \in Nat /\ MaxBalance \in Nat
    /\ MaxPasses \in Nat /\ MaxPresses \in Nat

Crash == INSTANCE CrashTelemetry WITH
    session <- v1, phase <- v2, marker <- v3, live <- v4, crumb <- v5,
    crumbs <- v6, records <- v7, fate <- v8, spoiled <- v9
Log == INSTANCE FileLog WITH
    current <- v1, rotated <- v2, handle <- v3, len <- v4, lines <- v5,
    step <- v6, unopened <- v7, NoFile <- None
Screen == INSTANCE WalletScreen WITH
    open <- v1, clock <- v2, onboarding <- v3, lockScreen <- v4, wizard <- v5,
    unlocking <- v6, lockedOut <- v7, task <- v8, ticker <- v9, posted <- v10,
    key <- v11, clipboard <- v12, keyTimers <- v13, clipTimers <- v14,
    acts <- v15, crossed <- v16, bypassed <- v17, unwiped <- v18
Conf == INSTANCE Settings WITH
    phase <- v1, config <- v2, file <- v3, keychain <- v4, saving <- v5,
    clicked <- v6, launches <- v7, entered <- v8, dropped <- v9,
    unsaved <- v10, cut <- v11, Names <- Secrets, Torn <- CutShort
Dialog == INSTANCE SendDialog WITH
    dialog <- v1, sending <- v2, hash <- v3, error <- v4, receipt <- v5,
    transfer <- v6, posted <- v7, confirms <- v8, mined <- v9, stale <- v10,
    beside <- v11
Dag == INSTANCE DagExplorer WITH
    shown <- v1, detail <- v2, rows <- v3, cache <- v4, drawer <- v5,
    look <- v6, posted <- v7, looks <- v8, crossed <- v9
Daemon == INSTANCE DaemonPanel WITH
    running <- v1, pins <- v2, online <- v3, pinCount <- v4, health <- v5,
    call <- v6, posted <- v7, calls <- v8, known <- v9, crossed <- v10,
    MaxCalls <- MaxPanelCalls
Chain == INSTANCE ChainPanel WITH
    paused <- v1, registered <- v2, pausedShown <- v3, registeredShown <- v4,
    connected <- v5, call <- v6, posted <- v7, calls <- v8, known <- v9,
    crossed <- v10, MaxCalls <- MaxPanelCalls
Model == INSTANCE ModelPanel WITH
    app <- v1, file <- v2, ollama <- v3, shown <- v4, used <- v5, task <- v6,
    posted <- v7, clicks <- v8, launches <- v9, torn <- v10, crossed <- v11,
    agreed <- v12
Compute == INSTANCE ComputeSettings WITH
    launched <- v1, panel <- v2, loaded <- v3, file <- v4, save <- v5,
    changes <- v6, launches <- v7, wished <- v8, early <- v9, lost <- v10,
    Schedules <- Choices, Always <- Default, Torn <- CutShort
Dash == INSTANCE Dashboard WITH
    balance <- v1, wallet <- v2, baseline <- v3, reading <- v4, posted <- v5,
    view <- v6, passes <- v7, received <- v8, chosen <- v9
Busy == INSTANCE BusySigns WITH
    page <- v1, step <- v2, ready <- v3, running <- v4, sign <- v5,
    linked <- v6, linkFile <- v7, under <- v8, posted <- v9, presses <- v10,
    launches <- v11, twice <- v12
\* The host's tokens and their file, with what is proved of them for any host.
Vault == INSTANCE McpHostProofs WITH
    call <- v1, grants <- v2, owners <- v3, tokens <- v4, lapsed <- v5,
    disk <- v6, plain <- v7, saving <- v8, restarts <- v9, answered <- v10,
    raced <- v11, issued <- v12, unsaved <- v13,
    Calls <- {"call"}, Grants <- {"g1"}, Tokens <- {"k1", "k2"},
    Missing <- "missing", NoGrant <- "no grant",
    Ceiling <- [k \in {"k1", "k2"} |-> 0], MaxPolicy <- 0, MaxTotal <- 1,
    MaxTokenless <- 1, Storage <- TRUE, MaxRestarts <- 2

\* What a file holds is neither no file nor a file cut short.
ASSUME FilesAssumption ==
    /\ None # CutShort /\ Default \in Choices
    /\ \A file \in SUBSET (1..MaxLines) : file # None
    /\ None \notin Conf!Config /\ CutShort \notin Conf!Config
    /\ None \notin Compute!Settings /\ CutShort \notin Compute!Settings

Off == <<>>

Windows ==
    {"crash", "log", "screen", "settings", "send", "dag", "daemon", "chain",
     "model", "compute", "dash", "busy", "vault"}

Slots == <<v1, v2, v3, v4, v5, v6, v7, v8, v9, v10, v11, v12, v13, v14, v15,
           v16, v17, v18>>

\* What is past the slots of a window is off.
Past7 == <<v8, v9, v10, v11, v12, v13, v14, v15, v16, v17, v18>>
Past9 == <<v10, v11, v12, v13, v14, v15, v16, v17, v18>>
Past10 == <<v11, v12, v13, v14, v15, v16, v17, v18>>
Past11 == <<v12, v13, v14, v15, v16, v17, v18>>
Past12 == <<v13, v14, v15, v16, v17, v18>>
Past13 == <<v14, v15, v16, v17, v18>>

Off13 == v14 = Off /\ v15 = Off /\ v16 = Off /\ v17 = Off /\ v18 = Off
Off12 == v13 = Off /\ Off13
Off11 == v12 = Off /\ Off12
Off10 == v11 = Off /\ Off11
Off9 == v10 = Off /\ Off10
Off7 == v8 = Off /\ v9 = Off /\ Off9

WindowsInit ==
    CASE focus \notin Windows -> v1 = Off /\ v2 = Off /\ v3 = Off /\ v4 = Off
                                    /\ v5 = Off /\ v6 = Off /\ v7 = Off /\ Off7
         [] focus = "crash" -> Crash!Init /\ Off9
         [] focus = "log" -> Log!Init /\ Off7
         [] focus = "screen" -> Screen!Init
         [] focus = "settings" -> Conf!Init /\ Off11
         [] focus = "send" -> Dialog!Init /\ Off11
         [] focus = "dag" -> Dag!Init /\ Off9
         [] focus = "daemon" -> Daemon!Init /\ Off10
         [] focus = "chain" -> Chain!Init /\ Off10
         [] focus = "model" -> Model!Init /\ Off12
         [] focus = "compute" -> Compute!Init /\ Off10
         [] focus = "dash" -> Dash!Init /\ Off9
         [] focus = "busy" -> Busy!Init /\ Off12
         [] focus = "vault" -> Vault!Init /\ Off13

WindowsNext ==
    CASE focus \notin Windows -> UNCHANGED Slots
         [] focus = "crash" -> Crash!Next /\ UNCHANGED Past9
         [] focus = "log" -> Log!Next /\ UNCHANGED Past7
         [] focus = "screen" -> Screen!Next
         [] focus = "settings" -> Conf!Next /\ UNCHANGED Past11
         [] focus = "send" -> Dialog!Next /\ UNCHANGED Past11
         [] focus = "dag" -> Dag!Next /\ UNCHANGED Past9
         [] focus = "daemon" -> Daemon!Next /\ UNCHANGED Past10
         [] focus = "chain" -> Chain!Next /\ UNCHANGED Past10
         [] focus = "model" -> Model!Next /\ UNCHANGED Past12
         [] focus = "compute" -> Compute!Next /\ UNCHANGED Past10
         [] focus = "dash" -> Dash!Next /\ UNCHANGED Past9
         [] focus = "busy" -> Busy!Next /\ UNCHANGED Past12
         [] focus = "vault" -> Vault!Next /\ UNCHANGED Past13

WindowsTypeOK ==
    /\ focus = "crash" => Crash!TypeOK
    /\ focus = "log" => Log!TypeOK
    /\ focus = "screen" => Screen!TypeOK
    /\ focus = "settings" => Conf!TypeOK
    /\ focus = "send" => Dialog!TypeOK
    /\ focus = "dag" => Dag!TypeOK
    /\ focus = "daemon" => Daemon!TypeOK
    /\ focus = "chain" => Chain!TypeOK
    /\ focus = "model" => Model!TypeOK
    /\ focus = "compute" => Compute!TypeOK
    /\ focus = "dash" => Dash!TypeOK
    /\ focus = "busy" => Busy!TypeOK
    /\ focus = "vault" => Vault!TypeOK

\* What the modules say of themselves, of the one in focus.
DeathsReported == focus = "crash" => Crash!DeathsReported
NewestKept == focus = "log" => Log!NewestKept
ClosedIsShown == focus = "screen" => Screen!ClosedIsShown
SecretsExpire == focus = "screen" => Screen!SecretsExpire
SettingsKept == focus = "settings" => Conf!SettingsKept
OneSend == focus = "send" => Dialog!OneSend
RowsOfDetail == focus = "dag" => Dag!RowsOfDetail
DaemonShown == focus = "daemon" => Daemon!DaemonShown
ChainShown == focus = "chain" => Chain!ChainShown
ModelShown == focus = "model" => Model!ModelShown
OptInKept == focus = "compute" => Compute!OptInKept
EarnedCameIn == focus = "dash" => Dash!EarnedCameIn
SignsTrue == focus = "busy" => Busy!SignsTrue

\* Every session that did not end well leaves its report, and the log its
\* newest lines.
ForensicsKept == DeathsReported /\ NewestKept

\* Once nothing is under way, every panel shows what is so, or has been said
\* to be so, with the exceptions its module names.
ViewsSettle ==
    RowsOfDetail /\ DaemonShown /\ ChainShown /\ ModelShown /\ OptInKept
        /\ EarnedCameIn /\ SignsTrue
=============================================================================
