------------------------- MODULE DesktopWindowsProofs -------------------------
(***************************************************************************)
(* What MCDesktopServices checks of the wallet's screens, the send dialog, *)
(* the crash reports and the settings, for every value of the constants.   *)
(* Each window has an inductive invariant, IInv, at the end of its module; *)
(* a window's variables are held in the slots v1 to v18, and the head of   *)
(* each section says which.                                                *)
(***************************************************************************)
EXTENDS MCDesktopServices, FiniteSetTheorems, TLAPS

\* The window in focus starts, and takes its steps, as its module says.
LEMMA WindowInits ==
    ASSUME ServicesInit
    PROVE  /\ focus = "crash" => Crash!Init
           /\ focus = "log" => Log!Init
           /\ focus = "screen" => Screen!Init
           /\ focus = "settings" => Conf!Init
           /\ focus = "send" => Dialog!Init
           /\ focus = "dag" => Dag!Init
           /\ focus = "daemon" => Daemon!Init
           /\ focus = "chain" => Chain!Init
           /\ focus = "model" => Model!Init
           /\ focus = "compute" => Compute!Init
           /\ focus = "dash" => Dash!Init
           /\ focus = "busy" => Busy!Init
           /\ focus = "vault" => Vault!Init
BY DEF ServicesInit, WindowsInit, Windows

LEMMA WindowSteps ==
    ASSUME ServicesNext
    PROVE  /\ focus' = focus
           /\ focus = "crash" => Crash!Next
           /\ focus = "log" => Log!Next
           /\ focus = "screen" => Screen!Next
           /\ focus = "settings" => Conf!Next
           /\ focus = "send" => Dialog!Next
           /\ focus = "dag" => Dag!Next
           /\ focus = "daemon" => Daemon!Next
           /\ focus = "chain" => Chain!Next
           /\ focus = "model" => Model!Next
           /\ focus = "compute" => Compute!Next
           /\ focus = "dash" => Dash!Next
           /\ focus = "busy" => Busy!Next
           /\ focus = "vault" => Vault!Next
BY DEF ServicesNext, WindowsNext, Windows

LEMMA WindowStutters ==
    UNCHANGED serviceVars => UNCHANGED <<focus, Slots>>
BY DEF serviceVars

-----------------------------------------------------------------------------
(* WalletScreen                                                            *)
(* Slots: v1 is open, v2 clock, v3 onboarding, v4 lockScreen, v5 wizard,   *)
(* v6 unlocking, v7 lockedOut, v8 task, v9 ticker, v10 posted, v11 key,    *)
(* v12 clipboard, v13 keyTimers, v14 clipTimers, v15 acts, v16 crossed,    *)
(* v17 bypassed, v18 unwiped.                                              *)

\* What the closures posted for the UI thread will show.
ScreenPosted == {v10[i].show : i \in DOMAIN v10}

LEMMA ScreenClosures ==
    \A what : Screen!Posted(what) <=> \E s \in ScreenPosted : s \in what
BY DEF Screen!Posted, ScreenPosted

LEMMA ScreenClosuresAfter ==
    \A what : Screen!Posted(what)' <=> \E s \in ScreenPosted' : s \in what
BY DEF Screen!Posted, ScreenPosted

LEMMA ScreenAppends ==
    ASSUME NEW T, v10 \in Seq(T), NEW r \in T, v10' = Append(v10, r)
    PROVE  v10' \in Seq(T) /\ ScreenPosted' = ScreenPosted \cup {r.show}
<1>1. /\ v10' \in Seq(T) /\ DOMAIN v10 = 1..Len(v10)
      /\ DOMAIN v10' = 1..(Len(v10) + 1) /\ Len(v10) \in Nat
      /\ \A i \in 1..Len(v10) : v10'[i] = v10[i]
      /\ v10'[Len(v10) + 1] = r
  OBVIOUS
<1>2. DOMAIN v10' = DOMAIN v10 \cup {Len(v10) + 1}
  BY <1>1
<1> QED BY <1>1, <1>2 DEF ScreenPosted

LEMMA ScreenTakes ==
    ASSUME NEW T, v10 \in Seq(T), v10 # <<>>, v10' = Tail(v10)
    PROVE  /\ v10' \in Seq(T) /\ Head(v10) \in T
           /\ ScreenPosted = ScreenPosted' \cup {Head(v10).show}
<1>1. /\ v10' \in Seq(T) /\ Head(v10) = v10[1] /\ Head(v10) \in T
      /\ Len(v10) \in Nat /\ Len(v10) >= 1 /\ DOMAIN v10 = 1..Len(v10)
      /\ DOMAIN v10' = 1..(Len(v10) - 1)
      /\ \A i \in 1..(Len(v10) - 1) : v10'[i] = v10[i + 1]
  OBVIOUS
<1>2. \A s \in ScreenPosted' : s \in ScreenPosted
  BY <1>1 DEF ScreenPosted
<1>3. Head(v10).show \in ScreenPosted
  BY <1>1 DEF ScreenPosted
<1>4. ASSUME NEW i \in DOMAIN v10
      PROVE  v10[i].show \in ScreenPosted' \cup {Head(v10).show}
  <2>1. CASE i = 1
    BY <1>1, <2>1
  <2>2. CASE i # 1
    <3>1. i - 1 \in DOMAIN v10' /\ v10'[i - 1] = v10[i]
      BY <1>1, <2>2
    <3> QED BY <3>1 DEF ScreenPosted
  <2> QED BY <2>1, <2>2
<1> QED BY <1>2, <1>3, <1>4 DEF ScreenPosted

ScreenTasks == Screen!TaskType \cup {Screen!Idle}

\* The task moves on to a point, or is done; the others stay where they are.
LEMMA ScreenGoes ==
    ASSUME Screen!TypeOK, NEW t \in Tasks, v8[t].op \in Screen!Ops,
           NEW at \in {"opened", "timed", "cleared", "locked"},
           Screen!Goes(t, at)
    PROVE  /\ v8' \in [Tasks -> ScreenTasks]
           /\ v8'[t].op = v8[t].op /\ v8'[t].at = at
           /\ \A u \in Tasks : u # t => v8'[u] = v8[u]
<1>1. v8 \in [Tasks -> ScreenTasks]
  BY DEF Screen!TypeOK, ScreenTasks
<1>2. v8' = [v8 EXCEPT ![t] = [v8[t] EXCEPT !.at = at]]
  BY DEF Screen!Goes
<1>3. v8[t] \in Screen!TaskType
  BY <1>1 DEF ScreenTasks, Screen!Idle, Screen!Ops, Screen!Opening, Screen!Closing
<1>4. [v8[t] EXCEPT !.at = at] =
        [op |-> v8[t].op, at |-> at, account |-> v8[t].account]
  BY <1>3 DEF Screen!TaskType
<1>5. [op |-> v8[t].op, at |-> at, account |-> v8[t].account] \in Screen!TaskType
  BY <1>3 DEF Screen!TaskType
<1> QED BY <1>1, <1>2, <1>4, <1>5 DEF ScreenTasks

LEMMA ScreenEnds ==
    ASSUME Screen!TypeOK, NEW t \in Tasks, Screen!Ends(t)
    PROVE  /\ v8' \in [Tasks -> ScreenTasks]
           /\ v8'[t].op = "none" /\ v8'[t].at = "idle"
           /\ \A u \in Tasks : u # t => v8'[u] = v8[u]
BY DEF Screen!TypeOK, ScreenTasks, Screen!Ends, Screen!Idle

LEMMA ScreenPosts ==
    ASSUME Screen!TypeOK, NEW show, NEW a \in Accounts \cup {None},
           show \in {"main", "refused", "locked-out", "phrase", "lock",
                     "onboarding", "reset", "key", "no-key"},
           Screen!Post(show, a)
    PROVE  /\ v10' \in Seq(Screen!ClosureType)
           /\ ScreenPosted' = ScreenPosted \cup {show}
<1>1. [show |-> show, account |-> a] \in Screen!ClosureType
  BY DEF Screen!ClosureType
<1> QED BY <1>1, ScreenAppends DEF Screen!Post, Screen!TypeOK

\* What the two invariants are about; the clicks, fields and secrets are not.
ScreenOrder ==
    /\ ~v16 => Screen!InTurn
    /\ ~v16 /\ ~v17 => Screen!Shown

\* A click spawns a task: a new account's only in the main view.
LEMMA ScreenSpawns ==
    ASSUME Screen!IInv, NEW t \in Tasks, NEW op \in Screen!Ops,
           NEW a \in Accounts \cup {None}, Screen!Spawn(t, op, a),
           op = "account" => Screen!MainView
    PROVE  v8' \in [Tasks -> ScreenTasks] /\ ScreenOrder'
<1> DEFINE new == [op |-> op, at |-> "begun", account |-> a]
<1>1. /\ new \in ScreenTasks /\ new.op = op /\ new.at = "begun"
      /\ v8 \in [Tasks -> ScreenTasks]
  BY DEF ScreenTasks, Screen!TaskType, Screen!IInv, Screen!TypeOK
<1>2. v8' = [v8 EXCEPT ![t] = new] /\ v8[t] = Screen!Idle
  BY DEF Screen!Spawn
<1> HIDE DEF new
<1>3. /\ v8' \in [Tasks -> ScreenTasks] /\ v8'[t].op = op /\ v8'[t].at = "begun"
      /\ \A u \in Tasks : u # t => v8'[u] = v8[u]
  BY <1>1, <1>2
<1>4. ScreenPosted' = ScreenPosted
  BY DEF Screen!Spawn, ScreenPosted
<1> USE ScreenClosures, ScreenClosuresAfter DEF Screen!Ops, Screen!Spawn,
        Screen!InTurn, Screen!IsOpening, Screen!IsClosing, Screen!InFlight,
        Screen!Cleared, Screen!Opening, Screen!Closing, Screen!Running
<1>5. ASSUME ~v16' PROVE ~v16 /\ Screen!InTurn'
  BY <1>3, <1>4, <1>5 DEF Screen!IInv
<1>6. ASSUME ~v16', ~v17' PROVE Screen!Shown'
  BY <1>2, <1>3, <1>4, <1>5, <1>6
  DEF Screen!IInv, Screen!Shown, Screen!Accounted, Screen!MainView, Screen!Idle
<1> QED BY <1>3, <1>5, <1>6 DEF ScreenOrder

\* What a step leaves when it has moved tasks and posted closures.
ScreenMoved ==
    /\ v8' \in [Tasks -> ScreenTasks] /\ v10' \in Seq(Screen!ClosureType)
    /\ ScreenOrder'

LEMMA ScreenOpens ==
    ASSUME Screen!IInv, NEW t \in Tasks, Screen!WalletOpens(t)
    PROVE  ScreenMoved
<1>1. Screen!TypeOK /\ v8[t].op \in Screen!Ops
  BY DEF Screen!IInv, Screen!WalletOpens, Screen!Running, Screen!Ops
<1> USE ScreenClosures, ScreenClosuresAfter DEF Screen!IInv, Screen!WalletOpens,
        Screen!InTurn, Screen!Shown, Screen!IsOpening,
        Screen!IsClosing, Screen!InFlight, Screen!Cleared, Screen!Accounted,
        Screen!MainView, Screen!Opening, Screen!Closing, Screen!Running
<1>2. CASE v1' = TRUE /\ Screen!Goes(t, "opened") /\ UNCHANGED v10
  <2>1. /\ v8' \in [Tasks -> ScreenTasks]
        /\ v8'[t].op = v8[t].op /\ v8'[t].at = "opened"
        /\ \A u \in Tasks : u # t => v8'[u] = v8[u]
    BY <1>1, <1>2, ScreenGoes
  <2>2. ScreenPosted' = ScreenPosted /\ v10' \in Seq(Screen!ClosureType)
    BY <1>1, <1>2 DEF ScreenPosted, Screen!TypeOK
  <2>3. ASSUME ~v16' PROVE Screen!InTurn'
    BY <1>2, <2>1, <2>2, <2>3
  <2>4. ASSUME ~v16', ~v17' PROVE Screen!Shown'
    BY <1>2, <2>1, <2>2, <2>4
  <2> QED BY <2>1, <2>2, <2>3, <2>4 DEF ScreenOrder, ScreenMoved
<1>3. CASE /\ Screen!Ends(t) /\ UNCHANGED v1
           /\ IF v8[t].op = "unlock"
              THEN Screen!Post("refused", None) \/ Screen!Post("locked-out", None)
              ELSE UNCHANGED v10
  <2>1. /\ v8' \in [Tasks -> ScreenTasks]
        /\ v8'[t].op = "none" /\ v8'[t].at = "idle"
        /\ \A u \in Tasks : u # t => v8'[u] = v8[u]
    BY <1>1, <1>3, ScreenEnds
  <2>2. /\ v10' \in Seq(Screen!ClosureType)
        /\ \A show \in ScreenPosted' :
             show \in ScreenPosted \cup {"refused", "locked-out"}
        /\ \A show \in ScreenPosted : show \in ScreenPosted'
    <3>1. CASE UNCHANGED v10
      BY <1>1, <3>1 DEF ScreenPosted, Screen!TypeOK
    <3>2. CASE Screen!Post("refused", None) \/ Screen!Post("locked-out", None)
      BY <1>1, <3>2, ScreenPosts
    <3> QED BY <1>3, <3>1, <3>2
  <2>3. ASSUME ~v16' PROVE Screen!InTurn'
    BY <1>3, <2>1, <2>2, <2>3
  <2>4. ASSUME ~v16', ~v17' PROVE Screen!Shown'
    BY <1>3, <2>1, <2>2, <2>4
  <2> QED BY <2>1, <2>2, <2>3, <2>4 DEF ScreenOrder, ScreenMoved
<1> QED BY <1>2, <1>3

LEMMA ScreenStarts ==
    ASSUME Screen!IInv, NEW t \in Tasks, Screen!StartsClock(t)
    PROVE  ScreenMoved
<1>1. Screen!TypeOK /\ v8[t].op \in Screen!Ops /\ Screen!Goes(t, "timed")
  BY DEF Screen!IInv, Screen!StartsClock, Screen!Running, Screen!Ops
<1>2. /\ v8' \in [Tasks -> ScreenTasks]
      /\ v8'[t].op = v8[t].op /\ v8'[t].at = "timed"
      /\ \A u \in Tasks : u # t => v8'[u] = v8[u]
  BY <1>1, ScreenGoes
<1>3. ScreenPosted' = ScreenPosted /\ v10' \in Seq(Screen!ClosureType)
  BY <1>1 DEF ScreenPosted, Screen!TypeOK, Screen!StartsClock
<1> USE ScreenClosures, ScreenClosuresAfter DEF Screen!IInv, Screen!StartsClock,
        Screen!InTurn, Screen!Shown, Screen!IsOpening,
        Screen!IsClosing, Screen!InFlight, Screen!Cleared, Screen!Accounted,
        Screen!MainView, Screen!Opening, Screen!Closing, Screen!Running
<1>4. ASSUME ~v16' PROVE Screen!InTurn'
  BY <1>2, <1>3, <1>4
<1>5. ASSUME ~v16', ~v17' PROVE Screen!Shown'
  BY <1>2, <1>3, <1>5
<1> QED BY <1>2, <1>3, <1>4, <1>5 DEF ScreenOrder, ScreenMoved

LEMMA ScreenClears ==
    ASSUME Screen!IInv, NEW t \in Tasks, Screen!ClearsClock(t)
    PROVE  ScreenMoved
<1>1. Screen!TypeOK /\ v8[t].op \in Screen!Ops /\ Screen!Goes(t, "cleared")
  BY DEF Screen!IInv, Screen!ClearsClock, Screen!Running, Screen!Ops
<1>2. /\ v8' \in [Tasks -> ScreenTasks]
      /\ v8'[t].op = v8[t].op /\ v8'[t].at = "cleared"
      /\ \A u \in Tasks : u # t => v8'[u] = v8[u]
  BY <1>1, ScreenGoes
<1>3. ScreenPosted' = ScreenPosted /\ v10' \in Seq(Screen!ClosureType)
  BY <1>1 DEF ScreenPosted, Screen!TypeOK, Screen!ClearsClock
<1> USE ScreenClosures, ScreenClosuresAfter DEF Screen!IInv, Screen!ClearsClock,
        Screen!InTurn, Screen!Shown, Screen!IsOpening,
        Screen!IsClosing, Screen!InFlight, Screen!Cleared, Screen!Accounted,
        Screen!MainView, Screen!Opening, Screen!Closing, Screen!Running
<1>4. ASSUME ~v16' PROVE Screen!InTurn'
  BY <1>2, <1>3, <1>4
<1>5. ASSUME ~v16', ~v17' PROVE Screen!Shown'
  BY <1>2, <1>3, <1>5
<1> QED BY <1>2, <1>3, <1>4, <1>5 DEF ScreenOrder, ScreenMoved

LEMMA ScreenLocks ==
    ASSUME Screen!IInv, NEW t \in Tasks, Screen!WalletLocks(t)
    PROVE  ScreenMoved
<1>1. Screen!TypeOK /\ v8[t].op \in Screen!Ops /\ Screen!Goes(t, "locked")
  BY DEF Screen!IInv, Screen!WalletLocks, Screen!Running, Screen!Ops
<1>2. /\ v8' \in [Tasks -> ScreenTasks]
      /\ v8'[t].op = v8[t].op /\ v8'[t].at = "locked"
      /\ \A u \in Tasks : u # t => v8'[u] = v8[u]
  BY <1>1, ScreenGoes
<1>3. ScreenPosted' = ScreenPosted /\ v10' \in Seq(Screen!ClosureType)
  BY <1>1 DEF ScreenPosted, Screen!TypeOK, Screen!WalletLocks
<1> USE ScreenClosures, ScreenClosuresAfter DEF Screen!IInv, Screen!WalletLocks,
        Screen!InTurn, Screen!Shown, Screen!IsOpening,
        Screen!IsClosing, Screen!InFlight, Screen!Cleared, Screen!Accounted,
        Screen!MainView, Screen!Opening, Screen!Closing, Screen!Running
<1>4. ASSUME ~v16' PROVE Screen!InTurn'
  BY <1>2, <1>3, <1>4
<1>5. ASSUME ~v16', ~v17' PROVE Screen!Shown'
  BY <1>2, <1>3, <1>5
<1> QED BY <1>2, <1>3, <1>4, <1>5 DEF ScreenOrder, ScreenMoved

LEMMA ScreenPostsOpened ==
    ASSUME Screen!IInv, NEW t \in Tasks, Screen!PostsOpened(t)
    PROVE  ScreenMoved
<1>1. Screen!TypeOK /\ Screen!Ends(t)
  BY DEF Screen!IInv, Screen!PostsOpened
<1>2. /\ v8' \in [Tasks -> ScreenTasks]
      /\ v8'[t].op = "none" /\ v8'[t].at = "idle"
      /\ \A u \in Tasks : u # t => v8'[u] = v8[u]
  BY <1>1, ScreenEnds
<1>3. /\ v10' \in Seq(Screen!ClosureType)
      /\ ScreenPosted' = ScreenPosted \cup
           (CASE v8[t].op = "unlock" -> {"main"}
              [] v8[t].op = "create" -> {"phrase"}
              [] OTHER -> {})
  <2>1. CASE v8[t].op \in {"unlock", "create"}
    BY <1>1, <2>1, ScreenPosts DEF Screen!PostsOpened
  <2>2. CASE v8[t].op \notin {"unlock", "create"}
    BY <1>1, <2>2 DEF Screen!PostsOpened, Screen!TypeOK, ScreenPosted
  <2> QED BY <2>1, <2>2
<1> USE ScreenClosures, ScreenClosuresAfter DEF Screen!IInv, Screen!PostsOpened,
        Screen!sessionVars, Screen!InTurn, Screen!Shown, Screen!IsOpening,
        Screen!IsClosing, Screen!InFlight, Screen!Cleared, Screen!Accounted,
        Screen!MainView, Screen!Opening, Screen!Closing, Screen!Running
<1>4. ASSUME ~v16' PROVE Screen!InTurn'
  BY <1>2, <1>3, <1>4
<1>5. ASSUME ~v16', ~v17' PROVE Screen!Shown'
  BY <1>2, <1>3, <1>5
<1> QED BY <1>2, <1>3, <1>4, <1>5 DEF ScreenOrder, ScreenMoved

LEMMA ScreenPostsClosed ==
    ASSUME Screen!IInv, NEW t \in Tasks, Screen!PostsClosed(t)
    PROVE  ScreenMoved
<1>1. Screen!TypeOK /\ Screen!Ends(t)
  BY DEF Screen!IInv, Screen!PostsClosed
<1>2. /\ v8' \in [Tasks -> ScreenTasks]
      /\ v8'[t].op = "none" /\ v8'[t].at = "idle"
      /\ \A u \in Tasks : u # t => v8'[u] = v8[u]
  BY <1>1, ScreenEnds
<1>3. /\ v10' \in Seq(Screen!ClosureType)
      /\ ScreenPosted' = ScreenPosted \cup
           (IF v8[t].op = "lock" THEN {"lock"} ELSE {"onboarding"})
  BY <1>1, ScreenPosts DEF Screen!PostsClosed
<1> USE ScreenClosures, ScreenClosuresAfter DEF Screen!IInv, Screen!PostsClosed,
        Screen!sessionVars, Screen!InTurn, Screen!Shown, Screen!IsOpening,
        Screen!IsClosing, Screen!InFlight, Screen!Cleared, Screen!Accounted,
        Screen!MainView, Screen!Opening, Screen!Closing, Screen!Running
<1>4. ASSUME ~v16' PROVE Screen!InTurn'
  BY <1>2, <1>3, <1>4
<1>5. ASSUME ~v16', ~v17' PROVE Screen!Shown'
  BY <1>2, <1>3, <1>5
<1> QED BY <1>2, <1>3, <1>4, <1>5 DEF ScreenOrder, ScreenMoved

LEMMA ScreenExported ==
    ASSUME Screen!IInv, NEW t \in Tasks, Screen!Exported(t)
    PROVE  ScreenMoved
<1>1. Screen!TypeOK /\ Screen!Ends(t)
  BY DEF Screen!IInv, Screen!Exported
<1>2. /\ v8' \in [Tasks -> ScreenTasks]
      /\ v8'[t].op = "none" /\ v8'[t].at = "idle"
      /\ \A u \in Tasks : u # t => v8'[u] = v8[u]
  BY <1>1, ScreenEnds
<1>3. /\ v10' \in Seq(Screen!ClosureType)
      /\ \E show \in {"key", "no-key"} : ScreenPosted' = ScreenPosted \cup {show}
  <2>1. v8[t].account \in Accounts \cup {None}
    BY <1>1 DEF Screen!Exported, Screen!Running, Screen!TypeOK,
                Screen!TaskType, Screen!Idle
  <2> QED BY <1>1, <2>1, ScreenPosts DEF Screen!Exported
<1> USE ScreenClosures, ScreenClosuresAfter DEF Screen!IInv, Screen!Exported,
        Screen!sessionVars, Screen!InTurn, Screen!Shown, Screen!IsOpening,
        Screen!IsClosing, Screen!InFlight, Screen!Cleared, Screen!Accounted,
        Screen!MainView, Screen!Opening, Screen!Closing, Screen!Running
<1>4. ASSUME ~v16' PROVE Screen!InTurn'
  BY <1>2, <1>3, <1>4
<1>5. ASSUME ~v16', ~v17' PROVE Screen!Shown'
  BY <1>2, <1>3, <1>5
<1> QED BY <1>2, <1>3, <1>4, <1>5 DEF ScreenOrder, ScreenMoved

LEMMA ScreenTicks ==
    ASSUME Screen!IInv,
           Screen!HourPasses \/ Screen!TickReads \/ Screen!TickClears
             \/ Screen!TickLocks
    PROVE  ScreenOrder'
<1>1. ScreenPosted' = ScreenPosted /\ v8' = v8
  BY DEF ScreenPosted, Screen!HourPasses, Screen!TickReads, Screen!TickClears,
         Screen!TickLocks
<1> USE ScreenClosures, ScreenClosuresAfter
    DEF Screen!IInv, Screen!InTurn, Screen!Shown, Screen!IsOpening,
        Screen!IsClosing, Screen!InFlight, Screen!Cleared, Screen!Accounted,
        Screen!MainView, Screen!Opening, Screen!Closing, Screen!Running
<1>2. CASE Screen!HourPasses
  BY <1>1, <1>2 DEF Screen!HourPasses, ScreenOrder
<1>3. CASE Screen!TickReads
  BY <1>1, <1>3 DEF Screen!TickReads, ScreenOrder
<1>4. CASE Screen!TickClears
  BY <1>1, <1>4 DEF Screen!TickClears, ScreenOrder
<1>5. CASE Screen!TickLocks
  BY <1>1, <1>5 DEF Screen!TickLocks, ScreenOrder
<1> QED BY <1>2, <1>3, <1>4, <1>5

LEMMA ScreenTickPosts ==
    ASSUME Screen!IInv, Screen!TickPosts
    PROVE  v10' \in Seq(Screen!ClosureType) /\ ScreenOrder'
<1>1. /\ ScreenPosted' = ScreenPosted \cup {"lock"} /\ v8' = v8
      /\ v10' \in Seq(Screen!ClosureType)
  BY ScreenPosts DEF Screen!TickPosts, Screen!IInv
<1> USE ScreenClosures, ScreenClosuresAfter
    DEF Screen!IInv, Screen!InTurn, Screen!Shown, Screen!IsOpening,
        Screen!IsClosing, Screen!InFlight, Screen!Cleared, Screen!Accounted,
        Screen!MainView, Screen!Opening, Screen!Closing, Screen!Running
<1>2. ScreenOrder'
  BY <1>1 DEF Screen!TickPosts, ScreenOrder
<1> QED BY <1>1, <1>2

\* The UI thread runs a closure: every secret and every wizard's step aside.
LEMMA ScreenShows ==
    ASSUME Screen!IInv, NEW what, Screen!Shows(what)
    PROVE  /\ v10' \in Seq(Screen!ClosureType)
           /\ Head(v10) \in Screen!ClosureType
           /\ Head(v10).show \in what
           /\ ScreenPosted = ScreenPosted' \cup {Head(v10).show}
<1>1. v10 \in Seq(Screen!ClosureType)
  BY DEF Screen!IInv, Screen!TypeOK
<1> QED BY <1>1, ScreenTakes DEF Screen!Shows

LEMMA ScreenShowsSession ==
    ASSUME Screen!IInv, Screen!UiShowsSession
    PROVE  v10' \in Seq(Screen!ClosureType) /\ ScreenOrder'
<1> DEFINE show == Head(v10).show
<1>1. /\ v10' \in Seq(Screen!ClosureType)
      /\ ScreenPosted = ScreenPosted' \cup {show}
      /\ v4' = IF show \in {"main", "onboarding"} THEN FALSE
               ELSE (show = "lock" \/ v4)
      /\ v3' = (show \in {"onboarding", "reset"} \/ v3)
      /\ UNCHANGED <<v1, v2, v8, v9, v16, v17>>
  BY ScreenShows DEF Screen!UiShowsSession
<1> HIDE DEF show
<1> USE ScreenClosures, ScreenClosuresAfter
    DEF Screen!IInv, Screen!InTurn, Screen!Shown, Screen!IsOpening,
        Screen!IsClosing, Screen!InFlight, Screen!Cleared, Screen!Accounted,
        Screen!MainView, Screen!Opening, Screen!Closing, Screen!Running
<1>2. ScreenOrder'
  BY <1>1 DEF ScreenOrder
<1> QED BY <1>1, <1>2

\* Neither the session nor its tasks are touched, no closure that shows a
\* session is run or posted, and the main view is not entered.
ScreenAside ==
    /\ UNCHANGED <<v1, v2, v8, v9, v16, v17>>
    /\ \A show \in {"main", "phrase", "lock", "onboarding"} :
         show \in ScreenPosted' <=> show \in ScreenPosted
    /\ Screen!MainView' => Screen!MainView

LEMMA ScreenStays ==
    ASSUME Screen!IInv, ScreenAside
    PROVE  ScreenOrder'
<1> USE ScreenClosures, ScreenClosuresAfter
    DEF Screen!IInv, ScreenAside, Screen!InTurn, Screen!Shown,
    Screen!IsOpening,
        Screen!IsClosing, Screen!InFlight, Screen!Cleared, Screen!Accounted,
        Screen!MainView, Screen!Opening, Screen!Closing, Screen!Running
<1>1. ASSUME ~v16' PROVE Screen!InTurn'
  BY <1>1
<1>2. ASSUME ~v16', ~v17' PROVE Screen!Shown'
  BY <1>2
<1> QED BY <1>1, <1>2 DEF ScreenOrder

LEMMA ScreenCompletes ==
    ASSUME Screen!IInv, Screen!OnboardingComplete
    PROVE  ScreenOrder'
<1>1. ScreenPosted' = ScreenPosted
  BY DEF Screen!OnboardingComplete, ScreenPosted
<1> USE ScreenClosures, ScreenClosuresAfter DEF Screen!IInv,
        Screen!OnboardingComplete, Screen!InTurn, Screen!Shown, Screen!IsOpening,
        Screen!IsClosing, Screen!InFlight, Screen!Cleared, Screen!Accounted,
        Screen!MainView, Screen!Opening, Screen!Closing, Screen!Running
<1>2. ScreenOrder'
  BY <1>1 DEF ScreenOrder
<1> QED BY <1>2

\* What clicks, timers and the closures of an export do.
ScreenClicks ==
    \/ Screen!UnlockClicked \/ Screen!VerifyWord \/ Screen!ClearExport
    \/ Screen!CopyMnemonic \/ Screen!CopyToClipboard \/ Screen!ClipboardTimer
    \/ \E a \in Accounts : Screen!KeyTimer(a)

LEMMA ScreenClicked ==
    ASSUME Screen!IInv, ScreenClicks
    PROVE  v10' = v10 /\ ScreenOrder'
<1>1. UNCHANGED <<v1, v2, v8, v9, v10, v16, v17>>
  BY DEF ScreenClicks, Screen!UnlockClicked, Screen!VerifyWord,
         Screen!ClearExport, Screen!CopyMnemonic, Screen!CopyToClipboard,
         Screen!ClipboardTimer, Screen!KeyTimer, Screen!sessionVars
<1>2. Screen!MainView' => Screen!MainView
  BY DEF ScreenClicks, Screen!UnlockClicked, Screen!VerifyWord,
         Screen!ClearExport, Screen!CopyMnemonic, Screen!CopyToClipboard,
         Screen!ClipboardTimer, Screen!KeyTimer, Screen!sessionVars,
         Screen!MainView
<1>3. ScreenAside
  BY <1>1, <1>2 DEF ScreenAside, ScreenPosted
<1> QED BY <1>1, <1>3, ScreenStays

LEMMA ScreenShowsKey ==
    ASSUME Screen!IInv, Screen!ShowKey \/ Screen!UiShowsNoKey
    PROVE  v10' \in Seq(Screen!ClosureType) /\ ScreenOrder'
<1>1. Screen!Shows({"key"}) \/ Screen!Shows({"no-key"})
  BY DEF Screen!ShowKey, Screen!UiShowsNoKey
<1>2. /\ v10' \in Seq(Screen!ClosureType)
      /\ ScreenPosted = ScreenPosted' \cup {Head(v10).show}
      /\ Head(v10).show \in {"key", "no-key"}
  BY <1>1, ScreenShows
<1>3. ScreenAside
  BY <1>2 DEF ScreenAside, Screen!ShowKey, Screen!UiShowsNoKey,
              Screen!sessionVars, Screen!MainView
<1> QED BY <1>2, <1>3, ScreenStays

LEMMA ScreenResets ==
    ASSUME Screen!IInv, Screen!FactoryReset
    PROVE  v10' \in Seq(Screen!ClosureType) /\ ScreenOrder'
<1>1. /\ v10' \in Seq(Screen!ClosureType)
      /\ ScreenPosted' = ScreenPosted \cup {"reset"}
  BY ScreenPosts DEF Screen!FactoryReset, Screen!IInv
<1>2. ScreenAside
  BY <1>1 DEF ScreenAside, Screen!FactoryReset, Screen!sessionVars,
              Screen!MainView
<1> QED BY <1>1, <1>2, ScreenStays

\* The type of all but the tasks, the closures and the secrets.
ScreenFields ==
    /\ v1 \in BOOLEAN /\ v2 \in {"none", "running", "over"}
    /\ v3 \in BOOLEAN /\ v4 \in BOOLEAN
    /\ v5 \in {"start", "phrase", "done"}
    /\ v6 \in BOOLEAN /\ v7 \in BOOLEAN
    /\ v9 \in {"idle", "seen", "cleared", "locked"}
    /\ v15 \in 0..MaxActs
    /\ v16 \in BOOLEAN /\ v17 \in BOOLEAN

ScreenSecrets ==
    /\ v11 \in Accounts \cup {None} /\ v12 \in {"other", "phrase"}
    /\ v13 \in [Accounts -> Nat] /\ v14 \in Nat /\ v18 \in BOOLEAN
    /\ Screen!SecretsExpire

LEMMA ScreenTyped ==
    Screen!TypeOK /\ Screen!SecretsExpire <=>
      /\ v8 \in [Tasks -> ScreenTasks] /\ v10 \in Seq(Screen!ClosureType)
      /\ ScreenFields /\ ScreenSecrets
BY DEF Screen!TypeOK, ScreenTasks, ScreenFields, ScreenSecrets

LEMMA ScreenTypedAfter ==
    ASSUME v8' \in [Tasks -> ScreenTasks], v10' \in Seq(Screen!ClosureType),
           ScreenFields', ScreenSecrets', ScreenOrder'
    PROVE  Screen!IInv'
BY DEF Screen!TypeOK, ScreenTasks, ScreenFields, ScreenSecrets, ScreenOrder,
       Screen!IInv

LEMMA ScreenSecretsStay ==
    ASSUME ScreenSecrets, UNCHANGED <<v11, v12, v13, v14, v18>>
    PROVE  ScreenSecrets'
BY DEF ScreenSecrets, Screen!SecretsExpire

LEMMA ScreenActs ==
    ASSUME ScreenFields, Screen!Act
    PROVE  v15' \in 0..MaxActs
BY WindowsAssumption DEF ScreenFields, Screen!Act

\* A click on the window.
LEMMA ScreenUserSteps ==
    ASSUME Screen!IInv, NEW t \in Tasks,
           \/ Screen!UnlockWallet(t) \/ Screen!SignOut(t)
           \/ Screen!LockClicked(t) \/ Screen!CreateWallet(t)
           \/ \E op \in Screen!Opening : Screen!NewAccount(t, op)
           \/ \E a \in Accounts : Screen!ExportKey(t, a)
    PROVE  Screen!IInv'
<1>1. PICK op \in Screen!Ops, a \in Accounts \cup {None} :
        Screen!Spawn(t, op, a) /\ (op = "account" => Screen!MainView)
  BY DEF Screen!UnlockWallet, Screen!SignOut, Screen!LockClicked,
         Screen!CreateWallet, Screen!NewAccount, Screen!ExportKey, Screen!Ops,
         Screen!Opening, Screen!Closing
<1>2. v8' \in [Tasks -> ScreenTasks] /\ ScreenOrder'
  BY <1>1, ScreenSpawns
<1>3. /\ ScreenFields /\ ScreenSecrets /\ v10 \in Seq(Screen!ClosureType)
  BY ScreenTyped DEF Screen!IInv
<1>4. v10' \in Seq(Screen!ClosureType)
  BY <1>1, <1>3 DEF Screen!Spawn
<1>5. v6' \in BOOLEAN /\ v7' \in BOOLEAN
  BY <1>3 DEF Screen!UnlockWallet, Screen!SignOut, Screen!LockClicked,
         Screen!CreateWallet, Screen!NewAccount, Screen!ExportKey, ScreenFields
<1>6. ScreenFields'
  BY <1>1, <1>3, <1>5, ScreenActs DEF ScreenFields, Screen!Spawn
<1>7. ScreenSecrets'
  <2>1. CASE UNCHANGED <<v11, v12, v13, v14, v18>>
    BY <1>3, <2>1, ScreenSecretsStay
  <2>2. CASE v11' = None /\ UNCHANGED <<v12, v13, v14, v18>>
    BY <1>3, <2>2 DEF ScreenSecrets, Screen!SecretsExpire
  <2> QED BY <2>1, <2>2 DEF Screen!UnlockWallet, Screen!SignOut,
        Screen!LockClicked, Screen!CreateWallet, Screen!NewAccount,
        Screen!ExportKey, Screen!secretVars
<1> QED BY <1>2, <1>4, <1>6, <1>7, ScreenTypedAfter

LEMMA ScreenTaskSteps ==
    ASSUME Screen!IInv, NEW t \in Tasks,
           \/ Screen!WalletOpens(t) \/ Screen!StartsClock(t)
           \/ Screen!PostsOpened(t) \/ Screen!ClearsClock(t)
           \/ Screen!WalletLocks(t) \/ Screen!PostsClosed(t)
           \/ Screen!Exported(t)
    PROVE  Screen!IInv'
<1>1. ScreenMoved
  BY ScreenOpens, ScreenStarts, ScreenPostsOpened, ScreenClears, ScreenLocks,
     ScreenPostsClosed, ScreenExported
<1>2. ScreenFields /\ ScreenSecrets
  BY ScreenTyped DEF Screen!IInv
<1>3. /\ v1' \in BOOLEAN /\ v2' \in {"none", "running", v2}
      /\ UNCHANGED <<v3, v4, v5, v6, v7, v9, v15, v16, v17>>
  BY <1>2 DEF ScreenFields, Screen!WalletOpens, Screen!StartsClock,
       Screen!PostsOpened, Screen!ClearsClock, Screen!WalletLocks,
       Screen!PostsClosed, Screen!Exported, Screen!sessionVars
<1>4. UNCHANGED <<v11, v12, v13, v14, v18>>
  BY DEF Screen!WalletOpens, Screen!StartsClock, Screen!PostsOpened,
       Screen!ClearsClock, Screen!WalletLocks, Screen!PostsClosed,
       Screen!Exported, Screen!secretVars
<1>5. ScreenFields'
  BY <1>2, <1>3 DEF ScreenFields
<1> QED BY <1>1, <1>2, <1>4, <1>5, ScreenSecretsStay, ScreenTypedAfter
        DEF ScreenMoved

LEMMA ScreenClockSteps ==
    ASSUME Screen!IInv,
           \/ Screen!HourPasses \/ Screen!TickReads \/ Screen!TickClears
           \/ Screen!TickLocks \/ Screen!TickPosts \/ Screen!UiShowsSession
           \/ Screen!OnboardingComplete \/ Screen!FactoryReset
    PROVE  Screen!IInv'
<1>1. /\ ScreenFields /\ ScreenSecrets /\ v8 \in [Tasks -> ScreenTasks]
      /\ v10 \in Seq(Screen!ClosureType)
  BY ScreenTyped DEF Screen!IInv
<1> USE DEF Screen!HourPasses, Screen!TickReads, Screen!TickClears,
        Screen!TickLocks, Screen!TickPosts, Screen!UiShowsSession,
        Screen!OnboardingComplete, Screen!FactoryReset
<1>2. v8' = v8 /\ UNCHANGED <<v11, v12, v13, v14, v18>>
  BY DEF Screen!secretVars
<1>3. v10' \in Seq(Screen!ClosureType) /\ ScreenOrder'
  <2>1. CASE \/ Screen!HourPasses \/ Screen!TickReads \/ Screen!TickClears
             \/ Screen!TickLocks
    BY <1>1, <2>1, ScreenTicks
  <2>2. CASE Screen!OnboardingComplete
    BY <1>1, <2>2, ScreenCompletes
  <2> QED BY <2>1, <2>2, ScreenTickPosts, ScreenShowsSession, ScreenResets
<1>4. v15' \in 0..MaxActs
  BY <1>1, ScreenActs DEF Screen!sessionVars, ScreenFields
<1>5. v1' \in BOOLEAN /\ v2' \in {"none", "over", v2}
  BY <1>1 DEF Screen!sessionVars, ScreenFields
<1>6. /\ v3' \in BOOLEAN /\ v4' \in BOOLEAN /\ v6' \in BOOLEAN
      /\ v7' \in BOOLEAN /\ v16' \in BOOLEAN /\ v17' \in BOOLEAN
  BY <1>1 DEF Screen!sessionVars, ScreenFields
<1>7. /\ v5' \in {"start", "phrase", v5}
      /\ v9' \in {"idle", "seen", "cleared", "locked", v9}
  BY DEF Screen!sessionVars
<1>8. ScreenFields'
  BY <1>1, <1>4, <1>5, <1>6, <1>7 DEF ScreenFields
<1> QED BY <1>1, <1>2, <1>3, <1>8, ScreenSecretsStay, ScreenTypedAfter

\* What is left touches the fields of the window or its secrets.
LEMMA ScreenOtherSteps ==
    ASSUME Screen!IInv,
           ScreenClicks \/ Screen!ShowKey \/ Screen!UiShowsNoKey
    PROVE  Screen!IInv'
<1>1. /\ ScreenFields /\ ScreenSecrets /\ v8 \in [Tasks -> ScreenTasks]
      /\ v10 \in Seq(Screen!ClosureType)
  BY ScreenTyped DEF Screen!IInv
<1>2. v10' \in Seq(Screen!ClosureType) /\ ScreenOrder'
  BY <1>1, ScreenClicked, ScreenShowsKey
<1> USE DEF ScreenClicks, Screen!UnlockClicked, Screen!VerifyWord,
        Screen!ClearExport, Screen!CopyMnemonic, Screen!CopyToClipboard,
        Screen!ClipboardTimer, Screen!KeyTimer, Screen!ShowKey,
        Screen!UiShowsNoKey
<1>3. v8' = v8
  OBVIOUS
<1>4. v15' \in 0..MaxActs
  BY <1>1, ScreenActs DEF ScreenFields
<1>5. /\ v4' \in BOOLEAN /\ v5' \in {"done", v5}
      /\ UNCHANGED <<v1, v2, v3, v6, v7, v9, v16, v17>>
  BY <1>1 DEF Screen!sessionVars, ScreenFields
<1>6. ScreenFields'
  BY <1>1, <1>4, <1>5 DEF ScreenFields
<1>7. ScreenSecrets'
  <2>1. CASE Screen!ShowKey
    <3>1. /\ v11' = Head(v10).account /\ UNCHANGED <<v12, v14, v18>>
          /\ v13' = [v13 EXCEPT ![Head(v10).account] = @ + 1]
      BY <2>1
    <3>2. Head(v10).account \in Accounts \cup {None}
      BY <2>1, ScreenShows DEF Screen!ClosureType
    <3>3. v13' \in [Accounts -> Nat] /\ v14' \in Nat
      <4>1. v13 \in [Accounts -> Nat] /\ v14 \in Nat
        BY <1>1 DEF ScreenSecrets
      <4>2. CASE Head(v10).account \in Accounts
        BY <3>1, <4>1, <4>2
      <4>3. CASE Head(v10).account \notin Accounts
        BY <3>1, <4>1, <4>3
      <4> QED BY <4>2, <4>3
    <3>4. v11' # None => v13'[v11'] > 0
      BY <1>1, <3>1, <3>2 DEF ScreenSecrets
    <3>5. v12' = "phrase" => v14' > 0 \/ v18'
      BY <1>1, <3>1 DEF ScreenSecrets, Screen!SecretsExpire
    <3> QED BY <1>1, <3>1, <3>2, <3>3, <3>4, <3>5
            DEF ScreenSecrets, Screen!SecretsExpire
  <2>2. ASSUME NEW a \in Accounts, Screen!KeyTimer(a) PROVE ScreenSecrets'
    BY <1>1, <2>2 DEF ScreenSecrets, Screen!SecretsExpire
  <2>3. CASE Screen!ClipboardTimer
    <3>1. /\ v14 > 0 /\ v14' = v14 - 1 /\ UNCHANGED <<v11, v13>>
          /\ v12' \in {"other", v12}
          /\ v12' = "phrase" => v18'
      BY <2>3
    <3>2. v18' \in BOOLEAN
      BY <1>1, <2>3 DEF ScreenSecrets
    <3>3. v14' \in Nat /\ v12' \in {"other", "phrase"}
      BY <1>1, <3>1 DEF ScreenSecrets
    <3> QED BY <1>1, <3>1, <3>2, <3>3 DEF ScreenSecrets, Screen!SecretsExpire
  <2>4. CASE Screen!UnlockClicked \/ Screen!VerifyWord
    BY <1>1, <2>4, ScreenSecretsStay DEF Screen!secretVars
  <2>5. CASE \/ Screen!ClearExport \/ Screen!CopyMnemonic
             \/ Screen!CopyToClipboard \/ Screen!UiShowsNoKey
    BY <1>1, <2>5 DEF ScreenSecrets, Screen!SecretsExpire
  <2> QED BY <2>1, <2>2, <2>3, <2>4, <2>5
<1> QED BY <1>1, <1>2, <1>3, <1>6, <1>7, ScreenTypedAfter

LEMMA ScreenBegins == Screen!Init => Screen!IInv
<1> SUFFICES ASSUME Screen!Init PROVE Screen!IInv
  OBVIOUS
<1>1. ScreenPosted = {}
  BY DEF Screen!Init, ScreenPosted
<1>2. v8 \in [Tasks -> ScreenTasks] /\ v10 \in Seq(Screen!ClosureType)
  BY DEF Screen!Init, ScreenTasks
<1>3. ScreenFields
  <2>1. 0 \in 0..MaxActs
    BY WindowsAssumption
  <2>2. v3 \in BOOLEAN /\ v4 \in BOOLEAN
    BY DEF Screen!Init
  <2> QED BY <2>1, <2>2 DEF Screen!Init, ScreenFields
<1>4. ScreenSecrets
  BY DEF Screen!Init, ScreenSecrets, Screen!SecretsExpire
<1>5. Screen!InTurn /\ Screen!Shown
  BY <1>1, ScreenClosures DEF Screen!Init, Screen!InTurn, Screen!Shown,
     Screen!IsOpening, Screen!IsClosing, Screen!InFlight, Screen!Cleared,
     Screen!Accounted, Screen!MainView, Screen!Opening, Screen!Closing,
     Screen!Running, Screen!Idle
<1> QED BY <1>2, <1>3, <1>4, <1>5, ScreenTyped DEF Screen!IInv

LEMMA ScreenKeeps ==
    ASSUME Screen!IInv, Screen!Next
    PROVE  Screen!IInv'
BY ScreenUserSteps, ScreenTaskSteps, ScreenClockSteps, ScreenOtherSteps
   DEF Screen!Next, ScreenClicks

LEMMA ScreenStutters ==
    ASSUME Screen!IInv, UNCHANGED Slots
    PROVE  Screen!IInv'
<1>1. UNCHANGED <<v1, v2, v3, v4, v5, v6, v7, v8, v9, v10, v11, v12, v13,
                  v14, v15, v16, v17, v18>>
  BY DEF Slots
<1>2. ScreenAside
  BY <1>1 DEF ScreenAside, ScreenPosted, Screen!MainView
<1>3. /\ ScreenFields /\ ScreenSecrets /\ v8 \in [Tasks -> ScreenTasks]
      /\ v10 \in Seq(Screen!ClosureType)
  BY ScreenTyped DEF Screen!IInv
<1>4. ScreenFields'
  BY <1>1, <1>3 DEF ScreenFields
<1> QED BY <1>1, <1>2, <1>3, <1>4, ScreenStays, ScreenSecretsStay,
           ScreenTypedAfter

\* Once nothing is in flight, nobody is opening or closing a session.
LEMMA ScreenQuiet ==
    ASSUME Screen!IInv
    PROVE  Screen!ClosedIsShown
<1> SUFFICES ASSUME Screen!Quiet, ~v16, ~v17
             PROVE  /\ v1 <=> v2 # "none"
                    /\ ~v1 => v4 \/ v3
  BY DEF Screen!ClosedIsShown
<1>1. ScreenPosted = {} /\ v9 = "idle" /\ \A t \in Tasks : v8[t] = Screen!Idle
  BY DEF Screen!Quiet, ScreenPosted
<1>2. ~Screen!IsClosing /\ ~Screen!Accounted
  BY <1>1, ScreenClosures DEF Screen!IsClosing, Screen!InFlight,
     Screen!Closing, Screen!Accounted, Screen!Running, Screen!Idle
<1>3. v1 \in BOOLEAN /\ v3 \in BOOLEAN /\ v4 \in BOOLEAN
  BY DEF Screen!IInv, Screen!TypeOK
<1> QED BY <1>2, <1>3
        DEF Screen!IInv, Screen!InTurn, Screen!Shown, Screen!MainView

LEMMA ScreenInvariant ==
    ServicesSpec => [](focus = "screen" => Screen!IInv)
<1> DEFINE I == focus = "screen" => Screen!IInv
<1>1. ServicesInit => I
  BY WindowInits, ScreenBegins
<1>2. I /\ [ServicesNext]_serviceVars => I'
  BY WindowSteps, WindowStutters, ScreenKeeps, ScreenStutters
<1> QED BY <1>1, <1>2, PTL DEF ServicesSpec

\* A private key on the screen and a recovery phrase on the clipboard have a timer
\* pending that will wipe them, whatever was exported, copied, cleared or locked
\* since, unless the clipboard refused to be wiped.
THEOREM SecretsSafety == ServicesSpec => []SecretsExpire
<1>1. (focus = "screen" => Screen!IInv) => SecretsExpire
  BY DEF SecretsExpire, Screen!IInv
<1> QED BY <1>1, ScreenInvariant, PTL

\* Once nothing is in flight, the session clock, the wallet and the window agree,
\* and a closed wallet is behind the lock screen or onboarding, for sessions that
\* were not opened and closed at once and an onboarding that was not left open.
THEOREM ScreenSafety == ServicesSpec => []ClosedIsShown
<1>1. (focus = "screen" => Screen!IInv) => ClosedIsShown
  BY ScreenQuiet DEF ClosedIsShown
<1> QED BY <1>1, ScreenInvariant, PTL

-----------------------------------------------------------------------------
(* SendDialog                                                              *)
(* Slots: v1 is dialog, v2 sending, v3 hash, v4 error, v5 receipt, v6      *)
(* transfer, v7 posted, v8 confirms, v9 mined, v10 stale, v11 beside.      *)

DialogTasks == Dialog!TransferType \cup {Dialog!Idle}

LEMMA DialogTyped ==
    ASSUME Dialog!TypeOK
    PROVE  /\ v6 \in [Tasks -> DialogTasks]
           /\ v7 \in Seq(Dialog!ClosureType) /\ Len(v7) \in Nat
           /\ DOMAIN v7 = 1..Len(v7)
           /\ \A i \in 1..Len(v7) : v7[i] \in Dialog!ClosureType
           /\ v8 \in Nat /\ v8 <= MaxConfirms /\ v9 \in Nat
<1>1. v7 \in Seq(Dialog!ClosureType)
  BY DEF Dialog!TypeOK
<1>2. /\ Len(v7) \in Nat /\ DOMAIN v7 = 1..Len(v7)
      /\ \A i \in 1..Len(v7) : v7[i] \in Dialog!ClosureType
  BY <1>1
<1>3. v8 \in 0..MaxConfirms /\ v9 \in 0..MaxConfirms
  BY DEF Dialog!TypeOK
<1>4. v8 \in Nat /\ v8 <= MaxConfirms /\ v9 \in Nat
  BY <1>3, WindowsAssumption
<1> QED BY <1>1, <1>2, <1>4 DEF Dialog!TypeOK, DialogTasks

\* A closure is posted behind the others.
DialogAdds(show, send) ==
    /\ DOMAIN v7' = 1..(Len(v7) + 1)
    /\ \A i \in 1..Len(v7) : v7'[i] = v7[i]
    /\ v7'[Len(v7) + 1].show = show /\ v7'[Len(v7) + 1].send = send

LEMMA DialogPosts ==
    ASSUME Dialog!TypeOK, NEW show, NEW send \in Dialog!Sends \cup {None},
           show \in {"refused", "sent", "receipt", "failed", "accepted",
                     "rejected", "expired"},
           Dialog!Post(show, send)
    PROVE  v7' \in Seq(Dialog!ClosureType) /\ DialogAdds(show, send)
<1> DEFINE new == [show |-> show, send |-> send]
<1>1. /\ new \in Dialog!ClosureType /\ new.show = show /\ new.send = send
      /\ v7' = Append(v7, new)
  BY DEF Dialog!ClosureType, Dialog!Post
<1> HIDE DEF new
<1>2. v7' \in Seq(Dialog!ClosureType) /\ Len(v7') = Len(v7) + 1
  BY <1>1, DialogTyped
<1>3. /\ DOMAIN v7' = 1..(Len(v7) + 1)
      /\ \A i \in 1..Len(v7) : v7'[i] = v7[i]
      /\ v7'[Len(v7) + 1] = new
  BY <1>1, <1>2, DialogTyped
<1> QED BY <1>1, <1>2, <1>3 DEF DialogAdds

\* The oldest closure is taken.
LEMMA DialogTakes ==
    ASSUME Dialog!TypeOK, v7 # <<>>, v7' = Tail(v7)
    PROVE  /\ v7' \in Seq(Dialog!ClosureType) /\ Len(v7) >= 1
           /\ Head(v7) = v7[1] /\ v7[1] \in Dialog!ClosureType
           /\ DOMAIN v7' = 1..(Len(v7) - 1)
           /\ \A i \in 1..(Len(v7) - 1) : v7'[i] = v7[i + 1]
<1>1. v7' \in Seq(Dialog!ClosureType) /\ Len(v7) >= 1
  BY DialogTyped
<1>2. /\ Head(v7) = v7[1] /\ 1 \in 1..Len(v7)
      /\ DOMAIN v7' = 1..(Len(v7) - 1)
      /\ \A i \in 1..(Len(v7) - 1) : v7'[i] = v7[i + 1]
  BY <1>1, DialogTyped
<1> QED BY <1>1, <1>2, DialogTyped

LEMMA DialogRecord ==
    ASSUME NEW old \in Dialog!TransferType, NEW at, NEW nonce
    PROVE  /\ [old EXCEPT !.at = at, !.nonce = nonce] =
                [kind |-> old.kind, at |-> at, send |-> old.send,
                 nonce |-> nonce]
           /\ [old EXCEPT !.at = at] =
                [kind |-> old.kind, at |-> at, send |-> old.send,
                 nonce |-> old.nonce]
<1>1. ASSUME NEW new, new = [old EXCEPT !.at = at, !.nonce = nonce]
      PROVE  new = [kind |-> old.kind, at |-> at, send |-> old.send,
                    nonce |-> nonce]
  BY <1>1 DEF Dialog!TransferType
<1>2. ASSUME NEW new, new = [old EXCEPT !.at = at]
      PROVE  new = [kind |-> old.kind, at |-> at, send |-> old.send,
                    nonce |-> old.nonce]
  BY <1>2 DEF Dialog!TransferType
<1> QED BY <1>1, <1>2

\* A transfer moves on, keeping its number; or it has ended.
LEMMA DialogMoves ==
    ASSUME Dialog!TypeOK, NEW t \in Tasks, v6[t].kind = "plain",
           NEW at \in {"priced", "sent"}, NEW nonce \in 0..MaxConfirms,
           \/ v6' = [v6 EXCEPT ![t].at = at, ![t].nonce = nonce]
           \/ nonce = v6[t].nonce /\ v6' = [v6 EXCEPT ![t].at = at]
    PROVE  /\ v6' \in [Tasks -> DialogTasks]
           /\ v6'[t].kind = "plain" /\ v6'[t].at = at
           /\ v6'[t].send = v6[t].send /\ v6'[t].nonce = nonce
           /\ v6[t] # Dialog!Idle /\ v6'[t] # Dialog!Idle
           /\ \A u \in Tasks : u # t => v6'[u] = v6[u]
<1> DEFINE new == [kind |-> "plain", at |-> at, send |-> v6[t].send,
                   nonce |-> nonce]
<1>1. v6[t] \in Dialog!TransferType /\ v6[t] # Dialog!Idle
  BY DialogTyped DEF DialogTasks, Dialog!Idle
<1>2. [v6[t] EXCEPT !.at = at, !.nonce = nonce] = new
  <2>1. [v6[t] EXCEPT !.at = at, !.nonce = nonce] =
          [kind |-> v6[t].kind, at |-> at, send |-> v6[t].send,
           nonce |-> nonce]
    BY <1>1, DialogRecord
  <2> QED BY <2>1
<1>3. v6' = [v6 EXCEPT ![t] = new]
  <2>1. CASE v6' = [v6 EXCEPT ![t].at = at, ![t].nonce = nonce]
    BY <1>2, <2>1
  <2>2. CASE nonce = v6[t].nonce /\ v6' = [v6 EXCEPT ![t].at = at]
    <3>1. [v6[t] EXCEPT !.at = at] = new
      BY <1>1, <2>2, DialogRecord
    <3> QED BY <2>2, <3>1
  <2> QED BY <2>1, <2>2
<1>4. /\ new \in Dialog!TransferType /\ new.kind = "plain" /\ new.at = at
      /\ new.send = v6[t].send /\ new.nonce = nonce
  BY <1>1 DEF Dialog!TransferType
<1> HIDE DEF new
<1>5. new \in DialogTasks /\ new # Dialog!Idle
  BY <1>4 DEF DialogTasks, Dialog!Idle
<1> QED BY <1>1, <1>3, <1>4, <1>5, DialogTyped

LEMMA DialogEnds ==
    ASSUME Dialog!TypeOK, NEW t \in Tasks, Dialog!Ends(t)
    PROVE  /\ v6' \in [Tasks -> DialogTasks] /\ v6'[t] = Dialog!Idle
           /\ \A u \in Tasks : u # t => v6'[u] = v6[u]
BY DialogTyped DEF DialogTasks, Dialog!Ends

LEMMA DialogBegins ==
    ASSUME Dialog!TypeOK, NEW t \in Tasks, NEW kind \in {"plain", "sponsored"},
           Dialog!Confirm, Dialog!Begins(t, kind)
    PROVE  /\ v6' \in [Tasks -> DialogTasks]
           /\ v6'[t].kind = kind /\ v6'[t].at = "begun"
           /\ v6'[t].send = v8 + 1 /\ v6'[t] # Dialog!Idle
           /\ \A u \in Tasks : u # t => v6'[u] = v6[u]
<1> DEFINE new == [kind |-> kind, at |-> "begun", send |-> v8 + 1, nonce |-> 0]
<1>1. v8 + 1 \in Dialog!Sends /\ 0 \in 0..MaxConfirms
  BY DialogTyped, WindowsAssumption DEF Dialog!Confirm, Dialog!Sends
<1>2. /\ new \in DialogTasks /\ new # Dialog!Idle /\ new.kind = kind
      /\ new.at = "begun" /\ new.send = v8 + 1
  BY <1>1 DEF DialogTasks, Dialog!TransferType, Dialog!Idle
<1>3. v6' = [v6 EXCEPT ![t] = new]
  BY DEF Dialog!Begins
<1> HIDE DEF new
<1> QED BY <1>2, <1>3, DialogTyped

\* What OneSend says, and why, while nothing went away or was sent beside.
DialogOrder ==
    ~v11 => /\ Dialog!Alone /\ v10 = {}
            /\ v3 # None => v3 = v8 /\ v5 = v3 /\ v4 = None

LEMMA DialogOrdered ==
    Dialog!IInv <=> Dialog!TypeOK /\ DialogOrder /\ Dialog!Counted
<1>1. ~Dialog!Outstanding => ~Dialog!LastOut
  BY DEF Dialog!Outstanding, Dialog!LastOut, Dialog!Out
<1> QED BY <1>1 DEF Dialog!IInv, DialogOrder, Dialog!OneSend, Dialog!Alone

\* A click on Confirm & Send finds nothing out, or is beside a sponsored one.
LEMMA DialogFree ==
    ASSUME Dialog!TypeOK, Dialog!Alone, v3 = None, ~v2, ~Dialog!SponsoredOut
    PROVE  /\ \A t \in Tasks : v6[t] = Dialog!Idle
           /\ \A i \in 1..Len(v7) : v7[i].show \in {"refused", "expired"}
<1>1. ~Dialog!Told({"sent", "failed", "receipt", "accepted", "rejected"})
  BY DEF Dialog!Alone, Dialog!InOrder, Dialog!Told, Dialog!SponsoredOut
<1>2. ASSUME NEW i \in 1..Len(v7)
      PROVE  v7[i].show \in {"refused", "expired"}
  BY <1>1, DialogTyped DEF Dialog!Told, Dialog!ClosureType
<1>3. ASSUME NEW t \in Tasks, Dialog!Out(t) PROVE FALSE
  <2>1. v6[t].kind \in {"plain", "sponsored"}
    BY <1>3, DialogTyped DEF Dialog!Out, DialogTasks, Dialog!TransferType
  <2>2. v6[t].kind = "plain"
    BY <2>1 DEF Dialog!SponsoredOut
  <2>3. ~Dialog!Told({"sent"})
    BY <1>1 DEF Dialog!Told
  <2> QED BY <1>3, <2>2, <2>3 DEF Dialog!Alone, Dialog!OneOut
<1> QED BY <1>2, <1>3 DEF Dialog!Out
\* Closures that tell of refusals only, the last confirmed transfer's behind.
LEMMA DialogOnlyRefused ==
    ASSUME v3' = None,
           \A i \in DOMAIN v7' : v7'[i].show \in {"refused", "expired"},
           \A i \in DOMAIN v7' : v7'[i].show = "refused" =>
               /\ v7'[i].send \in 1..v8'
               /\ v7'[i].send = v8' =>
                    \A j \in DOMAIN v7' : ~(j > i)
    PROVE  Dialog!InOrder'
BY DEF Dialog!InOrder, Dialog!Ending

LEMMA DialogConfirmed ==
    ASSUME Dialog!IInv, NEW t \in Tasks,
           Dialog!Send(t) \/ Dialog!SendSponsored(t)
    PROVE  v6' \in [Tasks -> DialogTasks] /\ DialogOrder'
<1>1. Dialog!TypeOK /\ DialogOrder
  BY DialogOrdered
<1>2. PICK kind \in {"plain", "sponsored"} :
        /\ Dialog!Begins(t, kind)
        /\ kind = "plain" => v2' = TRUE
        /\ kind = "sponsored" => v2' = v2
  BY DEF Dialog!Send, Dialog!SendSponsored
<1>3. /\ Dialog!Confirm /\ v8' = v8 + 1 /\ v3 = None /\ ~v2
      /\ UNCHANGED <<v3, v4, v5, v7, v9, v10>>
      /\ v11' = (v11 \/ Dialog!SponsoredOut)
  BY DEF Dialog!Send, Dialog!SendSponsored, Dialog!Confirm
<1>4. /\ v6' \in [Tasks -> DialogTasks]
      /\ v6'[t].kind = kind /\ v6'[t].at = "begun"
      /\ v6'[t].send = v8 + 1 /\ v6'[t] # Dialog!Idle
      /\ \A u \in Tasks : u # t => v6'[u] = v6[u]
  BY <1>1, <1>2, <1>3, DialogBegins
<1>5. ASSUME ~v11'
      PROVE  Dialog!Alone' /\ v10' = {} /\ v3' = None
  <2>1. /\ ~v11 /\ Dialog!Alone /\ v10 = {}
        /\ \A u \in Tasks : v6[u] = Dialog!Idle
        /\ \A i \in 1..Len(v7) : v7[i].show \in {"refused", "expired"}
    BY <1>1, <1>3, <1>5, DialogFree DEF DialogOrder
  <2>2. \A u \in Tasks : v6'[u] # Dialog!Idle => u = t
    BY <1>4, <2>1
  <2>3. Dialog!OneOut'
    BY <1>2, <1>3, <1>4, <2>1, <2>2, <1>1, DialogTyped
    DEF Dialog!OneOut, Dialog!Out, Dialog!Told
  <2>4. \A i \in 1..Len(v7) : v7[i].show = "refused" =>
            v7[i].send \in 1..v8' /\ v7[i].send # v8'
    BY <1>1, <1>3, <2>1, DialogTyped DEF Dialog!Alone, Dialog!InOrder
  <2>5. Dialog!InOrder'
    <3>1. \A i \in DOMAIN v7' : /\ i \in 1..Len(v7) /\ v7'[i] = v7[i]
      BY <1>1, <1>3, DialogTyped
    <3> QED BY <1>3, <2>1, <2>4, <3>1, DialogOnlyRefused
  <2>6. Dialog!LastOut'
    BY <1>3, <1>4 DEF Dialog!LastOut, Dialog!Out
  <2> QED BY <1>3, <2>1, <2>3, <2>5, <2>6 DEF Dialog!Alone
<1> QED BY <1>3, <1>4, <1>5 DEF DialogOrder

LEMMA DialogRefuses ==
    ASSUME Dialog!IInv, Dialog!SendRefused
    PROVE  v7' \in Seq(Dialog!ClosureType) /\ DialogOrder'
<1>1. Dialog!TypeOK /\ DialogOrder
  BY DialogOrdered
<1>2. /\ Dialog!Post("refused", v8 + 1) /\ v8' = v8 + 1 /\ v3 = None /\ ~v2
      /\ UNCHANGED <<v2, v3, v4, v5, v6, v9, v10>> /\ v8 < MaxConfirms
      /\ v11' = (v11 \/ Dialog!SponsoredOut)
  BY DEF Dialog!SendRefused, Dialog!Confirm
<1>3. v7' \in Seq(Dialog!ClosureType) /\ DialogAdds("refused", v8 + 1)
  BY <1>1, <1>2, DialogPosts, DialogTyped, WindowsAssumption DEF Dialog!Sends
<1>4. ASSUME ~v11'
      PROVE  Dialog!Alone' /\ v10' = {} /\ v3' = None
  <2>1. /\ ~v11 /\ Dialog!Alone /\ v10 = {}
        /\ \A u \in Tasks : v6[u] = Dialog!Idle
        /\ \A i \in 1..Len(v7) : v7[i].show \in {"refused", "expired"}
    BY <1>1, <1>2, <1>4, DialogFree DEF DialogOrder
  <2>2. Dialog!OneOut'
    BY <1>2, <2>1 DEF Dialog!OneOut, Dialog!Out
  <2>3. \A i \in 1..Len(v7) : v7[i].show = "refused" =>
            v7[i].send \in 1..v8' /\ v7[i].send # v8'
    BY <1>1, <1>2, <2>1, DialogTyped DEF Dialog!Alone, Dialog!InOrder
  <2>4. /\ \A i \in DOMAIN v7' : i \in 1..Len(v7) \/ i = Len(v7) + 1
        /\ \A i \in 1..Len(v7) : /\ v7'[i].show = v7[i].show
                                 /\ v7'[i].send = v7[i].send
    BY <1>1, <1>3, DialogTyped DEF DialogAdds
  <2>5. Dialog!InOrder'
    <3>1. ASSUME NEW i \in DOMAIN v7', v7'[i].show = "refused"
          PROVE  v7'[i].send \in 1..v8'
      <4>1. v8' \in 1..v8' /\ v8' = v8 + 1
        BY <1>1, <1>2, DialogTyped
      <4> QED BY <1>3, <2>3, <2>4, <3>1, <4>1 DEF DialogAdds
    <3>2. ASSUME NEW i \in DOMAIN v7', v7'[i].show = "refused",
                 v7'[i].send = v8'
          PROVE  i = Len(v7) + 1
      BY <1>2, <2>3, <2>4, <3>2
    <3>3. \A i \in DOMAIN v7' : v7'[i].show \in {"refused", "expired"}
      BY <1>3, <2>1, <2>4 DEF DialogAdds
    <3>4. \A j \in DOMAIN v7' : ~(j > Len(v7) + 1)
      BY <1>1, <2>4, DialogTyped
    <3> QED BY <1>2, <3>1, <3>2, <3>3, <3>4, DialogOnlyRefused
  <2>6. Dialog!LastOut'
    <3>1. Len(v7) + 1 \in DOMAIN v7'
      BY <1>1, <1>3, DialogTyped DEF DialogAdds
    <3> QED BY <1>2, <1>3, <3>1 DEF Dialog!LastOut, DialogAdds
  <2> QED BY <1>2, <2>1, <2>2, <2>5, <2>6 DEF Dialog!Alone
<1> QED BY <1>2, <1>3, <1>4 DEF DialogOrder

LEMMA DialogCloses ==
    ASSUME Dialog!IInv, Dialog!Close
    PROVE  DialogOrder'
<1>1. /\ v11' = (v11 \/ Dialog!Outstanding) /\ v2' = FALSE /\ v3' = None
      /\ v4' = None /\ UNCHANGED <<v6, v7, v8, v9, v10>>
  BY DEF Dialog!Close
<1>2. ASSUME ~v11' PROVE Dialog!Alone' /\ v10' = {}
  <2>1. /\ v7 = <<>> /\ \A t \in Tasks : v6[t] = Dialog!Idle
        /\ ~v11
    BY <1>1, <1>2 DEF Dialog!Outstanding
  <2>2. Dialog!OneOut' /\ Dialog!InOrder' /\ ~Dialog!Told({"refused"})'
    BY <1>1, <2>1 DEF Dialog!OneOut, Dialog!InOrder, Dialog!Told, Dialog!Out
  <2> QED BY <1>1, <2>1, <2>2, DialogOrdered DEF Dialog!Alone, DialogOrder
<1> QED BY <1>1, <1>2 DEF DialogOrder

\* An answer goes behind closures that tell of no other transfer.
LEMMA DialogAnswered ==
    ASSUME Dialog!TypeOK, Dialog!InOrder,
           NEW show \in {"sent", "failed", "accepted", "rejected", "receipt"},
           DialogAdds(show, v8), UNCHANGED <<v2, v3, v8>>,
           show # "receipt" =>
             v3 = None /\ ~Dialog!Told(Dialog!Ending \cup {"receipt"}),
           show \in {"sent", "failed"} => v2,
           show = "receipt" => v3 # None \/ Dialog!Told({"sent"})
    PROVE  Dialog!InOrder' /\ Dialog!LastOut'
<1> DEFINE n == Len(v7) + 1
<1>1. /\ n \in DOMAIN v7' /\ v7'[n].show = show /\ v7'[n].send = v8
      /\ \A i \in DOMAIN v7' : i \in DOMAIN v7 \/ i = n
      /\ \A i \in DOMAIN v7 : /\ i \in DOMAIN v7' /\ i < n
                              /\ v7'[i].show = v7[i].show
                              /\ v7'[i].send = v7[i].send
  BY DialogTyped DEF DialogAdds
<1> HIDE DEF n
<1>2. \A i, j \in DOMAIN v7' : j > i => i \in DOMAIN v7
  BY <1>1, DialogTyped
<1>3. Dialog!LastOut'
  BY <1>1 DEF Dialog!LastOut
<1>4. ASSUME NEW i \in DOMAIN v7',
             v7'[i].show \in Dialog!Ending \cup {"receipt"}
      PROVE  /\ v7'[i].send = v8'
             /\ \A j \in DOMAIN v7' :
                  j > i => v7'[j].show \notin Dialog!Ending \cup {"refused"}
  <2>1. CASE i = n
    BY <1>1, <1>2, <2>1, DialogTyped
  <2>2. CASE i \in DOMAIN v7
    <3>1. show = "receipt"
      BY <1>1, <1>4, <2>2 DEF Dialog!Told
    <3> QED BY <1>1, <1>4, <2>2, <3>1 DEF Dialog!InOrder, Dialog!Ending
  <2> QED BY <1>1, <2>1, <2>2
<1>5. ASSUME NEW i \in DOMAIN v7', v7'[i].show \in Dialog!Ending \cup {"refused"}
      PROVE  v3' = None /\ (v7'[i].show \in {"sent", "failed"} => v2')
  BY <1>1, <1>5 DEF Dialog!InOrder, Dialog!Ending
<1>6. ASSUME NEW i \in DOMAIN v7', v7'[i].show = "receipt"
      PROVE  \/ v3' # None
             \/ \E j \in DOMAIN v7' : j < i /\ v7'[j].show = "sent"
  <2>1. CASE i = n
    BY <1>1, <1>6, <2>1 DEF Dialog!Told
  <2>2. CASE i \in DOMAIN v7
    BY <1>1, <1>6, <2>2 DEF Dialog!InOrder
  <2> QED BY <1>1, <2>1, <2>2
<1>7. ASSUME NEW i \in DOMAIN v7', v7'[i].show = "refused"
      PROVE  /\ v7'[i].send \in 1..v8'
             /\ v7'[i].send = v8' =>
                  \A j \in DOMAIN v7' : j > i => v7'[j].show \notin {"refused"}
  BY <1>1, <1>7 DEF Dialog!InOrder
<1>8. \A i \in DOMAIN v7' : v7'[i].show \in {"sent", "failed"} =>
                              v7'[i].show \in Dialog!Ending
  BY DEF Dialog!Ending
<1> QED BY <1>3, <1>4, <1>5, <1>6, <1>7, <1>8 DEF Dialog!InOrder

\* What is so of the one transfer that is out.
LEMMA DialogOne ==
    ASSUME Dialog!IInv, ~v11, NEW t \in Tasks, Dialog!Out(t)
    PROVE  /\ Dialog!TypeOK /\ Dialog!Alone /\ Dialog!InOrder /\ v10 = {}
           /\ v6[t].send = v8 /\ v8 \in Dialog!Sends
           /\ \A u \in Tasks : u # t => v6[u] = Dialog!Idle
           /\ ~Dialog!Told({"failed", "accepted", "rejected", "receipt"})
           /\ v6[t].kind = "sponsored" \/ v6[t].at # "sent" =>
                v3 = None /\ ~Dialog!Told(Dialog!Ending \cup {"receipt"})
           /\ v6[t].kind = "plain" =>
                IF v6[t].at = "sent" THEN v3 # None \/ Dialog!Told({"sent"})
                ELSE v2
           /\ v6[t].at = "priced" => v6[t].nonce = v9
<1>1. Dialog!TypeOK /\ Dialog!Alone /\ v10 = {}
  BY DialogOrdered DEF DialogOrder
<1>2. v6[t].send \in Dialog!Sends
  BY <1>1, DialogTyped DEF Dialog!Out, DialogTasks, Dialog!TransferType
<1>3. Dialog!OneOut /\ Dialog!InOrder
  BY <1>1 DEF Dialog!Alone
<1> QED BY <1>1, <1>2, <1>3 DEF Dialog!OneOut, Dialog!Out, Dialog!Told,
                                Dialog!Ending

\* A task ends, and its answer is posted.
LEMMA DialogTells ==
    ASSUME Dialog!IInv, NEW t \in Tasks, Dialog!Out(t), Dialog!Ends(t),
           NEW show \in {"failed", "accepted", "rejected", "receipt"},
           Dialog!Post(show, v6[t].send),
           UNCHANGED <<v2, v3, v4, v5, v8, v11>>, ~v11 => v10' = v10,
           show = "failed" => v6[t].kind = "plain" /\ v6[t].at # "sent",
           show \in {"accepted", "rejected"} => v6[t].kind = "sponsored",
           show = "receipt" => v6[t].kind = "plain" /\ v6[t].at = "sent"
    PROVE  /\ v6' \in [Tasks -> DialogTasks]
           /\ v7' \in Seq(Dialog!ClosureType) /\ DialogOrder'
<1>1. Dialog!TypeOK
  BY DEF Dialog!IInv
<1>2. v6[t].send \in Dialog!Sends
  BY <1>1, DialogTyped DEF Dialog!Out, DialogTasks, Dialog!TransferType
<1>3. /\ v6' \in [Tasks -> DialogTasks] /\ v6'[t] = Dialog!Idle
      /\ \A u \in Tasks : u # t => v6'[u] = v6[u]
  BY <1>1, DialogEnds
<1>4. v7' \in Seq(Dialog!ClosureType) /\ DialogAdds(show, v6[t].send)
  BY <1>1, <1>2, DialogPosts
<1>5. ASSUME ~v11
      PROVE  Dialog!Alone' /\ v10' = {}
                /\ (v3' # None => v3' = v8' /\ v5' = v3' /\ v4' = None)
  <2>1. Dialog!InOrder' /\ Dialog!LastOut'
    BY <1>4, <1>5, DialogOne, DialogAnswered
  <2>2. Dialog!OneOut'
    BY <1>3, <1>5, DialogOne DEF Dialog!OneOut, Dialog!Out
  <2>3. v3 # None => v3 = v8 /\ v5 = v3 /\ v4 = None
    BY <1>5, DialogOrdered DEF DialogOrder
  <2> QED BY <1>5, <2>1, <2>2, <2>3, DialogOne DEF Dialog!Alone
<1> QED BY <1>3, <1>4, <1>5 DEF DialogOrder

LEMMA DialogPrices ==
    ASSUME Dialog!IInv, NEW t \in Tasks, Dialog!FetchNonce(t)
    PROVE  v6' \in [Tasks -> DialogTasks] /\ DialogOrder'
<1>1. /\ Dialog!TypeOK /\ v6[t].kind = "plain" /\ v6[t].at = "begun"
      /\ v6' = [v6 EXCEPT ![t].at = "priced", ![t].nonce = v9]
      /\ UNCHANGED <<v2, v3, v4, v5, v7, v8, v9, v10, v11>>
  BY DEF Dialog!IInv, Dialog!FetchNonce, Dialog!At
<1>2. v9 \in 0..MaxConfirms
  BY <1>1 DEF Dialog!TypeOK
<1>3. /\ v6' \in [Tasks -> DialogTasks]
      /\ v6'[t].kind = "plain" /\ v6'[t].at = "priced"
      /\ v6'[t].send = v6[t].send /\ v6'[t].nonce = v9
      /\ v6[t] # Dialog!Idle /\ v6'[t] # Dialog!Idle
      /\ \A u \in Tasks : u # t => v6'[u] = v6[u]
  BY <1>1, <1>2, DialogMoves
<1>4. ASSUME ~v11 PROVE Dialog!Alone'
  <2>1. Dialog!OneOut'
    BY <1>1, <1>3, <1>4, DialogOne DEF Dialog!OneOut, Dialog!Out, Dialog!Told,
                                       Dialog!Ending
  <2>2. Dialog!InOrder'
    BY <1>1, <1>3, <1>4, DialogOne DEF Dialog!InOrder, Dialog!Out
  <2>3. Dialog!LastOut'
    BY <1>1, <1>3, <1>4, DialogOne DEF Dialog!LastOut, Dialog!Out
  <2> QED BY <2>1, <2>2, <2>3 DEF Dialog!Alone
<1> QED BY <1>1, <1>3, <1>4, DialogOrdered DEF DialogOrder

LEMMA DialogBroadcasts ==
    ASSUME Dialog!IInv, NEW t \in Tasks, Dialog!Broadcast(t)
    PROVE  /\ v6' \in [Tasks -> DialogTasks]
           /\ v7' \in Seq(Dialog!ClosureType) /\ DialogOrder'
<1>1. /\ Dialog!TypeOK /\ v6[t].kind = "plain" /\ v6[t].at = "priced"
      /\ UNCHANGED <<v2, v3, v4, v5, v8, v11>>
      /\ v10' = IF v6[t].nonce = v9 THEN v10 ELSE v10 \cup {v6[t].send}
      /\ \/ Dialog!Goes(t, "sent") /\ Dialog!Post("sent", v6[t].send)
         \/ Dialog!Ends(t) /\ Dialog!Post("failed", v6[t].send)
  BY DEF Dialog!IInv, Dialog!Broadcast, Dialog!At
<1>2. Dialog!Out(t)
  BY <1>1 DEF Dialog!Out, Dialog!Idle
<1>3. ~v11 => v10' = v10
  BY <1>1, <1>2, DialogOne
<1>4. CASE Dialog!Ends(t) /\ Dialog!Post("failed", v6[t].send)
  BY <1>1, <1>2, <1>3, <1>4, DialogTells
<1>5. CASE Dialog!Goes(t, "sent") /\ Dialog!Post("sent", v6[t].send)
  <2>1. v6[t].nonce \in 0..MaxConfirms /\ v6[t].send \in Dialog!Sends
    BY <1>1, <1>2, DialogTyped
    DEF Dialog!Out, DialogTasks, Dialog!TransferType
  <2>2. /\ v6' \in [Tasks -> DialogTasks]
        /\ v6'[t].kind = "plain" /\ v6'[t].at = "sent"
        /\ v6'[t].send = v6[t].send
        /\ v6[t] # Dialog!Idle /\ v6'[t] # Dialog!Idle
        /\ \A u \in Tasks : u # t => v6'[u] = v6[u]
    BY <1>1, <1>5, <2>1, DialogMoves DEF Dialog!Goes
  <2>3. v7' \in Seq(Dialog!ClosureType) /\ DialogAdds("sent", v6[t].send)
    BY <1>1, <1>5, <2>1, DialogPosts
  <2>4. ASSUME ~v11 PROVE Dialog!Alone'
    <3>1. Dialog!InOrder' /\ Dialog!LastOut'
      BY <1>1, <1>2, <2>3, <2>4, DialogOne, DialogAnswered
    <3>2. /\ Dialog!Told({"sent"})'
          /\ ~Dialog!Told({"failed", "accepted", "rejected", "receipt"})'
      <4>1. /\ Len(v7) + 1 \in DOMAIN v7'
            /\ \A i \in DOMAIN v7' : i \in DOMAIN v7 \/ i = Len(v7) + 1
            /\ \A i \in DOMAIN v7 : v7'[i].show = v7[i].show
            /\ v7'[Len(v7) + 1].show = "sent"
        BY <1>1, <2>3, DialogTyped DEF DialogAdds
      <4> QED BY <1>2, <2>4, <4>1, DialogOne DEF Dialog!Told
    <3>3. Dialog!OneOut'
      BY <1>1, <1>2, <2>2, <2>4, <3>2, DialogOne DEF Dialog!OneOut, Dialog!Out
    <3> QED BY <3>1, <3>3 DEF Dialog!Alone
  <2> QED BY <1>1, <1>3, <2>2, <2>3, <2>4, DialogOrdered DEF DialogOrder
<1> QED BY <1>1, <1>4, <1>5

LEMMA DialogExpires ==
    ASSUME Dialog!IInv, Dialog!SessionExpires
    PROVE  v7' \in Seq(Dialog!ClosureType) /\ DialogOrder'
<1>1. /\ Dialog!TypeOK /\ Dialog!Post("expired", None)
      /\ v11' = (v11 \/ Dialog!Outstanding)
      /\ UNCHANGED <<v2, v3, v4, v5, v6, v8, v9, v10>>
  BY DEF Dialog!IInv, Dialog!SessionExpires
<1>2. v7' \in Seq(Dialog!ClosureType) /\ DialogAdds("expired", None)
  BY <1>1, DialogPosts
<1>3. ASSUME ~v11' PROVE Dialog!Alone'
  <2>1. /\ v7 = <<>> /\ ~v11 /\ \A t \in Tasks : v6[t] = Dialog!Idle
    BY <1>1, <1>3 DEF Dialog!Outstanding
  <2>2. Len(v7) = 0
    BY <2>1
  <2>3. \A i \in DOMAIN v7' : v7'[i].show = "expired"
    BY <1>2, <2>2 DEF DialogAdds
  <2>4. Dialog!OneOut' /\ Dialog!InOrder' /\ ~Dialog!Told({"refused"})'
    BY <1>1, <2>1, <2>3 DEF Dialog!OneOut, Dialog!InOrder, Dialog!Told,
       Dialog!Out, Dialog!Ending
  <2>5. ~Dialog!LastOut
    BY <2>1 DEF Dialog!LastOut, Dialog!Out
  <2> QED BY <1>1, <2>1, <2>4, <2>5, DialogOrdered
          DEF Dialog!Alone, DialogOrder
<1> QED BY <1>1, <1>2, <1>3, DialogOrdered DEF DialogOrder

\* What is left when the oldest closure is taken.
LEMMA DialogRest ==
    ASSUME Dialog!TypeOK, Dialog!InOrder, v7 # <<>>, v7' = Tail(v7),
           v8' = v8
    PROVE  /\ \A i \in DOMAIN v7' :
                v7'[i].show \in Dialog!Ending \cup {"receipt"} =>
                  /\ v7'[i].send = v8'
                  /\ \A j \in DOMAIN v7' : j > i =>
                       v7'[j].show \notin Dialog!Ending \cup {"refused"}
           /\ \A i \in DOMAIN v7' : v7'[i].show = "refused" =>
                  /\ v7'[i].send \in 1..v8'
                  /\ v7'[i].send = v8' => \A j \in DOMAIN v7' :
                       j > i => v7'[j].show \notin {"refused"}
           /\ \A i \in DOMAIN v7' : v7'[i].show = "receipt" =>
                  \/ v3 # None
                  \/ Head(v7).show = "sent"
                  \/ \E j \in DOMAIN v7' : j < i /\ v7'[j].show = "sent"
           /\ \A i \in DOMAIN v7' :
                /\ v7'[i].show \in Dialog!Ending \cup {"refused"} => v3 = None
                /\ v7'[i].show \in {"sent", "failed"} => v2
<1>1. /\ Head(v7) = v7[1] /\ 1 \in DOMAIN v7
      /\ \A i \in DOMAIN v7' : i \in Nat /\ i + 1 \in DOMAIN v7
                               /\ v7'[i] = v7[i + 1]
      /\ \A i \in DOMAIN v7 : i = 1 \/ i - 1 \in DOMAIN v7'
  BY DialogTakes, DialogTyped
<1>2. \A i, j \in DOMAIN v7' : j > i => j + 1 > i + 1
  BY <1>1
<1>3. ASSUME NEW i \in DOMAIN v7',
             v7'[i].show \in Dialog!Ending \cup {"receipt"}
      PROVE  /\ v7'[i].send = v8'
             /\ \A j \in DOMAIN v7' : j > i =>
                  v7'[j].show \notin Dialog!Ending \cup {"refused"}
  BY <1>1, <1>2, <1>3 DEF Dialog!InOrder
<1>4. ASSUME NEW i \in DOMAIN v7', v7'[i].show = "refused"
      PROVE  /\ v7'[i].send \in 1..v8'
             /\ v7'[i].send = v8' => \A j \in DOMAIN v7' :
                  j > i => v7'[j].show \notin {"refused"}
  BY <1>1, <1>2, <1>4 DEF Dialog!InOrder
<1>5. ASSUME NEW i \in DOMAIN v7', v7'[i].show = "receipt", v3 = None,
             Head(v7).show # "sent"
      PROVE  \E j \in DOMAIN v7' : j < i /\ v7'[j].show = "sent"
  <2>1. PICK j \in DOMAIN v7 : j < i + 1 /\ v7[j].show = "sent"
    BY <1>1, <1>5 DEF Dialog!InOrder
  <2>2. j - 1 \in DOMAIN v7' /\ v7'[j - 1] = v7[j] /\ j - 1 < i
    BY <1>1, <1>5, <2>1, DialogTyped
  <2> QED BY <2>1, <2>2
<1>6. ASSUME NEW i \in DOMAIN v7'
      PROVE  /\ v7'[i].show \in Dialog!Ending \cup {"refused"} => v3 = None
             /\ v7'[i].show \in {"sent", "failed"} => v2
  BY <1>1, <1>6 DEF Dialog!InOrder
<1> QED BY <1>3, <1>4, <1>5, <1>6

\* And what the closure that is taken says of the others.
LEMMA DialogTaken ==
    ASSUME Dialog!TypeOK, Dialog!InOrder, v7 # <<>>, v7' = Tail(v7),
           v8' = v8
    PROVE  /\ Head(v7).show \in Dialog!Ending \cup {"receipt"} =>
                /\ Head(v7).send = v8
                /\ \A i \in DOMAIN v7' : v7'[i].show \in {"receipt", "expired"}
           /\ Head(v7).show \in Dialog!Ending \cup {"refused"} => v3 = None
           /\ Head(v7).show = "receipt" => v3 # None
           /\ Head(v7).show = "refused" =>
                (Head(v7).send = v8 => ~Dialog!Told({"refused"})')
           /\ Dialog!Told({Head(v7).show})
           /\ \A what : Dialog!Told(what)' => Dialog!Told(what)
           /\ \A what : Dialog!Told(what) =>
                Dialog!Told(what)' \/ Head(v7).show \in what
           /\ v6' = v6 /\ Head(v7).send # v8 =>
                (Dialog!LastOut => Dialog!LastOut')
<1>1. /\ Head(v7) = v7[1] /\ 1 \in DOMAIN v7
      /\ \A i \in DOMAIN v7' : i + 1 \in DOMAIN v7 /\ i + 1 > 1
                               /\ v7'[i] = v7[i + 1]
                               /\ v7'[i] \in Dialog!ClosureType
      /\ \A i \in DOMAIN v7 :
           i = 1 \/ (i - 1 \in DOMAIN v7' /\ v7'[i - 1] = v7[i])
  BY DialogTakes, DialogTyped
<1>2. ASSUME Head(v7).show \in Dialog!Ending \cup {"receipt"}
      PROVE  /\ Head(v7).send = v8
             /\ \A i \in DOMAIN v7' : v7'[i].show \in {"receipt", "expired"}
  <2>1. /\ Head(v7).send = v8
        /\ \A i \in DOMAIN v7' :
             v7'[i].show \notin Dialog!Ending \cup {"refused"}
    BY <1>1, <1>2 DEF Dialog!InOrder
  <2> QED BY <1>1, <2>1 DEF Dialog!ClosureType, Dialog!Ending
<1>3. Head(v7).show \in Dialog!Ending \cup {"refused"} => v3 = None
  BY <1>1 DEF Dialog!InOrder
<1>4. Head(v7).show = "receipt" => v3 # None
  <2>1. \A j \in DOMAIN v7 : ~(j < 1)
    BY DialogTyped
  <2> QED BY <1>1, <2>1 DEF Dialog!InOrder
<1>5. Head(v7).show = "refused" =>
        (Head(v7).send = v8 => ~Dialog!Told({"refused"})')
  BY <1>1 DEF Dialog!InOrder, Dialog!Told
<1>6. /\ Dialog!Told({Head(v7).show})
      /\ \A what : Dialog!Told(what)' => Dialog!Told(what)
      /\ \A what : Dialog!Told(what) =>
           Dialog!Told(what)' \/ Head(v7).show \in what
  BY <1>1 DEF Dialog!Told
<1>7. v6' = v6 /\ Head(v7).send # v8 => (Dialog!LastOut => Dialog!LastOut')
  BY <1>1 DEF Dialog!LastOut, Dialog!Out
<1> QED BY <1>2, <1>3, <1>4, <1>5, <1>6, <1>7

LEMMA DialogShows ==
    ASSUME Dialog!IInv, Dialog!UiShows
    PROVE  v7' \in Seq(Dialog!ClosureType) /\ DialogOrder'
<1> DEFINE show == Head(v7).show
           send == Head(v7).send
<1>1. /\ Dialog!TypeOK /\ v7 # <<>> /\ v7' = Tail(v7)
      /\ v3' = IF show \in {"sent", "accepted"} THEN send ELSE v3
      /\ v4' = CASE show \in {"refused", "failed", "rejected"} -> send
                 [] show \in {"sent", "accepted"} -> None
                 [] OTHER -> v4
      /\ v5' = CASE show \in {"sent", "accepted", "receipt"} -> send
                 [] show \in {"failed", "rejected"} -> None
                 [] OTHER -> v5
      /\ v2' = (v2 /\ show \notin {"sent", "failed"})
      /\ v11' = (v11 \/ show = "expired")
      /\ UNCHANGED <<v6, v8, v9, v10>>
  BY DEF Dialog!IInv, Dialog!UiShows
<1>2. v7' \in Seq(Dialog!ClosureType) /\ Head(v7) \in Dialog!ClosureType
  BY <1>1, DialogTakes
<1>3. ASSUME ~v11' PROVE DialogOrder'
  <2>1. /\ ~v11 /\ show # "expired" /\ Dialog!Alone /\ Dialog!InOrder
        /\ Dialog!OneOut /\ v10 = {}
        /\ v3 # None => v3 = v8 /\ v5 = v3 /\ v4 = None
        /\ v8 # None
    BY <1>1, <1>3, DialogOrdered, DialogTyped, WindowsAssumption
    DEF DialogOrder, Dialog!Alone
  <2>2. show \in Dialog!Ending \cup {"receipt", "refused"}
    BY <1>2, <2>1 DEF Dialog!ClosureType, Dialog!Ending
  <2> HIDE DEF show, send
  <2>3. CASE show = "refused"
    <3>1. UNCHANGED <<v3, v5>> /\ (v2 => v2') /\ v4' = send
      BY <1>1, <2>3 DEF show
    <3>5. v3 = None
      BY <1>1, <2>1, <2>3, DialogTaken DEF show, Dialog!Ending
    <3>2. Dialog!InOrder'
      BY <1>1, <2>1, <2>3, <3>1, <3>5, DialogRest DEF Dialog!InOrder, show
    <3>3. Dialog!OneOut'
      <4>1. \A what : "refused" \notin what =>
              (Dialog!Told(what)' <=> Dialog!Told(what))
        BY <1>1, <2>1, <2>3, DialogTaken DEF show
      <4> QED BY <1>1, <2>1, <3>1, <4>1 DEF Dialog!OneOut, Dialog!Out
    <3>4. Dialog!LastOut' \/ (v4' = v8 /\ ~Dialog!Told({"refused"})')
      <4>1. CASE send = v8
        BY <1>1, <2>1, <2>3, <3>1, <4>1, DialogTaken DEF show, send
      <4>2. CASE send # v8
        <5>1. Dialog!Told({"refused"})
          BY <1>1, <2>1, <2>3, DialogTaken DEF show
        <5> QED BY <1>1, <2>1, <4>2, <5>1, DialogTaken
                DEF Dialog!Alone, send
      <4> QED BY <4>1, <4>2
    <3> QED BY <1>1, <2>1, <3>1, <3>2, <3>3, <3>4, <3>5
            DEF DialogOrder, Dialog!Alone
  <2>4. CASE show # "refused"
    <3>1. /\ send = v8 /\ show \in Dialog!Ending \cup {"receipt"}
          /\ \A i \in DOMAIN v7' : v7'[i].show \in {"receipt", "expired"}
      BY <1>1, <2>1, <2>2, <2>4, DialogTaken DEF show, send
    <3>2. ~Dialog!Told({"refused"})' /\ ~Dialog!Told({"sent"})'
          /\ ~Dialog!Told({"failed", "accepted", "rejected"})'
      BY <3>1 DEF Dialog!Told
    <3>3. /\ v3' = IF show \in {"sent", "accepted", "receipt"} THEN v8
                   ELSE None
          /\ v3' # None => v5' = v3' /\ v4' = None
          /\ v3' = None => v4' = v8
      BY <1>1, <2>1, <3>1, DialogTaken DEF show, send, Dialog!Ending
    <3>4. Dialog!InOrder'
      <4>1. ASSUME NEW i \in DOMAIN v7', v7'[i].show = "receipt"
            PROVE  v3' # None
        <5>1. \A j \in DOMAIN v7' : v7'[j].show # "sent"
          BY <3>1
        <5>2. v3 # None \/ show = "sent"
          BY <1>1, <2>1, <4>1, <5>1, DialogRest DEF show
        <5> QED BY <1>1, <2>1, <3>1, <3>3, <5>2, DialogTaken
                DEF show, Dialog!Ending
      <4> QED BY <1>1, <2>1, <3>1, <4>1, DialogRest
              DEF Dialog!InOrder, Dialog!Ending
    <3>5. Dialog!OneOut'
      <4> SUFFICES ASSUME NEW t \in Tasks, Dialog!Out(t)
                   PROVE  /\ show = "sent" /\ v6[t].kind = "plain"
                          /\ v6[t].at = "sent" /\ ~Dialog!Told({"receipt"})
                          /\ v6[t].send = v8
                          /\ \A u \in Tasks : Dialog!Out(u) => u = t
        <5>1. Dialog!Told({"failed", "accepted", "rejected", "receipt"})' =>
                Dialog!Told({"receipt"})
          BY <1>1, <2>1, <3>2, DialogTaken DEF Dialog!Told
        <5> QED BY <1>1, <2>1, <3>2, <3>3, <5>1
                DEF Dialog!OneOut, Dialog!Out
      <4>1. Dialog!Told({show})
        BY <1>1, <2>1, DialogTaken DEF show
      <4>2. /\ ~Dialog!Told({"failed", "accepted", "rejected", "receipt"})
            /\ v6[t].send = v8 /\ \A u \in Tasks : Dialog!Out(u) => u = t
            /\ v6[t].kind = "sponsored" \/ v6[t].at # "sent" =>
                 ~Dialog!Told({"sent"})
        BY <2>1 DEF Dialog!OneOut
      <4>3. show = "sent"
        BY <3>1, <4>1, <4>2 DEF Dialog!Told, Dialog!Ending
      <4>4. v6[t].kind \in {"plain", "sponsored"}
        BY <1>1, DialogTyped DEF Dialog!Out, DialogTasks, Dialog!TransferType
      <4>5. ~Dialog!Told({"receipt"})
        BY <4>2 DEF Dialog!Told
      <4> QED BY <4>1, <4>2, <4>3, <4>4, <4>5
    <3> QED BY <1>1, <2>1, <3>2, <3>3, <3>4, <3>5
            DEF DialogOrder, Dialog!Alone
  <2> QED BY <2>3, <2>4
<1> QED BY <1>1, <1>2, <1>3 DEF DialogOrder

\* The type of all but the transfers and the closures.
DialogFields ==
    /\ v1 \in BOOLEAN /\ v2 \in BOOLEAN /\ v11 \in BOOLEAN
    /\ {v3, v4, v5} \subseteq Dialog!Sends \cup {None}
    /\ v8 \in 0..MaxConfirms /\ v9 \in 0..MaxConfirms
    /\ v10 \subseteq Dialog!Sends

LEMMA DialogTypedAfter ==
    ASSUME v6' \in [Tasks -> DialogTasks], v7' \in Seq(Dialog!ClosureType),
           DialogFields', DialogOrder', Dialog!Counted'
    PROVE  Dialog!IInv'
<1>1. ~Dialog!Outstanding' => ~Dialog!LastOut'
  BY DEF Dialog!Outstanding, Dialog!LastOut, Dialog!Out
<1> QED BY <1>1 DEF Dialog!IInv, Dialog!TypeOK, Dialog!OneSend, Dialog!Alone,
        DialogTasks, DialogFields, DialogOrder

LEMMA DialogPending ==
    ASSUME Dialog!TypeOK
    PROVE  /\ IsFiniteSet(Dialog!Pending)
           /\ Cardinality(Dialog!Pending) \in Nat
<1>1. IsFiniteSet(Dialog!Pending)
  BY NodeAssumption, FS_Subset DEF Dialog!Pending
<1> QED BY <1>1, FS_CardinalityType

LEMMA DialogCounts ==
    \A S : Dialog!Cardinality(S) = Cardinality(S)
BY DEF Dialog!Cardinality, Cardinality

\* A task that begins, or that has broadcast or given up.
LEMMA DialogPends ==
    ASSUME Dialog!TypeOK, NEW t \in Tasks,
           Dialog!Pending' = Dialog!Pending \cup {t}
             \/ Dialog!Pending' = Dialog!Pending
    PROVE  /\ Dialog!Cardinality(Dialog!Pending') \in Nat
           /\ Dialog!Cardinality(Dialog!Pending')
                <= Dialog!Cardinality(Dialog!Pending) + 1
           /\ Dialog!Cardinality(Dialog!Pending) \in Nat
BY DialogPending, DialogCounts, FS_AddElement

LEMMA DialogDone ==
    ASSUME Dialog!TypeOK, NEW t \in Dialog!Pending,
           Dialog!Pending' = Dialog!Pending \ {t}
    PROVE  /\ Dialog!Cardinality(Dialog!Pending) \in Nat
           /\ Dialog!Cardinality(Dialog!Pending') =
                Dialog!Cardinality(Dialog!Pending) - 1
           /\ Dialog!Cardinality(Dialog!Pending) >= 1
<1>1. /\ Cardinality(Dialog!Pending \ {t}) = Cardinality(Dialog!Pending) - 1
      /\ Cardinality(Dialog!Pending \ {t}) \in Nat
  BY DialogPending, FS_RemoveElement, FS_CardinalityType
<1> QED BY <1>1, DialogPending, DialogCounts

LEMMA DialogCounted ==
    ASSUME Dialog!IInv, Dialog!Next
    PROVE  Dialog!Counted' /\ v9' \in 0..MaxConfirms
<1>1. /\ Dialog!TypeOK /\ v8 \in Nat /\ v9 \in Nat /\ v8 <= MaxConfirms
      /\ v9 + Dialog!Cardinality(Dialog!Pending) <= v8
      /\ Dialog!Cardinality(Dialog!Pending) \in Nat
      /\ v6 \in [Tasks -> DialogTasks]
  BY DialogTyped, DialogPending, DialogCounts DEF Dialog!IInv, Dialog!Counted
<1>2. CASE UNCHANGED <<v6, v9>> /\ v8' \in {v8, v8 + 1}
  <2>1. Dialog!Pending' = Dialog!Pending
    BY <1>2 DEF Dialog!Pending
  <2>2. v9' + Dialog!Cardinality(Dialog!Pending') <= v8'
    BY <1>1, <1>2, <2>1
  <2> QED BY <1>1, <1>2, <2>2, WindowsAssumption DEF Dialog!Counted
<1>3. ASSUME NEW t \in Tasks, Dialog!Send(t) \/ Dialog!SendSponsored(t)
      PROVE  Dialog!Counted' /\ v9' \in 0..MaxConfirms
  <2>1. PICK kind \in {"plain", "sponsored"} :
          Dialog!Confirm /\ Dialog!Begins(t, kind)
    BY <1>3 DEF Dialog!Send, Dialog!SendSponsored
  <2>2. v9' = v9 /\ v8' = v8 + 1
    BY <1>3 DEF Dialog!Send, Dialog!SendSponsored, Dialog!Confirm
  <2>3. \A u \in Tasks : u # t => v6'[u] = v6[u]
    BY <1>1, <2>1, DialogBegins
  <2>4. v6'[t].kind = kind /\ v6'[t].at = "begun" /\ v6[t].kind = "none"
    BY <1>1, <2>1, DialogBegins DEF Dialog!Begins, Dialog!Idle
  <2>5. Dialog!Pending' = Dialog!Pending \cup {t}
          \/ Dialog!Pending' = Dialog!Pending
    BY <2>1, <2>3, <2>4 DEF Dialog!Pending
  <2>6. v9' + Dialog!Cardinality(Dialog!Pending') <= v8'
    BY <1>1, <2>2, <2>5, DialogPends
  <2> QED BY <1>1, <2>2, <2>6, WindowsAssumption DEF Dialog!Counted
<1>4. ASSUME NEW t \in Tasks, v6[t].kind = "plain", v6[t].at # "sent",
             \/ Dialog!Ends(t)
             \/ v6'[t].at = "sent" /\ \A u \in Tasks : u # t => v6'[u] = v6[u],
             v9' \in {v9, v9 + 1}, v8' = v8
      PROVE  Dialog!Counted' /\ v9' \in 0..MaxConfirms
  <2>1. t \in Dialog!Pending /\ Dialog!Pending' = Dialog!Pending \ {t}
    BY <1>1, <1>4, DialogEnds DEF Dialog!Pending, Dialog!Idle
  <2>2. PICK c \in Nat, n \in Nat, k \in Nat :
            c = Dialog!Cardinality(Dialog!Pending) /\ n = v9 /\ k = v8
    BY <1>1
  <2>3. PICK d, m : d = Dialog!Cardinality(Dialog!Pending') /\ m = v9'
    OBVIOUS
  <2>4. d = c - 1 /\ c >= 1
    BY <1>1, <2>1, <2>2, <2>3, DialogDone
  <2>5. n + c <= k /\ m \in {n, n + 1} /\ k <= MaxConfirms
    BY <1>1, <1>4, <2>2, <2>3
  <2>6. m + d <= k /\ m \in 0..MaxConfirms
    BY <2>2, <2>4, <2>5, WindowsAssumption
  <2>7. /\ v9' + Dialog!Cardinality(Dialog!Pending') <= v8'
        /\ v9' \in 0..MaxConfirms
    BY <1>4, <2>2, <2>3, <2>6
  <2> QED BY <1>4, <2>7 DEF Dialog!Counted
<1>5. ASSUME NEW t \in Tasks, Dialog!NothingSigned(t)
      PROVE  Dialog!Counted' /\ v9' \in 0..MaxConfirms
  BY <1>4, <1>5 DEF Dialog!NothingSigned, Dialog!At
<1>6. ASSUME NEW t \in Tasks, Dialog!Broadcast(t)
      PROVE  Dialog!Counted' /\ v9' \in 0..MaxConfirms
  <2>1. /\ v6[t].kind = "plain" /\ v6[t].at = "priced"
        /\ Dialog!Goes(t, "sent") \/ Dialog!Ends(t)
        /\ v9' \in {v9, v9 + 1} /\ v8' = v8
    BY <1>6 DEF Dialog!Broadcast, Dialog!At
  <2>2. CASE Dialog!Goes(t, "sent")
    <3>1. v6[t].nonce \in 0..MaxConfirms
      BY <1>1, <2>1 DEF DialogTasks, Dialog!TransferType, Dialog!Idle
    <3>2. v6'[t].at = "sent" /\ \A u \in Tasks : u # t => v6'[u] = v6[u]
      BY <1>1, <2>1, <2>2, <3>1, DialogMoves DEF Dialog!Goes
    <3> QED BY <1>4, <2>1, <3>2
  <2> QED BY <1>4, <2>1, <2>2
<1>7. ASSUME NEW t \in Tasks, UNCHANGED <<v8, v9>>,
             Dialog!Pending' = Dialog!Pending
      PROVE  Dialog!Counted' /\ v9' \in 0..MaxConfirms
  <2>1. v9' + Dialog!Cardinality(Dialog!Pending') <= v8'
    BY <1>1, <1>7
  <2> QED BY <1>1, <1>7, <2>1, WindowsAssumption DEF Dialog!Counted
<1>8. ASSUME NEW t \in Tasks, Dialog!FetchNonce(t)
      PROVE  Dialog!Counted' /\ v9' \in 0..MaxConfirms
  <2>1. v6[t].kind = "plain" /\ v6[t].at = "begun" /\ UNCHANGED <<v8, v9>>
    BY <1>8 DEF Dialog!FetchNonce, Dialog!At
  <2>2. v9 \in 0..MaxConfirms
    BY <1>1 DEF Dialog!TypeOK
  <2>3. /\ v6'[t].kind = "plain" /\ v6'[t].at = "priced"
        /\ \A u \in Tasks : u # t => v6'[u] = v6[u]
    BY <1>1, <1>8, <2>1, <2>2, DialogMoves DEF Dialog!FetchNonce
  <2>4. Dialog!Pending' = Dialog!Pending
    BY <2>1, <2>3 DEF Dialog!Pending
  <2> QED BY <1>7, <2>1, <2>4
<1>9. ASSUME NEW t \in Tasks, Dialog!PollReceipt(t) \/ Dialog!Sponsored(t)
      PROVE  Dialog!Counted' /\ v9' \in 0..MaxConfirms
  <2>1. /\ t \notin Dialog!Pending /\ Dialog!Ends(t) /\ UNCHANGED <<v8, v9>>
    BY <1>9 DEF Dialog!PollReceipt, Dialog!Sponsored, Dialog!At,
                Dialog!Pending
  <2>2. Dialog!Pending' = Dialog!Pending
    BY <1>1, <2>1, DialogEnds DEF Dialog!Pending, Dialog!Idle
  <2> QED BY <1>7, <2>1, <2>2
<1>10. CASE \/ Dialog!Open \/ Dialog!SendRefused \/ Dialog!Close
            \/ Dialog!SessionExpires \/ Dialog!UiShows
  BY <1>2, <1>10 DEF Dialog!Open, Dialog!SendRefused, Dialog!Confirm,
     Dialog!Close, Dialog!SessionExpires, Dialog!UiShows
<1> QED BY <1>3, <1>5, <1>6, <1>8, <1>9, <1>10 DEF Dialog!Next

LEMMA DialogFieldsKept ==
    ASSUME Dialog!IInv, Dialog!Next
    PROVE  DialogFields'
<1>1. Dialog!TypeOK /\ DialogFields
  BY DEF Dialog!IInv, Dialog!TypeOK, DialogFields
<1>2. CASE Dialog!UiShows
  <2>1. Head(v7).send \in Dialog!Sends \cup {None}
    BY <1>1, <1>2, DialogTakes DEF Dialog!UiShows, Dialog!ClosureType
  <2>2. v1' \in BOOLEAN /\ v2' \in BOOLEAN /\ v11' \in BOOLEAN
    BY <1>1, <1>2 DEF Dialog!UiShows, DialogFields
  <2>3. /\ v3' \in Dialog!Sends \cup {None} /\ v4' \in Dialog!Sends \cup {None}
        /\ v5' \in Dialog!Sends \cup {None}
    BY <1>1, <1>2, <2>1 DEF Dialog!UiShows, DialogFields
  <2>4. UNCHANGED <<v8, v9, v10>>
    BY <1>2 DEF Dialog!UiShows
  <2> QED BY <1>1, <2>2, <2>3, <2>4 DEF DialogFields
<1>3. CASE Dialog!Open \/ Dialog!Close \/ Dialog!SessionExpires
  <2>1. v1' \in BOOLEAN /\ v2' \in BOOLEAN /\ v11' \in BOOLEAN
    BY <1>1, <1>3 DEF Dialog!Open, Dialog!Close, Dialog!SessionExpires,
                      DialogFields
  <2>2. /\ v3' \in {None, v3} /\ v4' \in {None, v4} /\ v5' \in {None, v5}
        /\ UNCHANGED <<v8, v9, v10>>
    BY <1>3 DEF Dialog!Open, Dialog!Close, Dialog!SessionExpires
  <2> QED BY <1>1, <2>1, <2>2 DEF DialogFields
<1>4. ASSUME Dialog!Confirm, v2' = v2 \/ v2' = TRUE,
             UNCHANGED <<v1, v3, v4, v5, v9, v10>>
      PROVE  DialogFields'
  <2>1. v8' \in 0..MaxConfirms
    BY <1>1, <1>4, WindowsAssumption DEF Dialog!Confirm, DialogFields
  <2>2. v2' \in BOOLEAN /\ v11' \in BOOLEAN
    BY <1>1, <1>4 DEF Dialog!Confirm, DialogFields
  <2> QED BY <1>1, <1>4, <2>1, <2>2 DEF DialogFields
<1>5. ASSUME NEW t \in Tasks, Dialog!Send(t) \/ Dialog!SendSponsored(t)
      PROVE  DialogFields'
  BY <1>4, <1>5 DEF Dialog!Send, Dialog!SendSponsored
<1>6. CASE Dialog!SendRefused
  BY <1>4, <1>6 DEF Dialog!SendRefused
<1>7. ASSUME NEW t \in Tasks, Dialog!Broadcast(t)
      PROVE  DialogFields'
  <2>1. v6[t] \in Dialog!TransferType
    BY <1>1, <1>7, DialogTyped
    DEF Dialog!Broadcast, Dialog!At, DialogTasks, Dialog!Idle
  <2>2. v10' \subseteq Dialog!Sends
    BY <1>1, <1>7, <2>1
    DEF Dialog!Broadcast, Dialog!TransferType, DialogFields
  <2> QED BY <1>1, <1>7, <2>2, DialogCounted
          DEF Dialog!Broadcast, DialogFields
<1>8. ASSUME NEW t \in Tasks,
             \/ Dialog!FetchNonce(t) \/ Dialog!NothingSigned(t)
             \/ Dialog!PollReceipt(t) \/ Dialog!Sponsored(t)
      PROVE  DialogFields'
  <2>1. UNCHANGED <<v1, v2, v3, v4, v5, v8, v9, v10, v11>>
    BY <1>8 DEF Dialog!FetchNonce, Dialog!NothingSigned, Dialog!PollReceipt,
                Dialog!Sponsored
  <2> QED BY <1>1, <2>1 DEF DialogFields
<1> QED BY <1>2, <1>3, <1>5, <1>6, <1>7, <1>8 DEF Dialog!Next

LEMMA DialogInit == Dialog!Init => Dialog!IInv
<1> SUFFICES ASSUME Dialog!Init PROVE Dialog!IInv
  OBVIOUS
<1>1. /\ v1 = FALSE /\ v2 = FALSE /\ v3 = None /\ v4 = None /\ v5 = None
      /\ v6 = [t \in Tasks |-> Dialog!Idle] /\ v7 = <<>>
      /\ v8 = 0 /\ v9 = 0 /\ v10 = {} /\ v11 = FALSE
  BY DEF Dialog!Init
<1>2. 0 \in 0..MaxConfirms
  BY WindowsAssumption
<1>3. Dialog!TypeOK
  <2>1. v6 \in [Tasks -> Dialog!TransferType \cup {Dialog!Idle}]
    BY <1>1
  <2>2. v7 \in Seq(Dialog!ClosureType)
    BY <1>1
  <2>3. v10 \in SUBSET Dialog!Sends
    BY <1>1
  <2>4. /\ v1 \in BOOLEAN /\ v2 \in BOOLEAN /\ v11 \in BOOLEAN
        /\ v3 \in Dialog!Sends \cup {None} /\ v4 \in Dialog!Sends \cup {None}
        /\ v5 \in Dialog!Sends \cup {None}
    BY <1>1
  <2> QED BY <1>1, <1>2, <2>1, <2>2, <2>3, <2>4 DEF Dialog!TypeOK
<1>4. Dialog!Alone
  BY <1>1 DEF Dialog!Alone, Dialog!OneOut, Dialog!InOrder, Dialog!Told,
              Dialog!Out
<1>5. Dialog!Counted
  <2>1. Dialog!Pending = {}
    BY <1>1 DEF Dialog!Pending, Dialog!Idle
  <2>2. Dialog!Cardinality({}) = 0
    BY FS_EmptySet, DialogCounts
  <2> QED BY <1>1, <2>1, <2>2 DEF Dialog!Counted
<1> QED BY <1>1, <1>3, <1>4, <1>5 DEF Dialog!IInv, Dialog!OneSend

LEMMA DialogKeeps ==
    ASSUME Dialog!IInv, Dialog!Next
    PROVE  Dialog!IInv'
<1>1. /\ Dialog!TypeOK /\ v6 \in [Tasks -> DialogTasks]
      /\ v7 \in Seq(Dialog!ClosureType)
  BY DialogTyped DEF Dialog!IInv
<1>2. DialogFields' /\ Dialog!Counted'
  BY DialogFieldsKept, DialogCounted
<1>3. /\ v6' \in [Tasks -> DialogTasks] /\ v7' \in Seq(Dialog!ClosureType)
      /\ DialogOrder'
  <2>1. CASE Dialog!Open
    <3>1. UNCHANGED <<v2, v3, v4, v5, v6, v7, v8, v9, v10, v11>>
      BY <2>1 DEF Dialog!Open
    <3> QED BY <1>1, <3>1, DialogOrdered
            DEF DialogOrder, Dialog!Alone, Dialog!OneOut, Dialog!InOrder,
                Dialog!Told, Dialog!Out, Dialog!LastOut
  <2>2. CASE Dialog!SendRefused \/ Dialog!SessionExpires \/ Dialog!UiShows
    <3>1. v6' = v6
      BY <2>2 DEF Dialog!SendRefused, Dialog!SessionExpires, Dialog!UiShows
    <3> QED BY <1>1, <2>2, <3>1, DialogRefuses, DialogExpires, DialogShows
  <2>3. CASE Dialog!Close
    <3>1. UNCHANGED <<v6, v7>>
      BY <2>3 DEF Dialog!Close
    <3> QED BY <1>1, <2>3, <3>1, DialogCloses
  <2>4. ASSUME NEW t \in Tasks, \/ Dialog!Send(t) \/ Dialog!SendSponsored(t)
                                \/ Dialog!FetchNonce(t)
        PROVE  /\ v6' \in [Tasks -> DialogTasks]
               /\ v7' \in Seq(Dialog!ClosureType) /\ DialogOrder'
    <3>1. v7' = v7
      BY <2>4 DEF Dialog!Send, Dialog!SendSponsored, Dialog!FetchNonce
    <3> QED BY <1>1, <2>4, <3>1, DialogConfirmed, DialogPrices
  <2>5. ASSUME NEW t \in Tasks, \/ Dialog!NothingSigned(t)
                                \/ Dialog!PollReceipt(t)
                                \/ Dialog!Sponsored(t)
        PROVE  /\ v6' \in [Tasks -> DialogTasks]
               /\ v7' \in Seq(Dialog!ClosureType) /\ DialogOrder'
    <3>1. Dialog!Out(t)
      BY <2>5 DEF Dialog!Out, Dialog!Idle, Dialog!NothingSigned,
                  Dialog!PollReceipt, Dialog!Sponsored, Dialog!At
    <3>2. PICK show \in {"failed", "accepted", "rejected", "receipt"} :
            /\ Dialog!Ends(t) /\ Dialog!Post(show, v6[t].send)
            /\ UNCHANGED <<v2, v3, v4, v5, v8, v10, v11>>
            /\ show = "failed" => v6[t].kind = "plain" /\ v6[t].at # "sent"
            /\ show \in {"accepted", "rejected"} => v6[t].kind = "sponsored"
            /\ show = "receipt" => v6[t].kind = "plain" /\ v6[t].at = "sent"
      BY <2>5 DEF Dialog!NothingSigned, Dialog!PollReceipt, Dialog!Sponsored,
                  Dialog!At
    <3> QED BY <3>1, <3>2, DialogTells
  <2>6. ASSUME NEW t \in Tasks, Dialog!Broadcast(t)
        PROVE  /\ v6' \in [Tasks -> DialogTasks]
               /\ v7' \in Seq(Dialog!ClosureType) /\ DialogOrder'
    BY <2>6, DialogBroadcasts
  <2> QED BY <2>1, <2>2, <2>3, <2>4, <2>5, <2>6 DEF Dialog!Next
<1> QED BY <1>2, <1>3, DialogTypedAfter

LEMMA DialogStutters ==
    ASSUME Dialog!IInv, UNCHANGED Slots
    PROVE  Dialog!IInv'
<1>1. UNCHANGED <<v1, v2, v3, v4, v5, v6, v7, v8, v9, v10, v11>>
  BY DEF Slots
<1> QED BY <1>1 DEF Dialog!IInv, Dialog!TypeOK, Dialog!OneSend,
        Dialog!Outstanding, Dialog!Alone, Dialog!OneOut, Dialog!InOrder,
        Dialog!Told, Dialog!Out, Dialog!LastOut, Dialog!Counted,
        Dialog!Pending

LEMMA DialogInvariant ==
    ServicesSpec => [](focus = "send" => Dialog!IInv)
<1> DEFINE I == focus = "send" => Dialog!IInv
<1>1. ServicesInit => I
  BY WindowInits, DialogInit
<1>2. I /\ [ServicesNext]_serviceVars => I'
  BY WindowSteps, WindowStutters, DialogKeeps, DialogStutters
<1> QED BY <1>1, <1>2, PTL DEF ServicesSpec

\* As long as no transfer goes out beside another one, none reaches the node with
\* a nonce that was used, and the hash, receipt and error an open dialog shows are
\* those of the transfer confirmed last.
THEOREM OneSendSafety == ServicesSpec => []OneSend
<1>1. (focus = "send" => Dialog!IInv) => OneSend
  BY DEF OneSend, Dialog!IInv
<1> QED BY <1>1, DialogInvariant, PTL

-----------------------------------------------------------------------------
(* CrashTelemetry                                                          *)
(* Slots: v1 is session, v2 phase, v3 marker, v4 live, v5 crumb, v6        *)
(* crumbs, v7 records, v8 fate, v9 spoiled.                                *)

CrashRecords == [kind : {"panic", "unclean-exit"}, session : Crash!Sessions,
                 whole : BOOLEAN]

\* What the marker says of itself, once it is this launch's.
LEMMA CrashMarkers ==
    ASSUME v1 \in Crash!Sessions
    PROVE  /\ Crash!Torn \in Crash!MarkerType /\ Crash!Torn.session = v1
           /\ Crash!Whole \in Crash!MarkerType /\ Crash!Whole.session = v1
           /\ v1 \in Nat /\ 1 \in Crash!Sessions
BY WindowsAssumption
   DEF Crash!Torn, Crash!Whole, Crash!MarkerType, Crash!Sessions

\* A record is of the session of the marker it is made from.
LEMMA CrashRecorded ==
    ASSUME v7 \subseteq CrashRecords, NEW of \in Crash!MarkerType,
           NEW kind \in {"panic", "unclean-exit"},
           v7' = v7 \cup {Crash!Record(kind, of)}
    PROVE  /\ v7' \subseteq CrashRecords
           /\ \A r \in v7' : r \in v7 \/ (r.kind = kind /\ r.session = of.session)
           /\ \A s : Crash!Reported(s) => Crash!Reported(s)'
           /\ kind = "unclean-exit" => Crash!Reported(of.session)'
<1> DEFINE new == Crash!Record(kind, of)
<1>1. new \in CrashRecords /\ new.kind = kind /\ new.session = of.session
  BY DEF Crash!Record, CrashRecords, Crash!MarkerType
<1>2. v7' = v7 \cup {new}
  OBVIOUS
<1> HIDE DEF new
<1>3. \A s : Crash!Reported(s) => Crash!Reported(s)'
  BY <1>2 DEF Crash!Reported
<1>4. kind = "unclean-exit" => Crash!Reported(of.session)'
  BY <1>1, <1>2 DEF Crash!Reported
<1>5. v7' \subseteq CrashRecords
  BY <1>1, <1>2
<1>6. \A r \in v7' : r \in v7 \/ (r.kind = kind /\ r.session = of.session)
  BY <1>1, <1>2
<1> QED BY <1>3, <1>4, <1>5, <1>6

LEMMA CrashBegins == Crash!Init => Crash!IInv
<1> SUFFICES ASSUME Crash!Init PROVE Crash!IInv
  OBVIOUS
<1>1. /\ v1 = 1 /\ v2 = "scan" /\ v3 = None /\ v4 = FALSE
      /\ v5 = [t \in Crash!Threads |-> "idle"] /\ v6 = MaxCrumbs
      /\ v7 = {} /\ v9 = {}
      /\ v8 = [s \in Crash!Sessions |-> IF s = 1 THEN "alive" ELSE "none"]
  BY DEF Crash!Init
<1>2. 1 \in Crash!Sessions /\ MaxCrumbs \in 0..MaxCrumbs
  BY WindowsAssumption DEF Crash!Sessions
<1>3. Crash!TypeOK
  BY <1>1, <1>2 DEF Crash!TypeOK
<1>4. Crash!Crumbs
  BY <1>1 DEF Crash!Crumbs
<1>5. Crash!Earlier
  BY <1>1, <1>2 DEF Crash!Earlier, Crash!Marked
<1>6. Crash!Told
  BY <1>1 DEF Crash!Told
<1> QED BY <1>3, <1>4, <1>5, <1>6 DEF Crash!IInv

\* What main does before the marker's path is set, step by step.
LEMMA CrashScans ==
    ASSUME Crash!IInv,
           Crash!Scan \/ Crash!Convert \/ Crash!RemoveStale
    PROVE  Crash!IInv'
<1>1. /\ Crash!TypeOK /\ v7 \subseteq CrashRecords
      /\ UNCHANGED <<v1, v4, v5, v6, v8>>
  BY DEF Crash!IInv, Crash!TypeOK, CrashRecords, Crash!Scan, Crash!Convert,
         Crash!RemoveStale, Crash!Keep
<1>2. Crash!Crumbs'
  BY <1>1 DEF Crash!IInv, Crash!Crumbs, Crash!Scan, Crash!Convert,
     Crash!RemoveStale, Crash!Main
<1>3. CASE Crash!Scan
  <2>1. v2 = "scan" /\ v2' = (IF v3 = None THEN "init" ELSE "convert")
        /\ UNCHANGED <<v3, v7, v9>>
    BY <1>3 DEF Crash!Scan, Crash!Main
  <2>2. Crash!TypeOK'
    BY <1>1, <2>1 DEF Crash!TypeOK
  <2>3. Crash!Earlier'
    BY <1>1, <2>1 DEF Crash!IInv, Crash!Earlier, Crash!Marked
  <2>4. Crash!Told'
    BY <1>1, <2>1 DEF Crash!IInv, Crash!Told, Crash!Marked, Crash!Reported
  <2> QED BY <1>2, <2>2, <2>3, <2>4 DEF Crash!IInv
<1>4. CASE Crash!Convert
  <2>1. v2 = "convert" /\ v2' = "remove" /\ v3' = v3
    BY <1>4 DEF Crash!Convert, Crash!Main
  <2>2. v3 # None /\ v3 \in Crash!MarkerType /\ v3.session # v1
        /\ v3.session <= v1 /\ v3.session \in Crash!Sessions
    BY <1>1, <2>1 DEF Crash!IInv, Crash!Earlier, Crash!TypeOK, Crash!Marked,
       Crash!MarkerType
  <2>3. v3.session < v1
    BY <1>1, <2>2 DEF Crash!TypeOK, Crash!Sessions
  <2>4. CASE v7' = v7 \cup {Crash!Record("unclean-exit", v3)} /\ v9' = v9
    <3> PICK of \in Crash!MarkerType : of = v3
      BY <2>2
    <3>1. /\ v7' \subseteq CrashRecords /\ Crash!Reported(of.session)'
          /\ \A r \in v7' : \/ r \in v7
                            \/ r.kind = "unclean-exit" /\ r.session = of.session
          /\ \A s : Crash!Reported(s) => Crash!Reported(s)'
      BY <1>1, <2>4, CrashRecorded
    <3>2. Crash!TypeOK'
      BY <1>1, <2>1, <2>4, <3>1 DEF Crash!TypeOK, CrashRecords
    <3>3. Crash!Earlier'
      BY <1>1, <2>1, <2>2, <2>3, <3>1 DEF Crash!IInv, Crash!Earlier
    <3>4. ASSUME NEW s \in Crash!Sessions \ v9
          PROVE  /\ v8[s] = "dead" => Crash!Reported(s)'
                 /\ v8[s] = "clean" =>
                        ~Crash!Reported(s)' /\ ~Crash!Marked(s)'
      <4>1. v8[s] = "dead" => Crash!Reported(s)'
        BY <2>1, <3>1 DEF Crash!IInv, Crash!Told, Crash!Marked
      <4>2. v8[s] = "clean" => v3.session # s /\ ~Crash!Reported(s)
        BY <2>2 DEF Crash!IInv, Crash!Told, Crash!Marked
      <4>3. v8[s] = "clean" => ~Crash!Reported(s)' /\ ~Crash!Marked(s)'
        BY <2>1, <4>2, <3>1 DEF Crash!Reported, Crash!Marked
      <4> QED BY <4>1, <4>3
    <3>5. Crash!Told'
      BY <1>1, <2>1, <2>4, <3>4 DEF Crash!Told, Crash!Sessions
    <3> QED BY <1>2, <3>2, <3>3, <3>5 DEF Crash!IInv
  <2>5. CASE v9' = v9 \cup {v3.session} /\ v7' = v7
    <3>1. Crash!TypeOK'
      BY <1>1, <2>1, <2>2, <2>5 DEF Crash!TypeOK
    <3>2. Crash!Earlier'
      BY <1>1, <2>1, <2>5 DEF Crash!IInv, Crash!Earlier
    <3>3. Crash!Told'
      BY <1>1, <2>1, <2>5
      DEF Crash!IInv, Crash!Told, Crash!Marked, Crash!Reported
    <3>4. Crash!Crumbs'
      BY <1>2
    <3> QED BY <3>1, <3>2, <3>3, <3>4 DEF Crash!IInv
  <2> QED BY <1>4, <2>4, <2>5 DEF Crash!Convert
<1>5. CASE Crash!RemoveStale
  <2>1. v2 = "remove" /\ v2' = "init" /\ v3' \in {None, v3}
        /\ UNCHANGED <<v7, v9>>
    BY <1>5 DEF Crash!RemoveStale, Crash!Main
  <2>2. Crash!TypeOK'
    BY <1>1, <2>1 DEF Crash!TypeOK
  <2>3. Crash!Earlier'
    BY <1>1, <2>1 DEF Crash!IInv, Crash!Earlier
  <2>4. Crash!Told'
    BY <1>1, <2>1 DEF Crash!IInv, Crash!Told, Crash!Marked, Crash!Reported
  <2> QED BY <1>2, <2>2, <2>3, <2>4 DEF Crash!IInv
<1> QED BY <1>3, <1>4, <1>5

\* The marker is this launch's from here on: a session that is not alive is
\* another one.
LEMMA CrashMarks ==
    ASSUME Crash!IInv, v3' \in {None, v3, Crash!Torn, Crash!Whole},
           UNCHANGED <<v1, v8>>, v9 \subseteq v9', v9' \subseteq Crash!Sessions,
           v2 \notin {"scan", "convert", "down"}, v2' \notin {"scan", "convert"},
           v7' = v7,
           v3' \in {Crash!Torn, Crash!Whole} =>
               v2' # "exiting" \/ v1 \in v9',
           v2' = "exiting" => v2 = "exiting" \/ v1 \in v9'
               \/ v3' = None,
           v2' # "down"
    PROVE  Crash!Earlier' /\ Crash!Told'
<1>1. /\ Crash!TypeOK /\ v1 \in Crash!Sessions
      /\ Crash!Torn \in Crash!MarkerType /\ Crash!Torn.session = v1
      /\ Crash!Whole \in Crash!MarkerType /\ Crash!Whole.session = v1
      /\ v1 \in Nat
  BY CrashMarkers DEF Crash!IInv, Crash!TypeOK
<1>2. v3' # None => v3'.session = v1 \/ v3' = v3
  BY <1>1
<1>3. Crash!Earlier'
  BY <1>1, <1>2 DEF Crash!IInv, Crash!Earlier, Crash!Marked
<1>4. Crash!Told'
  <2>1. ASSUME NEW s \in Crash!Sessions \ v9'
        PROVE  /\ v8[s] = "dead" => Crash!Reported(s)
               /\ v8[s] = "clean" => ~Crash!Reported(s) /\ ~Crash!Marked(s)'
               /\ s = v1 /\ v2' = "exiting" => ~Crash!Marked(s)'
    BY <1>1, <1>2 DEF Crash!IInv, Crash!Told, Crash!Marked, Crash!Earlier
  <2> QED BY <2>1 DEF Crash!Told, Crash!Sessions, Crash!Reported
<1> QED BY <1>3, <1>4

LEMMA CrashMarksPath ==
    ASSUME Crash!IInv, Crash!InitMarker \/ Crash!SetMarkerPath
    PROVE  Crash!IInv'
<1>1. /\ Crash!TypeOK /\ v1 \in Crash!Sessions
      /\ Crash!Torn \in Crash!MarkerType /\ Crash!Whole \in Crash!MarkerType
  BY CrashMarkers DEF Crash!IInv, Crash!TypeOK
<1>2. /\ v2 \in {"init", "inited"} /\ v2' \in {"inited", "boot"}
      /\ v2' = "inited" <=> v2 = "init"
      /\ UNCHANGED <<v1, v5, v6, v7, v8>> /\ v9' \in {v9, v9 \cup {v1}}
      /\ v3' \in {v3, Crash!Torn, Crash!Whole}
  BY DEF Crash!InitMarker, Crash!SetMarkerPath, Crash!Main, Crash!Keep
<1>3. v9 \subseteq v9' /\ v9' \subseteq Crash!Sessions
  BY <1>1, <1>2 DEF Crash!TypeOK
<1>4. Crash!Earlier' /\ Crash!Told'
  BY <1>2, <1>3, CrashMarks
<1>5. Crash!Crumbs'
  <2>1. /\ \A t \in Crash!Threads : v5[t] = "idle"
        /\ v2' = "boot" => v4' \/ v1 \in v9'
        /\ v4' => v2' = "boot"
    <3>1. ~v4 /\ \A t \in Crash!Threads : v5[t] = "idle"
      BY <1>2 DEF Crash!IInv, Crash!Crumbs
    <3>2. CASE Crash!InitMarker
      BY <3>1, <3>2 DEF Crash!InitMarker, Crash!Main
    <3>3. CASE Crash!SetMarkerPath
      BY <3>1, <3>3 DEF Crash!SetMarkerPath, Crash!Main
    <3> QED BY <3>2, <3>3
  <2> QED BY <1>2, <2>1 DEF Crash!Crumbs, Crash!Threads
<1>6. Crash!TypeOK'
  <2>1. v4' \in BOOLEAN
    BY <1>1 DEF Crash!InitMarker, Crash!SetMarkerPath, Crash!TypeOK
  <2>2. v3' \in Crash!MarkerType \cup {None}
    BY <1>1, <1>2 DEF Crash!TypeOK
  <2> QED BY <1>1, <1>2, <1>3, <2>1, <2>2 DEF Crash!TypeOK
<1> QED BY <1>4, <1>5, <1>6 DEF Crash!IInv

\* The breadcrumbs of a session that goes on, and of one on its way out.
LEMMA CrashLeaves ==
    ASSUME Crash!IInv, NEW t \in Crash!Threads, Crash!Crumb(t)
    PROVE  Crash!IInv'
<1>1. /\ Crash!TypeOK /\ v1 \in Crash!Sessions
      /\ Crash!Torn \in Crash!MarkerType /\ Crash!Whole \in Crash!MarkerType
  BY CrashMarkers DEF Crash!IInv, Crash!TypeOK
<1>2. /\ UNCHANGED <<v1, v2, v4, v6, v7, v8>> /\ v9' \in {v9, v9 \cup {v1}}
      /\ v3' \in {v3, Crash!Torn, Crash!Whole}
      /\ v5[t] # "idle"
      /\ \E at \in {"idle", "torn"} : v5' = [v5 EXCEPT ![t] = at]
  BY DEF Crash!Crumb, Crash!TruncateMarker, Crash!WriteMarker
<1>3. v2 \in {"loop", "running", "exiting"}
  BY <1>2 DEF Crash!IInv, Crash!Crumbs
<1>4. /\ v3' # v3 /\ v2 = "exiting" => v1 \in v9'
      /\ v2 = "exiting" /\ v5'[t] = "torn" => v1 \in v9'
  BY <1>1, <1>2
  DEF Crash!IInv, Crash!Crumbs, Crash!Crumb, Crash!TruncateMarker,
      Crash!WriteMarker, Crash!TypeOK
<1>5. v9 \subseteq v9' /\ v9' \subseteq Crash!Sessions
  BY <1>1, <1>2 DEF Crash!TypeOK
<1>6. /\ v5' \in [Crash!Threads -> {"idle", "set", "torn"}]
      /\ \A u \in Crash!Threads : u # t => v5'[u] = v5[u]
  BY <1>1, <1>2 DEF Crash!TypeOK
<1>7. Crash!TypeOK'
  BY <1>1, <1>2, <1>5, <1>6 DEF Crash!TypeOK
<1>8. Crash!Crumbs'
  <2>1. ASSUME v2 = "exiting", NEW u \in Crash!Threads, v5'[u] = "torn"
        PROVE  v1 \in v9'
    BY <1>2, <1>4, <1>5, <1>6, <2>1 DEF Crash!IInv, Crash!Crumbs
  <2> QED BY <1>2, <1>3, <1>5, <2>1 DEF Crash!IInv, Crash!Crumbs,
          Crash!Threads
<1>9. Crash!Earlier' /\ Crash!Told'
  <2>1. CASE v3' = v3
    BY <1>2, <1>5, <2>1 DEF Crash!IInv, Crash!Earlier, Crash!Told,
       Crash!Marked, Crash!Reported, Crash!Sessions
  <2>2. CASE v3' # v3
    BY <1>2, <1>3, <1>4, <1>5, <2>2, CrashMarks
  <2> QED BY <2>1, <2>2
<1> QED BY <1>7, <1>8, <1>9 DEF Crash!IInv

\* Main and the tasks go on, without touching the marker.
LEMMA CrashGoes ==
    ASSUME Crash!IInv,
           \/ Crash!Boot \/ Crash!EventLoop
           \/ \E t \in Tasks : Crash!NodeCrumb(t)
    PROVE  Crash!IInv'
<1>1. Crash!TypeOK /\ UNCHANGED <<v1, v3, v4, v7, v8, v9>>
  BY DEF Crash!IInv, Crash!Boot, Crash!EventLoop, Crash!MainCrumb,
         Crash!NodeCrumb
<1>2. /\ v2 \in {"boot", "loop", "running", "exiting"}
      /\ v2' \in {"loop", "running", "exiting"}
      /\ v2' = "exiting" <=> v2 = "exiting"
  BY DEF Crash!Boot, Crash!EventLoop, Crash!MainCrumb, Crash!NodeCrumb,
         Crash!Main
<1>3. PICK t \in Crash!Threads : Crash!SetState(t)
  BY DEF Crash!Boot, Crash!EventLoop, Crash!MainCrumb, Crash!NodeCrumb,
         Crash!Threads
<1>4. /\ v5' \in [Crash!Threads -> {"idle", "set", "torn"}]
      /\ \A u \in Crash!Threads : v5'[u] = "torn" => v5[u] = "torn"
  BY <1>1, <1>3 DEF Crash!SetState, Crash!TypeOK
<1>5. v6' \in 0..MaxCrumbs
  <2>1. v6 \in 0..MaxCrumbs /\ (v6' = v6 \/ (v6 > 0 /\ v6' = v6 - 1))
    BY <1>1 DEF Crash!TypeOK, Crash!Boot, Crash!EventLoop, Crash!MainCrumb,
       Crash!NodeCrumb
  <2> QED BY <2>1, WindowsAssumption
<1>6. Crash!TypeOK'
  BY <1>1, <1>2, <1>4, <1>5 DEF Crash!TypeOK
<1>7. Crash!Crumbs'
  BY <1>1, <1>2, <1>4 DEF Crash!IInv, Crash!Crumbs, Crash!Threads
<1>8. Crash!Earlier' /\ Crash!Told'
  BY <1>1, <1>2 DEF Crash!IInv, Crash!Earlier, Crash!Told, Crash!Marked,
     Crash!Reported, Crash!Sessions
<1> QED BY <1>6, <1>7, <1>8 DEF Crash!IInv

\* The hook writes a record, which is not of an unclean exit.
LEMMA CrashPanics ==
    ASSUME Crash!IInv,
           v7' = v7 \/ v7' = v7 \cup {Crash!Record("panic", Crash!Whole)}
    PROVE  /\ v7' \subseteq CrashRecords
           /\ \A r \in v7' : r.kind = "unclean-exit" => r \in v7
           /\ \A r \in v7 : r \in v7'
<1>1. v7 \subseteq CrashRecords /\ Crash!Whole \in Crash!MarkerType
  BY CrashMarkers DEF Crash!IInv, Crash!TypeOK, CrashRecords
<1> QED BY <1>1, CrashRecorded

LEMMA CrashHooks ==
    ASSUME Crash!IInv, Crash!TaskPanics
    PROVE  Crash!IInv'
<1>1. /\ Crash!TypeOK /\ UNCHANGED <<v1, v2, v3, v4, v5, v6, v8, v9>>
      /\ v7' = v7 \cup {Crash!Record("panic", Crash!Whole)}
  BY DEF Crash!IInv, Crash!TaskPanics
<1>2. /\ v7' \subseteq CrashRecords
      /\ \A r \in v7' : r.kind = "unclean-exit" => r \in v7
      /\ \A r \in v7 : r \in v7'
  BY <1>1, CrashPanics
<1>3. Crash!TypeOK'
  BY <1>1, <1>2 DEF Crash!TypeOK, CrashRecords
<1>4. Crash!Crumbs' /\ Crash!Earlier'
  BY <1>1, <1>2 DEF Crash!IInv, Crash!Crumbs, Crash!Earlier, Crash!Marked,
     Crash!Threads
<1>5. Crash!Told'
  BY <1>1, <1>2 DEF Crash!IInv, Crash!Told, Crash!Marked, Crash!Reported,
     Crash!Sessions
<1> QED BY <1>3, <1>4, <1>5 DEF Crash!IInv

\* The process ends, by its death or by itself.
LEMMA CrashEnds ==
    ASSUME Crash!IInv, Crash!Dies \/ Crash!Exits
    PROVE  Crash!IInv'
<1>1. /\ Crash!TypeOK /\ UNCHANGED <<v1, v3, v6, v9>>
      /\ v2' = "down" /\ v4' = FALSE
      /\ v5' = [t \in Crash!Threads |-> "idle"] /\ v2 # "down"
      /\ v7' = v7 \/ v7' = v7 \cup {Crash!Record("panic", Crash!Whole)}
  BY DEF Crash!IInv, Crash!Dies, Crash!Exits, Crash!Ends
<1>2. /\ v7' \subseteq CrashRecords
      /\ \A r \in v7' : r.kind = "unclean-exit" => r \in v7
      /\ \A r \in v7 : r \in v7'
  BY <1>1, CrashPanics
<1>3. PICK how \in {"clean", "dead", "unmarked"} :
        /\ v8' = [v8 EXCEPT ![v1] = how]
        /\ how = "dead" => Crash!Marked(v1)
        /\ how = "clean" => v2 = "exiting"
  BY DEF Crash!Dies, Crash!Exits, Crash!Ends, Crash!Dead, Crash!Marked
<1>4. /\ v8' \in [Crash!Sessions ->
                     {"none", "alive", "clean", "dead", "unmarked"}]
      /\ v8'[v1] = how /\ v1 \in Crash!Sessions
      /\ \A s \in Crash!Sessions : s # v1 => v8'[s] = v8[s]
  BY <1>1, <1>3 DEF Crash!TypeOK
<1>5. Crash!TypeOK'
  BY <1>1, <1>2, <1>4 DEF Crash!TypeOK, CrashRecords
<1>6. Crash!Crumbs'
  BY <1>1 DEF Crash!Crumbs, Crash!Threads
<1>7. Crash!Earlier'
  BY <1>1, <1>2 DEF Crash!IInv, Crash!Earlier, Crash!Marked
<1>8. Crash!Told'
  <2>1. \A s : Crash!Reported(s)' <=> Crash!Reported(s)
    BY <1>2 DEF Crash!Reported
  <2>2. ~Crash!Reported(v1)
    BY <1>4 DEF Crash!IInv, Crash!Earlier, Crash!Reported, Crash!Sessions
  <2>3. ASSUME NEW s \in Crash!Sessions \ v9
        PROVE  /\ v8'[s] = "dead" =>
                      Crash!Reported(s) \/ Crash!Marked(s)
               /\ v8'[s] = "clean" =>
                      ~Crash!Reported(s) /\ ~Crash!Marked(s)
    BY <1>3, <1>4, <2>2 DEF Crash!IInv, Crash!Told
  <2> QED BY <1>1, <2>1, <2>3 DEF Crash!Told, Crash!Marked, Crash!Sessions
<1> QED BY <1>5, <1>6, <1>7, <1>8 DEF Crash!IInv

LEMMA CrashExits ==
    ASSUME Crash!IInv, Crash!MarkCleanExit
    PROVE  Crash!IInv'
<1>1. /\ Crash!TypeOK /\ v1 \in Crash!Sessions
      /\ UNCHANGED <<v1, v4, v5, v6, v7, v8>>
      /\ v2 = "running" /\ v2' = "exiting"
      /\ v3' \in {None, v3} /\ v9' \in {v9, v9 \cup {v1}}
      /\ v3' = None \/ v1 \in v9'
      /\ \A t \in Crash!Threads : v5[t] # "torn"
  BY DEF Crash!IInv, Crash!TypeOK, Crash!MarkCleanExit, Crash!Main,
         Crash!Keep, Crash!Crumbs
<1>2. v9 \subseteq v9' /\ v9' \subseteq Crash!Sessions
  BY <1>1 DEF Crash!TypeOK
<1>3. Crash!TypeOK'
  BY <1>1, <1>2 DEF Crash!TypeOK
<1>4. Crash!Crumbs'
  BY <1>1, <1>2 DEF Crash!IInv, Crash!Crumbs, Crash!Threads
<1>5. Crash!Earlier' /\ Crash!Told'
  BY <1>1, <1>2 DEF Crash!IInv, Crash!Earlier, Crash!Told, Crash!Marked,
     Crash!Reported, Crash!Sessions
<1> QED BY <1>3, <1>4, <1>5 DEF Crash!IInv

LEMMA CrashRelaunches ==
    ASSUME Crash!IInv, Crash!Relaunch
    PROVE  Crash!IInv'
<1>1. /\ Crash!TypeOK /\ UNCHANGED <<v3, v4, v5, v7, v9>>
      /\ v2 = "down" /\ v2' = "scan" /\ v1' = v1 + 1 /\ v1 < MaxLaunches
      /\ v6' = MaxCrumbs /\ v8' = [v8 EXCEPT ![v1 + 1] = "alive"]
  BY DEF Crash!IInv, Crash!Relaunch
<1>2. /\ v1 \in Nat /\ v1' \in Crash!Sessions /\ v6' \in 0..MaxCrumbs
  BY <1>1, WindowsAssumption DEF Crash!TypeOK, Crash!Sessions
<1>3. /\ v8' \in [Crash!Sessions ->
                     {"none", "alive", "clean", "dead", "unmarked"}]
      /\ v8'[v1'] = "alive"
      /\ \A s \in Crash!Sessions : s # v1' => v8'[s] = v8[s]
  BY <1>1, <1>2 DEF Crash!TypeOK
<1>4. Crash!TypeOK'
  BY <1>1, <1>2, <1>3 DEF Crash!TypeOK
<1>5. Crash!Crumbs'
  BY <1>1 DEF Crash!IInv, Crash!Crumbs, Crash!Threads
<1>6. Crash!Earlier'
  <2>1. v3 # None => v3.session <= v1 /\ v3.session \in Nat
    BY <1>1 DEF Crash!IInv, Crash!Earlier, Crash!TypeOK, Crash!MarkerType,
       Crash!Sessions
  <2>2. \A r \in v7 : r.session \in Nat
                          /\ (r.kind = "unclean-exit" => r.session < v1)
    BY <1>1 DEF Crash!IInv, Crash!Earlier, Crash!TypeOK, Crash!Sessions
  <2> QED BY <1>1, <1>2, <1>3, <2>1, <2>2 DEF Crash!Earlier, Crash!Marked
<1>7. Crash!Told'
  BY <1>1, <1>3 DEF Crash!IInv, Crash!Told, Crash!Marked,
     Crash!Reported, Crash!Sessions
<1> QED BY <1>4, <1>5, <1>6, <1>7 DEF Crash!IInv

LEMMA CrashKeeps ==
    ASSUME Crash!IInv, Crash!Next
    PROVE  Crash!IInv' 
BY CrashScans, CrashMarksPath, CrashLeaves, CrashGoes, CrashHooks, CrashEnds,
   CrashExits, CrashRelaunches
   DEF Crash!Next

LEMMA CrashStutters ==
    ASSUME Crash!IInv, UNCHANGED Slots
    PROVE  Crash!IInv'
<1>1. UNCHANGED <<v1, v2, v3, v4, v5, v6, v7, v8, v9>>
  BY DEF Slots
<1>2. Crash!TypeOK' /\ Crash!Crumbs'
  BY <1>1 DEF Crash!IInv, Crash!TypeOK, Crash!Crumbs
<1>3. Crash!Earlier' /\ Crash!Told'
  BY <1>1 DEF Crash!IInv, Crash!Earlier, Crash!Told, Crash!Marked,
     Crash!Reported
<1> QED BY <1>2, <1>3 DEF Crash!IInv

\* A death that is not reported still has its marker before the scan only.
LEMMA CrashTells ==
    ASSUME Crash!IInv
    PROVE  Crash!DeathsReported
<1>1. \A s : Crash!Reported(s) <=>
          \E r \in v7 : r.kind = "unclean-exit" /\ r.session = s
  BY DEF Crash!Reported
<1> QED BY <1>1 DEF Crash!IInv, Crash!Told, Crash!DeathsReported

LEMMA CrashInvariant ==
    ServicesSpec => [](focus = "crash" => Crash!IInv)
<1> DEFINE I == focus = "crash" => Crash!IInv
<1>1. ServicesInit => I
  BY WindowInits, CrashBegins
<1>2. I /\ [ServicesNext]_serviceVars => I'
  BY WindowSteps, WindowStutters, CrashKeeps, CrashStutters
<1> QED BY <1>1, <1>2, PTL DEF ServicesSpec

-----------------------------------------------------------------------------
(* FileLog                                                                 *)
(* Slots: v1 is current, v2 rotated, v3 handle, v4 len, v5 lines, v6 step, *)
(* v7 unopened.                                                            *)

LEMMA LogTyped ==
    ASSUME Log!IInv
    PROVE  /\ v4 \in Nat /\ v5 \in Nat /\ v4 <= v5 /\ v5 <= MaxLines
           /\ v1 = None \/ v1 \subseteq 1..v5
           /\ v2 = None \/ v2 \subseteq 1..MaxLines
           /\ MaxLines \in Nat /\ MaxLen \in Nat /\ MaxLen >= 1
<1>1. v4 \in 0..MaxLines /\ v5 \in 0..MaxLines
  BY DEF Log!IInv, Log!TypeOK
<1>2. v4 \in Nat /\ v5 \in Nat /\ v5 <= MaxLines /\ MaxLines \in Nat
      /\ MaxLen \in Nat /\ MaxLen >= 1
  BY <1>1, WindowsAssumption
<1>3. v4 <= v5 /\ (v1 = None \/ v1 \subseteq 1..v5)
  BY DEF Log!IInv, Log!Written
<1>4. v2 = None \/ v2 \subseteq 1..MaxLines
  <2>1. v2 \in (SUBSET (1..MaxLines)) \cup {None}
    BY DEF Log!IInv, Log!TypeOK, Log!Contents
  <2> QED BY <2>1
<1> QED BY <1>2, <1>3, <1>4

\* What a file that was written holds is not "no file".
LEMMA LogFile ==
    ASSUME NEW n \in 0..MaxLines, NEW lines \in SUBSET (1..n)
    PROVE  lines # None /\ lines \in Log!Contents
<1>1. lines \in SUBSET (1..MaxLines)
  BY WindowsAssumption
<1> QED BY <1>1, FilesAssumption DEF Log!Contents

LEMMA LogCounts ==
    ASSUME NEW n \in Nat
    PROVE  /\ \A lines \in SUBSET (1..n) :
                 Log!Cardinality(lines) \in Nat /\ Log!Cardinality(lines) <= n
           /\ \A k \in 0..n : Log!Cardinality({i \in 1..n : i > n - k}) = k
<1>1. \A S : Log!Cardinality(S) = Cardinality(S)
  BY DEF Log!Cardinality, Cardinality
<1>2. IsFiniteSet(1..n) /\ Cardinality(1..n) = n
  BY FS_Interval
<1>3. \A lines \in SUBSET (1..n) :
        Cardinality(lines) \in Nat /\ Cardinality(lines) <= n
  BY <1>2, FS_Subset, FS_CardinalityType
<1>4. ASSUME NEW k \in 0..n
      PROVE  Cardinality({i \in 1..n : i > n - k}) = k
  <2>1. {i \in 1..n : i > n - k} = (n - k + 1)..n
    OBVIOUS
  <2>2. Cardinality((n - k + 1)..n) = k
    BY FS_Interval
  <2> QED BY <2>1, <2>2
<1> QED BY <1>1, <1>3, <1>4

LEMMA LogBegins == Log!Init => Log!IInv
<1> SUFFICES ASSUME Log!Init PROVE Log!IInv
  OBVIOUS
<1>1. /\ v1 = None /\ v2 = None /\ v3 = "closed" /\ v4 = 0 /\ v5 = 0
      /\ v6 = "ready" /\ v7 = FALSE
  BY DEF Log!Init
<1>2. 0 \in 0..MaxLines
  BY WindowsAssumption
<1>3. Log!TypeOK
  BY <1>1, <1>2 DEF Log!TypeOK, Log!Contents
<1>4. Log!Written
  BY <1>1, <1>2 DEF Log!Written
<1>5. Log!NewestKept
  BY <1>1 DEF Log!NewestKept
<1>6. Log!Rotating
  BY <1>1 DEF Log!Rotating
<1> QED BY <1>3, <1>4, <1>5, <1>6 DEF Log!IInv

\* An existing log is appended to: its length is what it holds.
LEMMA LogOpens ==
    ASSUME Log!IInv, Log!Open
    PROVE  Log!IInv'
<1>1. /\ v3' = "current" /\ UNCHANGED <<v2, v5, v6, v7>>
      /\ v1' = (IF v1 = None THEN {} ELSE v1) /\ v4' = Log!Cardinality(v1')
  BY DEF Log!Open
<1>2. v1' \in SUBSET (1..v5)
  BY <1>1, LogTyped
<1>3. v1' # None /\ v1' \in Log!Contents /\ v5 \in 0..MaxLines
  BY <1>2, LogTyped, LogFile
<1>4. v4' \in Nat /\ v4' <= v5 /\ v4' \in 0..MaxLines
  BY <1>1, <1>2, LogCounts, LogTyped
<1>5. Log!TypeOK' /\ Log!Written'
  BY <1>1, <1>2, <1>3, <1>4 DEF Log!IInv, Log!TypeOK, Log!Written,
     Log!Contents
<1>6. Log!NewestKept'
  BY <1>1, <1>3 DEF Log!IInv, Log!NewestKept, Log!OnDisk
<1>7. ASSUME ~v7 PROVE Log!Rotating'
  <2>1. v6 = "ready" /\ (v1 = None \/ \E k \in 0..v5 : v1 = Log!Newest(k))
    BY <1>7 DEF Log!IInv, Log!Rotating, Log!Open
  <2>2. PICK k \in 0..v5 : v1' = {i \in 1..v5 : i > v5 - k}
    <3>1. CASE v1 = None
      <4>1. v1' = {i \in 1..v5 : i > v5 - 0}
        BY <1>1, <3>1, LogTyped
      <4> QED BY <4>1, LogTyped
    <3>2. CASE v1 # None
      BY <1>1, <2>1, <3>2 DEF Log!Newest
    <3> QED BY <3>1, <3>2
  <2>3. v4' = k
    BY <1>1, <2>2, LogCounts, LogTyped
  <2> QED BY <1>1, <1>3, <2>1, <2>2, <2>3 DEF Log!Rotating, Log!Newest
<1> QED BY <1>1, <1>5, <1>6, <1>7 DEF Log!IInv

\* What has been written is not touched while a line has to wait.
LEMMA LogWaits ==
    ASSUME Log!IInv,
           Log!BeginWrite \/ Log!RemoveRotated \/ Log!WriteFails \/ Log!Killed
    PROVE  Log!IInv'
<1>1. UNCHANGED <<v1, v5, v7>>
  BY DEF Log!BeginWrite, Log!RemoveRotated, Log!WriteFails, Log!Killed
<1>2. v4' \in {0, v4} /\ 0 \in 0..MaxLines
  BY LogTyped
  DEF Log!BeginWrite, Log!RemoveRotated, Log!WriteFails, Log!Killed
<1>3. Log!TypeOK' /\ Log!Written'
  <2>1. v2' \in {None, v2}
    BY DEF Log!BeginWrite, Log!RemoveRotated, Log!WriteFails, Log!Killed
  <2>2. v6' \in {"ready", "remove", "rename", "open", "write"}
        /\ v3' \in {"closed", "current", "rotated", "unlinked"}
        /\ (v6' # "ready" => v5 < MaxLines)
    BY DEF Log!BeginWrite, Log!RemoveRotated, Log!WriteFails, Log!Killed,
           Log!IInv, Log!TypeOK, Log!Written
  <2>3. v4' \in 0..MaxLines /\ v4' <= v5
    BY <1>2, LogTyped
  <2>4. Log!TypeOK'
    BY <1>1, <2>1, <2>2, <2>3 DEF Log!IInv, Log!TypeOK, Log!Contents
  <2>5. /\ v3' = "current" => v3 = "current"
        /\ v3' = "rotated" => v3 = "rotated" /\ v2' = v2
    BY DEF Log!BeginWrite, Log!RemoveRotated, Log!WriteFails, Log!Killed
  <2> QED BY <1>1, <2>2, <2>3, <2>4, <2>5 DEF Log!IInv, Log!Written
<1>4. ASSUME ~v7 PROVE Log!Rotating'
  <2>1. CASE Log!BeginWrite
    BY <1>1, <1>4, <2>1, LogTyped
    DEF Log!BeginWrite, Log!IInv, Log!Rotating, Log!Newest
  <2>2. CASE Log!RemoveRotated
    BY <1>1, <1>4, <2>2
    DEF Log!RemoveRotated, Log!IInv, Log!Rotating, Log!Newest
  <2>3. CASE Log!WriteFails
    BY <1>1, <1>4, <2>3
    DEF Log!WriteFails, Log!IInv, Log!Rotating, Log!Newest
  <2>4. CASE Log!Killed
    <3>1. v1 = None \/ \E k \in 0..v5 : v1 = Log!Newest(k)
      BY <1>4, LogTyped, <2>4 DEF Log!Killed, Log!IInv, Log!Rotating,
         Log!TypeOK
    <3> QED BY <1>1, <2>4, <3>1 DEF Log!Killed, Log!Rotating, Log!Newest
  <2> QED BY <2>1, <2>2, <2>3, <2>4
<1>5. Log!NewestKept'
  <2>1. CASE v2' = v2
    BY <1>1, <2>1 DEF Log!IInv, Log!NewestKept, Log!OnDisk
  <2>2. CASE Log!RemoveRotated /\ ~v7
    <3>1. /\ v1 # None /\ v1 = Log!Newest(v4) /\ v4 >= MaxLen
      BY <2>2 DEF Log!IInv, Log!Rotating, Log!TypeOK, Log!RemoveRotated,
                Log!Written
    <3> QED BY <1>1, <3>1, LogTyped DEF Log!NewestKept, Log!OnDisk,
            Log!Newest
  <2> QED BY <1>1, <2>1, <2>2 DEF Log!BeginWrite, Log!RemoveRotated,
          Log!WriteFails, Log!Killed, Log!NewestKept
<1> QED BY <1>1, <1>3, <1>4, <1>5 DEF Log!IInv

\* The log is moved aside when it holds what one file may hold.
LEMMA LogRenames ==
    ASSUME Log!IInv, Log!Rename
    PROVE  Log!IInv'
<1>1. /\ v6 = "rename" /\ UNCHANGED <<v4, v5, v7>>
      /\ \/ /\ v1 # None /\ v2' = v1 /\ v1' = None /\ v6' = "open"
            /\ v3' = (IF v3 = "current" THEN "rotated" ELSE "unlinked")
         \/ v6' = "write" /\ UNCHANGED <<v1, v2, v3>>
  BY DEF Log!Rename
<1>2. Log!TypeOK' /\ Log!Written'
  <2>1. Log!TypeOK'
    BY <1>1 DEF Log!IInv, Log!TypeOK, Log!Contents
  <2> QED BY <1>1, <2>1 DEF Log!IInv, Log!Written
<1>3. ASSUME ~v7
      PROVE  v3 = "current" /\ v1 # None /\ v1 = Log!Newest(v4)
             /\ v4 >= MaxLen
  BY <1>1, <1>3 DEF Log!IInv, Log!Rotating, Log!TypeOK, Log!Written
<1>4. Log!NewestKept'
  BY <1>1, <1>3, LogTyped DEF Log!IInv, Log!NewestKept, Log!OnDisk,
     Log!Newest
<1>5. ASSUME ~v7 PROVE Log!Rotating'
  BY <1>1, <1>3, <1>5 DEF Log!Rotating, Log!Newest
<1> QED BY <1>1, <1>2, <1>4, <1>5 DEF Log!IInv

LEMMA LogReopens ==
    ASSUME Log!IInv, Log!Reopen
    PROVE  Log!IInv'
<1>1. /\ v6 = "open" /\ v6' = "write" /\ UNCHANGED <<v2, v5>>
      /\ \/ v1' = {} /\ v3' = "current" /\ v4' = 0 /\ v7' = v7
         \/ v7' = TRUE /\ UNCHANGED <<v1, v3, v4>>
  BY DEF Log!Reopen
<1>2. CASE v7' = TRUE /\ UNCHANGED <<v1, v3, v4>>
  BY <1>1, <1>2 DEF Log!IInv, Log!TypeOK, Log!Written, Log!Contents,
     Log!NewestKept
<1>3. CASE v1' = {} /\ v3' = "current" /\ v4' = 0 /\ v7' = v7
  <2>1. {} # None /\ {} \in Log!Contents /\ 0 \in 0..MaxLines
    BY LogFile, LogTyped
  <2>2. Log!TypeOK' /\ Log!Written'
    BY <1>1, <1>3, <2>1, LogTyped
    DEF Log!IInv, Log!TypeOK, Log!Written, Log!Contents
  <2>3. ASSUME ~v7
        PROVE  v1 = None
    BY <1>1, <2>3 DEF Log!IInv, Log!Rotating, Log!TypeOK
  <2>4. Log!NewestKept'
    BY <1>1, <1>3, <2>1, <2>3 DEF Log!IInv, Log!NewestKept, Log!OnDisk
  <2>5. {} = {n \in 1..v5 : n > v5 - 0}
    BY LogTyped
  <2>6. Log!Rotating'
    BY <1>1, <1>3, <2>1, <2>5 DEF Log!Rotating, Log!Newest
  <2> QED BY <2>2, <2>4, <2>6 DEF Log!IInv
<1> QED BY <1>1, <1>2, <1>3

\* A line is the newest.
LEMMA LogAppends ==
    ASSUME Log!IInv, Log!Append
    PROVE  Log!IInv'
<1> DEFINE n == v5 + 1
<1>1. /\ v6 = "write" /\ v6' = "ready" /\ v5' = n /\ v4' = v4 + 1
      /\ v1' = (IF v3 = "current" THEN v1 \cup {n} ELSE v1)
      /\ v2' = (IF v3 = "rotated" THEN v2 \cup {n} ELSE v2)
      /\ UNCHANGED <<v3, v7>>
  BY DEF Log!Append
<1>2. /\ n \in 1..MaxLines /\ v4' \in 0..MaxLines /\ v5' \in 0..MaxLines
      /\ v4' <= v5'
  BY <1>1, LogTyped DEF Log!IInv, Log!Written
<1>3. Log!TypeOK
  BY DEF Log!IInv
<1>4. /\ v1' = None \/ v1' \subseteq 1..v5'
      /\ v1' \in Log!Contents
      /\ v3 = "current" => v1' # None
  <2>1. CASE v3 = "current"
    <3>1. v1 # None /\ v1 \cup {n} \in SUBSET (1..n)
      BY <2>1, LogTyped DEF Log!IInv, Log!Written
    <3> QED BY <1>1, <1>2, <2>1, <3>1, LogFile
  <2>2. CASE v3 # "current"
    BY <1>1, <1>3, <2>2, LogTyped DEF Log!TypeOK
  <2> QED BY <2>1, <2>2
<1>5. /\ v2' \in Log!Contents
      /\ v3 = "rotated" => v2' # None
  <2>1. CASE v3 = "rotated"
    <3>1. v2 # None /\ v2 \cup {n} \in SUBSET (1..MaxLines)
      BY <1>2, <2>1, LogTyped DEF Log!IInv, Log!Written
    <3>2. v2' = v2 \cup {n} /\ MaxLines \in 0..MaxLines
      BY <1>1, <2>1, LogTyped
    <3> QED BY <3>1, <3>2, LogFile
  <2>2. CASE v3 # "rotated"
    BY <1>1, <1>3, <2>2 DEF Log!TypeOK
  <2> QED BY <2>1, <2>2
<1>6. Log!TypeOK' /\ Log!Written'
  BY <1>1, <1>2, <1>3, <1>4, <1>5 DEF Log!TypeOK, Log!Written
<1>7. ASSUME ~v7
      PROVE  Log!NewestKept' /\ Log!Rotating'
  <2>1. v3 = "current"
    BY <1>1, <1>3, <1>7 DEF Log!TypeOK, Log!IInv, Log!Rotating
  <2>2. v1 # None /\ v1 = Log!Newest(v4)
    BY <1>7, <2>1 DEF Log!IInv, Log!Rotating, Log!Written
  <2>3. v1' = {i \in 1..n : i > n - (v4 + 1)} /\ v1' # None /\ v2' = v2
    BY <1>1, <1>4, <2>1, <2>2, LogTyped DEF Log!Newest
  <2>4. Log!Rotating'
    BY <1>1, <2>1, <2>3 DEF Log!Rotating, Log!Newest
  <2>5. Log!OnDisk \cup {n} = Log!OnDisk'
    BY <1>1, <2>1, <2>2, <2>3 DEF Log!OnDisk
  <2>6. \A i \in 1..v5 : i > v5 - MaxLen => i \in Log!OnDisk
    BY <1>7 DEF Log!IInv, Log!NewestKept
  <2>7. \A i \in 1..n : i > n - MaxLen => i \in Log!OnDisk'
    BY <2>5, <2>6, LogTyped
  <2> QED BY <1>1, <2>4, <2>7 DEF Log!NewestKept
<1> QED BY <1>1, <1>6, <1>7 DEF Log!IInv, Log!NewestKept

LEMMA LogKeeps ==
    ASSUME Log!IInv, Log!Next
    PROVE  Log!IInv'
BY LogOpens, LogWaits, LogRenames, LogReopens, LogAppends DEF Log!Next

LEMMA LogStutters ==
    ASSUME Log!IInv, UNCHANGED Slots
    PROVE  Log!IInv'
<1>1. UNCHANGED <<v1, v2, v3, v4, v5, v6, v7>>
  BY DEF Slots
<1> QED BY <1>1 DEF Log!IInv, Log!TypeOK, Log!Contents, Log!Written,
        Log!NewestKept, Log!OnDisk, Log!Rotating, Log!Newest

LEMMA LogInvariant ==
    ServicesSpec => [](focus = "log" => Log!IInv)
<1> DEFINE I == focus = "log" => Log!IInv
<1>1. ServicesInit => I
  BY WindowInits, LogBegins
<1>2. I /\ [ServicesNext]_serviceVars => I'
  BY WindowSteps, WindowStutters, LogKeeps, LogStutters
<1> QED BY <1>1, <1>2, PTL DEF ServicesSpec

\* A session that died with its marker on disk has its report once a launch has
\* scanned, and one that exited cleanly has none; the newest lines of the log are
\* on disk, over rotations, failures and restarts, but for a log whose new file
\* could not be opened.
THEOREM ForensicsSafety == ServicesSpec => []ForensicsKept
<1>1. (focus = "crash" => Crash!IInv) => DeathsReported
  BY CrashTells DEF DeathsReported
<1>2. (focus = "log" => Log!IInv) => NewestKept
  BY DEF NewestKept, Log!IInv
<1> QED BY <1>1, <1>2, CrashInvariant, LogInvariant, PTL DEF ForensicsKept

-----------------------------------------------------------------------------
(* Settings                                                                *)
(* Slots: v1 is phase, v2 config, v3 file, v4 keychain, v5 saving, v6      *)
(* clicked, v7 launches, v8 entered, v9 dropped, v10 unsaved, v11 cut.     *)

ConfTasks == {Conf!AtRest} \cup
                [at : {"clicked", "changed", "truncated"}, what : Conf!Settable]
ConfValues == {"none", "marker"} \cup Conf!Plain

\* A setting changes one field of the configuration.
LEMMA ConfChanges ==
    ASSUME NEW c \in Conf!Config, NEW x
    PROVE  /\ [c EXCEPT !.choice = x] =
                [choice |-> x, bootnode |-> c.bootnode, secret |-> c.secret]
           /\ [c EXCEPT !.bootnode = x] =
                [choice |-> c.choice, bootnode |-> x, secret |-> c.secret]
           /\ [c EXCEPT !.secret = x] =
                [choice |-> c.choice, bootnode |-> c.bootnode, secret |-> x]
<1>1. ASSUME NEW new, new = [c EXCEPT !.choice = x]
      PROVE  new = [choice |-> x, bootnode |-> c.bootnode, secret |-> c.secret]
  BY <1>1 DEF Conf!Config
<1>2. ASSUME NEW new, new = [c EXCEPT !.bootnode = x]
      PROVE  new = [choice |-> c.choice, bootnode |-> x, secret |-> c.secret]
  BY <1>2 DEF Conf!Config
<1>3. ASSUME NEW new, new = [c EXCEPT !.secret = x]
      PROVE  new = [choice |-> c.choice, bootnode |-> c.bootnode, secret |-> x]
  BY <1>3 DEF Conf!Config
<1> QED BY <1>1, <1>2, <1>3

LEMMA ConfTyped ==
    ASSUME Conf!TypeOK
    PROVE  /\ v2 \in Conf!Config /\ v5 \in [Tasks -> ConfTasks]
           /\ v2.secret \in [Secrets -> ConfValues]
           /\ Conf!Readable => /\ v3 \in Conf!Config
                               /\ v3.secret \in [Secrets -> ConfValues]
           /\ \A t \in Tasks : v5[t].at \in {"idle", "clicked", "changed",
                                             "truncated"}
           /\ \A t \in Tasks : v5[t] = Conf!AtRest <=> v5[t].at = "idle"
BY DEF Conf!TypeOK, Conf!Config, Conf!Readable, ConfTasks, ConfValues,
       Conf!AtRest

\* The secret of one name is replaced.
LEMMA ConfSecret ==
    ASSUME Conf!TypeOK, NEW n \in Secrets, NEW new,
           new = [v2 EXCEPT !.secret[n] = "marker"]
    PROVE  /\ new \in Conf!Config /\ new.secret[n] = "marker"
           /\ \A m \in Secrets : m # n => new.secret[m] = v2.secret[m]
<1> DEFINE s == [v2.secret EXCEPT ![n] = "marker"]
<1>1. new = [v2 EXCEPT !.secret = s]
  OBVIOUS
<1>2. /\ s \in [Secrets -> ConfValues] /\ s[n] = "marker"
      /\ \A m \in Secrets : m # n => s[m] = v2.secret[m]
  BY ConfTyped DEF ConfValues
<1> HIDE DEF s
<1>3. new = [choice |-> v2.choice, bootnode |-> v2.bootnode, secret |-> s]
  BY <1>1, ConfTyped, ConfChanges
<1> QED BY <1>2, <1>3, ConfTyped DEF Conf!Config, ConfValues

\* A task moves on, or is through.
LEMMA ConfMoves ==
    ASSUME Conf!TypeOK, NEW t \in Tasks, NEW at \in {"changed", "truncated"},
           v5[t].at # "idle", Conf!Goes(t, at)
    PROVE  /\ v5' \in [Tasks -> ConfTasks] /\ v5'[t].at = at
           /\ \A u \in Tasks : u # t => v5'[u] = v5[u]
<1> DEFINE new == [at |-> at, what |-> v5[t].what]
<1>1. v5[t] \in [at : {"clicked", "changed", "truncated"},
                 what : Conf!Settable]
  BY ConfTyped DEF ConfTasks, Conf!AtRest
<1>2. ASSUME NEW r, r = [v5[t] EXCEPT !.at = at]
      PROVE  r = new
  BY <1>1, <1>2
<1>3. new \in ConfTasks /\ new.at = at
  BY <1>1 DEF ConfTasks
<1>4. v5' = [v5 EXCEPT ![t] = new]
  BY <1>2 DEF Conf!Goes
<1> HIDE DEF new
<1> QED BY <1>3, <1>4, ConfTyped

LEMMA ConfEnds ==
    ASSUME Conf!TypeOK, NEW t \in Tasks, Conf!Ends(t)
    PROVE  /\ v5' \in [Tasks -> ConfTasks] /\ v5'[t] = Conf!AtRest
           /\ v5'[t].at = "idle"
           /\ \A u \in Tasks : u # t => v5'[u] = v5[u]
BY ConfTyped DEF Conf!Ends, ConfTasks, Conf!AtRest

LEMMA ConfTypedAfter ==
    ASSUME v2' \in Conf!Config, v3' \in Conf!Config \cup {None, CutShort},
           v5' \in [Tasks -> ConfTasks],
           v1' \in {"down", "migrate", "truncate", "write", "up"},
           v4' \in [Secrets -> {"none"} \cup Conf!Plain],
           v6' \in 0..MaxSaves, v7' \in 0..MaxLaunches,
           v8' \in [Secrets -> {"none"} \cup Conf!Plain],
           v9' \subseteq Secrets, v10' \in BOOLEAN, v11' \in BOOLEAN
    PROVE  Conf!TypeOK'
BY DEF Conf!TypeOK, ConfTasks, Conf!AtRest

\* The lock is one task's: it takes it, or it is through.
LEMMA ConfTakes ==
    ASSUME Conf!IInv, NEW t \in Tasks, NEW set, Conf!Took(t, set),
           Conf!Goes(t, "changed"), v1' = v1
    PROVE  /\ v5' \in [Tasks -> ConfTasks] /\ ~Conf!LockFree'
           /\ Conf!OneWriter'
<1>1. /\ v1 = "up" /\ v5[t].at = "clicked" /\ Conf!TypeOK
      /\ \A u \in Tasks : v5[u].at \in {"idle", "clicked"}
  BY DEF Conf!Took, Conf!LockFree, Conf!IInv
<1>2. /\ v5' \in [Tasks -> ConfTasks] /\ v5'[t].at = "changed"
      /\ \A u \in Tasks : u # t => v5'[u] = v5[u]
  BY <1>1, ConfMoves
<1> QED BY <1>1, <1>2 DEF Conf!LockFree, Conf!OneWriter

LEMMA ConfLeaves ==
    ASSUME Conf!IInv, NEW t \in Tasks, Conf!Ends(t), v1' = v1,
           v5[t].at \in {"changed", "truncated"} \/ Conf!LockFree
    PROVE  /\ v5' \in [Tasks -> ConfTasks] /\ Conf!LockFree'
           /\ Conf!OneWriter'
<1>1. /\ v5' \in [Tasks -> ConfTasks] /\ v5'[t] = Conf!AtRest
      /\ v5'[t].at = "idle" /\ \A u \in Tasks : u # t => v5'[u] = v5[u]
      /\ \A u \in Tasks : v5[u].at \in {"idle", "clicked", "changed",
                                        "truncated"}
  BY ConfEnds, ConfTyped DEF Conf!IInv
<1>2. \A u \in Tasks : u # t => v5[u].at \in {"idle", "clicked"}
  BY <1>1 DEF Conf!IInv, Conf!OneWriter, Conf!LockFree
<1> QED BY <1>1, <1>2 DEF Conf!IInv, Conf!OneWriter, Conf!LockFree

LEMMA ConfBegins == Conf!Init => Conf!IInv
<1> SUFFICES ASSUME Conf!Init PROVE Conf!IInv
  OBVIOUS
<1>1. /\ v1 = "down" /\ v2 = Conf!Fresh
      /\ v4 = [n \in Secrets |-> "none"]
      /\ v8 = (IF v3 = None THEN v4 ELSE v3.secret)
      /\ v5 = [t \in Tasks |-> Conf!AtRest]
      /\ v6 = 0 /\ v7 = 0 /\ v9 = {} /\ v10 = FALSE /\ v11 = FALSE
  BY DEF Conf!Init
<1>2. /\ Conf!Fresh \in Conf!Config
      /\ Conf!Fresh.secret = [n \in Secrets |-> "none"]
      /\ 0 \in 0..MaxSaves /\ 0 \in 0..MaxLaunches
  BY FilesAssumption, WindowsAssumption DEF Conf!Fresh, Conf!Config
<1>3. v3 # None => /\ v3 \in Conf!Config
                   /\ v3.secret \in [Secrets -> {"none", "old"}]
  <2>1. ASSUME NEW s \in [Secrets -> {"none", "old"}], NEW new,
               new = [Conf!Fresh EXCEPT !.secret = s]
        PROVE  new \in Conf!Config /\ new.secret = s
    <3>1. new = [choice |-> Conf!Fresh.choice,
                 bootnode |-> Conf!Fresh.bootnode, secret |-> s]
      BY <1>2, <2>1, ConfChanges
    <3> QED BY <1>2, <3>1 DEF Conf!Config, Conf!Plain
  <2> QED BY <2>1 DEF Conf!Init
<1>4. Conf!TypeOK
  <2>1. v8 \in [Secrets -> {"none"} \cup Conf!Plain]
    BY <1>1, <1>3 DEF Conf!Plain
  <2>2. v4 \in [Secrets -> {"none"} \cup Conf!Plain]
    BY <1>1
  <2>3. v5 \in [Tasks -> {[at |-> "idle", what |-> Conf!Idle]}]
    BY <1>1 DEF Conf!AtRest
  <2> QED BY <1>1, <1>2, <1>3, <2>1, <2>2, <2>3 DEF Conf!TypeOK
<1>5. Conf!Backed(v2) /\ (Conf!Readable => Conf!Backed(v3))
  BY <1>1, <1>2, <1>3 DEF Conf!Backed, Conf!Readable
<1>6. Conf!OneWriter /\ Conf!Saved
  BY <1>1 DEF Conf!OneWriter, Conf!Saved, Conf!AtRest
<1>7. Conf!Entered
  <2>1. ASSUME NEW n \in Secrets, v8[n] # "none"
        PROVE  Conf!Readable /\ Conf!Found(v3, n)
    BY <1>1, <1>3, <2>1, FilesAssumption
    DEF Conf!Readable, Conf!Found, Conf!Plain
  <2> QED BY <1>1, <2>1 DEF Conf!Entered
<1> QED BY <1>4, <1>5, <1>6, <1>7 DEF Conf!IInv

\* A launch works with what the file holds.
LEMMA ConfLoads ==
    ASSUME Conf!IInv, Conf!Load
    PROVE  Conf!IInv'
<1>1. /\ Conf!TypeOK /\ v1 = "down" /\ v7' = v7 + 1 /\ v7 < MaxLaunches
      /\ v2' = (IF Conf!Readable THEN v3 ELSE Conf!Fresh)
      /\ v1' = (IF Conf!InPlain(v2') = {} THEN "up" ELSE "migrate")
      /\ v10' = FALSE /\ UNCHANGED <<v3, v4, v5, v6, v8, v9, v11>>
  BY DEF Conf!IInv, Conf!Load
<1>2. /\ Conf!Fresh \in Conf!Config
      /\ Conf!Fresh.secret = [n \in Secrets |-> "none"]
  BY FilesAssumption DEF Conf!Fresh, Conf!Config
<1>3. v2' \in Conf!Config
  BY <1>1, <1>2, ConfTyped
<1>4. Conf!TypeOK'
  <2>1. v7' \in 0..MaxLaunches
    BY <1>1, WindowsAssumption DEF Conf!TypeOK
  <2> QED BY <1>1, <1>3, <2>1 DEF Conf!TypeOK
<1>5. \A t \in Tasks : v5[t] = Conf!AtRest /\ v5[t].at = "idle"
  BY <1>1 DEF Conf!IInv, Conf!OneWriter, Conf!AtRest
<1>6. Conf!OneWriter'
  BY <1>1, <1>5 DEF Conf!OneWriter
<1>7. Conf!LockFree /\ Conf!LockFree' /\ (Conf!Readable' <=> Conf!Readable)
  BY <1>1, <1>5 DEF Conf!LockFree, Conf!Readable
<1>8. Conf!Backed(v2)' /\ (Conf!Readable' => Conf!Backed(v3)')
  BY <1>1, <1>2, <1>7 DEF Conf!IInv, Conf!Backed
<1>9. Conf!Saved'
  <2>1. v1' = "up" => Conf!InPlain(v2)' = {}
    BY <1>1 DEF Conf!InPlain
  <2> QED BY <1>1, <1>7, <2>1 DEF Conf!Saved
<1>10. Conf!Entered'
  <2>1. ASSUME ~v11, NEW n \in Secrets \ v9, v8[n] # "none"
        PROVE  Conf!Readable /\ Conf!Found(v3, n)
    BY <1>1, <1>7, <2>1 DEF Conf!IInv, Conf!Entered
  <2> QED BY <1>1, <1>7, <2>1 DEF Conf!Entered, Conf!Found
<1> QED BY <1>4, <1>6, <1>8, <1>9, <1>10 DEF Conf!IInv

\* One secret after the other goes to the keychain.
LEMMA ConfMigrates ==
    ASSUME Conf!IInv, NEW n \in Secrets, Conf!Migrate(n)
    PROVE  Conf!IInv'
<1>1. /\ Conf!TypeOK /\ v1 = "migrate" /\ v2.secret[n] \in Conf!Plain
      /\ v4' = [v4 EXCEPT ![n] = v2.secret[n]]
      /\ v2' = [v2 EXCEPT !.secret[n] = "marker"]
      /\ v1' = (IF Conf!InPlain(v2') = {} THEN "truncate" ELSE "migrate")
      /\ UNCHANGED <<v3, v5, v6, v7, v8, v9, v10, v11>>
  BY DEF Conf!IInv, Conf!Migrate, Conf!InPlain
<1>2. /\ v2' \in Conf!Config /\ v2'.secret[n] = "marker"
      /\ \A m \in Secrets : m # n => v2'.secret[m] = v2.secret[m]
  BY <1>1, ConfSecret
<1>3. /\ v4' \in [Secrets -> {"none"} \cup Conf!Plain]
      /\ v4'[n] = v2.secret[n] /\ v4'[n] # "none"
      /\ \A m \in Secrets : m # n => v4'[m] = v4[m]
  BY <1>1 DEF Conf!TypeOK, Conf!Plain
<1>4. Conf!TypeOK'
  BY <1>1, <1>2, <1>3 DEF Conf!TypeOK
<1>5. \A t \in Tasks : v5[t] = Conf!AtRest /\ v5[t].at = "idle"
  BY <1>1 DEF Conf!IInv, Conf!OneWriter, Conf!AtRest
<1>6. /\ Conf!OneWriter' /\ Conf!LockFree /\ Conf!LockFree'
      /\ (Conf!Readable' <=> Conf!Readable)
  BY <1>1, <1>5 DEF Conf!OneWriter, Conf!LockFree, Conf!Readable
<1>7. Conf!Backed(v2)' /\ (Conf!Readable' => Conf!Backed(v3)')
  BY <1>1, <1>2, <1>3, <1>6 DEF Conf!IInv, Conf!Backed
<1>8. Conf!Saved'
  <2>1. v1' = "truncate" => Conf!InPlain(v2)' = {}
    BY <1>1 DEF Conf!InPlain
  <2> QED BY <1>1, <2>1 DEF Conf!Saved
<1>9. Conf!Entered'
  <2>1. ASSUME ~v11, NEW m \in Secrets \ v9, v8[m] # "none"
        PROVE  /\ Conf!Found(v2, m)' /\ Conf!Readable /\ Conf!Found(v3, m)'
    <3>1. Conf!Found(v2, m) /\ Conf!Readable /\ Conf!Found(v3, m)
      BY <1>1, <1>6, <2>1 DEF Conf!IInv, Conf!Entered
    <3>2. m = n => v2.secret[m] = v8[m]
      BY <1>1, <3>1 DEF Conf!Found, Conf!Plain
    <3> QED BY <1>1, <1>2, <1>3, <3>1, <3>2 DEF Conf!Found
  <2> QED BY <1>1, <1>6, <2>1 DEF Conf!Entered
<1> QED BY <1>4, <1>6, <1>7, <1>8, <1>9 DEF Conf!IInv

\* The names whose secret the keychain refused are dropped.
LEMMA ConfRefused ==
    ASSUME Conf!IInv, Conf!Refused
    PROVE  Conf!IInv'
<1> DEFINE s == [n \in Secrets |-> IF n \in Conf!InPlain(v2) THEN "none"
                                   ELSE v2.secret[n]]
<1>1. /\ Conf!TypeOK /\ v1 = "migrate" /\ v1' = "truncate"
      /\ v2' = [v2 EXCEPT !.secret = s]
      /\ v9' = v9 \cup Conf!InPlain(v2)
      /\ UNCHANGED <<v3, v4, v5, v6, v7, v8, v10, v11>>
  BY DEF Conf!IInv, Conf!Refused
<1>2. /\ v2'.secret = s /\ v2' \in Conf!Config
  <2>1. v2' = [choice |-> v2.choice, bootnode |-> v2.bootnode, secret |-> s]
    BY <1>1, ConfTyped, ConfChanges
  <2>2. s \in [Secrets -> ConfValues]
    BY <1>1, ConfTyped DEF ConfValues
  <2> HIDE DEF s
  <2> QED BY <1>1, <2>1, <2>2, ConfTyped DEF Conf!Config, ConfValues
<1>3. /\ \A n \in Secrets : v2'.secret[n] \notin Conf!Plain
      /\ \A n \in Secrets \ Conf!InPlain(v2) : v2'.secret[n] = v2.secret[n]
      /\ \A n \in Secrets : v2'.secret[n] = "marker" =>
             v2.secret[n] = "marker"
  BY <1>2 DEF Conf!InPlain, Conf!Plain
<1> HIDE DEF s
<1>4. Conf!TypeOK'
  BY <1>1, <1>2 DEF Conf!TypeOK, Conf!InPlain
<1>5. \A t \in Tasks : v5[t] = Conf!AtRest /\ v5[t].at = "idle"
  BY <1>1 DEF Conf!IInv, Conf!OneWriter, Conf!AtRest
<1>6. /\ Conf!OneWriter' /\ Conf!LockFree /\ Conf!LockFree'
      /\ (Conf!Readable' <=> Conf!Readable)
  BY <1>1, <1>5 DEF Conf!OneWriter, Conf!LockFree, Conf!Readable
<1>7. Conf!Backed(v2)' /\ (Conf!Readable' => Conf!Backed(v3)')
  BY <1>1, <1>3, <1>6 DEF Conf!IInv, Conf!Backed
<1>8. Conf!Saved'
  BY <1>1, <1>3 DEF Conf!Saved, Conf!InPlain
<1>9. Conf!Entered'
  <2>1. ASSUME ~v11, NEW n \in Secrets \ v9', v8[n] # "none"
        PROVE  Conf!Found(v2, n)' /\ Conf!Readable /\ Conf!Found(v3, n)'
    <3>1. Conf!Found(v2, n) /\ Conf!Readable /\ Conf!Found(v3, n)
      BY <1>1, <1>6, <2>1 DEF Conf!IInv, Conf!Entered
    <3> QED BY <1>1, <1>3, <2>1, <3>1 DEF Conf!Found
  <2> QED BY <1>1, <1>6, <2>1 DEF Conf!Entered
<1> QED BY <1>4, <1>6, <1>7, <1>8, <1>9 DEF Conf!IInv

\* The migrated file is written, or the launch goes on without.
LEMMA ConfMigrated ==
    ASSUME Conf!IInv, Conf!MigratedWrite
    PROVE  Conf!IInv'
<1>1. /\ Conf!TypeOK /\ UNCHANGED <<v2, v4, v5, v6, v7, v8, v9>>
      /\ v1 \in {"truncate", "write"} /\ v1' \in {"write", "up"}
      /\ \/ v1' = "write" /\ v3' = CutShort /\ UNCHANGED <<v10, v11>>
         \/ v1' = "up" /\ v3' = v2 /\ UNCHANGED <<v10, v11>>
         \/ v1' = "up" /\ v3' \in {v3, CutShort} /\ v10' = TRUE /\ v11' = TRUE
  BY DEF Conf!IInv, Conf!MigratedWrite, Conf!Migrated
<1>2. Conf!TypeOK'
  BY <1>1 DEF Conf!TypeOK
<1>3. \A t \in Tasks : v5[t] = Conf!AtRest /\ v5[t].at = "idle"
  BY <1>1 DEF Conf!IInv, Conf!OneWriter, Conf!AtRest
<1>4. Conf!OneWriter' /\ Conf!LockFree'
  BY <1>1, <1>3 DEF Conf!OneWriter, Conf!LockFree
<1>5. Conf!Backed(v2)' /\ (Conf!Readable' => Conf!Backed(v3)')
  BY <1>1 DEF Conf!IInv, Conf!Backed, Conf!Readable
<1>6. Conf!Saved'
  BY <1>1 DEF Conf!IInv, Conf!Saved, Conf!InPlain
<1>7. Conf!Entered'
  <2>1. ASSUME ~v11', NEW n \in Secrets \ v9, v8[n] # "none"
        PROVE  Conf!Found(v2, n)'
    BY <1>1, <2>1 DEF Conf!IInv, Conf!Entered, Conf!Found
  <2>2. ASSUME ~v11', v1' = "up"
        PROVE  v3' = v2 /\ Conf!Readable'
    BY <1>1, <2>2, FilesAssumption, ConfTyped DEF Conf!Readable
  <2> QED BY <1>1, <2>1, <2>2 DEF Conf!Entered, Conf!Found
<1> QED BY <1>2, <1>4, <1>5, <1>6, <1>7 DEF Conf!IInv

LEMMA ConfClicks ==
    ASSUME Conf!IInv, NEW t \in Tasks, NEW what \in Conf!Settable,
           Conf!Click(t, what)
    PROVE  Conf!IInv'
<1>1. /\ Conf!TypeOK /\ v1 = "up" /\ v5[t] = Conf!AtRest /\ v6 < MaxSaves
      /\ v6' = v6 + 1
      /\ v5' = [v5 EXCEPT ![t] = [at |-> "clicked", what |-> what]]
      /\ UNCHANGED <<v1, v2, v3, v4, v7, v8, v9, v10, v11>>
  BY DEF Conf!IInv, Conf!Click
<1>2. /\ v5' \in [Tasks -> ConfTasks] /\ v5'[t].at = "clicked"
      /\ \A u \in Tasks : u # t => v5'[u] = v5[u]
  BY <1>1, ConfTyped DEF ConfTasks
<1>3. v6' \in 0..MaxSaves
  BY <1>1, WindowsAssumption DEF Conf!TypeOK
<1>4. Conf!TypeOK'
  BY <1>1, <1>2, <1>3, ConfTypedAfter DEF Conf!TypeOK
<1>5. Conf!OneWriter' /\ (Conf!LockFree' <=> Conf!LockFree)
  BY <1>1, <1>2 DEF Conf!IInv, Conf!OneWriter, Conf!LockFree, Conf!AtRest
<1> QED BY <1>1, <1>4, <1>5 DEF Conf!IInv, Conf!Backed, Conf!Readable,
        Conf!Saved, Conf!InPlain, Conf!Entered, Conf!Found

\* What a setting under the lock does to what is remembered.
LEMMA ConfSetting ==
    ASSUME Conf!IInv, NEW t \in Tasks,
           \/ Conf!SetChoice(t) \/ Conf!AddBootnode(t)
           \/ Conf!RemoveBootnode(t) \/ Conf!SetSecret(t)
    PROVE  /\ v1 = "up" /\ Conf!LockFree /\ v5[t].at = "clicked"
           /\ UNCHANGED <<v1, v3, v6, v7, v10, v11>>
           /\ v2' \in Conf!Config
           /\ Conf!Ends(t) => UNCHANGED <<v2, v4, v8, v9>>
           /\ Conf!Ends(t) \/ Conf!Goes(t, "changed")
           /\ \/ v2'.secret = v2.secret /\ UNCHANGED <<v4, v8, v9>>
              \/ \E n \in Secrets :
                     /\ v2'.secret[n] = "marker"
                     /\ \A m \in Secrets : m # n =>
                            v2'.secret[m] = v2.secret[m]
                     /\ v4' = [v4 EXCEPT ![n] = "new"]
                     /\ v8' = [v8 EXCEPT ![n] = "new"]
                     /\ v9' = v9 \ {n}
<1>1. /\ Conf!TypeOK /\ v2 \in Conf!Config
      /\ v2.choice \in Choices /\ v2.bootnode \in BOOLEAN
      /\ v2.secret \in [Secrets -> ConfValues]
  BY ConfTyped DEF Conf!IInv, Conf!Config
<1>2. /\ v1 = "up" /\ Conf!LockFree /\ v5[t].at = "clicked"
      /\ UNCHANGED <<v1, v3, v6, v7, v10, v11>>
  BY DEF Conf!SetChoice, Conf!AddBootnode, Conf!RemoveBootnode,
         Conf!SetSecret, Conf!Took
<1>3. v5[t].what \in Conf!Settable
  BY <1>1, <1>2, ConfTyped DEF ConfTasks, Conf!AtRest
<1>4. CASE Conf!SetChoice(t)
  <2>1. /\ v5[t].what.set = "choice" /\ Conf!Goes(t, "changed")
        /\ v2' = [v2 EXCEPT !.choice = v5[t].what.to]
        /\ UNCHANGED <<v4, v8, v9>>
    BY <1>4 DEF Conf!SetChoice, Conf!Took
  <2>2. v5[t].what.to \in Choices
    BY <1>3, <2>1 DEF Conf!Settable
  <2>3. v2' = [choice |-> v5[t].what.to, bootnode |-> v2.bootnode,
               secret |-> v2.secret]
    BY <1>1, <2>1, ConfChanges
  <2>4. v2' \in Conf!Config /\ v2'.secret = v2.secret
    BY <1>1, <2>2, <2>3 DEF Conf!Config, ConfValues
  <2>5. v5[t] # Conf!AtRest /\ ~Conf!Ends(t)
    <3>1. v5'[t].at = "changed"
      BY <1>1, <1>2, <2>1, ConfMoves
    <3>2. Conf!Ends(t) => v5'[t].at = "idle"
      BY <1>1, ConfEnds
    <3> QED BY <1>2, <3>1, <3>2 DEF Conf!AtRest
  <2> QED BY <1>2, <2>1, <2>4, <2>5
<1>5. CASE Conf!AddBootnode(t) \/ Conf!RemoveBootnode(t)
  <2>1. /\ UNCHANGED <<v4, v8, v9>>
        /\ \/ /\ v2' = [v2 EXCEPT !.bootnode = TRUE]
              /\ v2.bootnode /\ Conf!Ends(t)
           \/ \E b \in BOOLEAN : /\ v2' = [v2 EXCEPT !.bootnode = b]
                                 /\ Conf!Goes(t, "changed")
    BY <1>5 DEF Conf!AddBootnode, Conf!RemoveBootnode
  <2>2. PICK b \in BOOLEAN : v2' = [v2 EXCEPT !.bootnode = b]
    BY <2>1
  <2>3. v2' = [choice |-> v2.choice, bootnode |-> b, secret |-> v2.secret]
    BY <1>1, <2>2, ConfChanges
  <2>4. v2' \in Conf!Config /\ v2'.secret = v2.secret
    BY <1>1, <2>3 DEF Conf!Config, ConfValues
  <2>5. ASSUME Conf!Goes(t, "changed") PROVE ~Conf!Ends(t)
    <3>1. v5'[t].at = "changed"
      BY <1>1, <1>2, <2>5, ConfMoves
    <3>2. Conf!Ends(t) => v5'[t].at = "idle"
      BY <1>1, ConfEnds
    <3> QED BY <3>1, <3>2
  <2>6. ASSUME Conf!Ends(t) PROVE v2' = v2
    <3>1. v2.bootnode = TRUE /\ v2' = [v2 EXCEPT !.bootnode = TRUE]
      BY <1>1, <2>1, <2>5, <2>6
    <3>2. v2' = [choice |-> v2.choice, bootnode |-> v2.bootnode,
                 secret |-> v2.secret]
      BY <1>1, <3>1, ConfChanges
    <3> QED BY <1>1, <3>2 DEF Conf!Config
  <2> QED BY <1>2, <2>1, <2>4, <2>6
<1>6. CASE Conf!SetSecret(t)
  <2> DEFINE n == v5[t].what.name
  <2>1. v5[t].what.set = "secret"
    BY <1>6 DEF Conf!SetSecret, Conf!Took
  <2>2. n \in Secrets
    BY <1>3, <2>1 DEF Conf!Settable
  <2>3. \/ /\ Conf!Goes(t, "changed")
           /\ v4' = [v4 EXCEPT ![n] = "new"]
           /\ v8' = [v8 EXCEPT ![n] = "new"]
           /\ v9' = v9 \ {n}
           /\ v2' = [v2 EXCEPT !.secret[n] = "marker"]
        \/ Conf!Ends(t) /\ UNCHANGED <<v4, v8, v9, v2>>
    BY <1>6 DEF Conf!SetSecret
  <2> HIDE DEF n
  <2>4. CASE Conf!Ends(t) /\ UNCHANGED <<v4, v8, v9, v2>>
    BY <1>1, <1>2, <2>4
  <2>5. CASE /\ Conf!Goes(t, "changed")
             /\ v4' = [v4 EXCEPT ![n] = "new"]
             /\ v8' = [v8 EXCEPT ![n] = "new"]
             /\ v9' = v9 \ {n}
             /\ v2' = [v2 EXCEPT !.secret[n] = "marker"]
    <3>1. /\ v2' \in Conf!Config /\ v2'.secret[n] = "marker"
          /\ \A m \in Secrets : m # n => v2'.secret[m] = v2.secret[m]
      BY <1>1, <2>2, <2>5, ConfSecret
    <3>2. v5'[t].at = "changed"
      BY <1>1, <1>2, <2>5, ConfMoves
    <3>3. Conf!Ends(t) => v5'[t].at = "idle"
      BY <1>1, ConfEnds
    <3> QED BY <1>2, <2>2, <2>5, <3>1, <3>2, <3>3
  <2> QED BY <2>3, <2>4, <2>5
<1> QED BY <1>4, <1>5, <1>6

\* A setting is changed under the lock, and is not on disk yet.
LEMMA ConfSets ==
    ASSUME Conf!IInv, NEW t \in Tasks,
           \/ Conf!SetChoice(t) \/ Conf!AddBootnode(t)
           \/ Conf!RemoveBootnode(t) \/ Conf!SetSecret(t)
    PROVE  Conf!IInv'
<1>1. /\ Conf!TypeOK /\ v1 = "up" /\ Conf!LockFree /\ v5[t].at = "clicked"
      /\ UNCHANGED <<v1, v3, v6, v7, v10, v11>> /\ v2' \in Conf!Config
      /\ (Conf!Readable' <=> Conf!Readable)
  BY ConfSetting DEF Conf!IInv, Conf!Readable
<1>2. CASE Conf!Ends(t)
  <2>1. UNCHANGED <<v2, v4, v8, v9>>
    BY <1>2, ConfSetting
  <2>2. v5' \in [Tasks -> ConfTasks] /\ Conf!LockFree' /\ Conf!OneWriter'
    BY <1>1, <1>2, ConfLeaves
  <2>3. Conf!TypeOK'
    BY <1>1, <2>1, <2>2, ConfTypedAfter DEF Conf!TypeOK
  <2> QED BY <1>1, <2>1, <2>2, <2>3 DEF Conf!IInv, Conf!Backed,
          Conf!Saved, Conf!InPlain, Conf!Entered, Conf!Found
<1>3. CASE Conf!Goes(t, "changed")
  <2>1. v5' \in [Tasks -> ConfTasks] /\ ~Conf!LockFree' /\ Conf!OneWriter'
    <3>1. \E set : Conf!Took(t, set)
      BY DEF Conf!SetChoice, Conf!AddBootnode, Conf!RemoveBootnode,
             Conf!SetSecret
    <3> QED BY <1>1, <1>3, <3>1, ConfTakes
  <2>2. \A n \in Secrets : v2.secret[n] \notin Conf!Plain
    BY <1>1 DEF Conf!IInv, Conf!Saved, Conf!InPlain
  <2>3. CASE v2'.secret = v2.secret /\ UNCHANGED <<v4, v8, v9>>
    <3>1. Conf!TypeOK'
      BY <1>1, <2>1, <2>3, ConfTypedAfter DEF Conf!TypeOK
    <3>2. Conf!Saved'
      BY <1>1, <2>1, <2>2, <2>3 DEF Conf!Saved, Conf!InPlain
    <3>3. Conf!Entered'
      BY <1>1, <2>1, <2>3 DEF Conf!IInv, Conf!Entered, Conf!Found
    <3>4. Conf!Backed(v2)' /\ (Conf!Readable' => Conf!Backed(v3)')
      BY <1>1, <2>3 DEF Conf!IInv, Conf!Backed
    <3> QED BY <2>1, <3>1, <3>2, <3>3, <3>4 DEF Conf!IInv
  <2>4. ASSUME NEW n \in Secrets,
               v2'.secret[n] = "marker",
               \A m \in Secrets : m # n => v2'.secret[m] = v2.secret[m],
               v4' = [v4 EXCEPT ![n] = "new"],
               v8' = [v8 EXCEPT ![n] = "new"], v9' = v9 \ {n}
        PROVE  Conf!IInv'
    <3>1. /\ v4' \in [Secrets -> {"none"} \cup Conf!Plain]
          /\ v8' \in [Secrets -> {"none"} \cup Conf!Plain]
          /\ v4'[n] = "new" /\ v8'[n] = "new"
          /\ \A m \in Secrets : m # n => v4'[m] = v4[m] /\ v8'[m] = v8[m]
      BY <1>1, <2>4 DEF Conf!TypeOK, Conf!Plain
    <3>2. Conf!TypeOK'
      BY <1>1, <2>1, <2>4, <3>1, ConfTypedAfter DEF Conf!TypeOK
    <3>3. Conf!Saved'
      BY <1>1, <2>1, <2>2, <2>4 DEF Conf!Saved, Conf!InPlain, Conf!Plain
    <3>4. Conf!Entered'
      <4>1. ASSUME ~v11, NEW m \in Secrets \ v9', v8'[m] # "none"
            PROVE  Conf!Found(v2, m)'
        <5>1. CASE m = n
          BY <2>4, <3>1, <5>1 DEF Conf!Found
        <5>2. CASE m # n
          BY <1>1, <2>4, <3>1, <4>1, <5>2
          DEF Conf!IInv, Conf!Entered, Conf!Found
        <5> QED BY <5>1, <5>2
      <4> QED BY <1>1, <2>1, <4>1 DEF Conf!Entered
    <3>5. Conf!Backed(v2)' /\ (Conf!Readable' => Conf!Backed(v3)')
      BY <1>1, <2>4, <3>1 DEF Conf!IInv, Conf!Backed
    <3> QED BY <2>1, <3>2, <3>3, <3>4, <3>5 DEF Conf!IInv
  <2> QED BY <2>3, <2>4, ConfSetting
<1> QED BY <1>2, <1>3, ConfSetting

\* The save itself: cut short, done or failed.
LEMMA ConfSaves ==
    ASSUME Conf!IInv, NEW t \in Tasks,
           Conf!Truncate(t) \/ Conf!Write(t) \/ Conf!SaveFails(t)
    PROVE  Conf!IInv'
<1>1. /\ Conf!TypeOK /\ v5[t].at \in {"changed", "truncated"}
      /\ UNCHANGED <<v1, v2, v4, v6, v7, v8, v9>>
  BY DEF Conf!IInv, Conf!Truncate, Conf!Write, Conf!SaveFails
<1>2. v1 = "up" /\ ~Conf!LockFree
  BY <1>1 DEF Conf!IInv, Conf!OneWriter, Conf!LockFree, Conf!AtRest
<1>3. CASE Conf!Truncate(t)
  <2>1. v3' = CutShort /\ UNCHANGED <<v10, v11>> /\ v5[t].at = "changed"
        /\ Conf!Goes(t, "truncated")
    BY <1>3 DEF Conf!Truncate
  <2>2. /\ v5' \in [Tasks -> ConfTasks] /\ v5'[t].at = "truncated"
        /\ \A u \in Tasks : u # t => v5'[u] = v5[u]
    BY <1>1, <2>1, ConfMoves
  <2>3. Conf!OneWriter' /\ ~Conf!LockFree'
    BY <1>1, <1>2, <2>2 DEF Conf!IInv, Conf!OneWriter, Conf!LockFree
  <2>4. Conf!TypeOK'
    BY <1>1, <2>1, <2>2, ConfTypedAfter DEF Conf!TypeOK
  <2> QED BY <1>1, <1>2, <2>1, <2>3, <2>4 DEF Conf!IInv, Conf!Backed,
          Conf!Readable, Conf!Saved, Conf!InPlain, Conf!Entered, Conf!Found
<1>4. CASE Conf!Write(t) \/ Conf!SaveFails(t)
  <2>1. v5' \in [Tasks -> ConfTasks] /\ Conf!LockFree' /\ Conf!OneWriter'
    BY <1>1, <1>4, ConfLeaves DEF Conf!Write, Conf!SaveFails
  <2>2. \/ v3' = v2 /\ v10' = FALSE /\ v11' = v11
        \/ v3' = v3 /\ v10' = TRUE /\ v11' = TRUE
    BY <1>4 DEF Conf!Write, Conf!SaveFails
  <2>3. Conf!TypeOK'
    BY <1>1, <2>1, <2>2, ConfTypedAfter DEF Conf!TypeOK
  <2>4. Conf!Backed(v2)' /\ (Conf!Readable' => Conf!Backed(v3)')
    BY <1>1, <2>2 DEF Conf!IInv, Conf!Backed, Conf!Readable
  <2>5. Conf!Saved'
    BY <1>1, <1>2, <2>2 DEF Conf!IInv, Conf!Saved, Conf!InPlain
  <2>6. Conf!Entered'
    <3>1. ASSUME ~v11', NEW n \in Secrets \ v9, v8[n] # "none"
          PROVE  Conf!Found(v2, n)' /\ Conf!Readable' /\ Conf!Found(v3, n)'
      BY <1>1, <1>2, <2>2, <3>1, ConfTyped, FilesAssumption
      DEF Conf!IInv, Conf!Entered, Conf!Found, Conf!Readable
    <3> QED BY <1>1, <3>1 DEF Conf!Entered
  <2> QED BY <2>1, <2>3, <2>4, <2>5, <2>6 DEF Conf!IInv
<1> QED BY <1>3, <1>4

LEMMA ConfQuits ==
    ASSUME Conf!IInv, Conf!Quits
    PROVE  Conf!IInv'
<1>1. /\ Conf!TypeOK /\ v1 # "down" /\ v1' = "down"
      /\ v5' = [t \in Tasks |-> Conf!AtRest]
      /\ v11' = (v11 \/ v3 = CutShort \/ ~Conf!LockFree)
      /\ UNCHANGED <<v2, v3, v4, v6, v7, v8, v9, v10>>
  BY DEF Conf!IInv, Conf!Quits
<1>2. /\ v5' \in [Tasks -> ConfTasks] /\ Conf!OneWriter' /\ Conf!LockFree'
      /\ v11' \in BOOLEAN /\ (Conf!Readable' <=> Conf!Readable)
  BY <1>1 DEF ConfTasks, Conf!OneWriter, Conf!LockFree, Conf!AtRest,
     Conf!Readable
<1>3. Conf!TypeOK'
  BY <1>1, <1>2, ConfTypedAfter DEF Conf!TypeOK
<1>4. Conf!Backed(v2)' /\ (Conf!Readable' => Conf!Backed(v3)')
  BY <1>1, <1>2 DEF Conf!IInv, Conf!Backed
<1>5. Conf!Saved'
  BY <1>1 DEF Conf!Saved
<1>6. Conf!Entered'
  <2>1. ASSUME ~v11', NEW n \in Secrets \ v9, v8[n] # "none"
        PROVE  Conf!Readable /\ Conf!Found(v3, n)
    BY <1>1, <2>1 DEF Conf!IInv, Conf!Saved, Conf!Entered
  <2> QED BY <1>1, <1>2, <2>1 DEF Conf!Entered, Conf!Found
<1> QED BY <1>2, <1>3, <1>4, <1>5, <1>6 DEF Conf!IInv

LEMMA ConfKeeps ==
    ASSUME Conf!IInv, Conf!Next
    PROVE  Conf!IInv'
BY ConfLoads, ConfMigrates, ConfRefused, ConfMigrated, ConfClicks, ConfSets,
   ConfSaves, ConfQuits
   DEF Conf!Next

LEMMA ConfStutters ==
    ASSUME Conf!IInv, UNCHANGED Slots
    PROVE  Conf!IInv'
<1>1. UNCHANGED <<v1, v2, v3, v4, v5, v6, v7, v8, v9, v10, v11>>
  BY DEF Slots
<1> QED BY <1>1 DEF Conf!IInv, Conf!TypeOK, Conf!Backed, Conf!Readable,
        Conf!OneWriter, Conf!Saved, Conf!InPlain, Conf!LockFree,
        Conf!Entered, Conf!Found

\* Without a task at work the lock is free.
LEMMA ConfQuiet ==
    ASSUME Conf!IInv
    PROVE  Conf!SettingsKept
<1>1. (\A t \in Tasks : v5[t] = Conf!AtRest) => Conf!LockFree
  BY DEF Conf!LockFree, Conf!AtRest
<1>2. ASSUME v1 = "up", \A t \in Tasks : v5[t] = Conf!AtRest, ~v11,
             NEW n \in Secrets \ v9, v8[n] # "none"
      PROVE  v4[n] = v8[n] /\ v2.secret[n] = "marker"
  BY <1>1, <1>2 DEF Conf!IInv, Conf!Entered, Conf!Found, Conf!Saved,
     Conf!InPlain
<1> QED BY <1>1, <1>2 DEF Conf!IInv, Conf!Saved, Conf!Backed,
        Conf!SettingsKept

LEMMA ConfInvariant ==
    ServicesSpec => [](focus = "settings" => Conf!IInv)
<1> DEFINE I == focus = "settings" => Conf!IInv
<1>1. ServicesInit => I
  BY WindowInits, ConfBegins
<1>2. I /\ [ServicesNext]_serviceVars => I'
  BY WindowSteps, WindowStutters, ConfKeeps, ConfStutters
<1> QED BY <1>1, <1>2, PTL DEF ServicesSpec

\* A marker always has a secret of the keychain behind it; while no task saves,
\* the file holds what the session works with and no key in plain, unless the last
\* save failed; and every secret is the one last entered, until a save is cut
\* short or fails, or a launch drops it.
THEOREM SettingsSafety == ServicesSpec => []SettingsKept
<1>1. (focus = "settings" => Conf!IInv) => SettingsKept
  BY ConfQuiet DEF SettingsKept
<1> QED BY <1>1, ConfInvariant, PTL
=============================================================================
