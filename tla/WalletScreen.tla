----------------------------- MODULE WalletScreen -----------------------------
(***************************************************************************)
(* What the window shows of the wallet: onboarding, the lock screen and    *)
(* the main view over a session that is opened and closed by tasks, the    *)
(* session clock and its expiry, and the secrets that reach the screen and *)
(* the clipboard.                                                          *)
(*                                                                         *)
(* A callback of the window runs on the UI thread and spawns a task; the   *)
(* task ends by posting a closure that the UI thread runs later, in the    *)
(* order of posting.  WalletService is what WalletCustody says it is; here *)
(* its session is open or closed, one step per call.                       *)
(***************************************************************************)
EXTENDS Naturals, Sequences

CONSTANTS
    Tasks,       \* tasks of the runtime that may be in flight together
    Accounts,    \* accounts whose key may be exported
    None,        \* no key on the screen
    MaxActs      \* bound: operations begun and texts copied

VARIABLES
    open,        \* the wallet's session is active, its keys in memory
    clock,       \* SESSION_UNLOCK_EPOCH: none, running, or an hour old
    onboarding, lockScreen,   \* show-onboarding, show-lock-screen
    wizard,      \* onboarding-step, as far as it decides what can be clicked
    unlocking, lockedOut,     \* lock-unlocking, lock-locked-out
    task,        \* task[t]: the operation and where it is
    ticker,      \* the background thread's handling of an expiry
    posted,      \* closures for the UI thread, oldest first
    key,         \* wallet-exported-key
    clipboard,   \* the recovery phrase, or another text
    keyTimers,   \* pending schedule_exported_key_clear, by account
    clipTimers,  \* pending schedule_clipboard_autoclear of the phrase
    acts,
    \* history
    crossed,     \* an opening and a closing were in flight together
    bypassed,    \* onboarding was completed on a closed session
    unwiped      \* the clipboard refused a wipe

sessionVars == <<open, clock, onboarding, lockScreen, wizard, unlocking,
                 lockedOut, ticker, crossed, bypassed>>
secretVars == <<key, clipboard, keyTimers, clipTimers, unwiped>>
vars == <<sessionVars, secretVars, task, posted, acts>>

Opening == {"unlock", "create", "import", "account"}
Closing == {"lock", "sign-out"}
Ops == Opening \cup Closing \cup {"export"}
TaskType == [op : Ops, at : {"begun", "opened", "timed", "cleared", "locked"},
             account : Accounts \cup {None}]
Idle == [op |-> "none", at |-> "idle", account |-> None]
ClosureType == [show : {"main", "refused", "locked-out", "phrase", "lock",
                        "onboarding", "reset", "key", "no-key"},
                account : Accounts \cup {None}]

TypeOK ==
    /\ open \in BOOLEAN /\ clock \in {"none", "running", "over"}
    /\ onboarding \in BOOLEAN /\ lockScreen \in BOOLEAN
    /\ wizard \in {"start", "phrase", "done"}
    /\ unlocking \in BOOLEAN /\ lockedOut \in BOOLEAN
    /\ task \in [Tasks -> TaskType \cup {Idle}]
    /\ ticker \in {"idle", "seen", "cleared", "locked"}
    /\ posted \in Seq(ClosureType)
    /\ key \in Accounts \cup {None}
    /\ clipboard \in {"other", "phrase"}
    /\ keyTimers \in [Accounts -> Nat] /\ clipTimers \in Nat
    /\ acts \in 0..MaxActs
    /\ crossed \in BOOLEAN /\ bypassed \in BOOLEAN /\ unwiped \in BOOLEAN

\* A first run starts with onboarding, any other with the lock screen.
Init ==
    /\ open = FALSE /\ clock = "none"
    /\ onboarding \in BOOLEAN /\ lockScreen = ~onboarding
    /\ wizard = "start" /\ unlocking = FALSE /\ lockedOut = FALSE
    /\ task = [t \in Tasks |-> Idle] /\ ticker = "idle" /\ posted = <<>>
    /\ key = None /\ clipboard = "other"
    /\ keyTimers = [a \in Accounts |-> 0] /\ clipTimers = 0
    /\ acts = 0 /\ crossed = FALSE /\ bypassed = FALSE /\ unwiped = FALSE

MainView == ~onboarding /\ ~lockScreen
InFlight(ops) == \E t \in Tasks : task[t].op \in ops
Posted(what) == \E i \in DOMAIN posted : posted[i].show \in what
IsOpening == InFlight(Opening) \/ Posted({"main", "phrase"})
IsClosing == InFlight(Closing) \/ Posted({"lock", "onboarding"})
                \/ ticker # "idle"
Quiet == posted = <<>> /\ ticker = "idle" /\ \A t \in Tasks : task[t] = Idle

Post(show, a) == posted' = Append(posted, [show |-> show, account |-> a])
Goes(t, at) == task' = [task EXCEPT ![t].at = at]
Ends(t) == task' = [task EXCEPT ![t] = Idle]
Act == acts < MaxActs /\ acts' = acts + 1

\* A click spawns a task.
Spawn(t, op, a) ==
    /\ Act /\ task[t] = Idle
    /\ task' = [task EXCEPT ![t] = [op |-> op, at |-> "begun", account |-> a]]
    /\ crossed' = (crossed \/ (op \in Opening /\ IsClosing)
                           \/ (op \in Closing /\ IsOpening))
    /\ UNCHANGED <<open, clock, onboarding, lockScreen, wizard, ticker,
                   bypassed, posted>>

-----------------------------------------------------------------------------
\* The lock screen's button is dead while `unlocking' or `lockedOut'.
UnlockWallet(t) ==
    /\ lockScreen /\ ~onboarding /\ ~unlocking /\ ~lockedOut
    /\ unlocking' = TRUE /\ UNCHANGED lockedOut
    /\ Spawn(t, "unlock", None) /\ UNCHANGED secretVars

SignOut(t) ==
    /\ lockScreen /\ ~onboarding
    /\ Spawn(t, "sign-out", None)
    /\ UNCHANGED <<unlocking, lockedOut, secretVars>>

LockClicked(t) ==
    /\ MainView /\ Spawn(t, "lock", None)
    /\ UNCHANGED <<unlocking, lockedOut, secretVars>>

CreateWallet(t) ==
    /\ onboarding /\ wizard = "start" /\ Spawn(t, "create", None)
    /\ UNCHANGED <<unlocking, lockedOut, secretVars>>

\* wallet-create-account, wallet-import-mnemonic.
NewAccount(t, op) ==
    /\ MainView /\ op \in {"account", "import"} /\ Spawn(t, op, None)
    /\ UNCHANGED <<unlocking, lockedOut, secretVars>>

\* What an earlier export shows is cleared first.
ExportKey(t, a) ==
    /\ MainView /\ Spawn(t, "export", a)
    /\ key' = None
    /\ UNCHANGED <<unlocking, lockedOut, clipboard, keyTimers, clipTimers,
                   unwiped>>

-----------------------------------------------------------------------------
Running(t, op, at) == task[t].op \in op /\ task[t].at = at

\* The wallet opens its session; or the password, or the phrase, is refused.
WalletOpens(t) ==
    /\ Running(t, Opening, "begun")
    /\ \/ open' = TRUE /\ Goes(t, "opened") /\ UNCHANGED posted
       \/ /\ Ends(t) /\ UNCHANGED open
          /\ IF task[t].op = "unlock"
             THEN Post("refused", None) \/ Post("locked-out", None)
             ELSE UNCHANGED posted
    /\ UNCHANGED <<clock, onboarding, lockScreen, wizard, unlocking, lockedOut,
                   ticker, crossed, bypassed, secretVars, acts>>

\* Creating an account from the main view leaves the clock alone.
StartsClock(t) ==
    /\ Running(t, Opening, "opened")
    /\ clock' = IF task[t].op = "account" THEN clock ELSE "running"
    /\ Goes(t, "timed")
    /\ UNCHANGED <<open, onboarding, lockScreen, wizard, unlocking, lockedOut,
                   ticker, crossed, bypassed, secretVars, posted, acts>>

PostsOpened(t) ==
    /\ Running(t, Opening, "timed") /\ Ends(t)
    /\ CASE task[t].op = "unlock" -> Post("main", None)
         [] task[t].op = "create" -> Post("phrase", None)
         [] OTHER -> UNCHANGED posted
    /\ UNCHANGED <<sessionVars, secretVars, acts>>

\* Mutant: the wallet is locked and the clock left running.
ClearsClockNot(t) ==
    /\ Running(t, Closing, "begun")
    /\ Goes(t, "cleared")
    /\ UNCHANGED <<sessionVars, secretVars, posted, acts>>

\* perform_wallet_lock_teardown: the clock first, the keys after.
ClearsClock(t) ==
    /\ Running(t, Closing, "begun")
    /\ clock' = "none" /\ Goes(t, "cleared")
    /\ UNCHANGED <<open, onboarding, lockScreen, wizard, unlocking, lockedOut,
                   ticker, crossed, bypassed, secretVars, posted, acts>>

WalletLocks(t) ==
    /\ Running(t, Closing, "cleared")
    /\ open' = FALSE /\ Goes(t, "locked")
    /\ UNCHANGED <<clock, onboarding, lockScreen, wizard, unlocking, lockedOut,
                   ticker, crossed, bypassed, secretVars, posted, acts>>

PostsClosed(t) ==
    /\ Running(t, Closing, "locked") /\ Ends(t)
    /\ Post(IF task[t].op = "lock" THEN "lock" ELSE "onboarding", None)
    /\ UNCHANGED <<sessionVars, secretVars, acts>>

\* export_private_key asks for the password, not for an open session.
Exported(t) ==
    /\ Running(t, {"export"}, "begun") /\ Ends(t)
    /\ Post("key", task[t].account) \/ Post("no-key", None)
    /\ UNCHANGED <<sessionVars, secretVars, acts>>

-----------------------------------------------------------------------------
\* An hour goes by; no operation takes that long.
HourPasses ==
    /\ Quiet /\ clock = "running" /\ clock' = "over"
    /\ UNCHANGED <<open, onboarding, lockScreen, wizard, unlocking, lockedOut,
                   ticker, crossed, bypassed, secretVars, task, posted, acts>>

\* The background thread reads the clock, clears it, locks the wallet and
\* posts the lock screen.
TickReads ==
    /\ ticker = "idle" /\ clock = "over" /\ ticker' = "seen"
    /\ crossed' = (crossed \/ IsOpening)
    /\ UNCHANGED <<open, clock, onboarding, lockScreen, wizard, unlocking,
                   lockedOut, bypassed, secretVars, task, posted, acts>>

TickClears ==
    /\ ticker = "seen" /\ ticker' = "cleared" /\ clock' = "none"
    /\ UNCHANGED <<open, onboarding, lockScreen, wizard, unlocking, lockedOut,
                   crossed, bypassed, secretVars, task, posted, acts>>

TickLocks ==
    /\ ticker = "cleared" /\ ticker' = "locked" /\ open' = FALSE
    /\ UNCHANGED <<clock, onboarding, lockScreen, wizard, unlocking, lockedOut,
                   crossed, bypassed, secretVars, task, posted, acts>>

TickPosts ==
    /\ ticker = "locked" /\ ticker' = "idle" /\ Post("lock", None)
    /\ UNCHANGED <<open, clock, onboarding, lockScreen, wizard, unlocking,
                   lockedOut, crossed, bypassed, secretVars, task, acts>>

-----------------------------------------------------------------------------
Shows(what) == posted # <<>> /\ Head(posted).show \in what
               /\ posted' = Tail(posted)

\* The UI thread runs a closure: what it shows of the session.
UiShowsSession ==
    /\ Shows({"main", "refused", "locked-out", "phrase", "lock", "onboarding",
              "reset"})
    /\ LET show == Head(posted).show
       IN  /\ lockScreen' = IF show \in {"main", "onboarding"} THEN FALSE
                            ELSE (show = "lock" \/ lockScreen)
           /\ onboarding' = (show \in {"onboarding", "reset"} \/ onboarding)
           /\ wizard' = IF show = "phrase" THEN "phrase"
                        ELSE IF show = "reset" THEN "start" ELSE wizard
           /\ unlocking' = (unlocking
                              /\ show \notin {"main", "refused", "locked-out"})
           /\ lockedOut' = IF show \in {"main", "refused"} THEN FALSE
                           ELSE (show = "locked-out" \/ lockedOut)
    /\ UNCHANGED <<open, clock, ticker, crossed, bypassed, secretVars, task,
                   acts>>

\* Mutant: no timer is scheduled while another one is pending.
ShowKeyOnce ==
    /\ Shows({"key"})
    /\ LET a == Head(posted).account
       IN  /\ key' = a
           /\ keyTimers' = IF \E b \in Accounts : keyTimers[b] > 0
                           THEN keyTimers ELSE [keyTimers EXCEPT ![a] = @ + 1]
    /\ UNCHANGED <<sessionVars, clipboard, clipTimers, unwiped, task, acts>>

\* A key is shown with a timer of its own.
ShowKey ==
    /\ Shows({"key"})
    /\ LET a == Head(posted).account
       IN key' = a /\ keyTimers' = [keyTimers EXCEPT ![a] = @ + 1]
    /\ UNCHANGED <<sessionVars, clipboard, clipTimers, unwiped, task, acts>>

UiShowsNoKey ==
    /\ Shows({"no-key"}) /\ key' = None
    /\ UNCHANGED <<sessionVars, clipboard, keyTimers, clipTimers, unwiped,
                   task, acts>>

\* wallet-unlock-clicked raises the lock screen at once.
UnlockClicked ==
    /\ MainView /\ Act /\ lockScreen' = TRUE
    /\ UNCHANGED <<open, clock, onboarding, wizard, unlocking, lockedOut,
                   ticker, crossed, bypassed, secretVars, task, posted>>

\* The phrase's word is verified; from there the wizard is clicked through.
VerifyWord ==
    /\ onboarding /\ wizard = "phrase" /\ wizard' = "done"
    /\ UNCHANGED <<open, clock, onboarding, lockScreen, unlocking, lockedOut,
                   ticker, crossed, bypassed, secretVars, task, posted, acts>>

\* Signing out shows onboarding at the step where it was left.
OnboardingComplete ==
    /\ onboarding /\ wizard = "done" /\ onboarding' = FALSE
    /\ bypassed' = (bypassed \/ (~lockScreen /\ clock = "none"))
    /\ UNCHANGED <<open, clock, lockScreen, wizard, unlocking, lockedOut,
                   ticker, crossed, secretVars, task, posted, acts>>

FactoryReset ==
    /\ MainView /\ Act /\ Post("reset", None)
    /\ UNCHANGED <<sessionVars, secretVars, task>>

-----------------------------------------------------------------------------
\* wallet-clear-export-state: the dialog is closed.
ClearExport ==
    /\ MainView /\ key' = None
    /\ UNCHANGED <<sessionVars, clipboard, keyTimers, clipTimers, unwiped,
                   task, posted, acts>>

CopyMnemonic ==
    /\ onboarding /\ wizard = "phrase" /\ Act
    /\ clipboard' = "phrase" /\ clipTimers' = clipTimers + 1
    /\ UNCHANGED <<sessionVars, key, keyTimers, unwiped, task, posted>>

\* Another text is copied, here or in another application.
CopyToClipboard ==
    /\ clipboard' = "other"
    /\ UNCHANGED <<sessionVars, key, keyTimers, clipTimers, unwiped, task,
                   posted, acts>>

\* A timer wipes what it was scheduled for, and nothing else.
KeyTimer(a) ==
    /\ keyTimers[a] > 0
    /\ keyTimers' = [keyTimers EXCEPT ![a] = @ - 1]
    /\ key' = IF key = a THEN None ELSE key
    /\ UNCHANGED <<sessionVars, clipboard, clipTimers, unwiped, task, posted,
                   acts>>

ClipboardTimer ==
    /\ clipTimers > 0 /\ clipTimers' = clipTimers - 1
    /\ \/ clipboard' = "other" /\ UNCHANGED unwiped
       \/ UNCHANGED clipboard /\ unwiped' = TRUE
    /\ UNCHANGED <<sessionVars, key, keyTimers, task, posted, acts>>

Next ==
    \/ \E t \in Tasks :
           \/ UnlockWallet(t) \/ SignOut(t) \/ LockClicked(t)
           \/ CreateWallet(t) \/ \E op \in Opening : NewAccount(t, op)
           \/ \E a \in Accounts : ExportKey(t, a)
           \/ WalletOpens(t) \/ StartsClock(t) \/ PostsOpened(t)
           \/ ClearsClock(t) \/ WalletLocks(t) \/ PostsClosed(t)
           \/ Exported(t)
    \/ HourPasses \/ TickReads \/ TickClears \/ TickLocks \/ TickPosts
    \/ UiShowsSession \/ ShowKey \/ UiShowsNoKey
    \/ UnlockClicked \/ VerifyWord \/ OnboardingComplete \/ FactoryReset
    \/ ClearExport \/ CopyMnemonic \/ CopyToClipboard
    \/ (\E a \in Accounts : KeyTimer(a)) \/ ClipboardTimer

Spec == Init /\ [][Next]_vars

-----------------------------------------------------------------------------
(***************************************************************************)
(* Once nothing is in flight, the session clock, the wallet and the window *)
(* agree: the wallet is open exactly while the clock runs, and a closed    *)
(* wallet is behind the lock screen or onboarding.  Excepted are sessions  *)
(* that were opened and closed at the same time, and an onboarding left at *)
(* its last step, which a sign-out brings back and one click completes.    *)
(***************************************************************************)
ClosedIsShown ==
    Quiet /\ ~crossed /\ ~bypassed =>
        /\ open <=> clock # "none"
        /\ ~open => lockScreen \/ onboarding

(***************************************************************************)
(* A secret does not stay: for a private key on the screen, and for the    *)
(* recovery phrase on the clipboard, a timer is pending that will wipe it, *)
(* whatever was exported, copied, cleared or locked since.                 *)
(***************************************************************************)
SecretsExpire ==
    /\ key # None => keyTimers[key] > 0
    /\ clipboard = "phrase" => clipTimers > 0 \/ unwiped
-----------------------------------------------------------------------------
(* Why the properties hold.                                                *)

\* An operation that closes a session is past the clock.
Cleared ==
    \/ \E t \in Tasks : task[t].op \in Closing /\ task[t].at # "begun"
    \/ ticker \in {"cleared", "locked"}

\* Sessions that were never opened and closed together: one that is being
\* opened is open from then on, and the clock runs over an open one only.
InTurn ==
    /\ ~(IsOpening /\ IsClosing)
    /\ clock # "none" => open
    /\ Cleared => clock = "none"
    /\ Posted({"main"}) => clock # "none"
    /\ \A t \in Tasks : task[t].op \in Opening /\ task[t].at # "begun" => open
    /\ \A t \in Tasks : Running(t, {"unlock"}, "timed") => clock # "none"

\* Who will start, or has stopped, the clock of an open session.
Accounted ==
    \/ \E t \in Tasks : \/ Running(t, Opening \ {"account"}, "opened")
                        \/ Running(t, Closing, "cleared")
    \/ ticker = "cleared"

\* And with no onboarding completed on a closed session: the main view is shown
\* of a session whose clock runs, or that is about to be closed.
Shown ==
    /\ \A t \in Tasks : task[t].op = "account" => clock # "none"
    /\ open /\ clock = "none" => Accounted
    /\ MainView => clock # "none" \/ IsClosing

IInv ==
    /\ TypeOK /\ SecretsExpire
    /\ ~crossed => InTurn
    /\ ~crossed /\ ~bypassed => Shown
=============================================================================
