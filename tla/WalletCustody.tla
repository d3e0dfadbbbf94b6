---------------------------- MODULE WalletCustody ----------------------------
(***************************************************************************)
(* Custody in WalletService: sessions, the lockout after wrong passwords,  *)
(* the re-authentication clock, and the decrypted keys, under operations   *)
(* that run concurrently.                                                  *)
(*                                                                         *)
(* Each operation of the service is an async task.  A task is at one point *)
(* of its operation, and any other task may run between two points: each   *)
(* of the locks it takes is released before the next is taken.  The        *)
(* keystore (KeyManager) and the SessionManager are external.              *)
(*                                                                         *)
(* WalletService can keep the lockout counters in a file, once             *)
(* enable_lockout_persistence names one.  The application never calls it,  *)
(* so persist_lockout_state returns at its first line and is left out.     *)
(***************************************************************************)
EXTENDS Naturals, FiniteSets

CONSTANTS
    Tasks,      \* operations that may be in flight together
    Accounts,   \* addresses of the keystore
    None,       \* no address
    MaxFailed,  \* MAX_FAILED_ATTEMPTS
    MaxRestarts \* bound: restarts of the application

ASSUME CustodyAssumption ==
    /\ IsFiniteSet(Tasks)
    /\ MaxFailed \in Nat \ {0}
    /\ MaxRestarts \in Nat
    /\ None \notin Accounts

VARIABLES
    task,       \* task[t]: the operation in flight, and where it is
    keys,       \* KeyManager: decrypted keys are in memory
    sessions,   \* SessionManager: addresses with an unexpired session
    failures,   \* SessionManager: wrong passwords per address
    active,     \* active_address
    fresh,      \* last_unlock_at is less than RE_AUTH_FRESHNESS_SECS old
    restarts,
    \* history
    cleanLocks, \* locks in flight that no unlock or creation overlapped
    closed,     \* such a lock is over, and no unlock or creation begun since
    lateSends,  \* sends begun while closed
    guesses     \* passwords refused to unlock and export since the reset

managerVars == <<keys, sessions, failures, active, fresh>>
historyVars == <<cleanLocks, closed, lateSends, guesses>>
vars == <<task, managerVars, restarts, historyVars>>

Counts == [Accounts -> Nat]
Ops == {"none", "unlock", "create", "export", "lock", "send"}
\* An empty password marks a programmatic send authorized by the session.
Passwords == {"right", "wrong", "empty"}
Points == {"idle", "lockout", "keystore", "setActive", "setClock",
           "recordSuccess", "recordFailure",
           "dropKeys", "endSessions", "clearActive", "clearClock",
           "readActive", "readSession", "verify", "refresh", "enforce",
           "verifyAgain", "sign"}
TaskType ==
    [op : Ops, at : Points, account : Accounts \cup {None},
     password : Passwords, high : BOOLEAN]

NoFailures == [a \in Accounts |-> 0]
Idle == [op |-> "none", at |-> "idle", account |-> None,
         password |-> "empty", high |-> FALSE]

TypeOK ==
    /\ task \in [Tasks -> TaskType]
    /\ keys \in BOOLEAN
    /\ sessions \subseteq Accounts
    /\ failures \in Counts
    /\ active \in Accounts \cup {None}
    /\ fresh \in BOOLEAN
    /\ restarts \in 0 .. MaxRestarts
    /\ cleanLocks \subseteq Tasks
    /\ closed \in BOOLEAN
    /\ lateSends \subseteq Tasks
    /\ guesses \in Counts

Init ==
    /\ task = [t \in Tasks |-> Idle]
    /\ keys = FALSE /\ sessions = {} /\ active = None /\ fresh = FALSE
    /\ failures = NoFailures /\ guesses = NoFailures
    /\ restarts = 0 /\ cleanLocks = {} /\ closed = TRUE /\ lateSends = {}

LockedOut(a) == failures[a] >= MaxFailed
SessionActive(a) == a \in sessions /\ ~LockedOut(a)
Opens(op) == op \in {"unlock", "create"}

-----------------------------------------------------------------------------
(* Steps within an operation.                                              *)

At(t, point) == task[t].at = point
GoTo(t, point) == task' = [task EXCEPT ![t].at = point]
Finish(t) == task' = [task EXCEPT ![t] = Idle]

\* No operation that opens a session is in flight.
Shut == \A u \in Tasks : ~Opens(task[u].op)

Begin(t, op, point, account, password, high) ==
    /\ At(t, "idle")
    /\ task' = [task EXCEPT ![t] =
                   [Idle EXCEPT !.op = op, !.at = point, !.account = account,
                                !.password = password, !.high = high]]
    /\ cleanLocks' = IF op = "lock" /\ Shut THEN cleanLocks \cup {t}
                     ELSE IF Opens(op) THEN {} ELSE cleanLocks
    /\ closed' = (closed /\ ~Opens(op))
    /\ lateSends' = IF op = "send" /\ closed THEN lateSends \cup {t}
                    ELSE IF Opens(op) THEN {} ELSE lateSends \ {t}
    /\ UNCHANGED <<managerVars, restarts, guesses>>

BeginUnlock(t) == \E a \in Accounts, p \in {"right", "wrong"} :
    Begin(t, "unlock", "lockout", a, p, FALSE)
BeginExport(t) == \E a \in Accounts, p \in {"right", "wrong"} :
    Begin(t, "export", "lockout", a, p, FALSE)
\* create_wallet and import_from_mnemonic.
BeginCreate(t) == \E a \in Accounts :
    Begin(t, "create", "keystore", a, "right", FALSE)
BeginLock(t) == Begin(t, "lock", "dropKeys", None, "empty", FALSE)
\* The send_transaction pair, and with an empty password
\* sign_digest_recoverable; `high' when the value meets the threshold.
BeginSend(t) == \E p \in Passwords, high \in BOOLEAN :
    Begin(t, "send", "readActive", None, p, high)

\* A locked-out address is refused before its password is looked at.
CheckLockout(t) ==
    /\ At(t, "lockout")
    /\ IF LockedOut(task[t].account) THEN Finish(t) ELSE GoTo(t, "keystore")
    /\ UNCHANGED <<managerVars, restarts, historyVars>>

\* The keystore decrypts under the password: unlock and creation leave the
\* keys in memory, an export hands one out.
Keystore(t) ==
    /\ At(t, "keystore")
    /\ \/ /\ task[t].password = "right" /\ Opens(task[t].op)
          /\ keys' = TRUE
          /\ GoTo(t, "setActive")
          /\ UNCHANGED guesses
       \/ /\ task[t].password = "right" /\ task[t].op = "export"
          /\ GoTo(t, "recordSuccess")
          /\ UNCHANGED <<keys, guesses>>
       \/ \* refused; for an export a keystore error counts as a refusal
          /\ task[t].password = "wrong" \/ task[t].op = "export"
          /\ guesses' = [guesses EXCEPT ![task[t].account] = @ + 1]
          /\ GoTo(t, "recordFailure")
          /\ UNCHANGED keys
       \/ \* the keystore itself fails, which is not an attempt
          /\ Opens(task[t].op)
          /\ Finish(t)
          /\ UNCHANGED <<keys, guesses>>
    /\ UNCHANGED <<sessions, failures, active, fresh, restarts,
                   cleanLocks, closed, lateSends>>

SetActive(t) ==
    /\ At(t, "setActive")
    /\ active' = task[t].account
    /\ GoTo(t, "setClock")
    /\ UNCHANGED <<keys, sessions, failures, fresh, restarts, historyVars>>

SetClock(t) ==
    /\ At(t, "setClock")
    /\ fresh' = TRUE
    /\ GoTo(t, "recordSuccess")
    /\ UNCHANGED <<keys, sessions, failures, active, restarts, historyVars>>

\* Mutant: the session goes to the owner of the session.
RecordSuccessForActive(t) ==
    LET a == task[t].account IN
    /\ At(t, "recordSuccess")
    /\ sessions' = sessions \cup {active}
    /\ failures' = [failures EXCEPT ![a] = 0]
    /\ guesses' = [guesses EXCEPT ![a] = 0]
    /\ Finish(t)
    /\ UNCHANGED <<keys, active, fresh, restarts, cleanLocks, closed, lateSends>>

\* record_success mints a session and clears the counter, for an export too.
RecordSuccess(t) ==
    LET a == task[t].account IN
    /\ At(t, "recordSuccess")
    /\ sessions' = sessions \cup {a}
    /\ failures' = [failures EXCEPT ![a] = 0]
    /\ guesses' = [guesses EXCEPT ![a] = 0]
    /\ Finish(t)
    /\ UNCHANGED <<keys, active, fresh, restarts, cleanLocks, closed, lateSends>>

\* Mutant: the failure counts against the owner of the session.
RecordFailureForActive(t) ==
    /\ At(t, "recordFailure")
    /\ failures' = [a \in Accounts |->
                       IF a = active THEN failures[a] + 1 ELSE failures[a]]
    /\ Finish(t)
    /\ UNCHANGED <<keys, sessions, active, fresh, restarts, historyVars>>

RecordFailure(t) ==
    /\ At(t, "recordFailure")
    /\ failures' = [failures EXCEPT ![task[t].account] = @ + 1]
    /\ Finish(t)
    /\ UNCHANGED <<keys, sessions, active, fresh, restarts, historyVars>>

-----------------------------------------------------------------------------
(* Lock.                                                                   *)

DropKeys(t) ==
    /\ At(t, "dropKeys")
    /\ keys' = FALSE
    /\ GoTo(t, "endSessions")
    /\ UNCHANGED <<sessions, failures, active, fresh, restarts, historyVars>>

EndSessions(t) ==
    /\ At(t, "endSessions")
    /\ sessions' = {}
    /\ GoTo(t, "clearActive")
    /\ UNCHANGED <<keys, failures, active, fresh, restarts, historyVars>>

\* From here the wallet is closed, if nothing opened it meanwhile.
Close(t) ==
    /\ cleanLocks' = cleanLocks \ {t}
    /\ closed' = (closed \/ t \in cleanLocks)
    /\ lateSends' = IF t \in cleanLocks THEN {} ELSE lateSends

\* Mutant: lock leaves the owner of the session in place.
ClearActiveForgotten(t) ==
    /\ At(t, "clearActive")
    /\ Close(t)
    /\ GoTo(t, "clearClock")
    /\ UNCHANGED <<keys, sessions, failures, active, fresh, restarts, guesses>>

ClearActive(t) ==
    /\ At(t, "clearActive")
    /\ active' = None
    /\ Close(t)
    /\ GoTo(t, "clearClock")
    /\ UNCHANGED <<keys, sessions, failures, fresh, restarts, guesses>>

ClearClock(t) ==
    /\ At(t, "clearClock")
    /\ fresh' = FALSE
    /\ Finish(t)
    /\ UNCHANGED <<keys, sessions, failures, active, restarts, historyVars>>

-----------------------------------------------------------------------------
(* Send and sign.                                                          *)

\* current_status: the owner first, the owner's session afterwards.
ReadActive(t) ==
    /\ At(t, "readActive")
    /\ IF active = None THEN Finish(t)
       ELSE task' = [task EXCEPT ![t] = [@ EXCEPT !.at = "readSession",
                                                 !.account = active]]
    /\ UNCHANGED <<managerVars, restarts, historyVars>>

ReadSession(t) ==
    /\ At(t, "readSession")
    /\ IF SessionActive(task[t].account) THEN GoTo(t, "verify") ELSE Finish(t)
    /\ UNCHANGED <<managerVars, restarts, historyVars>>

\* verify_password of the backend: unlocking the keystore is how it checks.
VerifyThen(t, next) ==
    /\ \/ /\ task[t].password = "right"
          /\ keys' = TRUE
          /\ GoTo(t, next)
       \/ /\ task[t].password = "empty"
          /\ GoTo(t, next)
          /\ UNCHANGED keys
       \/ \* refused, or the keystore fails
          /\ task[t].password # "empty"
          /\ Finish(t)
          /\ UNCHANGED keys
    /\ UNCHANGED <<sessions, failures, active, fresh, restarts, historyVars>>

Verify(t) == At(t, "verify") /\ VerifyThen(t, "refresh")
VerifyAgain(t) == At(t, "verifyAgain") /\ VerifyThen(t, "sign")

\* Only a typed password moves the re-authentication clock.
Refresh(t) ==
    /\ At(t, "refresh")
    /\ fresh' = (fresh \/ task[t].password = "right")
    /\ GoTo(t, "enforce")
    /\ UNCHANGED <<keys, sessions, failures, active, restarts, historyVars>>

\* enforce_value_reauth, then the backend is called.
EnforceReauth(t) ==
    /\ At(t, "enforce")
    /\ IF task[t].high /\ ~fresh THEN Finish(t) ELSE GoTo(t, "verifyAgain")
    /\ UNCHANGED <<managerVars, restarts, historyVars>>

\* get_signing_key fails without keys; otherwise the operation signs.
Sign(t) ==
    /\ At(t, "sign")
    /\ Finish(t)
    /\ UNCHANGED <<managerVars, restarts, historyVars>>

-----------------------------------------------------------------------------
(* Time and restarts.                                                      *)

\* The session of a times out after SESSION_TIMEOUT_SECS without activity.
ExpireSession(a) ==
    /\ a \in sessions
    /\ sessions' = sessions \ {a}
    /\ UNCHANGED <<task, keys, failures, active, fresh, restarts, historyVars>>

ClockGoesStale ==
    /\ fresh
    /\ fresh' = FALSE
    /\ UNCHANGED <<task, keys, sessions, failures, active, restarts, historyVars>>

\* LOCKOUT_DURATION_SECS are over: the counter starts again.
LockoutEnds(a) ==
    /\ LockedOut(a)
    /\ failures' = [failures EXCEPT ![a] = 0]
    /\ guesses' = [guesses EXCEPT ![a] = 0]
    /\ UNCHANGED <<task, keys, sessions, active, fresh, restarts,
                   cleanLocks, closed, lateSends>>

Restart ==
    /\ restarts < MaxRestarts
    /\ restarts' = restarts + 1
    /\ task' = [t \in Tasks |-> Idle]
    /\ keys' = FALSE /\ sessions' = {} /\ active' = None /\ fresh' = FALSE
    /\ failures' = NoFailures /\ guesses' = NoFailures
    /\ cleanLocks' = {} /\ closed' = TRUE /\ lateSends' = {}

-----------------------------------------------------------------------------
Step(t) ==
    \/ BeginUnlock(t) \/ BeginExport(t) \/ BeginCreate(t)
    \/ BeginLock(t) \/ BeginSend(t)
    \/ CheckLockout(t) \/ Keystore(t) \/ SetActive(t) \/ SetClock(t)
    \/ RecordSuccess(t) \/ RecordFailure(t)
    \/ DropKeys(t) \/ EndSessions(t) \/ ClearActive(t) \/ ClearClock(t)
    \/ ReadActive(t) \/ ReadSession(t) \/ Verify(t) \/ Refresh(t)
    \/ EnforceReauth(t) \/ VerifyAgain(t) \/ Sign(t)

Next ==
    \/ \E t \in Tasks : Step(t)
    \/ \E a \in Accounts : ExpireSession(a) \/ LockoutEnds(a)
    \/ ClockGoesStale
    \/ Restart

Spec == Init /\ [][Next]_vars

-----------------------------------------------------------------------------
(* What the wallet promises.                                               *)

\* Once the wallet is closed, an operation that begins is refused by the
\* session check until the user unlocks again, whatever was in flight at the
\* lock: an export or a send may still touch the sessions and the keys.
LateSendsRefused ==
    \A t \in lateSends :
        task[t].op = "send" => task[t].at = "readActive"

\* Between two resets of an address's counter unlock and export try at most
\* MaxFailed wrong passwords, plus one for each further operation that passed the
\* lockout check before the last refusal was counted.
GuessesBounded ==
    \A a \in Accounts : guesses[a] <= MaxFailed - 1 + Cardinality(Tasks)

Quiet == \A t \in Tasks : At(t, "idle")

(* What the code does not do, although its comments say so.                *)

\* main.rs on the lock teardown: "wallet.lock() zeroizes the decrypted keys".
KeysGoneWhenClosed == closed /\ Quiet => ~keys

-----------------------------------------------------------------------------
(* Why the promises hold.                                                  *)

\* A task is where its operation can be.
TasksFit ==
    \A t \in Tasks :
        /\ task[t].at \in {"setActive", "setClock"} => Opens(task[t].op)
        /\ task[t].at \in {"lockout", "keystore", "setActive", "setClock",
                          "recordSuccess", "recordFailure"}
                => task[t].account \in Accounts
        /\ task[t].op = "create" => task[t].password = "right"

\* While closed nothing owns the session and nothing is about to.
ClosedIsShut ==
    /\ closed => active = None
    /\ closed \/ cleanLocks # {} => Shut
    /\ lateSends # {} => closed

\* Operations past the lockout check of a, and those whose refusal by the
\* keystore is yet to be counted.
Passed(a) == {t \in Tasks : /\ task[t].at = "keystore" /\ task[t].account = a
                            /\ task[t].op # "create"}
Uncounted(a) == {t \in Tasks : /\ task[t].at = "recordFailure"
                               /\ task[t].account = a}

GuessesCounted ==
    \A a \in Accounts :
        /\ guesses[a] <= failures[a] + Cardinality(Uncounted(a))
        /\ guesses[a] + Cardinality(Passed(a))
                <= MaxFailed - 1 + Cardinality(Tasks)

IInv ==
    /\ TypeOK
    /\ TasksFit
    /\ ClosedIsShut
    /\ LateSendsRefused
    /\ GuessesCounted
==============================================================================
