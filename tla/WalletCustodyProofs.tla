------------------------- MODULE WalletCustodyProofs -------------------------
(***************************************************************************)
(* Proofs about WalletCustody, for every finite set of concurrent          *)
(* operations, every set of addresses and every limit of failures.         *)
(***************************************************************************)
EXTENDS WalletCustody, FiniteSetTheorems, TLAPS

-----------------------------------------------------------------------------
(* Types.                                                                  *)

LEMMA IdleTyped == Idle \in TaskType /\ NoFailures \in Counts
BY DEF Idle, TaskType, NoFailures, Counts, Ops, Points, Passwords

\* Moving a task to a point, or ending it, keeps the tasks well typed.
LEMMA GoToTyped ==
    ASSUME task \in [Tasks -> TaskType], NEW t \in Tasks,
           NEW point \in Points, GoTo(t, point)
    PROVE  task' \in [Tasks -> TaskType]
BY DEF GoTo, TaskType

LEMMA FinishTyped ==
    ASSUME task \in [Tasks -> TaskType], NEW t \in Tasks, Finish(t)
    PROVE  task' \in [Tasks -> TaskType]
BY IdleTyped DEF Finish

\* So do the changes made to a table of counters.
LEMMA CountsTyped ==
    ASSUME NEW counts \in Counts, NEW a \in Accounts
    PROVE  /\ [counts EXCEPT ![a] = @ + 1] \in Counts
           /\ [counts EXCEPT ![a] = 0] \in Counts
BY DEF Counts

\* The first step of an operation.
LEMMA BeginTyped ==
    ASSUME TypeOK, NEW t \in Tasks, NEW op \in Ops, NEW point \in Points,
           NEW account \in Accounts \cup {None}, NEW password \in Passwords,
           NEW high \in BOOLEAN, Begin(t, op, point, account, password, high)
    PROVE  TypeOK'
<1> USE DEF TypeOK, Begin
<1>1. [Idle EXCEPT !.op = op, !.at = point, !.account = account,
                   !.password = password, !.high = high] \in TaskType
  BY IdleTyped DEF TaskType
<1>2. task' \in [Tasks -> TaskType]
  BY <1>1
<1>3. UNCHANGED <<keys, sessions, failures, active, fresh>>
  BY DEF managerVars
<1>4. cleanLocks' \subseteq Tasks /\ lateSends' \subseteq Tasks /\ closed' \in BOOLEAN
  OBVIOUS
<1>5. QED
  BY <1>2, <1>3, <1>4

\* The steps of a task keep every variable in its type.
LEMMA StepTyped ==
    ASSUME CustodyAssumption, TypeOK, TasksFit, NEW t \in Tasks, Step(t)
    PROVE  TypeOK'
<1>1. CASE BeginUnlock(t) \/ BeginExport(t) \/ BeginCreate(t)
           \/ BeginLock(t) \/ BeginSend(t)
  <2> USE DEF Ops, Points, Passwords
  <2>1. CASE BeginUnlock(t)
    BY <2>1, BeginTyped DEF BeginUnlock
  <2>2. CASE BeginExport(t)
    BY <2>2, BeginTyped DEF BeginExport
  <2>3. CASE BeginCreate(t)
    BY <2>3, BeginTyped DEF BeginCreate
  <2>4. CASE BeginLock(t)
    BY <2>4, BeginTyped DEF BeginLock
  <2>5. CASE BeginSend(t)
    <3>1. PICK p \in Passwords, high \in BOOLEAN :
                   Begin(t, "send", "readActive", None, p, high)
      BY <2>5 DEF BeginSend
    <3>2. /\ "send" \in Ops /\ "readActive" \in Points
          /\ None \in Accounts \cup {None}
      OBVIOUS
    <3>3. QED
      BY <3>1, <3>2, BeginTyped
  <2>6. QED
    BY <1>1, <2>1, <2>2, <2>3, <2>4, <2>5
<1> USE DEF TypeOK, managerVars, historyVars
<1>2. CASE CheckLockout(t) \/ Sign(t) \/ ReadSession(t) \/ EnforceReauth(t)
  BY <1>2, GoToTyped, FinishTyped
     DEF CheckLockout, Sign, ReadSession, EnforceReauth, Points
<1>3. CASE Keystore(t)
  <2>1. task[t].account \in Accounts
    BY <1>3 DEF Keystore, TasksFit, At
  <2>2. guesses' \in Counts
    <3>1. [guesses EXCEPT ![task[t].account] = @ + 1] \in Counts
      BY <2>1, CountsTyped
    <3>2. QED
      BY <1>3, <3>1 DEF Keystore
  <2>3. task' \in [Tasks -> TaskType]
    BY <1>3, GoToTyped, FinishTyped DEF Keystore, Points
  <2>4. QED
    BY <1>3, <2>2, <2>3 DEF Keystore
<1>4. CASE SetActive(t) \/ SetClock(t) \/ Refresh(t)
  <2>1. task[t].account \in Accounts \cup {None}
    BY DEF TaskType
  <2>2. task' \in [Tasks -> TaskType]
    BY <1>4, GoToTyped DEF SetActive, SetClock, Refresh, Points
  <2>3. QED
    BY <1>4, <2>1, <2>2 DEF SetActive, SetClock, Refresh
<1>5. CASE RecordSuccess(t)
  <2>1. task[t].account \in Accounts
    BY <1>5 DEF RecordSuccess, TasksFit, At
  <2>2. task' \in [Tasks -> TaskType]
    BY <1>5, FinishTyped DEF RecordSuccess
  <2>3. failures' \in Counts /\ guesses' \in Counts
    BY <1>5, <2>1 DEF RecordSuccess, Counts
  <2>4. QED
    BY <1>5, <2>1, <2>2, <2>3 DEF RecordSuccess
<1>6. CASE RecordFailure(t)
  <2>1. task[t].account \in Accounts
    BY <1>6 DEF RecordFailure, TasksFit, At
  <2>2. task' \in [Tasks -> TaskType]
    BY <1>6, FinishTyped DEF RecordFailure
  <2>3. failures' \in Counts
    BY <1>6, <2>1 DEF RecordFailure, Counts
  <2>4. QED
    BY <1>6, <2>2, <2>3 DEF RecordFailure
<1>7. CASE DropKeys(t) \/ EndSessions(t) \/ ClearClock(t)
  BY <1>7, GoToTyped, FinishTyped DEF DropKeys, EndSessions, ClearClock, Points
<1>8. CASE ClearActive(t)
  <2>1. task' \in [Tasks -> TaskType]
    BY <1>8, GoToTyped DEF ClearActive, Points
  <2>2. QED
    BY <1>8, <2>1 DEF ClearActive, Close
<1>9. CASE ReadActive(t)
  <2>1. [task[t] EXCEPT !.at = "readSession", !.account = active] \in TaskType
    BY DEF TaskType, Points
  <2>2. task' \in [Tasks -> TaskType]
    BY <1>9, <2>1, FinishTyped DEF ReadActive
  <2>3. QED
    BY <1>9, <2>2 DEF ReadActive
<1>10. CASE Verify(t) \/ VerifyAgain(t)
  <2>1. task' \in [Tasks -> TaskType] /\ keys' \in BOOLEAN
    BY <1>10, GoToTyped, FinishTyped DEF Verify, VerifyAgain, VerifyThen, Points
  <2>2. QED
    BY <1>10, <2>1 DEF Verify, VerifyAgain, VerifyThen
<1>11. QED
  BY <1>1, <1>2, <1>3, <1>4, <1>5, <1>6, <1>7, <1>8, <1>9, <1>10
     DEF Step

\* Time and restarts do too.
LEMMA EnvironmentTyped ==
    ASSUME CustodyAssumption, TypeOK, TasksFit,
           \/ \E a \in Accounts : ExpireSession(a) \/ LockoutEnds(a)
           \/ ClockGoesStale
           \/ Restart
    PROVE  TypeOK'
<1> USE DEF TypeOK, historyVars
<1>1. CASE \E a \in Accounts : ExpireSession(a)
  BY <1>1 DEF ExpireSession
<1>2. CASE \E a \in Accounts : LockoutEnds(a)
  BY <1>2 DEF LockoutEnds, Counts
<1>3. CASE ClockGoesStale
  BY <1>3 DEF ClockGoesStale
<1>4. CASE Restart
  <2>1. task' \in [Tasks -> TaskType]
    BY <1>4, IdleTyped DEF Restart
  <2>2. restarts' \in 0 .. MaxRestarts
    BY <1>4 DEF Restart, CustodyAssumption
  <2>3. QED
    BY <1>4, <2>1, <2>2, IdleTyped DEF Restart
<1>5. QED
  BY <1>1, <1>2, <1>3, <1>4

-----------------------------------------------------------------------------
(* What a step does to the tasks.                                          *)

Begins(t) == BeginUnlock(t) \/ BeginExport(t) \/ BeginCreate(t)
             \/ BeginLock(t) \/ BeginSend(t)

\* A step of one task leaves the others alone.
LEMMA OtherTasks ==
    ASSUME TypeOK, NEW t \in Tasks, NEW u \in Tasks, u # t, Step(t)
    PROVE  task'[u] = task[u]
<1> USE DEF TypeOK, GoTo, Finish
<1>1. CASE Begins(t)
  BY <1>1 DEF Begins, BeginUnlock, BeginExport, BeginCreate, BeginLock,
              BeginSend, Begin
<1>2. CASE CheckLockout(t) \/ Keystore(t) \/ SetActive(t) \/ SetClock(t)
           \/ RecordSuccess(t) \/ RecordFailure(t)
  BY <1>2 DEF CheckLockout, Keystore, SetActive, SetClock, RecordSuccess,
              RecordFailure
<1>3. CASE DropKeys(t) \/ EndSessions(t) \/ ClearActive(t) \/ ClearClock(t)
  BY <1>3 DEF DropKeys, EndSessions, ClearActive, ClearClock
<1>4. CASE ReadActive(t) \/ ReadSession(t) \/ Verify(t) \/ Refresh(t)
           \/ EnforceReauth(t) \/ VerifyAgain(t) \/ Sign(t)
  BY <1>4 DEF ReadActive, ReadSession, Verify, Refresh, EnforceReauth,
              VerifyAgain, Sign, VerifyThen
<1>5. QED
  BY <1>1, <1>2, <1>3, <1>4 DEF Step, Begins

\* A task that goes to a point keeps everything else of its operation.
LEMMA GoToKeeps ==
    ASSUME TypeOK, NEW t \in Tasks, NEW point, GoTo(t, point)
    PROVE  /\ task'[t].at = point
           /\ task'[t].op = task[t].op
           /\ task'[t].account = task[t].account
           /\ task'[t].password = task[t].password
BY DEF TypeOK, TaskType, GoTo

LEMMA FinishIdles ==
    ASSUME TypeOK, NEW t \in Tasks, Finish(t)
    PROVE  /\ task'[t].at = "idle"
           /\ task'[t].op = "none"
           /\ task'[t].password = "empty"
BY DEF TypeOK, Finish, Idle

LEMMA BeginSets ==
    ASSUME TypeOK, NEW t \in Tasks, NEW op, NEW point, NEW account,
           NEW password, NEW high, Begin(t, op, point, account, password, high)
    PROVE  /\ task[t].at = "idle"
           /\ task'[t].at = point
           /\ task'[t].op = op
           /\ task'[t].account = account
           /\ task'[t].password = password
BY DEF TypeOK, Begin, Idle, At

\* What begins, and where.
LEMMA BeginCases ==
    ASSUME TypeOK, NEW t \in Tasks, Begins(t)
    PROVE  /\ task[t].at = "idle"
           /\ \/ /\ task'[t].op \in {"unlock", "export"}
                 /\ task'[t].at = "lockout"
                 /\ task'[t].account \in Accounts
              \/ /\ task'[t].op = "create" /\ task'[t].password = "right"
                 /\ task'[t].at = "keystore"
                 /\ task'[t].account \in Accounts
              \/ task'[t].op = "lock" /\ task'[t].at = "dropKeys"
              \/ task'[t].op = "send" /\ task'[t].at = "readActive"
<1>1. CASE BeginUnlock(t)
  BY <1>1, BeginSets DEF BeginUnlock
<1>2. CASE BeginExport(t)
  BY <1>2, BeginSets DEF BeginExport
<1>3. CASE BeginCreate(t)
  BY <1>3, BeginSets DEF BeginCreate
<1>4. CASE BeginLock(t)
  BY <1>4, BeginSets DEF BeginLock
<1>5. CASE BeginSend(t)
  <2>1. PICK p \in Passwords, high \in BOOLEAN :
                 Begin(t, "send", "readActive", None, p, high)
    BY <1>5 DEF BeginSend
  <2>2. QED
    BY <2>1, BeginSets
<1>6. QED
  BY <1>1, <1>2, <1>3, <1>4, <1>5 DEF Begins

\* Only current_status notes something down as it goes.
LEMMA NoteCases ==
    ASSUME TypeOK, NEW t \in Tasks, ReadActive(t)
    PROVE  \/ Finish(t)
           \/ /\ task'[t].op = task[t].op
              /\ task'[t].password = task[t].password
              /\ task'[t].at = "readSession"
<1>1. CASE active = None
  BY <1>1 DEF ReadActive
<1>2. CASE active # None
  <2>1. task' = [task EXCEPT ![t] =
                    [@ EXCEPT !.at = "readSession", !.account = active]]
    BY <1>2 DEF ReadActive
  <2>2. QED
    BY <2>1 DEF TypeOK, TaskType
<1>3. QED
  BY <1>1, <1>2

\* Past its first step a task keeps the operation, until it is idle again.
LEMMA OperationKept ==
    ASSUME TypeOK, NEW t \in Tasks, Step(t), ~Begins(t)
    PROVE  \/ task'[t].op = "none" /\ task'[t].at = "idle"
           \/ /\ task'[t].op = task[t].op
              /\ task'[t].password = task[t].password
              /\ task'[t].at # "idle"
<1>1. CASE CheckLockout(t) \/ Keystore(t) \/ SetActive(t) \/ SetClock(t)
           \/ RecordSuccess(t) \/ RecordFailure(t)
  BY <1>1, GoToKeeps, FinishIdles
     DEF CheckLockout, Keystore, SetActive, SetClock, RecordSuccess,
         RecordFailure
<1>2. CASE DropKeys(t) \/ EndSessions(t) \/ ClearActive(t) \/ ClearClock(t)
  BY <1>2, GoToKeeps, FinishIdles DEF DropKeys, EndSessions, ClearActive, ClearClock
<1>3. CASE ReadSession(t) \/ Verify(t) \/ Refresh(t)
           \/ EnforceReauth(t) \/ VerifyAgain(t) \/ Sign(t)
  BY <1>3, GoToKeeps, FinishIdles
     DEF ReadSession, Verify, Refresh, EnforceReauth, VerifyAgain, Sign, VerifyThen
<1>4. CASE ReadActive(t)
  BY <1>4, FinishIdles, NoteCases
<1>5. QED
  BY <1>1, <1>2, <1>3, <1>4 DEF Step, Begins

-----------------------------------------------------------------------------
(* Where a task can be.                                                    *)

LEMMA FitStep ==
    ASSUME TypeOK, TasksFit, NEW t \in Tasks, Step(t)
    PROVE  TasksFit'
<1> DEFINE Fits(u) ==
        /\ task[u].at \in {"setActive", "setClock"} => Opens(task[u].op)
        /\ task[u].at \in {"lockout", "keystore", "setActive", "setClock",
                          "recordSuccess", "recordFailure"}
                => task[u].account \in Accounts
        /\ task[u].op = "create" => task[u].password = "right"
<1>1. SUFFICES Fits(t)'
  <2>1. \A u \in Tasks : Fits(u)
    BY DEF TasksFit
  <2>2. \A u \in Tasks : Fits(u)'
    BY <1>1, <2>1, OtherTasks
  <2>3. QED
    BY <2>2 DEF TasksFit
<1>2. Fits(t)
  BY DEF TasksFit
<1> USE DEF At, Opens
<1>3. CASE Begins(t)
  BY <1>3, BeginCases
<1>4. CASE CheckLockout(t) \/ Keystore(t) \/ SetActive(t) \/ SetClock(t)
           \/ RecordSuccess(t) \/ RecordFailure(t)
  BY <1>2, <1>4, GoToKeeps, FinishIdles
     DEF CheckLockout, Keystore, SetActive, SetClock, RecordSuccess,
         RecordFailure
<1>5. CASE DropKeys(t) \/ EndSessions(t) \/ ClearActive(t) \/ ClearClock(t)
  BY <1>2, <1>5, GoToKeeps, FinishIdles
     DEF DropKeys, EndSessions, ClearActive, ClearClock
<1>6. CASE ReadSession(t) \/ Verify(t) \/ Refresh(t)
           \/ EnforceReauth(t) \/ VerifyAgain(t) \/ Sign(t)
  BY <1>2, <1>6, GoToKeeps, FinishIdles
     DEF ReadSession, Verify, Refresh, EnforceReauth, VerifyAgain, Sign, VerifyThen
<1>7. CASE ReadActive(t)
  BY <1>2, <1>7, FinishIdles, NoteCases
<1>8. QED
  BY <1>3, <1>4, <1>5, <1>6, <1>7 DEF Step, Begins

-----------------------------------------------------------------------------
(* A closed wallet refuses sends.                                          *)

closeVars == <<cleanLocks, closed, lateSends>>

\* A step that does not open the wallet leaves it shut.
LEMMA ShutKept ==
    ASSUME TypeOK, NEW t \in Tasks, Step(t), Shut,
           Begins(t) => ~Opens(task'[t].op)
    PROVE  Shut'
<1>1. ~Opens(task'[t].op)
  BY OperationKept DEF Shut, Opens
<1>2. \A u \in Tasks : u # t => task'[u] = task[u]
  BY OtherTasks
<1>3. QED
  BY <1>1, <1>2 DEF Shut

\* Only three kinds of step touch what the closing of the wallet is about.
LEMMA CloseFrame ==
    ASSUME NEW t \in Tasks, Step(t), ~Begins(t), ~SetActive(t), ~ClearActive(t)
    PROVE  UNCHANGED <<active, closeVars>>
BY DEF Step, Begins, closeVars, managerVars, historyVars, CheckLockout,
       Keystore, SetClock, RecordSuccess, RecordFailure,
       DropKeys, EndSessions, ClearClock, ReadActive, ReadSession, Verify,
       VerifyAgain, VerifyThen, Refresh, EnforceReauth, Sign

\* What beginning an operation does to the closing of the wallet.
LEMMA BeginClose ==
    ASSUME TypeOK, NEW t \in Tasks, Begins(t)
    PROVE  /\ UNCHANGED active
           /\ \/ /\ Opens(task'[t].op)
                 /\ cleanLocks' = {} /\ closed' = FALSE /\ lateSends' = {}
              \/ /\ ~Opens(task'[t].op)
                 /\ closed' = closed
                 /\ cleanLocks' # {} => cleanLocks # {} \/ Shut
                 /\ \/ lateSends' = lateSends \ {t}
                    \/ task'[t].at = "readActive" /\ closed
                       /\ lateSends' = lateSends \cup {t}
<1> USE DEF Opens
<1>1. ASSUME NEW op \in {"unlock", "create"}, NEW point, NEW account,
             NEW password, NEW high, Begin(t, op, point, account, password, high)
      PROVE  /\ UNCHANGED active /\ Opens(task'[t].op)
             /\ cleanLocks' = {} /\ closed' = FALSE /\ lateSends' = {}
  BY <1>1, BeginSets DEF Begin, managerVars, TypeOK
<1>2. ASSUME NEW op \in {"export", "lock"}, NEW point, NEW account,
             NEW password, NEW high, Begin(t, op, point, account, password, high)
      PROVE  /\ UNCHANGED active /\ ~Opens(task'[t].op)
             /\ closed' = closed
             /\ cleanLocks' # {} => cleanLocks # {} \/ Shut
             /\ lateSends' = lateSends \ {t}
  BY <1>2, BeginSets DEF Begin, managerVars, TypeOK
<1>3. ASSUME NEW password, NEW high,
             Begin(t, "send", "readActive", None, password, high)
      PROVE  /\ UNCHANGED active /\ ~Opens(task'[t].op)
             /\ closed' = closed
             /\ cleanLocks' = cleanLocks
             /\ task'[t].at = "readActive"
             /\ \/ closed /\ lateSends' = lateSends \cup {t}
                \/ lateSends' = lateSends \ {t}
  <2>1. task'[t].op = "send" /\ task'[t].at = "readActive"
    BY <1>3, BeginSets, Zenon
  <2>2. UNCHANGED <<active, closed, cleanLocks>>
    BY <1>3 DEF Begin, managerVars, TypeOK
  <2>3. \/ closed /\ lateSends' = lateSends \cup {t}
        \/ lateSends' = lateSends \ {t}
    BY <1>3 DEF Begin, TypeOK
  <2>4. QED
    BY <2>1, <2>2, <2>3
<1>4. CASE BeginUnlock(t) \/ BeginCreate(t)
  BY <1>1, <1>4 DEF BeginUnlock, BeginCreate
<1>5. CASE BeginExport(t) \/ BeginLock(t)
  BY <1>2, <1>5 DEF BeginExport, BeginLock
<1>6. CASE BeginSend(t)
  <2>1. PICK p \in Passwords, high \in BOOLEAN :
                 Begin(t, "send", "readActive", None, p, high)
    BY <1>6 DEF BeginSend
  <2>2. QED
    BY <1>3, <2>1
<1>7. QED
  BY <1>4, <1>5, <1>6 DEF Begins

LEMMA ClosedStep ==
    ASSUME TypeOK, TasksFit, ClosedIsShut, NEW t \in Tasks, Step(t)
    PROVE  ClosedIsShut'
<1>1. CASE Begins(t)
  <2>1. CASE Opens(task'[t].op)
    BY <1>1, <2>1, BeginClose DEF ClosedIsShut
  <2>2. CASE ~Opens(task'[t].op)
    BY <1>1, <2>2, BeginClose, ShutKept DEF ClosedIsShut
  <2>3. QED
    BY <2>1, <2>2
<1>2. CASE SetActive(t)
  <2>1. ~Shut
    BY <1>2 DEF SetActive, At, TasksFit, Shut
  <2>2. ~closed /\ cleanLocks = {} /\ lateSends = {}
    BY <2>1 DEF ClosedIsShut
  <2>3. QED
    BY <1>2, <2>2 DEF SetActive, historyVars, ClosedIsShut
<1>3. CASE ClearActive(t)
  <2>1. task[t].at # "idle" /\ ~Begins(t)
    BY <1>3, BeginCases DEF ClearActive, At
  <2>2. (closed \/ cleanLocks # {}) => Shut'
    BY <2>1, ShutKept DEF ClosedIsShut
  <2>3. QED
    BY <1>3, <2>2 DEF ClearActive, Close, ClosedIsShut
<1>4. CASE ~Begins(t) /\ ~SetActive(t) /\ ~ClearActive(t)
  BY <1>4, CloseFrame, ShutKept DEF ClosedIsShut, closeVars
<1>5. QED
  BY <1>1, <1>2, <1>3, <1>4

LEMMA LateStep ==
    ASSUME TypeOK, ClosedIsShut, LateSendsRefused, NEW t \in Tasks, Step(t)
    PROVE  LateSendsRefused'
<1> DEFINE Refused(u) == task[u].op = "send" => task[u].at = "readActive"
<1>1. lateSends' \subseteq lateSends \cup {t}
  <2>1. CASE Begins(t)
    BY <2>1, BeginClose DEF TypeOK
  <2>2. CASE ClearActive(t)
    BY <2>2 DEF ClearActive, Close
  <2>3. CASE SetActive(t)
    BY <2>3 DEF SetActive, historyVars
  <2>4. QED
    BY <2>1, <2>2, <2>3, CloseFrame DEF closeVars
<1>2. ASSUME NEW u \in lateSends', u # t
      PROVE  Refused(u)'
  <2>1. u \in Tasks /\ u \in lateSends
    BY <1>1, <1>2 DEF TypeOK
  <2>2. QED
    BY <1>2, <2>1, OtherTasks DEF LateSendsRefused
<1>3. ASSUME t \in lateSends'
      PROVE  Refused(t)'
  <2>1. CASE Begins(t)
    BY <1>3, <2>1, BeginClose DEF TypeOK
  <2>2. CASE ~Begins(t)
    <3>1. t \in lateSends
      <4>1. CASE ClearActive(t)
        BY <1>3, <4>1 DEF ClearActive, Close
      <4>2. CASE SetActive(t)
        BY <1>3, <4>2 DEF SetActive, historyVars
      <4>3. QED
        BY <1>3, <2>2, <4>1, <4>2, CloseFrame DEF closeVars
    <3>2. Refused(t) /\ active = None
      BY <3>1 DEF LateSendsRefused, ClosedIsShut
    <3>3. CASE task[t].op # "send"
      BY <2>2, <3>3, OperationKept
    <3>4. CASE task[t].at = "readActive"
      <4>1. ReadActive(t)
        BY <2>2, <3>4
           DEF Step, Begins, At, CheckLockout, Keystore, SetActive, SetClock,
               RecordSuccess, RecordFailure, DropKeys,
               EndSessions, ClearActive, ClearClock, ReadSession, Verify,
               VerifyAgain, Refresh, EnforceReauth, Sign
      <4>2. QED
        BY <3>2, <4>1, FinishIdles DEF ReadActive
    <3>5. QED
      BY <3>2, <3>3, <3>4
  <2>3. QED
    BY <2>1, <2>2
<1>4. QED
  BY <1>2, <1>3 DEF LateSendsRefused

-----------------------------------------------------------------------------
(* The refused passwords, the counter and the operations in between.       *)

PassedAt(t, a) == /\ task[t].at = "keystore" /\ task[t].account = a
                  /\ task[t].op # "create"
UncountedAt(t, a) == task[t].at = "recordFailure" /\ task[t].account = a

Counted(a) ==
    /\ guesses[a] <= failures[a] + Cardinality(Uncounted(a))
    /\ guesses[a] + Cardinality(Passed(a)) <= MaxFailed - 1 + Cardinality(Tasks)

\* Two disjoint parts of a finite set are together no larger than it.
LEMMA DisjointFit ==
    ASSUME NEW S, IsFiniteSet(S), NEW A \in SUBSET S, NEW B \in SUBSET S,
           A \cap B = {}
    PROVE  /\ IsFiniteSet(A) /\ IsFiniteSet(B)
           /\ Cardinality(S) \in Nat
           /\ Cardinality(A) \in Nat
           /\ Cardinality(B) \in Nat
           /\ Cardinality(A) + Cardinality(B) <= Cardinality(S)
<1>1. IsFiniteSet(A) /\ IsFiniteSet(B)
  BY FS_Subset
<1>2. Cardinality(S) \in Nat /\ Cardinality(A) \in Nat /\ Cardinality(B) \in Nat
  BY <1>1, FS_CardinalityType
<1>3. Cardinality(A \cup B) = Cardinality(A) + Cardinality(B) - Cardinality({})
  BY <1>1, FS_Union
<1>4. Cardinality(A \cup B) = Cardinality(A) + Cardinality(B)
  BY <1>2, <1>3, FS_EmptySet
<1>5. A \cup B \in SUBSET S
  OBVIOUS
<1>6. Cardinality(A \cup B) <= Cardinality(S)
  BY <1>5, FS_Subset
<1>7. QED
  BY <1>1, <1>2, <1>4, <1>6

\* So the operations of the two sets are together no more than the tasks.
LEMMA SetsFit ==
    ASSUME CustodyAssumption, NEW a
    PROVE  /\ IsFiniteSet(Passed(a)) /\ IsFiniteSet(Uncounted(a))
           /\ Cardinality(Tasks) \in Nat
           /\ Cardinality(Passed(a)) \in Nat
           /\ Cardinality(Uncounted(a)) \in Nat
           /\ Cardinality(Passed(a)) + Cardinality(Uncounted(a)) <= Cardinality(Tasks)
<1>1. Passed(a) \in SUBSET Tasks /\ Uncounted(a) \in SUBSET Tasks
  BY DEF Passed, Uncounted
<1>2. Passed(a) \cap Uncounted(a) = {}
  BY DEF Passed, Uncounted
<1>3. QED
  BY <1>1, <1>2, DisjointFit DEF CustodyAssumption

\* A step of t changes the membership of t only.
LEMMA SetsChange ==
    ASSUME TypeOK, NEW t \in Tasks, Step(t), NEW a
    PROVE  /\ Passed(a)' = IF PassedAt(t, a)' THEN Passed(a) \cup {t}
                           ELSE Passed(a) \ {t}
           /\ Uncounted(a)' = IF UncountedAt(t, a)' THEN Uncounted(a) \cup {t}
                              ELSE Uncounted(a) \ {t}
<1>1. \A u \in Tasks : u # t => task'[u] = task[u]
  BY OtherTasks
<1>2. Passed(a)' = IF PassedAt(t, a)' THEN Passed(a) \cup {t} ELSE Passed(a) \ {t}
  BY <1>1 DEF Passed, PassedAt
<1>3. Uncounted(a)' = IF UncountedAt(t, a)' THEN Uncounted(a) \cup {t}
                      ELSE Uncounted(a) \ {t}
  BY <1>1 DEF Uncounted, UncountedAt
<1>4. QED
  BY <1>2, <1>3

\* And so changes the two cardinalities by the membership of t.
LEMMA SizesChange ==
    ASSUME CustodyAssumption, TypeOK, NEW t \in Tasks, Step(t), NEW a
    PROVE  /\ PassedAt(t, a)' /\ ~PassedAt(t, a)
                => Cardinality(Passed(a))' = Cardinality(Passed(a)) + 1
           /\ ~PassedAt(t, a)' /\ PassedAt(t, a)
                => Cardinality(Passed(a))' = Cardinality(Passed(a)) - 1
           /\ (PassedAt(t, a)' <=> PassedAt(t, a))
                => Cardinality(Passed(a))' = Cardinality(Passed(a))
           /\ UncountedAt(t, a)' /\ ~UncountedAt(t, a)
                => Cardinality(Uncounted(a))' = Cardinality(Uncounted(a)) + 1
           /\ ~UncountedAt(t, a)' /\ UncountedAt(t, a)
                => Cardinality(Uncounted(a))' = Cardinality(Uncounted(a)) - 1
           /\ (UncountedAt(t, a)' <=> UncountedAt(t, a))
                => Cardinality(Uncounted(a))' = Cardinality(Uncounted(a))
<1>1. /\ t \in Passed(a) <=> PassedAt(t, a)
      /\ t \in Uncounted(a) <=> UncountedAt(t, a)
  BY DEF Passed, PassedAt, Uncounted, UncountedAt
<1>2. /\ IsFiniteSet(Passed(a)) /\ IsFiniteSet(Uncounted(a))
  BY SetsFit
<1>3. /\ Cardinality(Passed(a) \cup {t}) =
           IF PassedAt(t, a) THEN Cardinality(Passed(a)) ELSE Cardinality(Passed(a)) + 1
      /\ Cardinality(Passed(a) \ {t}) =
           IF PassedAt(t, a) THEN Cardinality(Passed(a)) - 1 ELSE Cardinality(Passed(a))
  BY <1>1, <1>2, FS_AddElement, FS_RemoveElement
<1>4. /\ Cardinality(Uncounted(a) \cup {t}) =
           IF UncountedAt(t, a) THEN Cardinality(Uncounted(a))
           ELSE Cardinality(Uncounted(a)) + 1
      /\ Cardinality(Uncounted(a) \ {t}) =
           IF UncountedAt(t, a) THEN Cardinality(Uncounted(a)) - 1
           ELSE Cardinality(Uncounted(a))
  BY <1>1, <1>2, FS_AddElement, FS_RemoveElement
<1>5. /\ PassedAt(t, a) \in BOOLEAN /\ PassedAt(t, a)' \in BOOLEAN
      /\ UncountedAt(t, a) \in BOOLEAN /\ UncountedAt(t, a)' \in BOOLEAN
  BY DEF PassedAt, UncountedAt
<1>6. /\ PassedAt(t, a)' => Passed(a)' = Passed(a) \cup {t}
      /\ ~PassedAt(t, a)' => Passed(a)' = Passed(a) \ {t}
  BY <1>5, SetsChange, Zenon
<1>7. /\ UncountedAt(t, a)' => Uncounted(a)' = Uncounted(a) \cup {t}
      /\ ~UncountedAt(t, a)' => Uncounted(a)' = Uncounted(a) \ {t}
  BY <1>5, SetsChange, Zenon
<1>8. QED
  BY <1>3, <1>4, <1>5, <1>6, <1>7

\* A step that leaves the counts of an address, and where t stands with it.
LEMMA CountedKept ==
    ASSUME CustodyAssumption, TypeOK, NEW t \in Tasks, Step(t),
           NEW a \in Accounts, Counted(a),
           guesses'[a] = guesses[a], failures'[a] = failures[a],
           PassedAt(t, a)' <=> PassedAt(t, a),
           UncountedAt(t, a)' <=> UncountedAt(t, a)
    PROVE  Counted(a)'
BY SizesChange DEF Counted

\* The same bound on the sets after a step.
LEMMA SetsFitNext ==
    ASSUME CustodyAssumption, NEW a
    PROVE  /\ Cardinality(Tasks) \in Nat
           /\ Cardinality(Passed(a))' \in Nat
           /\ Cardinality(Uncounted(a))' \in Nat
           /\ Cardinality(Passed(a))' + Cardinality(Uncounted(a))' <= Cardinality(Tasks)
<1>1. Passed(a)' \in SUBSET Tasks /\ Uncounted(a)' \in SUBSET Tasks
  BY DEF Passed, Uncounted
<1>2. Passed(a)' \cap Uncounted(a)' = {}
  BY DEF Passed, Uncounted
<1>3. QED
  BY <1>1, <1>2, DisjointFit DEF CustodyAssumption

\* A reset of both counts.
LEMMA CountedReset ==
    ASSUME CustodyAssumption, NEW a, guesses'[a] = 0, failures'[a] \in Nat
    PROVE  Counted(a)'
BY SetsFitNext DEF Counted, CustodyAssumption

\* The steps that neither count nor check leave all of it alone.
LEMMA GuessFrame ==
    ASSUME TypeOK, NEW t \in Tasks, Step(t), NEW a,
           ~Keystore(t), ~CheckLockout(t), ~RecordSuccess(t), ~RecordFailure(t)
    PROVE  /\ UNCHANGED <<guesses, failures>>
           /\ ~PassedAt(t, a) /\ ~PassedAt(t, a)'
           /\ ~UncountedAt(t, a) /\ ~UncountedAt(t, a)'
<1> USE DEF PassedAt, UncountedAt, At, managerVars, historyVars
<1>1. CASE Begins(t)
  <2>1. UNCHANGED <<guesses, failures>>
    BY <1>1 DEF Begins, BeginUnlock, BeginExport, BeginCreate, BeginLock,
                BeginSend, Begin
  <2>2. QED
    BY <1>1, <2>1, BeginCases
<1>2. CASE SetActive(t) \/ SetClock(t)
  BY <1>2, GoToKeeps, FinishIdles DEF SetActive, SetClock
<1>3. CASE DropKeys(t) \/ EndSessions(t) \/ ClearActive(t) \/ ClearClock(t)
  BY <1>3, GoToKeeps, FinishIdles DEF DropKeys, EndSessions, ClearActive, ClearClock
<1>4. CASE ReadSession(t) \/ Verify(t) \/ Refresh(t)
           \/ EnforceReauth(t) \/ VerifyAgain(t) \/ Sign(t)
  BY <1>4, GoToKeeps, FinishIdles
     DEF ReadSession, Verify, Refresh, EnforceReauth, VerifyAgain, Sign, VerifyThen
<1>5. CASE ReadActive(t)
  BY <1>5, FinishIdles, NoteCases DEF ReadActive
<1>6. QED
  BY <1>1, <1>2, <1>3, <1>4, <1>5 DEF Step, Begins

LEMMA GuessStep ==
    ASSUME CustodyAssumption, TypeOK, TasksFit, NEW t \in Tasks, Step(t),
           NEW a \in Accounts, Counted(a)
    PROVE  Counted(a)'
<1> USE DEF PassedAt, UncountedAt, At
<1>1. /\ guesses[a] \in Nat /\ failures[a] \in Nat /\ MaxFailed \in Nat
      /\ Cardinality(Tasks) \in Nat /\ Cardinality(Passed(a)) \in Nat
      /\ Cardinality(Uncounted(a)) \in Nat
  BY SetsFit DEF TypeOK, Counts, CustodyAssumption
<1>2. CASE CheckLockout(t)
  <2>1. UNCHANGED <<guesses, failures>> /\ task[t].at = "lockout"
    BY <1>2 DEF CheckLockout, managerVars, historyVars
  <2>2. CASE ~PassedAt(t, a)'
    BY <1>2, <2>1, <2>2, CountedKept, GoToKeeps, FinishIdles DEF CheckLockout
  <2>3. CASE PassedAt(t, a)'
    <3>1. GoTo(t, "keystore") /\ ~LockedOut(a)
      BY <1>2, <2>3, GoToKeeps, FinishIdles DEF CheckLockout
    <3>2. ~PassedAt(t, a) /\ ~UncountedAt(t, a) /\ ~UncountedAt(t, a)'
      BY <2>1, <3>1, GoToKeeps
    <3>3. /\ Cardinality(Passed(a))' = Cardinality(Passed(a)) + 1
          /\ Cardinality(Uncounted(a))' = Cardinality(Uncounted(a))
      BY <2>3, <3>2, SizesChange
    <3>4. failures[a] <= MaxFailed - 1
      BY <1>1, <3>1 DEF LockedOut
    <3>5. Cardinality(Passed(a))' + Cardinality(Uncounted(a))' <= Cardinality(Tasks)
      BY SetsFitNext
    <3>6. QED
      BY <1>1, <2>1, <3>3, <3>4, <3>5 DEF Counted
  <2>4. QED
    BY <2>2, <2>3
<1>3. CASE Keystore(t)
  <2>1. UNCHANGED failures /\ task[t].at = "keystore"
    BY <1>3 DEF Keystore
  <2>2. CASE a # task[t].account
    <3>1. guesses'[a] = guesses[a]
      BY <1>3, <2>2 DEF Keystore, TypeOK, Counts
    <3>2. ~PassedAt(t, a)' /\ ~UncountedAt(t, a)'
      BY <1>3, <2>2, GoToKeeps, FinishIdles DEF Keystore
    <3>3. QED
      BY <2>1, <2>2, <3>1, <3>2, CountedKept
  <2>3. CASE a = task[t].account /\ UNCHANGED guesses /\ ~UncountedAt(t, a)'
    <3>1. ~PassedAt(t, a)'
      BY <1>3, GoToKeeps, FinishIdles DEF Keystore
    <3>2. /\ Cardinality(Passed(a))' <= Cardinality(Passed(a))
          /\ Cardinality(Uncounted(a))' = Cardinality(Uncounted(a))
      BY <1>1, <2>1, <2>3, <3>1, SizesChange
    <3>3. Cardinality(Passed(a))' \in Nat
      BY SetsFitNext
    <3>4. QED
      BY <1>1, <2>1, <2>3, <3>2, <3>3 DEF Counted
  <2>4. CASE /\ a = task[t].account /\ GoTo(t, "recordFailure")
             /\ task[t].password = "wrong" \/ task[t].op = "export"
             /\ guesses' = [guesses EXCEPT ![task[t].account] = @ + 1]
    <3>1. guesses'[a] = guesses[a] + 1
      BY <2>4 DEF TypeOK, Counts
    <3>2. PassedAt(t, a) /\ ~UncountedAt(t, a)
      BY <2>1, <2>4 DEF TasksFit
    <3>3. ~PassedAt(t, a)' /\ UncountedAt(t, a)'
      BY <2>4, GoToKeeps
    <3>4. /\ Cardinality(Passed(a))' = Cardinality(Passed(a)) - 1
          /\ Cardinality(Uncounted(a))' = Cardinality(Uncounted(a)) + 1
      BY <3>2, <3>3, SizesChange
    <3>5. QED
      BY <1>1, <2>1, <3>1, <3>4 DEF Counted
  <2>5. QED
    BY <1>3, <2>2, <2>3, <2>4, GoToKeeps, FinishIdles DEF Keystore
<1>4. CASE RecordSuccess(t)
  <2>1. CASE a = task[t].account
    <3>1. guesses'[a] = 0 /\ failures'[a] = 0
      BY <1>4, <2>1 DEF RecordSuccess, TypeOK, Counts
    <3>2. QED
      BY <3>1, CountedReset
  <2>2. CASE a # task[t].account
    <3>1. guesses'[a] = guesses[a] /\ failures'[a] = failures[a]
      BY <1>4, <2>2 DEF RecordSuccess, TypeOK, Counts
    <3>2. /\ ~PassedAt(t, a) /\ ~PassedAt(t, a)'
          /\ ~UncountedAt(t, a) /\ ~UncountedAt(t, a)'
      BY <1>4, <2>2, GoToKeeps, FinishIdles DEF RecordSuccess
    <3>3. QED
      BY <3>1, <3>2, CountedKept
  <2>3. QED
    BY <2>1, <2>2
<1>5. CASE RecordFailure(t)
  <2>1. UNCHANGED guesses /\ task[t].at = "recordFailure" /\ Finish(t)
    BY <1>5 DEF RecordFailure, historyVars
  <2>2. ~PassedAt(t, a) /\ ~PassedAt(t, a)' /\ ~UncountedAt(t, a)'
    BY <2>1, FinishIdles
  <2>3. CASE a = task[t].account
    <3>1. failures'[a] = failures[a] + 1
      BY <1>5, <2>3 DEF RecordFailure, TypeOK, Counts
    <3>2. /\ Cardinality(Passed(a))' = Cardinality(Passed(a))
          /\ Cardinality(Uncounted(a))' = Cardinality(Uncounted(a)) - 1
      BY <2>1, <2>2, <2>3, SizesChange
    <3>3. QED
      BY <1>1, <2>1, <3>1, <3>2 DEF Counted
  <2>4. CASE a # task[t].account
    <3>1. failures'[a] = failures[a]
      BY <1>5, <2>4 DEF RecordFailure, TypeOK, Counts
    <3>2. QED
      BY <2>1, <2>2, <2>4, <3>1, CountedKept
  <2>5. QED
    BY <2>3, <2>4
<1>6. CASE ~Keystore(t) /\ ~CheckLockout(t) /\ ~RecordSuccess(t) /\ ~RecordFailure(t)
  <2>1. /\ UNCHANGED <<guesses, failures>>
        /\ ~PassedAt(t, a) /\ ~PassedAt(t, a)'
        /\ ~UncountedAt(t, a) /\ ~UncountedAt(t, a)'
    BY <1>6, GuessFrame
  <2>2. QED
    BY <2>1, CountedKept
<1>7. QED
  BY <1>2, <1>3, <1>4, <1>5, <1>6

-----------------------------------------------------------------------------
(* The invariant.                                                          *)

\* Sessions and clocks that run out, and the end of a lockout.
LEMMA TimeStep ==
    ASSUME CustodyAssumption, IInv,
           \/ \E a \in Accounts : ExpireSession(a) \/ LockoutEnds(a)
           \/ ClockGoesStale
           \/ UNCHANGED vars
    PROVE  IInv'
<1>1. TypeOK'
  BY EnvironmentTyped DEF IInv, TypeOK, vars, managerVars, historyVars
<1>2. UNCHANGED <<task, active, closeVars>>
  BY DEF ExpireSession, LockoutEnds, ClockGoesStale, vars, managerVars,
         historyVars, closeVars
<1>3. TasksFit' /\ ClosedIsShut' /\ LateSendsRefused'
  BY <1>2 DEF IInv, TasksFit, ClosedIsShut, LateSendsRefused, Shut, closeVars
<1>4. ASSUME NEW a \in Accounts
      PROVE  /\ failures'[a] <= failures[a]
             /\ \/ UNCHANGED <<guesses, failures>>
                \/ guesses'[a] = guesses[a] /\ failures'[a] = failures[a]
                \/ guesses'[a] = 0 /\ failures'[a] = 0
  BY DEF IInv, TypeOK, Counts, ExpireSession, LockoutEnds, ClockGoesStale,
         vars, managerVars, historyVars
<1>5. GuessesCounted'
  <2>1. ASSUME NEW a \in Accounts
        PROVE  Counted(a)'
    <3>1. Counted(a)
      BY DEF IInv, GuessesCounted, Counted
    <3>2. UNCHANGED <<Passed(a), Uncounted(a)>>
      BY <1>2 DEF Passed, Uncounted
    <3>3. QED
      BY <1>4, <3>1, <3>2, CountedReset DEF Counted
  <2>2. QED
    BY <2>1 DEF GuessesCounted, Counted
<1>6. QED
  BY <1>1, <1>3, <1>5 DEF IInv

\* After a restart no operation is in flight.
LEMMA RestartStep ==
    ASSUME CustodyAssumption, IInv, Restart
    PROVE  IInv'
<1>1. TypeOK'
  BY EnvironmentTyped DEF IInv
<1>2. \A t \in Tasks : task'[t] = Idle
  BY DEF Restart
<1>3. /\ TasksFit'
      /\ ClosedIsShut'
      /\ LateSendsRefused'
  BY <1>2 DEF Restart, Idle, TasksFit, ClosedIsShut, Shut, Opens, LateSendsRefused
<1>4. GuessesCounted'
  <2>1. ASSUME NEW a \in Accounts
        PROVE  /\ guesses'[a] = 0
               /\ failures'[a] \in Nat
    BY <1>1, <2>1 DEF Restart, NoFailures, TypeOK, Counts
  <2>2. QED
    BY <2>1, CountedReset DEF GuessesCounted, Counted
<1>5. QED
  BY <1>1, <1>3, <1>4 DEF IInv

LEMMA InvariantInit ==
    ASSUME CustodyAssumption, Init
    PROVE  IInv
<1>1. \A t \in Tasks : task[t] = Idle
  BY DEF Init
<1>2. TypeOK
  <2>1. task \in [Tasks -> TaskType]
    BY IdleTyped DEF Init
  <2>2. failures \in Counts /\ guesses \in Counts
    BY IdleTyped DEF Init
  <2>3. restarts \in 0 .. MaxRestarts
    BY DEF Init, CustodyAssumption
  <2>4. QED
    BY <2>1, <2>2, <2>3 DEF Init, TypeOK
<1>3. TasksFit /\ ClosedIsShut /\ LateSendsRefused
  BY <1>1 DEF Init, Idle, TasksFit, ClosedIsShut, Shut, Opens, LateSendsRefused
<1>4. GuessesCounted
  BY SetsFit DEF GuessesCounted, Init, NoFailures, CustodyAssumption
<1>5. QED
  BY <1>2, <1>3, <1>4 DEF IInv

LEMMA InvariantStep ==
    ASSUME CustodyAssumption, IInv, [Next]_vars
    PROVE  IInv'
<1>1. ASSUME NEW t \in Tasks, Step(t)
      PROVE  IInv'
  <2>1. TypeOK /\ TasksFit /\ ClosedIsShut /\ LateSendsRefused
        /\ GuessesCounted
    BY DEF IInv
  <2>2. \A a \in Accounts : Counted(a)
    BY <2>1 DEF GuessesCounted, Counted
  <2>3. \A a \in Accounts : Counted(a)'
    BY <1>1, <2>1, <2>2, GuessStep
  <2>4. GuessesCounted'
    BY <2>3 DEF GuessesCounted, Counted
  <2>5. QED
    BY <1>1, <2>1, <2>4, StepTyped, FitStep, ClosedStep, LateStep DEF IInv
<1>2. CASE Restart
  BY <1>2, RestartStep
<1>3. QED
  BY <1>1, <1>2, TimeStep DEF Next

\* Every variable keeps its type, in every behaviour of the wallet.
THEOREM TypeCorrect == Spec => []TypeOK
<1>1. Init => IInv
  BY InvariantInit, CustodyAssumption
<1>2. IInv /\ [Next]_vars => IInv'
  BY InvariantStep, CustodyAssumption
<1>3. IInv => TypeOK
  BY DEF IInv
<1>4. QED
  BY <1>1, <1>2, <1>3, PTL DEF Spec

\* The conjunction of what holds of the wallet at every moment is inductive:
\* types, where the tasks can be, what closing means, and the refused passwords
\* against the counters.
THEOREM Invariance == Spec => []IInv
<1>1. Init => IInv
  BY InvariantInit, CustodyAssumption
<1>2. IInv /\ [Next]_vars => IInv'
  BY InvariantStep, CustodyAssumption
<1>3. QED
  BY <1>1, <1>2, PTL DEF Spec

\* A send that begins after the wallet was locked is refused by the session
\* check, however many operations race the lock.
THEOREM LateSendsSafety == Spec => []LateSendsRefused
<1>1. IInv => LateSendsRefused
  BY DEF IInv
<1>2. QED
  BY <1>1, Invariance, PTL

\* Between two resets the keystore refuses at most MaxFailed passwords of an
\* address and one more for each further operation in flight: the check and
\* the count are apart, and that is what it costs.
THEOREM GuessesSafety == Spec => []GuessesBounded
<1>1. IInv => GuessesBounded
  <2>1. ASSUME IInv, NEW a \in Accounts
        PROVE  guesses[a] <= MaxFailed - 1 + Cardinality(Tasks)
    BY <2>1, CustodyAssumption, SetsFit
       DEF IInv, GuessesCounted, TypeOK, Counts, CustodyAssumption
  <2>2. QED
    BY <2>1 DEF GuessesBounded
<1>2. QED
  BY <1>1, Invariance, PTL
==============================================================================
