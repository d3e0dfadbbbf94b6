-------------------------- MODULE NodeLifecycleProofs --------------------------
(***************************************************************************)
(* Proofs about NodeLifecycle, for every finite set of overlapping tasks,  *)
(* every set of networks and any number of operations.                     *)
(***************************************************************************)
EXTENDS NodeLifecycle, FiniteSetTheorems, TLAPS

-----------------------------------------------------------------------------
(* Where a step takes its task.                                            *)

Points == {"idle", "read", "lock", "open", "listen", "serve", "status", "dir",
           "stop", "join", "stopped", "boots", "config", "chain", "rpc", "remove"}
TaskType == [op : Ops \cup {"none"}, at : Points, env : Networks \cup {None},
             run : 0 .. MaxOps]

LEMMA TasksTyped == TypeOK => task \in [Tasks -> TaskType]
BY DEF TypeOK, TaskType, Points

LEMMA IdleTyped == NodeAssumption => IdleTask \in TaskType
BY DEF NodeAssumption, IdleTask, TaskType, Points

\* Only the task that steps moves, and it keeps what it was asked to do.
LEMMA GoToKeeps ==
    ASSUME TypeOK, NEW t \in Tasks, NEW point \in Points, GoTo(t, point)
    PROVE  /\ task' \in [Tasks -> TaskType]
           /\ \A u \in Tasks \ {t} : task'[u] = task[u]
           /\ task'[t].at = point /\ task'[t].op = task[t].op
           /\ task'[t].env = task[t].env /\ task'[t].run = task[t].run
BY TasksTyped DEF GoTo, TaskType

LEMMA FinishIdles ==
    ASSUME NodeAssumption, TypeOK, NEW t \in Tasks, Finish(t)
    PROVE  /\ task' \in [Tasks -> TaskType]
           /\ \A u \in Tasks \ {t} : task'[u] = task[u]
           /\ task'[t].at = "idle" /\ task'[t].op = "none"
           /\ task'[t].env = None /\ task'[t].run = 0
BY TasksTyped, IdleTyped DEF Finish, IdleTask

\* A task at its next point, or back from its operation.
Moved(t, from, to) ==
    /\ task' \in [Tasks -> TaskType]
    /\ \A u \in Tasks \ {t} : task'[u] = task[u]
    /\ task[t].at = from /\ task'[t].at = to /\ task'[t].op = task[t].op
    /\ task'[t].env = task[t].env /\ task'[t].run = task[t].run
Ended(t, from) ==
    /\ task' \in [Tasks -> TaskType]
    /\ \A u \in Tasks \ {t} : task'[u] = task[u]
    /\ task[t].at = from /\ task'[t].at = "idle" /\ task'[t].op = "none"
    /\ task'[t].env = None /\ task'[t].run = 0

\* A factory reset that has read which directory it removes.
DirRead(t) ==
    /\ task' \in [Tasks -> TaskType]
    /\ \A u \in Tasks \ {t} : task'[u] = task[u]
    /\ task[t].at = "dir" /\ task'[t].at = "stop" /\ task'[t].op = task[t].op
    /\ task'[t].env = config /\ task'[t].run = task[t].run

\* A start opens the next run, if the count of runs leaves one.
LEMMA OpenMoves ==
    ASSUME NodeAssumption, TypeOK, Whereabouts, NEW t \in Tasks, OpenStorage(t),
           opened + 1 \in Runs
    PROVE  \/ Ended(t, "open") /\ lifecycle' = None /\ UNCHANGED <<home, opened>>
           \/ /\ task' \in [Tasks -> TaskType]
              /\ \A u \in Tasks \ {t} : task'[u] = task[u]
              /\ task[t].at = "open" /\ task'[t].at = "listen"
              /\ task'[t].op = task[t].op /\ task'[t].env = task[t].env
              /\ task'[t].run = opened + 1 /\ opened' = opened + 1
              /\ home' = [home EXCEPT ![opened + 1] = config]
              /\ UNCHANGED lifecycle
<1>1. CASE FailStart(t) /\ UNCHANGED <<home, opened>>
  BY <1>1, FinishIdles DEF FailStart, Ended, OpenStorage, At
<1>2. CASE ~(FailStart(t) /\ UNCHANGED <<home, opened>>)
  <2>1. /\ task' = [task EXCEPT ![t].at = "listen", ![t].run = opened + 1]
        /\ opened' = opened + 1 /\ home' = [home EXCEPT ![opened + 1] = config]
        /\ UNCHANGED lifecycle /\ task[t].at = "open"
    BY <1>2 DEF OpenStorage, At
  <2>2. task'[t] = [task[t] EXCEPT !.at = "listen", !.run = opened + 1]
    BY <2>1, TasksTyped
  <2>3. task'[t] \in TaskType /\ task'[t].at = "listen" /\ task'[t].run = opened + 1
        /\ task'[t].op = task[t].op /\ task'[t].env = task[t].env
    <3>1. opened + 1 \in 0 .. MaxOps /\ task[t] \in TaskType
      BY TasksTyped DEF Runs, NodeAssumption
    <3>2. QED
      BY <2>2, <3>1 DEF TaskType, Points
  <2>4. \A u \in Tasks \ {t} : task'[u] = task[u]
    BY <2>1, TasksTyped
  <2>5. task' \in [Tasks -> TaskType]
    BY <2>1, <2>3, <2>4, TasksTyped
  <2>6. QED
    BY <2>1, <2>3, <2>4, <2>5
<1>3. QED
  BY <1>1, <1>2

\* What every step of a task does, but for the opening of the storage.
LEMMA Moves ==
    ASSUME NodeAssumption, TypeOK, Whereabouts, NEW t \in Tasks
    PROVE  /\ ReadConfig(t) => Moved(t, "read", "lock")
           /\ LockToStart(t) =>
                IF node.running THEN Moved(t, "lock", "status")
                                ELSE Moved(t, "lock", "open")
           /\ Listen(t) =>
                \/ Moved(t, "listen", "serve") /\ UNCHANGED lifecycle
                \/ Ended(t, "listen") /\ lifecycle' = None
           /\ Serve(t) => Moved(t, "serve", "status")
           /\ StatusUp(t) => Ended(t, "status")
           /\ LockToStop(t) => Moved(t, "stop", "join")
           /\ ReleaseStorage(t) => Moved(t, "join", "stopped")
           /\ StatusDown(t) =>
                \/ task[t].op = "stop" /\ Ended(t, "stopped")
                \/ task[t].op = "restart" /\ Moved(t, "stopped", "read")
                \/ task[t].op = "switch" /\ Moved(t, "stopped", "boots")
                \/ task[t].op = "reset" /\ Moved(t, "stopped", "remove")
           /\ UpdateBootnodes(t) => Moved(t, "boots", "config")
           /\ WriteConfig(t) => Moved(t, "config", "chain")
           /\ SetChainId(t) => Moved(t, "chain", "rpc")
           /\ SetRpcUrl(t) => Moved(t, "rpc", "read")
           /\ ReadDataDir(t) => DirRead(t)
           /\ RemoveDataDir(t) => Ended(t, "remove")
<1> USE DEF Moved, Ended, DirRead, At
<1>1. \A point \in Points : GoTo(t, point) => Moved(t, task[t].at, point)
  BY GoToKeeps
<1>2. Finish(t) => Ended(t, task[t].at)
  BY FinishIdles
<1> HIDE DEF Moved, Ended, DirRead
<1>3. ReadConfig(t) => Moved(t, "read", "lock")
  BY <1>1 DEF ReadConfig, Points
<1>4. LockToStart(t) => IF node.running THEN Moved(t, "lock", "status")
                                        ELSE Moved(t, "lock", "open")
  BY <1>1 DEF LockToStart, Points
<1>5. Listen(t) => \/ Moved(t, "listen", "serve") /\ UNCHANGED lifecycle
                   \/ Ended(t, "listen") /\ lifecycle' = None
  BY <1>1, <1>2 DEF Listen, FailStart, Points
<1>6. Serve(t) => Moved(t, "serve", "status")
  BY <1>1 DEF Serve, Points
<1>7. StatusUp(t) => Ended(t, "status")
  BY <1>2 DEF StatusUp
<1>8. LockToStop(t) => Moved(t, "stop", "join")
  BY <1>1 DEF LockToStop, Points
<1>9. ReleaseStorage(t) => Moved(t, "join", "stopped")
  BY <1>1 DEF ReleaseStorage, Points
<1>10. StatusDown(t) =>
          \/ task[t].op = "stop" /\ Ended(t, "stopped")
          \/ task[t].op = "restart" /\ Moved(t, "stopped", "read")
          \/ task[t].op = "switch" /\ Moved(t, "stopped", "boots")
          \/ task[t].op = "reset" /\ Moved(t, "stopped", "remove")
  <2>1. StatusDown(t) => task[t].op \in {"stop", "restart", "switch", "reset"}
    BY TasksTyped DEF StatusDown, Whereabouts, Under, TaskType, Ops
  <2>2. QED
    BY <1>1, <1>2, <2>1 DEF StatusDown, Points
<1>11. /\ UpdateBootnodes(t) => Moved(t, "boots", "config")
       /\ WriteConfig(t) => Moved(t, "config", "chain")
       /\ SetChainId(t) => Moved(t, "chain", "rpc")
       /\ SetRpcUrl(t) => Moved(t, "rpc", "read")
  BY <1>1 DEF UpdateBootnodes, WriteConfig, SetChainId, SetRpcUrl, Points
<1>12. RemoveDataDir(t) => Ended(t, "remove")
  BY <1>2 DEF RemoveDataDir
<1>13. ReadDataDir(t) => DirRead(t)
  <2>1. SUFFICES ASSUME ReadDataDir(t) PROVE DirRead(t)
    OBVIOUS
  <2>2. task[t].at = "dir" /\ task' = [task EXCEPT ![t].at = "stop", ![t].env = config]
    BY <2>1 DEF ReadDataDir, At
  <2>3. task'[t] = [task[t] EXCEPT !.at = "stop", !.env = config]
    BY <2>2, TasksTyped
  <2>4. task[t] \in TaskType /\ config \in Networks
    BY TasksTyped DEF TypeOK
  <2>5. /\ task'[t] \in TaskType /\ task'[t].at = "stop" /\ task'[t].env = config
        /\ task'[t].op = task[t].op /\ task'[t].run = task[t].run
    BY <2>3, <2>4 DEF TaskType, Points
  <2>6. QED
    BY <2>2, <2>5, TasksTyped DEF DirRead
<1>14. QED
  BY <1>3, <1>4, <1>5, <1>6, <1>7, <1>8, <1>9, <1>10, <1>11, <1>12, <1>13

\* A handler that begins.
Began(t, op) ==
    /\ task' \in [Tasks -> TaskType]
    /\ \A u \in Tasks \ {t} : task'[u] = task[u]
    /\ task[t].op = "none" /\ task'[t].op = op /\ task'[t].run = 0
    /\ task'[t].at = IF op = "start" THEN "read"
                     ELSE IF op = "reset" THEN "dir" ELSE "stop"
    /\ op = "switch" => task'[t].env \in Networks

LEMMA BeginMoves ==
    ASSUME NodeAssumption, TypeOK, NEW t \in Tasks, NEW op \in Ops,
           NEW env \in Networks, Begin(t, op, env)
    PROVE  Began(t, op)
<1> DEFINE at == CASE op = "start" -> "read" [] op = "reset" -> "dir"
                   [] OTHER -> "stop"
           e == IF op = "switch" THEN env ELSE None
           r == [IdleTask EXCEPT !.op = op, !.at = at, !.env = e]
<1>1. task[t].op = "none" /\ task' = [task EXCEPT ![t] = r]
  BY DEF Begin
<1>2. /\ at \in Points /\ e \in Networks \cup {None}
      /\ op = "switch" => e \in Networks
      /\ at = IF op = "start" THEN "read"
              ELSE IF op = "reset" THEN "dir" ELSE "stop"
  BY DEF Points
<1> HIDE DEF at, e
<1>3. r \in TaskType
  BY <1>2, IdleTyped DEF TaskType
<1>4. r.op = op /\ r.at = at /\ r.env = e /\ r.run = 0
  BY IdleTyped DEF TaskType, IdleTask
<1> HIDE DEF r
<1>5. QED
  BY <1>1, <1>2, <1>3, <1>4, TasksTyped DEF Began

-----------------------------------------------------------------------------
(* Types.                                                                  *)

\* A start that has come to open its storage has a run left to open.
LEMMA RunLeft ==
    ASSUME NodeAssumption, TypeOK, Whereabouts, RunsCounted,
           NEW t \in Tasks, task[t].at = "open"
    PROVE  opened + 1 \in Runs /\ opened + Cardinality(Unopened) <= ops
<1>1. t \in Unopened
  BY DEF Unopened, Whereabouts, Under, At
<1>2. IsFiniteSet(Unopened)
  <2>1. Unopened \subseteq Tasks
    BY DEF Unopened
  <2>2. QED
    BY <2>1, FS_Subset DEF NodeAssumption
<1>3. Cardinality(Unopened) \in Nat /\ Cardinality(Unopened) # 0
  BY <1>1, <1>2, FS_CardinalityType, FS_EmptySet
<1>4. QED
  BY <1>3 DEF RunsCounted, TypeOK, NodeAssumption, Runs

States == {"none", "waiting", "busy", "gone"}

\* A worker's step changes no other variable, and brings no worker to life.
LEMMA WorkerFrame ==
    ASSUME TypeOK, NEW i \in Runs, WorkerStep(i)
    PROVE  /\ UNCHANGED <<task, lifecycle, node, confVars, heads, home, opened,
                          gaveUp, boundVars>>
           /\ worker' \in [Runs -> [Workers -> States]]
           /\ \A j \in Runs, w \in Workers : Alive(j, w)' => Alive(j, w)
<1>0. worker \in [Runs -> [Workers -> States]]
  BY DEF TypeOK, States
<1>1. ASSUME NEW w \in Workers, NEW s \in States,
             worker' = [worker EXCEPT ![i][w] = s], s \in {"waiting", "busy"} => Alive(i, w)
      PROVE  /\ worker' \in [Runs -> [Workers -> States]]
             /\ \A j \in Runs, v \in Workers : Alive(j, v)' => Alive(j, v)
  <2>1. worker' = [worker EXCEPT ![i] = [worker[i] EXCEPT ![w] = s]]
    BY <1>0, <1>1
  <2>2. worker' \in [Runs -> [Workers -> States]]
    BY <1>0, <2>1
  <2>3. \A j \in Runs, v \in Workers :
           worker'[j][v] = IF j = i /\ v = w THEN s ELSE worker[j][v]
    BY <1>0, <2>1
  <2>4. QED
    BY <1>1, <2>2, <2>3 DEF Alive
<1>2. CASE \E w \in Workers : WorkerWakes(i, w)
  BY <1>1, <1>2 DEF WorkerWakes, Alive, States
<1>3. CASE \E w \in Workers : WorkerWaits(i, w)
  BY <1>1, <1>3 DEF WorkerWaits, Alive, States
<1>4. CASE HandlerEnds(i)
  <2>1. "handler" \in Workers /\ worker' = [worker EXCEPT ![i]["handler"] = "gone"]
    BY <1>4 DEF HandlerEnds, Workers
  <2>2. QED
    BY <1>1, <1>4, <2>1 DEF HandlerEnds, States
<1>5. QED
  BY <1>2, <1>3, <1>4 DEF WorkerStep

NodeType == [running : BOOLEAN, shutdown : BOOLEAN, store : 0 .. MaxOps,
             pm : 0 .. MaxOps, tracked : SUBSET Workers, boot : Networks]

\* The node after each of the steps that change it.
LEMMA NodeMoves ==
    ASSUME NodeAssumption, TypeOK, Whereabouts, NEW t \in Tasks
    PROVE  /\ LockToStart(t) =>
                /\ node' \in NodeType
                /\ IF node.running THEN UNCHANGED <<lifecycle, node>>
                   ELSE /\ node' = [node EXCEPT !.shutdown = FALSE]
                        /\ lifecycle' = t
           /\ Serve(t) =>
                /\ node' \in NodeType /\ task[t].run \in Runs
                /\ node'.running /\ node'.store = task[t].run
                /\ node'.pm = task[t].run /\ node'.tracked = Workers
                /\ node'.shutdown = node.shutdown
           /\ LockToStop(t) =>
                /\ node' \in NodeType
                /\ ~node'.running /\ node'.shutdown /\ node'.pm = 0
                /\ node'.store = node.store /\ node'.tracked = node.tracked
           /\ \A w \in Workers : JoinWorker(t, w) =>
                /\ node' \in NodeType
                /\ node'.running = node.running /\ node'.shutdown = node.shutdown
                /\ node'.pm = node.pm /\ node'.store = node.store
                /\ node'.tracked = node.tracked \ {w}
           /\ ReleaseStorage(t) =>
                /\ node' \in NodeType
                /\ node'.running = node.running /\ ~node'.shutdown
                /\ node'.pm = node.pm /\ node'.store = 0 /\ node'.tracked = {}
           /\ UpdateBootnodes(t) =>
                /\ node' \in NodeType
                /\ node'.running = node.running /\ node'.shutdown = node.shutdown
                /\ node'.pm = node.pm /\ node'.store = node.store
                /\ node'.tracked = node.tracked
<1>0. node \in NodeType /\ 0 \in 0 .. MaxOps
  BY DEF TypeOK, NodeType, NodeAssumption
<1>1. ASSUME LockToStart(t)
      PROVE  /\ node' \in NodeType
             /\ IF node.running THEN UNCHANGED <<lifecycle, node>>
                ELSE node' = [node EXCEPT !.shutdown = FALSE] /\ lifecycle' = t
  BY <1>0, <1>1 DEF LockToStart, NodeType
<1>2. ASSUME Serve(t)
      PROVE  /\ node' \in NodeType /\ task[t].run \in Runs
             /\ node'.running /\ node'.store = task[t].run
             /\ node'.pm = task[t].run /\ node'.tracked = Workers
             /\ node'.shutdown = node.shutdown
  <2>1. task[t].run \in Runs /\ task[t].run \in 0 .. MaxOps
    BY <1>2, TasksTyped DEF Serve, Whereabouts, At, TaskType, Runs, NodeAssumption
  <2>2. QED
    BY <1>0, <1>2, <2>1 DEF Serve, NodeType
<1>3. ASSUME LockToStop(t)
      PROVE  /\ node' \in NodeType
             /\ ~node'.running /\ node'.shutdown /\ node'.pm = 0
             /\ node'.store = node.store /\ node'.tracked = node.tracked
  BY <1>0, <1>3 DEF LockToStop, NodeType
<1>4. ASSUME NEW w \in Workers, JoinWorker(t, w)
      PROVE  /\ node' \in NodeType
             /\ node'.running = node.running /\ node'.shutdown = node.shutdown
             /\ node'.pm = node.pm /\ node'.store = node.store
             /\ node'.tracked = node.tracked \ {w}
  <2>1. node' = [node EXCEPT !.tracked = node.tracked \ {w}]
    BY <1>0, <1>4 DEF JoinWorker, NodeType
  <2>2. QED
    BY <1>0, <2>1 DEF NodeType
<1>5. ASSUME ReleaseStorage(t)
      PROVE  /\ node' \in NodeType
             /\ node'.running = node.running /\ ~node'.shutdown
             /\ node'.pm = node.pm /\ node'.store = 0 /\ node'.tracked = {}
  BY <1>0, <1>5 DEF ReleaseStorage, NodeType
<1>6. ASSUME UpdateBootnodes(t)
      PROVE  /\ node' \in NodeType
             /\ node'.running = node.running /\ node'.shutdown = node.shutdown
             /\ node'.pm = node.pm /\ node'.store = node.store
             /\ node'.tracked = node.tracked
  <2>1. task[t].env \in Networks
    BY <1>6, TasksTyped DEF UpdateBootnodes, At, Whereabouts
  <2>2. QED
    BY <1>0, <1>6, <2>1 DEF UpdateBootnodes, NodeType
<1>7. QED
  BY <1>1, <1>2, <1>3, <1>4, <1>5, <1>6

\* Each step keeps every variable in its type.
LEMMA TypeStep ==
    ASSUME NodeAssumption, TypeOK, Whereabouts, RunsCounted, NodeByLock, [Next]_vars
    PROVE  TypeOK'
<1> USE DEF confVars, runVars, boundVars
<1>0. TypeOK <=>
        /\ task \in [Tasks -> TaskType] /\ config \in Networks
        /\ lifecycle \in Tasks \cup {None} /\ node \in NodeType
        /\ worker \in [Runs -> [Workers -> States]]
        /\ heads \subseteq Runs /\ home \in [Runs -> Networks \cup {None}]
        /\ opened \in 0 .. MaxOps
        /\ wallet \in [chain : Networks, rpc : Networks]
        /\ status \in [running : BOOLEAN, chain : Networks]
        /\ overlapped \in BOOLEAN
        /\ ops \in 0 .. MaxOps /\ gaveUp \subseteq Runs \X Workers
        /\ bereft \subseteq Runs
  BY DEF TypeOK, TaskType, Points, NodeType, States
<1>1. ASSUME NEW t \in Tasks, NEW op \in Ops, NEW env \in Networks, Begin(t, op, env)
      PROVE  TypeOK'
  <2>1. task' \in [Tasks -> TaskType]
    BY <1>1, BeginMoves DEF Began
  <2>2. ops' \in 0 .. MaxOps
    BY <1>1 DEF Begin, TypeOK, NodeAssumption
  <2>3. overlapped' \in BOOLEAN
    BY <1>1 DEF Begin, TypeOK
  <2>4. QED
    BY <1>1, <2>1, <2>2, <2>3 DEF Begin, TypeOK, TaskType, Points
<1>2. ASSUME NEW t \in Tasks, TaskStep(t) PROVE TypeOK'
  <2> USE DEF Moved, Ended, DirRead
  <2>1. CASE ReadConfig(t) \/ LockToStart(t) \/ Listen(t)
    <3>1. task' \in [Tasks -> TaskType]
      BY <2>1, Moves
    <3>2. task[t].run \in Runs \/ ~Listen(t)
      BY TasksTyped DEF Listen, At, Whereabouts, TaskType, Runs, NodeAssumption
    <3>3. heads' \subseteq Runs
      BY <2>1, <3>2 DEF ReadConfig, LockToStart, Listen, TypeOK
    <3>4. node' \in NodeType /\ lifecycle' \in Tasks \cup {None}
      BY <1>0, <2>1, NodeMoves, Moves DEF ReadConfig, LockToStart, Listen
    <3>5. QED
      BY <1>0, <2>1, <3>1, <3>3, <3>4 DEF ReadConfig, LockToStart, Listen,
         TypeOK, TaskType, Points, NodeType
  <2>2. CASE OpenStorage(t)
    <3>1. opened + 1 \in Runs
      BY <2>2, RunLeft DEF OpenStorage, At
    <3>2. \/ Ended(t, "open") /\ lifecycle' = None /\ UNCHANGED <<home, opened>>
          \/ /\ task' \in [Tasks -> TaskType] /\ UNCHANGED lifecycle
             /\ opened' = opened + 1 /\ home' = [home EXCEPT ![opened + 1] = config]
      BY <2>2, <3>1, OpenMoves
    <3>4. task' \in [Tasks -> TaskType] /\ lifecycle' \in Tasks \cup {None}
      BY <1>0, <3>2
    <3>5. home' \in [Runs -> Networks \cup {None}]
      BY <1>0, <3>1, <3>2
    <3>6. opened' \in 0 .. MaxOps
      BY <1>0, <3>1, <3>2, NodeAssumption DEF Runs
    <3>3. QED
      BY <2>2, <3>4, <3>5, <3>6 DEF OpenStorage, TypeOK, TaskType, Points
  <2>3. CASE Serve(t)
    <3>1. task' \in [Tasks -> TaskType] /\ node' \in NodeType /\ task[t].run \in Runs
      BY <2>3, Moves, NodeMoves
    <3>2. worker' \in [Runs -> [Workers -> States]]
      BY <1>0, <2>3, <3>1 DEF Serve, States
    <3>3. QED
      BY <2>3, <3>1, <3>2 DEF Serve, TypeOK, TaskType, Points, NodeType, States
  <2>4. CASE LockToStop(t)
    <3>1. task' \in [Tasks -> TaskType] /\ node' \in NodeType
      BY <2>4, Moves, NodeMoves
    <3>2. worker' \in [Runs -> [Workers -> States]]
      BY <1>0, <2>4 DEF LockToStop, Notified, States
    <3>3. QED
      BY <2>4, <3>1, <3>2 DEF LockToStop, TypeOK, TaskType, Points, NodeType, States
  <2>5. ASSUME NEW w \in Workers, JoinWorker(t, w) PROVE TypeOK'
    <3>1. node' \in NodeType
      BY <2>5, NodeMoves
    <3>2. gaveUp' \subseteq Runs \X Workers
      <4>1. Alive(node.store, w) => node.store \in Runs
        BY <2>5 DEF JoinWorker, NodeByLock, TypeOK, Runs, NodeAssumption
      <4>2. QED
        BY <2>5, <4>1 DEF JoinWorker, TypeOK
    <3>3. QED
      BY <2>5, <3>1, <3>2 DEF JoinWorker, TypeOK, NodeType
  <2>6. CASE ReleaseStorage(t) \/ UpdateBootnodes(t)
    <3>1. task' \in [Tasks -> TaskType] /\ node' \in NodeType
      BY <2>6, Moves, NodeMoves
    <3>2. QED
      BY <2>6, <3>1 DEF ReleaseStorage, UpdateBootnodes, TypeOK, TaskType, Points,
         NodeType
  <2>7. CASE StatusUp(t) \/ StatusDown(t)
    <3>1. task' \in [Tasks -> TaskType]
      BY <2>7, Moves
    <3>2. status' \in [running : BOOLEAN, chain : Networks]
      <4>1. status \in [running : BOOLEAN, chain : Networks] /\ config \in Networks
        BY DEF TypeOK
      <4>2. \/ status' = [running |-> TRUE, chain |-> config]
            \/ status' = [status EXCEPT !.running = FALSE]
        BY <2>7 DEF StatusUp, StatusDown
      <4>3. /\ [running |-> TRUE, chain |-> config] \in [running : BOOLEAN, chain : Networks]
            /\ [status EXCEPT !.running = FALSE] \in [running : BOOLEAN, chain : Networks]
        BY <4>1
      <4>4. QED
        BY <4>2, <4>3, Zenon
    <3>3. QED
      BY <2>7, <3>1, <3>2 DEF StatusUp, StatusDown, TypeOK, TaskType, Points
  <2>8. CASE WriteConfig(t) \/ SetChainId(t) \/ SetRpcUrl(t)
    <3>1. task' \in [Tasks -> TaskType]
      BY <2>8, Moves
    <3>2. task[t].env \in Networks
      BY <2>8, TasksTyped DEF WriteConfig, SetChainId, SetRpcUrl, At, Whereabouts,
         Under
    <3>3. config' \in Networks /\ wallet' \in [chain : Networks, rpc : Networks]
      BY <2>8, <3>2 DEF WriteConfig, SetChainId, SetRpcUrl, TypeOK
    <3>4. QED
      BY <2>8, <3>1, <3>3 DEF WriteConfig, SetChainId, SetRpcUrl, TypeOK, TaskType,
         Points
  <2>9. CASE RemoveDataDir(t)
    <3>1. task' \in [Tasks -> TaskType]
      BY <2>9, Moves
    <3>2. QED
      BY <2>9, <3>1 DEF RemoveDataDir, TypeOK, TaskType, Points
  <2>10. CASE ReadDataDir(t)
    <3>1. task' \in [Tasks -> TaskType]
      BY <2>10, Moves
    <3>2. QED
      BY <2>10, <3>1 DEF ReadDataDir, TypeOK, TaskType, Points
  <2>11. QED
    BY <1>2, <2>1, <2>2, <2>3, <2>4, <2>5, <2>6, <2>7, <2>8, <2>9, <2>10
       DEF TaskStep, StartStep, StopStep, SwitchStep
<1>3. ASSUME NEW i \in Runs, WorkerStep(i) PROVE TypeOK'
  BY <1>3, WorkerFrame DEF TypeOK, States
<1>4. CASE UNCHANGED vars
  BY <1>4 DEF vars, TypeOK
<1>5. QED
  BY <1>1, <1>2, <1>3, <1>4 DEF Next

-----------------------------------------------------------------------------
(* Where tasks are.                                                        *)

\* One task's part of Whereabouts.
Placed(t) ==
    /\ Under(t) <=> ~At(t, "idle")
    /\ task[t].at \in {"stop", "join", "stopped"} => task[t].op # "start"
    /\ task[t].at \in {"boots", "config", "chain", "rpc"} => task[t].op = "switch"
    /\ task[t].at \in {"dir", "remove"} => task[t].op = "reset"
    /\ task[t].op = "switch" => task[t].env \in Networks
    /\ task[t].op = "reset" /\ ~At(t, "dir") => task[t].env \in Networks
    /\ task[t].at \in {"listen", "serve"} => task[t].run # 0
    /\ task[t].run # 0 => task[t].at \in {"listen", "serve", "status"}

LEMMA OnePlaced ==
    ASSUME Whereabouts, NEW t \in Tasks, \A u \in Tasks \ {t} : task'[u] = task[u],
           Placed(t)'
    PROVE  Whereabouts'
<1>1. \A u \in Tasks \ {t} : Placed(u)'
  BY DEF Whereabouts, Placed, Under, At
<1>2. QED
  BY <1>1 DEF Whereabouts, Placed

LEMMA WhereaboutsStep ==
    ASSUME NodeAssumption, TypeOK, Whereabouts, RunsCounted, [Next]_vars
    PROVE  Whereabouts'
<1> USE DEF At, Under
<1>1. ASSUME NEW t \in Tasks, NEW op \in Ops, NEW env \in Networks, Begin(t, op, env)
      PROVE  Whereabouts'
  BY <1>1, BeginMoves, OnePlaced DEF Began, Placed, Ops
<1>2. ASSUME NEW t \in Tasks, TaskStep(t) PROVE Whereabouts'
  <2>0. Placed(t)
    BY DEF Whereabouts, Placed
  <2>1. CASE OpenStorage(t)
    <3>1. opened + 1 \in Runs
      BY <2>1, RunLeft DEF OpenStorage
    <3>2. Placed(t)' /\ \A u \in Tasks \ {t} : task'[u] = task[u]
      BY <2>0, <2>1, <3>1, OpenMoves DEF Placed, Ended, Runs
    <3>3. QED
      BY <3>2, OnePlaced
  <2>2. CASE \E w \in Workers : JoinWorker(t, w)
    BY <2>2 DEF JoinWorker, Whereabouts
  <2>3. ASSUME ~OpenStorage(t), ~\E w \in Workers : JoinWorker(t, w)
        PROVE  Placed(t)' /\ \A u \in Tasks \ {t} : task'[u] = task[u]
    <3> USE DEF Moved, Ended, DirRead, Placed
    <3>1. CASE ReadConfig(t) \/ LockToStart(t) \/ Listen(t) \/ Serve(t)
      BY <2>0, <3>1, Moves
    <3>2. CASE LockToStop(t) \/ ReleaseStorage(t) \/ StatusDown(t)
      BY <2>0, <3>2, Moves
    <3>3. CASE SwitchStep(t)
      BY <2>0, <3>3, Moves DEF SwitchStep
    <3>4. CASE StatusUp(t) \/ RemoveDataDir(t)
      BY <2>0, <3>4, Moves
    <3>5. CASE ReadDataDir(t)
      BY <2>0, <3>5, Moves DEF TypeOK
    <3>6. QED
      BY <1>2, <2>3, <3>1, <3>2, <3>3, <3>4, <3>5 DEF TaskStep, StartStep, StopStep
  <2>4. QED
    BY <2>1, <2>2, <2>3, OnePlaced
<1>3. CASE UNCHANGED task
  BY <1>3 DEF Whereabouts
<1>4. QED
  BY <1>1, <1>2, <1>3, WorkerFrame DEF Next, vars

-----------------------------------------------------------------------------
(* The mutex, and what the node is under it.                               *)

Holding == {"open", "listen", "serve", "join"}

LEMMA MutexStep ==
    ASSUME NodeAssumption, TypeOK, Whereabouts, RunsCounted, MutexHeld, [Next]_vars
    PROVE  MutexHeld'
<1> USE DEF At, Under
<1>0. \A u \in Tasks : lifecycle = u <=> task[u].at \in Holding
  BY DEF MutexHeld, Holding
<1>1. ASSUME NEW t \in Tasks, \A u \in Tasks \ {t} : task'[u] = task[u],
             \/ /\ UNCHANGED lifecycle
                /\ task'[t].at \in Holding <=> task[t].at \in Holding
             \/ /\ lifecycle = None /\ lifecycle' = t /\ task'[t].at \in Holding
             \/ /\ task[t].at \in Holding /\ lifecycle' = None
                /\ task'[t].at \notin Holding
      PROVE  MutexHeld'
  <2>1. \A u \in Tasks : lifecycle' = u <=> task'[u].at \in Holding
    BY <1>0, <1>1 DEF NodeAssumption
  <2>2. QED
    BY <2>1 DEF MutexHeld, Holding
<1>2. ASSUME NEW t \in Tasks, NEW op \in Ops, NEW env \in Networks, Begin(t, op, env)
      PROVE  MutexHeld'
  <2>1. /\ task'[t].at \notin Holding /\ task[t].at \notin Holding
        /\ \A u \in Tasks \ {t} : task'[u] = task[u]
    BY <1>2, BeginMoves DEF Began, Whereabouts, Holding
  <2>2. UNCHANGED lifecycle
    BY <1>2 DEF Begin
  <2>3. QED
    BY <1>1, <2>1, <2>2
<1>3. ASSUME NEW t \in Tasks, TaskStep(t) PROVE MutexHeld'
  <2> USE DEF Moved, Ended, DirRead, Holding
  <2>1. CASE OpenStorage(t)
    <3>1. opened + 1 \in Runs
      BY <2>1, RunLeft DEF OpenStorage
    <3>2. QED
      BY <1>1, <2>1, <3>1, OpenMoves
  <2>2. CASE LockToStart(t)
    BY <1>1, <2>2, Moves, NodeMoves DEF LockToStart
  <2>3. CASE Listen(t)
    BY <1>1, <2>3, Moves
  <2>4. CASE Serve(t) \/ ReleaseStorage(t)
    BY <1>1, <2>4, Moves DEF Serve, ReleaseStorage
  <2>5. CASE LockToStop(t)
    BY <1>1, <2>5, Moves DEF LockToStop
  <2>6. CASE \E w \in Workers : JoinWorker(t, w)
    BY <2>6 DEF JoinWorker, MutexHeld
  <2>7. CASE ReadConfig(t) \/ StatusUp(t) \/ StatusDown(t)
    BY <1>1, <2>7, Moves DEF ReadConfig, StatusUp, StatusDown
  <2>8. CASE SwitchStep(t) \/ ReadDataDir(t) \/ RemoveDataDir(t)
    BY <1>1, <2>8, Moves DEF SwitchStep, ReadDataDir, RemoveDataDir, UpdateBootnodes,
       WriteConfig, SetChainId, SetRpcUrl
  <2>9. QED
    BY <1>3, <2>1, <2>2, <2>3, <2>4, <2>5, <2>6, <2>7, <2>8
       DEF TaskStep, StartStep, StopStep
<1>4. CASE UNCHANGED <<task, lifecycle>>
  BY <1>4 DEF MutexHeld
<1>5. QED
  BY <1>2, <1>3, <1>4, WorkerFrame DEF Next, vars

\* At most one task is where the mutex is held, and then nobody else can take it.
LEMMA OneHolds ==
    ASSUME MutexHeld, NEW t \in Tasks, NEW u \in Tasks,
           task[t].at \in Holding, task[u].at \in Holding
    PROVE  t = u
BY DEF MutexHeld, Holding

LEMMA NodeStep ==
    ASSUME NodeAssumption, TypeOK, Whereabouts, RunsCounted, MutexHeld, NodeByLock,
           [Next]_vars
    PROVE  NodeByLock'
<1> USE DEF At, Under
<1> DEFINE Starting == {"open", "listen", "serve"}
<1>0. /\ node.tracked # {} => node.store # 0
      /\ lifecycle = None => /\ ~node.shutdown
                             /\ \/ Empty
                                \/ /\ node.running /\ node.store # 0
                                   /\ node.pm = node.store /\ node.tracked = Workers
      /\ \A t \in Tasks :
            /\ task[t].at \in Starting => Empty /\ ~node.shutdown
            /\ task[t].at = "join" => ~node.running /\ node.pm = 0 /\ node.shutdown
  BY DEF NodeByLock, Locked
<1>1. MutexHeld'
  BY MutexStep
<1>2. \A t \in Tasks : /\ lifecycle = t <=> task[t].at \in Holding
                       /\ lifecycle' = t <=> task'[t].at \in Holding
  BY <1>1 DEF MutexHeld, Holding
<1>3. ASSUME UNCHANGED <<lifecycle, node>>,
             \A t \in Tasks : task'[t].at \in Holding =>
                 \/ task'[t].at = task[t].at
                 \/ task'[t].at \in Starting /\ task[t].at \in Starting
      PROVE  NodeByLock'
  BY <1>0, <1>3 DEF NodeByLock, Holding, Locked, Empty
<1>4. ASSUME NEW t \in Tasks, NEW op \in Ops, NEW env \in Networks, Begin(t, op, env)
      PROVE  NodeByLock'
  <2>1. /\ task'[t].at \notin Holding /\ \A u \in Tasks \ {t} : task'[u] = task[u]
    BY <1>4, BeginMoves DEF Began, Holding
  <2>2. QED
    BY <1>3, <1>4, <2>1 DEF Begin
<1>5. ASSUME NEW t \in Tasks, TaskStep(t) PROVE NodeByLock'
  <2> USE DEF Moved, Ended, DirRead, Holding
  <2>1. CASE OpenStorage(t)
    <3>1. opened + 1 \in Runs
      BY <2>1, RunLeft DEF OpenStorage
    <3>2. UNCHANGED node /\ task[t].at = "open" /\ task'[t].at \in {"listen", "idle"}
          /\ \A u \in Tasks \ {t} : task'[u] = task[u]
      BY <2>1, <3>1, OpenMoves DEF OpenStorage
    <3>3. Empty' /\ ~node'.shutdown
      BY <1>0, <3>2 DEF Empty
    <3>4. \A u \in Tasks : task'[u].at # "join"
      BY <1>2, <3>2
    <3>5. QED
      BY <3>3, <3>4 DEF NodeByLock, Empty
  <2>2. CASE LockToStart(t)
    <3>1. CASE node.running
      BY <1>3, <2>2, <3>1, Moves, NodeMoves
    <3>2. CASE ~node.running
      <4>1. /\ node' = [node EXCEPT !.shutdown = FALSE] /\ lifecycle = None
            /\ lifecycle' = t /\ task'[t].at = "open"
        BY <2>2, <3>2, Moves, NodeMoves DEF LockToStart
      <4>2. Empty' /\ ~node'.shutdown
        BY <1>0, <3>2, <4>1 DEF Empty, TypeOK
      <4>3. \A u \in Tasks : task'[u].at # "join"
        BY <1>2, <4>1
      <4>4. QED
        BY <4>2, <4>3 DEF NodeByLock, Empty
    <3>3. QED
      BY <3>1, <3>2
  <2>3. CASE Listen(t)
    <3>1. UNCHANGED node /\ task[t].at = "listen" /\ task'[t].at \in {"serve", "idle"}
      BY <2>3, Moves DEF Listen
    <3>2. Empty' /\ ~node'.shutdown
      BY <1>0, <3>1 DEF Empty
    <3>3. \A u \in Tasks : task'[u].at # "join"
      BY <1>2, <2>3, <3>1, Moves
    <3>4. QED
      BY <3>2, <3>3 DEF NodeByLock, Empty
  <2>4. CASE Serve(t)
    <3>1. /\ task[t].run # 0 /\ task[t].at = "serve" /\ lifecycle' = None
          /\ node'.running /\ node'.store = task[t].run /\ node'.pm = task[t].run
          /\ node'.tracked = Workers /\ node'.shutdown = node.shutdown
      BY <2>4, Moves, NodeMoves DEF Serve, Whereabouts
    <3>2. \A u \in Tasks : task'[u].at \notin Holding
      BY <1>2, <3>1 DEF NodeAssumption
    <3>3. ~node.shutdown
      BY <1>0, <3>1
    <3>4. QED
      BY <3>1, <3>2, <3>3 DEF NodeByLock, Locked
  <2>5. CASE LockToStop(t)
    <3>1. /\ ~node'.running /\ node'.shutdown /\ node'.pm = 0
          /\ node'.store = node.store /\ node'.tracked = node.tracked
          /\ task'[t].at = "join" /\ lifecycle' = t
      BY <2>5, Moves, NodeMoves DEF LockToStop
    <3>2. \A u \in Tasks : task'[u].at \notin Starting
      BY <1>2, <3>1
    <3>3. QED
      BY <1>0, <3>1, <3>2 DEF NodeByLock, Locked, NodeAssumption
  <2>6. ASSUME NEW w \in Workers, JoinWorker(t, w) PROVE NodeByLock'
    <3>1. /\ node'.running = node.running /\ node'.shutdown = node.shutdown
          /\ node'.pm = node.pm /\ node'.store = node.store
          /\ node'.tracked = node.tracked \ {w} /\ UNCHANGED <<task, lifecycle>>
          /\ task[t].at = "join"
      BY <2>6, NodeMoves DEF JoinWorker
    <3>2. lifecycle' # None /\ \A u \in Tasks : task'[u].at \notin Starting
      BY <1>2, <3>1 DEF NodeAssumption
    <3>3. QED
      BY <1>0, <3>1, <3>2 DEF NodeByLock, Locked
  <2>7. CASE ReleaseStorage(t)
    <3>1. /\ node'.running = node.running /\ ~node'.shutdown /\ node'.pm = node.pm
          /\ node'.store = 0 /\ node'.tracked = {} /\ lifecycle' = None
          /\ task[t].at = "join"
      BY <2>7, Moves, NodeMoves DEF ReleaseStorage
    <3>2. \A u \in Tasks : task'[u].at \notin Holding
      BY <1>2, <3>1 DEF NodeAssumption
    <3>3. Empty'
      BY <1>0, <3>1 DEF Empty
    <3>4. QED
      BY <3>1, <3>2, <3>3 DEF NodeByLock
  <2>8. CASE UpdateBootnodes(t)
    <3>1. /\ node'.running = node.running /\ node'.shutdown = node.shutdown
          /\ node'.pm = node.pm /\ node'.store = node.store
          /\ node'.tracked = node.tracked /\ UNCHANGED lifecycle
      BY <2>8, NodeMoves DEF UpdateBootnodes
    <3>2. /\ task'[t].at \notin Holding /\ \A u \in Tasks \ {t} : task'[u] = task[u]
      BY <2>8, Moves
    <3>3. QED
      BY <1>0, <3>1, <3>2 DEF NodeByLock, Locked, Empty
  <2>9. CASE ReadConfig(t) \/ StatusUp(t) \/ StatusDown(t)
    BY <1>3, <2>9, Moves DEF ReadConfig, StatusUp, StatusDown
  <2>10. CASE \/ WriteConfig(t) \/ SetChainId(t) \/ SetRpcUrl(t) \/ ReadDataDir(t)
             \/ RemoveDataDir(t)
    BY <1>3, <2>10, Moves DEF WriteConfig, SetChainId, SetRpcUrl, ReadDataDir,
       RemoveDataDir
  <2>11. QED
    BY <1>5, <2>1, <2>2, <2>3, <2>4, <2>5, <2>6, <2>7, <2>8, <2>9, <2>10
       DEF TaskStep, StartStep, StopStep, SwitchStep
<1>6. CASE UNCHANGED <<task, lifecycle, node>>
  BY <1>3, <1>6
<1>7. QED
  BY <1>4, <1>5, <1>6, WorkerFrame DEF Next, vars

-----------------------------------------------------------------------------
(* Runs.                                                                   *)

LEMMA UnopenedFits ==
    ASSUME NodeAssumption
    PROVE  /\ IsFiniteSet(Unopened) /\ IsFiniteSet(Unopened')
           /\ Cardinality(Unopened) \in Nat /\ Cardinality(Unopened') \in Nat
<1>1. Unopened \subseteq Tasks /\ Unopened' \subseteq Tasks
  BY DEF Unopened
<1>2. QED
  BY <1>1, FS_Subset, FS_CardinalityType DEF NodeAssumption

LEMMA RunsStep ==
    ASSUME NodeAssumption, TypeOK, Whereabouts, RunsCounted, [Next]_vars
    PROVE  RunsCounted'
<1> USE DEF At, Under
<1>0. /\ opened + Cardinality(Unopened) <= ops /\ opened \in Nat /\ ops \in Nat
      /\ \A i \in Runs : home[i] # None => i <= opened
      /\ \A i \in bereft : i <= opened
  BY DEF RunsCounted, TypeOK, NodeAssumption
<1>1. ASSUME UNCHANGED <<opened, home, ops>>, Unopened' \subseteq Unopened,
             \A i \in bereft' : i <= opened
      PROVE  RunsCounted'
  <2>1. Cardinality(Unopened') <= Cardinality(Unopened)
    BY <1>1, UnopenedFits, FS_Subset
  <2>2. QED
    BY <1>0, <1>1, <2>1, UnopenedFits DEF RunsCounted
<1>2. ASSUME NEW t \in Tasks, NEW op \in Ops, NEW env \in Networks, Begin(t, op, env)
      PROVE  RunsCounted'
  <2>1. Unopened' \subseteq Unopened \cup {t}
    BY <1>2, BeginMoves DEF Began, Unopened
  <2>2. /\ IsFiniteSet(Unopened \cup {t})
        /\ Cardinality(Unopened \cup {t}) <= Cardinality(Unopened) + 1
        /\ Cardinality(Unopened \cup {t}) \in Nat
    <3>1. /\ IsFiniteSet(Unopened \cup {t})
          /\ Cardinality(Unopened \cup {t}) = IF t \in Unopened THEN Cardinality(Unopened)
                                              ELSE Cardinality(Unopened) + 1
      BY UnopenedFits, FS_AddElement
    <3>2. QED
      BY <3>1, UnopenedFits
  <2>3. Cardinality(Unopened') <= Cardinality(Unopened \cup {t})
    BY <2>1, <2>2, FS_Subset
  <2>4. ops' = ops + 1 /\ UNCHANGED <<opened, home, bereft>>
    BY <1>2 DEF Begin, runVars
  <2>5. QED
    BY <1>0, <2>2, <2>3, <2>4, UnopenedFits DEF RunsCounted
<1>3. ASSUME NEW t \in Tasks, TaskStep(t), ~OpenStorage(t) PROVE RunsCounted'
  <2> USE DEF Moved, Ended, DirRead
  <2>1. Unopened' \subseteq Unopened
    <3>1. CASE ReadConfig(t) \/ LockToStart(t) \/ Listen(t) \/ Serve(t) \/ StatusUp(t)
      BY <3>1, Moves DEF Unopened
    <3>2. CASE \/ LockToStop(t) \/ ReleaseStorage(t) \/ StatusDown(t)
               \/ ReadDataDir(t) \/ RemoveDataDir(t)
      BY <3>2, Moves DEF Unopened
    <3>3. CASE SwitchStep(t)
      BY <3>3, Moves DEF Unopened, SwitchStep
    <3>4. CASE \E w \in Workers : JoinWorker(t, w)
      BY <3>4 DEF JoinWorker, Unopened
    <3>5. QED
      BY <1>3, <3>1, <3>2, <3>3, <3>4 DEF TaskStep, StartStep, StopStep
  <2>2. UNCHANGED <<opened, home, ops>>
    BY <1>3 DEF TaskStep, StartStep, StopStep, SwitchStep, ReadConfig, LockToStart,
       Listen, Serve, StatusUp, LockToStop, JoinWorker, ReleaseStorage, StatusDown,
       UpdateBootnodes, WriteConfig, SetChainId, SetRpcUrl, ReadDataDir,
       RemoveDataDir, runVars, boundVars
  <2>3. CASE RemoveDataDir(t)
    <3>1. task[t].env # None
      BY <2>3 DEF RemoveDataDir, Whereabouts, NodeAssumption
    <3>2. \A i \in bereft' : i <= opened
      BY <1>0, <2>3, <3>1 DEF RemoveDataDir
    <3>3. QED
      BY <1>1, <2>1, <2>2, <3>2
  <2>4. CASE UNCHANGED bereft
    BY <1>0, <1>1, <2>1, <2>2, <2>4
  <2>5. QED
    BY <1>3, <2>3, <2>4 DEF TaskStep, StartStep, StopStep, SwitchStep, ReadConfig,
       LockToStart, Listen, Serve, StatusUp, LockToStop, JoinWorker, ReleaseStorage,
       StatusDown, UpdateBootnodes, WriteConfig, SetChainId, SetRpcUrl, ReadDataDir,
       boundVars
<1>4. ASSUME NEW t \in Tasks, OpenStorage(t) PROVE RunsCounted'
  <2>1. opened + 1 \in Runs
    BY <1>4, RunLeft DEF OpenStorage
  <2>2. UNCHANGED <<ops, bereft>>
    BY <1>4 DEF OpenStorage, boundVars
  <2>3. CASE Ended(t, "open") /\ UNCHANGED <<home, opened>>
    <3>1. Unopened' \subseteq Unopened
      BY <2>3 DEF Ended, Unopened
    <3>2. QED
      BY <1>0, <1>1, <2>2, <2>3, <3>1
  <2>4. CASE /\ \A u \in Tasks \ {t} : task'[u] = task[u]
             /\ task'[t].run = opened + 1 /\ opened' = opened + 1
             /\ home' = [home EXCEPT ![opened + 1] = config]
    <3>1. t \in Unopened
      BY <1>4 DEF OpenStorage, Whereabouts, Unopened
    <3>2. Unopened' \subseteq Unopened \ {t}
      BY <1>0, <2>4 DEF Unopened
    <3>3. /\ IsFiniteSet(Unopened \ {t})
          /\ Cardinality(Unopened \ {t}) = Cardinality(Unopened) - 1
      BY <3>1, UnopenedFits, FS_RemoveElement
    <3>4. Cardinality(Unopened') <= Cardinality(Unopened \ {t})
      BY <3>2, <3>3, FS_Subset
    <3>5. \A i \in Runs : home'[i] # None => i <= opened + 1
      BY <1>0, <2>4 DEF TypeOK, Runs
    <3>6. \A i \in bereft : i <= opened + 1
      BY <1>0 DEF TypeOK, Runs
    <3>7. QED
      BY <1>0, <2>2, <2>4, <3>3, <3>4, <3>5, <3>6, UnopenedFits DEF RunsCounted
  <2>5. QED
    BY <1>4, <2>1, <2>3, <2>4, OpenMoves
<1>5. CASE UNCHANGED <<task, opened, home, ops, bereft>>
  BY <1>5 DEF RunsCounted, Unopened
<1>6. QED
  BY <1>2, <1>3, <1>4, <1>5, WorkerFrame DEF Next, vars, runVars, boundVars

-----------------------------------------------------------------------------
(* What a run was opened for.                                              *)

Building == {"listen", "serve"}

\* A start holds a read guard from before it opens its storage until it is done.
LEMMA OpenedStep ==
    ASSUME NodeAssumption, TypeOK, Whereabouts, RunsCounted, MutexHeld,
           OpenedAsConfigured, [Next]_vars
    PROVE  OpenedAsConfigured'
<1> USE DEF At, Under
<1>0. \A u \in Tasks : task[u].at \in Building => home[task[u].run] = config
  BY DEF OpenedAsConfigured, Building
<1>1. ASSUME UNCHANGED <<config, home>>,
             \A u \in Tasks : task'[u].at \in Building =>
                 task[u].at \in Building /\ task'[u].run = task[u].run
      PROVE  OpenedAsConfigured'
  BY <1>0, <1>1 DEF OpenedAsConfigured, Building
<1>2. ASSUME NEW t \in Tasks, NEW op \in Ops, NEW env \in Networks, Begin(t, op, env)
      PROVE  OpenedAsConfigured'
  <2>1. task'[t].at \notin Building /\ \A u \in Tasks \ {t} : task'[u] = task[u]
    BY <1>2, BeginMoves DEF Began, Building
  <2>2. UNCHANGED <<config, home>>
    BY <1>2 DEF Begin, confVars, runVars
  <2>3. QED
    BY <1>1, <2>1, <2>2
<1>3. ASSUME NEW t \in Tasks, TaskStep(t) PROVE OpenedAsConfigured'
  <2> USE DEF Moved, Ended, DirRead, Building
  <2>1. CASE OpenStorage(t)
    <3>1. opened + 1 \in Runs /\ UNCHANGED config
      BY <2>1, RunLeft DEF OpenStorage, confVars
    <3>2. \A u \in Tasks \ {t} : task[u].at \notin Building
      BY <2>1, OneHolds DEF OpenStorage, Holding
    <3>3. CASE Ended(t, "open") /\ UNCHANGED home
      BY <1>1, <3>1, <3>2, <3>3
    <3>4. CASE /\ \A u \in Tasks \ {t} : task'[u] = task[u]
               /\ task'[t].run = opened + 1
               /\ home' = [home EXCEPT ![opened + 1] = config]
      <4>1. home'[opened + 1] = config'
        BY <3>1, <3>4 DEF TypeOK
      <4>2. QED
        BY <3>2, <3>4, <4>1 DEF OpenedAsConfigured
    <3>5. QED
      BY <2>1, <3>1, <3>3, <3>4, OpenMoves
  <2>2. CASE WriteConfig(t)
    <3>1. \A u \in Tasks : task[u].at \notin Building
      BY <2>2 DEF WriteConfig, Reading
    <3>2. Moved(t, "config", "chain")
      BY <2>2, Moves
    <3>3. QED
      BY <3>1, <3>2 DEF OpenedAsConfigured
  <2>3. CASE ReadConfig(t) \/ LockToStart(t) \/ Listen(t) \/ Serve(t) \/ StatusUp(t)
    <3>1. UNCHANGED <<config, home>>
      BY <2>3 DEF ReadConfig, LockToStart, Listen, Serve, StatusUp, confVars, runVars
    <3>2. QED
      BY <1>1, <2>3, <3>1, Moves
  <2>4. CASE \/ LockToStop(t) \/ ReleaseStorage(t) \/ StatusDown(t)
             \/ ReadDataDir(t) \/ RemoveDataDir(t)
    <3>1. UNCHANGED <<config, home>>
      BY <2>4 DEF LockToStop, ReleaseStorage, StatusDown, ReadDataDir, RemoveDataDir,
         confVars, runVars
    <3>2. QED
      BY <1>1, <2>4, <3>1, Moves
  <2>5. CASE UpdateBootnodes(t) \/ SetChainId(t) \/ SetRpcUrl(t)
    <3>1. UNCHANGED <<config, home>>
      BY <2>5 DEF UpdateBootnodes, SetChainId, SetRpcUrl, confVars, runVars
    <3>2. QED
      BY <1>1, <2>5, <3>1, Moves
  <2>6. CASE \E w \in Workers : JoinWorker(t, w)
    BY <1>1, <2>6 DEF JoinWorker, confVars
  <2>7. QED
    BY <1>3, <2>1, <2>2, <2>3, <2>4, <2>5, <2>6
       DEF TaskStep, StartStep, StopStep, SwitchStep
<1>4. CASE UNCHANGED <<task, config, home>>
  BY <1>1, <1>4
<1>5. QED
  BY <1>2, <1>3, <1>4, WorkerFrame DEF Next, vars, confVars, runVars

LEMMA HousedStep ==
    ASSUME NodeAssumption, TypeOK, Whereabouts, RunsCounted, OpenedAsConfigured,
           Housed, [Next]_vars
    PROVE  Housed'
<1> USE DEF At, Under
<1>0. node.store # 0 => node.store \in Runs
  BY DEF TypeOK, NodeAssumption, Runs
<1>1. ASSUME node'.store \in {0, node.store}, UNCHANGED home PROVE Housed'
  BY <1>1 DEF Housed
<1>2. ASSUME NEW t \in Tasks, TaskStep(t) PROVE Housed'
  <2>1. CASE OpenStorage(t)
    <3>1. opened + 1 \in Runs /\ UNCHANGED node
      BY <2>1, RunLeft DEF OpenStorage
    <3>2. UNCHANGED home \/ home' = [home EXCEPT ![opened + 1] = config]
      BY <2>1 DEF OpenStorage
    <3>3. config # None
      BY DEF TypeOK, NodeAssumption
    <3>4. QED
      BY <1>0, <3>1, <3>2, <3>3 DEF Housed, TypeOK
  <2>2. CASE Serve(t)
    <3>1. node'.store = task[t].run /\ UNCHANGED home /\ home[task[t].run] = config
      BY <2>2, NodeMoves DEF Serve, OpenedAsConfigured
    <3>2. QED
      BY <3>1 DEF Housed, TypeOK, NodeAssumption
  <2>3. CASE LockToStart(t)
    <3>1. node'.store = node.store /\ UNCHANGED home
      BY <2>3, NodeMoves DEF LockToStart, runVars, TypeOK
    <3>2. QED
      BY <1>1, <3>1
  <2>4. CASE LockToStop(t) \/ ReleaseStorage(t) \/ UpdateBootnodes(t)
    <3>1. UNCHANGED home
      BY <2>4 DEF LockToStop, ReleaseStorage, UpdateBootnodes, runVars
    <3>2. QED
      BY <1>1, <2>4, <3>1, NodeMoves
  <2>5. CASE \E w \in Workers : JoinWorker(t, w)
    BY <1>1, <2>5, NodeMoves DEF JoinWorker
  <2>6. CASE UNCHANGED <<node, home>>
    BY <1>1, <2>6
  <2>7. QED
    BY <1>2, <2>1, <2>2, <2>3, <2>4, <2>5, <2>6
       DEF TaskStep, StartStep, StopStep, SwitchStep, ReadConfig, Listen, StatusUp,
           StatusDown, WriteConfig, SetChainId, SetRpcUrl, ReadDataDir, RemoveDataDir,
           runVars
<1>3. CASE UNCHANGED <<node, home>>
  BY <1>1, <1>3
<1>4. QED
  BY <1>2, <1>3, WorkerFrame DEF Next, Begin, vars, runVars

-----------------------------------------------------------------------------
(* Workers.                                                                *)

\* A worker comes to life as one of the node's, and leaves that by ending or by
\* being given up.
LEMMA WorkersStep ==
    ASSUME NodeAssumption, TypeOK, Whereabouts, NodeByLock, WorkersAwaited, [Next]_vars
    PROVE  WorkersAwaited'
<1> USE DEF At
<1>0. /\ worker \in [Runs -> [Workers -> States]]
      /\ \A i \in Runs, w \in Workers :
            Alive(i, w) => \/ i = node.store /\ w \in node.tracked
                           \/ <<i, w>> \in gaveUp
  BY DEF TypeOK, States, WorkersAwaited
<1>1. ASSUME \A i \in Runs, w \in Workers : Alive(i, w)' => Alive(i, w),
             node'.store = node.store, node'.tracked = node.tracked, UNCHANGED gaveUp
      PROVE  WorkersAwaited'
  BY <1>0, <1>1 DEF WorkersAwaited
<1>2. ASSUME NEW t \in Tasks, TaskStep(t) PROVE WorkersAwaited'
  <2>1. CASE Serve(t)
    <3>1. /\ node'.store = task[t].run /\ node'.tracked = Workers /\ UNCHANGED gaveUp
          /\ \A i \in Runs \ {task[t].run} : worker'[i] = worker[i]
      BY <1>0, <2>1, NodeMoves DEF Serve
    <3>2. node.tracked = {}
      BY <2>1 DEF Serve, NodeByLock, Empty
    <3>3. QED
      BY <1>0, <3>1, <3>2 DEF WorkersAwaited, Alive
  <2>2. CASE LockToStop(t)
    <3>1. \A i \in Runs, w \in Workers : Alive(i, w)' => Alive(i, w)
      BY <1>0, <2>2 DEF LockToStop, Notified, Alive
    <3>2. QED
      BY <1>1, <2>2, <3>1, NodeMoves DEF LockToStop
  <2>3. ASSUME NEW w \in Workers, JoinWorker(t, w) PROVE WorkersAwaited'
    <3>1. /\ node'.store = node.store /\ node'.tracked = node.tracked \ {w}
          /\ UNCHANGED worker
          /\ gaveUp' = IF Alive(node.store, w) THEN gaveUp \cup {<<node.store, w>>}
                                               ELSE gaveUp
      BY <2>3, NodeMoves DEF JoinWorker
    <3>2. QED
      BY <1>0, <3>1 DEF WorkersAwaited, Alive
  <2>4. CASE ReleaseStorage(t)
    <3>1. node.tracked = {} /\ UNCHANGED <<worker, gaveUp>>
      BY <2>4 DEF ReleaseStorage, runVars
    <3>2. QED
      BY <1>0, <3>1 DEF WorkersAwaited, Alive
  <2>5. CASE /\ UNCHANGED <<worker, gaveUp>>
             /\ node'.store = node.store /\ node'.tracked = node.tracked
    BY <1>1, <2>5 DEF Alive
  <2>6. CASE LockToStart(t)
    <3>1. UNCHANGED <<worker, gaveUp>> /\ node'.store = node.store
          /\ node'.tracked = node.tracked
      BY <2>6, NodeMoves DEF LockToStart, runVars, TypeOK
    <3>2. QED
      BY <2>5, <3>1
  <2>7. CASE UpdateBootnodes(t)
    BY <2>5, <2>7, NodeMoves DEF UpdateBootnodes, runVars
  <2>8. CASE UNCHANGED <<worker, gaveUp, node>>
    BY <2>5, <2>8
  <2>9. QED
    BY <1>2, <2>1, <2>2, <2>3, <2>4, <2>6, <2>7, <2>8
       DEF TaskStep, StartStep, StopStep, SwitchStep, ReadConfig, OpenStorage, Listen,
           StatusUp, StatusDown, WriteConfig, SetChainId, SetRpcUrl, ReadDataDir,
           RemoveDataDir, runVars
<1>3. ASSUME NEW i \in Runs, WorkerStep(i) PROVE WorkersAwaited'
  BY <1>1, <1>3, WorkerFrame
<1>4. CASE UNCHANGED <<worker, gaveUp, node>>
  BY <1>1, <1>4 DEF Alive
<1>5. QED
  BY <1>2, <1>3, <1>4 DEF Next, Begin, vars, runVars

-----------------------------------------------------------------------------
(* One operation at a time.                                                *)

\* The one task under way has moved on, or has left everything agreed.
LEMMA AloneNext ==
    ASSUME AloneAgrees, NEW t \in Tasks, Under(t), UNCHANGED overlapped,
           \A u \in Tasks \ {t} : task'[u] = task[u],
           ~overlapped => IF Under(t)' THEN AgreesAt(t)' ELSE Agreed'
    PROVE  AloneAgrees'
<1> SUFFICES ASSUME ~overlapped
             PROVE  /\ \A u, v \in Tasks : Under(u)' /\ Under(v)' => u = v
                    /\ \A u \in Tasks : Under(u)' => AgreesAt(u)'
                    /\ Quiet' => Agreed'
  BY DEF AloneAgrees
<1>1. \A u \in Tasks \ {t} : ~Under(u)'
  BY DEF AloneAgrees, Under
<1>2. Quiet' => ~Under(t)'
  BY DEF Quiet, Under
<1>3. QED
  BY <1>1, <1>2

\* What a step keeps that touches none of what has to agree.
LEMMA AgreedKept ==
    ASSUME UNCHANGED <<config, wallet, status, home, bereft>>,
           node'.running = node.running, node'.store = node.store
    PROVE  /\ Agreed' = Agreed /\ WalletAgrees' = WalletAgrees
           /\ HomeAgrees' = HomeAgrees /\ Down' = Down
BY DEF Agreed, WalletAgrees, HomeAgrees, Down

LEMMA StartAgrees ==
    ASSUME NodeAssumption, TypeOK, Whereabouts, RunsCounted, NodeByLock, AloneAgrees,
           NEW t \in Tasks, StartStep(t)
    PROVE  AloneAgrees'
<1> USE DEF At, Moved, Ended, DirRead
<1>0. Under(t) /\ (~overlapped => AgreesAt(t))
  BY DEF StartStep, ReadConfig, LockToStart, OpenStorage, Listen, Serve, StatusUp,
     Whereabouts, AloneAgrees
<1>1. CASE ReadConfig(t)
  <2>1. Moved(t, "read", "lock") /\ UNCHANGED <<config, wallet, status, home, bereft,
                                               node, overlapped>>
    BY <1>1, Moves DEF ReadConfig, confVars, runVars, boundVars
  <2>2. AgreesAt(t) => AgreesAt(t)'
    BY <2>1, AgreedKept DEF AgreesAt
  <2>3. QED
    BY <1>0, <2>1, <2>2, AloneNext DEF Under
<1>2. CASE LockToStart(t)
  <2>1. /\ IF node.running THEN Moved(t, "lock", "status") ELSE Moved(t, "lock", "open")
        /\ UNCHANGED <<config, wallet, status, home, bereft, overlapped>>
        /\ node'.running = node.running /\ node'.store = node.store
    BY <1>2, Moves, NodeMoves DEF LockToStart, confVars, runVars, boundVars, TypeOK
  <2>2. AgreesAt(t) => AgreesAt(t)'
    BY <2>1, AgreedKept DEF AgreesAt, Agreed
  <2>3. QED
    BY <1>0, <2>1, <2>2, AloneNext DEF Under
<1>3. CASE OpenStorage(t)
  <2>0. opened + 1 \in Runs /\ UNCHANGED <<config, wallet, status, bereft, node, overlapped>>
    BY <1>3, RunLeft DEF OpenStorage, confVars, boundVars
  <2>1. CASE Ended(t, "open") /\ UNCHANGED <<home, opened>>
    <3>1. AgreesAt(t) => Agreed'
      BY <2>0, <2>1, AgreedKept DEF AgreesAt
    <3>2. QED
      BY <1>0, <2>0, <2>1, <3>1, AloneNext DEF Under
  <2>2. CASE /\ \A u \in Tasks \ {t} : task'[u] = task[u]
             /\ task[t].at = "open" /\ task'[t].at = "listen"
             /\ task'[t].op = task[t].op /\ task'[t].run = opened + 1
             /\ home' = [home EXCEPT ![opened + 1] = config]
    <3>1. ~node.running
      BY <2>2 DEF NodeByLock, Empty
    <3>2. home'[opened + 1] = config /\ opened + 1 \notin bereft
      BY <2>0, <2>2 DEF TypeOK, RunsCounted
    <3>3. Agreed => Agreed'
      BY <2>0, <3>1 DEF Agreed, WalletAgrees
    <3>4. AgreesAt(t) => AgreesAt(t)'
      BY <2>0, <2>2, <3>2, <3>3 DEF AgreesAt
    <3>5. QED
      BY <1>0, <2>0, <2>2, <3>4, AloneNext DEF Under
  <2>3. QED
    BY <1>3, <2>0, <2>1, <2>2, OpenMoves
<1>4. CASE Listen(t)
  <2>1. /\ Moved(t, "listen", "serve") \/ Ended(t, "listen")
        /\ UNCHANGED <<config, wallet, status, home, bereft, node, overlapped>>
    BY <1>4, Moves DEF Listen, confVars, boundVars
  <2>2. AgreesAt(t) => IF Under(t)' THEN AgreesAt(t)' ELSE Agreed'
    BY <1>0, <2>1, AgreedKept DEF AgreesAt, Under
  <2>3. QED
    BY <1>0, <2>1, <2>2, AloneNext DEF Under
<1>5. CASE Serve(t)
  <2>1. /\ Moved(t, "serve", "status")
        /\ UNCHANGED <<config, wallet, status, home, bereft, overlapped>>
        /\ node'.running /\ node'.store = task[t].run
    BY <1>5, Moves, NodeMoves DEF Serve, confVars, boundVars
  <2>2. AgreesAt(t) => AgreesAt(t)'
    BY <2>1 DEF AgreesAt, Agreed, WalletAgrees, HomeAgrees
  <2>3. QED
    BY <1>0, <2>1, <2>2, AloneNext DEF Under
<1>6. CASE StatusUp(t)
  <2>1. /\ Ended(t, "status") /\ status' = [running |-> TRUE, chain |-> config]
        /\ UNCHANGED <<config, wallet, home, bereft, node, overlapped>>
    BY <1>6, Moves DEF StatusUp, runVars, boundVars
  <2>2. status'.running = TRUE /\ status'.chain = config
    BY <2>1
  <2>3. AgreesAt(t) => Agreed'
    <3>1. node.running \in BOOLEAN
      BY DEF TypeOK
    <3>2. QED
      BY <2>1, <2>2, <3>1 DEF AgreesAt, Agreed, WalletAgrees, HomeAgrees
  <2>4. QED
    BY <1>0, <2>1, <2>3, AloneNext DEF Under
<1>7. QED
  BY <1>1, <1>2, <1>3, <1>4, <1>5, <1>6 DEF StartStep

LEMMA StopAgrees ==
    ASSUME NodeAssumption, TypeOK, Whereabouts, NodeByLock, AloneAgrees,
           NEW t \in Tasks, StopStep(t)
    PROVE  AloneAgrees'
<1> USE DEF At, Moved, Ended, DirRead
<1>0. Under(t) /\ (~overlapped => AgreesAt(t))
  BY DEF StopStep, LockToStop, JoinWorker, ReleaseStorage, StatusDown,
     Whereabouts, AloneAgrees
<1>1. CASE LockToStop(t) \/ ReleaseStorage(t)
  <2>1. /\ Moved(t, "stop", "join") \/ Moved(t, "join", "stopped")
        /\ UNCHANGED <<config, wallet, overlapped>> /\ ~node'.running
    BY <1>1, Moves, NodeMoves DEF LockToStop, ReleaseStorage, confVars, runVars, boundVars,
       NodeByLock
  <2>2. AgreesAt(t) => AgreesAt(t)'
    BY <2>1 DEF AgreesAt, Agreed, WalletAgrees
  <2>3. QED
    BY <1>0, <2>1, <2>2, AloneNext DEF Under
<1>2. ASSUME NEW w \in Workers, JoinWorker(t, w) PROVE AloneAgrees'
  <2>1. /\ UNCHANGED <<task, config, wallet, status, home, bereft, overlapped>>
        /\ node'.running = node.running /\ task[t].at = "join"
    BY <1>2, NodeMoves DEF JoinWorker, confVars, boundVars
  <2>2. AgreesAt(t) => AgreesAt(t)'
    BY <2>1 DEF AgreesAt, WalletAgrees
  <2>3. QED
    BY <1>0, <2>1, <2>2, AloneNext DEF Under
<1>3. CASE StatusDown(t)
  <2>1. /\ \/ Ended(t, "stopped") \/ Moved(t, "stopped", "read")
           \/ Moved(t, "stopped", "boots") \/ Moved(t, "stopped", "remove")
        /\ status' = [status EXCEPT !.running = FALSE]
        /\ UNCHANGED <<config, wallet, home, bereft, node, overlapped>>
    BY <1>3, Moves DEF StatusDown, runVars, boundVars
  <2>2. status'.running = FALSE
    BY <2>1 DEF TypeOK
  <2>3. AgreesAt(t) => WalletAgrees' /\ Down'
    BY <2>1, <2>2 DEF AgreesAt, WalletAgrees, Down
  <2>4. WalletAgrees' /\ Down' => Agreed'
    <3>1. node.running \in BOOLEAN
      BY DEF TypeOK
    <3>2. QED
      BY <2>1, <2>2, <3>1 DEF Agreed, Down
  <2>5. AgreesAt(t) => IF Under(t)' THEN AgreesAt(t)' ELSE Agreed'
    BY <2>1, <2>3, <2>4 DEF AgreesAt
  <2>6. QED
    BY <1>0, <2>1, <2>5, AloneNext DEF Under
<1>4. QED
  BY <1>1, <1>2, <1>3 DEF StopStep

\* A switch ends with chain id and RPC URL of the network it has written.
LEMMA SwitchAgrees ==
    ASSUME NodeAssumption, TypeOK, Whereabouts, AloneAgrees,
           NEW t \in Tasks, SwitchStep(t) \/ ReadDataDir(t) \/ RemoveDataDir(t)
    PROVE  AloneAgrees'
<1> USE DEF At, Moved, Ended, DirRead
<1>0. Under(t) /\ (~overlapped => AgreesAt(t))
  BY DEF SwitchStep, UpdateBootnodes, WriteConfig, SetChainId, SetRpcUrl, ReadDataDir,
     RemoveDataDir, Whereabouts, AloneAgrees
<1>1. CASE UpdateBootnodes(t)
  <2>1. /\ Moved(t, "boots", "config")
        /\ UNCHANGED <<config, wallet, status, home, bereft, overlapped>>
        /\ node'.running = node.running /\ node'.store = node.store
    BY <1>1, Moves, NodeMoves DEF UpdateBootnodes, confVars, runVars, boundVars
  <2>2. AgreesAt(t) => AgreesAt(t)'
    BY <2>1, AgreedKept DEF AgreesAt
  <2>3. QED
    BY <1>0, <2>1, <2>2, AloneNext DEF Under
<1>2. CASE WriteConfig(t)
  <2>1. /\ Moved(t, "config", "chain") /\ config' = task[t].env
        /\ UNCHANGED <<status, node, overlapped>>
    BY <1>2, Moves DEF WriteConfig, boundVars
  <2>2. AgreesAt(t) => AgreesAt(t)'
    BY <2>1 DEF AgreesAt, Down
  <2>3. QED
    BY <1>0, <2>1, <2>2, AloneNext DEF Under
<1>3. CASE SetChainId(t)
  <2>1. /\ Moved(t, "chain", "rpc") /\ wallet' = [wallet EXCEPT !.chain = task[t].env]
        /\ UNCHANGED <<config, status, node, overlapped>>
    BY <1>3, Moves DEF SetChainId, boundVars
  <2>2. wallet'.chain = task[t].env
    BY <2>1 DEF TypeOK
  <2>3. AgreesAt(t) => AgreesAt(t)'
    BY <2>1, <2>2 DEF AgreesAt, Down
  <2>4. QED
    BY <1>0, <2>1, <2>3, AloneNext DEF Under
<1>4. CASE SetRpcUrl(t)
  <2>1. /\ Moved(t, "rpc", "read") /\ wallet' = [wallet EXCEPT !.rpc = config]
        /\ UNCHANGED <<config, status, node, overlapped>>
    BY <1>4, Moves DEF SetRpcUrl, boundVars
  <2>2. AgreesAt(t) => WalletAgrees'
    <3>1. HAVE AgreesAt(t)
    <3>2. wallet.chain = config
      BY <2>1, <3>1 DEF AgreesAt
    <3>3. wallet' = [chain |-> config, rpc |-> config]
      BY <2>1, <3>2 DEF TypeOK
    <3>4. QED
      BY <2>1, <3>3 DEF WalletAgrees
  <2>3. AgreesAt(t) => Agreed'
    <3>1. node.running \in BOOLEAN /\ status.running \in BOOLEAN
      BY DEF TypeOK
    <3>2. QED
      BY <2>1, <2>2, <3>1 DEF AgreesAt, Down, Agreed
  <2>4. AgreesAt(t) => AgreesAt(t)'
    BY <2>1, <2>3 DEF AgreesAt
  <2>5. QED
    BY <1>0, <2>1, <2>4, AloneNext DEF Under
<1>5. CASE RemoveDataDir(t)
  <2>1. Ended(t, "remove") /\ UNCHANGED <<config, wallet, status, node, overlapped>>
    BY <1>5, Moves DEF RemoveDataDir, confVars
  <2>2. AgreesAt(t) => Agreed'
    <3>1. node.running \in BOOLEAN /\ status.running \in BOOLEAN
      BY DEF TypeOK
    <3>2. QED
      BY <2>1, <3>1 DEF AgreesAt, Down, Agreed, WalletAgrees
  <2>3. QED
    BY <1>0, <2>1, <2>2, AloneNext DEF Under
<1>6. CASE ReadDataDir(t)
  <2>1. /\ DirRead(t)
        /\ UNCHANGED <<config, wallet, status, home, bereft, node, overlapped>>
    BY <1>6, Moves DEF ReadDataDir, confVars, runVars, boundVars
  <2>2. AgreesAt(t) => AgreesAt(t)'
    BY <2>1, AgreedKept DEF AgreesAt
  <2>3. QED
    BY <1>0, <2>1, <2>2, AloneNext DEF Under
<1>7. QED
  BY <1>1, <1>2, <1>3, <1>4, <1>5, <1>6 DEF SwitchStep

LEMMA AloneStep ==
    ASSUME NodeAssumption, TypeOK, Whereabouts, RunsCounted, NodeByLock, AloneAgrees,
           [Next]_vars
    PROVE  AloneAgrees'
<1>1. ASSUME NEW t \in Tasks, NEW op \in Ops, NEW env \in Networks, Begin(t, op, env)
      PROVE  AloneAgrees'
  <2> SUFFICES ASSUME ~overlapped' PROVE AloneAgrees'
    BY DEF AloneAgrees
  <2>1. ~overlapped /\ Quiet
    BY <1>1 DEF Begin, Quiet
  <2>2. Agreed /\ UNCHANGED <<config, wallet, status, home, bereft, node>>
    BY <1>1, <2>1 DEF Begin, AloneAgrees, confVars, runVars
  <2>3. Agreed'
    BY <2>2, AgreedKept
  <2>4. /\ task'[t].at \in {"read", "dir", "stop"} /\ Under(t)'
        /\ \A u \in Tasks \ {t} : ~Under(u)'
    BY <1>1, <2>1, BeginMoves DEF Began, Quiet, Under, Ops
  <2>5. AgreesAt(t)'
    BY <2>3, <2>4 DEF AgreesAt, At
  <2>6. QED
    BY <2>4, <2>5 DEF AloneAgrees, Quiet, Under
<1>2. ASSUME NEW t \in Tasks, TaskStep(t) PROVE AloneAgrees'
  BY <1>2, StartAgrees, StopAgrees, SwitchAgrees DEF TaskStep
<1>3. CASE UNCHANGED <<task, node, confVars, home, boundVars>>
  <2>1. Agreed' = Agreed /\ \A t \in Tasks : AgreesAt(t)' = AgreesAt(t)
    BY <1>3, AgreedKept DEF AgreesAt, At, confVars, boundVars
  <2>2. Quiet' = Quiet /\ \A t \in Tasks : Under(t)' = Under(t)
    BY <1>3 DEF Quiet, Under
  <2>3. QED
    BY <1>3, <2>1, <2>2 DEF AloneAgrees, boundVars
<1>4. QED
  BY <1>1, <1>2, <1>3, WorkerFrame DEF Next, vars, runVars

-----------------------------------------------------------------------------
(* The invariant.                                                          *)

LEMMA InvariantInit ==
    ASSUME NodeAssumption, Init
    PROVE  IInv
<1>1. TypeOK
  <2>1. task \in [Tasks -> TaskType]
    BY IdleTyped DEF Init
  <2>2. node \in NodeType /\ opened \in 0 .. MaxOps /\ ops \in 0 .. MaxOps
    BY DEF Init, NoRun, NodeType, NodeAssumption
  <2>3. /\ wallet \in [chain : Networks, rpc : Networks]
        /\ status \in [running : BOOLEAN, chain : Networks]
    BY DEF Init, NodeAssumption
  <2>4. worker \in [Runs -> [Workers -> States]] /\ home \in [Runs -> Networks \cup {None}]
    BY DEF Init, States
  <2>5. QED
    BY <2>1, <2>2, <2>3, <2>4 DEF Init, TypeOK, TaskType, Points, NodeType, States
<1>2. \A t \in Tasks : task[t] = IdleTask
  BY DEF Init
<1>3. Whereabouts /\ MutexHeld
  BY <1>2 DEF Init, IdleTask, Whereabouts, MutexHeld, Under, At, NodeAssumption
<1>4. RunsCounted
  <2>1. Unopened = {}
    BY <1>2 DEF Unopened, Under, IdleTask
  <2>2. QED
    BY <2>1, FS_EmptySet DEF Init, RunsCounted
<1>5. NodeByLock /\ WorkersAwaited
  BY <1>2 DEF Init, NoRun, NodeByLock, Empty, Locked, WorkersAwaited, Alive, At, IdleTask
<1>6. AloneAgrees
  <2>1. Agreed
    BY DEF Init, NoRun, Agreed, WalletAgrees
  <2>2. \A t \in Tasks : ~Under(t)
    BY <1>2 DEF Under, IdleTask
  <2>3. QED
    BY <2>1, <2>2 DEF AloneAgrees
<1>7. OpenedAsConfigured /\ Housed
  BY <1>2 DEF Init, NoRun, IdleTask, OpenedAsConfigured, Housed
<1>8. QED
  BY <1>1, <1>3, <1>4, <1>5, <1>6, <1>7 DEF IInv

LEMMA InvariantStep ==
    ASSUME NodeAssumption, IInv, [Next]_vars
    PROVE  IInv'
BY TypeStep, WhereaboutsStep, MutexStep, RunsStep, NodeStep, OpenedStep, HousedStep,
   WorkersStep, AloneStep
   DEF IInv

\* The inductive invariant of the node's lifecycle holds in every reachable state.
THEOREM Invariance == Spec => []IInv
<1>1. Init => IInv
  BY InvariantInit, NodeAssumption
<1>2. IInv /\ [Next]_vars => IInv'
  BY InvariantStep, NodeAssumption
<1>3. QED
  BY <1>1, <1>2, PTL DEF Spec

\* Every variable of the node and its tasks keeps its type; in particular no
\* start opens more runs than operations were asked for.
THEOREM TypeCorrect == Spec => []TypeOK
<1>1. IInv => TypeOK
  BY DEF IInv
<1>2. QED
  BY <1>1, Invariance, PTL

\* Whoever takes the lifecycle mutex finds the node whole, however many starts,
\* stops, switches and resets overlap.
THEOREM ServedSafety == Spec => []RunningIsServed
<1>1. IInv => RunningIsServed
  BY DEF IInv, NodeByLock, Empty, RunningIsServed, Locked, Workers
<1>2. QED
  BY <1>1, Invariance, PTL

\* No worker of a stopped run lives that its stop has not given up.
THEOREM OrphanSafety == Spec => []NoOrphans
<1>1. IInv => NoOrphans
  BY DEF IInv, WorkersAwaited, NoOrphans
<1>2. QED
  BY <1>1, Invariance, PTL

\* Operations that come one at a time leave status, wallet, network and node in
\* agreement.
THEOREM AgreementSafety == Spec => []SettledAgree
<1>1. IInv => SettledAgree
  BY DEF IInv, AloneAgrees, Agreed, WalletAgrees, HomeAgrees, SettledAgree
<1>2. QED
  BY <1>1, Invariance, PTL
-----------------------------------------------------------------------------
(* Waiting.                                                                *)

\* A task that is at no lock waits for nobody.
LEMMA Unhindered ==
    ASSUME NEW t \in Tasks, Under(t),
           task[t].at \notin {"lock", "stop", "config", "read", "dir", "rpc"}
    PROVE  MayMove(t)
BY DEF MayMove, WaitsFor, At, Under

\* The holder of the mutex waits for nobody, so whoever wants it waits for one
\* at the most.
LEMMA MutexComesFree ==
    ASSUME IInv, NEW t \in Tasks, Under(t), task[t].at \in {"lock", "stop"}
    PROVE  MayMove(t) \/ \E u \in Tasks : WaitsFor(t, u) /\ MayMove(u)
<1>1. SUFFICES ASSUME NEW u \in Tasks, WaitsFor(t, u) PROVE MayMove(u)
  BY DEF MayMove, Under
<1>2. task[u].at \in Holding
  BY <1>1 DEF WaitsFor, At, IInv, MutexHeld, Holding
<1>3. Under(u)
  BY <1>2 DEF Holding, IInv, Whereabouts, At
<1>4. QED
  BY <1>2, <1>3, Unhindered DEF Holding

\* A switch waits for readers, and of those only for the mutex.
LEMMA ConfigComesFree ==
    ASSUME IInv, NEW t \in Tasks, Under(t), At(t, "config")
    PROVE  \/ MayMove(t)
           \/ \E u \in Tasks : WaitsFor(t, u) /\
                \/ MayMove(u)
                \/ \E v \in Tasks : WaitsFor(u, v) /\ MayMove(v)
<1>1. SUFFICES ASSUME NEW u \in Tasks, WaitsFor(t, u)
               PROVE  \/ MayMove(u)
                      \/ \E v \in Tasks : WaitsFor(u, v) /\ MayMove(v)
  BY DEF MayMove, Under
<1>2. Reading(u)
  BY <1>1 DEF WaitsFor, At
<1>3. Under(u)
  BY <1>2 DEF Reading, IInv, Whereabouts, At
<1>4. CASE At(u, "lock")
  BY <1>3, <1>4, MutexComesFree DEF At
<1>5. CASE ~At(u, "lock")
  BY <1>2, <1>3, <1>5, Unhindered DEF Reading, At
<1>6. QED
  BY <1>4, <1>5

\* Every wait for the lifecycle mutex or for the configuration ends at an
\* operation that can go on, for any number of them.
THEOREM WaitingSafety == Spec => []WaitsEnd
<1>1. IInv => WaitsEnd
  <2>1. SUFFICES ASSUME IInv, NEW t \in Tasks, Under(t), ~MayMove(t)
                 PROVE  \E u \in Tasks : WaitsFor(t, u) /\
                          \/ MayMove(u)
                          \/ \E v \in Tasks : WaitsFor(u, v) /\
                               \/ MayMove(v)
                               \/ \E w \in Tasks : WaitsFor(v, w) /\ MayMove(w)
    BY DEF WaitsEnd, Under
  <2>2. CASE task[t].at \in {"lock", "stop"}
    BY <2>1, <2>2, MutexComesFree
  <2>3. CASE At(t, "config")
    BY <2>1, <2>3, ConfigComesFree
  <2>4. CASE task[t].at \in {"read", "dir", "rpc"}
    <3>1. PICK u \in Tasks : WaitsFor(t, u)
      BY <2>1 DEF MayMove, Under
    <3>2. At(u, "config")
      BY <2>4, <3>1 DEF WaitsFor, At
    <3>3. Under(u)
      BY <2>1, <3>2 DEF IInv, Whereabouts, At
    <3>4. QED
      BY <2>1, <3>1, <3>2, <3>3, ConfigComesFree
  <2>5. QED
    BY <2>1, <2>2, <2>3, <2>4, Unhindered DEF At
<1>2. QED
  BY <1>1, Invariance, PTL

-----------------------------------------------------------------------------
(* The promise.                                                            *)

Phases == [i \in Runs |-> Phase(i)]

\* Only a task that opens a storage, lets one go or fails changes whose it is.
LEMMA OpeningKept ==
    ASSUME NEW i \in Runs,
           \A u \in Tasks : task'[u].at \in Building <=> task[u].at \in Building,
           \A u \in Tasks : task[u].at \in Building => task'[u].run = task[u].run
    PROVE  Opening(i)' <=> Opening(i)
BY DEF Opening, Building

LEMMA PhasesKept ==
    ASSUME \A u \in Tasks : task'[u].at \in Building <=> task[u].at \in Building,
           \A u \in Tasks : task[u].at \in Building => task'[u].run = task[u].run,
           node'.store = node.store, node'.running = node.running, UNCHANGED home
    PROVE  UNCHANGED Phases
<1>1. \A i \in Runs : Opening(i)' <=> Opening(i)
  BY OpeningKept
<1>2. \A i \in Runs : Phase(i)' = Phase(i)
  BY <1>1 DEF Phase
<1>3. QED
  BY <1>2 DEF Phases

\* Who builds holds the mutex, and the node has no storage meanwhile.
LEMMA BuildsAlone ==
    ASSUME IInv, NEW t \in Tasks, task[t].at \in Building
    PROVE  /\ node.store = 0 /\ ~node.running
           /\ task[t].run \in Runs /\ home[task[t].run] = config
           /\ \A u \in Tasks : task[u].at \in Building => u = t
           /\ \A i \in Runs : Opening(i) <=> i = task[t].run
<1>1. node.store = 0 /\ ~node.running /\ home[task[t].run] = config
  BY DEF IInv, NodeByLock, Empty, OpenedAsConfigured, Building
<1>2. task[t].run \in Runs
  BY TasksTyped DEF IInv, Whereabouts, Building, TaskType, Runs, NodeAssumption
<1>3. \A u \in Tasks : task[u].at \in Building => u = t
  BY OneHolds DEF IInv, Building, Holding
<1>4. \A i \in Runs : Opening(i) <=> i = task[t].run
  BY <1>3 DEF Opening, Building
<1>5. QED
  BY <1>1, <1>2, <1>3, <1>4

LEMMA NobodyBuilds ==
    ASSUME \A u \in Tasks : task[u].at \notin Building
    PROVE  \A i \in Runs : Phase(i) =
              IF node.store = i THEN IF node.running THEN "serving" ELSE "stopping"
              ELSE IF home[i] = None THEN "new" ELSE "ended"
BY DEF Phase, Opening, Building

LEMMA OneMoves ==
    ASSUME NEW i \in Runs, NEW p, Phase(i)' = p,
           \A j \in Runs \ {i} : Phase(j)' = Phase(j)
    PROVE  Phases' = [Phases EXCEPT ![i] = p]
<1>1. /\ Phases' = [j \in Runs |-> Phase(j)']
      /\ [Phases EXCEPT ![i] = p] = [j \in Runs |-> IF j = i THEN p ELSE Phase(j)]
  BY DEF Phases
<1>2. QED
  BY <1>1

LEMMA OpenPromised ==
    ASSUME NodeAssumption, IInv, NEW t \in Tasks, OpenStorage(t)
    PROVE  [Promise!Next]_<<config, Phases, home>>
<1>1. opened + 1 \in Runs /\ UNCHANGED <<node, config>> /\ task[t].at = "open"
  BY RunLeft DEF OpenStorage, confVars, At, IInv
<1>2. \A u \in Tasks : task[u].at \notin Building
  BY <1>1, OneHolds DEF IInv, Holding, Building
<1>3. node.store = 0 /\ \A i \in Runs : i # 0
  BY <1>1 DEF IInv, NodeByLock, Empty, Runs
<1>4. CASE Ended(t, "open") /\ UNCHANGED home
  BY <1>1, <1>2, <1>4, PhasesKept DEF Ended, Building
<1>5. CASE /\ \A u \in Tasks \ {t} : task'[u] = task[u]
           /\ task'[t].at = "listen" /\ task'[t].run = opened + 1
           /\ home' = [home EXCEPT ![opened + 1] = config]
  <2>0. PICK i \in Runs : i = opened + 1
    BY <1>1
  <2>1. \A j \in Runs : Phase(j) = IF home[j] = None THEN "new" ELSE "ended"
    BY <1>2, <1>3, NobodyBuilds
  <2>2. home[i] = None
    BY <2>0 DEF IInv, RunsCounted, TypeOK, NodeAssumption
  <2>3. \A j \in Runs : Opening(j)' <=> j = i
    BY <1>2, <1>5, <2>0 DEF Opening, Building
  <2>4. \A j \in Runs \ {i} : home'[j] = home[j]
    BY <1>5, <2>0 DEF IInv, TypeOK
  <2>5. Phase(i)' = "opening" /\ \A j \in Runs \ {i} : Phase(j)' = Phase(j)
    BY <1>1, <1>3, <2>1, <2>3, <2>4 DEF Phase
  <2>6. Phases' = [Phases EXCEPT ![i] = "opening"]
    BY <1>1, <2>5, OneMoves
  <2>7. Phases[i] = "new" /\ \A j \in Runs : Phases[j] \in {"new", "ended"}
    BY <1>1, <2>1, <2>2 DEF Phases
  <2>8. Promise!Open(i)
    BY <1>1, <1>5, <2>0, <2>6, <2>7 DEF Promise!Open, Promise!HasNode, Phases
  <2>9. QED
    BY <1>1, <2>8 DEF Promise!Next
<1>6. QED
  BY <1>1, <1>4, <1>5, OpenMoves DEF IInv

LEMMA ListenPromised ==
    ASSUME NodeAssumption, IInv, NEW t \in Tasks, Listen(t)
    PROVE  [Promise!Next]_<<config, Phases, home>>
<1>1. UNCHANGED <<node, config, home>> /\ task[t].at = "listen"
  BY DEF Listen, confVars, At
<1>2. CASE Moved(t, "listen", "serve")
  BY <1>1, <1>2, PhasesKept DEF Moved, Building
<1>3. CASE Ended(t, "listen")
  <2>0. PICK i \in Runs : i = task[t].run
    BY <1>1, BuildsAlone DEF Building
  <2>1. /\ node.store = 0 /\ home[i] = config
        /\ \A u \in Tasks : task[u].at \in Building => u = t
        /\ \A j \in Runs : Opening(j) <=> j = i
    BY <1>1, <2>0, BuildsAlone DEF Building
  <2>2. \A j \in Runs : ~Opening(j)'
    BY <1>3, <2>1 DEF Opening, Building, Ended
  <2>3. config # None /\ \A j \in Runs : j # 0
    BY DEF IInv, TypeOK, NodeAssumption, Runs
  <2>4. Phase(i) = "opening" /\ Phase(i)' = "ended"
    BY <1>1, <2>1, <2>2, <2>3 DEF Phase
  <2>5. \A j \in Runs \ {i} : Phase(j)' = Phase(j)
    BY <1>1, <2>1, <2>2, <2>3 DEF Phase
  <2>6. Phases' = [Phases EXCEPT ![i] = "ended"] /\ Phases[i] = "opening"
    BY <2>1, <2>4, <2>5, OneMoves DEF Phases
  <2>7. Promise!Abort(i)
    BY <1>1, <2>6 DEF Promise!Abort, Phases
  <2>8. QED
    BY <2>1, <2>7 DEF Promise!Next
<1>4. QED
  BY <1>2, <1>3, Moves DEF IInv

LEMMA ServePromised ==
    ASSUME NodeAssumption, IInv, NEW t \in Tasks, Serve(t)
    PROVE  Promise!Next
<1>0. PICK i \in Runs : i = task[t].run
  BY BuildsAlone DEF Serve, At, Building
<1>1. /\ UNCHANGED <<config, home>> /\ task[t].at = "serve"
      /\ Moved(t, "serve", "status") /\ node'.running /\ node'.store = task[t].run
  BY Moves, NodeMoves DEF Serve, confVars, At, IInv
<1>2. /\ node.store = 0 /\ home[i] = config /\ node'.store = i
      /\ \A u \in Tasks : task[u].at \in Building => u = t
      /\ \A j \in Runs : Opening(j) <=> j = i
  BY <1>0, <1>1, BuildsAlone DEF Building
<1>3. \A j \in Runs : ~Opening(j)'
  BY <1>1, <1>2 DEF Opening, Building, Moved
<1>4. \A j \in Runs : j # 0
  BY DEF Runs
<1>5. Phase(i) = "opening" /\ Phase(i)' = "serving"
  BY <1>1, <1>2, <1>3 DEF Phase
<1>6. \A j \in Runs \ {i} : Phase(j)' = Phase(j)
  BY <1>1, <1>2, <1>3, <1>4 DEF Phase
<1>7. Phases' = [Phases EXCEPT ![i] = "serving"] /\ Phases[i] = "opening"
  BY <1>2, <1>5, <1>6, OneMoves DEF Phases
<1>8. Promise!Serve(i)
  BY <1>1, <1>2, <1>7 DEF Promise!Serve, Phases
<1>9. QED
  BY <1>2, <1>8 DEF Promise!Next

\* A stop takes the run down before it waits for the workers, and lets go of the
\* storage after.  With no run there is nothing to see of it.
LEMMA StopPromised ==
    ASSUME NodeAssumption, IInv, NEW t \in Tasks, LockToStop(t) \/ ReleaseStorage(t)
    PROVE  [Promise!Next]_<<config, Phases, home>>
<1>1. UNCHANGED <<config, home>>
  BY DEF LockToStop, ReleaseStorage, confVars, runVars
<1>2. Moved(t, "stop", "join") \/ Moved(t, "join", "stopped")
  BY Moves DEF IInv
<1>3. /\ \A u \in Tasks : task'[u].at \in Building <=> task[u].at \in Building
      /\ \A u \in Tasks : task[u].at \in Building => task'[u].run = task[u].run
  BY <1>2 DEF Moved, Building
<1>4. \A u \in Tasks : task[u].at \notin Building
  BY <1>2, OneHolds DEF LockToStop, ReleaseStorage, IInv, MutexHeld, Moved, At, Building,
     Holding, NodeAssumption
<1>5. /\ \A u \in Tasks : task'[u].at \notin Building
      /\ \A j \in Runs : ~Opening(j) /\ ~Opening(j)'
  BY <1>3, <1>4 DEF Opening, Building
<1>6. CASE node.store = 0
  <2>1. node'.store = node.store /\ node'.running = node.running
    BY <1>6, NodeMoves DEF LockToStop, IInv, NodeByLock, Locked, Empty, TypeOK
  <2>2. QED
    BY <1>1, <1>3, <2>1, PhasesKept
<1>7. CASE LockToStop(t) /\ node.store # 0
  <2>0. PICK i \in Runs : i = node.store
    BY <1>7 DEF IInv, TypeOK, Runs, NodeAssumption
  <2>1. node.running /\ node'.store = i /\ ~node'.running
    BY <1>7, <2>0, NodeMoves DEF LockToStop, IInv, NodeByLock, Locked, Empty, TypeOK, Runs,
       NodeAssumption
  <2>2. Phase(i) = "serving" /\ Phase(i)' = "stopping"
    BY <1>5, <2>0, <2>1 DEF Phase
  <2>3. \A j \in Runs \ {i} : Phase(j)' = Phase(j)
    BY <1>1, <1>5, <2>0, <2>1 DEF Phase
  <2>4. Phases' = [Phases EXCEPT ![i] = "stopping"] /\ Phases[i] = "serving"
    BY <2>1, <2>2, <2>3, OneMoves DEF Phases
  <2>5. Promise!Stop(i)
    BY <1>1, <2>4 DEF Promise!Stop, Phases
  <2>6. QED
    BY <2>1, <2>5 DEF Promise!Next
<1>8. CASE ReleaseStorage(t) /\ node.store # 0
  <2>0. PICK i \in Runs : i = node.store
    BY <1>8 DEF IInv, TypeOK, Runs, NodeAssumption
  <2>1. /\ ~node.running /\ node'.store = 0 /\ home[i] # None
        /\ \A j \in Runs : j # 0
    BY <1>8, <2>0, NodeMoves DEF ReleaseStorage, IInv, NodeByLock, Housed, TypeOK, Runs,
       NodeAssumption
  <2>2. Phase(i) = "stopping" /\ Phase(i)' = "ended"
    BY <1>1, <1>5, <2>0, <2>1 DEF Phase
  <2>3. \A j \in Runs \ {i} : Phase(j)' = Phase(j)
    BY <1>1, <1>5, <2>0, <2>1 DEF Phase
  <2>4. Phases' = [Phases EXCEPT ![i] = "ended"] /\ Phases[i] = "stopping"
    BY <2>1, <2>2, <2>3, OneMoves DEF Phases
  <2>5. Promise!Release(i)
    BY <1>1, <2>4 DEF Promise!Release, Phases
  <2>6. QED
    BY <2>1, <2>5 DEF Promise!Next
<1>9. QED
  BY <1>6, <1>7, <1>8

\* Every other step is out of the promise's sight, but for a write of the
\* configuration.
LEMMA PromiseStep ==
    ASSUME NodeAssumption, IInv, [Next]_vars
    PROVE  [Promise!Next]_<<config, Phases, home>>
<1> DEFINE Unseen == UNCHANGED <<config, Phases, home>>
<1>0. TypeOK /\ Whereabouts
  BY DEF IInv
<1>1. ASSUME NEW t \in Tasks, NEW op \in Ops, NEW env \in Networks, Begin(t, op, env)
      PROVE  Unseen
  <2>1. /\ task[t].at \notin Building /\ task'[t].at \notin Building
        /\ \A u \in Tasks \ {t} : task'[u] = task[u]
    BY <1>0, <1>1, BeginMoves DEF Began, Building, Whereabouts, Under, At
  <2>2. UNCHANGED <<node, config, home>>
    BY <1>1 DEF Begin, confVars, runVars
  <2>3. QED
    BY <2>1, <2>2, PhasesKept
<1>2. ASSUME NEW t \in Tasks, TaskStep(t) PROVE Promise!Next \/ Unseen
  <2> USE DEF Moved, Ended, DirRead, Building
  <2>1. CASE OpenStorage(t) \/ Listen(t) \/ Serve(t) \/ LockToStop(t) \/ ReleaseStorage(t)
    BY <2>1, OpenPromised, ListenPromised, ServePromised, StopPromised
  <2>2. CASE ReadConfig(t) \/ LockToStart(t) \/ StatusUp(t) \/ StatusDown(t)
    <3>1. UNCHANGED <<config, home>> /\ node'.store = node.store
          /\ node'.running = node.running
      BY <1>0, <2>2, NodeMoves DEF ReadConfig, LockToStart, StatusUp, StatusDown,
         confVars, runVars, TypeOK
    <3>2. QED
      BY <1>0, <2>2, <3>1, Moves, PhasesKept
  <2>3. CASE \/ UpdateBootnodes(t) \/ SetChainId(t) \/ SetRpcUrl(t)
             \/ ReadDataDir(t) \/ RemoveDataDir(t)
    <3>1. UNCHANGED <<config, home>> /\ node'.store = node.store
          /\ node'.running = node.running
      BY <1>0, <2>3, NodeMoves DEF UpdateBootnodes, SetChainId, SetRpcUrl, ReadDataDir,
         RemoveDataDir, confVars, runVars
    <3>2. QED
      BY <1>0, <2>3, <3>1, Moves, PhasesKept
  <2>4. CASE WriteConfig(t)
    <3>1. config' \in Networks
      BY <1>0, <2>4 DEF WriteConfig, Whereabouts, At
    <3>2. UNCHANGED <<node, home>>
      BY <2>4 DEF WriteConfig, runVars
    <3>3. UNCHANGED Phases
      BY <1>0, <2>4, <3>2, Moves, PhasesKept
    <3>4. QED
      BY <3>1, <3>2, <3>3 DEF Promise!Next, Promise!Configure, Phases
  <2>5. ASSUME NEW w \in Workers, JoinWorker(t, w) PROVE Unseen
    <3>1. UNCHANGED <<task, config, home>> /\ node'.store = node.store
          /\ node'.running = node.running
      BY <1>0, <2>5, NodeMoves DEF JoinWorker, confVars
    <3>2. QED
      BY <3>1, PhasesKept
  <2>6. QED
    BY <1>2, <2>1, <2>2, <2>3, <2>4, <2>5 DEF TaskStep, StartStep, StopStep, SwitchStep
<1>3. CASE UNCHANGED <<task, node, config, home>>
  BY <1>3, PhasesKept
<1>4. QED
  BY <1>0, <1>1, <1>2, <1>3, WorkerFrame DEF Next, vars, confVars, runVars

LEMMA PromiseInit ==
    ASSUME NodeAssumption, Init
    PROVE  Promise!Init
<1>1. \A t \in Tasks : task[t].at \notin Building
  BY DEF Init, IdleTask, Building
<1>2. \A i \in Runs : Phase(i) = "new"
  BY <1>1, NobodyBuilds DEF Init, NoRun, Runs
<1>3. QED
  BY <1>2 DEF Init, Promise!Init

\* However operations overlap, the node's runs come one at a time, are served once
\* and in the network that is configured when they begin to be.
THEOREM TurnRefinement == Spec => ServesInTurn
<1>1. Init => Promise!Init
  BY PromiseInit, NodeAssumption
<1>2. IInv /\ [Next]_vars => [Promise!Next]_<<config, Phases, home>>
  BY PromiseStep, NodeAssumption
<1>3. QED
  BY <1>1, <1>2, Invariance, PTL DEF Spec, ServesInTurn, Promise!Spec, Phases
================================================================================
