----------------------------- MODULE NodeLifecycle -----------------------------
(***************************************************************************)
(* The embedded node: start, stop, restart, environment switch and factory *)
(* reset as concurrent tasks over one backend, and the workers that a      *)
(* start leaves running.                                                   *)
(*                                                                         *)
(* A run is one storage opened by one start.  Storage and transport are    *)
(* external: opening a directory that this process holds open fails.  What *)
(* a start does to the files of its directory is module NodeStorage.       *)
(***************************************************************************)
EXTENDS Naturals, FiniteSets

CONSTANTS
    Tasks,      \* handlers spawned on the runtime that may overlap
    Networks,   \* environments; each has a data directory of its own
    Builtin,    \* the network whose bootnodes EmbeddedNodeBackend::new lists
    None,
    MaxOps      \* bound: operations the user asks for, so runs as well

ASSUME NodeAssumption ==
    /\ IsFiniteSet(Tasks) /\ Builtin \in Networks
    /\ None \notin Tasks /\ None \notin Networks
    /\ MaxOps \in Nat

VARIABLES
    task,      \* task[t]: the operation, where it is, what it has read
    config,    \* AppConfig.network, with chain_id, data_dir and bootnodes
    lifecycle, \* the task holding the lifecycle mutex
    node,      \* EmbeddedNodeBackend
    worker,    \* worker[i]: the message handler and discovery loop of run i
    heads,     \* runs whose advertised-head task lives
    home,      \* home[i]: the directory run i opened
    opened,    \* runs so far
    wallet,    \* the network of the wallet's chain id, and of its RPC URL
    status,    \* NodeService.status: running, and the network of chain_id
    ops,
    \* history
    gaveUp,    \* workers that a stop did not wait for any longer
    bereft,    \* runs whose directory was removed while they held it
    overlapped \* an operation began while another was under way

confVars == <<config, wallet, status>>
runVars == <<worker, heads, home, opened, gaveUp>>
boundVars == <<ops, overlapped, bereft>>
vars == <<task, lifecycle, node, confVars, runVars, boundVars>>

Runs == 1 .. MaxOps
Workers == {"handler", "discovery"}
Ops == {"start", "stop", "restart", "switch", "reset"}

IdleTask == [op |-> "none", at |-> "idle", env |-> None, run |-> 0]
NoRun == [running |-> FALSE, shutdown |-> FALSE, store |-> 0, pm |-> 0,
          tracked |-> {}, boot |-> Builtin]

TypeOK ==
    /\ task \in [Tasks ->
         [op : Ops \cup {"none"},
          at : {"idle", "read", "lock", "open", "listen", "serve", "status",
                "dir", "stop", "join", "stopped", "boots", "config", "chain",
                "rpc", "remove"},
          env : Networks \cup {None}, run : 0 .. MaxOps]]
    /\ config \in Networks
    /\ lifecycle \in Tasks \cup {None}
    /\ node \in [running : BOOLEAN, shutdown : BOOLEAN, store : 0 .. MaxOps,
                 pm : 0 .. MaxOps, tracked : SUBSET Workers, boot : Networks]
    /\ worker \in [Runs -> [Workers -> {"none", "waiting", "busy", "gone"}]]
    /\ heads \subseteq Runs /\ home \in [Runs -> Networks \cup {None}]
    /\ opened \in 0 .. MaxOps
    /\ wallet \in [chain : Networks, rpc : Networks]
    /\ status \in [running : BOOLEAN, chain : Networks]
    /\ overlapped \in BOOLEAN
    /\ ops \in 0 .. MaxOps /\ gaveUp \subseteq Runs \X Workers
    /\ bereft \subseteq Runs

Init ==
    /\ task = [t \in Tasks |-> IdleTask]
    /\ config \in Networks
    /\ lifecycle = None /\ node = NoRun
    /\ worker = [i \in Runs |-> [w \in Workers |-> "none"]]
    /\ heads = {} /\ home = [i \in Runs |-> None] /\ opened = 0
    /\ wallet = [chain |-> config, rpc |-> config]
    /\ status = [running |-> FALSE, chain |-> Builtin]
    /\ ops = 0 /\ gaveUp = {} /\ bereft = {} /\ overlapped = FALSE

-----------------------------------------------------------------------------
(* Tasks.                                                                  *)

At(t, point) == task[t].at = point
GoTo(t, point) == task' = [task EXCEPT ![t].at = point]
Finish(t) == task' = [task EXCEPT ![t] = IdleTask]

\* Mutant: start keeps a copy of the configuration and lets go of it.
ReadingCopied(t) == At(t, "status")

\* Mutant: the switch asks for the write lock with a read guard in its hand.
ReadingUpgrade(t) ==
    task[t].at \in {"lock", "open", "listen", "serve", "status", "config"}

\* Between config.read() and the end of start the configuration is held.
Reading(t) ==
    task[t].at \in {"lock", "open", "listen", "serve", "status"}

\* The local `storage' of a start that has not published it yet.
Opening(i) ==
    \E t \in Tasks : task[t].run = i /\ task[t].at \in {"listen", "serve"}
Alive(i, w) == worker[i][w] \in {"waiting", "busy"}
Holds(i) ==
    node.store = i \/ i \in heads \/ Alive(i, "handler") \/ Opening(i)

\* A callback of the window spawns its future.
Begin(t, op, env) ==
    /\ task[t].op = "none" /\ ops < MaxOps
    /\ task' = [task EXCEPT ![t] =
         [IdleTask EXCEPT !.op = op,
                          !.at = CASE op = "start" -> "read"
                                   [] op = "reset" -> "dir"
                                   [] OTHER -> "stop",
                          !.env = IF op = "switch" THEN env ELSE None]]
    /\ ops' = ops + 1
    /\ overlapped' = (overlapped \/ \E u \in Tasks : task[u].op # "none")
    /\ UNCHANGED <<lifecycle, node, confVars, runVars, bereft>>

(* start *)

ReadConfig(t) ==
    /\ At(t, "read")
    /\ GoTo(t, "lock")
    /\ UNCHANGED <<lifecycle, node, confVars, runVars, boundVars>>

LockToStart(t) ==
    /\ At(t, "lock") /\ lifecycle = None
    /\ IF node.running
       THEN GoTo(t, "status") /\ UNCHANGED <<lifecycle, node>>
       ELSE /\ GoTo(t, "open") /\ lifecycle' = t
            /\ node' = [node EXCEPT !.shutdown = FALSE]
    /\ UNCHANGED <<confVars, runVars, boundVars>>

\* start_node returns an error: the mutex and the config guard are dropped.
FailStart(t) ==
    /\ lifecycle' = None /\ Finish(t)

OpenStorage(t) ==
    /\ At(t, "open")
    /\ \/ /\ ~\E i \in Runs : home[i] = config /\ Holds(i)
          /\ opened' = opened + 1
          /\ home' = [home EXCEPT ![opened + 1] = config]
          /\ task' = [task EXCEPT ![t].at = "listen", ![t].run = opened + 1]
          /\ UNCHANGED lifecycle
       \/ FailStart(t) /\ UNCHANGED <<home, opened>>
    /\ UNCHANGED <<node, confVars, worker, heads, gaveUp, boundVars>>

\* Mutant: start_node lets go of the mutex before it has published its references.
ListenUnlocked(t) ==
    /\ At(t, "listen")
    /\ heads' = heads \cup {task[t].run}
    /\ lifecycle' = None
    /\ \/ GoTo(t, "serve") \/ Finish(t)
    /\ UNCHANGED <<node, confVars, worker, home, opened, gaveUp, boundVars>>

\* The advertised-head task is spawned before the listener is tried.
Listen(t) ==
    /\ At(t, "listen")
    /\ heads' = heads \cup {task[t].run}
    /\ \/ GoTo(t, "serve") /\ UNCHANGED lifecycle
       \/ FailStart(t)
    /\ UNCHANGED <<node, confVars, worker, home, opened, gaveUp, boundVars>>

\* Mutant: the handle of the message handler is not kept.
ServeUntracked(t) ==
    LET i == task[t].run IN
    /\ At(t, "serve")
    /\ worker' = [worker EXCEPT ![i] = [w \in Workers |-> "waiting"]]
    /\ node' = [node EXCEPT !.running = TRUE, !.store = i, !.pm = i,
                            !.tracked = {"discovery"}]
    /\ lifecycle' = None
    /\ GoTo(t, "status")
    /\ UNCHANGED <<confVars, heads, home, opened, gaveUp, boundVars>>

\* Bootnodes, then the handler and the discovery loop, then the references.
Serve(t) ==
    LET i == task[t].run IN
    /\ At(t, "serve")
    /\ worker' = [worker EXCEPT ![i] = [w \in Workers |-> "waiting"]]
    /\ node' = [node EXCEPT !.running = TRUE, !.store = i, !.pm = i,
                            !.tracked = Workers]
    /\ lifecycle' = None
    /\ GoTo(t, "status")
    /\ UNCHANGED <<confVars, heads, home, opened, gaveUp, boundVars>>

StatusUp(t) ==
    /\ At(t, "status")
    /\ status' = [running |-> TRUE, chain |-> config]
    /\ Finish(t)
    /\ UNCHANGED <<lifecycle, node, config, wallet, runVars, boundVars>>

(* stop *)

\* notify_waiters reaches the workers that wait, of every run.
Notified ==
    [i \in Runs |-> [w \in Workers |->
        IF worker[i][w] = "waiting" THEN "gone" ELSE worker[i][w]]]

LockToStop(t) ==
    /\ At(t, "stop") /\ lifecycle = None
    /\ lifecycle' = t
    /\ node' = [node EXCEPT !.shutdown = TRUE, !.running = FALSE, !.pm = 0]
    /\ worker' = Notified
    /\ GoTo(t, "join")
    /\ UNCHANGED <<confVars, heads, home, opened, gaveUp, boundVars>>

\* The handles are awaited in the order they were pushed, five seconds each.
JoinWorker(t, w) ==
    /\ At(t, "join") /\ w \in node.tracked
    /\ (w = "discovery") => "handler" \notin node.tracked
    /\ gaveUp' = IF Alive(node.store, w) THEN gaveUp \cup {<<node.store, w>>}
                                         ELSE gaveUp
    /\ node' = [node EXCEPT !.tracked = @ \ {w}]
    /\ UNCHANGED <<task, lifecycle, confVars, worker, heads, home, opened,
                   boundVars>>

\* Mutant: a stop writes the configuration before it lets go of the mutex.
ReleaseStorageSaving(t) ==
    /\ At(t, "join") /\ node.tracked = {}
    /\ ~\E u \in Tasks : Reading(u)
    /\ node' = [node EXCEPT !.store = 0, !.shutdown = FALSE]
    /\ lifecycle' = None
    /\ GoTo(t, "stopped")
    /\ UNCHANGED <<confVars, runVars, boundVars>>

ReleaseStorage(t) ==
    /\ At(t, "join") /\ node.tracked = {}
    /\ node' = [node EXCEPT !.store = 0, !.shutdown = FALSE]
    /\ lifecycle' = None
    /\ GoTo(t, "stopped")
    /\ UNCHANGED <<confVars, runVars, boundVars>>

\* Mutant: a restart goes on as a switch does.
StatusDownSwitching(t) ==
    /\ At(t, "stopped")
    /\ status' = [status EXCEPT !.running = FALSE]
    /\ IF task[t].op = "stop" THEN Finish(t) ELSE GoTo(t, "boots")
    /\ UNCHANGED <<lifecycle, node, config, wallet, runVars, boundVars>>

StatusDown(t) ==
    /\ At(t, "stopped")
    /\ status' = [status EXCEPT !.running = FALSE]
    /\ CASE task[t].op = "stop" -> Finish(t)
         [] task[t].op = "restart" -> GoTo(t, "read")
         [] task[t].op = "switch" -> GoTo(t, "boots")
         [] task[t].op = "reset" -> GoTo(t, "remove")
    /\ UNCHANGED <<lifecycle, node, config, wallet, runVars, boundVars>>

(* The environment switch, after its stop *)

UpdateBootnodes(t) ==
    /\ At(t, "boots")
    /\ node' = [node EXCEPT !.boot = task[t].env]
    /\ GoTo(t, "config")
    /\ UNCHANGED <<lifecycle, confVars, runVars, boundVars>>

\* config.write() waits for the starts that hold a read guard.
WriteConfig(t) ==
    /\ At(t, "config") /\ ~\E u \in Tasks : Reading(u)
    /\ config' = task[t].env
    /\ GoTo(t, "chain")
    /\ UNCHANGED <<lifecycle, node, wallet, status, runVars, boundVars>>

\* Mutant: the switch moves the chain id and leaves the RPC URL.
SetChainIdOnly(t) ==
    /\ At(t, "chain")
    /\ wallet' = [wallet EXCEPT !.chain = task[t].env]
    /\ GoTo(t, "read")
    /\ UNCHANGED <<lifecycle, node, config, status, runVars, boundVars>>

SetChainId(t) ==
    /\ At(t, "chain")
    /\ wallet' = [wallet EXCEPT !.chain = task[t].env]
    /\ GoTo(t, "rpc")
    /\ UNCHANGED <<lifecycle, node, config, status, runVars, boundVars>>

SetRpcUrl(t) ==
    /\ At(t, "rpc")
    /\ wallet' = [wallet EXCEPT !.rpc = config]
    /\ GoTo(t, "read")
    /\ UNCHANGED <<lifecycle, node, config, status, runVars, boundVars>>

(* Factory reset: which directory, and, after its stop, its removal *)

ReadDataDir(t) ==
    /\ At(t, "dir")
    /\ task' = [task EXCEPT ![t].at = "stop", ![t].env = config]
    /\ UNCHANGED <<lifecycle, node, confVars, runVars, boundVars>>

RemoveDataDir(t) ==
    /\ At(t, "remove")
    /\ bereft' = bereft \cup {i \in Runs : home[i] = task[t].env /\ Holds(i)}
    /\ Finish(t)
    /\ UNCHANGED <<lifecycle, node, confVars, runVars, ops, overlapped>>

-----------------------------------------------------------------------------
(* The workers.                                                            *)

\* The sender of a run's channel lives in its peer manager, which the node
\* and the run's discovery loop hold.
ChannelOpen(i) == node.pm = i \/ Alive(i, "discovery") \/ Opening(i)

\* A message or a tick: the flag is looked at first.
WorkerWakes(i, w) ==
    /\ worker[i][w] = "waiting"
    /\ (w = "handler") => ChannelOpen(i)
    /\ worker' = [worker EXCEPT ![i][w] =
                    IF node.shutdown THEN "gone" ELSE "busy"]
    /\ UNCHANGED <<task, lifecycle, node, confVars, heads, home, opened,
                   gaveUp, boundVars>>

\* put_block and the next recv, or the dials and the next tick.
WorkerWaits(i, w) ==
    /\ worker[i][w] = "busy"
    /\ worker' = [worker EXCEPT ![i][w] = "waiting"]
    /\ UNCHANGED <<task, lifecycle, node, confVars, heads, home, opened,
                   gaveUp, boundVars>>

HandlerEnds(i) ==
    /\ worker[i].handler = "waiting" /\ ~ChannelOpen(i)
    /\ worker' = [worker EXCEPT ![i].handler = "gone"]
    /\ UNCHANGED <<task, lifecycle, node, confVars, heads, home, opened,
                   gaveUp, boundVars>>

-----------------------------------------------------------------------------
StartStep(t) ==
    \/ ReadConfig(t) \/ LockToStart(t) \/ OpenStorage(t) \/ Listen(t)
    \/ Serve(t) \/ StatusUp(t)
StopStep(t) ==
    \/ LockToStop(t) \/ (\E w \in Workers : JoinWorker(t, w))
    \/ ReleaseStorage(t) \/ StatusDown(t)
SwitchStep(t) ==
    UpdateBootnodes(t) \/ WriteConfig(t) \/ SetChainId(t) \/ SetRpcUrl(t)
TaskStep(t) ==
    \/ StartStep(t) \/ StopStep(t) \/ SwitchStep(t)
    \/ ReadDataDir(t) \/ RemoveDataDir(t)
WorkerStep(i) ==
    \/ \E w \in Workers : WorkerWakes(i, w) \/ WorkerWaits(i, w)
    \/ HandlerEnds(i)

Next ==
    \/ \E t \in Tasks : \/ \E op \in Ops, env \in Networks : Begin(t, op, env)
                        \/ TaskStep(t)
    \/ \E i \in Runs : WorkerStep(i)

Spec == Init /\ [][Next]_vars

-----------------------------------------------------------------------------
(* Properties.                                                             *)

Quiet == \A t \in Tasks : task[t].op = "none"
Locked == lifecycle # None

\* Whoever takes the lifecycle mutex finds the node whole: it runs with the
\* storage and the peer manager of one run, or it has neither.  The interleaved
\* starts, stops and failed starts of node_service.rs must keep this, or a
\* start skips over a dead node and a stop releases nothing.
RunningIsServed ==
    ~Locked => /\ node.running <=> node.store # 0
               /\ node.pm = node.store /\ ~node.shutdown
               /\ node.running <=> node.tracked # {}

\* stop_node returns with its run's workers gone, unless it says that one did
\* not exit within the five seconds: no block is put into the storage of a
\* stopped node behind its back.
NoOrphans ==
    ~Locked => \A i \in Runs, w \in Workers :
        Alive(i, w) => i = node.store \/ <<i, w>> \in gaveUp

\* When operations come one at a time, the status tells whether the node runs,
\* and network, wallet and running node agree after each of them.
SettledAgree ==
    (Quiet /\ ~overlapped) =>
        /\ status.running = node.running
        /\ wallet = [chain |-> config, rpc |-> config]
        /\ node.running => /\ home[node.store] = config /\ status.chain = config
                           /\ node.store \notin bereft

\* Who keeps a task waiting: the holder of the mutex, a reader of the
\* configuration, and a writer in the queue, whom tokio's RwLock puts before the
\* readers that come after it.
WaitsFor(t, u) ==
    \/ task[t].at \in {"lock", "stop"} /\ lifecycle = u
    \/ At(t, "config") /\ Reading(u)
    \/ task[t].at \in {"read", "dir", "rpc"} /\ At(u, "config")
MayMove(t) == task[t].op # "none" /\ ~\E u \in Tasks : WaitsFor(t, u)

\* Whoever waits, waits for an operation under way that waits for nobody, or that
\* waits for one, three waits at the most: a switch in the queue for the
\* configuration stands before new starts and behind a start that holds it while
\* it queues for the mutex, whose holder goes on.  A holder that forgot to let go,
\* or a ring of the two locks, would break it.
WaitsEnd ==
    \A t \in Tasks : task[t].op # "none" =>
      \/ MayMove(t)
      \/ \E u \in Tasks : WaitsFor(t, u) /\
           \/ MayMove(u)
           \/ \E v \in Tasks : WaitsFor(u, v) /\
                \/ MayMove(v)
                \/ \E w \in Tasks : WaitsFor(v, w) /\ MayMove(w)

\* Nor is anything else waited for: whoever is not kept waiting by another task
\* can take a step, and as long as an operation is under way one of them can.
NoneStuck ==
    /\ \A t \in Tasks : MayMove(t) => ENABLED TaskStep(t)
    /\ ~Quiet => \E t \in Tasks : ENABLED TaskStep(t)

\* What stop_node logs: "storage released, ready for restart".
StorageReleased ==
    (gaveUp = {} /\ ~Locked /\ ~node.running /\ \E t \in Tasks : At(t, "stopped"))
        => \A i \in Runs : ~Holds(i)

\* Where a run stands, for module NodePromise: its storage is in the hands of the
\* start that opened it, then of the node, then of nobody.
Phase(i) ==
    CASE Opening(i) -> "opening"
      [] ~Opening(i) /\ node.store = i ->
            IF node.running THEN "serving" ELSE "stopping"
      [] OTHER -> IF home[i] = None THEN "new" ELSE "ended"
Promise == INSTANCE NodePromise WITH
    network <- config,
    phase <- [i \in Runs |-> Phase(i)]

\* However starts, stops, restarts and switches overlap, the runs of the node
\* follow NodePromise: one at a time, each served once and only in the network
\* that the configuration names then.
ServesInTurn == Promise!Spec

-----------------------------------------------------------------------------
(* Why the properties hold.                                                *)

Under(t) == task[t].op # "none"

\* Where a task can be tells what it was asked to do, and what it carries.
Whereabouts ==
    \A t \in Tasks :
        /\ Under(t) <=> ~At(t, "idle")
        /\ task[t].at \in {"stop", "join", "stopped"} => task[t].op # "start"
        /\ task[t].at \in {"boots", "config", "chain", "rpc"} => task[t].op = "switch"
        /\ task[t].at \in {"dir", "remove"} => task[t].op = "reset"
        /\ task[t].op = "switch" => task[t].env \in Networks
        /\ task[t].op = "reset" /\ ~At(t, "dir") => task[t].env \in Networks
        /\ task[t].at \in {"listen", "serve"} => task[t].run # 0
        /\ task[t].run # 0 => task[t].at \in {"listen", "serve", "status"}

\* The mutex is held from taking it to publishing, failing or releasing.
MutexHeld ==
    \A t \in Tasks :
        lifecycle = t <=> task[t].at \in {"open", "listen", "serve", "join"}

\* An operation opens one storage at most.
Unopened == {t \in Tasks : Under(t) /\ task[t].run = 0}
RunsCounted ==
    /\ opened + Cardinality(Unopened) <= ops
    /\ \A i \in Runs : home[i] # None => i <= opened
    /\ \A i \in bereft : i <= opened

\* What the node is while a start, or a stop, or nobody has the mutex.
Empty == ~node.running /\ node.store = 0 /\ node.pm = 0 /\ node.tracked = {}
NodeByLock ==
    /\ node.tracked # {} => node.store # 0
    /\ ~Locked => /\ ~node.shutdown
                  /\ \/ Empty
                     \/ /\ node.running /\ node.store # 0
                        /\ node.pm = node.store /\ node.tracked = Workers
    /\ \A t \in Tasks :
          /\ task[t].at \in {"open", "listen", "serve"} => Empty /\ ~node.shutdown
          /\ At(t, "join") => ~node.running /\ node.pm = 0 /\ node.shutdown

\* A start holds the configuration it opened its storage under.
OpenedAsConfigured ==
    \A t \in Tasks :
        task[t].at \in {"listen", "serve"} => home[task[t].run] = config
Housed == node.store # 0 => home[node.store] # None

\* A worker lives that its run's stop is still to await, or has given up.
WorkersAwaited ==
    \A i \in Runs, w \in Workers :
        Alive(i, w) => \/ i = node.store /\ w \in node.tracked
                       \/ <<i, w>> \in gaveUp

WalletAgrees == wallet = [chain |-> config, rpc |-> config]
HomeAgrees == home[node.store] = config /\ node.store \notin bereft
Down == ~node.running /\ ~status.running
Agreed ==
    /\ status.running = node.running /\ WalletAgrees
    /\ node.running => HomeAgrees /\ status.chain = config

\* How far the one operation under way has brought them together.
AgreesAt(t) ==
    /\ task[t].at \in {"read", "lock", "open", "listen", "serve", "dir", "stop"}
         => Agreed
    /\ task[t].at \in {"listen", "serve"} =>
          home[task[t].run] = config /\ task[t].run \notin bereft
    /\ At(t, "status") => WalletAgrees /\ node.running /\ HomeAgrees
    /\ task[t].at \in {"join", "stopped"} => WalletAgrees /\ ~node.running
    /\ task[t].at \in {"boots", "config", "remove"} => WalletAgrees /\ Down
    /\ At(t, "chain") => config = task[t].env /\ Down
    /\ At(t, "rpc") => config = task[t].env /\ wallet.chain = config /\ Down

AloneAgrees ==
    ~overlapped =>
        /\ \A t, u \in Tasks : Under(t) /\ Under(u) => t = u
        /\ \A t \in Tasks : Under(t) => AgreesAt(t)
        /\ Quiet => Agreed

IInv ==
    /\ TypeOK
    /\ Whereabouts
    /\ MutexHeld
    /\ RunsCounted
    /\ NodeByLock
    /\ OpenedAsConfigured /\ Housed
    /\ WorkersAwaited
    /\ AloneAgrees
===============================================================================
