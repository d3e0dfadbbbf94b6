----------------------------- MODULE DaemonPanel -----------------------------
(***************************************************************************)
(* The storage panel and the health card, which show the IPFS daemon: it   *)
(* is started, stopped, pinned to and looked at by tasks that end in a     *)
(* closure for the UI thread, and it starts and stops on its own account.  *)
(* A call to the daemon has a time limit, and one that is not answered in  *)
(* time is taken for a daemon that is not there.                           *)
(***************************************************************************)
EXTENDS Naturals, Sequences

CONSTANTS
    Tasks,       \* tasks of the runtime that may be in flight together
    MaxCalls,    \* bound: operations begun
    MaxPins      \* bound: pins

VARIABLES
    running, pins,        \* the daemon, and what it has pinned
    online, pinCount,     \* storage-daemon-online, storage-pin-count
    health,               \* health-ipfs-status
    call,                 \* call[t]: an operation and where it is
    posted,               \* closures for the UI thread, oldest first
    calls,
    \* history
    known,                \* views that had an answer since the daemon changed
    crossed               \* two operations, or one and a change, overlapped

daemonVars == <<running, pins>>
viewVars == <<online, pinCount, health>>
vars == <<daemonVars, viewVars, call, posted, calls, known, crossed>>

Ops == {"start", "stop", "pin", "refresh", "detect", "health-start", "health"}
Idle == [op |-> "none", at |-> "idle"]
ClosureType == [show : {"online", "offline", "pins", "ok", "down"},
                pins : 0..MaxPins, sure : BOOLEAN]

TypeOK ==
    /\ running \in BOOLEAN /\ pins \in 0..MaxPins
    /\ online \in BOOLEAN /\ pinCount \in 0..MaxPins
    /\ health \in {"unknown", "ok", "down"}
    /\ call \in [Tasks -> {Idle} \cup
                    [op : Ops, at : {"begun", "absent", "looked"}]]
    /\ posted \in Seq(ClosureType)
    /\ calls \in 0..MaxCalls
    /\ known \subseteq {"panel", "health"} /\ crossed \in BOOLEAN

\* At startup a task detects a daemon that is already there.
Init ==
    /\ running \in BOOLEAN /\ pins \in 0..1
    /\ online = FALSE /\ pinCount = 0 /\ health = "unknown"
    /\ \E t \in Tasks :
           call = [u \in Tasks |-> IF u = t
                      THEN [op |-> "detect", at |-> "begun"]
                      ELSE Idle]
    /\ posted = <<>> /\ calls = 0 /\ known = {} /\ crossed = FALSE

Due == posted # <<>> \/ \E t \in Tasks : call[t] # Idle
At(t, ops, at) == call[t].op \in ops /\ call[t].at = at
Ends(t) == call' = [call EXCEPT ![t] = Idle]
Goes(t, at) == call' = [call EXCEPT ![t].at = at]
Post(show, n, sure) ==
    posted' = Append(posted, [show |-> show, pins |-> n, sure |-> sure])

-----------------------------------------------------------------------------
\* The buttons of the storage panel and of the health card.
Begin(t, op) ==
    /\ call[t] = Idle /\ op # "detect" /\ calls < MaxCalls
    /\ calls' = calls + 1 /\ crossed' = (crossed \/ Due)
    /\ call' = [call EXCEPT ![t] = [op |-> op, at |-> "begun"]]
    /\ UNCHANGED <<daemonVars, viewVars, posted, known>>

\* /api/v0/id: an answer in time, or none; in a closure `sure' says that what
\* it shows was so.
Answers(t) ==
    /\ At(t, {"start", "refresh", "detect"}, "begun") /\ running
    /\ Goes(t, "looked")
    /\ UNCHANGED <<daemonVars, viewVars, posted, calls, known, crossed>>

NoAnswer(t) ==
    /\ call[t].at = "begun"
    /\ CASE call[t].op = "start" -> Goes(t, "absent") /\ UNCHANGED posted
         [] call[t].op = "refresh" -> Ends(t) /\ Post("offline", 0, ~running)
         [] call[t].op = "detect" -> Ends(t) /\ UNCHANGED posted
         [] OTHER -> FALSE
    /\ UNCHANGED <<daemonVars, viewVars, calls, known, crossed>>

\* IpfsDaemon::initialize; when it fails the panel is left as it is.
Starts(t) ==
    /\ At(t, {"start"}, "absent")
    /\ \/ running' = TRUE /\ Goes(t, "looked")
       \/ running' = running /\ Ends(t)
    /\ known' = IF running' = running THEN known ELSE {}
    /\ UNCHANGED <<pins, viewVars, posted, calls, crossed>>

\* ipfs_fetch_stats: calls that are not answered count nothing.
FetchStats(t) ==
    /\ At(t, {"start", "refresh", "detect", "pin"}, "looked") /\ Ends(t)
    /\ LET show == IF call[t].op = "pin" THEN "pins" ELSE "online"
       IN  \/ running /\ Post(show, pins, TRUE)
           \/ Post(show, 0, FALSE)
    /\ UNCHANGED <<daemonVars, viewVars, calls, known, crossed>>

\* Whether or not the daemon stops, the panel says it did.
StopDaemon(t) ==
    /\ At(t, {"stop"}, "begun") /\ Ends(t)
    /\ running' \in {FALSE, running}
    /\ Post("offline", 0, ~running')
    /\ known' = IF running' = running THEN known ELSE {}
    /\ UNCHANGED <<pins, viewVars, calls, crossed>>

\* Mutant: the counts are fetched before the pin is added.
PinAfterCount(t) ==
    /\ At(t, {"pin"}, "begun") /\ running /\ pins < MaxPins
    /\ pins' = pins + 1 /\ Ends(t) /\ Post("pins", pins, TRUE)
    /\ UNCHANGED <<running, viewVars, calls, known, crossed>>

\* A pin that fails, or takes longer than thirty seconds, is only logged.
PinCid(t) ==
    /\ At(t, {"pin"}, "begun")
    /\ \/ /\ running /\ pins < MaxPins /\ pins' = pins + 1
          /\ \/ Goes(t, "looked") /\ UNCHANGED known
             \/ Ends(t) /\ known' = known \ {"panel"}
       \/ UNCHANGED <<pins, known>> /\ Ends(t)
    /\ UNCHANGED <<running, viewVars, posted, calls, crossed>>

\* on_health_start_ipfs spawns `ipfs daemon' unless there is an answer, and
\* goes on to the probes after two seconds, as the other buttons do at once.
HealthStart(t) ==
    /\ At(t, {"health-start"}, "begun") /\ Goes(t, "looked")
    /\ running' \in {running, TRUE}
    /\ known' = IF running' = running THEN known ELSE {}
    /\ UNCHANGED <<pins, viewVars, posted, calls, crossed>>

\* run_health_probes: the daemon's, of three; one that misses the limit of
\* two seconds is down.
Probe(t) ==
    /\ At(t, {"health"}, "begun") \/ At(t, {"health-start"}, "looked")
    /\ Ends(t)
    /\ (running /\ Post("ok", 0, TRUE)) \/ Post("down", 0, ~running)
    /\ UNCHANGED <<daemonVars, viewVars, calls, known, crossed>>

\* Outside the application the daemon is started, stopped or pinned to.
Outside ==
    /\ \/ running' = ~running /\ UNCHANGED pins
       \/ running /\ pins < MaxPins /\ pins' = pins + 1 /\ UNCHANGED running
    /\ known' = {} /\ crossed' = (crossed \/ Due)
    /\ UNCHANGED <<viewVars, call, posted, calls>>

-----------------------------------------------------------------------------
Shows(what) ==
    /\ posted # <<>> /\ Head(posted).show \in what /\ posted' = Tail(posted)
    /\ UNCHANGED <<daemonVars, call, calls, crossed>>

Learns(view) ==
    known' = IF Head(posted).sure THEN known \cup {view} ELSE known \ {view}

ShowPanel ==
    /\ Shows({"online", "offline"}) /\ Learns("panel")
    /\ online' = (Head(posted).show = "online")
    /\ pinCount' = Head(posted).pins
    /\ UNCHANGED health

ShowPins ==
    /\ Shows({"pins"}) /\ pinCount' = Head(posted).pins
    /\ known' = IF Head(posted).sure THEN known ELSE known \ {"panel"}
    /\ UNCHANGED <<online, health>>

ShowHealth ==
    /\ Shows({"ok", "down"}) /\ Learns("health")
    /\ health' = Head(posted).show /\ UNCHANGED <<online, pinCount>>

Next ==
    \/ \E t \in Tasks :
           \/ \E op \in Ops : Begin(t, op)
           \/ Answers(t) \/ NoAnswer(t) \/ Starts(t) \/ FetchStats(t)
           \/ StopDaemon(t) \/ PinCid(t) \/ HealthStart(t) \/ Probe(t)
    \/ Outside \/ ShowPanel \/ ShowPins \/ ShowHealth

Spec == Init /\ [][Next]_vars

-----------------------------------------------------------------------------
(***************************************************************************)
(* Operations one after the other, and nothing changed outside: a view     *)
(* that has had an answer about the daemon shows it as it is, online with  *)
(* its pins or offline with none, whatever was started, stopped or pinned  *)
(* since from this window, by either view.                                 *)
(***************************************************************************)
DaemonShown ==
    ~Due /\ ~crossed =>
        /\ "panel" \in known => /\ online = running
                                /\ pinCount = IF running THEN pins ELSE 0
        /\ "health" \in known => health = IF running THEN "ok" ELSE "down"
-----------------------------------------------------------------------------
(* Why DaemonShown holds.                                                  *)

\* A closure that is sure shows the daemon as it is.
IsSo(c) ==
    CASE c.show = "online" -> running /\ c.pins = pins
      [] c.show = "offline" -> ~running /\ c.pins = 0
      [] c.show = "pins" -> running /\ c.pins = pins
      [] c.show = "ok" -> running
      [] c.show = "down" -> ~running

\* A pin was added, and its count is on its way to the panel.
Pinning ==
    \/ \E t \in Tasks : At(t, {"pin"}, "looked")
    \/ \E i \in DOMAIN posted : posted[i].show = "pins"

InTurn ==
    /\ \A t, u \in Tasks : call[t] # Idle /\ call[u] # Idle => t = u
    /\ Len(posted) <= 1
    /\ \A t \in Tasks : call[t] # Idle => posted = <<>>
    /\ \A i \in DOMAIN posted : posted[i].sure => IsSo(posted[i])
    /\ "panel" \in known =>
           /\ online = running
           /\ ~Pinning => pinCount = IF running THEN pins ELSE 0
    /\ "health" \in known => health = IF running THEN "ok" ELSE "down"

IInv == TypeOK /\ (~crossed => InTurn)
=============================================================================
