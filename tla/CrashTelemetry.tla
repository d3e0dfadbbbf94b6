--------------------------- MODULE CrashTelemetry ---------------------------
(***************************************************************************)
(* crash_telemetry over several launches of the application: the session   *)
(* marker, the breadcrumbs that main and the background tasks leave in it, *)
(* the panic hook, and the scan that turns a stale marker into a record.   *)
(*                                                                         *)
(* A file is truncated and then written, and the process may be killed     *)
(* between any two steps.  What the marker and a record say is whose they  *)
(* are and whether they can be read: the breadcrumb's words, the times and *)
(* the redaction are left out.  One instance runs at a time: the code has  *)
(* no lock that keeps a second one from taking the first's marker.         *)
(***************************************************************************)
EXTENDS Naturals

CONSTANTS
    Tasks,       \* background tasks that leave breadcrumbs
    None,        \* no marker
    MaxLaunches, \* bound: launches of the application
    MaxCrumbs    \* bound: breadcrumbs the tasks leave in a session

VARIABLES
    session,     \* the current launch
    phase,       \* where main is
    marker,      \* session.marker
    live,        \* MARKER_PATH is set
    crumb,       \* crumb[t]: where a set_last_state is
    crumbs,      \* breadcrumbs the tasks may still leave
    records,     \* the files crash-*.json
    \* history
    fate,        \* how each session ended
    spoiled      \* sessions whose marker a clean exit could not clear

vars == <<session, phase, marker, live, crumb, crumbs, records, fate,
          spoiled>>

Sessions == 1..MaxLaunches
Threads == Tasks \cup {"main"}
\* The marker of a session, `whole` once it is written.
MarkerType == [session : Sessions, whole : BOOLEAN]
Torn == [session |-> session, whole |-> FALSE]
Whole == [session |-> session, whole |-> TRUE]

TypeOK ==
    /\ session \in Sessions
    /\ phase \in {"scan", "convert", "remove", "init", "inited", "boot",
                  "loop", "running", "exiting", "down"}
    /\ marker \in MarkerType \cup {None}
    /\ live \in BOOLEAN
    /\ crumb \in [Threads -> {"idle", "set", "torn"}]
    /\ crumbs \in 0..MaxCrumbs
    /\ records \subseteq [kind : {"panic", "unclean-exit"},
                          session : Sessions, whole : BOOLEAN]
    /\ fate \in [Sessions -> {"none", "alive", "clean", "dead", "unmarked"}]
    /\ spoiled \subseteq Sessions

\* No launch before the first: nothing is on disk.
Init ==
    /\ session = 1 /\ phase = "scan" /\ marker = None /\ live = FALSE
    /\ crumb = [t \in Threads |-> "idle"] /\ crumbs = MaxCrumbs
    /\ records = {} /\ spoiled = {}
    /\ fate = [s \in Sessions |-> IF s = 1 THEN "alive" ELSE "none"]

Record(kind, of) == [kind |-> kind, session |-> of.session,
                     whole |-> of.whole]

\* A step of main, with what it does to the marker and the records.
Main(from, to) == phase = from /\ phase' = to
Keep == UNCHANGED <<session, crumb, crumbs, fate>>

-----------------------------------------------------------------------------
\* Mutant: a marker that cannot be parsed is taken for none.
ScanParsing ==
    /\ Main("scan", IF marker # None /\ marker.whole THEN "convert" ELSE "init")
    /\ UNCHANGED <<marker, live, records, spoiled>> /\ Keep

\* startup_scan: is there a marker?
Scan ==
    /\ Main("scan", IF marker = None THEN "init" ELSE "convert")
    /\ UNCHANGED <<marker, live, records, spoiled>> /\ Keep

\* The marker becomes an unclean-exit record, or the record cannot be
\* written; then the marker goes either way.
Convert ==
    /\ Main("convert", "remove")
    /\ \/ /\ records' = records \cup {Record("unclean-exit", marker)}
          /\ UNCHANGED spoiled
       \/ spoiled' = spoiled \cup {marker.session} /\ UNCHANGED records
    /\ UNCHANGED <<marker, live>> /\ Keep

RemoveStale ==
    /\ Main("remove", "init")
    /\ marker' \in {None, marker}
    /\ UNCHANGED <<live, records, spoiled>> /\ Keep

\* init_session_marker: the file is truncated and written; when that fails
\* MARKER_PATH stays unset, and an emptied file is nobody's to remove.
InitMarker ==
    /\ Main("init", "inited")
    /\ \/ /\ marker' = Torn
          /\ UNCHANGED <<live, spoiled>>
       \/ /\ marker' \in {marker, Torn}
          /\ live' = FALSE /\ spoiled' = spoiled \cup {session}
    /\ UNCHANGED records /\ Keep

SetMarkerPath ==
    /\ Main("inited", "boot")
    /\ IF session \in spoiled THEN UNCHANGED <<marker, live>>
       ELSE /\ marker' = Whole
            /\ live' = TRUE
    /\ UNCHANGED <<records, spoiled>> /\ Keep

-----------------------------------------------------------------------------
\* set_last_state: first LAST_STATE, then the marker, each under its lock.
SetState(t) == /\ crumb[t] = "idle"
               /\ crumb' = [crumb EXCEPT ![t] = IF live THEN "set" ELSE "idle"]

TruncateMarker(t) ==
    /\ crumb[t] = "set" /\ \A u \in Threads : crumb[u] # "torn"
    /\ \/ /\ crumb' = [crumb EXCEPT ![t] = "torn"] /\ marker' = Torn
          /\ spoiled' = IF phase = "exiting" THEN spoiled \cup {session}
                        ELSE spoiled
       \/ crumb' = [crumb EXCEPT ![t] = "idle"] /\ UNCHANGED <<marker, spoiled>>
    /\ UNCHANGED <<session, phase, live, crumbs, records, fate>>

WriteMarker(t) ==
    /\ crumb[t] = "torn"
    /\ crumb' = [crumb EXCEPT ![t] = "idle"]
    /\ marker' \in {Torn, Whole}
    /\ UNCHANGED <<session, phase, live, crumbs, records, fate, spoiled>>

MainCrumb(from, to) ==
    /\ Main(from, to) /\ SetState("main")
    /\ UNCHANGED <<session, marker, live, crumbs, records, fate, spoiled>>

Boot == MainCrumb("boot", "loop")
EventLoop == MainCrumb("loop", "running")

\* A task that starts or stops the node, until the runtime has ended.
NodeCrumb(t) ==
    /\ phase \in {"running", "exiting"} /\ crumbs > 0
    /\ SetState(t)
    /\ crumbs' = crumbs - 1
    /\ UNCHANGED <<session, phase, marker, live, records, fate, spoiled>>

Crumb(t) == TruncateMarker(t) \/ WriteMarker(t)

-----------------------------------------------------------------------------
\* The hook writes a record of a task's panic; the process goes on.
TaskPanics ==
    /\ phase = "running"
    /\ records' = records \cup {Record("panic", Whole)}
    /\ UNCHANGED <<session, phase, marker, live, crumb, crumbs, fate, spoiled>>

Ends(how) ==
    /\ phase' = "down" /\ live' = FALSE
    /\ crumb' = [t \in Threads |-> "idle"]
    /\ fate' = [fate EXCEPT ![session] = how]
    /\ UNCHANGED <<session, marker, crumbs>>

Dead == IF marker # None /\ marker.session = session THEN "dead"
        ELSE "unmarked"

\* The process is killed or aborts, or its event loop fails; or main panics,
\* and the hook writes a record before.
Dies ==
    /\ phase \notin {"exiting", "down"}
    /\ records' \in {records, records \cup {Record("panic", Whole)}}
    /\ Ends(Dead) /\ UNCHANGED spoiled

\* mark_clean_exit, on the way out of main.
MarkCleanExit ==
    /\ Main("running", "exiting")
    /\ crumb["main"] = "idle" /\ \A u \in Threads : crumb[u] # "torn"
    /\ IF live
       THEN \/ marker' = None /\ UNCHANGED spoiled
            \/ spoiled' = spoiled \cup {session} /\ UNCHANGED marker
       ELSE UNCHANGED <<marker, spoiled>>
    /\ UNCHANGED <<live, records>> /\ Keep

Exits ==
    /\ phase = "exiting"
    /\ Ends("clean") /\ UNCHANGED <<records, spoiled>>

Relaunch ==
    /\ phase = "down" /\ session < MaxLaunches
    /\ session' = session + 1 /\ phase' = "scan" /\ crumbs' = MaxCrumbs
    /\ fate' = [fate EXCEPT ![session + 1] = "alive"]
    /\ UNCHANGED <<marker, live, crumb, records, spoiled>>

Next ==
    \/ Scan \/ Convert \/ RemoveStale \/ InitMarker \/ SetMarkerPath
    \/ Boot \/ EventLoop \/ MarkCleanExit \/ Exits \/ Relaunch
    \/ \E t \in Tasks : NodeCrumb(t)
    \/ \E t \in Threads : Crumb(t)
    \/ TaskPanics \/ Dies

Spec == Init /\ [][Next]_vars

-----------------------------------------------------------------------------
(***************************************************************************)
(* Once a launch has scanned, the records tell the earlier sessions'       *)
(* deaths: one that died with its marker on disk has an unclean-exit       *)
(* record, and one that exited cleanly has none.  Spoiled sessions are the *)
(* exceptions: a record, a marker or its removal failed, or a task left a  *)
(* breadcrumb after the clean exit.                                        *)
(***************************************************************************)
DeathsReported ==
    LET reported(s) == \E r \in records :
                           r.kind = "unclean-exit" /\ r.session = s
        scanned(s) == s < session /\ phase \notin {"scan", "convert", "remove"}
    IN  \A s \in Sessions \ spoiled :
            /\ fate[s] = "dead" /\ scanned(s) =>
                   reported(s) \/ phase = "down"
            /\ fate[s] = "clean" => ~reported(s)
-----------------------------------------------------------------------------
(* Why DeathsReported holds.                                               *)

Reported(s) == \E r \in records : r.kind = "unclean-exit" /\ r.session = s
Marked(s) == marker # None /\ marker.session = s

\* Breadcrumbs are left only while the marker's path is set, and a launch that
\* could not set it is spoiled.
Crumbs ==
    /\ phase \notin {"loop", "running", "exiting"} =>
           \A t \in Threads : crumb[t] = "idle"
    /\ live => phase \in {"boot", "loop", "running", "exiting"}
    /\ phase \in {"boot", "loop", "running"} => live \/ session \in spoiled
    /\ phase = "exiting" /\ (\E t \in Threads : crumb[t] = "torn") =>
           session \in spoiled

\* The launch is not over; the marker is of a launch there was, and a report
\* is of an earlier one.
Earlier ==
    /\ phase # "down" => fate[session] = "alive"
    /\ marker # None => marker.session <= session
    /\ phase \in {"scan", "convert"} => ~Marked(session)
    /\ \A r \in records : r.kind = "unclean-exit" => r.session < session
    /\ phase = "convert" => marker # None

\* A death not reported yet still has its marker.
Told ==
    \A s \in Sessions \ spoiled :
        /\ fate[s] = "dead" =>
               \/ Reported(s)
               \/ Marked(s) /\ phase \in {"scan", "convert", "down"}
        /\ fate[s] = "clean" => ~Reported(s) /\ ~Marked(s)
        /\ s = session /\ phase = "exiting" => ~Marked(s)

IInv == TypeOK /\ Crumbs /\ Earlier /\ Told
=============================================================================
