----------------------------- MODULE EventTrail -----------------------------
(***************************************************************************)
(* EventBus, a bounded tokio broadcast channel, and the session trail that *)
(* records from it.  The channel keeps the newest Capacity events; a       *)
(* receiver whose next event was overwritten gets an error, and the        *)
(* recorder's loop (`while let Ok(..) = rx.recv().await`) ends at the first.*)
(* The recorder subscribes when its task is first polled; there is a task  *)
(* only if AppCore::new is called inside a tokio runtime, which a test     *)
(* does and the application's main does not.                               *)
(***************************************************************************)
EXTENDS Naturals, Sequences

CONSTANTS
    Capacity,    \* 256 in the code: the events the channel keeps
    MaxEvents    \* bound: the events published

VARIABLES
    bus,         \* every event published so far, oldest first
    recorder,    \* TrailService's subscriber task
    first,       \* the position of the first event after the subscription
    next,        \* the position of the event the recorder receives next
    trail        \* TrailRecorder.events

vars == <<bus, recorder, first, next, trail>>

\* An event is one record_app_event keeps, one it ignores, or a chat message
\* whose 2,048th byte is inside a character: cutting it there panics.
Events == {"kept", "ignored", "uncut"}

TypeOK ==
    /\ bus \in Seq(Events) /\ Len(bus) <= MaxEvents
    /\ recorder \in {"absent", "spawned", "waiting", "ended"}
    /\ first \in 1..(MaxEvents + 1) /\ next \in 1..(MaxEvents + 1)
    /\ trail \in Seq({"kept"} \X (1..MaxEvents))

\* AppCore::new outside a runtime (the application), and inside one.
Init ==
    /\ bus = <<>> /\ first = 1 /\ next = 1 /\ trail = <<>>
    /\ recorder \in {"absent", "spawned"}

Publish(e) ==
    /\ Len(bus) < MaxEvents
    /\ bus' = Append(bus, e)
    /\ UNCHANGED <<recorder, first, next, trail>>

\* The spawned task is polled, and subscribes: what was sent before is gone.
Subscribe ==
    /\ recorder = "spawned"
    /\ recorder' = "waiting"
    /\ first' = Len(bus) + 1 /\ next' = Len(bus) + 1
    /\ UNCHANGED <<bus, trail>>

Overwritten == Len(bus) - next >= Capacity

\* record_app_event: a kept event is appended, an ignored one passed over.
Record ==
    /\ recorder = "waiting" /\ next <= Len(bus) /\ ~Overwritten
    /\ bus[next] # "uncut"
    /\ next' = next + 1
    /\ trail' = IF bus[next] = "kept" THEN Append(trail, <<"kept", next>>)
                ELSE trail
    /\ UNCHANGED <<bus, recorder, first>>

Panics ==
    /\ recorder = "waiting" /\ next <= Len(bus) /\ ~Overwritten
    /\ bus[next] = "uncut"
    /\ recorder' = "ended"
    /\ UNCHANGED <<bus, first, next, trail>>

\* Mutant: the loop goes on at the oldest event the channel still has.
LagsOn ==
    /\ recorder = "waiting" /\ next <= Len(bus) /\ Overwritten
    /\ next' = Len(bus) - Capacity + 1
    /\ UNCHANGED <<bus, recorder, first, trail>>

\* The recorder finds it has lagged.
Lags ==
    /\ recorder = "waiting" /\ next <= Len(bus) /\ Overwritten
    /\ recorder' = "ended"
    /\ UNCHANGED <<bus, first, next, trail>>

Next ==
    \/ \E e \in Events : Publish(e)
    \/ Subscribe \/ Record \/ Panics \/ Lags

Spec == Init /\ [][Next]_vars

-----------------------------------------------------------------------------
(***************************************************************************)
(* The trail has no holes: it holds the kept events of one unbroken        *)
(* stretch of what was published, from the subscription on, each once and  *)
(* in order.  Whoever reads it may find its beginning and its end missing, *)
(* never its middle.                                                       *)
(***************************************************************************)
Unbroken ==
    LET seen == {i \in first..(next - 1) : bus[i] = "kept"}
        at(i) == trail[i][2]
    IN  /\ {at(i) : i \in 1..Len(trail)} = seen
        /\ \A i, j \in 1..Len(trail) : i < j => at(i) < at(j)

-----------------------------------------------------------------------------
(* Why Unbroken holds.                                                     *)

\* The recorder is past what the trail holds, and not past the next event.
Behind ==
    /\ first <= next /\ next <= Len(bus) + 1
    /\ recorder \in {"absent", "spawned"} => trail = <<>> /\ next = first
    /\ \A i \in 1..Len(trail) : trail[i][2] < next

IInv == TypeOK /\ Behind /\ Unbroken
=============================================================================
