------------------------------ MODULE ChainPanel ------------------------------
(***************************************************************************)
(* What the Operations tab and the compute tab show of the chain: whether  *)
(* block production is paused, and whether the member's address is a       *)
(* registered provider.  Every button and every opening of a tab is a task *)
(* that asks the node once or twice and ends in a closure for the UI       *)
(* thread; an answer that does not come is shown as a "no", or not at all. *)
(***************************************************************************)
EXTENDS Naturals, Sequences

CONSTANTS
    Tasks,       \* tasks of the runtime that may be in flight together
    MaxCalls     \* bound: operations begun

VARIABLES
    paused, registered,    \* the chain
    pausedShown,           \* ops-chain-paused
    registeredShown,       \* compute-is-registered
    connected,             \* compute-listing-connection-ok
    call,                  \* call[t]: an operation and where it is
    posted,                \* closures for the UI thread, oldest first
    calls,
    \* history
    known,                 \* views that had an answer since the chain changed
    crossed                \* two operations, or one and a change, overlapped

chainVars == <<paused, registered>>
viewVars == <<pausedShown, registeredShown, connected>>
vars == <<chainVars, viewVars, call, posted, calls, known, crossed>>

Ops == {"operations", "pause", "resume", "compute", "listing"}
Views == {"paused", "registered", "connected"}
Idle == [op |-> "none", at |-> "idle"]

TypeOK ==
    /\ {paused, registered} \subseteq BOOLEAN
    /\ {pausedShown, registeredShown, connected} \subseteq BOOLEAN
    /\ call \in [Tasks -> {Idle} \cup [op : Ops, at : {"begun", "provider"}]]
    /\ posted \in Seq([show : Views \cup {"listing"}, yes : BOOLEAN,
                       sure : BOOLEAN])
    /\ calls \in 0..MaxCalls /\ known \subseteq Views /\ crossed \in BOOLEAN

Init ==
    /\ paused \in BOOLEAN /\ registered \in BOOLEAN
    /\ pausedShown = FALSE /\ registeredShown = FALSE /\ connected = FALSE
    /\ call = [t \in Tasks |-> Idle] /\ posted = <<>> /\ calls = 0
    /\ known = {} /\ crossed = FALSE

Due == posted # <<>> \/ \E t \in Tasks : call[t] # Idle
At(t, op, at) == call[t] = [op |-> op, at |-> at]
Ends(t) == call' = [call EXCEPT ![t] = Idle]

\* In a closure `sure' says that the node answered, and did as it was told.
Post(show, yes, sure) ==
    posted' = Append(posted, [show |-> show, yes |-> yes, sure |-> sure])

-----------------------------------------------------------------------------
\* A tab is opened or a button of it pressed.
Begin(t, op) ==
    /\ call[t] = Idle /\ calls < MaxCalls
    /\ calls' = calls + 1 /\ crossed' = (crossed \/ Due)
    /\ call' = [call EXCEPT ![t] = [op |-> op, at |-> "begun"]]
    /\ UNCHANGED <<chainVars, viewVars, posted, known>>

\* citrate_emergencyStatus: without an answer the chain is not paused.
EmergencyStatus(t) ==
    /\ At(t, "operations", "begun") /\ Ends(t)
    /\ Post("paused", paused, TRUE) \/ Post("paused", FALSE, FALSE)
    /\ UNCHANGED <<chainVars, viewVars, calls, known, crossed>>

\* citrate_emergencyPause and citrate_emergencyResume: any HTTP answer, a
\* refusal too, is taken for success; a lost one shows nothing.
Emergency(t) ==
    /\ call[t].op \in {"pause", "resume"} /\ Ends(t)
    /\ LET wanted == call[t].op = "pause"
       IN  /\ paused' \in {wanted, paused}
           /\ \/ Post("paused", wanted, paused' = wanted) /\ UNCHANGED known
              \/ /\ UNCHANGED posted
                 /\ known' = IF paused' = paused THEN known
                             ELSE known \ {"paused"}
    /\ UNCHANGED <<registered, viewVars, calls, crossed>>

\* getProvider for the compute tab: no answer, no address of the marketplace
\* and no account are all "not registered".
GetProvider(t) ==
    /\ At(t, "compute", "begun") /\ Ends(t)
    /\ Post("registered", registered, TRUE)
           \/ Post("registered", FALSE, FALSE)
    /\ UNCHANGED <<chainVars, viewVars, calls, known, crossed>>

\* Mutant: the answer of claimable alone makes the listing.
ListingUnregistered(t) ==
    /\ At(t, "listing", "begun")
    /\ \/ call' = [call EXCEPT ![t].at = "provider"] /\ UNCHANGED posted
       \/ Ends(t) /\ UNCHANGED posted
       \/ Ends(t) /\ Post("connected", FALSE, FALSE)
    /\ UNCHANGED <<chainVars, viewVars, calls, known, crossed>>

\* on_compute_refresh_listing: without a marketplace not connected, without an
\* account nothing; else getProvider, whose answer has to be a registered
\* provider, and then claimable and the activity.
Listing(t) ==
    /\ At(t, "listing", "begun")
    /\ \/ /\ registered /\ call' = [call EXCEPT ![t].at = "provider"]
          /\ UNCHANGED posted
       \/ Ends(t) /\ UNCHANGED posted
       \/ Ends(t) /\ Post("connected", FALSE, FALSE)
       \/ ~registered /\ Ends(t) /\ Post("connected", FALSE, TRUE)
    /\ UNCHANGED <<chainVars, viewVars, calls, known, crossed>>

Claimable(t) ==
    /\ At(t, "listing", "provider") /\ Ends(t)
    /\ Post("listing", TRUE, TRUE) \/ Post("connected", FALSE, FALSE)
    /\ UNCHANGED <<chainVars, viewVars, calls, known, crossed>>

\* Another operator pauses or resumes the chain; a registration of the member
\* is included, or withdrawn.
Outside ==
    /\ \/ paused' = ~paused /\ UNCHANGED registered
       \/ registered' = ~registered /\ UNCHANGED paused
    /\ known' = {} /\ crossed' = (crossed \/ Due)
    /\ UNCHANGED <<viewVars, call, posted, calls>>

-----------------------------------------------------------------------------
\* The UI thread runs the oldest closure.
Shows(show, views) ==
    /\ posted # <<>> /\ Head(posted).show = show /\ posted' = Tail(posted)
    /\ known' = IF Head(posted).sure THEN known \cup views ELSE known \ views
    /\ UNCHANGED <<chainVars, call, calls, crossed>>

ShowPaused ==
    /\ Shows("paused", {"paused"}) /\ pausedShown' = Head(posted).yes
    /\ UNCHANGED <<registeredShown, connected>>

ShowRegistered ==
    /\ Shows("registered", {"registered"})
    /\ registeredShown' = Head(posted).yes
    /\ UNCHANGED <<pausedShown, connected>>

\* A refresh that finds no registered provider leaves the rest of the card.
ShowNoListing ==
    /\ Shows("connected", {"connected"}) /\ connected' = FALSE
    /\ UNCHANGED <<pausedShown, registeredShown>>

ShowListing ==
    /\ Shows("listing", {"registered", "connected"})
    /\ registeredShown' = TRUE /\ connected' = TRUE
    /\ UNCHANGED pausedShown

Next ==
    \/ \E t \in Tasks :
           \/ \E op \in Ops : Begin(t, op)
           \/ EmergencyStatus(t) \/ Emergency(t) \/ GetProvider(t)
           \/ Listing(t) \/ Claimable(t)
    \/ Outside
    \/ ShowPaused \/ ShowRegistered \/ ShowNoListing \/ ShowListing

Spec == Init /\ [][Next]_vars

-----------------------------------------------------------------------------
(***************************************************************************)
(* Operations one after the other: the three views agree with the chain,   *)
(* each from the first true answer it had, until the chain is changed from *)
(* elsewhere or an answer is a refusal or lost; and the views of one question, *)
(* registered and connected, agree with each other.                        *)
(***************************************************************************)
ChainShown ==
    ~Due /\ ~crossed =>
        /\ "paused" \in known => pausedShown = paused
        /\ "registered" \in known => registeredShown = registered
        /\ "connected" \in known => connected = registered
-----------------------------------------------------------------------------
(* Why ChainShown holds.                                                   *)

\* A closure that is sure shows the chain as it is.
IsSo(c) ==
    CASE c.show = "paused" -> c.yes = paused
      [] c.show = "registered" -> c.yes = registered
      [] c.show = "connected" -> ~registered
      [] c.show = "listing" -> registered

InTurn ==
    /\ \A t, u \in Tasks : call[t] # Idle /\ call[u] # Idle => t = u
    /\ Len(posted) <= 1
    /\ \A t \in Tasks : call[t] # Idle => posted = <<>>
    /\ \A t \in Tasks : call[t].at = "provider" => registered
    /\ \A i \in DOMAIN posted : posted[i].sure => IsSo(posted[i])
    /\ "paused" \in known =>
           \/ pausedShown = paused
           \/ \E i \in DOMAIN posted : posted[i].show = "paused"
    /\ "registered" \in known => registeredShown = registered
    /\ "connected" \in known => connected = registered

IInv == TypeOK /\ (~crossed => InTurn)
=============================================================================
