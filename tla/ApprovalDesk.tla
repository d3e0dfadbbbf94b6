----------------------------- MODULE ApprovalDesk ------------------------------
(***************************************************************************)
(* Who may let a write go out of the desktop application.  One store of    *)
(* pending approvals is filled by the chat's tool loop and by the write    *)
(* buttons of the panels, and answered by the chat card, the Operations    *)
(* panel, the emergency stop and the store's own time limit.  The chat     *)
(* card is drawn by the UI thread from a queue of events, and its two      *)
(* buttons find the request through a shared slot.  The store itself, the  *)
(* language model and the chain are external.                              *)
(***************************************************************************)
EXTENDS Naturals, Sequences, FiniteSets

CONSTANTS
    Clicks,        \* handlers of Approve and Reject that may run at a time
    MaxRequests,   \* bound: approval requests
    MaxRounds,     \* the completions one turn may ask for (5 in the code)
    MaxCalls,      \* bound: tool calls in one completion
    MaxDrawn       \* bound: UI events waiting for the UI thread

VARIABLES
    turn,     \* the chat turn: where it is, its round, calls left, request
    policy,   \* the session policy: "guided" or "readOnly"
    slot,     \* active_approval_request_id; 0: None
    drawing,  \* events posted to the UI loop: a card's id, or 0 to hide it
    card,     \* the request the chat card shows; 0: hidden
    click,    \* click[c]: a run of a card button's handler
    stop,     \* requests an emergency stop has still to deny
    write,    \* the write a panel's button started
    pending, decided, issued,   \* the store: open, answered, number given out
    \* history
    acted,    \* acted[r]: how often what request r asked for was carried out
    answers   \* <<shown, answered>> for every approval a user gave

vars == <<turn, policy, slot, drawing, card, click, stop, write,
          pending, decided, issued, acted, answers>>
store == <<pending, decided, issued>>
chat == <<turn, policy, slot, drawing, card, click>>

Requests == 1 .. MaxRequests
Kinds == {"join", "leave", "claim", "create", "register", "collect"}

NoTurn == [at |-> "idle", round |-> 0, left |-> 0, id |-> 0]
NoClick == [at |-> "idle", shown |-> 0, yes |-> FALSE, id |-> 0]
NoWrite == [at |-> "idle", kind |-> "join", id |-> 0]

TypeOK ==
    /\ turn \in [at : {"idle", "model", "calls", "show", "slot", "submit",
                       "wait"},
                 round : 0 .. MaxRounds, left : 0 .. MaxCalls,
                 id : 0 .. MaxRequests]
    /\ policy \in {"guided", "readOnly"} /\ slot \in 0 .. MaxRequests
    /\ drawing \in Seq(0 .. MaxRequests) /\ Len(drawing) <= MaxDrawn
    /\ card \in 0 .. MaxRequests
    /\ click \in [Clicks -> [at : {"idle", "read", "resolve", "clear"},
                  shown : 0 .. MaxRequests, yes : BOOLEAN,
                  id : 0 .. MaxRequests]]
    /\ stop \subseteq Requests
    /\ write \in [at : {"idle", "wait", "send", "poll"}, kind : Kinds,
                  id : 0 .. MaxRequests]
    /\ pending \subseteq Requests /\ issued \in 0 .. MaxRequests
    /\ decided \in [Requests -> {"open", "yes", "no"}]
    /\ acted \in [Requests -> 0 .. 2]
    /\ answers \subseteq Requests \X Requests

Init ==
    /\ turn = NoTurn /\ policy = "guided" /\ slot = 0
    /\ drawing = <<>> /\ card = 0 /\ click = [c \in Clicks |-> NoClick]
    /\ stop = {} /\ write = NoWrite
    /\ pending = {} /\ issued = 0
    /\ decided = [r \in Requests |-> "open"]
    /\ acted = [r \in Requests |-> 0] /\ answers = {}

-----------------------------------------------------------------------------
(* The store                                                               *)

\* submit: the request is open from now on.
Submits(r) ==
    /\ pending' = pending \cup {r}
    /\ UNCHANGED <<decided, issued>>

\* resolve: the first answer to an open request counts, any other does nothing.
Resolves(r, yes) ==
    /\ pending' = pending \ {r}
    /\ decided' = IF r \in pending
                  THEN [decided EXCEPT ![r] = IF yes THEN "yes" ELSE "no"]
                  ELSE decided
    /\ UNCHANGED issued

\* Mutant: a request whose time is up counts as approved.
TimesOutOpen(r) ==
    /\ r \in pending
    /\ Resolves(r, TRUE)
    /\ UNCHANGED <<chat, stop, write, acted, answers>>

\* After 30 s (chat) or 60 s (panels) the receiver sees no answer: a refusal.
TimesOut(r) ==
    /\ r \in pending
    /\ Resolves(r, FALSE)
    /\ UNCHANGED <<chat, stop, write, acted, answers>>

Draw(id) ==
    /\ Len(drawing) < MaxDrawn
    /\ drawing' = Append(drawing, id)

Acts(r) == acted' = [acted EXCEPT ![r] = @ + 1]

-----------------------------------------------------------------------------
(* The chat turn: on_chat_send and send_message_with_tools_streaming       *)

\* The input is off until the turn has ended, so turns do not overlap.
ChatSend ==
    /\ turn.at = "idle"
    /\ turn' = [NoTurn EXCEPT !.at = "model", !.round = 1]
    /\ UNCHANGED <<policy, slot, drawing, card, click, stop, write, store,
                   acted, answers>>

\* A failed completion or one without tool calls ends the turn.
ModelAnswers ==
    /\ turn.at = "model"
    /\ \/ turn' = NoTurn
       \/ \E n \in 1 .. MaxCalls :
            turn' = [turn EXCEPT !.at = "calls", !.left = n]
    /\ UNCHANGED <<policy, slot, drawing, card, click, stop, write, store,
                   acted, answers>>

\* All calls answered: the model is asked again, up to MaxRounds times.
NextRound ==
    /\ turn.at = "calls" /\ turn.left = 0
    /\ turn' = IF turn.round = MaxRounds THEN NoTurn
               ELSE [turn EXCEPT !.at = "model", !.round = @ + 1]
    /\ UNCHANGED <<policy, slot, drawing, card, click, stop, write, store,
                   acted, answers>>

\* A reading tool runs at once; one the scope does not allow, or whose
\* recipient or debit account is not valid, is answered with an error.
QuickTool ==
    /\ turn.at = "calls" /\ turn.left > 0
    /\ turn' = [turn EXCEPT !.left = @ - 1]
    /\ UNCHANGED <<policy, slot, drawing, card, click, stop, write, store,
                   acted, answers>>

\* A high-risk tool, allowed by the scope as it is now, takes a request id.
RiskyTool ==
    /\ turn.at = "calls" /\ turn.left > 0 /\ policy = "guided"
    /\ issued < MaxRequests /\ issued' = issued + 1
    /\ turn' = [turn EXCEPT !.at = "show", !.id = issued + 1]
    /\ UNCHANGED <<policy, slot, drawing, card, click, stop, write, pending,
                   decided, acted, answers>>

ShowCard ==
    /\ turn.at = "show"
    /\ Draw(turn.id)
    /\ turn' = [turn EXCEPT !.at = "slot"]
    /\ UNCHANGED <<policy, slot, card, click, stop, write, store, acted,
                   answers>>

StoreSlot ==
    /\ turn.at = "slot"
    /\ slot' = turn.id
    /\ turn' = [turn EXCEPT !.at = "submit"]
    /\ UNCHANGED <<policy, drawing, card, click, stop, write, store, acted,
                   answers>>

SubmitTool ==
    /\ turn.at = "submit"
    /\ Submits(turn.id)
    /\ turn' = [turn EXCEPT !.at = "wait"]
    /\ UNCHANGED <<policy, slot, drawing, card, click, stop, write, acted,
                   answers>>

\* The answer is there: the tool runs, or its call is answered as denied.
FinishTool ==
    /\ turn.at = "wait" /\ turn.id \notin pending
    /\ IF decided[turn.id] = "yes" THEN Acts(turn.id) ELSE UNCHANGED acted
    /\ turn' = [turn EXCEPT !.at = "calls", !.left = @ - 1]
    /\ UNCHANGED <<policy, slot, drawing, card, click, stop, write, store,
                   answers>>

SetScope ==
    /\ policy' \in {"guided", "readOnly"} /\ policy' # policy
    /\ UNCHANGED <<turn, slot, drawing, card, click, stop, write, store, acted,
                   answers>>

-----------------------------------------------------------------------------
(* The chat card                                                           *)

UiDraws ==
    /\ drawing # <<>>
    /\ card' = Head(drawing) /\ drawing' = Tail(drawing)
    /\ UNCHANGED <<turn, policy, slot, click, stop, write, store, acted,
                   answers>>

\* A button of the card shown now; its handler runs as a task of its own.
ClickCard(c) ==
    /\ card # 0 /\ click[c].at = "idle"
    /\ \E yes \in BOOLEAN :
         click' = [click EXCEPT ![c] =
           [at |-> "read", shown |-> card, yes |-> yes, id |-> 0]]
    /\ UNCHANGED <<turn, policy, slot, drawing, card, stop, write, store,
                   acted, answers>>

\* Mutant: the newest open request is taken for the one on the card.
ReadSlotNewest(c) ==
    /\ click[c].at = "read"
    /\ click' = [click EXCEPT ![c] =
         IF pending = {} THEN NoClick
         ELSE [@ EXCEPT !.at = "resolve",
                        !.id = CHOOSE r \in pending : \A o \in pending : o <= r]]
    /\ UNCHANGED <<turn, policy, slot, drawing, card, stop, write, store,
                   acted, answers>>

ReadSlot(c) ==
    /\ click[c].at = "read"
    /\ click' = [click EXCEPT ![c] =
         IF slot = 0 THEN NoClick ELSE [@ EXCEPT !.at = "resolve", !.id = slot]]
    /\ UNCHANGED <<turn, policy, slot, drawing, card, stop, write, store,
                   acted, answers>>

ResolveSlot(c) ==
    LET r == click[c].id IN
    /\ click[c].at = "resolve"
    /\ Resolves(r, click[c].yes)
    /\ answers' = IF click[c].yes /\ r \in pending
                  THEN answers \cup {<<click[c].shown, r>>} ELSE answers
    /\ click' = [click EXCEPT ![c].at = "clear"]
    /\ UNCHANGED <<turn, policy, slot, drawing, card, stop, write, acted>>

ClearSlot(c) ==
    /\ click[c].at = "clear"
    /\ slot' = 0 /\ Draw(0)
    /\ click' = [click EXCEPT ![c] = NoClick]
    /\ UNCHANGED <<turn, policy, card, stop, write, store, acted, answers>>

-----------------------------------------------------------------------------
(* The Operations panel                                                    *)

\* Approve or Deny on a listed request; on one no longer open it does nothing.
DecideRow(r) ==
    /\ r \in pending
    /\ \E yes \in BOOLEAN :
         /\ Resolves(r, yes)
         /\ answers' = IF yes THEN answers \cup {<<r, r>>} ELSE answers
    /\ UNCHANGED <<chat, stop, write, acted>>

EmergencyStop ==
    /\ stop = {} /\ pending # {}
    /\ stop' = pending
    /\ UNCHANGED <<chat, write, store, acted, answers>>

\* The listed requests are denied one by one; the card is hidden after the last.
StopDenies(r) ==
    /\ r \in stop
    /\ Resolves(r, FALSE)
    /\ stop' = stop \ {r}
    /\ IF stop = {r} THEN Draw(0) ELSE UNCHANGED drawing
    /\ UNCHANGED <<turn, policy, slot, card, click, write, acted, answers>>

-----------------------------------------------------------------------------
(* The write buttons of the Learning and Compute panels                    *)

\* The handler up to confirm_tx_intent; it returns before that, changing
\* nothing here, if the chain has no such contract or the wallet no account.
Asks(kind) ==
    /\ write.at = "idle" /\ issued < MaxRequests
    /\ issued' = issued + 1
    /\ pending' = pending \cup {issued + 1}
    /\ write' = [at |-> "wait", kind |-> kind, id |-> issued + 1]
    /\ UNCHANGED <<chat, stop, decided, acted, answers>>

JoinPool == Asks("join")
LeavePool == Asks("leave")
ClaimEarnings == Asks("claim")
CreatePool == Asks("create")
RegisterProvider == Asks("register")
CollectEarnings == Asks("collect")

\* confirm_tx_intent returns true for an approval and false for all else.
Confirmed ==
    /\ write.at = "wait" /\ write.id \notin pending
    /\ write' = IF decided[write.id] = "yes" THEN [write EXCEPT !.at = "send"]
                ELSE NoWrite
    /\ UNCHANGED <<chat, stop, store, acted, answers>>

\* send_transaction_with_data: broadcast, or refused by the wallet or the node.
Broadcast ==
    /\ write.at = "send"
    /\ \/ Acts(write.id) /\ write' = [write EXCEPT !.at = "poll"]
       \/ write' = NoWrite /\ UNCHANGED acted
    /\ UNCHANGED <<chat, stop, store, answers>>

\* poll_tx_receipt only reports: a write that is not mined is not sent again.
Poll ==
    /\ write.at = "poll"
    /\ write' = NoWrite
    /\ UNCHANGED <<chat, stop, store, acted, answers>>

-----------------------------------------------------------------------------
Next ==
    \/ ChatSend \/ ModelAnswers \/ NextRound \/ QuickTool \/ RiskyTool
    \/ ShowCard \/ StoreSlot \/ SubmitTool \/ FinishTool \/ SetScope
    \/ UiDraws
    \/ \E c \in Clicks :
         ClickCard(c) \/ ReadSlot(c) \/ ResolveSlot(c) \/ ClearSlot(c)
    \/ EmergencyStop
    \/ \E r \in Requests : TimesOut(r) \/ DecideRow(r) \/ StopDenies(r)
    \/ JoinPool \/ LeavePool \/ ClaimEarnings \/ CreatePool \/ RegisterProvider
    \/ CollectEarnings \/ Confirmed \/ Broadcast \/ Poll

Spec == Init /\ [][Next]_vars

-----------------------------------------------------------------------------
\* Nothing goes out twice, and nothing that a user has not approved on the card
\* or in the list: a refusal, a stop or a lapse that came first is final, and
\* an approval counts for one request (NAT-B-007).
ConsentPerAct ==
    \A r \in Requests :
      acted[r] <= IF r \in {a[2] : a \in answers} THEN 1 ELSE 0

\* The card's buttons answer for the chat alone: the request of a panel's write
\* that is open at the same time is listed in Operations and never found by the
\* slot that the buttons look into, so that no Approve meant for a tool of the
\* chat lets the write go out.
CardLeavesWrites ==
    write.at # "idle" =>
      /\ slot # write.id /\ card # write.id
      /\ \A c \in Clicks : click[c].id # write.id

\* What the code does not do.  "approve/reject resolves the exact request": an
\* approval given on the card is one of the request the card showed.
ResolvesShown == \A a \in answers : a[1] = a[2]

\* Where a request stands, for module ConsentPromise.
Stage(r) ==
    IF r \in pending THEN "asked"
    ELSE IF decided[r] = "yes" THEN "approved"
    ELSE IF decided[r] = "no" THEN "refused" ELSE "unasked"
Consents == {a[2] : a \in answers}
Promise == INSTANCE ConsentPromise WITH
    stage <- [r \in Requests |-> Stage(r)],
    consents <- Consents

\* The store, the tool loop, the buttons of three panels, the stop and the time
\* limit keep ConsentPromise between them: no request is answered twice or
\* reopened, none is approved but by a user, none acted on but once and after.
PromiseBegins == Promise!Init
KeepsPromise ==
    [Promise!Next]_<<[r \in Requests |-> Stage(r)], Consents, acted>>

-----------------------------------------------------------------------------
(* Why the properties hold.                                                *)

Asking == turn.at \in {"show", "slot", "submit", "wait"}
Writing == write.at \in {"wait", "send"}

\* A request belongs to the turn or to the write that took its number.
Numbered ==
    /\ Asking => turn.id \in 1 .. issued /\ turn.left > 0
    /\ write.at # "idle" => write.id \in 1 .. issued
    /\ Asking /\ write.at # "idle" => turn.id # write.id
    /\ \A r \in Requests :
         r > issued => /\ r \notin pending /\ decided[r] = "open"
                       /\ acted[r] = 0

\* An open request is not decided, an approved one was answered by a user.
DecidedOnce ==
    \A r \in Requests :
      /\ r \in pending => decided[r] = "open"
      /\ decided[r] = "yes" => r \in {a[2] : a \in answers}

\* Whoever waits for an answer has not acted on it; what it waits for is open
\* or decided.
NotYetActed ==
    /\ Asking => acted[turn.id] = 0
    /\ turn.at \in {"show", "slot", "submit"} =>
         decided[turn.id] = "open" /\ turn.id \notin pending
    /\ turn.at = "wait" =>
         turn.id \in pending \/ decided[turn.id] # "open"
    /\ Writing => acted[write.id] = 0
    /\ write.at = "send" => decided[write.id] = "yes"

\* What the card, the slot and the handlers of the buttons know is a request of
\* the chat, and of those only the turn's may be open.
Known == {slot, card} \cup {drawing[i] : i \in 1 .. Len(drawing)}
           \cup {click[c].shown : c \in Clicks} \cup {click[c].id : c \in Clicks}
Current(r) ==
    decided[r] # "open" \/ (Asking /\ turn.at # "show" /\ turn.id = r)
OnlyTurns == \A r \in Known \ {0} :
    r <= issued /\ Current(r) /\ (write.at # "idle" => r # write.id)
Clicked == \A c \in Clicks :
    /\ click[c].at # "idle" => click[c].shown # 0
    /\ click[c].at = "resolve" => click[c].id # 0

IInv == TypeOK /\ Numbered /\ DecidedOnce /\ NotYetActed /\ OnlyTurns
          /\ Clicked /\ ConsentPerAct
================================================================================
