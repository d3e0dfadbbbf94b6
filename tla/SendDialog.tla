------------------------------ MODULE SendDialog ------------------------------
(***************************************************************************)
(* The send dialog: transfers from the selected account and sponsored ones *)
(* from the smart wallet, each a task that outlives the dialog it was      *)
(* confirmed in.  The only guard against two transfers with one nonce is   *)
(* the dialog's own `sending', which closing the dialog clears.  The       *)
(* dialog's fields belong to the window: they are shown by whichever       *)
(* opening comes next.                                                     *)
(***************************************************************************)
EXTENDS Naturals, Sequences, FiniteSets

CONSTANTS
    Tasks,       \* tasks of the runtime that may be in flight together
    None,        \* no transfer
    MaxConfirms  \* bound: clicks on Confirm & Send

VARIABLES
    dialog,      \* show-send-dialog
    sending,     \* send-sending: the button is dead
    hash, error, receipt,   \* the transfer each of these fields tells of
    transfer,    \* transfer[t]: the transfer of a task and where it is
    posted,      \* closures for the UI thread, oldest first
    confirms,    \* transfers confirmed, which number them
    mined,       \* nonces of the account the node has taken
    \* history
    stale,       \* transfers signed with a nonce that was taken meanwhile
    beside       \* the dialog went away while a transfer or a receipt was
                 \* outstanding, or one was confirmed beside a sponsored one

vars == <<dialog, sending, hash, error, receipt, transfer, posted, confirms,
          mined, stale, beside>>

Sends == 1..MaxConfirms
Idle == [kind |-> "none", at |-> "idle", send |-> 0, nonce |-> 0]
TransferType ==
    [kind : {"plain", "sponsored"}, at : {"begun", "priced", "sent"},
     send : Sends, nonce : 0..MaxConfirms]
ClosureType ==
    [show : {"refused", "sent", "receipt", "failed", "accepted", "rejected",
             "expired"},
     send : Sends \cup {None}]

TypeOK ==
    /\ dialog \in BOOLEAN /\ sending \in BOOLEAN
    /\ {hash, error, receipt} \subseteq Sends \cup {None}
    /\ transfer \in [Tasks -> TransferType \cup {Idle}]
    /\ posted \in Seq(ClosureType)
    /\ confirms \in 0..MaxConfirms /\ mined \in 0..MaxConfirms
    /\ stale \subseteq Sends
    /\ beside \in BOOLEAN

Init ==
    /\ dialog = FALSE /\ sending = FALSE
    /\ hash = None /\ error = None /\ receipt = None
    /\ transfer = [t \in Tasks |-> Idle] /\ posted = <<>>
    /\ confirms = 0 /\ mined = 0 /\ stale = {} /\ beside = FALSE

Outstanding == posted # <<>> \/ \E t \in Tasks : transfer[t] # Idle
SponsoredOut ==
    \/ \E t \in Tasks : transfer[t].kind = "sponsored"
    \/ \E i \in DOMAIN posted : posted[i].show \in {"accepted", "rejected"}
Post(show, send) == posted' = Append(posted, [show |-> show, send |-> send])
Goes(t, at) == transfer' = [transfer EXCEPT ![t].at = at]
Ends(t) == transfer' = [transfer EXCEPT ![t] = Idle]

-----------------------------------------------------------------------------
\* The wallet's Send button.
Open ==
    /\ ~dialog /\ dialog' = TRUE
    /\ UNCHANGED <<sending, hash, error, receipt, transfer, posted, confirms,
                   mined, stale, beside>>

\* The button can be clicked while no hash is shown and `sending' is off.
Confirm ==
    /\ dialog /\ hash = None /\ ~sending /\ confirms < MaxConfirms
    /\ confirms' = confirms + 1
    /\ beside' = (beside \/ SponsoredOut)

Begins(t, kind) ==
    /\ transfer[t] = Idle
    /\ transfer' = [transfer EXCEPT ![t] = [kind |-> kind, at |-> "begun",
                                            send |-> confirms + 1, nonce |-> 0]]

\* Mutant: the button stays alive while the transfer is pending.
SendAlive(t) ==
    /\ Confirm /\ Begins(t, "plain") /\ UNCHANGED sending
    /\ UNCHANGED <<dialog, hash, error, receipt, posted, mined, stale>>

Send(t) ==
    /\ Confirm /\ Begins(t, "plain") /\ sending' = TRUE
    /\ UNCHANGED <<dialog, hash, error, receipt, posted, mined, stale>>

\* No password, a malformed recipient or amount: nothing is spawned.
SendRefused ==
    /\ Confirm /\ Post("refused", confirms + 1)
    /\ UNCHANGED <<dialog, sending, hash, error, receipt, transfer, mined,
                   stale>>

\* The sponsored transfer leaves `sending' alone.
SendSponsored(t) ==
    /\ Confirm /\ Begins(t, "sponsored")
    /\ UNCHANGED <<dialog, sending, hash, error, receipt, posted, mined,
                   stale>>

\* Cancel, Done, or a click beside the dialog.
Close ==
    /\ dialog /\ dialog' = FALSE /\ sending' = FALSE
    /\ hash' = None /\ error' = None /\ receipt' = None
    /\ beside' = (beside \/ Outstanding)
    /\ UNCHANGED <<transfer, posted, confirms, mined, stale>>

\* The background thread found the session over.
SessionExpires ==
    /\ dialog /\ (\A i \in DOMAIN posted : posted[i].show # "expired")
    /\ Post("expired", None) /\ beside' = (beside \/ Outstanding)
    /\ UNCHANGED <<dialog, sending, hash, error, receipt, transfer, confirms,
                   mined, stale>>

-----------------------------------------------------------------------------
At(t, kind, at) == transfer[t].kind = kind /\ transfer[t].at = at

\* The password is verified, the key taken, and the nonce asked for.
FetchNonce(t) ==
    /\ At(t, "plain", "begun")
    /\ transfer' = [transfer EXCEPT ![t].at = "priced", ![t].nonce = mined]
    /\ UNCHANGED <<dialog, sending, hash, error, receipt, posted, confirms,
                   mined, stale, beside>>

\* Any of those may fail; nothing was signed.
NothingSigned(t) ==
    /\ At(t, "plain", "begun") /\ Ends(t) /\ Post("failed", transfer[t].send)
    /\ UNCHANGED <<dialog, sending, hash, error, receipt, confirms, mined,
                   stale, beside>>

\* The node takes it, or refuses it, at least when the nonce was taken since;
\* the answer of a node that took it may be lost.
Broadcast(t) ==
    /\ At(t, "plain", "priced")
    /\ LET fresh == transfer[t].nonce = mined
       IN  /\ stale' = IF fresh THEN stale ELSE stale \cup {transfer[t].send}
           /\ \/ /\ fresh /\ mined' = mined + 1
                 /\ \/ Goes(t, "sent") /\ Post("sent", transfer[t].send)
                    \/ Ends(t) /\ Post("failed", transfer[t].send)
              \/ /\ Ends(t) /\ Post("failed", transfer[t].send)
                 /\ UNCHANGED mined
    /\ UNCHANGED <<dialog, sending, hash, error, receipt, confirms, beside>>

\* Confirmed, reverted, still pending or unknown.
PollReceipt(t) ==
    /\ At(t, "plain", "sent") /\ Ends(t) /\ Post("receipt", transfer[t].send)
    /\ UNCHANGED <<dialog, sending, hash, error, receipt, confirms, mined,
                   stale, beside>>

\* CitrateLink says what a sponsored transfer does.
Sponsored(t) ==
    /\ At(t, "sponsored", "begun") /\ Ends(t)
    /\ \E show \in {"accepted", "rejected"} : Post(show, transfer[t].send)
    /\ UNCHANGED <<dialog, sending, hash, error, receipt, confirms, mined,
                   stale, beside>>

\* The UI thread runs a closure, whatever the dialog shows by then.
UiShows ==
    /\ posted # <<>> /\ posted' = Tail(posted)
    /\ LET show == Head(posted).show
           send == Head(posted).send
       IN  /\ hash' = IF show \in {"sent", "accepted"} THEN send ELSE hash
           /\ error' = CASE show \in {"refused", "failed", "rejected"} -> send
                         [] show \in {"sent", "accepted"} -> None
                         [] OTHER -> error
           /\ receipt' =
                 CASE show \in {"sent", "accepted", "receipt"} -> send
                   [] show \in {"failed", "rejected"} -> None
                   [] OTHER -> receipt
           /\ sending' = (sending /\ show \notin {"sent", "failed"})
           /\ dialog' = (dialog /\ show # "expired")
           /\ beside' = (beside \/ show = "expired")
    /\ UNCHANGED <<transfer, confirms, mined, stale>>

Next ==
    \/ Open \/ SendRefused \/ Close \/ SessionExpires \/ UiShows
    \/ \E t \in Tasks :
           \/ Send(t) \/ SendSponsored(t) \/ FetchNonce(t) \/ NothingSigned(t)
           \/ Broadcast(t) \/ PollReceipt(t) \/ Sponsored(t)

Spec == Init /\ [][Next]_vars

-----------------------------------------------------------------------------
(***************************************************************************)
(* As long as no dialog goes away with a transfer outstanding, and none is *)
(* confirmed beside a sponsored one: no transfer reaches the node with a   *)
(* nonce that another one has used, the hash an open dialog shows is that  *)
(* of the transfer confirmed last, with its receipt and no error, and an   *)
(* error that stays is of the transfer confirmed last.                     *)
(***************************************************************************)
OneSend ==
    ~beside =>
        /\ stale = {}
        /\ hash # None => hash = confirms /\ receipt = hash /\ error = None
        /\ ~Outstanding => error \in {None, confirms}
-----------------------------------------------------------------------------
(* Why OneSend holds.                                                      *)

Told(what) == \E i \in DOMAIN posted : posted[i].show \in what
Out(t) == transfer[t] # Idle

\* The one transfer that is out is that confirmed last; the button is dead
\* until the dialog is told of it, or shows its hash.
OneOut ==
    \A t \in Tasks : Out(t) =>
        /\ transfer[t].send = confirms
        /\ \A u \in Tasks : Out(u) => u = t
        /\ ~Told({"failed", "accepted", "rejected", "receipt"})
        /\ transfer[t].kind = "sponsored" \/ transfer[t].at # "sent" =>
               hash = None /\ ~Told({"sent"})
        /\ transfer[t].kind = "plain" =>
               IF transfer[t].at = "sent" THEN hash # None \/ Told({"sent"})
               ELSE sending
        /\ transfer[t].at = "priced" => transfer[t].nonce = mined

\* What a closure tells of, and what comes after it.
Ending == {"sent", "failed", "accepted", "rejected"}
InOrder ==
    \A i \in DOMAIN posted :
        LET show == posted[i].show
            after(what) == \A j \in DOMAIN posted :
                               j > i => posted[j].show \notin what
        IN  /\ show \in Ending \cup {"receipt"} =>
                   posted[i].send = confirms /\ after(Ending \cup {"refused"})
            /\ show \in Ending \cup {"refused"} => hash = None
            /\ show \in {"sent", "failed"} => sending
            /\ show = "receipt" =>
                   \/ hash # None
                   \/ \E j \in DOMAIN posted : j < i /\ posted[j].show = "sent"
            /\ show = "refused" =>
                   /\ posted[i].send \in 1..confirms
                   /\ posted[i].send = confirms => after({"refused"})

\* Something is still to come of the transfer confirmed last.
LastOut ==
    \/ \E t \in Tasks : Out(t) /\ transfer[t].send = confirms
    \/ \E i \in DOMAIN posted :
           posted[i].show # "expired" /\ posted[i].send = confirms

Alone ==
    /\ OneOut /\ InOrder
    /\ ~LastOut => error \in {None, confirms} /\ ~Told({"refused"})

\* Every nonce taken is of a transfer that was confirmed.
Pending == {t \in Tasks : transfer[t].kind = "plain" /\ transfer[t].at # "sent"}
Counted == mined + Cardinality(Pending) <= confirms

IInv == TypeOK /\ OneSend /\ (~beside => Alone) /\ Counted
=============================================================================
