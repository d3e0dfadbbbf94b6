----------------------------- MODULE ModelPublish ------------------------------
(***************************************************************************)
(* Publishing a local model: the Deploy button hashes the file, asks for   *)
(* consent, registers the model on chain, polls the receipt and reads the  *)
(* registry back.  All publications share the one record of ModelService,  *)
(* and nothing keeps a second one from starting while the first runs.  The *)
(* chain, its registry and the approval are external.                      *)
(***************************************************************************)
EXTENDS Naturals, FiniteSets

CONSTANTS
    Publications, \* presses of the Deploy button
    Models,       \* contents the local model file may have
    MaxPolls      \* receipt polls of one publication (15 in the code)

VARIABLES
    publication, \* publication[p]: where it is, its model, polls, what it read
    record,      \* ModelService.publish_record, and its publication
    mined,       \* mined[p]: what became of its registerModel transaction
    registry,    \* registry[m]: the owner the chain's registry names
    \* history
    crossed      \* two publications were under way at the same time

vars == <<publication, record, mined, registry, crossed>>

Owners == {"none", "me", "another"}
States == {"none", "hashed", "pinned", "submitted", "confirmed", "verified",
           "failed"}

NoModel == CHOOSE m \in Models : TRUE
NoRecord == [state |-> "none", model |-> NoModel, cid |-> FALSE,
             tx |-> "none", by |-> "none"]

Idle == [at |-> "idle", model |-> NoModel, polls |-> 0, tx |-> "none",
         seen |-> "none", reads |-> NoModel, cid |-> FALSE]

TypeOK ==
    /\ publication \in [Publications ->
         [at : {"idle", "init", "consent", "send", "mark", "poll", "receipt",
                "readback", "registry", "compare", "over"},
          model : Models, polls : 0 .. MaxPolls,
          tx : Publications \cup {"none"},
          seen : Owners \cup {"ok", "reverted", "pooled"}, reads : Models,
          cid : BOOLEAN]]
    /\ record \in [state : States, model : Models, cid : BOOLEAN,
                   tx : Publications \cup {"none"},
                   by : Publications \cup {"none"}]
    /\ mined \in [Publications -> {"none", "pooled", "ok", "reverted"}]
    /\ registry \in [Models -> Owners] /\ crossed \in BOOLEAN

Init ==
    /\ publication = [p \in Publications |-> Idle]
    /\ record = NoRecord /\ crossed = FALSE
    /\ mined = [p \in Publications |-> "none"]
    /\ registry = [m \in Models |-> "none"]

At(p, point) == publication[p].at = point
Goes(p, point) == publication' = [publication EXCEPT ![p].at = point]
UnderWay(p) == publication[p].at \notin {"idle", "over"}

\* The file is found, read and hashed; without one, or without an address,
\* the press changes nothing.
Deploy(p) ==
    /\ At(p, "idle")
    /\ \E m \in Models :
         publication' = [publication EXCEPT ![p] =
           [Idle EXCEPT !.at = "init", !.model = m]]
    /\ crossed' = (crossed \/ \E q \in Publications : UnderWay(q))
    /\ UNCHANGED <<record, mined, registry>>

\* init_publish replaces the record of whatever went before.
InitPublish(p) ==
    /\ At(p, "init")
    /\ record' = [NoRecord EXCEPT !.state = "hashed", !.by = p,
                                  !.model = publication[p].model]
    /\ Goes(p, "consent")
    /\ UNCHANGED <<mined, registry, crossed>>

\* Only where the window still shows the CID of an earlier pin.
MarkPinned(p) ==
    /\ At(p, "consent") /\ ~record.cid
    /\ record' = [record EXCEPT !.state = "pinned", !.cid = TRUE]
    /\ UNCHANGED <<publication, mined, registry, crossed>>

\* Cancelled, or the transaction refused: the record stays as it is.
Consent(p) ==
    /\ At(p, "consent")
    /\ Goes(p, "send") \/ Goes(p, "over")
    /\ UNCHANGED <<record, mined, registry, crossed>>

SendRegister(p) ==
    /\ At(p, "send")
    /\ \/ Goes(p, "mark") /\ mined' = [mined EXCEPT ![p] = "pooled"]
       \/ Goes(p, "over") /\ UNCHANGED mined
    /\ UNCHANGED <<record, registry, crossed>>

MarkSubmitted(p) ==
    /\ At(p, "mark")
    /\ record' = [record EXCEPT !.state = "submitted", !.tx = p]
    /\ Goes(p, "poll")
    /\ UNCHANGED <<mined, registry, crossed>>

\* poll_receipt asks for the transaction the record names by now; with none it
\* fails, which ends the polling.
PollReceipt(p) ==
    LET tx == record.tx IN
    /\ At(p, "poll")
    /\ IF publication[p].polls = MaxPolls \/ tx = "none"
       THEN Goes(p, "readback")
       ELSE publication' = [publication EXCEPT ![p] =
              [@ EXCEPT !.at = "receipt", !.polls = publication[p].polls + 1,
                        !.tx = tx, !.seen = mined[tx]]]
    /\ UNCHANGED <<record, mined, registry, crossed>>

\* Mutant: a transaction the node knows counts as included.
ReceiptIncluded(p) ==
    /\ At(p, "receipt")
    /\ IF publication[p].seen = "reverted"
       THEN record' = [record EXCEPT !.state = "failed"]
       ELSE record' = [record EXCEPT !.state = "confirmed"]
    /\ Goes(p, "readback")
    /\ UNCHANGED <<mined, registry, crossed>>

\* The answer arrives, or an error, and is put on the record there is now.
Receipt(p) ==
    LET seen == publication[p].seen IN
    /\ At(p, "receipt")
    /\ \/ /\ seen = "pooled"
          /\ Goes(p, "poll") /\ UNCHANGED record
       \/ /\ seen \in {"ok", "reverted"}
          /\ record' = [record EXCEPT
               !.state = IF seen = "ok" THEN "confirmed" ELSE "failed"]
          /\ Goes(p, "readback")
       \/ Goes(p, "readback") /\ UNCHANGED record
    /\ UNCHANGED <<mined, registry, crossed>>

\* Mutant: the readback does not wait for a confirmation.
ReadbackUnconfirmed(p) ==
    /\ At(p, "readback")
    /\ publication' = [publication EXCEPT ![p] =
         [@ EXCEPT !.at = "registry", !.reads = record.model,
                        !.cid = record.cid]]
    /\ UNCHANGED <<record, mined, registry, crossed>>

\* verify_readback, of a confirmed record only.
Readback(p) ==
    /\ At(p, "readback")
    /\ IF record.state = "confirmed"
       THEN publication' = [publication EXCEPT ![p] =
              [@ EXCEPT !.at = "registry", !.reads = record.model,
                        !.cid = record.cid]]
       ELSE Goes(p, "over")
    /\ UNCHANGED <<record, mined, registry, crossed>>

\* The node answers with the entry, or not at all.
ReadRegistry(p) ==
    /\ At(p, "registry")
    /\ \/ publication' = [publication EXCEPT ![p] =
            [@ EXCEPT !.at = "compare", !.seen = registry[publication[p].reads]]]
       \/ Goes(p, "over")
    /\ UNCHANGED <<record, mined, registry, crossed>>

\* The owner and, where both sides have one, the CID are compared; the verdict
\* goes on the record there is now.
Compare(p) ==
    /\ At(p, "compare")
    /\ \/ /\ publication[p].seen = "me"
          /\ record' = [record EXCEPT !.state = "verified"]
       \/ /\ publication[p].seen # "me" \/ publication[p].cid
          /\ record' = [record EXCEPT !.state = "failed"]
    /\ Goes(p, "over")
    /\ UNCHANGED <<mined, registry, crossed>>

\* The button is pressed again.
Retry(p) ==
    /\ At(p, "over") /\ mined[p] = "none"
    /\ publication' = [publication EXCEPT ![p] = Idle]
    /\ UNCHANGED <<record, mined, registry, crossed>>

\* A block includes the transaction: the first owner of a model keeps it.
Mine(p) ==
    LET m == publication[p].model IN
    /\ mined[p] = "pooled"
    /\ IF registry[m] = "another"
       THEN mined' = [mined EXCEPT ![p] = "reverted"] /\ UNCHANGED registry
       ELSE /\ mined' = [mined EXCEPT ![p] = "ok"]
            /\ registry' = [registry EXCEPT ![m] = "me"]
    /\ UNCHANGED <<publication, record, crossed>>

RegisteredByAnother(m) ==
    /\ registry[m] = "none"
    /\ registry' = [registry EXCEPT ![m] = "another"]
    /\ UNCHANGED <<publication, record, mined, crossed>>

Next ==
    \/ \E p \in Publications :
         \/ Deploy(p) \/ InitPublish(p) \/ MarkPinned(p) \/ Consent(p)
         \/ SendRegister(p) \/ MarkSubmitted(p) \/ PollReceipt(p) \/ Receipt(p)
         \/ Readback(p) \/ ReadRegistry(p) \/ Compare(p) \/ Retry(p) \/ Mine(p)
    \/ \E m \in Models : RegisteredByAnother(m)

Spec == Init /\ [][Next]_vars

-----------------------------------------------------------------------------
\* "Only advances when real evidence exists": as long as no two publications
\* were under way at once, a record shown as confirmed or verified names a
\* transaction that was included with success, and a model the registry has
\* under this wallet.  Two that overlap put their answers on one record.
Evidence ==
    record.state \in {"confirmed", "verified"} /\ ~crossed
      => /\ record.tx = record.by /\ mined[record.by] = "ok"
         /\ registry[record.model] = "me"
-----------------------------------------------------------------------------

(* Why Evidence holds.                                                     *)

Among(p, points) == publication[p].at \in points

\* A transaction is sent once, by a publication that then keeps its model.
SentOnce ==
    \A p \in Publications :
      Among(p, {"idle", "init", "consent", "send"}) => mined[p] = "none"
OwnedWhenMined ==
    \A p \in Publications :
      mined[p] = "ok" => registry[publication[p].model] = "me"

\* Without a crossing one publication is under way, and the record is its own.
Alone ==
    \A p, q \in Publications : UnderWay(p) /\ UnderWay(q) => p = q
RecordOwn(p) ==
    /\ Among(p, {"consent", "send", "mark"}) =>
         record.state \in {"hashed", "pinned"}
    /\ UnderWay(p) /\ ~At(p, "init") =>
         record.by = p /\ record.model = publication[p].model
    /\ Among(p, {"poll", "receipt", "readback", "registry", "compare"}) =>
         record.tx = p
    /\ At(p, "receipt") /\ publication[p].seen = "ok" => mined[p] = "ok"
    /\ Among(p, {"registry", "compare"}) => record.state = "confirmed"
Uncrossed == ~crossed => Alone /\ \A p \in Publications : RecordOwn(p)

\* A record is confirmed by a transaction, which some publication has sent.
Confirmed ==
    record.state \in {"confirmed", "verified"} /\ ~crossed
      => record.by \in Publications

IInv == TypeOK /\ SentOnce /\ OwnedWhenMined /\ Uncrossed /\ Confirmed
          /\ Evidence
================================================================================
