----------------------------- MODULE DagExplorer -----------------------------
(***************************************************************************)
(* The block explorer: searching and selecting a block, its transactions   *)
(* loaded by a second task into a cache and a list, the drawer that a row  *)
(* opens from the cache, and the way back.  Every answer is posted to the  *)
(* UI thread and shown whatever was asked for since.                       *)
(*                                                                         *)
(* A transaction is named by its block: rows, cache and drawer hold the    *)
(* block they are from, or None.                                           *)
(***************************************************************************)
EXTENDS Naturals, Sequences

CONSTANTS
    Tasks,       \* tasks of the runtime that may be in flight together
    Blocks,      \* blocks the node may have
    None,        \* no block
    MaxLooks     \* bound: blocks searched or selected

VARIABLES
    shown,       \* dag-show-detail
    detail,      \* dag-detail-*: the block of the detail view
    rows,        \* dag-detail-transactions
    cache,       \* dag_tx_cache
    drawer,      \* tx-modal-*, None while it is not visible
    look,        \* look[t]: the task of a search or a load
    posted,      \* closures for the UI thread, oldest first
    looks,
    \* history
    crossed      \* a block was asked for, or left, with another one due

vars == <<shown, detail, rows, cache, drawer, look, posted, looks, crossed>>

Idle == [at |-> "idle", block |-> None]

TypeOK ==
    /\ shown \in BOOLEAN
    /\ {detail, rows, cache, drawer} \subseteq Blocks \cup {None}
    /\ look \in [Tasks -> {Idle} \cup
                    [at : {"asked", "found"}, block : Blocks] \cup
                    [at : {"loaded"}, block : Blocks \cup {None}]]
    /\ posted \in Seq([show : {"detail", "rows"}, block : Blocks \cup {None}])
    /\ looks \in 0..MaxLooks /\ crossed \in BOOLEAN

Init ==
    /\ shown = FALSE /\ detail = None /\ rows = None /\ cache = None
    /\ drawer = None /\ look = [t \in Tasks |-> Idle] /\ posted = <<>>
    /\ looks = 0 /\ crossed = FALSE

Due == posted # <<>> \/ \E t \in Tasks : look[t] # Idle
Post(show, b) == posted' = Append(posted, [show |-> show, block |-> b])
Ends(t) == look' = [look EXCEPT ![t] = Idle]

-----------------------------------------------------------------------------
\* dag-search takes a height at any time, dag-select-block a row of the list.
Ask(t, b) ==
    /\ looks < MaxLooks /\ look[t] = Idle
    /\ looks' = looks + 1 /\ crossed' = (crossed \/ Due)
    /\ look' = [look EXCEPT ![t] = [at |-> "asked", block |-> b]]
    /\ UNCHANGED <<shown, detail, rows, cache, drawer, posted>>

\* Among the node's fifty newest blocks, the detail is posted and the load
\* spawned; a block that is not there is logged.
Find(t) ==
    /\ look[t].at = "asked"
    /\ \/ /\ look' = [look EXCEPT ![t].at = "found"]
          /\ Post("detail", look[t].block)
       \/ Ends(t) /\ UNCHANGED posted
    /\ UNCHANGED <<shown, detail, rows, cache, drawer, looks, crossed>>

\* load_block_txs: a node that was stopped meanwhile has no transactions.
Load(t) ==
    /\ look[t].at = "found"
    /\ \E b \in {look[t].block, None} :
           /\ cache' = b
           /\ look' = [look EXCEPT ![t] = [at |-> "loaded", block |-> b]]
    /\ UNCHANGED <<shown, detail, rows, drawer, posted, looks, crossed>>

PostRows(t) ==
    /\ look[t].at = "loaded" /\ Ends(t) /\ Post("rows", look[t].block)
    /\ UNCHANGED <<shown, detail, rows, cache, drawer, looks, crossed>>

\* The UI thread runs the oldest closure.
Shows(show) ==
    /\ posted # <<>> /\ Head(posted).show = show /\ posted' = Tail(posted)
    /\ UNCHANGED <<cache, drawer, look, looks, crossed>>

ShowDetail ==
    /\ Shows("detail") /\ shown' = TRUE /\ detail' = Head(posted).block
    /\ UNCHANGED rows

ShowRows ==
    /\ Shows("rows") /\ rows' = Head(posted).block
    /\ UNCHANGED <<shown, detail>>

\* Mutant: the list keeps the transactions of the block that is left.
BackKeepingRows ==
    /\ shown /\ shown' = FALSE /\ crossed' = (crossed \/ Due)
    /\ UNCHANGED <<detail, rows, cache, drawer, look, posted, looks>>

BackToList ==
    /\ shown /\ shown' = FALSE /\ rows' = None /\ crossed' = (crossed \/ Due)
    /\ UNCHANGED <<detail, cache, drawer, look, posted, looks>>

\* A row is looked up in the cache; one that is not there opens nothing.
RowClicked ==
    /\ shown /\ rows # None /\ rows = cache /\ drawer' = cache
    /\ UNCHANGED <<shown, detail, rows, cache, look, posted, looks, crossed>>

CloseDrawer ==
    /\ drawer # None /\ drawer' = None
    /\ UNCHANGED <<shown, detail, rows, cache, look, posted, looks, crossed>>

Next ==
    \/ \E t \in Tasks :
           (\E b \in Blocks : Ask(t, b)) \/ Find(t) \/ Load(t) \/ PostRows(t)
    \/ ShowDetail \/ ShowRows \/ BackToList \/ RowClicked \/ CloseDrawer

Spec == Init /\ [][Next]_vars

-----------------------------------------------------------------------------
(***************************************************************************)
(* Blocks asked for one after the other: the list is of the block whose    *)
(* detail is shown and every row of it opens, and no row is left for the   *)
(* next opening to flash through once the detail is closed.                *)
(***************************************************************************)
RowsOfDetail ==
    ~Due /\ ~crossed =>
        IF shown THEN rows = cache /\ rows \in {detail, None} ELSE rows = None
-----------------------------------------------------------------------------
(* Why RowsOfDetail holds.                                                 *)

Settled == IF shown THEN rows = cache /\ rows \in {detail, None}
           ELSE rows = None

\* The detail of block b is on its way, or shown.
DetailOf(b) ==
    \/ posted = <<[show |-> "detail", block |-> b]>>
    \/ posted = <<>> /\ shown /\ detail = b

\* The rows follow it.
RowsOf(b) ==
    /\ cache \in {b, None}
    /\ LET last == [show |-> "rows", block |-> cache]
       IN  \/ posted = <<[show |-> "detail", block |-> b], last>>
           \/ posted = <<last>> /\ shown /\ detail = b

\* One block is asked for at a time, from the question to its rows.
InTurn ==
    /\ \A t, u \in Tasks : look[t] # Idle /\ look[u] # Idle => t = u
    /\ \A t \in Tasks :
           /\ look[t].at = "asked" => posted = <<>> /\ Settled
           /\ look[t].at = "found" => DetailOf(look[t].block)
           /\ look[t].at = "loaded" =>
                  /\ cache = look[t].block
                  /\ \E b \in Blocks : DetailOf(b) /\ cache \in {b, None}
    /\ (\A t \in Tasks : look[t] = Idle) =>
           \/ posted = <<>> /\ Settled
           \/ \E b \in Blocks : RowsOf(b)

IInv == TypeOK /\ (~crossed => InTurn)
=============================================================================
