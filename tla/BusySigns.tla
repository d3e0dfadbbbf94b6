------------------------------- MODULE BusySigns -------------------------------
(***************************************************************************)
(* What the window shows while something is under way: the one loader that *)
(* the node's bootstrap in onboarding and the thinking chat share, and the *)
(* flags of the chat, of linking this device, of pinning the local model   *)
(* and of the faucet.  A press turns a sign on, a task does the work, and  *)
(* a closure it posts to the UI thread turns the sign off.  What the work  *)
(* is comes from outside; of a link, the file it leaves behind matters.    *)
(***************************************************************************)
EXTENDS Naturals, Sequences

CONSTANTS
    Accounts,     \* accounts that may be selected
    None,         \* no account
    MaxPresses,   \* bound: buttons pressed
    MaxLaunches   \* bound: launches after the first

VARIABLES
    page,         \* onboarding, the lock screen or the main view
    step,         \* of onboarding: before Start Node, or after it
    ready,        \* onboarding-node-ready
    running,      \* the loader's timer
    sign,         \* sign[k]: the flag of k is on
    linked,       \* the account of the link the wallet view shows
    linkFile,     \* the account of citrate_link.json
    under,        \* under[k]: tasks of k at work
    posted,       \* closures for the UI thread, oldest first
    presses, launches,
    \* history
    twice         \* kinds that were pressed while one was under way

vars == <<page, step, ready, running, sign, linked, linkFile, under, posted,
          presses, launches, twice>>

Kinds == {"boot", "chat", "link", "pin", "faucet"}
Flags == Kinds \ {"boot"}
Loading == {"boot", "chat"}

TypeOK ==
    /\ page \in {"onboarding", "locked", "main"}
    /\ step \in {"choose", "boot"} /\ {ready, running} \subseteq BOOLEAN
    /\ sign \in [Flags -> BOOLEAN]
    /\ {linked, linkFile} \subseteq Accounts \cup {None}
    /\ under \in [Kinds -> 0..MaxPresses]
    /\ posted \in Seq([kind : Kinds, ok : BOOLEAN])
    /\ presses \in 0..MaxPresses /\ launches \in 0..MaxLaunches
    /\ twice \subseteq Kinds

\* Before the window opens the link file is read and the loader parked.
Opens ==
    /\ step' = "choose" /\ ready' = FALSE /\ running' = FALSE
    /\ sign' = [k \in Flags |-> FALSE] /\ linked' = linkFile
    /\ under' = [k \in Kinds |-> 0] /\ posted' = <<>> /\ twice' = {}

Init ==
    /\ page \in {"onboarding", "locked"} /\ step = "choose"
    /\ ready = FALSE /\ running = FALSE /\ sign = [k \in Flags |-> FALSE]
    /\ linkFile \in Accounts \cup {None} /\ linked = linkFile
    /\ under = [k \in Kinds |-> 0] /\ posted = <<>>
    /\ presses = 0 /\ launches = 0 /\ twice = {}

Posted(k) == \E i \in DOMAIN posted : posted[i].kind = k
Busy(k) == under[k] > 0 \/ Posted(k)

\* loader_set_running(true) leaves a timer that runs alone.
Press(k) ==
    /\ presses < MaxPresses /\ presses' = presses + 1
    /\ under' = [under EXCEPT ![k] = @ + 1]
    /\ sign' = [f \in Flags |-> sign[f] \/ f = k]
    /\ running' = (running \/ k \in Loading)
    /\ twice' = twice \cup
         {o \in Kinds : Busy(o) /\ (o = k \/ {o, k} = Loading)}
    /\ UNCHANGED <<page, ready, linked, linkFile, posted, launches>>

-----------------------------------------------------------------------------
StartNode == page = "onboarding" /\ step = "choose" /\ Press("boot")
               /\ step' = "boot"

\* The input of the chat is off while it thinks.
ChatSend == page = "main" /\ ~sign["chat"] /\ Press("chat") /\ UNCHANGED step

\* Offered as long as no link is shown, and off while one is made.
LinkDevice ==
    /\ page = "main" /\ linked = None /\ ~sign["link"]
    /\ Press("link") /\ UNCHANGED step

\* The local model's button is off while one pins, the Publish button is not.
PinToIpfs == page = "main" /\ Press("pin") /\ UNCHANGED step

RequestFaucet == page = "main" /\ Press("faucet") /\ UNCHANGED step

\* A task is through, well or not, and posts what it has; every way out of it
\* posts.  A link that went well has left its file.
Answers(k, ok) ==
    /\ under[k] > 0 /\ under' = [under EXCEPT ![k] = @ - 1]
    /\ posted' = Append(posted, [kind |-> k, ok |-> ok])
    /\ IF k = "link" /\ ok
       THEN \E a \in Accounts : linkFile' = a
       ELSE UNCHANGED linkFile
    /\ UNCHANGED <<page, step, ready, running, sign, linked, presses, launches,
                   twice>>

\* Mutant: an answer that is an error leaves the loader running.
ShownForgetful ==
    LET c == Head(posted) IN
    /\ posted # <<>> /\ posted' = Tail(posted)
    /\ sign' = [f \in Flags |-> sign[f] /\ f # c.kind]
    /\ running' = (running /\ ~(c.kind \in Loading /\ c.ok))
    /\ ready' = (ready \/ (c.kind = "boot" /\ c.ok))
    /\ linked' = IF c.kind = "link" /\ c.ok THEN linkFile ELSE linked
    /\ UNCHANGED <<page, step, linkFile, under, presses, launches, twice>>

\* The UI thread runs the oldest closure: a flag goes off whoever else is at
\* work, and the loader stops.
Shown ==
    LET c == Head(posted) IN
    /\ posted # <<>> /\ posted' = Tail(posted)
    /\ sign' = [f \in Flags |-> sign[f] /\ f # c.kind]
    /\ running' = (running /\ c.kind \notin Loading)
    /\ ready' = (ready \/ (c.kind = "boot" /\ c.ok))
    /\ linked' = IF c.kind = "link" /\ c.ok THEN linkFile ELSE linked
    /\ UNCHANGED <<page, step, linkFile, under, presses, launches, twice>>

\* Continue, and the steps after it, need a node that has started.
Complete ==
    /\ page = "onboarding" /\ step = "boot" /\ ready /\ page' = "main"
    /\ UNCHANGED <<step, ready, running, sign, linked, linkFile, under, posted,
                   presses, launches, twice>>

\* Lock, unlock and sign out, which work as in WalletScreen; whatever is under
\* way goes on, and onboarding opens at the step it was left at.
Turn ==
    /\ \/ page = "main" /\ page' = "locked"
       \/ page = "locked" /\ page' \in {"main", "onboarding"}
    /\ UNCHANGED <<step, ready, running, sign, linked, linkFile, under, posted,
                   presses, launches, twice>>

Relaunch ==
    /\ launches < MaxLaunches /\ launches' = launches + 1
    /\ page' = "locked" /\ Opens /\ UNCHANGED <<linkFile, presses>>

Next ==
    \/ StartNode \/ ChatSend \/ LinkDevice \/ PinToIpfs \/ RequestFaucet
    \/ \E k \in Kinds, ok \in BOOLEAN : Answers(k, ok)
    \/ Shown \/ Complete \/ Turn \/ Relaunch

Spec == Init /\ [][Next]_vars

-----------------------------------------------------------------------------
(***************************************************************************)
(* A sign is on exactly while what it stands for is under way, from the    *)
(* press to the closure of its task, and the loader while the bootstrap or *)
(* the chat is; unless two of a kind overlapped, or both users of the      *)
(* loader.  Once no link is made, the link shown is the one of the file.   *)
(***************************************************************************)
SignsTrue ==
    /\ \A k \in Flags \ twice : sign[k] <=> Busy(k)
    /\ twice \cap Loading = {} => (running <=> \E k \in Loading : Busy(k))
    /\ ~Busy("link") => linked = linkFile
-----------------------------------------------------------------------------
(* Why SignsTrue holds.                                                    *)

\* Unless a button was pressed twice, one task of its kind is at work or has
\* answered, and of the two that share the loader.
OneOfAKind ==
    /\ \A k \in Kinds \ twice :
           /\ under[k] <= 1
           /\ under[k] > 0 => ~Posted(k)
           /\ \A i, j \in DOMAIN posted :
                  posted[i].kind = k /\ posted[j].kind = k => i = j
    /\ twice \cap Loading = {} => ~Busy("boot") \/ ~Busy("chat")
    /\ \A k \in Kinds : under[k] <= presses

\* The button of the link is off while one is made.
Linking ==
    /\ "link" \notin twice
    /\ linked # linkFile =>
           \E i \in DOMAIN posted : posted[i].kind = "link" /\ posted[i].ok

IInv == TypeOK /\ OneOfAKind /\ Linking /\ SignsTrue
================================================================================
