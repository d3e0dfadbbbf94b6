------------------------------ MODULE Dashboard ------------------------------
(***************************************************************************)
(* The thread behind the wallet's figures: every three seconds it reads    *)
(* the balance of the wallet's first account twice, once to show it and    *)
(* once to show what was earned since the first balance it saw, and posts  *)
(* both to the UI thread; the transactions come with every tenth pass.     *)
(* A balance that cannot be read is answered as zero.                      *)
(*                                                                         *)
(* The thread means to read the account that is selected in the window,    *)
(* but a Slint handle does not upgrade off the UI thread, so it always     *)
(* reads the first; the polls of the compute, learning and DAG tabs behind *)
(* the same test never run.                                                *)
(***************************************************************************)
EXTENDS Integers, Sequences

CONSTANTS
    Accounts,    \* addresses
    None,        \* no account, no baseline, nothing shown
    MaxBalance,  \* bound: what an account holds, and what comes in
    MaxPasses    \* bound: passes of the thread

VARIABLES
    balance,     \* balance[a], on the chain
    wallet,      \* the wallet's accounts, the first one first
    chosen,      \* wallet-selected-address
    baseline,    \* baseline_balance_wei
    reading,     \* the pass: which account, and what is read so far
    posted,      \* closures for the UI thread, oldest first
    view,        \* wallet-selected-balance, salt-earned, wallet-transactions
    passes,
    \* history
    received     \* came in since the first pass, to the first account

vars == <<balance, wallet, chosen, baseline, reading, posted, view, passes,
          received>>

Asleep == [at |-> "asleep", of |-> None, selected |-> None, shown |-> 0,
           earned |-> 0]
First == IF wallet = <<>> THEN None ELSE wallet[1]
Somebody == Accounts \cup {None}
Amounts == 0..MaxBalance

\* `of' is the account whose balance is shown as the selected one's, and
\* `selected' the one that was when the pass began.
Views == [shown : Amounts, of : Somebody, selected : Somebody,
          earned : Amounts, list : Somebody]
NoView == [shown |-> 0, of |-> None, selected |-> None, earned |-> 0,
           list |-> None]

TypeOK ==
    /\ balance \in [Accounts -> Amounts]
    /\ wallet \in Seq(Accounts) /\ Len(wallet) <= 2
    /\ chosen \in Somebody
    /\ baseline \in (Amounts \ {0}) \cup {None}
    /\ reading \in [at : {"asleep", "shown", "earned"}, of : Somebody,
                    selected : Somebody, shown : Amounts, earned : Amounts]
    /\ posted \in Seq(Views) /\ view \in Views
    /\ passes \in 0..MaxPasses /\ received \in Amounts

Init ==
    /\ balance = [a \in Accounts |-> 0]
    /\ wallet = <<>> \/ \E a \in Accounts : wallet = <<a>>
    /\ chosen = First
    /\ baseline = None /\ reading = Asleep /\ posted = <<>> /\ view = NoView
    /\ passes = 0 /\ received = 0

\* get_balance: the local state, the public node, or zero.
Balance(a) == IF a = None THEN {0} ELSE {balance[a], 0}

-----------------------------------------------------------------------------
\* The balance that is shown, in the header and for the selected account:
\* whatever is selected, it is the first account's.  In the three seconds
\* that the thread has slept the UI thread has run what was posted.
ReadShown ==
    /\ reading.at = "asleep" /\ passes < MaxPasses /\ passes' = passes + 1
    /\ posted = <<>>
    /\ \E wei \in Balance(First) :
           reading' = [at |-> "shown", of |-> First, selected |-> chosen,
                       shown |-> wei, earned |-> 0]
    /\ UNCHANGED <<balance, wallet, chosen, baseline, posted, view, received>>

\* Mutant: whatever is read first is the baseline.
BaselineOf(a, wei) == IF a # None /\ baseline = None THEN wei ELSE baseline

\* What the balance is compared with: the first one above zero.
FirstPositive(a, wei) ==
    IF a # None /\ baseline = None /\ wei > 0 THEN wei ELSE baseline

\* The first account again, which there may be only by now.
ReadEarned ==
    /\ reading.at = "shown"
    /\ \E wei \in Balance(First) :
           /\ baseline' = FirstPositive(First, wei)
           /\ reading' = [reading EXCEPT
                  !.at = "earned",
                  !.earned = IF First = None \/ baseline' = None
                                \/ wei < baseline'
                             THEN 0 ELSE wei - baseline']
    /\ UNCHANGED <<balance, wallet, chosen, posted, view, passes, received>>

\* Every tenth pass reads the transactions too, of the first account of that
\* moment; none leave the list as it is.
PostFigures ==
    /\ reading.at = "earned" /\ reading' = Asleep
    /\ \E list \in {First, None} :
           posted' = Append(posted, [shown |-> reading.shown,
                                     of |-> reading.of,
                                     selected |-> reading.selected,
                                     earned |-> reading.earned,
                                     list |-> list])
    /\ UNCHANGED <<balance, wallet, chosen, baseline, view, passes, received>>

ShowFigures ==
    /\ posted # <<>> /\ posted' = Tail(posted)
    /\ view' = [Head(posted) EXCEPT
           !.list = IF @ = None THEN view.list ELSE @]
    /\ UNCHANGED <<balance, wallet, chosen, baseline, reading, passes,
                   received>>

\* on_wallet_select_account shows the balance that the wallet's record of the
\* account has, which no code updates, until the next pass.
SelectAccount(i) ==
    /\ i \in 1..Len(wallet) /\ chosen' = wallet[i]
    /\ view' = [view EXCEPT !.shown = 0, !.of = wallet[i],
                                !.selected = wallet[i]]
    /\ UNCHANGED <<balance, wallet, baseline, reading, posted, passes,
                   received>>

\* The wallet gets another account, and it is the selected one.
AddAccount(a) ==
    /\ Len(wallet) < 2 /\ \A i \in 1..Len(wallet) : wallet[i] # a
    /\ wallet' = Append(wallet, a) /\ chosen' = a
    /\ UNCHANGED <<balance, baseline, reading, posted, view, passes, received>>

\* The chain: SALT comes in to the first account, or is spent.
Receive(a) ==
    /\ a = First /\ balance[a] < MaxBalance /\ received < MaxBalance
    /\ balance' = [balance EXCEPT ![a] = @ + 1]
    /\ received' = IF passes > 0 THEN received + 1 ELSE received
    /\ UNCHANGED <<wallet, chosen, baseline, reading, posted, view, passes>>

Spend(a) ==
    /\ a = First /\ balance[a] > 0
    /\ balance' = [balance EXCEPT ![a] = @ - 1]
    /\ UNCHANGED <<wallet, chosen, baseline, reading, posted, view, passes,
                   received>>

Next ==
    \/ ReadShown \/ ReadEarned \/ PostFigures \/ ShowFigures
    \/ \E i \in 1..2 : SelectAccount(i)
    \/ \E a \in Accounts : AddAccount(a) \/ Receive(a) \/ Spend(a)

Spec == Init /\ [][Next]_vars

-----------------------------------------------------------------------------
(***************************************************************************)
(* The earned figure never shows more than came in to the first account    *)
(* since the first pass, however many balances could not be read and were  *)
(* answered as zero; and the transactions shown are that account's.        *)
(***************************************************************************)
EarnedCameIn ==
    view.earned <= received /\ view.list \in {None, First}
-----------------------------------------------------------------------------
(* Why EarnedCameIn holds.                                                 *)

\* What is figured out is not above what came in, whatever was spent.
CameIn ==
    /\ baseline # None =>
           /\ wallet # <<>> /\ passes > 0
           /\ balance[First] <= baseline + received
    /\ reading.at # "asleep" => passes > 0
    /\ reading.earned <= received
    /\ \A i \in DOMAIN posted : posted[i].earned <= received
    /\ view.earned <= received

\* The first account stays the first.
OfFirst ==
    /\ \A i \in DOMAIN posted : posted[i].list \in {None, First}
    /\ view.list \in {None, First}

IInv == TypeOK /\ CameIn /\ OfFirst
=============================================================================
