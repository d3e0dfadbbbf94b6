------------------------- MODULE DesktopPanelsProofs -------------------------
(***************************************************************************)
(* What MCDesktopServices checks of the explorer, the panels, the          *)
(* dashboard, the signs of activity and the vault, for every value of the  *)
(* constants. Each has an inductive invariant, IInv, at the end of its     *)
(* module; the head of a section says which slot holds which variable.     *)
(***************************************************************************)
EXTENDS DesktopWindowsProofs

\* A queue of at most two closures, from both ends.
LEMMA ShortQueues ==
    ASSUME NEW S, NEW x \in S, NEW y \in S
    PROVE  /\ Append(<<>>, x) = <<x>> /\ Append(<<x>>, y) = <<x, y>>
           /\ Tail(<<x>>) = <<>> /\ Tail(<<x, y>>) = <<y>>
           /\ Head(<<x>>) = x /\ Head(<<x, y>>) = x
           /\ <<x>> # <<>> /\ <<x, y>> # <<>>
           /\ <<x>> \in Seq(S) /\ <<x, y>> \in Seq(S)
<1> DEFINE s == Append(<<x>>, y)
<1>1. s \in Seq(S) /\ Len(s) = 2 /\ s[1] = x /\ s[2] = y
  OBVIOUS
<1> HIDE DEF s
<1>2. s = <<x, y>>
  BY <1>1
<1>3. Append(<<x>>, y) = <<x, y>>
  BY <1>2 DEF s
<1>4. /\ Append(<<>>, x) = <<x>> /\ Tail(<<x>>) = <<>>
      /\ Tail(<<x, y>>) = <<y>>
  OBVIOUS
<1> QED BY <1>3, <1>4

\* A queue of at most one closure.
LEMMA Single ==
    ASSUME NEW S, NEW q \in Seq(S), Len(q) <= 1
    PROVE  q = <<>> \/ \E c \in S : q = <<c>>
<1>1. q = <<>> \/ Len(q) = 1
  <2>1. Len(q) \in Nat
    OBVIOUS
  <2>2. Len(q) = 0 => q = <<>>
    OBVIOUS
  <2>3. \A n \in Nat : n <= 1 => n = 0 \/ n = 1
    OBVIOUS
  <2>4. Len(q) = 0 \/ Len(q) = 1
    BY <2>1, <2>3
  <2> QED BY <2>2, <2>4
<1>2. ASSUME Len(q) = 1 PROVE \E c \in S : q = <<c>>
  <2>1. q[1] \in S
    BY <1>2
  <2>2. q = <<q[1]>>
    BY <1>2, <2>1
  <2> QED BY <2>1, <2>2
<1> QED BY <1>1, <1>2

-----------------------------------------------------------------------------
(* DagExplorer                                                             *)
(* Slots: v1 is shown, v2 detail, v3 rows, v4 cache, v5 drawer, v6 look,   *)
(* v7 posted, v8 looks, v9 crossed.                                        *)

DagTasks == {Dag!Idle} \cup [at : {"asked", "found"}, block : Blocks] \cup
               [at : {"loaded"}, block : Blocks \cup {None}]
DagClosures == [show : {"detail", "rows"}, block : Blocks \cup {None}]

LEMMA DagMoves ==
    ASSUME Dag!TypeOK, NEW t \in Tasks
    PROVE  /\ v6 \in [Tasks -> DagTasks] /\ v6[t] \in DagTasks
           /\ v6[t] = Dag!Idle <=> v6[t].at = "idle"
           /\ v6[t].at \in {"asked", "found"} => v6[t].block \in Blocks
           /\ Dag!Ends(t) =>
                 /\ v6' \in [Tasks -> DagTasks] /\ v6'[t] = Dag!Idle
                 /\ \A u \in Tasks : u # t => v6'[u] = v6[u]
BY DEF Dag!TypeOK, DagTasks, Dag!Idle, Dag!Ends

LEMMA DagBegins == Dag!Init => Dag!IInv
<1> SUFFICES ASSUME Dag!Init PROVE Dag!IInv
  OBVIOUS
<1>1. 0 \in 0..MaxLooks
  BY WindowsAssumption
<1>2. v7 \in Seq(DagClosures) /\ v6 \in [Tasks -> DagTasks]
  BY DEF Dag!Init, DagTasks
<1>3. Dag!TypeOK
  BY <1>1, <1>2 DEF Dag!Init, Dag!TypeOK, DagClosures, DagTasks
<1>4. Dag!InTurn
  BY DEF Dag!Init, Dag!InTurn, Dag!Settled, Dag!Idle
<1> QED BY <1>3, <1>4 DEF Dag!IInv

\* One task is out, the others are idle.
LEMMA DagOne ==
    ASSUME Dag!IInv, ~v9, NEW t \in Tasks, v6[t] # Dag!Idle
    PROVE  \A u \in Tasks : u # t => v6[u] = Dag!Idle
BY DEF Dag!IInv, Dag!InTurn

\* Nothing is out after a task that is through.
LEMMA DagDone ==
    ASSUME Dag!IInv, ~v9, NEW t \in Tasks, v6[t] # Dag!Idle, Dag!Ends(t)
    PROVE  \A u \in Tasks : v6'[u] = Dag!Idle
BY DagOne, DagMoves DEF Dag!IInv

LEMMA DagAsks ==
    ASSUME Dag!IInv, NEW t \in Tasks, NEW b \in Blocks, Dag!Ask(t, b)
    PROVE  Dag!IInv'
<1> DEFINE new == [at |-> "asked", block |-> b]
<1>1. /\ Dag!TypeOK /\ v8 < MaxLooks /\ v8' = v8 + 1 /\ v9' = (v9 \/ Dag!Due)
      /\ v6' = [v6 EXCEPT ![t] = new] /\ new \in DagTasks
      /\ new.at = "asked"
      /\ UNCHANGED <<v1, v2, v3, v4, v5, v7>>
  BY DEF Dag!IInv, Dag!Ask, DagTasks
<1> HIDE DEF new
<1>2. /\ v6' \in [Tasks -> DagTasks] /\ v6'[t] = new
      /\ \A u \in Tasks : u # t => v6'[u] = v6[u]
  BY <1>1, DagMoves
<1>3. v8' \in 0..MaxLooks /\ v9' \in BOOLEAN
  BY <1>1, WindowsAssumption DEF Dag!TypeOK
<1>4. Dag!TypeOK'
  BY <1>1, <1>2, <1>3 DEF Dag!TypeOK, DagTasks
<1>5. ASSUME ~v9'
      PROVE  Dag!InTurn'
  <2>1. ~v9 /\ v7 = <<>> /\ \A u \in Tasks : v6[u] = Dag!Idle
    BY <1>1, <1>5 DEF Dag!Due
  <2>2. Dag!Settled
    <3>1. ASSUME NEW c \in Blocks, Dag!RowsOf(c) PROVE FALSE
      BY <2>1, <3>1 DEF Dag!RowsOf
    <3> QED BY <2>1, <3>1 DEF Dag!IInv, Dag!InTurn
  <2>3. \A u \in Tasks : u # t => v6'[u] = Dag!Idle /\ v6'[u].at = "idle"
    BY <1>2, <2>1 DEF Dag!Idle
  <2>4. v6'[t] # Dag!Idle
    BY <1>1, <1>2 DEF Dag!Idle
  <2> QED BY <1>1, <1>2, <2>1, <2>2, <2>3, <2>4 DEF Dag!InTurn, Dag!Settled
<1> QED BY <1>4, <1>5 DEF Dag!IInv

LEMMA DagFinds ==
    ASSUME Dag!IInv, NEW t \in Tasks, Dag!Find(t)
    PROVE  Dag!IInv'
<1> PICK b \in Blocks : b = v6[t].block
  BY DagMoves DEF Dag!IInv, Dag!Find
<1> DEFINE new == [at |-> "found", block |-> b]
           show == [show |-> "detail", block |-> b]
<1>1. /\ Dag!TypeOK /\ v6[t].at = "asked" /\ b \in Blocks
      /\ v6[t] # Dag!Idle
      /\ UNCHANGED <<v1, v2, v3, v4, v5, v8, v9>>
  BY DagMoves DEF Dag!IInv, Dag!Find
<1>2. ASSUME NEW r, r = [v6[t] EXCEPT !.at = "found"]
      PROVE  r = new
  <2>1. v6[t] \in [at : {"asked"}, block : Blocks]
    BY <1>1, DagMoves DEF DagTasks, Dag!Idle
  <2> QED BY <1>2, <2>1
<1>3. \/ v6' = [v6 EXCEPT ![t] = new] /\ v7' = Append(v7, show)
      \/ Dag!Ends(t) /\ v7' = v7
  BY <1>2 DEF Dag!Find, Dag!Post
<1>4. /\ new \in DagTasks /\ new.at = "found" /\ new.block = b
      /\ show \in DagClosures /\ v7 \in Seq(DagClosures)
  BY <1>1 DEF DagTasks, DagClosures, Dag!TypeOK
<1> HIDE DEF new, show
<1>5. v6' \in [Tasks -> DagTasks] /\ v7' \in Seq(DagClosures)
  BY <1>1, <1>3, <1>4, DagMoves
<1>6. Dag!TypeOK'
  BY <1>1, <1>5 DEF Dag!TypeOK, DagTasks, DagClosures
<1>7. ASSUME ~v9'
      PROVE  Dag!InTurn'
  <2>1. /\ ~v9 /\ v7 = <<>> /\ Dag!Settled
        /\ \A u \in Tasks : u # t => v6[u] = Dag!Idle
    BY <1>1, <1>7, DagOne DEF Dag!IInv, Dag!InTurn
  <2>2. CASE v6' = [v6 EXCEPT ![t] = new] /\ v7' = Append(v7, show)
    <3>1. /\ v6'[t] = new /\ v6'[t] # Dag!Idle
          /\ \A u \in Tasks : u # t =>
                 v6'[u] = Dag!Idle /\ v6'[u].at = "idle"
      BY <1>1, <1>4, <2>1, <2>2, DagMoves DEF Dag!Idle
    <3>2. v7' = <<show>>
      BY <1>4, <2>1, <2>2, ShortQueues
    <3>3. Dag!DetailOf(b)'
      BY <3>2 DEF Dag!DetailOf, show
    <3>4. v6'[t].at = "found" /\ v6'[t].block = b
      BY <1>4, <3>1
    <3> QED BY <3>1, <3>3, <3>4 DEF Dag!InTurn
  <2>3. CASE Dag!Ends(t) /\ v7' = v7
    <3>1. \A u \in Tasks : v6'[u] = Dag!Idle /\ v6'[u].at = "idle"
      BY <1>1, <2>1, <2>3, DagDone DEF Dag!Idle
    <3> QED BY <1>1, <2>1, <2>3, <3>1 DEF Dag!InTurn, Dag!Settled
  <2> QED BY <1>3, <2>2, <2>3
<1> QED BY <1>6, <1>7 DEF Dag!IInv

LEMMA DagLoads ==
    ASSUME Dag!IInv, NEW t \in Tasks, Dag!Load(t)
    PROVE  Dag!IInv'
<1> PICK b \in Blocks : b = v6[t].block
  BY DagMoves DEF Dag!IInv, Dag!Load
<1> PICK c \in {b, None} :
      /\ v4' = c
      /\ v6' = [v6 EXCEPT ![t] = [at |-> "loaded", block |-> c]]
  BY DEF Dag!Load
<1> DEFINE new == [at |-> "loaded", block |-> c]
<1>1. /\ Dag!TypeOK /\ v6[t].at = "found" /\ v6[t] # Dag!Idle
      /\ UNCHANGED <<v1, v2, v3, v5, v7, v8, v9>>
      /\ v6' = [v6 EXCEPT ![t] = new]
      /\ new \in DagTasks /\ new.at = "loaded" /\ new.block = c
  BY DEF Dag!IInv, Dag!Load, DagTasks, Dag!Idle
<1> HIDE DEF new
<1>2. v6' \in [Tasks -> DagTasks] /\ v4' \in Blocks \cup {None}
  BY <1>1, DagMoves
<1>3. Dag!TypeOK'
  BY <1>1, <1>2 DEF Dag!TypeOK, DagTasks
<1>4. ASSUME ~v9'
      PROVE  Dag!InTurn'
  <2>1. Dag!DetailOf(b) /\ \A u \in Tasks : u # t => v6[u] = Dag!Idle
    BY <1>1, <1>4, DagOne DEF Dag!IInv, Dag!InTurn
  <2>2. Dag!DetailOf(b)'
    BY <1>1, <2>1 DEF Dag!DetailOf
  <2>3. /\ v6'[t].at = "loaded" /\ v6'[t].block = c /\ v6'[t] # Dag!Idle
        /\ \A u \in Tasks : u # t => v6'[u] = Dag!Idle /\ v6'[u].at = "idle"
    BY <1>1, <2>1, DagMoves DEF Dag!Idle
  <2> QED BY <2>2, <2>3 DEF Dag!InTurn
<1> QED BY <1>3, <1>4 DEF Dag!IInv

LEMMA DagPosts ==
    ASSUME Dag!IInv, NEW t \in Tasks, Dag!PostRows(t)
    PROVE  Dag!IInv'
<1> PICK c : c = v6[t].block
  OBVIOUS
<1> DEFINE show == [show |-> "rows", block |-> c]
<1>1. /\ Dag!TypeOK /\ v6[t].at = "loaded" /\ v6[t] # Dag!Idle
      /\ Dag!Ends(t) /\ v7' = Append(v7, show)
      /\ UNCHANGED <<v1, v2, v3, v4, v5, v8, v9>>
  BY DEF Dag!IInv, Dag!PostRows, Dag!Post, Dag!Idle
<1>2. c \in Blocks \cup {None}
  BY <1>1, DagMoves DEF DagTasks, Dag!Idle
<1>3. show \in DagClosures /\ v7 \in Seq(DagClosures)
  BY <1>1, <1>2 DEF DagClosures, Dag!TypeOK
<1> HIDE DEF show
<1>4. v6' \in [Tasks -> DagTasks] /\ v7' \in Seq(DagClosures)
  BY <1>1, <1>3, DagMoves
<1>5. Dag!TypeOK'
  BY <1>1, <1>4 DEF Dag!TypeOK, DagTasks, DagClosures
<1>6. ASSUME ~v9'
      PROVE  Dag!InTurn'
  <2>1. v4 = c /\ \E b \in Blocks : Dag!DetailOf(b) /\ v4 \in {b, None}
    BY <1>1, <1>6 DEF Dag!IInv, Dag!InTurn
  <2>2. PICK b \in Blocks : Dag!DetailOf(b) /\ v4 \in {b, None}
    BY <2>1
  <2>3. \/ v7' = <<[show |-> "detail", block |-> b], show>>
        \/ v7' = <<show>> /\ v1 /\ v2 = b
    <3>1. [show |-> "detail", block |-> b] \in DagClosures
      BY DEF DagClosures
    <3> QED BY <1>1, <1>3, <2>2, <3>1, ShortQueues DEF Dag!DetailOf
  <2>4. Dag!RowsOf(b)'
    BY <1>1, <2>1, <2>2, <2>3 DEF Dag!RowsOf, show
  <2>5. \A u \in Tasks : v6'[u] = Dag!Idle /\ v6'[u].at = "idle"
    BY <1>1, <1>6, DagDone DEF Dag!Idle
  <2> QED BY <2>4, <2>5 DEF Dag!InTurn
<1> QED BY <1>5, <1>6 DEF Dag!IInv

\* What a closure finds: the rows never come before their detail.
LEMMA DagShows ==
    ASSUME Dag!IInv, ~v9, v7 # <<>>
    PROVE  \/ \E b \in Blocks :
                 /\ v7 = <<[show |-> "detail", block |-> b]>>
                 /\ \A t \in Tasks :
                       /\ v6[t].at \in {"idle", "found", "loaded"}
                       /\ v6[t].at = "found" => v6[t].block = b
                       /\ v6[t].at = "loaded" =>
                             v4 = v6[t].block /\ v4 \in {b, None}
                 /\ \E t \in Tasks : v6[t] # Dag!Idle
           \/ /\ \A t \in Tasks : v6[t] = Dag!Idle
              /\ \E b \in Blocks : Dag!RowsOf(b)
<1>1. Dag!TypeOK /\ Dag!InTurn
  BY DEF Dag!IInv
<1>2. CASE \A t \in Tasks : v6[t] = Dag!Idle
  BY <1>1, <1>2 DEF Dag!InTurn
<1>3. ASSUME NEW t \in Tasks, v6[t] # Dag!Idle
      PROVE  \E b \in Blocks :
                 /\ v7 = <<[show |-> "detail", block |-> b]>>
                 /\ \A u \in Tasks :
                       /\ v6[u].at \in {"idle", "found", "loaded"}
                       /\ v6[u].at = "found" => v6[u].block = b
                       /\ v6[u].at = "loaded" =>
                             v4 = v6[u].block /\ v4 \in {b, None}
  <2>1. \A u \in Tasks : u # t => v6[u].at = "idle"
    BY <1>3, DagOne DEF Dag!Idle
  <2>2. v6[t].at \in {"asked", "found", "loaded"}
    BY <1>1, <1>3, DagMoves DEF DagTasks
  <2>3. v6[t].at # "asked"
    BY <1>1 DEF Dag!InTurn
  <2>4. PICK b \in Blocks :
           /\ Dag!DetailOf(b)
           /\ v6[t].at = "found" => v6[t].block = b
           /\ v6[t].at = "loaded" => v4 = v6[t].block /\ v4 \in {b, None}
    BY <1>1, <2>2, <2>3, DagMoves DEF Dag!InTurn
  <2>5. v7 = <<[show |-> "detail", block |-> b]>>
    BY <2>4 DEF Dag!DetailOf
  <2> QED BY <2>1, <2>2, <2>3, <2>4, <2>5
<1> QED BY <1>2, <1>3

LEMMA DagClosureSteps ==
    ASSUME Dag!IInv, Dag!ShowDetail \/ Dag!ShowRows
    PROVE  Dag!IInv'
<1>1. /\ Dag!TypeOK /\ v7 # <<>> /\ v7' = Tail(v7)
      /\ v7 \in Seq(DagClosures)
      /\ UNCHANGED <<v4, v5, v6, v8, v9>>
  BY DEF Dag!IInv, Dag!ShowDetail, Dag!ShowRows, Dag!Shows, Dag!TypeOK,
         DagClosures
<1>2. v7' \in Seq(DagClosures) /\ Head(v7) \in DagClosures
  BY <1>1
<1>3. /\ v1' \in BOOLEAN /\ v2' \in Blocks \cup {None}
      /\ v3' \in Blocks \cup {None}
  BY <1>1, <1>2
  DEF Dag!ShowDetail, Dag!ShowRows, DagClosures, Dag!TypeOK
<1>4. Dag!TypeOK'
  BY <1>1, <1>2, <1>3 DEF Dag!TypeOK, DagClosures
<1>5. ASSUME ~v9'
      PROVE  Dag!InTurn'
  <2>1. \A t, u \in Tasks : v6[t] # Dag!Idle /\ v6[u] # Dag!Idle => t = u
    BY <1>1, <1>5 DEF Dag!IInv, Dag!InTurn
  <2>2. ASSUME NEW b \in Blocks,
               v7 = <<[show |-> "detail", block |-> b]>>,
               \A t \in Tasks :
                  /\ v6[t].at \in {"idle", "found", "loaded"}
                  /\ v6[t].at = "found" => v6[t].block = b
                  /\ v6[t].at = "loaded" =>
                        v4 = v6[t].block /\ v4 \in {b, None},
               \E t \in Tasks : v6[t] # Dag!Idle
        PROVE  Dag!InTurn'
    <3>1. v7' = <<>> /\ Head(v7) = [show |-> "detail", block |-> b]
      BY <1>1, <2>2
    <3>2. v1' = TRUE /\ v2' = b
      BY <3>1 DEF Dag!ShowDetail, Dag!ShowRows, Dag!Shows
    <3>3. Dag!DetailOf(b)'
      BY <3>1, <3>2 DEF Dag!DetailOf
    <3> QED BY <1>1, <2>1, <2>2, <3>3 DEF Dag!InTurn
  <2>3. ASSUME NEW b \in Blocks, Dag!RowsOf(b),
               \A t \in Tasks : v6[t] = Dag!Idle
        PROVE  Dag!InTurn'
    <3> DEFINE last == [show |-> "rows", block |-> v4]
               front == [show |-> "detail", block |-> b]
    <3>1. /\ v4 \in {b, None} /\ last.show = "rows" /\ last.block = v4
          /\ front.show = "detail" /\ front.block = b
          /\ v7 = <<front, last>> \/ (v7 = <<last>> /\ v1 /\ v2 = b)
      BY <2>3 DEF Dag!RowsOf
    <3>2. front \in DagClosures /\ last \in DagClosures
      BY <3>1 DEF DagClosures
    <3>3. \A t \in Tasks : v6'[t] = Dag!Idle /\ v6'[t].at = "idle"
      BY <1>1, <2>3 DEF Dag!Idle
    <3> HIDE DEF front, last
    <3>4. CASE v7 = <<front, last>>
      <4>1. v7' = <<last>> /\ Head(v7) = front
        BY <1>1, <3>2, <3>4, ShortQueues
      <4>2. v1' = TRUE /\ v2' = b
        BY <3>1, <4>1 DEF Dag!ShowDetail, Dag!ShowRows, Dag!Shows
      <4>3. Dag!RowsOf(b)'
        BY <1>1, <3>1, <4>1, <4>2 DEF Dag!RowsOf, last
      <4> QED BY <3>3, <4>3 DEF Dag!InTurn
    <3>5. CASE v7 = <<last>> /\ v1 /\ v2 = b
      <4>1. v7' = <<>> /\ Head(v7) = last
        BY <1>1, <3>2, <3>5, ShortQueues
      <4>2. v3' = v4 /\ UNCHANGED <<v1, v2>>
        BY <3>1, <4>1 DEF Dag!ShowDetail, Dag!ShowRows, Dag!Shows
      <4>3. Dag!Settled'
        BY <1>1, <3>1, <3>5, <4>2 DEF Dag!Settled
      <4> QED BY <3>3, <4>1, <4>3 DEF Dag!InTurn
    <3> QED BY <3>1, <3>4, <3>5
  <2> QED BY <1>1, <1>5, <2>2, <2>3, DagShows
<1> QED BY <1>4, <1>5 DEF Dag!IInv

\* The user goes back, or opens and closes a row.
LEMMA DagUserSteps ==
    ASSUME Dag!IInv, Dag!BackToList \/ Dag!RowClicked \/ Dag!CloseDrawer
    PROVE  Dag!IInv'
<1>1. /\ Dag!TypeOK /\ UNCHANGED <<v2, v4, v6, v7, v8>>
      /\ v1' \in BOOLEAN /\ v3' \in {v3, None} /\ v5' \in {v4, None, v5}
      /\ v9' \in BOOLEAN
  BY DEF Dag!IInv, Dag!BackToList, Dag!RowClicked, Dag!CloseDrawer, Dag!TypeOK
<1>2. Dag!TypeOK'
  BY <1>1 DEF Dag!TypeOK
<1>3. CASE Dag!BackToList
  <2>1. ASSUME ~v9'
        PROVE  Dag!InTurn'
    <3>1. ~Dag!Due /\ v1' = FALSE /\ v3' = None
      BY <1>3, <2>1 DEF Dag!BackToList
    <3>2. v7 = <<>> /\ \A t \in Tasks : v6[t] = Dag!Idle
      BY <3>1 DEF Dag!Due
    <3>3. \A t \in Tasks : v6[t].at = "idle"
      BY <3>2 DEF Dag!Idle
    <3>4. v7' = <<>> /\ \A t \in Tasks : v6'[t] = Dag!Idle
      BY <1>1, <3>2
    <3>5. Dag!Settled'
      BY <3>1 DEF Dag!Settled
    <3>6. \A t \in Tasks : v6'[t].at = "idle"
      BY <1>1, <3>3
    <3> QED BY <3>4, <3>5, <3>6 DEF Dag!InTurn
  <2> QED BY <1>2, <2>1 DEF Dag!IInv
<1>4. CASE Dag!RowClicked \/ Dag!CloseDrawer
  <2>1. UNCHANGED <<v1, v2, v3, v4, v6, v7, v8, v9>>
    BY <1>4 DEF Dag!RowClicked, Dag!CloseDrawer
  <2> QED BY <1>2, <2>1 DEF Dag!IInv, Dag!InTurn, Dag!Settled, Dag!DetailOf,
          Dag!RowsOf
<1> QED BY <1>3, <1>4

LEMMA DagKeeps ==
    ASSUME Dag!IInv, Dag!Next
    PROVE  Dag!IInv'
BY DagAsks, DagFinds, DagLoads, DagPosts, DagClosureSteps, DagUserSteps
   DEF Dag!Next

LEMMA DagStutters ==
    ASSUME Dag!IInv, UNCHANGED Slots
    PROVE  Dag!IInv'
<1>1. UNCHANGED <<v1, v2, v3, v4, v5, v6, v7, v8, v9>>
  BY DEF Slots
<1> QED BY <1>1 DEF Dag!IInv, Dag!TypeOK, Dag!InTurn, Dag!Settled,
        Dag!DetailOf, Dag!RowsOf

LEMMA DagQuiet ==
    ASSUME Dag!IInv
    PROVE  Dag!RowsOfDetail
<1>1. ASSUME ~Dag!Due, ~v9
      PROVE  Dag!Settled
  <2>1. v7 = <<>> /\ \A t \in Tasks : v6[t] = Dag!Idle
    BY <1>1 DEF Dag!Due
  <2>2. ASSUME NEW b \in Blocks, Dag!RowsOf(b) PROVE FALSE
    BY <2>1, <2>2 DEF Dag!RowsOf
  <2> QED BY <1>1, <2>1, <2>2 DEF Dag!IInv, Dag!InTurn
<1> QED BY <1>1 DEF Dag!RowsOfDetail, Dag!Settled

LEMMA DagInvariant ==
    ServicesSpec => [](focus = "dag" => Dag!IInv)
<1> DEFINE I == focus = "dag" => Dag!IInv
<1>1. ServicesInit => I
  BY WindowInits, DagBegins
<1>2. I /\ [ServicesNext]_serviceVars => I'
  BY WindowSteps, WindowStutters, DagKeeps, DagStutters
<1> QED BY <1>1, <1>2, PTL DEF ServicesSpec

-----------------------------------------------------------------------------
(* DaemonPanel                                                             *)
(* Slots: v1 is running, v2 pins, v3 online, v4 pinCount, v5 health, v6    *)
(* call, v7 posted, v8 calls, v9 known, v10 crossed.                       *)

DaemonCalls == {Daemon!Idle} \cup
                  [op : Daemon!Ops, at : {"begun", "absent", "looked"}]

LEMMA DaemonCallType ==
    ASSUME Daemon!TypeOK, NEW t \in Tasks
    PROVE  /\ v6 \in [Tasks -> DaemonCalls] /\ v6[t] \in DaemonCalls
           /\ v6[t] = Daemon!Idle <=> v6[t].at = "idle"
           /\ v6[t] = Daemon!Idle <=> v6[t].op = "none"
BY DEF Daemon!TypeOK, DaemonCalls, Daemon!Idle, Daemon!Ops

LEMMA DaemonMoves ==
    ASSUME Daemon!TypeOK, NEW t \in Tasks, v6[t] # Daemon!Idle
    PROVE  /\ Daemon!Ends(t) =>
                 /\ v6' \in [Tasks -> DaemonCalls] /\ v6'[t] = Daemon!Idle
                 /\ \A u \in Tasks : u # t => v6'[u] = v6[u]
           /\ \A at \in {"absent", "looked"} : Daemon!Goes(t, at) =>
                 /\ v6' \in [Tasks -> DaemonCalls]
                 /\ v6'[t] = [op |-> v6[t].op, at |-> at]
                 /\ \A u \in Tasks : u # t => v6'[u] = v6[u]
<1>1. v6 \in [Tasks -> DaemonCalls] /\ v6[t].op \in Daemon!Ops
  BY DaemonCallType DEF DaemonCalls
<1>2. ASSUME Daemon!Ends(t)
      PROVE  /\ v6' \in [Tasks -> DaemonCalls] /\ v6'[t] = Daemon!Idle
             /\ \A u \in Tasks : u # t => v6'[u] = v6[u]
  BY <1>1, <1>2 DEF Daemon!Ends, DaemonCalls
<1>3. ASSUME NEW at \in {"absent", "looked"}, Daemon!Goes(t, at)
      PROVE  /\ v6' \in [Tasks -> DaemonCalls]
             /\ v6'[t] = [op |-> v6[t].op, at |-> at]
             /\ \A u \in Tasks : u # t => v6'[u] = v6[u]
  <2>1. ASSUME NEW new, new = [v6[t] EXCEPT !.at = at]
        PROVE  new = [op |-> v6[t].op, at |-> at] /\ new \in DaemonCalls
    BY <2>1, <1>1, DaemonCallType DEF DaemonCalls
  <2>2. v6' = [v6 EXCEPT ![t] = [v6[t] EXCEPT !.at = at]]
    BY <1>3 DEF Daemon!Goes
  <2> QED BY <1>1, <2>1, <2>2
<1> QED BY <1>2, <1>3

LEMMA DaemonBegins == Daemon!Init => Daemon!IInv
<1> SUFFICES ASSUME Daemon!Init PROVE Daemon!IInv
  OBVIOUS
<1>1. 0 \in 0..MaxPanelCalls /\ 0 \in 0..MaxPins /\ v2 \in 0..MaxPins
  BY WindowsAssumption DEF Daemon!Init
<1>2. PICK t \in Tasks : v6 = [u \in Tasks |-> IF u = t
                      THEN [op |-> "detect", at |-> "begun"]
                      ELSE Daemon!Idle]
  BY DEF Daemon!Init
<1>3. v6 \in [Tasks -> DaemonCalls]
  BY <1>2 DEF DaemonCalls, Daemon!Ops
<1>4. Daemon!TypeOK
  <2>1. v7 \in Seq(Daemon!ClosureType) /\ v9 \subseteq {"panel", "health"}
    BY DEF Daemon!Init
  <2> QED BY <1>1, <1>3, <2>1 DEF Daemon!Init, Daemon!TypeOK, DaemonCalls
<1>5. Daemon!InTurn
  BY <1>2 DEF Daemon!Init, Daemon!InTurn
<1> QED BY <1>4, <1>5 DEF Daemon!IInv

\* What the operation that is under way leaves to the next state.
DaemonOf(t) ==
    /\ v7 = <<>> /\ \A u \in Tasks : u # t => v6[u] = Daemon!Idle
    /\ "panel" \in v9 =>
           /\ v3 = v1
           /\ \/ v6[t].op = "pin" /\ v6[t].at = "looked"
              \/ v4 = IF v1 THEN v2 ELSE 0
    /\ "health" \in v9 => v5 = IF v1 THEN "ok" ELSE "down"

LEMMA DaemonOne ==
    ASSUME Daemon!IInv, ~v10, NEW t \in Tasks, v6[t] # Daemon!Idle
    PROVE  DaemonOf(t)
<1>1. Daemon!InTurn /\ v7 = <<>>
      /\ \A u \in Tasks : u # t => v6[u] = Daemon!Idle
  BY DEF Daemon!IInv, Daemon!InTurn
<1>2. Daemon!Pinning => v6[t].op = "pin" /\ v6[t].at = "looked"
  BY <1>1 DEF Daemon!Pinning, Daemon!At, Daemon!Idle
<1> QED BY <1>1, <1>2 DEF Daemon!InTurn, DaemonOf

LEMMA DaemonNoneOut ==
    ASSUME Daemon!IInv, ~v10, NEW t \in Tasks, ~Daemon!Due
    PROVE  DaemonOf(t)
<1>1. Daemon!InTurn /\ v7 = <<>> /\ \A u \in Tasks : v6[u] = Daemon!Idle
  BY DEF Daemon!IInv, Daemon!Due
<1>2. ~Daemon!Pinning
  BY <1>1 DEF Daemon!Pinning, Daemon!At, Daemon!Idle
<1> QED BY <1>1, <1>2 DEF Daemon!InTurn, DaemonOf

\* It goes on, or ends without a closure.
LEMMA DaemonGoesOn ==
    ASSUME NEW t \in Tasks, DaemonOf(t)'
    PROVE  Daemon!InTurn'
<1>1. v7' = <<>> /\ \A u \in Tasks : u # t => v6'[u] = Daemon!Idle
  BY DEF DaemonOf
<1>2. v6'[t].op = "pin" /\ v6'[t].at = "looked" => Daemon!Pinning'
  BY DEF Daemon!Pinning, Daemon!At
<1> QED BY <1>1, <1>2 DEF Daemon!InTurn, DaemonOf

\* It ends with closure c.
LEMMA DaemonPosts ==
    ASSUME NEW t \in Tasks, NEW c \in Daemon!ClosureType,
           v7' = <<c>>, \A u \in Tasks : v6'[u] = Daemon!Idle,
           c.sure => Daemon!IsSo(c)',
           "panel" \in v9' => /\ v3' = v1'
                              /\ c.show = "pins"
                                     \/ v4' = (IF v1' THEN v2' ELSE 0),
           "health" \in v9' => v5' = IF v1' THEN "ok" ELSE "down"
    PROVE  Daemon!InTurn'
<1>1. c.show = "pins" => Daemon!Pinning'
  BY DEF Daemon!Pinning
<1>2. /\ Len(v7') = 1 /\ \A i \in DOMAIN v7' : v7'[i] = c
  OBVIOUS
<1> QED BY <1>1, <1>2 DEF Daemon!InTurn

-----------------------------------------------------------------------------
LEMMA DaemonBegin ==
    ASSUME Daemon!IInv, NEW t \in Tasks, NEW op \in Daemon!Ops,
           Daemon!Begin(t, op)
    PROVE  Daemon!IInv'
<1>1. /\ v6[t] = Daemon!Idle /\ v8' = v8 + 1 /\ v8 < MaxPanelCalls
      /\ v10' = (v10 \/ Daemon!Due)
      /\ v6' = [v6 EXCEPT ![t] = [op |-> op, at |-> "begun"]]
      /\ UNCHANGED <<v1, v2, v3, v4, v5, v7, v9>>
      /\ Daemon!TypeOK
  BY DEF Daemon!Begin, Daemon!daemonVars, Daemon!viewVars, Daemon!IInv
<1>2. /\ v6' \in [Tasks -> DaemonCalls]
      /\ v6'[t] = [op |-> op, at |-> "begun"]
      /\ \A u \in Tasks : u # t => v6'[u] = v6[u]
  BY <1>1, DaemonCallType DEF DaemonCalls
<1>3. v8' \in 0..MaxPanelCalls
  BY <1>1, WindowsAssumption DEF Daemon!TypeOK
<1>4. v10' \in BOOLEAN
  BY DEF Daemon!Begin
<1>5. Daemon!TypeOK'
  BY <1>1, <1>2, <1>3, <1>4 DEF Daemon!TypeOK, DaemonCalls
<1>6. ASSUME ~v10' PROVE Daemon!InTurn'
  <2>1. DaemonOf(t)
    BY <1>1, <1>6, DaemonNoneOut
  <2>2. v6[t].op = "none"
    BY <1>1 DEF Daemon!Idle
  <2>3. DaemonOf(t)'
    BY <1>1, <1>2, <2>1, <2>2 DEF DaemonOf
  <2> QED BY <2>3, DaemonGoesOn
<1> QED BY <1>5, <1>6 DEF Daemon!IInv

\* What a step of an operation leaves alone, and of its type.
DaemonRest ==
    /\ UNCHANGED <<v3, v4, v5, v8, v10>>
    /\ v1' \in BOOLEAN /\ v2' \in 0..MaxPins /\ v9' \subseteq v9
    /\ v6' \in [Tasks -> DaemonCalls]

LEMMA DaemonTyped ==
    ASSUME Daemon!TypeOK, DaemonRest,
           v7' = v7 \/ \E c \in Daemon!ClosureType : v7' = Append(v7, c)
    PROVE  Daemon!TypeOK'
<1>1. v7' \in Seq(Daemon!ClosureType)
  <2>1. v7 \in Seq(Daemon!ClosureType)
    BY DEF Daemon!TypeOK
  <2> QED BY <2>1
<1>2. v9' \subseteq {"panel", "health"}
  BY DEF Daemon!TypeOK, DaemonRest
<1> QED BY <1>1, <1>2 DEF Daemon!TypeOK, DaemonRest, DaemonCalls

\* A step of an operation that posts nothing.
LEMMA DaemonQuietly ==
    ASSUME Daemon!IInv, NEW t \in Tasks, v6[t] # Daemon!Idle,
           DaemonRest, v7' = v7,
           \A u \in Tasks : u # t => v6'[u] = v6[u],
           "panel" \in v9' =>
               /\ v1' = v1
               /\ \/ v6'[t].op = "pin" /\ v6'[t].at = "looked"
                  \/ v2' = v2 /\ ~(v6[t].op = "pin" /\ v6[t].at = "looked"),
           "health" \in v9' => v1' = v1
    PROVE  Daemon!IInv'
<1>1. Daemon!TypeOK'
  BY DaemonTyped DEF Daemon!IInv
<1>2. ASSUME ~v10' PROVE Daemon!InTurn'
  <2>1. DaemonOf(t)
    BY <1>2, DaemonOne DEF DaemonRest
  <2>2. DaemonOf(t)'
    BY <2>1 DEF DaemonOf, DaemonRest
  <2> QED BY <2>2, DaemonGoesOn
<1> QED BY <1>1, <1>2 DEF Daemon!IInv

\* The last step of an operation, which posts closure c.
LEMMA DaemonAnswered ==
    ASSUME Daemon!IInv, NEW t \in Tasks, v6[t] # Daemon!Idle,
           DaemonRest, Daemon!Ends(t), NEW c \in Daemon!ClosureType,
           v7' = Append(v7, c), c.sure => Daemon!IsSo(c)', v2' = v2,
           c.show = "pins" <=> v6[t].op = "pin",
           v9' # {} => v1' = v1
    PROVE  Daemon!IInv'
<1>1. Daemon!TypeOK'
  BY DaemonTyped DEF Daemon!IInv
<1>2. ASSUME ~v10' PROVE Daemon!InTurn'
  <2>1. DaemonOf(t)
    BY <1>2, DaemonOne DEF DaemonRest
  <2>2. v7' = <<c>>
    BY <2>1, ShortQueues DEF DaemonOf
  <2>3. \A u \in Tasks : v6'[u] = Daemon!Idle
    BY <2>1, DaemonMoves DEF DaemonOf, Daemon!IInv
  <2>4. "panel" \in v9' => /\ v3' = v1'
                           /\ c.show = "pins"
                                  \/ v4' = (IF v1' THEN v2' ELSE 0)
    BY <2>1 DEF DaemonOf, DaemonRest
  <2>5. "health" \in v9' => v5' = IF v1' THEN "ok" ELSE "down"
    BY <2>1 DEF DaemonOf, DaemonRest
  <2> QED BY <2>2, <2>3, <2>4, <2>5, DaemonPosts
<1> QED BY <1>1, <1>2 DEF Daemon!IInv

-----------------------------------------------------------------------------
LEMMA DaemonAnswers ==
    ASSUME Daemon!IInv, NEW t \in Tasks, Daemon!Answers(t)
    PROVE  Daemon!IInv'
<1>1. /\ v6[t].op \in {"start", "refresh", "detect"} /\ v6[t].at = "begun"
      /\ Daemon!Goes(t, "looked") /\ Daemon!TypeOK
      /\ UNCHANGED <<v1, v2, v3, v4, v5, v7, v8, v9, v10>>
  BY DEF Daemon!Answers, Daemon!At, Daemon!IInv, Daemon!daemonVars,
         Daemon!viewVars
<1>2. v6[t] # Daemon!Idle
  BY <1>1 DEF Daemon!Idle
<1>3. /\ v6' \in [Tasks -> DaemonCalls]
      /\ \A u \in Tasks : u # t => v6'[u] = v6[u]
  BY <1>1, <1>2, DaemonMoves
<1>4. DaemonRest
  BY <1>1, <1>3 DEF DaemonRest, Daemon!TypeOK
<1> QED BY <1>1, <1>2, <1>3, <1>4, DaemonQuietly

LEMMA DaemonNoAnswer ==
    ASSUME Daemon!IInv, NEW t \in Tasks, Daemon!NoAnswer(t)
    PROVE  Daemon!IInv'
<1>1. /\ Daemon!TypeOK /\ v6[t].at = "begun"
      /\ UNCHANGED <<v1, v2, v3, v4, v5, v8, v9, v10>>
      /\ \/ /\ v6[t].op \in {"start", "detect"} /\ v7' = v7
            /\ Daemon!Goes(t, "absent") \/ Daemon!Ends(t)
         \/ /\ v6[t].op = "refresh" /\ Daemon!Ends(t)
            /\ Daemon!Post("offline", 0, ~v1)
  BY DEF Daemon!NoAnswer, Daemon!IInv, Daemon!daemonVars, Daemon!viewVars
<1>2. v6[t] # Daemon!Idle
  BY <1>1 DEF Daemon!Idle
<1>3. /\ v6' \in [Tasks -> DaemonCalls]
      /\ \A u \in Tasks : u # t => v6'[u] = v6[u]
  BY <1>1, <1>2, DaemonMoves
<1>4. DaemonRest
  BY <1>1, <1>3 DEF DaemonRest, Daemon!TypeOK
<1>5. CASE v7' = v7
  BY <1>1, <1>2, <1>3, <1>4, <1>5, DaemonQuietly DEF Daemon!IInv
<1>6. CASE /\ v6[t].op = "refresh" /\ Daemon!Ends(t)
           /\ Daemon!Post("offline", 0, ~v1)
  <2>1. PICK c : c = [show |-> "offline", pins |-> 0, sure |-> ~v1]
    OBVIOUS
  <2>2. c \in Daemon!ClosureType /\ c.show = "offline"
    BY <1>1, <2>1, WindowsAssumption DEF Daemon!ClosureType, Daemon!TypeOK
  <2>3. c.sure => Daemon!IsSo(c)'
    BY <1>1, <2>1 DEF Daemon!IsSo
  <2>4. v7' = Append(v7, c)
    BY <1>6, <2>1 DEF Daemon!Post
  <2> QED BY <1>1, <1>2, <1>4, <1>6, <2>2, <2>3, <2>4, DaemonAnswered
<1> QED BY <1>1, <1>5, <1>6

LEMMA DaemonStarts ==
    ASSUME Daemon!IInv, NEW t \in Tasks, Daemon!Starts(t)
    PROVE  Daemon!IInv'
<1>1. /\ Daemon!TypeOK /\ v6[t].op = "start" /\ v6[t].at = "absent"
      /\ UNCHANGED <<v2, v3, v4, v5, v7, v8, v10>>
      /\ v1' \in {v1, TRUE} /\ v9' = (IF v1' = v1 THEN v9 ELSE {})
      /\ Daemon!Goes(t, "looked") \/ Daemon!Ends(t)
  BY DEF Daemon!Starts, Daemon!At, Daemon!IInv, Daemon!viewVars
<1>2. v6[t] # Daemon!Idle
  BY <1>1 DEF Daemon!Idle
<1>3. /\ v6' \in [Tasks -> DaemonCalls]
      /\ \A u \in Tasks : u # t => v6'[u] = v6[u]
  BY <1>1, <1>2, DaemonMoves
<1>4. DaemonRest
  BY <1>1, <1>3 DEF DaemonRest, Daemon!TypeOK
<1> QED BY <1>1, <1>2, <1>3, <1>4, DaemonQuietly

LEMMA DaemonFetches ==
    ASSUME Daemon!IInv, NEW t \in Tasks, Daemon!FetchStats(t)
    PROVE  Daemon!IInv'
<1>1. /\ Daemon!TypeOK /\ v6[t].at = "looked" /\ Daemon!Ends(t)
      /\ UNCHANGED <<v1, v2, v3, v4, v5, v8, v9, v10>>
      /\ LET show == IF v6[t].op = "pin" THEN "pins" ELSE "online"
         IN  \/ v1 /\ Daemon!Post(show, v2, TRUE)
             \/ Daemon!Post(show, 0, FALSE)
  BY DEF Daemon!FetchStats, Daemon!At, Daemon!IInv, Daemon!daemonVars,
         Daemon!viewVars
<1>2. v6[t] # Daemon!Idle
  BY <1>1 DEF Daemon!Idle
<1>3. v6' \in [Tasks -> DaemonCalls]
  BY <1>1, <1>2, DaemonMoves
<1>4. DaemonRest
  BY <1>1, <1>3 DEF DaemonRest, Daemon!TypeOK
<1>5. PICK show \in {"pins", "online"}, n \in 0..MaxPins, sure \in BOOLEAN :
          /\ Daemon!Post(show, n, sure)
          /\ sure => v1 /\ n = v2
          /\ show = "pins" <=> v6[t].op = "pin"
  <2>1. v2 \in 0..MaxPins /\ 0 \in 0..MaxPins
    BY <1>1, WindowsAssumption DEF Daemon!TypeOK
  <2> QED BY <1>1, <2>1
<1>6. PICK c : c = [show |-> show, pins |-> n, sure |-> sure]
  OBVIOUS
<1>7. c \in Daemon!ClosureType /\ (c.show = "pins" <=> v6[t].op = "pin")
  BY <1>5, <1>6 DEF Daemon!ClosureType
<1>8. c.sure => Daemon!IsSo(c)'
  BY <1>1, <1>5, <1>6 DEF Daemon!IsSo
<1>9. v7' = Append(v7, c)
  BY <1>5, <1>6 DEF Daemon!Post
<1> QED BY <1>1, <1>2, <1>4, <1>7, <1>8, <1>9, DaemonAnswered

LEMMA DaemonStops ==
    ASSUME Daemon!IInv, NEW t \in Tasks, Daemon!StopDaemon(t)
    PROVE  Daemon!IInv'
<1>1. /\ Daemon!TypeOK /\ v6[t].op = "stop" /\ v6[t].at = "begun"
      /\ UNCHANGED <<v2, v3, v4, v5, v8, v10>> /\ Daemon!Ends(t)
      /\ v1' \in {v1, FALSE} /\ v9' = (IF v1' = v1 THEN v9 ELSE {})
      /\ Daemon!Post("offline", 0, ~v1')
  BY DEF Daemon!StopDaemon, Daemon!At, Daemon!IInv, Daemon!viewVars
<1>2. v6[t] # Daemon!Idle
  BY <1>1 DEF Daemon!Idle
<1>3. v6' \in [Tasks -> DaemonCalls]
  BY <1>1, <1>2, DaemonMoves
<1>4. DaemonRest
  BY <1>1, <1>3 DEF DaemonRest, Daemon!TypeOK
<1>5. PICK c : c = [show |-> "offline", pins |-> 0, sure |-> ~v1']
  OBVIOUS
<1>6. c \in Daemon!ClosureType /\ c.show = "offline"
  BY <1>4, <1>5, WindowsAssumption DEF Daemon!ClosureType, DaemonRest
<1>7. c.sure => Daemon!IsSo(c)'
  BY <1>5 DEF Daemon!IsSo
<1>8. v7' = Append(v7, c)
  BY <1>1, <1>5 DEF Daemon!Post
<1> QED BY <1>1, <1>2, <1>4, <1>6, <1>7, <1>8, DaemonAnswered

LEMMA DaemonPins ==
    ASSUME Daemon!IInv, NEW t \in Tasks, Daemon!PinCid(t)
    PROVE  Daemon!IInv'
<1>1. /\ Daemon!TypeOK /\ v6[t].op = "pin" /\ v6[t].at = "begun"
      /\ UNCHANGED <<v1, v3, v4, v5, v7, v8, v10>>
      /\ \/ v2' = v2 + 1 /\ v2 < MaxPins /\ Daemon!Goes(t, "looked")
                /\ v9' = v9
         \/ v2' = v2 + 1 /\ v2 < MaxPins /\ Daemon!Ends(t)
                /\ v9' = v9 \ {"panel"}
         \/ v2' = v2 /\ v9' = v9 /\ Daemon!Ends(t)
  BY DEF Daemon!PinCid, Daemon!At, Daemon!IInv, Daemon!viewVars
<1>2. v6[t] # Daemon!Idle
  BY <1>1 DEF Daemon!Idle
<1>3. /\ v6' \in [Tasks -> DaemonCalls]
      /\ \A u \in Tasks : u # t => v6'[u] = v6[u]
      /\ Daemon!Goes(t, "looked") => /\ v6'[t].op = "pin"
                                     /\ v6'[t].at = "looked"
  <2>1. Daemon!Goes(t, "looked") =>
            v6'[t] = [op |-> v6[t].op, at |-> "looked"]
    BY <1>1, <1>2, DaemonMoves
  <2>2. /\ v6' \in [Tasks -> DaemonCalls]
        /\ \A u \in Tasks : u # t => v6'[u] = v6[u]
    BY <1>1, <1>2, DaemonMoves
  <2> QED BY <1>1, <2>1, <2>2
<1>4. v2' \in 0..MaxPins
  BY <1>1, WindowsAssumption DEF Daemon!TypeOK
<1>5. DaemonRest
  BY <1>1, <1>3, <1>4 DEF DaemonRest, Daemon!TypeOK
<1> QED BY <1>1, <1>2, <1>3, <1>5, DaemonQuietly

LEMMA DaemonHealthStarts ==
    ASSUME Daemon!IInv, NEW t \in Tasks, Daemon!HealthStart(t)
    PROVE  Daemon!IInv'
<1>1. /\ Daemon!TypeOK /\ v6[t].op = "health-start" /\ v6[t].at = "begun"
      /\ UNCHANGED <<v2, v3, v4, v5, v7, v8, v10>>
      /\ v1' \in {v1, TRUE} /\ v9' = (IF v1' = v1 THEN v9 ELSE {})
      /\ Daemon!Goes(t, "looked")
  BY DEF Daemon!HealthStart, Daemon!At, Daemon!IInv, Daemon!viewVars
<1>2. v6[t] # Daemon!Idle
  BY <1>1 DEF Daemon!Idle
<1>3. /\ v6' \in [Tasks -> DaemonCalls]
      /\ \A u \in Tasks : u # t => v6'[u] = v6[u]
  BY <1>1, <1>2, DaemonMoves
<1>4. DaemonRest
  BY <1>1, <1>3 DEF DaemonRest, Daemon!TypeOK
<1> QED BY <1>1, <1>2, <1>3, <1>4, DaemonQuietly

LEMMA DaemonProbes ==
    ASSUME Daemon!IInv, NEW t \in Tasks, Daemon!Probe(t)
    PROVE  Daemon!IInv'
<1>1. /\ Daemon!TypeOK /\ v6[t].op \in {"health", "health-start"}
      /\ UNCHANGED <<v1, v2, v3, v4, v5, v8, v9, v10>> /\ Daemon!Ends(t)
      /\ \/ v1 /\ Daemon!Post("ok", 0, TRUE)
         \/ Daemon!Post("down", 0, ~v1)
  BY DEF Daemon!Probe, Daemon!At, Daemon!IInv, Daemon!daemonVars,
         Daemon!viewVars
<1>2. v6[t] # Daemon!Idle
  BY <1>1 DEF Daemon!Idle
<1>3. v6' \in [Tasks -> DaemonCalls]
  BY <1>1, <1>2, DaemonMoves
<1>4. DaemonRest
  BY <1>1, <1>3 DEF DaemonRest, Daemon!TypeOK
<1>5. PICK show \in {"ok", "down"}, sure \in BOOLEAN :
          /\ Daemon!Post(show, 0, sure)
          /\ sure => (show = "ok" <=> v1)
  BY <1>1 DEF Daemon!TypeOK
<1>6. PICK c : c = [show |-> show, pins |-> 0, sure |-> sure]
  OBVIOUS
<1>7. c \in Daemon!ClosureType /\ c.show \in {"ok", "down"}
  BY <1>5, <1>6, WindowsAssumption DEF Daemon!ClosureType
<1>8. c.sure => Daemon!IsSo(c)'
  BY <1>1, <1>5, <1>6 DEF Daemon!IsSo
<1>9. v7' = Append(v7, c)
  BY <1>5, <1>6 DEF Daemon!Post
<1> QED BY <1>1, <1>2, <1>4, <1>7, <1>8, <1>9, DaemonAnswered

LEMMA DaemonOutside ==
    ASSUME Daemon!IInv, Daemon!Outside
    PROVE  Daemon!IInv'
<1>1. /\ Daemon!TypeOK /\ v9' = {} /\ v10' = (v10 \/ Daemon!Due)
      /\ UNCHANGED <<v3, v4, v5, v6, v7, v8>>
      /\ \/ v1' = ~v1 /\ v2' = v2
         \/ v2' = v2 + 1 /\ v2 < MaxPins /\ v1' = v1
  BY DEF Daemon!Outside, Daemon!IInv, Daemon!viewVars
<1>2. v2' \in 0..MaxPins
  BY <1>1, WindowsAssumption DEF Daemon!TypeOK
<1>3. v10' \in BOOLEAN /\ v1' \in BOOLEAN
  BY <1>1 DEF Daemon!Outside, Daemon!TypeOK
<1>4. Daemon!TypeOK'
  BY <1>1, <1>2, <1>3 DEF Daemon!TypeOK
<1>5. ASSUME ~v10' PROVE Daemon!InTurn'
  <2>1. v7 = <<>> /\ \A t \in Tasks : v6[t] = Daemon!Idle
    BY <1>1, <1>5 DEF Daemon!Due
  <2> QED BY <1>1, <2>1 DEF Daemon!InTurn
<1> QED BY <1>4, <1>5 DEF Daemon!IInv

-----------------------------------------------------------------------------
\* The UI thread runs closure c, the only one there is.
LEMMA DaemonHead ==
    ASSUME Daemon!IInv, v7 # <<>>, v7' = Tail(v7), v6' = v6
    PROVE  /\ Daemon!TypeOK /\ v7' \in Seq(Daemon!ClosureType)
           /\ Head(v7) \in Daemon!ClosureType
           /\ ~v10 =>
                 /\ v7' = <<>> /\ \A t \in Tasks : v6'[t] = Daemon!Idle
                 /\ Head(v7).sure => Daemon!IsSo(Head(v7))
                 /\ "panel" \in v9 => /\ v3 = v1
                                      /\ \/ Head(v7).show = "pins"
                                         \/ v4 = (IF v1 THEN v2 ELSE 0)
                 /\ "health" \in v9 => v5 = IF v1 THEN "ok" ELSE "down"
<1>1. Daemon!TypeOK /\ v7 \in Seq(Daemon!ClosureType)
  BY DEF Daemon!IInv, Daemon!TypeOK
<1>2. v7' \in Seq(Daemon!ClosureType) /\ Head(v7) \in Daemon!ClosureType
  BY <1>1
<1>3. ASSUME ~v10
      PROVE  /\ v7' = <<>> /\ \A t \in Tasks : v6'[t] = Daemon!Idle
             /\ Head(v7).sure => Daemon!IsSo(Head(v7))
             /\ "panel" \in v9 => /\ v3 = v1
                                  /\ \/ Head(v7).show = "pins"
                                     \/ v4 = (IF v1 THEN v2 ELSE 0)
             /\ "health" \in v9 => v5 = IF v1 THEN "ok" ELSE "down"
  <2>1. Daemon!InTurn /\ \A t \in Tasks : v6[t] = Daemon!Idle
    BY <1>3 DEF Daemon!IInv, Daemon!InTurn
  <2>2. PICK c \in Daemon!ClosureType : v7 = <<c>>
    BY <1>1, <2>1, Single DEF Daemon!InTurn
  <2>3. Head(v7) = c /\ v7' = <<>> /\ 1 \in DOMAIN v7 /\ v7[1] = c
    BY <2>2
  <2>4. c.sure => Daemon!IsSo(c)
    BY <2>1, <2>3 DEF Daemon!InTurn
  <2>5. Daemon!Pinning => c.show = "pins"
    <3>1. \A i \in DOMAIN v7 : v7[i] = c
      BY <2>2
    <3> QED BY <2>1, <3>1 DEF Daemon!Pinning, Daemon!At, Daemon!Idle
  <2> QED BY <2>1, <2>3, <2>4, <2>5 DEF Daemon!InTurn
<1> QED BY <1>1, <1>2, <1>3

LEMMA DaemonShows ==
    ASSUME Daemon!IInv, v7 # <<>>, v7' = Tail(v7),
           UNCHANGED <<v1, v2, v6, v8, v10>>,
           v3' \in BOOLEAN, v4' \in 0..MaxPins,
           v5' \in {"unknown", "ok", "down"}, v9' \subseteq {"panel", "health"},
           ~v10 =>
               /\ "panel" \in v9' => /\ v3' = v1
                                     /\ v4' = (IF v1 THEN v2 ELSE 0)
               /\ "health" \in v9' => v5' = IF v1 THEN "ok" ELSE "down"
    PROVE  Daemon!IInv'
<1>1. Daemon!TypeOK'
  BY DaemonHead DEF Daemon!TypeOK
<1>2. ASSUME ~v10' PROVE Daemon!InTurn'
  <2>1. v7' = <<>> /\ \A t \in Tasks : v6'[t] = Daemon!Idle
    BY <1>2, DaemonHead
  <2> QED BY <1>2, <2>1 DEF Daemon!InTurn
<1> QED BY <1>1, <1>2 DEF Daemon!IInv

LEMMA DaemonShowsPanel ==
    ASSUME Daemon!IInv, Daemon!ShowPanel
    PROVE  Daemon!IInv'
<1>1. /\ v7 # <<>> /\ v7' = Tail(v7) /\ UNCHANGED <<v1, v2, v5, v6, v8, v10>>
      /\ Head(v7).show \in {"online", "offline"}
      /\ v3' = (Head(v7).show = "online") /\ v4' = Head(v7).pins
      /\ v9' = IF Head(v7).sure THEN v9 \cup {"panel"} ELSE v9 \ {"panel"}
  BY DEF Daemon!ShowPanel, Daemon!Shows, Daemon!Learns, Daemon!daemonVars
<1>2. /\ v3' \in BOOLEAN /\ v4' \in 0..MaxPins
      /\ v5' \in {"unknown", "ok", "down"} /\ v9' \subseteq {"panel", "health"}
  BY <1>1, DaemonHead DEF Daemon!TypeOK, Daemon!ClosureType
<1>3. ASSUME ~v10
      PROVE  /\ "panel" \in v9' => /\ v3' = v1
                                   /\ v4' = (IF v1 THEN v2 ELSE 0)
             /\ "health" \in v9' => v5' = IF v1 THEN "ok" ELSE "down"
  <2>1. Head(v7).sure => Daemon!IsSo(Head(v7))
    BY <1>1, <1>3, DaemonHead
  <2>2. v1 \in BOOLEAN
    BY DEF Daemon!IInv, Daemon!TypeOK
  <2>3. "panel" \in v9' => v3' = v1 /\ v4' = (IF v1 THEN v2 ELSE 0)
    BY <1>1, <2>1, <2>2 DEF Daemon!IsSo
  <2>4. "health" \in v9' => v5' = IF v1 THEN "ok" ELSE "down"
    BY <1>1, <1>3, DaemonHead
  <2> QED BY <2>3, <2>4
<1> QED BY <1>1, <1>2, <1>3, DaemonShows

LEMMA DaemonShowsPins ==
    ASSUME Daemon!IInv, Daemon!ShowPins
    PROVE  Daemon!IInv'
<1>1. /\ v7 # <<>> /\ v7' = Tail(v7)
      /\ UNCHANGED <<v1, v2, v3, v5, v6, v8, v10>>
      /\ Head(v7).show = "pins" /\ v4' = Head(v7).pins
      /\ v9' = IF Head(v7).sure THEN v9 ELSE v9 \ {"panel"}
  BY DEF Daemon!ShowPins, Daemon!Shows, Daemon!daemonVars
<1>2. /\ v3' \in BOOLEAN /\ v4' \in 0..MaxPins
      /\ v5' \in {"unknown", "ok", "down"} /\ v9' \subseteq {"panel", "health"}
  BY <1>1, DaemonHead DEF Daemon!TypeOK, Daemon!ClosureType
<1>3. ASSUME ~v10
      PROVE  /\ "panel" \in v9' => /\ v3' = v1
                                   /\ v4' = (IF v1 THEN v2 ELSE 0)
             /\ "health" \in v9' => v5' = IF v1 THEN "ok" ELSE "down"
  <2>1. Head(v7).sure => Daemon!IsSo(Head(v7))
    BY <1>1, <1>3, DaemonHead
  <2>2. Head(v7).sure => v1 /\ v4' = v2
    BY <1>1, <2>1 DEF Daemon!IsSo
  <2>3. "panel" \in v9' => Head(v7).sure /\ v3' = v1
    BY <1>1, <1>3, DaemonHead
  <2>4. "health" \in v9' => v5' = IF v1 THEN "ok" ELSE "down"
    BY <1>1, <1>3, DaemonHead
  <2> QED BY <2>2, <2>3, <2>4
<1> QED BY <1>1, <1>2, <1>3, DaemonShows

LEMMA DaemonShowsHealth ==
    ASSUME Daemon!IInv, Daemon!ShowHealth
    PROVE  Daemon!IInv'
<1>1. /\ v7 # <<>> /\ v7' = Tail(v7)
      /\ UNCHANGED <<v1, v2, v3, v4, v6, v8, v10>>
      /\ Head(v7).show \in {"ok", "down"} /\ v5' = Head(v7).show
      /\ v9' = IF Head(v7).sure THEN v9 \cup {"health"} ELSE v9 \ {"health"}
  BY DEF Daemon!ShowHealth, Daemon!Shows, Daemon!Learns, Daemon!daemonVars
<1>2. /\ v3' \in BOOLEAN /\ v4' \in 0..MaxPins
      /\ v5' \in {"unknown", "ok", "down"} /\ v9' \subseteq {"panel", "health"}
  BY <1>1, DaemonHead DEF Daemon!TypeOK
<1>3. ASSUME ~v10
      PROVE  /\ "panel" \in v9' => /\ v3' = v1
                                   /\ v4' = (IF v1 THEN v2 ELSE 0)
             /\ "health" \in v9' => v5' = IF v1 THEN "ok" ELSE "down"
  <2>1. Head(v7).sure => Daemon!IsSo(Head(v7))
    BY <1>1, <1>3, DaemonHead
  <2>2. "panel" \in v9' => v3' = v1 /\ v4' = (IF v1 THEN v2 ELSE 0)
    BY <1>1, <1>3, DaemonHead
  <2>3. "health" \in v9' => v5' = IF v1 THEN "ok" ELSE "down"
    BY <1>1, <2>1 DEF Daemon!IsSo
  <2> QED BY <2>2, <2>3
<1> QED BY <1>1, <1>2, <1>3, DaemonShows

LEMMA DaemonKeeps ==
    ASSUME Daemon!IInv, Daemon!Next
    PROVE  Daemon!IInv'
BY DaemonBegin, DaemonAnswers, DaemonNoAnswer, DaemonStarts, DaemonFetches,
   DaemonStops, DaemonPins, DaemonHealthStarts, DaemonProbes, DaemonOutside,
   DaemonShowsPanel, DaemonShowsPins, DaemonShowsHealth DEF Daemon!Next

LEMMA DaemonStutters ==
    ASSUME Daemon!IInv, UNCHANGED Slots
    PROVE  Daemon!IInv'
<1>1. UNCHANGED <<v1, v2, v3, v4, v5, v6, v7, v8, v9, v10>>
  BY DEF Slots
<1> QED BY <1>1 DEF Daemon!IInv, Daemon!TypeOK, Daemon!InTurn, Daemon!IsSo,
        Daemon!Pinning, Daemon!At

LEMMA DaemonQuiet ==
    ASSUME Daemon!IInv
    PROVE  Daemon!DaemonShown
<1>1. ASSUME ~Daemon!Due, ~v10 PROVE Daemon!InTurn /\ ~Daemon!Pinning
  <2>1. v7 = <<>> /\ \A t \in Tasks : v6[t] = Daemon!Idle
    BY <1>1 DEF Daemon!Due
  <2> QED BY <1>1, <2>1 DEF Daemon!IInv, Daemon!Pinning, Daemon!At,
          Daemon!Idle
<1> QED BY <1>1 DEF Daemon!DaemonShown, Daemon!InTurn

LEMMA DaemonInvariant ==
    ServicesSpec => [](focus = "daemon" => Daemon!IInv)
<1> DEFINE I == focus = "daemon" => Daemon!IInv
<1>1. ServicesInit => I
  BY WindowInits, DaemonBegins
<1>2. I /\ [ServicesNext]_serviceVars => I'
  BY WindowSteps, WindowStutters, DaemonKeeps, DaemonStutters
<1> QED BY <1>1, <1>2, PTL DEF ServicesSpec

-----------------------------------------------------------------------------
(* ChainPanel                                                              *)
(* Slots: v1 is paused, v2 registered, v3 pausedShown, v4 registeredShown, *)
(* v5 connected, v6 call, v7 posted, v8 calls, v9 known, v10 crossed.      *)

ChainCalls == {Chain!Idle} \cup [op : Chain!Ops, at : {"begun", "provider"}]
ChainClosures == [show : Chain!Views \cup {"listing"}, yes : BOOLEAN,
                  sure : BOOLEAN]

LEMMA ChainCallType ==
    ASSUME Chain!TypeOK, NEW t \in Tasks
    PROVE  /\ v6 \in [Tasks -> ChainCalls] /\ v6[t] \in ChainCalls
           /\ v6[t] = Chain!Idle <=> v6[t].at = "idle"
BY DEF Chain!TypeOK, ChainCalls, Chain!Idle, Chain!Ops

LEMMA ChainEnds ==
    ASSUME Chain!TypeOK, NEW t \in Tasks, Chain!Ends(t)
    PROVE  /\ v6' \in [Tasks -> ChainCalls] /\ v6'[t] = Chain!Idle
           /\ \A u \in Tasks : u # t => v6'[u] = v6[u]
BY ChainCallType DEF Chain!Ends, ChainCalls

LEMMA ChainBegins == Chain!Init => Chain!IInv
<1> SUFFICES ASSUME Chain!Init PROVE Chain!IInv
  OBVIOUS
<1>1. 0 \in 0..MaxPanelCalls
  BY WindowsAssumption
<1>2. v6 \in [Tasks -> ChainCalls] /\ v7 \in Seq(ChainClosures)
  BY DEF Chain!Init, ChainCalls
<1>3. Chain!TypeOK
  BY <1>1, <1>2 DEF Chain!Init, Chain!TypeOK, ChainCalls, ChainClosures
<1>4. Chain!InTurn
  BY DEF Chain!Init, Chain!InTurn, Chain!Idle
<1> QED BY <1>3, <1>4 DEF Chain!IInv

\* What the operation that is under way leaves to the next state.
ChainSeen ==
    /\ "paused" \in v9 => v3 = v1
    /\ "registered" \in v9 => v4 = v2
    /\ "connected" \in v9 => v5 = v2
ChainOf(t) ==
    /\ v7 = <<>> /\ \A u \in Tasks : u # t => v6[u] = Chain!Idle
    /\ v6[t].at = "provider" => v2
    /\ ChainSeen

LEMMA ChainOne ==
    ASSUME Chain!IInv, ~v10, NEW t \in Tasks,
           v6[t] # Chain!Idle \/ ~Chain!Due
    PROVE  ChainOf(t)
<1>1. Chain!InTurn /\ v7 = <<>>
      /\ \A u \in Tasks : u # t => v6[u] = Chain!Idle
  BY DEF Chain!IInv, Chain!InTurn, Chain!Due
<1> QED BY <1>1 DEF Chain!InTurn, ChainOf, ChainSeen

LEMMA ChainGoesOn ==
    ASSUME NEW t \in Tasks, ChainOf(t)'
    PROVE  Chain!InTurn'
BY DEF Chain!InTurn, ChainOf, ChainSeen, Chain!Idle

LEMMA ChainPosts ==
    ASSUME NEW t \in Tasks, NEW c \in ChainClosures,
           v7' = <<c>>, \A u \in Tasks : v6'[u] = Chain!Idle,
           c.sure => Chain!IsSo(c)',
           "paused" \in v9' => c.show = "paused" \/ v3' = v1',
           "registered" \in v9' => v4' = v2',
           "connected" \in v9' => v5' = v2'
    PROVE  Chain!InTurn'
<1>1. Len(v7') = 1 /\ DOMAIN v7' = {1} /\ v7'[1] = c
  OBVIOUS
<1> QED BY <1>1 DEF Chain!InTurn, Chain!Idle

LEMMA ChainBegin ==
    ASSUME Chain!IInv, NEW t \in Tasks, NEW op \in Chain!Ops,
           Chain!Begin(t, op)
    PROVE  Chain!IInv'
<1>1. /\ v6[t] = Chain!Idle /\ v8' = v8 + 1 /\ v8 < MaxPanelCalls
      /\ v10' = (v10 \/ Chain!Due)
      /\ v6' = [v6 EXCEPT ![t] = [op |-> op, at |-> "begun"]]
      /\ UNCHANGED <<v1, v2, v3, v4, v5, v7, v9>>
      /\ Chain!TypeOK
  BY DEF Chain!Begin, Chain!chainVars, Chain!viewVars, Chain!IInv
<1>2. /\ v6' \in [Tasks -> ChainCalls]
      /\ v6'[t] = [op |-> op, at |-> "begun"]
      /\ \A u \in Tasks : u # t => v6'[u] = v6[u]
  BY <1>1, ChainCallType DEF ChainCalls
<1>3. v8' \in 0..MaxPanelCalls
  BY <1>1, WindowsAssumption DEF Chain!TypeOK
<1>4. v10' \in BOOLEAN
  BY DEF Chain!Begin
<1>5. Chain!TypeOK'
  BY <1>1, <1>2, <1>3, <1>4 DEF Chain!TypeOK, ChainCalls
<1>6. ASSUME ~v10' PROVE Chain!InTurn'
  <2>1. ChainOf(t)
    BY <1>1, <1>6, ChainOne
  <2>2. ChainOf(t)'
    BY <1>1, <1>2, <2>1 DEF ChainOf, ChainSeen
  <2> QED BY <2>2, ChainGoesOn
<1> QED BY <1>5, <1>6 DEF Chain!IInv

\* What a step of an operation leaves alone, and of its type.
ChainRest ==
    /\ UNCHANGED <<v2, v3, v4, v5, v8, v10>>
    /\ v1' \in BOOLEAN /\ v9' \subseteq v9
    /\ v6' \in [Tasks -> ChainCalls]

LEMMA ChainTyped ==
    ASSUME Chain!TypeOK, ChainRest,
           v7' = v7 \/ \E c \in ChainClosures : v7' = Append(v7, c)
    PROVE  Chain!TypeOK'
<1>1. v7' \in Seq(ChainClosures)
  <2>1. v7 \in Seq(ChainClosures)
    BY DEF Chain!TypeOK, ChainClosures
  <2> QED BY <2>1
<1>2. v9' \subseteq Chain!Views
  BY DEF Chain!TypeOK, ChainRest
<1> QED BY <1>1, <1>2 DEF Chain!TypeOK, ChainRest, ChainCalls, ChainClosures

\* A step of an operation that posts nothing.
LEMMA ChainQuietly ==
    ASSUME Chain!IInv, NEW t \in Tasks, v6[t] # Chain!Idle,
           ChainRest, v7' = v7,
           \A u \in Tasks : u # t => v6'[u] = v6[u],
           v6'[t].at = "provider" => v2,
           "paused" \in v9' => v1' = v1
    PROVE  Chain!IInv'
<1>1. Chain!TypeOK'
  BY ChainTyped DEF Chain!IInv
<1>2. ASSUME ~v10' PROVE Chain!InTurn'
  <2>1. ChainOf(t)
    BY <1>2, ChainOne DEF ChainRest
  <2>2. ChainOf(t)'
    BY <2>1 DEF ChainOf, ChainRest, ChainSeen
  <2> QED BY <2>2, ChainGoesOn
<1> QED BY <1>1, <1>2 DEF Chain!IInv

\* The last step of an operation, which posts a closure.
LEMMA ChainAnswered ==
    ASSUME Chain!IInv, NEW t \in Tasks, v6[t] # Chain!Idle,
           ChainRest, Chain!Ends(t),
           NEW show \in Chain!Views \cup {"listing"}, NEW yes \in BOOLEAN,
           NEW sure \in BOOLEAN, Chain!Post(show, yes, sure),
           sure => CASE show = "paused" -> yes = v1'
                     [] show = "registered" -> yes = v2
                     [] show = "connected" -> ~v2
                     [] show = "listing" -> v2 \/ v10,
           show = "paused" \/ v1' = v1
    PROVE  Chain!IInv'
<1>1. PICK c : c = [show |-> show, yes |-> yes, sure |-> sure]
  OBVIOUS
<1>2. c \in ChainClosures
  BY <1>1 DEF ChainClosures
<1>3. v7' = Append(v7, c)
  BY <1>1 DEF Chain!Post
<1>4. Chain!TypeOK'
  BY <1>2, <1>3, ChainTyped DEF Chain!IInv
<1>5. ASSUME ~v10' PROVE Chain!InTurn'
  <2>1. ChainOf(t) /\ ~v10
    BY <1>5, ChainOne DEF ChainRest
  <2>2. v7' = <<c>>
    BY <1>2, <1>3, <2>1, ShortQueues DEF ChainOf
  <2>3. \A u \in Tasks : v6'[u] = Chain!Idle
    BY <2>1, ChainEnds DEF ChainOf, Chain!IInv
  <2>4. c.sure => Chain!IsSo(c)'
    <3>1. c.show = show /\ c.yes = yes /\ c.sure = sure
      BY <1>1
    <3> QED BY <2>1, <3>1 DEF Chain!IsSo, ChainRest, Chain!Views
  <2>5. /\ "paused" \in v9' => c.show = "paused" \/ v3' = v1'
        /\ "registered" \in v9' => v4' = v2'
        /\ "connected" \in v9' => v5' = v2'
    BY <1>1, <2>1 DEF ChainOf, ChainSeen, ChainRest
  <2> QED BY <1>2, <2>2, <2>3, <2>4, <2>5, ChainPosts
<1> QED BY <1>4, <1>5 DEF Chain!IInv

-----------------------------------------------------------------------------
LEMMA ChainStatus ==
    ASSUME Chain!IInv, NEW t \in Tasks, Chain!EmergencyStatus(t)
    PROVE  Chain!IInv'
<1>1. /\ v6[t] = [op |-> "operations", at |-> "begun"] /\ Chain!Ends(t)
      /\ Chain!Post("paused", v1, TRUE) \/ Chain!Post("paused", FALSE, FALSE)
      /\ UNCHANGED <<v1, v2, v3, v4, v5, v8, v9, v10>> /\ Chain!TypeOK
  BY DEF Chain!EmergencyStatus, Chain!At, Chain!IInv, Chain!chainVars,
         Chain!viewVars
<1>2. v6[t] # Chain!Idle /\ ChainRest
  BY <1>1, ChainEnds DEF Chain!Idle, ChainRest, Chain!TypeOK
<1>3. v1 \in BOOLEAN /\ "paused" \in Chain!Views
  BY <1>1 DEF Chain!TypeOK, Chain!Views
<1>4. PICK yes \in BOOLEAN, sure \in BOOLEAN :
          Chain!Post("paused", yes, sure) /\ (sure => yes = v1)
  BY <1>1, <1>3
<1> QED BY <1>1, <1>2, <1>3, <1>4, ChainAnswered

LEMMA ChainEmergency ==
    ASSUME Chain!IInv, NEW t \in Tasks, Chain!Emergency(t)
    PROVE  Chain!IInv'
<1>1. PICK wanted \in BOOLEAN :
          /\ v1' \in {wanted, v1}
          /\ \/ Chain!Post("paused", wanted, v1' = wanted) /\ v9' = v9
             \/ v7' = v7 /\ v9' = (IF v1' = v1 THEN v9 ELSE v9 \ {"paused"})
  BY DEF Chain!Emergency
<1>2. /\ v6[t].op \in {"pause", "resume"} /\ Chain!Ends(t) /\ Chain!TypeOK
      /\ UNCHANGED <<v2, v3, v4, v5, v8, v10>>
  BY DEF Chain!Emergency, Chain!IInv, Chain!viewVars
<1>3. v6[t] # Chain!Idle /\ ChainRest
  BY <1>1, <1>2, ChainEnds DEF Chain!Idle, ChainRest, Chain!TypeOK
<1>4. CASE Chain!Post("paused", wanted, v1' = wanted)
  BY <1>2, <1>3, <1>4, ChainAnswered DEF Chain!Views
<1>5. CASE v7' = v7 /\ v9' = (IF v1' = v1 THEN v9 ELSE v9 \ {"paused"})
  <2>1. /\ \A u \in Tasks : u # t => v6'[u] = v6[u]
        /\ v6'[t].at # "provider"
    BY <1>2, ChainEnds DEF Chain!Idle
  <2> QED BY <1>3, <1>5, <2>1, ChainQuietly
<1> QED BY <1>1, <1>4, <1>5

LEMMA ChainProvider ==
    ASSUME Chain!IInv, NEW t \in Tasks, Chain!GetProvider(t)
    PROVE  Chain!IInv'
<1>1. /\ v6[t] = [op |-> "compute", at |-> "begun"] /\ Chain!Ends(t)
      /\ \/ Chain!Post("registered", v2, TRUE)
         \/ Chain!Post("registered", FALSE, FALSE)
      /\ UNCHANGED <<v1, v2, v3, v4, v5, v8, v9, v10>> /\ Chain!TypeOK
  BY DEF Chain!GetProvider, Chain!At, Chain!IInv, Chain!chainVars,
         Chain!viewVars
<1>2. v6[t] # Chain!Idle /\ ChainRest
  BY <1>1, ChainEnds DEF Chain!Idle, ChainRest, Chain!TypeOK
<1>3. v2 \in BOOLEAN /\ "registered" \in Chain!Views
  BY <1>1 DEF Chain!TypeOK, Chain!Views
<1>4. PICK yes \in BOOLEAN, sure \in BOOLEAN :
          Chain!Post("registered", yes, sure) /\ (sure => yes = v2)
  BY <1>1, <1>3
<1> QED BY <1>1, <1>2, <1>3, <1>4, ChainAnswered

LEMMA ChainListing ==
    ASSUME Chain!IInv, NEW t \in Tasks, Chain!Listing(t)
    PROVE  Chain!IInv'
<1>1. /\ v6[t] = [op |-> "listing", at |-> "begun"] /\ Chain!TypeOK
      /\ UNCHANGED <<v1, v2, v3, v4, v5, v8, v9, v10>>
  BY DEF Chain!Listing, Chain!At, Chain!IInv, Chain!chainVars, Chain!viewVars
<1>2. \/ v2 /\ v6' = [v6 EXCEPT ![t].at = "provider"] /\ v7' = v7
      \/ Chain!Ends(t) /\ v7' = v7
      \/ /\ Chain!Ends(t)
         /\ \E sure \in BOOLEAN : /\ Chain!Post("connected", FALSE, sure)
                                  /\ sure => ~v2
  BY DEF Chain!Listing
<1>3. v6[t] # Chain!Idle /\ v1' \in BOOLEAN /\ v9' \subseteq v9
  BY <1>1 DEF Chain!Idle, Chain!TypeOK
<1>4. CASE v2 /\ v6' = [v6 EXCEPT ![t].at = "provider"] /\ v7' = v7
  <2>1. ASSUME NEW new, new = [v6[t] EXCEPT !.at = "provider"]
        PROVE  new = [op |-> "listing", at |-> "provider"]
               /\ new \in ChainCalls
    <3>1. new = [op |-> "listing", at |-> "provider"]
      BY <1>1, <2>1
    <3> QED BY <3>1 DEF ChainCalls, Chain!Ops
  <2>2. v6' = [v6 EXCEPT ![t] = [v6[t] EXCEPT !.at = "provider"]]
    BY <1>4
  <2>3. /\ v6' \in [Tasks -> ChainCalls]
        /\ \A u \in Tasks : u # t => v6'[u] = v6[u]
    BY <1>1, <2>1, <2>2, ChainCallType
  <2>4. ChainRest
    BY <1>1, <1>3, <2>3 DEF ChainRest
  <2> QED BY <1>1, <1>3, <1>4, <2>3, <2>4, ChainQuietly
<1>5. CASE Chain!Ends(t) /\ v7' = v7
  <2>1. /\ v6' \in [Tasks -> ChainCalls] /\ v6'[t].at # "provider"
        /\ \A u \in Tasks : u # t => v6'[u] = v6[u]
    BY <1>1, <1>5, ChainEnds DEF Chain!Idle
  <2>2. ChainRest
    BY <1>1, <1>3, <2>1 DEF ChainRest
  <2> QED BY <1>1, <1>3, <1>5, <2>1, <2>2, ChainQuietly
<1>6. ASSUME Chain!Ends(t), NEW sure \in BOOLEAN,
             Chain!Post("connected", FALSE, sure), sure => ~v2
      PROVE  Chain!IInv'
  <2>1. ChainRest
    BY <1>1, <1>3, <1>6, ChainEnds DEF ChainRest
  <2> QED BY <1>1, <1>3, <1>6, <2>1, ChainAnswered DEF Chain!Views
<1> QED BY <1>2, <1>4, <1>5, <1>6

LEMMA ChainClaimable ==
    ASSUME Chain!IInv, NEW t \in Tasks, Chain!Claimable(t)
    PROVE  Chain!IInv'
<1>1. /\ v6[t] = [op |-> "listing", at |-> "provider"] /\ Chain!Ends(t)
      /\ \/ Chain!Post("listing", TRUE, TRUE)
         \/ Chain!Post("connected", FALSE, FALSE)
      /\ UNCHANGED <<v1, v2, v3, v4, v5, v8, v9, v10>> /\ Chain!TypeOK
  BY DEF Chain!Claimable, Chain!At, Chain!IInv, Chain!chainVars,
         Chain!viewVars
<1>2. v6[t] # Chain!Idle /\ ChainRest
  BY <1>1, ChainEnds DEF Chain!Idle, ChainRest, Chain!TypeOK
<1>3. v2 \/ v10
  BY <1>1 DEF Chain!IInv, Chain!InTurn
<1>4. CASE Chain!Post("listing", TRUE, TRUE)
  BY <1>1, <1>2, <1>3, <1>4, ChainAnswered
<1>5. CASE Chain!Post("connected", FALSE, FALSE)
  BY <1>1, <1>2, <1>5, ChainAnswered DEF Chain!Views
<1> QED BY <1>1, <1>4, <1>5

LEMMA ChainOutside ==
    ASSUME Chain!IInv, Chain!Outside
    PROVE  Chain!IInv'
<1>1. /\ Chain!TypeOK /\ v9' = {} /\ v10' = (v10 \/ Chain!Due)
      /\ UNCHANGED <<v3, v4, v5, v6, v7, v8>>
  BY DEF Chain!Outside, Chain!IInv, Chain!viewVars
<1>2. v10' \in BOOLEAN /\ v1' \in BOOLEAN /\ v2' \in BOOLEAN
  BY <1>1 DEF Chain!Outside, Chain!TypeOK
<1>3. Chain!TypeOK'
  BY <1>1, <1>2 DEF Chain!TypeOK
<1>4. ASSUME ~v10' PROVE Chain!InTurn'
  <2>1. v7 = <<>> /\ \A t \in Tasks : v6[t] = Chain!Idle
    BY <1>1, <1>4 DEF Chain!Due
  <2> QED BY <1>1, <2>1 DEF Chain!InTurn, Chain!Idle
<1> QED BY <1>3, <1>4 DEF Chain!IInv

-----------------------------------------------------------------------------
\* The UI thread runs the closure there is.
LEMMA ChainShows ==
    ASSUME Chain!IInv, v7 # <<>>, v7' = Tail(v7),
           UNCHANGED <<v1, v2, v6, v8, v10>>,
           {v3', v4', v5'} \subseteq BOOLEAN, v9' \subseteq Chain!Views,
           \A c \in ChainClosures :
               /\ c = Head(v7) /\ (c.sure => Chain!IsSo(c))
               /\ "paused" \in v9 => c.show = "paused" \/ v3 = v1
               /\ "registered" \in v9 => v4 = v2
               /\ "connected" \in v9 => v5 = v2
               => ChainSeen'
    PROVE  Chain!IInv'
<1>1. Chain!TypeOK /\ v7 \in Seq(ChainClosures)
  BY DEF Chain!IInv, Chain!TypeOK, ChainClosures
<1>2. v7' \in Seq(ChainClosures)
  BY <1>1
<1>3. Chain!TypeOK'
  BY <1>1, <1>2 DEF Chain!TypeOK, ChainClosures
<1>4. ASSUME ~v10' PROVE Chain!InTurn'
  <2>1. Chain!InTurn /\ \A t \in Tasks : v6[t] = Chain!Idle
    BY <1>4 DEF Chain!IInv, Chain!InTurn
  <2>2. PICK c \in ChainClosures : v7 = <<c>>
    BY <1>1, <2>1, Single DEF Chain!InTurn
  <2>3. Head(v7) = c /\ v7' = <<>> /\ DOMAIN v7 = {1} /\ v7[1] = c
    BY <2>2
  <2>4. /\ c.sure => Chain!IsSo(c)
        /\ "paused" \in v9 => c.show = "paused" \/ v3 = v1
        /\ "registered" \in v9 => v4 = v2
        /\ "connected" \in v9 => v5 = v2
    BY <2>1, <2>3 DEF Chain!InTurn
  <2>5. ChainSeen'
    BY <2>3, <2>4
  <2> QED BY <2>1, <2>3, <2>5 DEF Chain!InTurn, ChainSeen, Chain!Idle
<1> QED BY <1>3, <1>4 DEF Chain!IInv

LEMMA ChainUserSees ==
    ASSUME Chain!IInv, \/ Chain!ShowPaused \/ Chain!ShowRegistered
                       \/ Chain!ShowNoListing \/ Chain!ShowListing
    PROVE  Chain!IInv'
<1>1. /\ v7 # <<>> /\ v7' = Tail(v7) /\ UNCHANGED <<v1, v2, v6, v8, v10>>
      /\ Chain!TypeOK
  BY DEF Chain!ShowPaused, Chain!ShowRegistered, Chain!ShowNoListing,
         Chain!ShowListing, Chain!Shows, Chain!chainVars, Chain!IInv
<1>2. Head(v7) \in ChainClosures
  <2>1. v7 \in Seq(ChainClosures)
    BY <1>1 DEF Chain!TypeOK, ChainClosures
  <2> QED BY <1>1, <2>1
<1>3. Head(v7).yes \in BOOLEAN /\ {v1, v2, v3, v4, v5} \subseteq BOOLEAN
      /\ v9 \subseteq Chain!Views
  BY <1>1, <1>2 DEF ChainClosures, Chain!TypeOK
<1>4. CASE Chain!ShowPaused
  <2>1. /\ Head(v7).show = "paused" /\ v3' = Head(v7).yes
        /\ v9' = (IF Head(v7).sure THEN v9 \cup {"paused"}
                  ELSE v9 \ {"paused"})
        /\ UNCHANGED <<v4, v5>>
    BY <1>4 DEF Chain!ShowPaused, Chain!Shows
  <2>2. {v3', v4', v5'} \subseteq BOOLEAN /\ v9' \subseteq Chain!Views
    BY <1>3, <2>1 DEF Chain!Views
  <2> QED BY <1>1, <2>1, <2>2, ChainShows DEF ChainSeen, Chain!IsSo
<1>5. CASE Chain!ShowRegistered
  <2>1. /\ Head(v7).show = "registered" /\ v4' = Head(v7).yes
        /\ v9' = (IF Head(v7).sure THEN v9 \cup {"registered"}
                  ELSE v9 \ {"registered"})
        /\ UNCHANGED <<v3, v5>>
    BY <1>5 DEF Chain!ShowRegistered, Chain!Shows
  <2>2. {v3', v4', v5'} \subseteq BOOLEAN /\ v9' \subseteq Chain!Views
    BY <1>3, <2>1 DEF Chain!Views
  <2> QED BY <1>1, <2>1, <2>2, ChainShows DEF ChainSeen, Chain!IsSo
<1>6. CASE Chain!ShowNoListing
  <2>1. /\ Head(v7).show = "connected" /\ v5' = FALSE
        /\ v9' = (IF Head(v7).sure THEN v9 \cup {"connected"}
                  ELSE v9 \ {"connected"})
        /\ UNCHANGED <<v3, v4>>
    BY <1>6 DEF Chain!ShowNoListing, Chain!Shows
  <2>2. {v3', v4', v5'} \subseteq BOOLEAN /\ v9' \subseteq Chain!Views
    BY <1>3, <2>1 DEF Chain!Views
  <2> QED BY <1>1, <1>3, <2>1, <2>2, ChainShows DEF ChainSeen, Chain!IsSo
<1>7. CASE Chain!ShowListing
  <2>1. /\ Head(v7).show = "listing" /\ v4' = TRUE /\ v5' = TRUE
        /\ v9' = (IF Head(v7).sure THEN v9 \cup {"registered", "connected"}
                  ELSE v9 \ {"registered", "connected"})
        /\ UNCHANGED v3
    BY <1>7 DEF Chain!ShowListing, Chain!Shows
  <2>2. {v3', v4', v5'} \subseteq BOOLEAN /\ v9' \subseteq Chain!Views
    BY <1>3, <2>1 DEF Chain!Views
  <2> QED BY <1>1, <1>3, <2>1, <2>2, ChainShows DEF ChainSeen, Chain!IsSo
<1> QED BY <1>4, <1>5, <1>6, <1>7

LEMMA ChainKeeps ==
    ASSUME Chain!IInv, Chain!Next
    PROVE  Chain!IInv'
BY ChainBegin, ChainStatus, ChainEmergency, ChainProvider, ChainListing,
   ChainClaimable, ChainOutside, ChainUserSees DEF Chain!Next

LEMMA ChainStutters ==
    ASSUME Chain!IInv, UNCHANGED Slots
    PROVE  Chain!IInv'
<1>1. UNCHANGED <<v1, v2, v3, v4, v5, v6, v7, v8, v9, v10>>
  BY DEF Slots
<1> QED BY <1>1 DEF Chain!IInv, Chain!TypeOK, Chain!InTurn, Chain!IsSo

LEMMA ChainQuiet ==
    ASSUME Chain!IInv
    PROVE  Chain!ChainShown
<1>1. ASSUME ~Chain!Due, ~v10 PROVE Chain!InTurn /\ v7 = <<>>
  BY <1>1 DEF Chain!IInv, Chain!Due
<1> QED BY <1>1 DEF Chain!ChainShown, Chain!InTurn

LEMMA ChainInvariant ==
    ServicesSpec => [](focus = "chain" => Chain!IInv)
<1> DEFINE I == focus = "chain" => Chain!IInv
<1>1. ServicesInit => I
  BY WindowInits, ChainBegins
<1>2. I /\ [ServicesNext]_serviceVars => I'
  BY WindowSteps, WindowStutters, ChainKeeps, ChainStutters
<1> QED BY <1>1, <1>2, PTL DEF ServicesSpec

-----------------------------------------------------------------------------
(* ModelPanel                                                              *)
(* Slots: v1 is app, v2 file, v3 ollama, v4 shown, v5 used, v6 task, v7    *)
(* posted, v8 clicks, v9 launches, v10 torn, v11 crossed, v12 agreed.      *)

ModelOps == Model!Buttons \cup {"detect"}
ModelTasks == {Model!Idle} \cup
    [op : ModelOps, at : {"begun", "copying", "seeded", "found", "set"},
     name : Model!Names]
ModelClosures == [op : ModelOps, name : Model!Names]

LEMMA ModelTaskType ==
    ASSUME Model!TypeOK, NEW t \in Tasks
    PROVE  /\ v6 \in [Tasks -> ModelTasks] /\ v6[t] \in ModelTasks
           /\ v6[t] = Model!Idle <=> v6[t].at = "idle"
           /\ v6[t].name \in Model!Names
BY DEF Model!TypeOK, ModelTasks, ModelOps, Model!Idle, Model!Buttons,
       Model!Names

LEMMA ModelEnds ==
    ASSUME Model!TypeOK, NEW t \in Tasks, Model!Ends(t)
    PROVE  /\ v6' \in [Tasks -> ModelTasks] /\ v6'[t] = Model!Idle
           /\ \A u \in Tasks : u # t => v6'[u] = v6[u]
BY ModelTaskType DEF Model!Ends, ModelTasks

LEMMA ModelGoes ==
    ASSUME Model!TypeOK, NEW t \in Tasks, v6[t] # Model!Idle,
           NEW at \in {"copying", "seeded", "found", "set"},
           NEW name \in Model!Names, Model!Goes(t, at, name)
    PROVE  /\ v6' \in [Tasks -> ModelTasks]
           /\ v6'[t] = [op |-> v6[t].op, at |-> at, name |-> name]
           /\ \A u \in Tasks : u # t => v6'[u] = v6[u]
<1>1. v6 \in [Tasks -> ModelTasks] /\ v6[t].op \in ModelOps
      /\ v6[t] = [op |-> v6[t].op, at |-> v6[t].at, name |-> v6[t].name]
  BY ModelTaskType DEF ModelTasks
<1>2. ASSUME NEW new, new = [v6[t] EXCEPT !.at = at, !.name = name]
      PROVE  new = [op |-> v6[t].op, at |-> at, name |-> name]
             /\ new \in ModelTasks
  <2>1. new = [op |-> v6[t].op, at |-> at, name |-> name]
    BY <1>1, <1>2
  <2> QED BY <1>1, <2>1 DEF ModelTasks
<1>3. v6' = [v6 EXCEPT ![t] = [v6[t] EXCEPT !.at = at, !.name = name]]
  BY DEF Model!Goes
<1> QED BY <1>1, <1>2, <1>3

\* The one task that is out, or that may now start.
ModelOf(t) ==
    /\ v7 = <<>> /\ \A u \in Tasks : u # t => v6[u] = Model!Idle
    /\ v6[t].at = "set" /\ v6[t].name # "none" => v5 = v6[t].name
    /\ v12 => v5 = v4 \/ v6[t].at = "set"

LEMMA ModelOne ==
    ASSUME Model!IInv, v1 = "up", ~v11, NEW t \in Tasks,
           v6[t] # Model!Idle \/ ~Model!Due
    PROVE  ModelOf(t)
<1>1. Model!InTurn /\ v7 = <<>>
      /\ \A u \in Tasks : u # t => v6[u] = Model!Idle
  BY DEF Model!IInv, Model!InTurn, Model!Due
<1>2. ASSUME NEW u \in Tasks, v6[u].at = "set" PROVE v6[t].at = "set"
  BY <1>1, <1>2 DEF Model!Idle
<1> QED BY <1>1, <1>2 DEF Model!InTurn, ModelOf

LEMMA ModelGoesOn ==
    ASSUME NEW t \in Tasks, ModelOf(t)'
    PROVE  Model!InTurn'
<1>1. /\ v7' = <<>> /\ \A u \in Tasks : u # t => v6'[u] = Model!Idle
      /\ \A u \in Tasks : u # t => v6'[u].at # "set"
  BY DEF ModelOf, Model!Idle
<1> QED BY <1>1 DEF Model!InTurn, ModelOf

\* A seed task opens the window.
LEMMA ModelOpens ==
    ASSUME Model!TypeOK, Model!Opens, v7' = <<>>, ~v12',
           \A t \in Tasks : v6[t] = Model!Idle
    PROVE  /\ v1' = "up" /\ v6' \in [Tasks -> ModelTasks]
           /\ Model!InTurn'
<1>1. PICK t \in Tasks :
          v6' = [v6 EXCEPT ![t] = [Model!Idle EXCEPT !.op = "detect",
                                                     !.at = "begun"]]
  BY DEF Model!Opens
<1>2. ASSUME NEW new, new = [Model!Idle EXCEPT !.op = "detect",
                                               !.at = "begun"]
      PROVE  new = [op |-> "detect", at |-> "begun", name |-> "none"]
             /\ new \in ModelTasks
  <2>1. new = [op |-> "detect", at |-> "begun", name |-> "none"]
    BY <1>2 DEF Model!Idle
  <2> QED BY <2>1 DEF ModelTasks, ModelOps, Model!Names
<1>3. /\ v6' \in [Tasks -> ModelTasks] /\ v6'[t].at = "begun"
      /\ \A u \in Tasks : u # t => v6'[u] = Model!Idle
  BY <1>1, <1>2, ModelTaskType
<1>4. ModelOf(t)'
  BY <1>3 DEF ModelOf
<1> QED BY <1>3, <1>4, ModelGoesOn DEF Model!Opens

LEMMA ModelBegins == Model!Init => Model!IInv
<1> SUFFICES ASSUME Model!Init PROVE Model!IInv
  OBVIOUS
<1>1. 0 \in 0..MaxClicks /\ 0 \in 0..MaxLaunches
  BY WindowsAssumption
<1>2. v6 \in [Tasks -> ModelTasks] /\ v7 \in Seq(ModelClosures)
  BY DEF Model!Init, ModelTasks
<1>3. Model!TypeOK
  BY <1>1, <1>2 DEF Model!Init, Model!TypeOK, ModelTasks, ModelClosures,
     ModelOps, Model!Names
<1>4. Model!Copied /\ Model!NotYet /\ v1 # "up"
  BY DEF Model!Init, Model!Copied, Model!NotYet
<1> QED BY <1>3, <1>4 DEF Model!IInv

LEMMA ModelLaunches ==
    ASSUME Model!IInv, Model!Launch
    PROVE  Model!IInv'
<1>1. /\ v1 = "down" /\ v9' = v9 + 1 /\ v9 < MaxLaunches
      /\ v4' = "none" /\ v5' = "none" /\ v12' = FALSE
      /\ UNCHANGED <<v3, v7, v8, v10, v11>>
      /\ \/ v2 = "absent" /\ v1' = "seeding" /\ v2' = "partial" /\ v6' = v6
         \/ v2 # "absent" /\ Model!Opens /\ v2' = v2
      /\ Model!TypeOK /\ v7 = <<>> /\ \A t \in Tasks : v6[t] = Model!Idle
  BY DEF Model!Launch, Model!IInv, Model!NotYet
<1>2. v9' \in 0..MaxLaunches
  BY <1>1, WindowsAssumption DEF Model!TypeOK
<1>3. v6' \in [Tasks -> ModelTasks] /\ v1' \in {"seeding", "up"}
  BY <1>1, ModelOpens, ModelTaskType DEF Model!TypeOK, ModelTasks, ModelOps
<1>4. Model!TypeOK'
  BY <1>1, <1>2, <1>3 DEF Model!TypeOK, ModelTasks, ModelOps, Model!Names
<1>5. Model!Copied'
  BY <1>1 DEF Model!IInv, Model!Copied, Model!Idle
<1>6. Model!NotYet'
  BY <1>1, ModelOpens DEF Model!NotYet
<1>7. v1' = "up" => Model!InTurn'
  BY <1>1, ModelOpens
<1> QED BY <1>4, <1>5, <1>6, <1>7 DEF Model!IInv

LEMMA ModelSeeds ==
    ASSUME Model!IInv, Model!SeedEnds
    PROVE  Model!IInv'
<1>1. /\ v1 = "seeding" /\ Model!Opens
      /\ UNCHANGED <<v3, v4, v5, v7, v8, v9, v11, v12>>
      /\ v2' \in {"absent", "partial", "whole"} /\ v10' \in BOOLEAN
      /\ v2' = "partial" => v10'
      /\ Model!TypeOK /\ v7 = <<>> /\ \A t \in Tasks : v6[t] = Model!Idle
      /\ ~v12
  BY DEF Model!SeedEnds, Model!IInv, Model!NotYet, Model!TypeOK
<1>2. /\ v1' = "up" /\ v6' \in [Tasks -> ModelTasks] /\ Model!InTurn'
  BY <1>1, ModelOpens
<1>3. Model!TypeOK'
  BY <1>1, <1>2 DEF Model!TypeOK, ModelTasks, ModelOps
<1>4. Model!Copied' /\ Model!NotYet'
  BY <1>1, <1>2 DEF Model!Copied, Model!NotYet
<1> QED BY <1>2, <1>3, <1>4 DEF Model!IInv

LEMMA ModelPresses ==
    ASSUME Model!IInv, NEW t \in Tasks, NEW op \in Model!Buttons,
           Model!Press(t, op)
    PROVE  Model!IInv'
<1>1. /\ v1 = "up" /\ v6[t] = Model!Idle /\ v8 < MaxClicks /\ v8' = v8 + 1
      /\ v11' = (v11 \/ Model!Due)
      /\ v6' = [v6 EXCEPT ![t] = [op |-> op, at |-> "begun",
                                  name |-> "none"]]
      /\ UNCHANGED <<v1, v2, v3, v4, v5, v7, v9, v10, v12>>
      /\ Model!TypeOK
  BY DEF Model!Press, Model!IInv
<1>2. /\ v6' \in [Tasks -> ModelTasks] /\ v6'[t].at = "begun"
      /\ \A u \in Tasks : u # t => v6'[u] = v6[u]
  BY <1>1, ModelTaskType DEF ModelTasks, ModelOps, Model!Names
<1>3. v8' \in 0..MaxClicks
  BY <1>1, WindowsAssumption DEF Model!TypeOK
<1>4. v11' \in BOOLEAN
  BY DEF Model!Press
<1>5. Model!TypeOK'
  BY <1>1, <1>2, <1>3, <1>4 DEF Model!TypeOK, ModelTasks, ModelOps
<1>6. Model!Copied' /\ Model!NotYet'
  BY <1>1, <1>2 DEF Model!IInv, Model!Copied, Model!NotYet, Model!Idle
<1>7. ASSUME ~v11' PROVE Model!InTurn'
  <2>1. ModelOf(t)
    <3>1. ~v11 /\ ~Model!Due
      BY <1>1, <1>7
    <3> QED BY <1>1, <3>1, ModelOne
  <2>3. v6[t].at # "set"
    BY <1>1 DEF Model!Idle
  <2>2. ModelOf(t)'
    BY <1>1, <1>2, <2>1, <2>3 DEF ModelOf
  <2> QED BY <2>2, ModelGoesOn
<1> QED BY <1>5, <1>6, <1>7 DEF Model!IInv

\* What a step of a task leaves alone, and of its type.
ModelRest ==
    /\ UNCHANGED <<v1, v3, v4, v8, v9, v11, v12>>
    /\ v2' \in {"absent", "partial", "whole"} /\ v5' \in Model!Names
    /\ v10' \in BOOLEAN /\ v6' \in [Tasks -> ModelTasks]

\* A step of a task that posts nothing.
LEMMA ModelQuietly ==
    ASSUME Model!IInv, NEW t \in Tasks, v6[t] # Model!Idle,
           ModelRest, v7' = v7, \A u \in Tasks : u # t => v6'[u] = v6[u],
           Model!Copied',
           \/ v6'[t].at # "set" /\ v6[t].at # "set" /\ v5' = v5
           \/ v6'[t].at = "set" /\ v6'[t].name \in {"none", v5'}
    PROVE  Model!IInv'
<1>1. Model!TypeOK' /\ v1 = "up"
  BY DEF Model!IInv, Model!TypeOK, Model!NotYet, ModelRest, ModelTasks,
         ModelOps
<1>2. ASSUME ~v11' PROVE Model!InTurn'
  <2>1. ModelOf(t)
    BY <1>1, <1>2, ModelOne DEF ModelRest
  <2>2. ModelOf(t)'
    BY <2>1 DEF ModelOf, ModelRest
  <2> QED BY <2>2, ModelGoesOn
<1>3. Model!NotYet'
  BY <1>1 DEF ModelRest, Model!NotYet
<1> QED BY <1>1, <1>2, <1>3 DEF Model!IInv

\* The last step of a task, which posts a closure.
LEMMA ModelAnswered ==
    ASSUME Model!IInv, NEW t \in Tasks, v6[t] # Model!Idle,
           v6[t].at # "copying", Model!Ends(t),
           NEW op \in ModelOps, NEW name \in Model!Names,
           Model!Post(op, name),
           UNCHANGED <<v1, v2, v3, v4, v5, v8, v9, v10, v11, v12>>,
           op \in Model!Detection /\ name # "none" => v5 = name \/ v11
    PROVE  Model!IInv'
<1>1. /\ v6' \in [Tasks -> ModelTasks] /\ v6'[t] = Model!Idle
      /\ \A u \in Tasks : u # t => v6'[u] = v6[u]
  BY ModelEnds DEF Model!IInv
<1>2. PICK c : c = [op |-> op, name |-> name]
  OBVIOUS
<1>3. c \in ModelClosures /\ c.op = op /\ c.name = name
  BY <1>2 DEF ModelClosures
<1>4. v7' = Append(v7, c) /\ v7 \in Seq(ModelClosures)
  BY <1>2 DEF Model!Post, Model!IInv, Model!TypeOK, ModelClosures, ModelOps
<1>5. v7' \in Seq(ModelClosures)
  BY <1>3, <1>4
<1>6. Model!TypeOK' /\ v1 = "up"
  BY <1>1, <1>5 DEF Model!IInv, Model!TypeOK, Model!NotYet, ModelTasks,
     ModelClosures, ModelOps
<1>7. Model!Copied'
  BY <1>1 DEF Model!IInv, Model!Copied
<1>8. Model!NotYet'
  BY <1>6 DEF Model!NotYet
<1>9. ASSUME ~v11' PROVE Model!InTurn'
  <2>1. ModelOf(t)
    BY <1>6, <1>9, ModelOne
  <2>2. v7' = <<c>>
    BY <1>3, <1>4, <2>1, ShortQueues DEF ModelOf
  <2>3. \A u \in Tasks : v6'[u] = Model!Idle
    BY <1>1, <2>1 DEF ModelOf
  <2>4. Len(v7') = 1 /\ DOMAIN v7' = {1} /\ v7'[1] = c /\ v7' # <<>>
    BY <2>2
  <2> QED BY <1>3, <1>9, <2>3, <2>4 DEF Model!InTurn, Model!Idle
<1> QED BY <1>6, <1>7, <1>8, <1>9 DEF Model!IInv

-----------------------------------------------------------------------------
LEMMA ModelDetects ==
    ASSUME Model!IInv, NEW t \in Tasks, Model!Detect(t)
    PROVE  Model!IInv'
<1>1. PICK name \in Model!Names : Model!Goes(t, "found", name)
  BY DEF Model!Detect, Model!Names
<1>2. /\ v6[t].at = "begun" /\ Model!TypeOK /\ Model!Copied
      /\ UNCHANGED <<v1, v2, v3, v4, v5, v7, v8, v9, v10, v11, v12>>
  BY DEF Model!Detect, Model!At, Model!IInv
<1>3. v6[t] # Model!Idle
  BY <1>2 DEF Model!Idle
<1>4. /\ v6' \in [Tasks -> ModelTasks] /\ v6'[t].at = "found"
      /\ \A u \in Tasks : u # t => v6'[u] = v6[u]
  <2>1. v6'[t] = [op |-> v6[t].op, at |-> "found", name |-> name]
    BY <1>1, <1>2, <1>3, ModelGoes
  <2> QED BY <1>1, <1>2, <1>3, <2>1, ModelGoes
<1>5. Model!Copied' /\ ModelRest
  BY <1>2, <1>4 DEF Model!Copied, ModelRest, Model!TypeOK
<1> QED BY <1>2, <1>3, <1>4, <1>5, ModelQuietly

LEMMA ModelSets ==
    ASSUME Model!IInv, NEW t \in Tasks, Model!SetModel(t)
    PROVE  Model!IInv'
<1>1. /\ v6[t].at = "found" /\ Model!TypeOK /\ Model!Copied
      /\ Model!Goes(t, "set", v6[t].name)
      /\ v5' = IF v6[t].name = "none" THEN v5 ELSE v6[t].name
      /\ UNCHANGED <<v1, v2, v3, v4, v7, v8, v9, v10, v11, v12>>
  BY DEF Model!SetModel, Model!At, Model!IInv
<1>2. v6[t] # Model!Idle /\ v6[t].name \in Model!Names
  BY <1>1, ModelTaskType DEF Model!Idle
<1>3. /\ v6' \in [Tasks -> ModelTasks]
      /\ v6'[t] = [op |-> v6[t].op, at |-> "set", name |-> v6[t].name]
      /\ \A u \in Tasks : u # t => v6'[u] = v6[u]
  BY <1>1, <1>2, ModelGoes
<1>4. v6'[t].at = "set" /\ v6'[t].name \in {"none", v5'}
  BY <1>1, <1>3
<1>5. Model!Copied' /\ ModelRest
  BY <1>1, <1>2, <1>3, <1>4 DEF Model!Copied, ModelRest, Model!TypeOK
<1> QED BY <1>1, <1>2, <1>3, <1>4, <1>5, ModelQuietly

LEMMA ModelPostsFound ==
    ASSUME Model!IInv, NEW t \in Tasks, Model!PostFound(t)
    PROVE  Model!IInv'
<1>1. /\ v6[t].op \in {"detect", "scan"} /\ v6[t].at = "set"
      /\ Model!Ends(t) /\ Model!Post(v6[t].op, v6[t].name)
      /\ UNCHANGED <<v1, v2, v3, v4, v5, v8, v9, v10, v11, v12>>
  BY DEF Model!PostFound, Model!At
<1>2. v6[t] # Model!Idle /\ v6[t].op \in ModelOps
      /\ v6[t].name \in Model!Names
  BY <1>1, ModelTaskType DEF Model!Idle, ModelOps, Model!Buttons, Model!IInv
<1>3. v6[t].name # "none" => v5 = v6[t].name \/ v11
  BY <1>1, <1>2 DEF Model!IInv, Model!NotYet, Model!InTurn
<1> QED BY <1>1, <1>2, <1>3, ModelAnswered

LEMMA ModelDownloads ==
    ASSUME Model!IInv, NEW t \in Tasks, Model!Download(t)
    PROVE  Model!IInv'
<1>1. PICK at \in {"copying", "seeded"} :
          /\ Model!Goes(t, at, "none")
          /\ \/ at = "copying" /\ v2' = "partial"
             \/ v2' = v2 /\ v2 # "absent"
  BY DEF Model!Download
<1>2. /\ v6[t].at = "begun" /\ Model!TypeOK /\ Model!Copied
      /\ UNCHANGED <<v1, v3, v4, v5, v7, v8, v9, v10, v11, v12>>
  BY DEF Model!Download, Model!At, Model!IInv
<1>3. v6[t] # Model!Idle /\ "none" \in Model!Names
  BY <1>2 DEF Model!Idle, Model!Names
<1>4. /\ v6' \in [Tasks -> ModelTasks]
      /\ v6'[t] = [op |-> v6[t].op, at |-> at, name |-> "none"]
      /\ \A u \in Tasks : u # t => v6'[u] = v6[u]
  BY <1>1, <1>2, <1>3, ModelGoes
<1>5. v6'[t].at = at
  BY <1>4
<1>6. Model!Copied'
  BY <1>1, <1>2, <1>4, <1>5 DEF Model!Copied
<1>7. ModelRest
  BY <1>1, <1>2, <1>4 DEF ModelRest, Model!TypeOK
<1> QED BY <1>1, <1>2, <1>3, <1>4, <1>5, <1>6, <1>7, ModelQuietly

LEMMA ModelCopies ==
    ASSUME Model!IInv, NEW t \in Tasks, Model!CopyEnds(t)
    PROVE  Model!IInv'
<1>1. /\ v6[t].at = "copying" /\ Model!TypeOK
      /\ Model!Goes(t, "seeded", "none")
      /\ UNCHANGED <<v1, v3, v4, v5, v7, v8, v9, v11, v12>>
      /\ \/ v2' = "whole" /\ v10' = v10
         \/ v10' = TRUE /\ v2' = v2
  BY DEF Model!CopyEnds, Model!At, Model!IInv
<1>2. v6[t] # Model!Idle /\ "none" \in Model!Names
  BY <1>1 DEF Model!Idle, Model!Names
<1>3. /\ v6' \in [Tasks -> ModelTasks] /\ v6'[t].at = "seeded"
      /\ \A u \in Tasks : u # t => v6'[u] = v6[u]
  <2>1. v6'[t] = [op |-> v6[t].op, at |-> "seeded", name |-> "none"]
    BY <1>1, <1>2, ModelGoes
  <2> QED BY <1>1, <1>2, <2>1, ModelGoes
<1>4. Model!Copied'
  BY <1>1 DEF Model!Copied
<1>5. ModelRest
  BY <1>1, <1>3 DEF ModelRest, Model!TypeOK
<1> QED BY <1>1, <1>2, <1>3, <1>4, <1>5, ModelQuietly

LEMMA ModelNames ==
    ASSUME Model!IInv, NEW t \in Tasks, Model!NameFile(t)
    PROVE  Model!IInv'
<1>1. /\ v6[t].at = "seeded" /\ Model!Ends(t)
      /\ UNCHANGED <<v1, v2, v3, v4, v5, v8, v9, v10, v11, v12>>
      /\ \E name \in Model!Names : Model!Post("download", name)
  BY DEF Model!NameFile, Model!At, Model!Names
<1>2. v6[t] # Model!Idle
  BY <1>1 DEF Model!Idle
<1> QED BY <1>1, <1>2, ModelAnswered DEF ModelOps, Model!Buttons,
        Model!Detection

LEMMA ModelLoads ==
    ASSUME Model!IInv, NEW t \in Tasks, Model!LoadModel(t)
    PROVE  Model!IInv'
<1>1. /\ v6[t].at = "begun" /\ Model!Ends(t)
      /\ UNCHANGED <<v1, v2, v3, v4, v5, v8, v9, v10, v11, v12>>
      /\ Model!Post("load", "chain") \/ v7' = v7
  BY DEF Model!LoadModel, Model!At
<1>2. v6[t] # Model!Idle
  BY <1>1 DEF Model!Idle
<1>3. CASE Model!Post("load", "chain")
  BY <1>1, <1>2, <1>3, ModelAnswered DEF ModelOps, Model!Buttons,
     Model!Detection, Model!Names
<1>4. CASE v7' = v7
  <2>1. /\ v6' \in [Tasks -> ModelTasks] /\ v6'[t].at # "set"
        /\ \A u \in Tasks : u # t => v6'[u] = v6[u]
    BY <1>1, ModelEnds DEF Model!IInv, Model!Idle
  <2>2. Model!Copied' /\ ModelRest
    BY <1>1, <2>1 DEF Model!IInv, Model!Copied, ModelRest, Model!TypeOK
  <2> QED BY <1>1, <1>2, <1>4, <2>1, <2>2, ModelQuietly
<1> QED BY <1>1, <1>3, <1>4

LEMMA ModelShows ==
    ASSUME Model!IInv, Model!ShowModel
    PROVE  Model!IInv'
<1>1. /\ v7 # <<>> /\ v7' = Tail(v7) /\ v4' = Head(v7).name
      /\ v12' = (Head(v7).op \in Model!Detection /\ Head(v7).name # "none")
      /\ UNCHANGED <<v1, v2, v3, v5, v6, v8, v9, v10, v11>>
      /\ Model!TypeOK /\ v1 = "up"
  BY DEF Model!ShowModel, Model!IInv, Model!NotYet, Model!Detection
<1>2. v7 \in Seq(ModelClosures)
  BY <1>1 DEF Model!TypeOK, ModelClosures, ModelOps
<1>3. v7' \in Seq(ModelClosures) /\ Head(v7) \in ModelClosures
  BY <1>1, <1>2
<1>4. v4' \in Model!Names /\ v12' \in BOOLEAN
  BY <1>1, <1>3 DEF ModelClosures
<1>5. Model!TypeOK'
  BY <1>1, <1>3, <1>4 DEF Model!TypeOK, ModelClosures, ModelOps
<1>6. Model!Copied' /\ Model!NotYet'
  BY <1>1 DEF Model!IInv, Model!Copied, Model!NotYet
<1>7. ASSUME ~v11' PROVE Model!InTurn'
  <2>1. Model!InTurn /\ \A t \in Tasks : v6[t] = Model!Idle
    BY <1>1, <1>7 DEF Model!IInv, Model!InTurn
  <2>2. PICK c \in ModelClosures : v7 = <<c>>
    BY <1>2, <1>1, <2>1, Single DEF Model!InTurn
  <2>3. Head(v7) = c /\ v7' = <<>> /\ DOMAIN v7 = {1} /\ v7[1] = c
    BY <1>1, <2>2
  <2>4. c.op \in Model!Detection /\ c.name # "none" => v5 = c.name
    BY <2>1, <2>3 DEF Model!InTurn
  <2>5. v12' => v5' = v4'
    BY <1>1, <2>3, <2>4
  <2> QED BY <1>1, <2>1, <2>3, <2>5 DEF Model!InTurn, Model!Idle
<1> QED BY <1>5, <1>6, <1>7 DEF Model!IInv

LEMMA ModelQuits ==
    ASSUME Model!IInv, Model!Quits
    PROVE  Model!IInv'
<1>1. /\ v1' = "down" /\ v7' = <<>>
      /\ v6' = [t \in Tasks |-> Model!Idle] /\ v11' = FALSE
      /\ v10' = (v10 \/ v1 = "seeding"
                     \/ \E t \in Tasks : v6[t].at = "copying")
      /\ UNCHANGED <<v2, v3, v4, v5, v8, v9, v12>>
      /\ Model!TypeOK /\ Model!Copied
  BY DEF Model!Quits, Model!IInv
<1>2. v6' \in [Tasks -> ModelTasks] /\ v7' \in Seq(ModelClosures)
  BY <1>1 DEF ModelTasks
<1>3. v10' \in BOOLEAN
  BY <1>1
<1>4. Model!TypeOK'
  BY <1>1, <1>2, <1>3 DEF Model!TypeOK, ModelTasks, ModelClosures, ModelOps
<1>5. Model!Copied' /\ Model!NotYet'
  BY <1>1 DEF Model!Copied, Model!NotYet
<1> QED BY <1>1, <1>4, <1>5 DEF Model!IInv

LEMMA ModelOutside ==
    ASSUME Model!IInv, Model!Outside
    PROVE  Model!IInv'
<1>1. /\ \/ v2' = "absent" /\ v10' = FALSE /\ v3' = v3
         \/ v3' = ~v3 /\ UNCHANGED <<v2, v10>>
      /\ v11' = (v11 \/ Model!Due)
      /\ UNCHANGED <<v1, v4, v5, v6, v7, v8, v9, v12>> /\ Model!TypeOK
  <2>1. \/ v2' = "absent" /\ v10' = FALSE /\ v3' = v3
        \/ v3' = ~v3 /\ UNCHANGED <<v2, v10>>
    BY DEF Model!Outside
  <2>2. /\ v11' = (v11 \/ Model!Due)
        /\ UNCHANGED <<v1, v4, v5, v6, v7, v8, v9, v12>>
    BY DEF Model!Outside
  <2> QED BY <2>1, <2>2 DEF Model!IInv
<1>2. v11' \in BOOLEAN /\ v3' \in BOOLEAN
  BY <1>1 DEF Model!Outside, Model!TypeOK
<1>3. Model!TypeOK'
  BY <1>1, <1>2 DEF Model!TypeOK
<1>4. Model!Copied' /\ Model!NotYet'
  BY <1>1 DEF Model!IInv, Model!Copied, Model!NotYet
<1>5. ASSUME ~v11', v1' = "up" PROVE Model!InTurn'
  <2>1. ~v11 /\ v1 = "up" /\ Model!InTurn
    BY <1>1, <1>5 DEF Model!IInv
  <2> QED BY <1>1, <2>1 DEF Model!InTurn
<1> QED BY <1>3, <1>4, <1>5 DEF Model!IInv

LEMMA ModelKeeps ==
    ASSUME Model!IInv, Model!Next
    PROVE  Model!IInv'
BY ModelLaunches, ModelSeeds, ModelPresses, ModelDetects, ModelSets,
   ModelPostsFound, ModelDownloads, ModelCopies, ModelNames, ModelLoads,
   ModelShows, ModelQuits, ModelOutside DEF Model!Next

LEMMA ModelStutters ==
    ASSUME Model!IInv, UNCHANGED Slots
    PROVE  Model!IInv'
<1>1. UNCHANGED <<v1, v2, v3, v4, v5, v6, v7, v8, v9, v10, v11, v12>>
  BY DEF Slots
<1> QED BY <1>1 DEF Model!IInv, Model!TypeOK, Model!Copied, Model!NotYet,
        Model!InTurn

LEMMA ModelQuiet ==
    ASSUME Model!IInv
    PROVE  Model!ModelShown
<1>1. ASSUME v1 = "up", ~Model!Due
      PROVE  v7 = <<>> /\ \A t \in Tasks : v6[t].at = "idle"
  BY <1>1 DEF Model!Due, Model!Idle
<1> QED BY <1>1 DEF Model!ModelShown, Model!IInv, Model!InTurn, Model!Copied

LEMMA ModelInvariant ==
    ServicesSpec => [](focus = "model" => Model!IInv)
<1> DEFINE I == focus = "model" => Model!IInv
<1>1. ServicesInit => I
  BY WindowInits, ModelBegins
<1>2. I /\ [ServicesNext]_serviceVars => I'
  BY WindowSteps, WindowStutters, ModelKeeps, ModelStutters
<1> QED BY <1>1, <1>2, PTL DEF ServicesSpec

-----------------------------------------------------------------------------
(* ComputeSettings                                                         *)
(* Slots: v1 is launched, v2 panel, v3 loaded, v4 file, v5 save, v6        *)
(* changes, v7 launches, v8 wished, v9 early, v10 lost.                    *)

LEMMA ComputeTyped ==
    ASSUME Compute!TypeOK
    PROVE  /\ v2 \in Compute!Settings /\ v3 \in Compute!Settings
           /\ v8 \in Compute!Settings
           /\ v4 \in Compute!Settings \cup {None, CutShort}
           /\ v4 \in Compute!Settings => v4 \notin {None, CutShort}
           /\ v6 \in 0..MaxChanges /\ v7 \in 0..MaxLaunches
BY FilesAssumption DEF Compute!TypeOK

LEMMA ComputeBegins == Compute!Init => Compute!IInv
<1> SUFFICES ASSUME Compute!Init PROVE Compute!IInv
  OBVIOUS
<1>1. Compute!Defaults \in Compute!Settings
  BY FilesAssumption DEF Compute!Defaults, Compute!Settings
<1>2. 0 \in 0..MaxChanges /\ 0 \in 0..MaxLaunches
  BY WindowsAssumption
<1>3. Compute!TypeOK
  BY <1>1, <1>2 DEF Compute!Init, Compute!TypeOK
<1>4. v4 # CutShort /\ Compute!Kept
  BY FilesAssumption DEF Compute!Init, Compute!Kept
<1> QED BY <1>3, <1>4 DEF Compute!IInv

LEMMA ComputeKeeps ==
    ASSUME Compute!IInv, Compute!Next
    PROVE  Compute!IInv'
<1>1. /\ Compute!TypeOK /\ v4 # CutShort /\ Compute!Kept
      /\ Compute!Defaults \in Compute!Settings
  BY FilesAssumption DEF Compute!IInv, Compute!Defaults, Compute!Settings
<1>2. CASE Compute!Launch
  <2>1. v7' \in 0..MaxLaunches
    BY <1>1, <1>2, WindowsAssumption DEF Compute!Launch, Compute!TypeOK
  <2>2. Compute!TypeOK' /\ v4' # CutShort
    BY <1>1, <1>2, <2>1 DEF Compute!Launch, Compute!TypeOK
  <2>3. Compute!Kept'
    BY <1>1, <1>2 DEF Compute!Launch, Compute!Kept
  <2> QED BY <2>2, <2>3 DEF Compute!IInv
<1>3. CASE Compute!Load
  <2>1. v3' \in Compute!Settings
    BY <1>1, <1>3, ComputeTyped DEF Compute!Load
  <2>2. Compute!TypeOK' /\ v4' # CutShort
    BY <1>1, <1>3, <2>1 DEF Compute!Load, Compute!TypeOK
  <2>3. Compute!Kept'
    <3>1. /\ v1 = "detecting" /\ v1' = "loaded"
          /\ UNCHANGED <<v2, v4, v5, v6, v7, v8, v9, v10>>
          /\ v3' = (IF v4 \in {None, CutShort} THEN Compute!Defaults ELSE v4)
      BY <1>3 DEF Compute!Load
    <3>2. ASSUME ~v9, ~v10 PROVE v3' = v8
      <4>1. v5 = "none" /\ (v4 = v8 \/ (v4 = None /\ v8 = Compute!Defaults))
        BY <1>1, <3>1, <3>2 DEF Compute!Kept
      <4>2. v8 \notin {None, CutShort}
        BY <1>1, ComputeTyped, FilesAssumption
      <4> QED BY <3>1, <4>1, <4>2
    <3> QED BY <1>1, <3>1, <3>2 DEF Compute!Kept
  <2> QED BY <2>2, <2>3 DEF Compute!IInv
<1>4. CASE Compute!Hydrate
  <2>1. Compute!TypeOK' /\ v4' # CutShort
    BY <1>1, <1>4 DEF Compute!Hydrate, Compute!TypeOK
  <2>2. Compute!Kept'
    BY <1>1, <1>4 DEF Compute!Hydrate, Compute!Kept
  <2> QED BY <2>1, <2>2 DEF Compute!IInv
<1>5. CASE Compute!Change
  <2>1. PICK s \in Compute!Settings : v2' = s /\ v8' = s
    BY <1>5 DEF Compute!Change
  <2>2. v6' \in 0..MaxChanges
    BY <1>1, <1>5, WindowsAssumption DEF Compute!Change, Compute!TypeOK
  <2>3. v9' \in BOOLEAN /\ v10' \in BOOLEAN /\ v5' \in {"none", "written"}
    BY <1>1, <1>5 DEF Compute!Change, Compute!TypeOK
  <2>4. UNCHANGED <<v1, v3, v4, v7>>
    BY <1>5 DEF Compute!Change
  <2>5. Compute!TypeOK' /\ v4' # CutShort
    BY <1>1, <2>1, <2>2, <2>3, <2>4 DEF Compute!TypeOK
  <2>6. Compute!Kept'
    BY <1>1, <1>5, <2>1 DEF Compute!Change, Compute!Kept
  <2> QED BY <2>5, <2>6 DEF Compute!IInv
<1>6. CASE Compute!Rename
  <2>1. /\ v5 = "written" /\ v5' = "none" /\ v4' \in {v2, v4}
        /\ UNCHANGED <<v1, v2, v3, v6, v7, v8, v9>> /\ v10' \in {v10, TRUE}
    BY <1>6 DEF Compute!Rename
  <2>2. Compute!TypeOK'
    BY <1>1, <2>1 DEF Compute!TypeOK
  <2>3. v4' # CutShort
    BY <1>1, <2>1, ComputeTyped, FilesAssumption
  <2>4. Compute!Kept'
    BY <1>1, <1>6 DEF Compute!Rename, Compute!Kept, Compute!TypeOK
  <2> QED BY <2>2, <2>3, <2>4 DEF Compute!IInv
<1>7. CASE Compute!Quits
  <2>1. v10' \in BOOLEAN
    BY <1>1, <1>7 DEF Compute!Quits, Compute!TypeOK
  <2>2. Compute!TypeOK' /\ v4' # CutShort
    BY <1>1, <1>7, <2>1 DEF Compute!Quits, Compute!TypeOK
  <2>3. Compute!Kept'
    BY <1>1, <1>7 DEF Compute!Quits, Compute!Kept
  <2> QED BY <2>2, <2>3 DEF Compute!IInv
<1> QED BY <1>2, <1>3, <1>4, <1>5, <1>6, <1>7 DEF Compute!Next

LEMMA ComputeStutters ==
    ASSUME Compute!IInv, UNCHANGED Slots
    PROVE  Compute!IInv'
<1>1. UNCHANGED <<v1, v2, v3, v4, v5, v6, v7, v8, v9, v10>>
  BY DEF Slots
<1> QED BY <1>1 DEF Compute!IInv, Compute!TypeOK, Compute!Kept

LEMMA ComputeQuiet ==
    ASSUME Compute!IInv
    PROVE  Compute!OptInKept
BY DEF Compute!IInv, Compute!Kept, Compute!OptInKept

LEMMA ComputeInvariant ==
    ServicesSpec => [](focus = "compute" => Compute!IInv)
<1> DEFINE I == focus = "compute" => Compute!IInv
<1>1. ServicesInit => I
  BY WindowInits, ComputeBegins
<1>2. I /\ [ServicesNext]_serviceVars => I'
  BY WindowSteps, WindowStutters, ComputeKeeps, ComputeStutters
<1> QED BY <1>1, <1>2, PTL DEF ServicesSpec

-----------------------------------------------------------------------------
(* Dashboard                                                               *)
(* Slots: v1 is balance, v2 wallet, v3 baseline, v4 reading, v5 posted, v6 *)
(* view, v7 passes, v8 received, v9 chosen.                                *)

DashReadings == [at : {"asleep", "shown", "earned"}, of : Dash!Somebody,
                 selected : Dash!Somebody, shown : Dash!Amounts,
                 earned : Dash!Amounts]

LEMMA DashTyped ==
    ASSUME Dash!TypeOK
    PROVE  /\ v1 \in [Accounts -> Dash!Amounts] /\ v2 \in Seq(Accounts)
           /\ v3 \in (Dash!Amounts \ {0}) \cup {None}
           /\ v4 \in DashReadings /\ v5 \in Seq(Dash!Views)
           /\ v6 \in Dash!Views /\ v7 \in 0..MaxPasses
           /\ v8 \in Dash!Amounts /\ v9 \in Dash!Somebody
           /\ Dash!First \in Dash!Somebody
           /\ v2 = <<>> => Dash!First = None
           /\ v2 # <<>> => Dash!First = v2[1] /\ v2[1] \in Accounts
           /\ None \notin Dash!Amounts /\ 0 \in Dash!Amounts
           /\ Dash!Amounts = 0..MaxBalance
<1>1. v2 \in Seq(Accounts)
  BY DEF Dash!TypeOK
<1>2. v2 # <<>> => v2[1] \in Accounts
  BY <1>1
<1>3. None \notin Dash!Amounts /\ 0 \in Dash!Amounts
  BY WindowsAssumption DEF Dash!Amounts
<1> QED BY <1>1, <1>2, <1>3 DEF Dash!TypeOK, DashReadings, Dash!First,
        Dash!Somebody, Dash!Amounts

LEMMA DashBegins == Dash!Init => Dash!IInv
<1> SUFFICES ASSUME Dash!Init PROVE Dash!IInv
  OBVIOUS
<1>1. 0 \in 0..MaxPasses /\ 0 \in Dash!Amounts
  BY WindowsAssumption DEF Dash!Amounts
<1>2. v2 \in Seq(Accounts) /\ Len(v2) <= 2
  <2>1. CASE v2 = <<>>
    BY <2>1
  <2>2. ASSUME NEW a \in Accounts, v2 = <<a>>
        PROVE  v2 \in Seq(Accounts) /\ Len(v2) <= 2
    BY <2>2
  <2> QED BY <2>1, <2>2 DEF Dash!Init
<1>3. Dash!First \in Dash!Somebody
  BY DEF Dash!Init, Dash!First, Dash!Somebody
<1>4. v4 \in DashReadings
  BY <1>1 DEF Dash!Init, Dash!Asleep, DashReadings, Dash!Somebody
<1>5. v5 \in Seq(Dash!Views) /\ v6 \in Dash!Views
  BY <1>1 DEF Dash!Init, Dash!NoView, Dash!Views, Dash!Somebody
<1>6. Dash!TypeOK
  BY <1>1, <1>2, <1>3, <1>4, <1>5 DEF Dash!Init, Dash!TypeOK, DashReadings
<1>7. Dash!CameIn /\ Dash!OfFirst
  BY DEF Dash!Init, Dash!CameIn, Dash!OfFirst, Dash!Asleep, Dash!NoView
<1> QED BY <1>6, <1>7 DEF Dash!IInv

LEMMA DashReadsShown ==
    ASSUME Dash!IInv, Dash!ReadShown
    PROVE  Dash!IInv'
<1>1. /\ v7 < MaxPasses /\ v7' = v7 + 1
      /\ UNCHANGED <<v1, v2, v3, v5, v6, v8, v9>>
      /\ \E wei \in Dash!Balance(Dash!First) :
             v4' = [at |-> "shown", of |-> Dash!First, selected |-> v9,
                    shown |-> wei, earned |-> 0]
      /\ Dash!TypeOK /\ Dash!CameIn /\ Dash!OfFirst
  BY DEF Dash!ReadShown, Dash!IInv
<1>2. Dash!Balance(Dash!First) \subseteq Dash!Amounts
  BY <1>1, DashTyped DEF Dash!Balance, Dash!Somebody
<1>3. v4' \in DashReadings /\ v4'.earned = 0
  BY <1>1, <1>2, DashTyped DEF DashReadings
<1>4. v7' \in 0..MaxPasses /\ v7' > 0
  BY <1>1, DashTyped, WindowsAssumption
<1>5. Dash!TypeOK'
  BY <1>1, <1>3, <1>4 DEF Dash!TypeOK, DashReadings
<1>6. 0 <= v8
  BY <1>1, DashTyped
<1>7. UNCHANGED Dash!First
  BY <1>1 DEF Dash!First
<1> QED BY <1>1, <1>3, <1>4, <1>5, <1>6, <1>7
        DEF Dash!IInv, Dash!CameIn, Dash!OfFirst

LEMMA DashReadsEarned ==
    ASSUME Dash!IInv, Dash!ReadEarned
    PROVE  Dash!IInv'
<1>1. PICK wei \in Dash!Balance(Dash!First) :
          /\ v3' = Dash!FirstPositive(Dash!First, wei)
          /\ v4' = [v4 EXCEPT
                  !.at = "earned",
                  !.earned = IF Dash!First = None \/ v3' = None \/ wei < v3'
                             THEN 0 ELSE wei - v3']
  BY DEF Dash!ReadEarned
<1>2. /\ v4.at = "shown" /\ UNCHANGED <<v1, v2, v5, v6, v7, v8, v9>>
      /\ Dash!TypeOK /\ Dash!CameIn /\ Dash!OfFirst
  BY DEF Dash!ReadEarned, Dash!IInv
<1>3. /\ wei \in Dash!Amounts
      /\ Dash!First # None /\ wei > 0 => wei = v1[Dash!First]
  BY <1>2, DashTyped DEF Dash!Balance, Dash!Somebody
<1>4. UNCHANGED Dash!First
  BY <1>2 DEF Dash!First
<1>5. v3' \in (Dash!Amounts \ {0}) \cup {None}
  BY <1>1, <1>2, <1>3, DashTyped DEF Dash!FirstPositive
<1>6. v3' # None => /\ v2 # <<>> /\ v7 > 0
                    /\ v1[Dash!First] <= v3' + v8
  <2>1. CASE Dash!First # None /\ v3 = None /\ wei > 0
    <3>1. v3' = wei /\ wei = v1[Dash!First] /\ v2 # <<>> /\ v7 > 0
      BY <1>1, <1>2, <1>3, <2>1, DashTyped
         DEF Dash!FirstPositive, Dash!CameIn
    <3>2. wei \in Nat /\ v8 \in Nat
      BY <1>2, <1>3, DashTyped
    <3> QED BY <3>1, <3>2
  <2>2. CASE ~(Dash!First # None /\ v3 = None /\ wei > 0)
    <3>1. v3' = v3
      BY <1>1, <2>2 DEF Dash!FirstPositive
    <3> QED BY <1>2, <3>1 DEF Dash!CameIn
  <2> QED BY <2>1, <2>2
<1>7. PICK earned : /\ v4' = [v4 EXCEPT !.at = "earned", !.earned = earned]
                    /\ earned = IF Dash!First = None \/ v3' = None
                                   \/ wei < v3'
                                THEN 0 ELSE wei - v3'
  BY <1>1
<1>8. earned \in Dash!Amounts /\ earned <= v8
  <2>1. CASE Dash!First = None \/ v3' = None \/ wei < v3'
    BY <1>2, <1>7, <2>1, DashTyped
  <2>2. CASE ~(Dash!First = None \/ v3' = None \/ wei < v3')
    <3>1. /\ earned = wei - v3' /\ v3' \in 1..MaxBalance
          /\ wei \in 0..MaxBalance /\ ~(wei < v3')
      BY <1>2, <1>3, <1>5, <1>7, <2>2, DashTyped
    <3>2. v1[Dash!First] <= v3' + v8 /\ v8 \in Nat /\ MaxBalance \in Nat
      BY <1>2, <1>6, <2>2, DashTyped, WindowsAssumption
    <3>3. wei > 0 /\ earned \in 0..MaxBalance
      <4>1. ASSUME NEW x \in 0..MaxBalance, NEW y \in 1..MaxBalance, ~(x < y)
            PROVE  x > 0 /\ x - y \in 0..MaxBalance
        BY <4>1, WindowsAssumption
      <4> QED BY <3>1, <4>1
    <3>4. wei = v1[Dash!First]
      BY <1>3, <2>2, <3>3
    <3>5. earned <= v8
      <4>1. ASSUME NEW x \in 0..MaxBalance, NEW y \in 1..MaxBalance,
                   NEW r \in Nat, x <= y + r
            PROVE  x - y <= r
        BY <4>1, WindowsAssumption
      <4> QED BY <3>1, <3>2, <3>4, <4>1
    <3> QED BY <1>2, <3>3, <3>5, DashTyped
  <2> QED BY <2>1, <2>2
<1>9. /\ v4' \in DashReadings /\ v4'.earned = earned
  BY <1>2, <1>7, <1>8, DashTyped DEF DashReadings
<1>10. Dash!TypeOK'
  BY <1>2, <1>5, <1>9 DEF Dash!TypeOK, DashReadings
<1>11. Dash!CameIn'
  <2>1. v7 > 0
    BY <1>2 DEF Dash!CameIn
  <2> QED BY <1>2, <1>4, <1>6, <1>8, <1>9, <2>1 DEF Dash!CameIn
<1> QED BY <1>2, <1>4, <1>10, <1>11 DEF Dash!IInv, Dash!OfFirst

LEMMA DashPosts ==
    ASSUME Dash!IInv, Dash!PostFigures
    PROVE  Dash!IInv'
<1>1. PICK list \in {Dash!First, None} :
          v5' = Append(v5, [shown |-> v4.shown, of |-> v4.of,
                            selected |-> v4.selected, earned |-> v4.earned,
                            list |-> list])
  BY DEF Dash!PostFigures
<1>2. /\ v4' = Dash!Asleep /\ UNCHANGED <<v1, v2, v3, v6, v7, v8, v9>>
      /\ Dash!TypeOK /\ Dash!CameIn /\ Dash!OfFirst
  BY DEF Dash!PostFigures, Dash!IInv
<1>3. PICK c : c = [shown |-> v4.shown, of |-> v4.of,
                    selected |-> v4.selected, earned |-> v4.earned,
                    list |-> list]
  OBVIOUS
<1>4. c \in Dash!Views /\ c.earned = v4.earned /\ c.list = list
  BY <1>1, <1>2, <1>3, DashTyped DEF Dash!Views, DashReadings, Dash!Somebody
<1>5. v5' = Append(v5, c) /\ v5 \in Seq(Dash!Views)
  BY <1>1, <1>2, <1>3, DashTyped
<1>6. /\ v5' \in Seq(Dash!Views)
      /\ \A i \in DOMAIN v5' : v5'[i] = c \/ (i \in DOMAIN v5 /\ v5'[i] = v5[i])
  BY <1>4, <1>5
<1>7. v4' \in DashReadings /\ v4'.earned = 0 /\ v4'.at = "asleep"
  BY <1>2, DashTyped DEF Dash!Asleep, DashReadings, Dash!Somebody
<1>8. Dash!TypeOK'
  BY <1>2, <1>6, <1>7 DEF Dash!TypeOK, DashReadings
<1>9. UNCHANGED Dash!First /\ 0 <= v8
  BY <1>2, DashTyped DEF Dash!First
<1>10. Dash!CameIn'
  BY <1>2, <1>4, <1>6, <1>7, <1>9 DEF Dash!CameIn
<1>11. Dash!OfFirst'
  BY <1>1, <1>2, <1>4, <1>6, <1>9 DEF Dash!OfFirst
<1> QED BY <1>8, <1>10, <1>11 DEF Dash!IInv

LEMMA DashShows ==
    ASSUME Dash!IInv, Dash!ShowFigures
    PROVE  Dash!IInv'
<1>1. /\ v5 # <<>> /\ v5' = Tail(v5)
      /\ v6' = [Head(v5) EXCEPT !.list = IF @ = None THEN v6.list ELSE @]
      /\ UNCHANGED <<v1, v2, v3, v4, v7, v8, v9>>
      /\ Dash!TypeOK /\ Dash!CameIn /\ Dash!OfFirst
  BY DEF Dash!ShowFigures, Dash!IInv
<1>2. v5 \in Seq(Dash!Views)
  BY <1>1, DashTyped
<1>3. /\ v5' \in Seq(Dash!Views) /\ Head(v5) \in Dash!Views
      /\ 1 \in DOMAIN v5 /\ Head(v5) = v5[1]
      /\ \A i \in DOMAIN v5' : i + 1 \in DOMAIN v5 /\ v5'[i] = v5[i + 1]
  BY <1>1, <1>2
<1>4. /\ v6' \in Dash!Views /\ v6'.earned = Head(v5).earned
      /\ v6'.list \in {Head(v5).list, v6.list}
  BY <1>1, <1>3, DashTyped DEF Dash!Views
<1>5. Dash!TypeOK'
  BY <1>1, <1>3, <1>4 DEF Dash!TypeOK
<1>6. UNCHANGED Dash!First
  BY <1>1 DEF Dash!First
<1>7. Dash!CameIn'
  BY <1>1, <1>3, <1>4, <1>6 DEF Dash!CameIn
<1>8. Dash!OfFirst'
  BY <1>1, <1>3, <1>4, <1>6 DEF Dash!OfFirst
<1> QED BY <1>5, <1>7, <1>8 DEF Dash!IInv

LEMMA DashSelects ==
    ASSUME Dash!IInv, NEW i \in 1..2, Dash!SelectAccount(i)
    PROVE  Dash!IInv'
<1>1. /\ i \in 1..Len(v2) /\ v9' = v2[i]
      /\ v6' = [v6 EXCEPT !.shown = 0, !.of = v2[i], !.selected = v2[i]]
      /\ UNCHANGED <<v1, v2, v3, v4, v5, v7, v8>>
      /\ Dash!TypeOK /\ Dash!CameIn /\ Dash!OfFirst
  BY DEF Dash!SelectAccount, Dash!IInv
<1>2. v2[i] \in Dash!Somebody
  <2>1. v2 \in Seq(Accounts)
    BY <1>1, DashTyped
  <2> QED BY <1>1, <2>1 DEF Dash!Somebody
<1>3. /\ v6' \in Dash!Views /\ v6'.earned = v6.earned /\ v6'.list = v6.list
  BY <1>1, <1>2, DashTyped DEF Dash!Views
<1>4. Dash!TypeOK'
  BY <1>1, <1>2, <1>3 DEF Dash!TypeOK
<1>5. UNCHANGED Dash!First
  BY <1>1 DEF Dash!First
<1> QED BY <1>1, <1>3, <1>4, <1>5 DEF Dash!IInv, Dash!CameIn, Dash!OfFirst

LEMMA DashAdds ==
    ASSUME Dash!IInv, NEW a \in Accounts, Dash!AddAccount(a)
    PROVE  Dash!IInv'
<1>1. /\ Len(v2) < 2 /\ v2' = Append(v2, a) /\ v9' = a
      /\ UNCHANGED <<v1, v3, v4, v5, v6, v7, v8>>
      /\ Dash!TypeOK /\ Dash!CameIn /\ Dash!OfFirst
  BY DEF Dash!AddAccount, Dash!IInv
<1>2. v2 \in Seq(Accounts)
  BY <1>1, DashTyped
<1>3. v2' \in Seq(Accounts) /\ Len(v2') <= 2 /\ v2' # <<>>
  <2>1. Len(v2) \in Nat /\ Len(v2') = Len(v2) + 1 /\ v2' \in Seq(Accounts)
    BY <1>1, <1>2
  <2>2. \A n \in Nat : n < 2 => n + 1 <= 2
    OBVIOUS
  <2>3. Len(v2') <= 2
    BY <1>1, <2>1, <2>2
  <2>4. v2' # <<>>
    BY <1>1, <1>2
  <2> QED BY <2>1, <2>3, <2>4
<1>4. v2 # <<>> => v2'[1] = v2[1]
  BY <1>1, <1>2
<1>5. Dash!TypeOK'
  BY <1>1, <1>3 DEF Dash!TypeOK, Dash!Somebody
<1>6. /\ v2 # <<>> => Dash!First' = Dash!First
      /\ v2 = <<>> => Dash!First = None
  BY <1>3, <1>4 DEF Dash!First
<1>7. Dash!CameIn'
  BY <1>1, <1>3, <1>6 DEF Dash!CameIn
<1>8. Dash!OfFirst'
  BY <1>1, <1>6 DEF Dash!OfFirst
<1> QED BY <1>5, <1>7, <1>8 DEF Dash!IInv

LEMMA DashReceives ==
    ASSUME Dash!IInv, NEW a \in Accounts, Dash!Receive(a) \/ Dash!Spend(a)
    PROVE  Dash!IInv'
<1>1. /\ a = Dash!First /\ UNCHANGED <<v2, v3, v4, v5, v6, v7, v9>>
      /\ \/ /\ v1[a] < MaxBalance /\ v8 < MaxBalance
            /\ v1' = [v1 EXCEPT ![a] = v1[a] + 1]
            /\ v8' = IF v7 > 0 THEN v8 + 1 ELSE v8
         \/ /\ v1[a] > 0 /\ v1' = [v1 EXCEPT ![a] = v1[a] - 1] /\ v8' = v8
      /\ Dash!TypeOK /\ Dash!CameIn /\ Dash!OfFirst
  BY DEF Dash!Receive, Dash!Spend, Dash!IInv
<1>2. v1[a] \in 0..MaxBalance /\ v8 \in 0..MaxBalance /\ v7 \in 0..MaxPasses
  BY <1>1, DashTyped
<1>3. PICK n : /\ v1' = [v1 EXCEPT ![a] = n]
               /\ \/ /\ v1[a] < MaxBalance /\ v8 < MaxBalance
                     /\ n = v1[a] + 1
                     /\ v8' = IF v7 > 0 THEN v8 + 1 ELSE v8
                  \/ v1[a] > 0 /\ n = v1[a] - 1 /\ v8' = v8
  BY <1>1
<1>4. /\ n \in 0..MaxBalance /\ v8' \in 0..MaxBalance /\ v8 <= v8'
      /\ v7 > 0 => n - v1[a] <= v8' - v8
  BY <1>2, <1>3, WindowsAssumption
<1>5. /\ v1' \in [Accounts -> Dash!Amounts] /\ v1'[a] = n
  BY <1>1, <1>3, <1>4, DashTyped
<1>6. Dash!TypeOK'
  BY <1>1, <1>4, <1>5, DashTyped DEF Dash!TypeOK
<1>7. UNCHANGED Dash!First
  BY <1>1 DEF Dash!First
<1>8. ASSUME v3 # None
      PROVE  v1'[Dash!First] <= v3 + v8'
  <2>1. v7 > 0 /\ v1[a] <= v3 + v8 /\ v3 \in 0..MaxBalance
    BY <1>1, <1>8, DashTyped DEF Dash!CameIn
  <2>2. n <= v3 + v8'
    <3>1. ASSUME NEW x \in 0..MaxBalance, NEW y \in 0..MaxBalance,
                 NEW b \in 0..MaxBalance, NEW r \in 0..MaxBalance,
                 NEW s \in 0..MaxBalance, y - x <= s - r, x <= b + r
          PROVE  y <= b + s
      BY <3>1, WindowsAssumption
    <3> QED BY <1>2, <1>4, <2>1, <3>1
  <2> QED BY <1>1, <1>5, <2>2
<1>9. \A e \in Dash!Amounts : e <= v8 => e <= v8'
  BY <1>1, <1>2, <1>4, DashTyped
<1>10. /\ v4.earned \in Dash!Amounts /\ v6.earned \in Dash!Amounts
       /\ \A i \in DOMAIN v5 : v5[i].earned \in Dash!Amounts
  <2>1. v5 \in Seq(Dash!Views) /\ v4 \in DashReadings /\ v6 \in Dash!Views
    BY <1>1, DashTyped
  <2>2. \A i \in DOMAIN v5 : v5[i] \in Dash!Views
    BY <2>1
  <2> QED BY <2>1, <2>2 DEF DashReadings, Dash!Views
<1>11. Dash!CameIn'
  BY <1>1, <1>7, <1>8, <1>9, <1>10 DEF Dash!CameIn
<1>12. Dash!OfFirst'
  BY <1>1, <1>7 DEF Dash!OfFirst
<1> QED BY <1>6, <1>11, <1>12 DEF Dash!IInv

LEMMA DashKeeps ==
    ASSUME Dash!IInv, Dash!Next
    PROVE  Dash!IInv'
BY DashReadsShown, DashReadsEarned, DashPosts, DashShows, DashSelects,
   DashAdds, DashReceives DEF Dash!Next

LEMMA DashStutters ==
    ASSUME Dash!IInv, UNCHANGED Slots
    PROVE  Dash!IInv'
<1>1. UNCHANGED <<v1, v2, v3, v4, v5, v6, v7, v8, v9>>
  BY DEF Slots
<1> QED BY <1>1 DEF Dash!IInv, Dash!TypeOK, Dash!CameIn, Dash!OfFirst,
        Dash!First

LEMMA DashQuiet ==
    ASSUME Dash!IInv
    PROVE  Dash!EarnedCameIn
BY DEF Dash!IInv, Dash!CameIn, Dash!OfFirst, Dash!EarnedCameIn

LEMMA DashInvariant ==
    ServicesSpec => [](focus = "dash" => Dash!IInv)
<1> DEFINE I == focus = "dash" => Dash!IInv
<1>1. ServicesInit => I
  BY WindowInits, DashBegins
<1>2. I /\ [ServicesNext]_serviceVars => I'
  BY WindowSteps, WindowStutters, DashKeeps, DashStutters
<1> QED BY <1>1, <1>2, PTL DEF ServicesSpec

-----------------------------------------------------------------------------
(* BusySigns                                                               *)
(* Slots: v1 is page, v2 step, v3 ready, v4 running, v5 sign, v6 linked,   *)
(* v7 linkFile, v8 under, v9 posted, v10 presses, v11 launches, v12 twice. *)

BusyClosures == [kind : Busy!Kinds, ok : BOOLEAN]

\* A closure is added at the end of the queue, or taken from its head.
LEMMA BusyAppend ==
    ASSUME NEW c \in BusyClosures, v9 \in Seq(BusyClosures),
           v9' = Append(v9, c)
    PROVE  /\ v9' \in Seq(BusyClosures)
           /\ \E n \in Nat : /\ DOMAIN v9' = DOMAIN v9 \cup {n}
                             /\ n \notin DOMAIN v9 /\ v9'[n] = c
                             /\ \A i \in DOMAIN v9 : v9'[i] = v9[i]
<1> DEFINE n == Len(v9) + 1
<1>1. n \in Nat /\ v9'[n] = c /\ v9' \in Seq(BusyClosures)
  OBVIOUS
<1>2. DOMAIN v9' = DOMAIN v9 \cup {n} /\ n \notin DOMAIN v9
  OBVIOUS
<1>3. \A i \in DOMAIN v9 : v9'[i] = v9[i]
  OBVIOUS
<1> QED BY <1>1, <1>2, <1>3

LEMMA BusyTail ==
    ASSUME v9 \in Seq(BusyClosures), v9 # <<>>, v9' = Tail(v9)
    PROVE  /\ v9' \in Seq(BusyClosures) /\ Head(v9) \in BusyClosures
           /\ 1 \in DOMAIN v9 /\ v9[1] = Head(v9)
           /\ \A i \in DOMAIN v9' :
                  /\ i \in Nat /\ i + 1 # 1 /\ i + 1 \in DOMAIN v9
                  /\ v9'[i] = v9[i + 1]
           /\ \A i \in DOMAIN v9 :
                  i # 1 => i - 1 \in DOMAIN v9' /\ v9'[i - 1] = v9[i]
<1>1. /\ v9' \in Seq(BusyClosures) /\ Head(v9) \in BusyClosures
      /\ 1 \in DOMAIN v9 /\ v9[1] = Head(v9)
  OBVIOUS
<1>2. Len(v9) \in Nat /\ Len(v9') = Len(v9) - 1
  OBVIOUS
<1>3. DOMAIN v9 = 1..Len(v9) /\ DOMAIN v9' = 1..Len(v9')
  BY <1>1
<1>4. \A i \in DOMAIN v9' :
          /\ i \in Nat /\ i + 1 # 1 /\ i + 1 \in DOMAIN v9
          /\ v9'[i] = v9[i + 1]
  BY <1>2, <1>3
<1>5. \A i \in DOMAIN v9 :
          i # 1 => i - 1 \in DOMAIN v9' /\ v9'[i - 1] = v9[i]
  <2>1. ASSUME NEW i \in DOMAIN v9, i # 1
        PROVE  i - 1 \in DOMAIN v9' /\ (i - 1) + 1 = i
    BY <1>2, <1>3, <2>1
  <2> QED BY <1>4, <2>1
<1> QED BY <1>1, <1>4, <1>5

LEMMA BusyTyped ==
    ASSUME Busy!TypeOK
    PROVE  /\ v5 \in [Busy!Flags -> BOOLEAN]
           /\ v8 \in [Busy!Kinds -> 0..MaxPresses]
           /\ v9 \in Seq(BusyClosures) /\ v10 \in 0..MaxPresses
           /\ v12 \subseteq Busy!Kinds
           /\ Busy!Flags \subseteq Busy!Kinds
           /\ Busy!Loading \subseteq Busy!Kinds
BY DEF Busy!TypeOK, BusyClosures, Busy!Flags, Busy!Loading, Busy!Kinds

\* Nothing is under way when the window opens.
BusyFresh ==
    /\ v5 = [k \in Busy!Flags |-> FALSE] /\ v6 = v7 /\ v4 = FALSE
    /\ v8 = [k \in Busy!Kinds |-> 0] /\ v9 = <<>> /\ v12 = {}
    /\ v10 \in 0..MaxPresses

LEMMA BusyOpens ==
    ASSUME BusyFresh
    PROVE  Busy!OneOfAKind /\ Busy!Linking /\ Busy!SignsTrue
<1>1. /\ \A k \in Busy!Kinds : v8[k] = 0 /\ ~Busy!Busy(k)
      /\ "boot" \in Busy!Kinds /\ "chat" \in Busy!Kinds
      /\ Busy!Flags \subseteq Busy!Kinds /\ Busy!Loading \subseteq Busy!Kinds
  BY DEF BusyFresh, Busy!Busy, Busy!Posted, Busy!Kinds, Busy!Flags,
         Busy!Loading
<1>2. v10 >= 0
  BY DEF BusyFresh
<1> QED BY <1>1, <1>2 DEF BusyFresh, Busy!OneOfAKind, Busy!Linking,
        Busy!SignsTrue

LEMMA BusyOpensAfter ==
    ASSUME BusyFresh'
    PROVE  (Busy!OneOfAKind /\ Busy!Linking /\ Busy!SignsTrue)'
<1>1. /\ \A k \in Busy!Kinds : v8'[k] = 0 /\ ~Busy!Busy(k)'
      /\ "boot" \in Busy!Kinds /\ "chat" \in Busy!Kinds
      /\ Busy!Flags \subseteq Busy!Kinds /\ Busy!Loading \subseteq Busy!Kinds
  BY DEF BusyFresh, Busy!Busy, Busy!Posted, Busy!Kinds, Busy!Flags,
         Busy!Loading
<1>2. v10' >= 0
  BY DEF BusyFresh
<1> QED BY <1>1, <1>2 DEF BusyFresh, Busy!OneOfAKind, Busy!Linking,
        Busy!SignsTrue

LEMMA BusyBegins == Busy!Init => Busy!IInv
<1> SUFFICES ASSUME Busy!Init PROVE Busy!IInv
  OBVIOUS
<1>1. 0 \in 0..MaxPresses /\ 0 \in 0..MaxLaunches
  BY WindowsAssumption
<1>2. v9 \in Seq(BusyClosures)
  BY DEF Busy!Init
<1>3. Busy!TypeOK
  BY <1>1, <1>2 DEF Busy!Init, Busy!TypeOK, BusyClosures
<1>4. BusyFresh
  BY <1>1 DEF Busy!Init, BusyFresh
<1> QED BY <1>3, <1>4, BusyOpens DEF Busy!IInv

LEMMA BusyPresses ==
    ASSUME Busy!IInv, NEW k \in Busy!Kinds, Busy!Press(k),
           v2' \in {"choose", "boot"},
           k = "link" => v6 = v7 /\ ~v5["link"]
    PROVE  Busy!IInv'
<1>1. /\ v10 < MaxPresses /\ v10' = v10 + 1
      /\ v8' = [v8 EXCEPT ![k] = v8[k] + 1]
      /\ v5' = [f \in Busy!Flags |-> v5[f] \/ f = k]
      /\ v4' = (v4 \/ k \in Busy!Loading)
      /\ v12' = v12 \cup {o \in Busy!Kinds :
                     Busy!Busy(o) /\ (o = k \/ {o, k} = Busy!Loading)}
      /\ UNCHANGED <<v1, v3, v6, v7, v9, v11>>
  BY DEF Busy!Press
<1>2. Busy!TypeOK /\ Busy!OneOfAKind /\ Busy!Linking /\ Busy!SignsTrue
  BY DEF Busy!IInv
<1>3. /\ v8[k] \in 0..MaxPresses /\ v8[k] <= v10 /\ v10 \in 0..MaxPresses
  BY <1>2, BusyTyped DEF Busy!OneOfAKind
<1>4. PICK n : n = v8[k] + 1
  OBVIOUS
<1>5. /\ n \in 0..MaxPresses /\ n > 0 /\ n <= v10' /\ v10' \in 0..MaxPresses
      /\ v10 <= v10' /\ (v8[k] = 0 => n = 1)
  BY <1>1, <1>3, <1>4, WindowsAssumption
<1>6. /\ v8' \in [Busy!Kinds -> 0..MaxPresses] /\ v8'[k] = n
      /\ \A o \in Busy!Kinds : o # k => v8'[o] = v8[o]
  BY <1>1, <1>2, <1>4, <1>5, BusyTyped
<1>7. /\ v5' \in [Busy!Flags -> BOOLEAN]
      /\ \A f \in Busy!Flags : v5'[f] <=> v5[f] \/ f = k
  BY <1>1, <1>2, BusyTyped
<1>8. v12' \subseteq Busy!Kinds /\ v12 \subseteq v12' /\ v4' \in BOOLEAN
  BY <1>1, <1>2, BusyTyped
<1>9. Busy!TypeOK'
  BY <1>1, <1>2, <1>5, <1>6, <1>7, <1>8 DEF Busy!TypeOK
<1>10. /\ \A o \in Busy!Kinds : Busy!Posted(o)' <=> Busy!Posted(o)
       /\ \A o \in Busy!Kinds : o # k => (Busy!Busy(o)' <=> Busy!Busy(o))
       /\ Busy!Busy(k)'
  BY <1>1, <1>5, <1>6 DEF Busy!Busy, Busy!Posted
<1>11. ASSUME k \notin v12'
       PROVE  ~Busy!Busy(k) /\ v8[k] = 0 /\ ~Busy!Posted(k)
  <2>1. ~Busy!Busy(k)
    BY <1>1, <1>11
  <2> QED BY <1>3, <2>1 DEF Busy!Busy
<1>12. \A o \in Busy!Kinds \ v12' :
          /\ v8'[o] <= 1
          /\ v8'[o] > 0 => ~Busy!Posted(o)'
          /\ \A i, j \in DOMAIN v9' :
                 v9'[i].kind = o /\ v9'[j].kind = o => i = j
  <2>1. ASSUME NEW o \in Busy!Kinds \ v12', o # k
        PROVE  /\ v8'[o] <= 1
               /\ v8'[o] > 0 => ~Busy!Posted(o)'
               /\ \A i, j \in DOMAIN v9' :
                      v9'[i].kind = o /\ v9'[j].kind = o => i = j
    BY <1>1, <1>2, <1>6, <1>8, <1>10, <2>1 DEF Busy!OneOfAKind
  <2>2. ASSUME k \notin v12'
        PROVE  /\ v8'[k] <= 1
               /\ v8'[k] > 0 => ~Busy!Posted(k)'
               /\ \A i, j \in DOMAIN v9' :
                      v9'[i].kind = k /\ v9'[j].kind = k => i = j
    BY <1>1, <1>5, <1>6, <1>10, <1>11, <2>2 DEF Busy!Posted
  <2> QED BY <2>1, <2>2
<1>13. ASSUME v12' \cap Busy!Loading = {}
       PROVE  /\ v12 \cap Busy!Loading = {}
              /\ k \in Busy!Loading =>
                     \A o \in Busy!Loading : ~Busy!Busy(o)
  <2>1. v12 \cap Busy!Loading = {}
    BY <1>8, <1>13
  <2>2. ASSUME k \in Busy!Loading, NEW o \in Busy!Loading, Busy!Busy(o)
        PROVE  FALSE
    <3>1. o \in Busy!Kinds
      BY <2>2 DEF Busy!Loading, Busy!Kinds
    <3>2. o = k \/ {o, k} = Busy!Loading
      BY <2>2 DEF Busy!Loading
    <3>3. o \in v12'
      BY <1>1, <2>2, <3>1, <3>2
    <3> QED BY <1>13, <2>2, <3>3
  <2> QED BY <2>1, <2>2
<1>14. v12' \cap Busy!Loading = {} => ~Busy!Busy("boot")' \/ ~Busy!Busy("chat")'
  <2>1. "boot" \in Busy!Kinds /\ "chat" \in Busy!Kinds
        /\ Busy!Loading = {"boot", "chat"}
    BY DEF Busy!Kinds, Busy!Loading
  <2> QED BY <1>2, <1>10, <1>13, <2>1 DEF Busy!OneOfAKind
<1>15. \A o \in Busy!Kinds : v8'[o] <= v10'
  <2>1. ASSUME NEW o \in Busy!Kinds, o # k PROVE v8'[o] <= v10'
    <3>1. v8'[o] = v8[o] /\ v8[o] <= v10 /\ v8[o] \in 0..MaxPresses
      BY <1>2, <1>6, <2>1, BusyTyped DEF Busy!OneOfAKind
    <3> QED BY <1>3, <1>5, <3>1
  <2> QED BY <1>5, <1>6, <2>1
<1>16. Busy!OneOfAKind'
  BY <1>12, <1>14, <1>15 DEF Busy!OneOfAKind
<1>17. Busy!Linking'
  <2>1. "link" \notin v12'
    <3>1. ASSUME "link" \in v12' PROVE FALSE
      <4>1. "link" \notin v12 /\ Busy!Busy("link")
            /\ ("link" = k \/ {"link", k} = Busy!Loading)
        BY <1>1, <1>2, <3>1 DEF Busy!Linking
      <4>2. k = "link"
        BY <4>1 DEF Busy!Loading
      <4>3. "link" \in Busy!Flags
        BY DEF Busy!Flags, Busy!Kinds
      <4>4. v5["link"]
        BY <1>2, <4>1, <4>3 DEF Busy!SignsTrue
      <4> QED BY <4>2, <4>4
    <3> QED BY <3>1
  <2> QED BY <1>1, <1>2, <2>1 DEF Busy!Linking
<1>18. Busy!SignsTrue'
  <2>1. \A o \in Busy!Flags \ v12' : v5'[o] <=> Busy!Busy(o)'
    <3>1. Busy!Flags \subseteq Busy!Kinds
      BY <1>2, BusyTyped
    <3> QED BY <1>2, <1>7, <1>8, <1>10, <3>1 DEF Busy!SignsTrue
  <2>2. ASSUME v12' \cap Busy!Loading = {}
        PROVE  v4' <=> \E o \in Busy!Loading : Busy!Busy(o)'
    <3>1. Busy!Loading \subseteq Busy!Kinds /\ v12 \cap Busy!Loading = {}
          /\ (v4 <=> \E o \in Busy!Loading : Busy!Busy(o))
      BY <1>2, <1>13, <2>2, BusyTyped DEF Busy!SignsTrue
    <3>2. v4 \in BOOLEAN
      BY <1>2 DEF Busy!TypeOK
    <3>3. CASE k \in Busy!Loading
      BY <1>1, <1>10, <3>2, <3>3
    <3>4. CASE k \notin Busy!Loading
      BY <1>1, <1>10, <3>1, <3>2, <3>4
    <3> QED BY <3>3, <3>4
  <2>3. ~Busy!Busy("link")' => v6' = v7'
    BY <1>17 DEF Busy!Linking, Busy!Busy, Busy!Posted
  <2> QED BY <2>1, <2>2, <2>3 DEF Busy!SignsTrue
<1> QED BY <1>9, <1>16, <1>17, <1>18 DEF Busy!IInv

LEMMA BusyButtons ==
    ASSUME Busy!IInv, \/ Busy!StartNode \/ Busy!ChatSend \/ Busy!LinkDevice
                      \/ Busy!PinToIpfs \/ Busy!RequestFaucet
    PROVE  Busy!IInv'
<1>1. v2 \in {"choose", "boot"} /\ Busy!SignsTrue /\ "link" \notin v12
      /\ "link" \in Busy!Flags
  BY DEF Busy!IInv, Busy!TypeOK, Busy!Linking, Busy!Flags, Busy!Kinds
<1>2. {"boot", "chat", "pin", "faucet", "link"} \subseteq Busy!Kinds
  BY DEF Busy!Kinds
<1>3. CASE Busy!LinkDevice
  <2>1. ~v5["link"] /\ Busy!Press("link") /\ v2' = v2
    BY <1>3 DEF Busy!LinkDevice
  <2>2. v6 = v7
    BY <1>1, <2>1 DEF Busy!SignsTrue
  <2> QED BY <1>1, <1>2, <2>1, <2>2, BusyPresses
<1>4. CASE Busy!StartNode
  BY <1>2, <1>4, BusyPresses DEF Busy!StartNode
<1>5. CASE Busy!ChatSend
  BY <1>1, <1>2, <1>5, BusyPresses DEF Busy!ChatSend
<1>6. CASE Busy!PinToIpfs
  BY <1>1, <1>2, <1>6, BusyPresses DEF Busy!PinToIpfs
<1>7. CASE Busy!RequestFaucet
  BY <1>1, <1>2, <1>7, BusyPresses DEF Busy!RequestFaucet
<1> QED BY <1>3, <1>4, <1>5, <1>6, <1>7

LEMMA BusyAnswers ==
    ASSUME Busy!IInv, NEW k \in Busy!Kinds, NEW ok \in BOOLEAN,
           Busy!Answers(k, ok)
    PROVE  Busy!IInv'
<1>1. /\ v8[k] > 0 /\ v8' = [v8 EXCEPT ![k] = v8[k] - 1]
      /\ v9' = Append(v9, [kind |-> k, ok |-> ok])
      /\ UNCHANGED <<v1, v2, v3, v4, v5, v6, v10, v11, v12>>
      /\ v7' = v7 \/ (k = "link" /\ ok /\ v7' \in Accounts)
  BY DEF Busy!Answers
<1>2. Busy!TypeOK /\ Busy!OneOfAKind /\ Busy!Linking /\ Busy!SignsTrue
  BY DEF Busy!IInv
<1>3. PICK c : c = [kind |-> k, ok |-> ok]
  OBVIOUS
<1>4. c \in BusyClosures /\ c.kind = k /\ c.ok = ok /\ v9' = Append(v9, c)
      /\ v9 \in Seq(BusyClosures)
  BY <1>1, <1>2, <1>3, BusyTyped DEF BusyClosures
<1>5. PICK m \in Nat : /\ DOMAIN v9' = DOMAIN v9 \cup {m}
                       /\ m \notin DOMAIN v9 /\ v9'[m] = c
                       /\ \A i \in DOMAIN v9 : v9'[i] = v9[i]
  BY <1>4, BusyAppend
<1>6. PICK n : n = v8[k] - 1
  OBVIOUS
<1>7. v8[k] \in 0..MaxPresses /\ v8[k] <= v10 /\ v10 \in 0..MaxPresses
  BY <1>2, BusyTyped DEF Busy!OneOfAKind
<1>8. n \in 0..MaxPresses /\ n <= v10 /\ (v8[k] <= 1 => n = 0)
  <2>1. ASSUME NEW x \in 0..MaxPresses, NEW p \in 0..MaxPresses,
               x <= p, x > 0
        PROVE  x - 1 \in 0..MaxPresses /\ x - 1 <= p /\ (x <= 1 => x - 1 = 0)
    BY <2>1, WindowsAssumption
  <2> QED BY <1>1, <1>6, <1>7, <2>1
<1>9. /\ v8' \in [Busy!Kinds -> 0..MaxPresses] /\ v8'[k] = n
      /\ \A o \in Busy!Kinds : o # k => v8'[o] = v8[o]
  BY <1>1, <1>2, <1>6, <1>8, BusyTyped
<1>10. v9' \in Seq(BusyClosures) /\ v7' \in Accounts \cup {None}
  BY <1>1, <1>2, <1>4, BusyAppend DEF Busy!TypeOK
<1>11. Busy!TypeOK'
  BY <1>1, <1>2, <1>9, <1>10 DEF Busy!TypeOK, BusyClosures
<1>12. /\ \A o \in Busy!Kinds : o # k => (Busy!Posted(o)' <=> Busy!Posted(o))
       /\ Busy!Posted(k)'
  BY <1>4, <1>5 DEF Busy!Posted
<1>13. \A o \in Busy!Kinds : Busy!Busy(o)' <=> Busy!Busy(o)
  BY <1>1, <1>9, <1>12 DEF Busy!Busy
<1>14. \A o \in Busy!Kinds \ v12' :
          /\ v8'[o] <= 1
          /\ v8'[o] > 0 => ~Busy!Posted(o)'
          /\ \A i, j \in DOMAIN v9' :
                 v9'[i].kind = o /\ v9'[j].kind = o => i = j
  <2>1. ASSUME NEW o \in Busy!Kinds \ v12', o # k
        PROVE  /\ v8'[o] <= 1
               /\ v8'[o] > 0 => ~Busy!Posted(o)'
               /\ \A i, j \in DOMAIN v9' :
                      v9'[i].kind = o /\ v9'[j].kind = o => i = j
    <3>1. /\ v8[o] <= 1 /\ v8[o] > 0 => ~Busy!Posted(o)
      BY <1>1, <1>2, <2>1 DEF Busy!OneOfAKind
    <3>2. \A i, j \in DOMAIN v9 : v9[i].kind = o /\ v9[j].kind = o => i = j
      BY <1>1, <1>2, <2>1 DEF Busy!OneOfAKind
    <3>3. v8'[o] <= 1 /\ (v8'[o] > 0 => ~Busy!Posted(o)')
      BY <1>1, <1>2, <1>9, <1>12, <2>1 DEF Busy!OneOfAKind
    <3> QED BY <1>4, <1>5, <2>1, <3>2, <3>3
  <2>2. ASSUME k \notin v12'
        PROVE  /\ v8'[k] <= 1
               /\ v8'[k] > 0 => ~Busy!Posted(k)'
               /\ \A i, j \in DOMAIN v9' :
                      v9'[i].kind = k /\ v9'[j].kind = k => i = j
    <3>1. v8[k] <= 1 /\ ~Busy!Posted(k)
      BY <1>1, <1>2, <2>2 DEF Busy!OneOfAKind
    <3>2. v8'[k] = 0
      BY <1>8, <1>9, <3>1
    <3>3. \A i \in DOMAIN v9' : v9'[i].kind = k => i = m
      BY <1>5, <3>1 DEF Busy!Posted
    <3> QED BY <3>2, <3>3
  <2> QED BY <2>1, <2>2
<1>15. \A o \in Busy!Kinds : v8'[o] <= v10'
  BY <1>1, <1>2, <1>8, <1>9 DEF Busy!OneOfAKind
<1>16. "boot" \in Busy!Kinds /\ "chat" \in Busy!Kinds /\ "link" \in Busy!Kinds
       /\ Busy!Loading \subseteq Busy!Kinds /\ Busy!Flags \subseteq Busy!Kinds
  BY DEF Busy!Kinds, Busy!Loading, Busy!Flags
<1>17. v12' \cap Busy!Loading = {} =>
           ~Busy!Busy("boot")' \/ ~Busy!Busy("chat")'
  BY <1>1, <1>2, <1>13, <1>16 DEF Busy!OneOfAKind
<1>18. Busy!OneOfAKind'
  BY <1>14, <1>15, <1>17 DEF Busy!OneOfAKind
<1>19. Busy!Linking'
  BY <1>1, <1>2, <1>4, <1>5 DEF Busy!Linking
<1>20. Busy!SignsTrue'
  <2>1. ~Busy!Busy("link")' => v6' = v7'
    BY <1>19 DEF Busy!Linking, Busy!Busy, Busy!Posted
  <2> QED BY <1>1, <1>2, <1>13, <1>16, <2>1 DEF Busy!SignsTrue
<1> QED BY <1>11, <1>18, <1>19, <1>20 DEF Busy!IInv

LEMMA BusyShown ==
    ASSUME Busy!IInv, Busy!Shown
    PROVE  Busy!IInv'
<1>1. PICK c : c = Head(v9)
  OBVIOUS
<1>2. /\ v9 # <<>> /\ v9' = Tail(v9)
      /\ v5' = [f \in Busy!Flags |-> v5[f] /\ f # c.kind]
      /\ v4' = (v4 /\ c.kind \notin Busy!Loading)
      /\ v3' = (v3 \/ (c.kind = "boot" /\ c.ok))
      /\ v6' = (IF c.kind = "link" /\ c.ok THEN v7 ELSE v6)
      /\ UNCHANGED <<v1, v2, v7, v8, v10, v11, v12>>
  BY <1>1 DEF Busy!Shown
<1>3. Busy!TypeOK /\ Busy!OneOfAKind /\ Busy!Linking /\ Busy!SignsTrue
  BY DEF Busy!IInv
<1>4. v9 \in Seq(BusyClosures)
  BY <1>3, BusyTyped
<1>5. /\ v9' \in Seq(BusyClosures) /\ c \in BusyClosures
      /\ 1 \in DOMAIN v9 /\ v9[1] = c
      /\ \A i \in DOMAIN v9' :
             /\ i \in Nat /\ i + 1 # 1 /\ i + 1 \in DOMAIN v9
             /\ v9'[i] = v9[i + 1]
      /\ \A i \in DOMAIN v9 :
             i # 1 => i - 1 \in DOMAIN v9' /\ v9'[i - 1] = v9[i]
  BY <1>1, <1>2, <1>4, BusyTail
<1>6. c.kind \in Busy!Kinds /\ c.ok \in BOOLEAN
  BY <1>5 DEF BusyClosures
<1>7. /\ v5' \in [Busy!Flags -> BOOLEAN] /\ v4' \in BOOLEAN
      /\ v3' \in BOOLEAN /\ v6' \in Accounts \cup {None}
  BY <1>2, <1>3 DEF Busy!TypeOK
<1>8. Busy!TypeOK'
  BY <1>2, <1>3, <1>5, <1>7 DEF Busy!TypeOK, BusyClosures
<1>9. \A o \in Busy!Kinds : o # c.kind => (Busy!Posted(o)' <=> Busy!Posted(o))
  <2>1. ASSUME NEW o \in Busy!Kinds, Busy!Posted(o)' PROVE Busy!Posted(o)
    BY <1>5, <2>1 DEF Busy!Posted
  <2>2. ASSUME NEW o \in Busy!Kinds, o # c.kind, Busy!Posted(o)
        PROVE  Busy!Posted(o)'
    <3>1. PICK i \in DOMAIN v9 : v9[i].kind = o
      BY <2>2 DEF Busy!Posted
    <3>2. i - 1 \in DOMAIN v9' /\ v9'[i - 1] = v9[i]
      BY <1>5, <2>2, <3>1
    <3> QED BY <3>1, <3>2 DEF Busy!Posted
  <2> QED BY <2>1, <2>2
<1>10. ASSUME c.kind \notin v12
       PROVE  ~(v8[c.kind] > 0) /\ ~Busy!Busy(c.kind)'
  <2>1. PICK k \in Busy!Kinds : k = c.kind
    BY <1>6
  <2>2. Busy!Posted(k)
    BY <1>5, <2>1 DEF Busy!Posted
  <2>3. /\ ~(v8[k] > 0)
        /\ \A i, j \in DOMAIN v9 : v9[i].kind = k /\ v9[j].kind = k => i = j
    BY <1>3, <1>10, <2>1, <2>2 DEF Busy!OneOfAKind
  <2>4. ASSUME NEW i \in DOMAIN v9', v9'[i].kind = k PROVE FALSE
    BY <1>5, <2>1, <2>3, <2>4
  <2>5. ~Busy!Busy(k)'
    BY <1>2, <2>3, <2>4 DEF Busy!Busy, Busy!Posted
  <2> QED BY <2>1, <2>3, <2>5 DEF Busy!Busy, Busy!Posted
<1>11. /\ \A o \in Busy!Kinds : o # c.kind => (Busy!Busy(o)' <=> Busy!Busy(o))
       /\ \A o \in Busy!Kinds : o = c.kind /\ o \notin v12 => ~Busy!Busy(o)'
       /\ Busy!Busy(c.kind)
  <2>1. Busy!Busy(c.kind)
    BY <1>5 DEF Busy!Busy, Busy!Posted
  <2>2. \A o \in Busy!Kinds : o = c.kind /\ o \notin v12 => ~Busy!Busy(o)'
    BY <1>10 DEF Busy!Busy, Busy!Posted
  <2> QED BY <1>2, <1>9, <2>1, <2>2 DEF Busy!Busy
<1>12. \A o \in Busy!Kinds \ v12' :
          /\ v8'[o] <= 1
          /\ v8'[o] > 0 => ~Busy!Posted(o)'
          /\ \A i, j \in DOMAIN v9' :
                 v9'[i].kind = o /\ v9'[j].kind = o => i = j
  <2>1. ASSUME NEW o \in Busy!Kinds \ v12'
        PROVE  /\ v8'[o] <= 1
               /\ v8'[o] > 0 => ~Busy!Posted(o)'
               /\ \A i, j \in DOMAIN v9' :
                      v9'[i].kind = o /\ v9'[j].kind = o => i = j
    <3>1. /\ v8[o] <= 1
          /\ v8[o] > 0 => ~Busy!Posted(o)
          /\ \A i, j \in DOMAIN v9 : v9[i].kind = o /\ v9[j].kind = o => i = j
      BY <1>2, <1>3, <2>1 DEF Busy!OneOfAKind
    <3>2. v8'[o] > 0 => ~Busy!Posted(o)'
      BY <1>2, <1>5, <3>1 DEF Busy!Posted
    <3>3. ASSUME NEW i \in DOMAIN v9', NEW j \in DOMAIN v9',
                 v9'[i].kind = o, v9'[j].kind = o
          PROVE  i = j
      <4>1. i + 1 = j + 1 /\ i \in Nat /\ j \in Nat
        BY <1>5, <3>1, <3>3
      <4> QED BY <4>1
    <3> QED BY <1>2, <3>1, <3>2, <3>3
  <2> QED BY <2>1
<1>13. \A o \in Busy!Kinds : v8'[o] <= v10'
  BY <1>2, <1>3 DEF Busy!OneOfAKind
<1>14. "boot" \in Busy!Kinds /\ "chat" \in Busy!Kinds /\ "link" \in Busy!Kinds
       /\ Busy!Loading = {"boot", "chat"} /\ Busy!Flags \subseteq Busy!Kinds
  BY DEF Busy!Kinds, Busy!Loading, Busy!Flags
<1>15. ASSUME v12 \cap Busy!Loading = {}
       PROVE  /\ ~Busy!Busy("boot")' \/ ~Busy!Busy("chat")'
              /\ c.kind \in Busy!Loading =>
                     \A o \in Busy!Loading : ~Busy!Busy(o)'
  <2>1. ~Busy!Busy("boot") \/ ~Busy!Busy("chat")
    BY <1>3, <1>15 DEF Busy!OneOfAKind
  <2>2. CASE c.kind = "boot"
    <3>1. ~Busy!Busy("boot")' /\ Busy!Busy("boot")
      BY <1>11, <1>14, <1>15, <2>2
    <3> QED BY <1>11, <1>14, <2>1, <2>2, <3>1
  <2>3. CASE c.kind = "chat"
    <3>1. ~Busy!Busy("chat")' /\ Busy!Busy("chat")
      BY <1>11, <1>14, <1>15, <2>3
    <3> QED BY <1>11, <1>14, <2>1, <2>3, <3>1
  <2>4. CASE c.kind \notin Busy!Loading
    BY <1>11, <1>14, <2>1, <2>4
  <2> QED BY <1>14, <2>2, <2>3, <2>4
<1>16. Busy!OneOfAKind'
  BY <1>2, <1>12, <1>13, <1>15 DEF Busy!OneOfAKind
<1>17. Busy!Linking'
  <2>1. ASSUME v6' # v7'
        PROVE  \E i \in DOMAIN v9' : v9'[i].kind = "link" /\ v9'[i].ok
    <3>1. v6 # v7 /\ ~(c.kind = "link" /\ c.ok)
      BY <1>2, <2>1
    <3>2. PICK i \in DOMAIN v9 : v9[i].kind = "link" /\ v9[i].ok
      BY <1>3, <3>1 DEF Busy!Linking
    <3>3. i # 1
      BY <1>5, <3>1, <3>2
    <3> QED BY <1>5, <3>2, <3>3
  <2> QED BY <1>2, <1>3, <2>1 DEF Busy!Linking
<1>18. Busy!SignsTrue'
  <2>1. \A o \in Busy!Flags \ v12' : v5'[o] <=> Busy!Busy(o)'
    <3>1. ASSUME NEW o \in Busy!Flags \ v12' PROVE v5'[o] <=> Busy!Busy(o)'
      <4>1. (v5'[o] <=> v5[o] /\ o # c.kind) /\ (v5[o] <=> Busy!Busy(o))
        BY <1>2, <1>3, <3>1 DEF Busy!SignsTrue
      <4>2. CASE o = c.kind
        BY <1>2, <1>11, <1>14, <3>1, <4>1, <4>2
      <4>3. CASE o # c.kind
        BY <1>11, <1>14, <3>1, <4>1, <4>3
      <4> QED BY <4>2, <4>3
    <3> QED BY <3>1
  <2>2. ASSUME v12' \cap Busy!Loading = {}
        PROVE  v4' <=> \E o \in Busy!Loading : Busy!Busy(o)'
    <3>1. v4 <=> \E o \in Busy!Loading : Busy!Busy(o)
      BY <1>2, <1>3, <2>2 DEF Busy!SignsTrue
    <3>2. CASE c.kind \in Busy!Loading
      BY <1>2, <1>15, <2>2, <3>2
    <3>3. CASE c.kind \notin Busy!Loading
      <4>1. \A o \in Busy!Loading : Busy!Busy(o)' <=> Busy!Busy(o)
        BY <1>11, <1>14, <3>3
      <4> QED BY <1>2, <3>1, <3>3, <4>1
    <3> QED BY <3>2, <3>3
  <2>3. ~Busy!Busy("link")' => v6' = v7'
    BY <1>17 DEF Busy!Linking, Busy!Busy, Busy!Posted
  <2> QED BY <2>1, <2>2, <2>3 DEF Busy!SignsTrue
<1> QED BY <1>8, <1>16, <1>17, <1>18 DEF Busy!IInv

LEMMA BusySame ==
    ASSUME Busy!IInv, v1' \in {"onboarding", "locked", "main"},
           UNCHANGED <<v2, v3, v4, v5, v6, v7, v8, v9, v10, v11, v12>>
    PROVE  Busy!IInv'
<1>1. Busy!TypeOK'
  BY DEF Busy!IInv, Busy!TypeOK
<1>2. \A k \in Busy!Kinds : /\ Busy!Posted(k)' <=> Busy!Posted(k)
                            /\ Busy!Busy(k)' <=> Busy!Busy(k)
  BY DEF Busy!Posted, Busy!Busy
<1>3. "boot" \in Busy!Kinds /\ "chat" \in Busy!Kinds /\ "link" \in Busy!Kinds
      /\ Busy!Loading \subseteq Busy!Kinds /\ Busy!Flags \subseteq Busy!Kinds
  BY DEF Busy!Kinds, Busy!Loading, Busy!Flags
<1>4. Busy!OneOfAKind'
  BY <1>2, <1>3 DEF Busy!IInv, Busy!OneOfAKind
<1>5. Busy!Linking'
  BY DEF Busy!IInv, Busy!Linking
<1>6. Busy!SignsTrue'
  BY <1>2, <1>3 DEF Busy!IInv, Busy!SignsTrue
<1> QED BY <1>1, <1>4, <1>5, <1>6 DEF Busy!IInv

LEMMA BusyRelaunches ==
    ASSUME Busy!IInv, Busy!Relaunch
    PROVE  Busy!IInv'
<1>1. /\ v11 < MaxLaunches /\ v11' = v11 + 1 /\ v1' = "locked"
      /\ v2' = "choose" /\ v3' = FALSE /\ v4' = FALSE
      /\ v5' = [k \in Busy!Flags |-> FALSE] /\ v6' = v7
      /\ v8' = [k \in Busy!Kinds |-> 0] /\ v9' = <<>> /\ v12' = {}
      /\ UNCHANGED <<v7, v10>> /\ Busy!TypeOK
  BY DEF Busy!Relaunch, Busy!Opens, Busy!IInv
<1>2. v11' \in 0..MaxLaunches /\ 0 \in 0..MaxPresses
  BY <1>1, WindowsAssumption DEF Busy!TypeOK
<1>3. v9' \in Seq(BusyClosures)
  BY <1>1
<1>4. Busy!TypeOK'
  BY <1>1, <1>2, <1>3 DEF Busy!TypeOK, BusyClosures
<1>5. BusyFresh'
  BY <1>1 DEF BusyFresh, Busy!TypeOK
<1> QED BY <1>4, <1>5, BusyOpensAfter DEF Busy!IInv

LEMMA BusyKeeps ==
    ASSUME Busy!IInv, Busy!Next
    PROVE  Busy!IInv'
<1>1. ASSUME Busy!Complete \/ Busy!Turn PROVE Busy!IInv'
  BY <1>1, BusySame DEF Busy!Complete, Busy!Turn
<1> QED BY <1>1, BusyButtons, BusyAnswers, BusyShown, BusyRelaunches
        DEF Busy!Next

LEMMA BusyStutters ==
    ASSUME Busy!IInv, UNCHANGED Slots
    PROVE  Busy!IInv'
<1>1. UNCHANGED <<v1, v2, v3, v4, v5, v6, v7, v8, v9, v10, v11, v12>>
  BY DEF Slots
<1> QED BY <1>1, BusySame DEF Busy!IInv, Busy!TypeOK

LEMMA BusyQuiet ==
    ASSUME Busy!IInv
    PROVE  Busy!SignsTrue
BY DEF Busy!IInv

LEMMA BusyInvariant ==
    ServicesSpec => [](focus = "busy" => Busy!IInv)
<1> DEFINE I == focus = "busy" => Busy!IInv
<1>1. ServicesInit => I
  BY WindowInits, BusyBegins
<1>2. I /\ [ServicesNext]_serviceVars => I'
  BY WindowSteps, WindowStutters, BusyKeeps, BusyStutters
<1> QED BY <1>1, <1>2, PTL DEF ServicesSpec

-----------------------------------------------------------------------------
(* The vault of McpHost                                                    *)
(* Slots: v1 is call, v2 grants, v3 owners, v4 tokens, v5 lapsed, v6 disk, *)
(* v7 plain, v8 saving, v9 restarts, v10 answered, v11 raced, v12 issued,  *)
(* v13 unsaved.                                                            *)

LEMMA VaultHosted == Vault!HostAssumption
<1>1. IsFiniteSet({"call"}) /\ IsFiniteSet({"g1"})
  BY FS_Singleton
<1>2. Vault!IsFiniteSet({"call"}) /\ Vault!IsFiniteSet({"g1"})
  BY <1>1 DEF IsFiniteSet, Vault!IsFiniteSet
<1> QED BY <1>2, WindowsAssumption DEF Vault!HostAssumption

LEMMA VaultBegins == Vault!Init => Vault!IInv
BY VaultHosted, Vault!InvariantInit

LEMMA VaultKeeps ==
    ASSUME Vault!IInv, Vault!Next
    PROVE  Vault!IInv'
BY VaultHosted, Vault!InvariantStep

LEMMA VaultStutters ==
    ASSUME Vault!IInv, UNCHANGED Slots
    PROVE  Vault!IInv'
<1>1. UNCHANGED Vault!vars
  BY DEF Slots, Vault!vars, Vault!tokenVars
<1> QED BY <1>1, VaultHosted, Vault!InvariantStep

LEMMA VaultRevoked ==
    ASSUME Vault!IInv, Vault!Next
    PROVE  Vault!KeepsRevoked
BY VaultHosted, Vault!RevokedKept

LEMMA VaultInvariant ==
    ServicesSpec => [](focus = "vault" => Vault!IInv)
<1> DEFINE I == focus = "vault" => Vault!IInv
<1>1. ServicesInit => I
  BY WindowInits, VaultBegins
<1>2. I /\ [ServicesNext]_serviceVars => I'
  BY WindowSteps, WindowStutters, VaultKeeps, VaultStutters
<1> QED BY <1>1, <1>2, PTL DEF ServicesSpec

\* A revoked token stays unusable, restarts included, unless its save failed.
THEOREM VaultSafety == ServicesSpec => RevocationDurable
<1>1. (focus = "vault" => Vault!IInv) /\ [ServicesNext]_serviceVars
        => [focus = "vault" => Vault!KeepsRevoked]_serviceVars
  BY WindowSteps, VaultRevoked
<1> QED BY <1>1, VaultInvariant, PTL DEF ServicesSpec, RevocationDurable

-----------------------------------------------------------------------------
(* All together.                                                           *)

\* Once nothing is under way, every panel shows what is so, or has been said to
\* be so, with the exceptions its module names.
THEOREM ViewsSafety == ServicesSpec => []ViewsSettle
<1>1. (focus = "dag" => Dag!IInv) => RowsOfDetail
  BY DagQuiet DEF RowsOfDetail
<1>2. (focus = "daemon" => Daemon!IInv) => DaemonShown
  BY DaemonQuiet DEF DaemonShown
<1>3. (focus = "chain" => Chain!IInv) => ChainShown
  BY ChainQuiet DEF ChainShown
<1>4. (focus = "model" => Model!IInv) => ModelShown
  BY ModelQuiet DEF ModelShown
<1>5. (focus = "compute" => Compute!IInv) => OptInKept
  BY ComputeQuiet DEF OptInKept
<1>6. (focus = "dash" => Dash!IInv) => EarnedCameIn
  BY DashQuiet DEF EarnedCameIn
<1>7. (focus = "busy" => Busy!IInv) => SignsTrue
  BY BusyQuiet DEF SignsTrue
<1> QED BY <1>1, <1>2, <1>3, <1>4, <1>5, <1>6, <1>7, DagInvariant,
           DaemonInvariant, ChainInvariant, ModelInvariant, ComputeInvariant,
           DashInvariant, BusyInvariant, PTL
        DEF ViewsSettle
=============================================================================
