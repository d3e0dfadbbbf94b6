------------------------- MODULE SigningRelayProofs -------------------------
(***************************************************************************)
(* Proofs about SigningRelay, for every number of requests, every content  *)
(* of theirs, every set of jobs and networks and every bound.              *)
(***************************************************************************)
EXTENDS SigningRelay, TLAPS

-----------------------------------------------------------------------------
(* Types.  One lemma per group of variables.                               *)

\* Stepping to the next request keeps the relay thread's state well typed.
LEMMA NextRequestTypes ==
    ASSUME SizeAssumption, RelayTypeOK, cursor \in Requests, NextRequest,
           declined' \subseteq Requests
    PROVE  RelayTypeOK'
<1> USE DEF RelayTypeOK, NextRequest, Requests
<1>1. pc' = "scan" /\ pc' \in Points /\ pc' \notin Reads \cup Cleared \cup {"observe"}
  BY DEF Points, Reads, Cleared
<1>2. cursor' \in 1 .. NumRequests + 1
  BY DEF SizeAssumption
<1>3. snapshot' \in [Requests -> QueueStatus] /\ seen' \in Nat
  OBVIOUS
<1>4. QED
  BY <1>1, <1>2, <1>3

\* So does moving the thread to another point without touching the cursor.
LEMMA GoToTypes ==
    ASSUME RelayTypeOK, cursor \in Requests, NEW point \in Points, GoTo(point)
    PROVE  RelayTypeOK'
BY DEF RelayTypeOK, GoTo

\* And so does ending the tick.
LEMMA EndTickTypes ==
    ASSUME RelayTypeOK, EndTick
    PROVE  RelayTypeOK'
BY DEF RelayTypeOK, EndTick, Points, Reads, Cleared

\* Each step keeps the types of the relay thread's own state.
LEMMA RelayTypeStep ==
    ASSUME SizeAssumption, DataAssumption, TypeOK, [Next]_vars
    PROVE  RelayTypeOK'
<1>1. CASE Wake
  BY <1>1 DEF Wake, GoTo, TypeOK, RelayTypeOK, Points, Reads, Cleared
<1>2. CASE List
  <2> USE DEF TypeOK
  <2>1. CASE EndTick
    BY <2>1, EndTickTypes
  <2>2. CASE pc' = "scan" /\ cursor' = 1 /\ snapshot' = queue
             /\ UNCHANGED <<seen, declined>>
    BY <2>2 DEF RelayTypeOK, Points, Reads, Cleared, SizeAssumption
  <2>3. QED
    BY <1>2, <2>1, <2>2 DEF List
<1>3. CASE Scan
  <2> USE DEF TypeOK
  <2>1. CASE EndTick
    BY <2>1, EndTickTypes
  <2>2. CASE cursor \in Requests /\ NextRequest /\ UNCHANGED declined
    BY <2>2, NextRequestTypes DEF RelayTypeOK
  <2>3. CASE cursor \in Requests
             /\ GoTo(IF NeedsSettlement(cursor) THEN "readTier" ELSE "gate")
    BY <2>3, GoToTypes DEF Points, Reads, Cleared
  <2>4. QED
    BY <1>3, <2>1, <2>2, <2>3 DEF Scan
<1>4. CASE SettlementRead
  <2> USE DEF TypeOK
  <2>1. cursor \in Requests /\ Ask[cursor].job \in Jobs
    BY <1>4 DEF SettlementRead, RelayTypeOK, Reads, DataAssumption, AskType
  <2>2. CASE NextRequest /\ UNCHANGED declined
    BY <2>1, <2>2, NextRequestTypes DEF RelayTypeOK
  <2>3. ASSUME NEW point \in Reads \cup Cleared, NEW value \in Nat,
               pc' = point, seen' = value,
               UNCHANGED <<cursor, snapshot, declined>>
        PROVE  RelayTypeOK'
    BY <2>1, <2>3 DEF RelayTypeOK, Points
  <2>4. AfterTier(cursor) \in Reads \cup Cleared
    BY DEF AfterTier, Reads, Cleared
  <2>5. /\ head[BootNet] \in Nat
        /\ verifiedAt[BootNet][Ask[cursor].job] \in Nat
    BY <2>1 DEF ChainTypeOK, DataAssumption
  <2>6. QED
    BY <1>4, <2>2, <2>3, <2>4, <2>5 DEF SettlementRead, Read, Reads, Cleared
<1>5. CASE Gate
  <2> USE DEF TypeOK
  <2>1. cursor \in Requests
    BY <1>5 DEF Gate, RelayTypeOK, Cleared
  <2>2. QED
    BY <1>5, <2>1, GoToTypes, NextRequestTypes
       DEF Gate, Points, Cleared, RelayTypeOK
<1>6. CASE FetchKey
  <2> USE DEF TypeOK
  <2>1. cursor \in Requests
    BY <1>6 DEF FetchKey, RelayTypeOK, Cleared
  <2>2. QED
    BY <1>6, <2>1, GoToTypes, EndTickTypes
       DEF FetchKey, StopAfterSigning, Points, Cleared
<1>7. CASE Send
  <2> USE DEF TypeOK
  <2>1. cursor \in Requests
    BY <1>7 DEF Send, RelayTypeOK, Cleared
  <2>2. QED
    BY <1>7, <2>1, GoToTypes, EndTickTypes
       DEF Send, StopAfterSigning, Points
<1>8. CASE Observe
  BY <1>8, EndTickTypes DEF Observe, StopAfterSigning, TypeOK
<1>9. CASE Approve \/ Decline
  <2> USE DEF TypeOK
  <2>1. cursor \in Requests
    BY <1>9 DEF Approve, Decline, RelayTypeOK, Cleared
  <2>2. QED
    BY <1>9, <2>1, GoToTypes, NextRequestTypes
       DEF Approve, Decline, Points, Cleared, RelayTypeOK
<1>10. CASE Restart
  <2>1. cursor' \in 1 .. NumRequests + 1
    BY <1>10 DEF Restart, SizeAssumption
  <2>2. snapshot' \in [Requests -> QueueStatus]
    BY <1>10 DEF Restart, QueueStatus
  <2>3. QED
    BY <1>10, <2>1, <2>2 DEF Restart, RelayTypeOK, Points, Reads, Cleared
<1>11. CASE UNCHANGED relayVars
  BY <1>11 DEF relayVars, TypeOK, RelayTypeOK
<1>12. QED
  BY <1>1, <1>2, <1>3, <1>4, <1>5, <1>6, <1>7, <1>8, <1>9, <1>10, <1>11
     DEF Next, RelayStep, UserStep, Toggle, Unlock, StoreEpoch, BeginLock,
         FinishLock, SwitchNetwork, Enqueue, Withdraw, NewBlock, vars

\* Each step keeps the types of what the user controls.
LEMMA UserTypeStep ==
    ASSUME DataAssumption, TypeOK, [Next]_vars
    PROVE  UserTypeOK'
<1> USE DEF TypeOK, UserTypeOK
<1>1. CASE UNCHANGED userVars
  BY <1>1 DEF userVars, custodyVars
<1>2. CASE Toggle \/ Unlock \/ StoreEpoch \/ BeginLock \/ FinishLock
  BY <1>2 DEF Toggle, Unlock, StoreEpoch, BeginLock, FinishLock, custodyVars
<1>3. CASE SwitchNetwork
  BY <1>3 DEF SwitchNetwork, custodyVars
<1>4. CASE Restart
  BY <1>4 DEF Restart, DataAssumption
<1>5. QED
  BY <1>1, <1>2, <1>3, <1>4
     DEF Next, RelayStep, UserStep, Wake, List, Scan, SettlementRead, Gate,
         FetchKey, Send, Observe, Approve, Decline, Enqueue, Withdraw,
         NewBlock, vars

\* Each step keeps the type of the node-agent's queue.
LEMMA QueueTypeStep ==
    ASSUME TypeOK, [Next]_vars
    PROVE  queue' \in [Requests -> QueueStatus]
<1> USE DEF TypeOK
<1>1. CASE UNCHANGED queue
  BY <1>1
<1>2. CASE Observe
  BY <1>2 DEF Observe, QueueStatus
<1>3. ASSUME NEW r \in Requests, Enqueue(r) \/ Withdraw(r)
      PROVE  queue' \in [Requests -> QueueStatus]
  BY <1>3 DEF Enqueue, Withdraw, QueueStatus
<1>4. QED
  BY <1>1, <1>2, <1>3
     DEF Next, RelayStep, UserStep, Wake, List, Scan, SettlementRead, Gate,
         FetchKey, Send, Approve, Decline, Toggle, Unlock, StoreEpoch,
         BeginLock, FinishLock, SwitchNetwork, Restart, NewBlock, vars

\* Only a new block changes a chain.
LEMMA ChainFrame ==
    ASSUME [Next]_vars
    PROVE  UNCHANGED chainVars \/ \E n \in Nets : NewBlock(n)
BY DEF Next, RelayStep, UserStep, Wake, List, Scan, SettlementRead, Gate,
       FetchKey, Send, Observe, Approve, Decline, Toggle, Unlock, StoreEpoch,
       BeginLock, FinishLock, SwitchNetwork, Restart, Enqueue, Withdraw, vars

\* Each step keeps the types of the chains.
LEMMA ChainTypeStep ==
    ASSUME TypeOK, [Next]_vars
    PROVE  ChainTypeOK'
<1> USE DEF TypeOK, ChainTypeOK
<1>1. CASE UNCHANGED chainVars
  BY <1>1 DEF chainVars
<1>2. ASSUME NEW n \in Nets, NewBlock(n) PROVE ChainTypeOK'
  <2>1. head' \in [Nets -> Nat] /\ head[n] + 1 \in Nat
    BY <1>2 DEF NewBlock
  <2>2. committedAt' \in [Nets -> [Jobs -> Nat]]
    BY <1>2, <2>1 DEF NewBlock
  <2>3. verifiedAt' \in [Nets -> [Jobs -> Nat]]
    BY <1>2, <2>1 DEF NewBlock
  <2>4. resolved' \in [Nets -> SUBSET Jobs]
    BY <1>2 DEF NewBlock
  <2>5. QED
    BY <2>1, <2>2, <2>3, <2>4
<1>3. QED
  BY <1>1, <1>2, ChainFrame

\* Each step keeps the types of the counters.
LEMMA HistoryTypeStep ==
    ASSUME SizeAssumption, TypeOK, [Next]_vars
    PROVE  HistoryTypeOK'
<1> USE DEF TypeOK, HistoryTypeOK
<1>1. faults' \in 0 .. MaxFaults
  BY DEF SizeAssumption, Fault, NotTaken, Next, RelayStep, UserStep, Wake,
         List, Scan,
         SettlementRead, Read, Gate, FetchKey, Send, Observe, Approve,
         Decline, Toggle, Unlock, StoreEpoch, BeginLock, FinishLock,
         SwitchNetwork, Restart, Enqueue, Withdraw, NewBlock, vars
<1>2. CASE UNCHANGED <<sendVars, consent>>
  BY <1>1, <1>2 DEF sendVars
<1>3. CASE FetchKey \/ Approve
  <2>1. cursor \in Requests
    BY <1>3 DEF FetchKey, Approve, RelayTypeOK, Cleared
  <2>2. QED
    BY <1>1, <1>3, <2>1 DEF FetchKey, Approve, sendVars
<1>4. CASE Send
  <2>1. cursor \in Requests
    BY <1>4 DEF Send, RelayTypeOK, Cleared
  <2>2. consent' \subseteq Requests
    BY <1>4 DEF Send
  <2>3. broadcasts' \in [Requests -> Nat] /\ lost' \in [Requests -> Nat]
    BY <1>4, <2>1 DEF Send, Reaches, sendVars
  <2>4. sinceOff' \in Nat /\ sinceLock' \in Nat
    BY <1>4 DEF Send, Reaches, sendVars
  <2>5. QED
    BY <1>1, <2>2, <2>3, <2>4
<1>5. CASE Observe
  BY <1>1, <1>5 DEF Observe
<1>6. CASE Toggle \/ Unlock
  BY <1>1, <1>6 DEF Toggle, Unlock
<1>7. CASE Restart
  <2>1. lost' \in [Requests -> Nat]
    BY <1>7 DEF Restart, RelayTypeOK
  <2>2. QED
    BY <1>1, <1>7, <2>1 DEF Restart
<1>8. QED
  BY <1>2, <1>3, <1>4, <1>5, <1>6, <1>7
     DEF Next, RelayStep, UserStep, Wake, List, Scan, SettlementRead, Gate,
         Decline, StoreEpoch, BeginLock, FinishLock, SwitchNetwork, Enqueue,
         Withdraw, NewBlock, vars

LEMMA TypeStep ==
    ASSUME SizeAssumption, DataAssumption, TypeOK, [Next]_vars
    PROVE  TypeOK'
BY RelayTypeStep, UserTypeStep, QueueTypeStep, ChainTypeStep, HistoryTypeStep
   DEF TypeOK

LEMMA TypeInit ==
    ASSUME SizeAssumption, DataAssumption, Init
    PROVE  TypeOK
<1>1. RelayTypeOK /\ queue \in [Requests -> QueueStatus]
  <2>1. /\ snapshot \in [Requests -> QueueStatus]
        /\ queue \in [Requests -> QueueStatus]
    BY DEF Init, QueueStatus
  <2>2. cursor \in 1 .. NumRequests + 1
    BY DEF Init, SizeAssumption
  <2>3. QED
    BY <2>1, <2>2 DEF Init, RelayTypeOK, Points, Reads, Cleared
<1>2. UserTypeOK
  BY DEF Init, UserTypeOK, DataAssumption
<1>3. ChainTypeOK
  BY DEF Init, ChainTypeOK
<1>4. HistoryTypeOK
  BY DEF Init, HistoryTypeOK, SizeAssumption
<1>5. QED
  BY <1>1, <1>2, <1>3, <1>4 DEF TypeOK

\* Type correctness of the relay, its switches, the queue and the chains.
THEOREM TypeCorrect == Spec => []TypeOK
<1>1. Init => TypeOK
  BY TypeInit, SizeAssumption, DataAssumption
<1>2. TypeOK /\ [Next]_vars => TypeOK'
  BY TypeStep, SizeAssumption, DataAssumption
<1>3. QED
  BY <1>1, <1>2, PTL DEF Spec

-----------------------------------------------------------------------------
(* The inductive invariant.  One lemma per conjunct.                       *)

\* A step either leaves the relay thread alone or is one of its own.
LEMMA RelayFrame ==
    ASSUME [Next]_vars
    PROVE  \/ UNCHANGED <<relayVars, sendVars, consent>>
           \/ RelayStep \/ Approve \/ Decline \/ Restart \/ Toggle \/ Unlock
BY DEF Next, UserStep, StoreEpoch, BeginLock, FinishLock, SwitchNetwork,
       Enqueue, Withdraw, NewBlock, vars

\* Only a report, an enqueueing and a withdrawal change the queue.
LEMMA QueueFrame ==
    ASSUME [Next]_vars
    PROVE  \/ UNCHANGED queue
           \/ Observe
           \/ \E r \in Requests : Enqueue(r) \/ Withdraw(r)
BY DEF Next, RelayStep, UserStep, Wake, List, Scan, SettlementRead, Gate,
       FetchKey, Send, Approve, Decline, Toggle, Unlock, StoreEpoch,
       BeginLock, FinishLock, SwitchNetwork, Restart, NewBlock, vars

\* The relay's steps other than listing keep the snapshot until they sleep.
LEMMA SnapshotFrame ==
    ASSUME [Next]_vars
    PROVE  \/ /\ UNCHANGED snapshot
              /\ pc' \notin {"sleep", "list"} => pc \notin {"sleep", "list"}
           \/ pc' \in {"sleep", "list"} /\ UNCHANGED snapshot
           \/ List /\ pc' = "scan" /\ snapshot' = queue /\ UNCHANGED queue
           \/ Restart
<1>1. CASE UNCHANGED relayVars
  BY <1>1 DEF relayVars
<1>2. CASE Wake \/ List
  BY <1>2 DEF Wake, List, GoTo, EndTick
<1>3. CASE Scan \/ SettlementRead \/ Gate
  BY <1>3 DEF Scan, SettlementRead, Read, Gate, GoTo, EndTick, NextRequest
<1>4. CASE FetchKey \/ Send \/ Observe \/ Approve \/ Decline
  BY <1>4 DEF FetchKey, Send, Observe, Approve, Decline, GoTo, EndTick,
              NextRequest, StopAfterSigning
<1>5. CASE Toggle \/ Unlock \/ Restart
  BY <1>5 DEF Toggle, Unlock, relayVars
<1>6. QED
  BY <1>1, <1>2, <1>3, <1>4, <1>5, RelayFrame DEF RelayStep

LEMMA SnapshotHonestStep ==
    ASSUME TypeOK, SnapshotHonest, [Next]_vars
    PROVE  SnapshotHonest'
<1> SUFFICES ASSUME pc' \notin {"sleep", "list"}, NEW r \in Requests,
                    snapshot'[r] = "pending"
             PROVE  queue'[r] \in {"pending", "withdrawn"}
  BY DEF SnapshotHonest
<1>1. CASE List /\ snapshot' = queue /\ UNCHANGED queue
  BY <1>1
<1>2. CASE UNCHANGED snapshot /\ pc \notin {"sleep", "list"}
  <2>1. queue[r] \in {"pending", "withdrawn"}
    BY <1>2 DEF SnapshotHonest
  <2>2. CASE UNCHANGED queue
    BY <2>1, <2>2
  <2>3. ASSUME NEW q \in Requests, Enqueue(q) \/ Withdraw(q)
        PROVE  queue'[r] \in {"pending", "withdrawn"}
    BY <2>1, <2>3 DEF Enqueue, Withdraw, TypeOK
  <2>4. CASE Observe
    BY <2>4 DEF Observe, StopAfterSigning, EndTick
  <2>5. QED
    BY <2>2, <2>3, <2>4, QueueFrame
<1>3. QED
  BY <1>1, <1>2, SnapshotFrame DEF Restart

LEMMA SnapshotQueuedStep ==
    ASSUME TypeOK, SnapshotQueued, [Next]_vars
    PROVE  SnapshotQueued'
<1> SUFFICES ASSUME NEW r \in Requests, queue'[r] = "absent"
             PROVE  snapshot'[r] = "absent"
  BY DEF SnapshotQueued
<1>1. queue[r] = "absent"
  <2>1. CASE UNCHANGED queue
    BY <2>1
  <2>2. CASE Observe
    BY <2>2 DEF Observe, TypeOK
  <2>3. ASSUME NEW q \in Requests, Enqueue(q) \/ Withdraw(q)
        PROVE  queue[r] = "absent"
    BY <2>3 DEF Enqueue, Withdraw, TypeOK
  <2>4. QED
    BY <2>1, <2>2, <2>3, QueueFrame
<1>2. CASE UNCHANGED snapshot
  BY <1>1, <1>2 DEF SnapshotQueued
<1>3. CASE snapshot' = queue
  BY <1>1, <1>3
<1>4. CASE Restart
  BY <1>4 DEF Restart
<1>5. QED
  BY <1>2, <1>3, <1>4, SnapshotFrame

LEMMA RevealsCommittedStep ==
    ASSUME DataAssumption, TypeOK, RevealsCommitted, [Next]_vars
    PROVE  RevealsCommitted'
<1> SUFFICES ASSUME NEW r \in Requests, Ask[r].intent = "submitResult",
                    "absent" # queue'[r]
             PROVE  committedAt'[BootNet][Ask[r].job] # 0
  BY DEF RevealsCommitted
<1>1. Ask[r].job \in Jobs
  BY DEF DataAssumption, AskType
<1>2. committedAt[BootNet][Ask[r].job] # 0
  <2>1. CASE "absent" # queue[r]
    BY <2>1 DEF RevealsCommitted
  <2>2. CASE queue[r] = "absent"
    <3>1. ~UNCHANGED queue /\ ~Observe
      BY <2>2 DEF Observe, TypeOK
    <3>2. PICK q \in Requests : Enqueue(q) \/ Withdraw(q)
      BY <3>1, QueueFrame
    <3>3. q = r /\ Enqueue(r)
      BY <2>2, <3>2 DEF Enqueue, Withdraw, TypeOK
    <3>4. QED
      BY <3>3 DEF Enqueue
  <2>3. QED
    BY <2>1, <2>2
<1>3. CASE UNCHANGED chainVars
  BY <1>2, <1>3 DEF chainVars
<1>4. ASSUME NEW n \in Nets, NewBlock(n)
      PROVE  committedAt'[BootNet][Ask[r].job] # 0
  <2>1. head[n] + 1 # 0 /\ head[n] \in Nat
    BY DEF TypeOK, ChainTypeOK
  <2>2. CASE UNCHANGED committedAt
    BY <1>2, <2>2
  <2>3. ASSUME NEW j \in Jobs,
               committedAt' = [committedAt EXCEPT ![n][j] = head[n] + 1]
        PROVE  committedAt'[BootNet][Ask[r].job] # 0
    BY <1>1, <1>2, <2>1, <2>3 DEF TypeOK, ChainTypeOK, DataAssumption
  <2>4. QED
    BY <1>4, <2>2, <2>3 DEF NewBlock
<1>5. QED
  BY <1>3, <1>4, ChainFrame

\* The thread moves from one point of a write to the next only by passing
\* the check that lies between them.
LEMMA CursorVettedStep ==
    ASSUME DataAssumption, TypeOK, CursorVetted, [Next]_vars
    PROVE  CursorVetted'
<1> USE DEF CursorVetted, Busy, Reads, Cleared
<1>1. CASE UNCHANGED relayVars
  BY <1>1 DEF relayVars
<1>2. CASE pc' \in {"sleep", "list", "scan"}
  BY <1>2
<1>3. CASE Scan
  BY <1>3 DEF Scan, Sound, GoTo, EndTick, NextRequest
<1>4. CASE SettlementRead
  <2>1. CASE pc = "readTier"
    BY <1>4, <2>1 DEF SettlementRead, Read, NextRequest
  <2>2. CASE pc # "readTier"
    BY <1>4, <2>2 DEF SettlementRead, Read, NextRequest
  <2>3. QED
    BY <2>1, <2>2
<1>5. CASE Gate
  BY <1>5 DEF Gate, GoTo, NextRequest
<1>6. CASE FetchKey \/ Send \/ Observe \/ Approve
  BY <1>6 DEF FetchKey, Send, Observe, Approve, GoTo, EndTick,
              StopAfterSigning
<1>7. QED
  BY <1>1, <1>2, <1>3, <1>4, <1>5, <1>6, RelayFrame
     DEF RelayStep, Wake, List, EndTick, GoTo, Decline, NextRequest, Restart,
         Toggle, Unlock

\* Broadcasts grow only in Send, by one, at the cursor.
LEMMA SendFrame ==
    ASSUME TypeOK, [Next]_vars
    PROVE  \/ UNCHANGED broadcasts
           \/ /\ Send
              /\ cursor \in Requests
              /\ broadcasts' = [broadcasts EXCEPT ![cursor] = @ + 1]
<1>1. CASE Send
  BY <1>1 DEF Send, Reaches, sendVars, TypeOK, RelayTypeOK, Cleared
<1>2. QED
  BY <1>1, RelayFrame
     DEF RelayStep, Wake, List, Scan, SettlementRead, Gate, FetchKey, Observe,
         Approve, Decline, Restart, Toggle, Unlock, sendVars

LEMMA OnlyVettedStep ==
    ASSUME TypeOK, CursorVetted, OnlyVettedWritesSent, [Next]_vars
    PROVE  OnlyVettedWritesSent'
<1>1. CASE UNCHANGED broadcasts
  BY <1>1 DEF OnlyVettedWritesSent, NeedsSettlement
<1>2. CASE Send /\ broadcasts' = [broadcasts EXCEPT ![cursor] = @ + 1]
  <2>1. /\ Ask[cursor].defects = {}
        /\ NeedsSettlement(cursor) => Tier[Ask[cursor].job] = 0
    BY <1>2 DEF Send, CursorVetted, Busy, Cleared
  <2>2. ASSUME NEW r \in Requests, broadcasts'[r] > 0
        PROVE  /\ Ask[r].defects = {}
               /\ NeedsSettlement(r) => Tier[Ask[r].job] = 0
    BY <1>2, <2>1, <2>2 DEF OnlyVettedWritesSent, TypeOK, HistoryTypeOK
  <2>3. QED
    BY <2>2 DEF OnlyVettedWritesSent, NeedsSettlement
<1>3. QED
  BY <1>1, <1>2, SendFrame

\* Whose report is outstanding: changed by Send, Observe and Restart only.
LEMMA ObserveFrame ==
    ASSUME [Next]_vars
    PROVE  \/ UNCHANGED <<broadcasts, lost>>
              /\ pc' # "observe" /\ pc # "observe"
           \/ UNCHANGED <<broadcasts, lost, pc, cursor>>
           \/ Send \/ Observe \/ Restart
BY RelayFrame
   DEF RelayStep, Wake, List, Scan, SettlementRead, Read, Gate, FetchKey,
       Approve, Decline, Toggle, Unlock, GoTo, EndTick, NextRequest,
       StopAfterSigning, sendVars, relayVars, AfterTier, vars

\* A broadcast is paid for by a lost report or by the report that follows.
LEMMA BroadcastsAccountedStep ==
    ASSUME TypeOK, SnapshotHonest, CursorVetted, BroadcastsAccounted,
           [Next]_vars
    PROVE  BroadcastsAccounted'
<1> USE DEF TypeOK, HistoryTypeOK
<1>1. CASE Send
  <2>1. cursor \in Requests /\ queue[cursor] # "submitted"
    BY <1>1 DEF Send, RelayTypeOK, Cleared, SnapshotHonest, CursorVetted, Busy
  <2>2. ASSUME NEW r \in Requests, r # cursor
        PROVE  UNCHANGED <<broadcasts[r], lost[r], queue[r], cursor>>
    BY <1>1, <2>1, <2>2
       DEF Send, Reaches, GoTo, StopAfterSigning, EndTick, sendVars
  <2>3. broadcasts[cursor] <= lost[cursor] /\ pc # "observe"
    BY <1>1, <2>1 DEF BroadcastsAccounted, Send
  <2>4. \/ /\ broadcasts'[cursor] = broadcasts[cursor] + 1
           /\ lost'[cursor] = lost[cursor] /\ pc' = "observe"
        \/ /\ broadcasts'[cursor] = broadcasts[cursor]
           /\ lost'[cursor] = lost[cursor] /\ pc' = "sleep"
        \/ /\ broadcasts'[cursor] = broadcasts[cursor] + 1
           /\ lost'[cursor] = lost[cursor] + 1 /\ pc' = "sleep"
    BY <1>1, <2>1
       DEF Send, Reaches, GoTo, StopAfterSigning, EndTick, sendVars
  <2>5. UNCHANGED <<queue, cursor>>
    BY <1>1 DEF Send, GoTo, StopAfterSigning, EndTick
  <2>6. broadcasts[cursor] \in Nat /\ lost[cursor] \in Nat
    BY <2>1
  <2>7. QED
    BY <2>1, <2>2, <2>3, <2>4, <2>5, <2>6 DEF BroadcastsAccounted
<1>2. CASE Observe
  <2>1. /\ cursor \in Requests /\ cursor' = cursor /\ pc' = "sleep"
        /\ pc = "observe" /\ UNCHANGED broadcasts
    BY <1>2 DEF Observe, RelayTypeOK, StopAfterSigning, EndTick
  <2>2. \/ queue'[cursor] = "submitted" /\ UNCHANGED lost
        \/ UNCHANGED queue /\ lost' = [lost EXCEPT ![cursor] = @ + 1]
    BY <1>2, <2>1 DEF Observe
  <2>3. \A r \in Requests : r # cursor => queue'[r] = queue[r]
    BY <1>2, <2>1 DEF Observe
  <2>4. \A r \in Requests : broadcasts[r] \in Nat /\ lost[r] \in Nat
    OBVIOUS
  <2>5. QED
    BY <2>1, <2>2, <2>3, <2>4 DEF BroadcastsAccounted
<1>3. CASE Restart
  <2>1. pc' = "sleep" /\ UNCHANGED <<queue, broadcasts>>
    BY <1>3 DEF Restart
  <2>2. CASE pc = "observe"
    <3>1. cursor \in Requests /\ lost' = [lost EXCEPT ![cursor] = @ + 1]
      BY <1>3, <2>2 DEF Restart, RelayTypeOK
    <3>2. \A r \in Requests : broadcasts[r] \in Nat /\ lost[r] \in Nat
      OBVIOUS
    <3>3. QED
      BY <2>1, <2>2, <3>1, <3>2 DEF BroadcastsAccounted
  <2>3. CASE pc # "observe"
    BY <1>3, <2>1, <2>3 DEF Restart, BroadcastsAccounted
  <2>4. QED
    BY <2>2, <2>3
<1>4. CASE /\ UNCHANGED <<broadcasts, lost>>
           /\ \/ pc' # "observe" /\ pc # "observe"
              \/ UNCHANGED <<pc, cursor>>
           /\ ~Observe
  <2>1. ASSUME NEW r \in Requests
        PROVE  queue'[r] = "submitted" <=> queue[r] = "submitted"
    BY <1>4, <2>1, QueueFrame DEF Enqueue, Withdraw
  <2>2. QED
    BY <1>4, <2>1 DEF BroadcastsAccounted
<1>5. QED
  BY <1>1, <1>2, <1>3, <1>4, ObserveFrame

LEMMA OffBoundedStep ==
    ASSUME TypeOK, OffBounded, [Next]_vars
    PROVE  OffBounded'
<1> USE DEF OffBounded
<1>1. CASE UNCHANGED <<relayVars, sendVars, enabled>>
  BY <1>1 DEF relayVars, sendVars
<1>2. CASE Send
  BY <1>2 DEF Send, Reaches, GoTo, StopAfterSigning, EndTick, sendVars,
              userVars, TypeOK, HistoryTypeOK
<1>3. CASE Observe
  BY <1>3 DEF Observe, StopAfterSigning, EndTick, userVars
<1>4. CASE Wake \/ List \/ Scan \/ SettlementRead \/ Gate \/ FetchKey
           \/ Approve \/ Decline
  BY <1>4 DEF Wake, List, Scan, SettlementRead, Gate, FetchKey, Approve,
              Decline, Reads, sendVars, userVars
<1>5. CASE Toggle \/ Restart
  BY <1>5 DEF Toggle, Restart
<1>6. CASE Unlock
  BY <1>6 DEF Unlock, relayVars
<1>7. QED
  BY <1>1, <1>2, <1>3, <1>4, <1>5, <1>6
     DEF Next, RelayStep, UserStep, StoreEpoch, BeginLock, FinishLock,
         SwitchNetwork, Enqueue, Withdraw, NewBlock, sendVars, userVars, vars

LEMMA LockBoundedStep ==
    ASSUME TypeOK, LockBounded, [Next]_vars
    PROVE  LockBounded'
<1> USE DEF LockBounded
<1>1. CASE UNCHANGED <<relayVars, sendVars, session>>
  BY <1>1 DEF relayVars, sendVars
<1>2. CASE Send
  BY <1>2 DEF Send, Reaches, GoTo, StopAfterSigning, EndTick, sendVars,
              userVars, custodyVars, TypeOK, HistoryTypeOK
<1>3. CASE FetchKey
  BY <1>3 DEF FetchKey, GoTo, StopAfterSigning, EndTick, sendVars, userVars,
              custodyVars
<1>4. CASE Observe
  BY <1>4 DEF Observe, StopAfterSigning, EndTick, userVars, custodyVars
<1>5. CASE Wake \/ List \/ Scan \/ Gate \/ Approve \/ Decline
  BY <1>5 DEF Wake, List, Scan, Gate, Approve, Decline, GoTo, EndTick,
              NextRequest, sendVars, userVars, custodyVars
<1>6. CASE SettlementRead
  BY <1>6 DEF SettlementRead, Read, NextRequest, AfterTier, sendVars,
              userVars, custodyVars
<1>7. CASE Unlock \/ FinishLock \/ Restart
  BY <1>7 DEF Unlock, FinishLock, Restart, relayVars, sendVars
<1>8. CASE Toggle
  BY <1>8 DEF Toggle, relayVars, custodyVars
<1>9. QED
  BY <1>1, <1>2, <1>3, <1>4, <1>5, <1>6, <1>7, <1>8
     DEF Next, RelayStep, UserStep, StoreEpoch, BeginLock,
         SwitchNetwork, Enqueue, Withdraw, NewBlock, sendVars, userVars,
         custodyVars, vars

\* The gate is the only way to the signature of a privileged write.
LEMMA ConsentHeldStep ==
    ASSUME TypeOK, ConsentHeld, [Next]_vars
    PROVE  ConsentHeld'
<1> USE DEF ConsentHeld, NeedsConfirmation
<1>1. CASE UNCHANGED <<relayVars, consent>>
  BY <1>1 DEF relayVars
<1>2. CASE Wake \/ List \/ Scan \/ SettlementRead
  BY <1>2 DEF Wake, List, Scan, SettlementRead, Read, GoTo, EndTick,
              NextRequest, AfterTier
<1>3. CASE Gate
  BY <1>3 DEF Gate, GoTo, NextRequest
<1>4. CASE Approve \/ Decline
  BY <1>4 DEF Approve, Decline, GoTo, NextRequest
<1>5. CASE FetchKey \/ Send \/ Observe
  BY <1>5 DEF FetchKey, Send, Observe, GoTo, EndTick, StopAfterSigning
<1>6. CASE Restart
  BY <1>6 DEF Restart
<1>7. CASE Toggle \/ Unlock
  BY <1>7 DEF Toggle, Unlock, relayVars
<1>8. QED
  BY <1>1, <1>2, <1>3, <1>4, <1>5, <1>6, <1>7, RelayFrame DEF RelayStep

\* What a chain has recorded of a job it never takes back.
LEMMA ChainMonotone ==
    ASSUME DataAssumption, TypeOK, [Next]_vars, NEW j \in Jobs
    PROVE  /\ head'[BootNet] >= head[BootNet]
           /\ committedAt[BootNet][j] # 0 =>
                committedAt'[BootNet][j] = committedAt[BootNet][j]
           /\ verifiedAt[BootNet][j] # 0 =>
                verifiedAt'[BootNet][j] = verifiedAt[BootNet][j]
           /\ j \in resolved[BootNet] => j \in resolved'[BootNet]
<1> USE DEF TypeOK, ChainTypeOK, DataAssumption
<1>1. CASE UNCHANGED chainVars
  BY <1>1 DEF chainVars
<1>2. ASSUME NEW n \in Nets, NewBlock(n)
      PROVE  /\ head'[BootNet] >= head[BootNet]
             /\ committedAt[BootNet][j] # 0 =>
                  committedAt'[BootNet][j] = committedAt[BootNet][j]
             /\ verifiedAt[BootNet][j] # 0 =>
                  verifiedAt'[BootNet][j] = verifiedAt[BootNet][j]
             /\ j \in resolved[BootNet] => j \in resolved'[BootNet]
  <2>1. head'[BootNet] >= head[BootNet]
    BY <1>2 DEF NewBlock
  <2>2. committedAt[BootNet][j] # 0 =>
          committedAt'[BootNet][j] = committedAt[BootNet][j]
    <3>1. ASSUME NEW i \in Jobs, committedAt[n][i] = 0,
                 committedAt' = [committedAt EXCEPT ![n][i] = head[n] + 1],
                 committedAt[BootNet][j] # 0
          PROVE  committedAt'[BootNet][j] = committedAt[BootNet][j]
      BY <3>1
    <3>2. QED
      BY <1>2, <3>1 DEF NewBlock
  <2>3. verifiedAt[BootNet][j] # 0 =>
          verifiedAt'[BootNet][j] = verifiedAt[BootNet][j]
    BY <1>2 DEF NewBlock
  <2>4. j \in resolved[BootNet] => j \in resolved'[BootNet]
    BY <1>2 DEF NewBlock
  <2>5. QED
    BY <2>1, <2>2, <2>3, <2>4
<1>3. QED
  BY <1>1, <1>2, ChainFrame

\* A write that can land now can land later.
LEMMA LandableStable ==
    ASSUME SizeAssumption, DataAssumption, TypeOK, [Next]_vars,
           NEW r \in Requests, Landable(BootNet, r),
           Ask[r].intent = "submitResult" =>
                committedAt[BootNet][Ask[r].job] # 0
    PROVE  Landable(BootNet, r)'
<1> DEFINE j == Ask[r].job
<1>1. j \in Jobs
  BY DEF DataAssumption, AskType
<1>2. /\ head[BootNet] \in Nat /\ head'[BootNet] \in Nat
      /\ committedAt[BootNet][j] \in Nat /\ verifiedAt[BootNet][j] \in Nat
  BY <1>1, ChainTypeStep DEF TypeOK, ChainTypeOK, DataAssumption
<1>3. QED
  BY <1>1, <1>2, ChainMonotone DEF Landable, SizeAssumption

\* The reads of the settlement check still describe the chain when the
\* write is sent, although blocks arrive between any two of them.
LEMMA ReadsCurrentStep ==
    ASSUME SizeAssumption, DataAssumption, TypeOK, CursorVetted,
           RevealsCommitted, SnapshotQueued, ReadsCurrent, [Next]_vars
    PROVE  ReadsCurrent'
<1> SUFFICES ASSUME pc' \in Reads \cup Cleared PROVE ReadsCurrent'
  BY DEF ReadsCurrent, Reads
<1>1. \/ UNCHANGED relayVars
      \/ Scan /\ cursor \in Requests /\ snapshot[cursor] = "pending"
              /\ GoTo(IF NeedsSettlement(cursor) THEN "readTier" ELSE "gate")
      \/ SettlementRead /\ UNCHANGED cursor
      \/ (Gate \/ FetchKey \/ Approve) /\ UNCHANGED cursor
  BY RelayFrame
     DEF RelayStep, Wake, List, Scan, SettlementRead, Read, Gate, FetchKey,
         Send, Observe, Approve, Decline, Restart, Toggle, Unlock, GoTo,
         EndTick, NextRequest, StopAfterSigning, Reads, Cleared
<1>2. /\ cursor \in Requests /\ cursor' = cursor
      /\ snapshot[cursor] = "pending"
  BY <1>1 DEF TypeOK, RelayTypeOK, CursorVetted, Busy, GoTo, SettlementRead,
              Gate, FetchKey, Approve, Reads, Cleared, relayVars
<1>3. PICK r \in Requests : r = cursor
  BY <1>2
<1> DEFINE j == Ask[r].job
<1>4. j \in Jobs
  BY DEF DataAssumption, AskType
<1>5. Ask[r].intent = "submitResult" => committedAt[BootNet][j] # 0
  <2>1. "absent" # queue[r]
    BY <1>2, <1>3 DEF SnapshotQueued
  <2>2. QED
    BY <2>1 DEF RevealsCommitted
<1>6. /\ head[BootNet] \in Nat /\ head'[BootNet] \in Nat /\ seen \in Nat
      /\ committedAt[BootNet][j] \in Nat /\ verifiedAt[BootNet][j] \in Nat
  BY <1>4, ChainTypeStep DEF TypeOK, RelayTypeOK, ChainTypeOK, DataAssumption
<1>7. CASE UNCHANGED relayVars
  <2>1. head'[BootNet] >= head[BootNet]
    BY <1>4, ChainMonotone
  <2>2. pc = "readWindowHead" => seen = verifiedAt'[BootNet][j]
    BY <1>3, <1>4, ChainMonotone DEF ReadsCurrent
  <2>3. pc \in Cleared => Landable(BootNet, r)'
    BY <1>3, <1>5, LandableStable DEF ReadsCurrent
  <2>4. QED
    BY <1>3, <1>6, <1>7, <2>1, <2>2, <2>3
       DEF ReadsCurrent, relayVars, Landable
<1>8. CASE Scan /\ GoTo(IF NeedsSettlement(cursor) THEN "readTier" ELSE "gate")
  BY <1>3, <1>8
     DEF GoTo, ReadsCurrent, Landable, NeedsSettlement, Cleared
<1>9. CASE SettlementRead /\ UNCHANGED cursor
  <2>1. UNCHANGED chainVars
    BY <1>9 DEF SettlementRead
  <2>2. CASE pc = "readTier"
    BY <1>3, <1>9, <2>1, <2>2
       DEF SettlementRead, Read, NextRequest, AfterTier, ReadsCurrent,
           Landable, Cleared, chainVars
  <2>3. CASE pc = "readHead"
    BY <1>3, <1>6, <1>9, <2>1, <2>3
       DEF SettlementRead, Read, NextRequest, ReadsCurrent, Cleared, chainVars
  <2>4. CASE pc = "readCommitBlock"
    BY <1>3, <1>6, <1>9, <2>1, <2>4
       DEF SettlementRead, Read, NextRequest, ReadsCurrent, Landable, Cleared,
           chainVars
  <2>5. CASE pc = "readResolved"
    BY <1>3, <1>9, <2>1, <2>5
       DEF SettlementRead, Read, NextRequest, ReadsCurrent, Landable, Cleared,
           chainVars
  <2>6. CASE pc = "readVerifiedAt"
    BY <1>3, <1>9, <2>1, <2>6
       DEF SettlementRead, Read, NextRequest, ReadsCurrent, Cleared, chainVars
  <2>7. CASE pc = "readWindowHead"
    BY <1>3, <1>6, <1>9, <2>1, <2>7, SizeAssumption
       DEF SettlementRead, Read, NextRequest, InDisputeWindow, ReadsCurrent,
           Landable, Cleared, chainVars
  <2>8. QED
    BY <1>9, <2>2, <2>3, <2>4, <2>5, <2>6, <2>7 DEF SettlementRead
<1>10. CASE (Gate \/ FetchKey \/ Approve) /\ UNCHANGED cursor
  <2>1. UNCHANGED chainVars /\ pc \in Cleared /\ pc' \in Cleared
    BY <1>10 DEF Gate, FetchKey, Approve, GoTo, NextRequest, EndTick,
                 StopAfterSigning, Reads, Cleared
  <2>2. QED
    BY <1>3, <1>10, <2>1 DEF ReadsCurrent, Landable, Cleared, chainVars
<1>11. QED
  BY <1>1, <1>7, <1>8, <1>9, <1>10

-----------------------------------------------------------------------------
(* The inductive invariant holds, and with it the safety properties.       *)

LEMMA InvariantInit ==
    ASSUME SizeAssumption, DataAssumption, Init
    PROVE  IInv
<1>1. TypeOK
  BY TypeInit
<1>2. SnapshotHonest /\ CursorVetted /\ ReadsCurrent
  BY DEF Init, SnapshotHonest, CursorVetted, ReadsCurrent, Busy, Reads, Cleared
<1>3. OnlyVettedWritesSent /\ BroadcastsAccounted /\ OffBounded /\ LockBounded
  BY DEF Init, OnlyVettedWritesSent, BroadcastsAccounted, OffBounded,
         LockBounded
<1>4. RevealsCommitted /\ SnapshotQueued /\ ConsentHeld
  BY DEF Init, RevealsCommitted, SnapshotQueued, ConsentHeld
<1>5. QED
  BY <1>1, <1>2, <1>3, <1>4 DEF IInv

LEMMA InvariantStep ==
    ASSUME SizeAssumption, DataAssumption, IInv, [Next]_vars
    PROVE  IInv'
BY TypeStep, SnapshotHonestStep, CursorVettedStep, OnlyVettedStep,
   BroadcastsAccountedStep, OffBoundedStep, LockBoundedStep,
   ConsentHeldStep, RevealsCommittedStep, SnapshotQueuedStep,
   ReadsCurrentStep DEF IInv

\* IInv is an inductive invariant of the relay.
THEOREM Invariance == Spec => []IInv
<1>1. Init => IInv
  BY InvariantInit, SizeAssumption, DataAssumption
<1>2. IInv /\ [Next]_vars => IInv'
  BY InvariantStep, SizeAssumption, DataAssumption
<1>3. QED
  BY <1>1, <1>2, PTL DEF Spec

\* Whatever the node-agent queues, only a write that passed every check of
\* the validator and the tier check is ever broadcast.
THEOREM OnlyVettedSafety == Spec => []OnlyVettedWritesSent
<1>1. IInv => OnlyVettedWritesSent
  BY DEF IInv
<1>2. QED
  BY <1>1, Invariance, PTL

\* What the invariant says of one request's broadcasts.
LEMMA ReportsAccounted ==
    ASSUME IInv, NEW r \in Requests
    PROVE  /\ queue[r] = "submitted" => broadcasts[r] > 0
           /\ broadcasts[r] <= lost[r] + 1
<1>1. broadcasts[r] \in Nat /\ lost[r] \in Nat
  BY DEF IInv, TypeOK, HistoryTypeOK
<1>2. IF queue[r] = "submitted" \/ (pc = "observe" /\ cursor = r)
      THEN 0 < broadcasts[r] /\ broadcasts[r] <= lost[r] + 1
      ELSE broadcasts[r] <= lost[r]
  BY DEF IInv, BroadcastsAccounted
<1>3. QED
  BY <1>1, <1>2

\* The agent is told "observed" only of writes that were broadcast.
THEOREM ReportingSafety == Spec => []ReportedIsSent
<1>1. IInv => ReportedIsSent
  BY ReportsAccounted DEF ReportedIsSent
<1>2. QED
  BY <1>1, Invariance, PTL

\* A write is broadcast again only after its last broadcast went unreported.
THEOREM DuplicateSafety == Spec => []NoDuplicateWithoutLoss
<1>1. IInv => NoDuplicateWithoutLoss
  BY ReportsAccounted DEF NoDuplicateWithoutLoss
<1>2. QED
  BY <1>1, Invariance, PTL

\* After the relay is switched off at most the write in flight is still
\* broadcast.
THEOREM SwitchedOffSafety == Spec => []AtMostOneAfterOff
<1>1. IInv => AtMostOneAfterOff
  BY DEF IInv, OffBounded, AtMostOneAfterOff
<1>2. QED
  BY <1>1, Invariance, PTL

\* Nor is more than that one broadcast after the wallet was locked.
THEOREM LockedSafety == Spec => []AtMostOneAfterLock
<1>1. IInv => AtMostOneAfterLock
  BY DEF IInv, LockBounded, AtMostOneAfterLock
<1>2. QED
  BY <1>1, Invariance, PTL

\* Every broadcast job write is one the chain the settlement reader looks at
\* accepts at the moment of the broadcast, for every dispute window.
THEOREM LandableSafety == Spec => LandableWhereRead
<1>1. IInv /\ [Next]_vars =>
        [\A r \in Requests : broadcasts'[r] # broadcasts[r]
            => Landable(BootNet, r)]_vars
  <2>1. ASSUME IInv, [Next]_vars, NEW r \in Requests,
               broadcasts'[r] # broadcasts[r]
        PROVE  Landable(BootNet, r)
    <3>1. /\ Send /\ cursor \in Requests
          /\ broadcasts' = [broadcasts EXCEPT ![cursor] = @ + 1]
      BY <2>1, SendFrame DEF IInv
    <3>2. cursor = r /\ pc \in Cleared
      BY <2>1, <3>1 DEF IInv, TypeOK, HistoryTypeOK, Send, Cleared
    <3>3. QED
      BY <2>1, <3>2 DEF IInv, ReadsCurrent
  <2>2. QED
    BY <2>1
<1>2. QED
  BY <1>1, Invariance, PTL DEF Spec, LandableWhereRead

\* Who broadcasts a write, what becomes of its consent, and that nobody declined it.
LEMMA BroadcastConsented ==
    ASSUME IInv, [Next]_vars, NEW r \in Requests,
           broadcasts'[r] # broadcasts[r]
    PROVE  /\ NeedsConfirmation(r) => r \in consent /\ r \notin consent'
           /\ r \notin declined
<1>1. /\ Send /\ cursor \in Requests
      /\ broadcasts' = [broadcasts EXCEPT ![cursor] = @ + 1]
  BY SendFrame DEF IInv
<1>2. cursor = r /\ pc = "send" /\ consent' = consent \ {cursor}
  BY <1>1 DEF IInv, TypeOK, HistoryTypeOK, Send
<1>3. QED
  BY <1>2 DEF IInv, ConsentHeld

\* Every broadcast of a privileged write uses up an approval of its own.
THEOREM ConsentSafety == Spec => ConsentPerSend
<1>1. IInv /\ [Next]_vars =>
        [\A r \in Requests : NeedsConfirmation(r)
              /\ broadcasts'[r] # broadcasts[r]
            => r \in consent /\ r \notin consent']_vars
  BY BroadcastConsented
<1>2. QED
  BY <1>1, Invariance, PTL DEF Spec, ConsentPerSend

\* A write that the user declined, or let time out, is not broadcast while the
\* application runs, whatever the agent asks for and however often.
THEOREM DeclinedSafety == Spec => DeclinedStaysRefused
<1>1. IInv /\ [Next]_vars =>
        [\A r \in declined : broadcasts'[r] = broadcasts[r]]_vars
  BY BroadcastConsented DEF IInv, TypeOK, RelayTypeOK
<1>2. QED
  BY <1>1, Invariance, PTL DEF Spec, DeclinedStaysRefused

-----------------------------------------------------------------------------
(* A tick ends: every step of the relay thread takes it on along its path,  *)
(* on to the next request, or to sleep.                                     *)

LEMMA PathPoints ==
    /\ Path[1] = "list" /\ Path[2] = "scan" /\ Path[3] = "readTier"
    /\ Path[4] = "readHead" /\ Path[5] = "readCommitBlock"
    /\ Path[6] = "readResolved" /\ Path[7] = "readVerifiedAt"
    /\ Path[8] = "readWindowHead" /\ Path[9] = "gate" /\ Path[10] = "prompt"
    /\ Path[11] = "sign" /\ Path[12] = "send" /\ Path[13] = "observe"
BY DEF Path

LEMMA PathGoesOn ==
    ASSUME NEW i \in 1 .. 13, NEW j \in 1 .. 13, i < j
    PROVE  Before(Path[i], Path[j])
BY DEF Before

\* The moves that the code makes from one await to another for one request.
LEMMA PathMoves ==
    /\ Before("scan", "readTier") /\ Before("scan", "gate")
    /\ Before("readTier", "readHead") /\ Before("readTier", "readResolved")
    /\ Before("readTier", "gate") /\ Before("readHead", "readCommitBlock")
    /\ Before("readCommitBlock", "gate") /\ Before("readResolved", "gate")
    /\ Before("readResolved", "readVerifiedAt")
    /\ Before("readVerifiedAt", "readWindowHead")
    /\ Before("readWindowHead", "gate") /\ Before("gate", "sign")
    /\ Before("gate", "prompt") /\ Before("prompt", "sign")
    /\ Before("sign", "send") /\ Before("send", "observe")
<1>1. /\ Before(Path[2], Path[3]) /\ Before(Path[2], Path[9])
      /\ Before(Path[3], Path[4]) /\ Before(Path[3], Path[6])
      /\ Before(Path[3], Path[9]) /\ Before(Path[4], Path[5])
      /\ Before(Path[5], Path[9]) /\ Before(Path[6], Path[9])
      /\ Before(Path[6], Path[7]) /\ Before(Path[7], Path[8])
      /\ Before(Path[8], Path[9]) /\ Before(Path[9], Path[11])
      /\ Before(Path[9], Path[10]) /\ Before(Path[10], Path[11])
      /\ Before(Path[11], Path[12]) /\ Before(Path[12], Path[13])
  BY PathGoesOn
<1>2. QED
  BY <1>1, PathPoints

\* What TickEnds says of one step.
Onward ==
    pc # "sleep" /\ pc' # "sleep" =>
        \/ pc = "list" /\ pc' = "scan" /\ cursor' = 1
        \/ cursor \in Requests /\ pc' = "scan" /\ cursor' = cursor + 1
        \/ cursor' = cursor /\ Before(pc, pc')

LEMMA TickMoves ==
    ASSUME IInv, [Next]_vars
    PROVE  [Onward]_<<pc, cursor>>
<1>1. CASE UNCHANGED relayVars
  BY <1>1 DEF relayVars
<1>2. CASE Wake \/ List \/ Restart
  BY <1>2 DEF Wake, List, Restart, EndTick, Onward
<1>3. CASE Scan
  BY <1>3, PathMoves DEF Scan, GoTo, EndTick, NextRequest, Onward
<1>4. CASE SettlementRead
  <2>1. cursor \in Requests
    BY <1>4 DEF SettlementRead, IInv, TypeOK, RelayTypeOK, Reads
  <2>2. CASE NextRequest
    BY <2>1, <2>2 DEF NextRequest, Onward
  <2>3. CASE ~NextRequest
    <3>1. cursor' = cursor /\ Before(pc, pc')
      BY <1>4, <2>3, PathMoves DEF SettlementRead, Read, AfterTier
    <3>2. QED
      BY <3>1 DEF Onward
  <2>4. QED
    BY <2>2, <2>3
<1>5. CASE Gate \/ Approve \/ Decline
  <2>1. cursor \in Requests
    BY <1>5 DEF Gate, Approve, Decline, IInv, TypeOK, RelayTypeOK, Cleared
  <2>2. QED
    BY <1>5, <2>1, PathMoves
       DEF Gate, Approve, Decline, GoTo, NextRequest, Onward
<1>6. CASE FetchKey \/ Send \/ Observe
  BY <1>6, PathMoves
     DEF FetchKey, Send, Observe, GoTo, StopAfterSigning, EndTick, Onward
<1>7. CASE Toggle \/ Unlock
  BY <1>7 DEF Toggle, Unlock, relayVars
<1>8. QED
  BY <1>1, <1>2, <1>3, <1>4, <1>5, <1>6, <1>7, RelayFrame DEF RelayStep

\* A tick takes at most one pass over its listing, for any listing, and whatever
\* the agent, the user, the chains and failed calls do meanwhile.
THEOREM TickSafety == Spec => TickEnds
<1>1. IInv /\ [Next]_vars => [Onward]_<<pc, cursor>>
  BY TickMoves
<1>2. QED
  BY <1>1, Invariance, PTL DEF Spec, TickEnds, Onward

-----------------------------------------------------------------------------
(* The relay implements the promise it makes about each single write.      *)

\* A write whose phase and count do not change takes no part in the step.
LEMMA PromiseStutter ==
    ASSUME \A r \in Requests : Phase(r)' = Phase(r), UNCHANGED broadcasts
    PROVE  UNCHANGED <<[r \in Requests |-> Phase(r)], broadcasts>>
BY Zenon

\* Each step is a step of RelayPromise or a stutter.
LEMMA PromiseStep ==
    ASSUME IInv, [Next]_vars
    PROVE  [Promise!Next]_<<[r \in Requests |-> Phase(r)], broadcasts>>
<1> USE DEF IInv, TypeOK, HistoryTypeOK
<1>1. CASE Send
  <2>1. PICK c \in Requests : c = cursor
    BY <1>1 DEF Send, RelayTypeOK, Cleared
  <2>2. Ask[c].defects = {} /\ queue[c] # "submitted" /\ pc = "send"
    BY <1>1, <2>1 DEF Send, CursorVetted, Busy, Cleared, SnapshotHonest
  <2>3. UNCHANGED queue /\ cursor' = c
    BY <1>1, <2>1 DEF Send, GoTo, StopAfterSigning, EndTick
  <2>4. \A r \in Requests : r # c => Phase(r)' = Phase(r)
    BY <2>1, <2>2, <2>3 DEF Phase
  <2>5. Phase(c) = "open"
    BY <2>2 DEF Phase
  <2>6. CASE broadcasts' = [broadcasts EXCEPT ![c] = @ + 1] /\ pc' = "observe"
    <3>1. Phase(c)' = "sent"
      BY <2>2, <2>3, <2>6 DEF Phase
    <3>2. [r \in Requests |-> Phase(r)]' =
            [[r \in Requests |-> Phase(r)] EXCEPT ![c] = "sent"]
      BY <2>4, <3>1, Zenon
    <3>3. Promise!Send(c)
      BY <2>2, <2>5, <2>6, <3>2 DEF Promise!Send
    <3>4. QED
      BY <3>3 DEF Promise!Next
  <2>7. CASE broadcasts' = [broadcasts EXCEPT ![c] = @ + 1] /\ pc' = "sleep"
    <3>1. Phase(c)' = Phase(c)
      BY <2>2, <2>3, <2>7 DEF Phase
    <3>2. UNCHANGED [r \in Requests |-> Phase(r)]
      BY <2>4, <3>1, Zenon
    <3>3. Promise!SendUnheard(c)
      BY <2>2, <2>5, <2>7, <3>2 DEF Promise!SendUnheard
    <3>4. QED
      BY <3>3 DEF Promise!Next
  <2>8. CASE UNCHANGED broadcasts /\ pc' = "sleep"
    <3>1. Phase(c)' = Phase(c)
      BY <2>2, <2>3, <2>8 DEF Phase
    <3>2. QED
      BY <2>4, <2>8, <3>1, PromiseStutter, Zenon
  <2>9. QED
    BY <1>1, <2>1, <2>6, <2>7, <2>8
       DEF Send, Reaches, GoTo, StopAfterSigning, EndTick, sendVars
<1>2. ASSUME NEW c \in Requests, c = cursor, pc = "observe", pc' = "sleep",
             UNCHANGED broadcasts,
             \A r \in Requests : r # c => queue'[r] = queue[r]
      PROVE  [Promise!Next]_<<[r \in Requests |-> Phase(r)], broadcasts>>
  <2>1. queue[c] # "submitted"
    BY <1>2 DEF CursorVetted, Busy, SnapshotHonest
  <2>2. Phase(c) = "sent"
    BY <1>2, <2>1 DEF Phase
  <2>3. \A r \in Requests : r # c => Phase(r)' = Phase(r)
    BY <1>2 DEF Phase
  <2>4. CASE queue'[c] = "submitted"
    <3>1. Phase(c)' = "reported"
      BY <2>4 DEF Phase
    <3>2. [r \in Requests |-> Phase(r)]' =
            [[r \in Requests |-> Phase(r)] EXCEPT ![c] = "reported"]
      BY <2>3, <3>1, Zenon
    <3>3. QED
      BY <1>2, <2>2, <3>2 DEF Promise!Next, Promise!Report
  <2>5. CASE queue'[c] # "submitted"
    <3>1. Phase(c)' = "open"
      BY <1>2, <2>5 DEF Phase
    <3>2. [r \in Requests |-> Phase(r)]' =
            [[r \in Requests |-> Phase(r)] EXCEPT ![c] = "open"]
      BY <2>3, <3>1, Zenon
    <3>3. QED
      BY <1>2, <2>2, <3>2 DEF Promise!Next, Promise!LoseReport
  <2>6. QED
    BY <2>4, <2>5
<1>3. CASE Observe
  <2>1. cursor \in Requests /\ pc = "observe" /\ pc' = "sleep"
    BY <1>3 DEF Observe, RelayTypeOK, StopAfterSigning, EndTick
  <2>2. UNCHANGED broadcasts /\ \A r \in Requests : r # cursor => queue'[r] = queue[r]
    BY <1>3, <2>1 DEF Observe
  <2>3. QED
    BY <1>2, <2>1, <2>2
<1>4. CASE Restart
  <2>1. pc' = "sleep" /\ UNCHANGED <<queue, broadcasts>>
    BY <1>4 DEF Restart
  <2>2. CASE pc = "observe"
    BY <1>2, <2>1, <2>2 DEF RelayTypeOK
  <2>3. CASE pc # "observe"
    <3>1. \A r \in Requests : Phase(r)' = Phase(r)
      BY <2>1, <2>3 DEF Phase
    <3>2. QED
      BY <2>1, <3>1, PromiseStutter, Zenon
  <2>4. QED
    BY <2>2, <2>3
<1>5. CASE /\ UNCHANGED broadcasts
           /\ \/ pc' # "observe" /\ pc # "observe"
              \/ UNCHANGED <<pc, cursor>>
           /\ ~Observe
  <2>1. ASSUME NEW r \in Requests
        PROVE  queue'[r] = "submitted" <=> queue[r] = "submitted"
    BY <1>5, <2>1, QueueFrame DEF Enqueue, Withdraw
  <2>2. \A r \in Requests : Phase(r)' = Phase(r)
    BY <1>5, <2>1 DEF Phase
  <2>3. QED
    BY <1>5, <2>2, PromiseStutter, Zenon
<1>6. QED
  BY <1>1, <1>3, <1>4, <1>5, ObserveFrame

\* The relay, with its listing, retries, prompts, faults and restarts,
\* implements the promise of RelayPromise for every write.
THEOREM Refinement == Spec => ImplementsPromise
<1>1. Init => Promise!Init
  <2>1. ASSUME Init, NEW r \in Requests PROVE Phase(r) = "open"
    BY <2>1 DEF Init, Phase
  <2>2. QED
    BY <2>1 DEF Init, Promise!Init
<1>2. IInv /\ [Next]_vars
        => [Promise!Next]_<<[r \in Requests |-> Phase(r)], broadcasts>>
  BY PromiseStep
<1>3. QED
  BY <1>1, <1>2, Invariance, PTL DEF Spec, ImplementsPromise, Promise!Spec
=============================================================================
