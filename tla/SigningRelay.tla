---------------------------- MODULE SigningRelay ----------------------------
(***************************************************************************)
(* The signing relay of the desktop wallet: the background thread that     *)
(* drains the node-agent's signature-request queue and signs each          *)
(* acceptable write with the unlocked wallet.                              *)
(*                                                                         *)
(* One relay thread (pc, cursor, snapshot, seen) runs ticks.  Around it,   *)
(* and between any two of its awaits, act: the user (toggle, unlock, lock, *)
(* approve, decline, switch environment), the node-agent (enqueue,         *)
(* withdraw), the chain (new blocks), faults (lost calls and replies) and  *)
(* a restart of the application.                                           *)
(*                                                                         *)
(* The node-agent, the chain and the human are external: they are modelled *)
(* from how relay_service.rs and main.rs use them.                         *)
(***************************************************************************)
EXTENDS Naturals

CONSTANTS
    NumRequests,    \* requests the node-agent ever queues; ids 1..NumRequests
    Ask,            \* Ask[r]: the content of request r (see AskType)
    Jobs,           \* compute jobs the requests are about
    Tier,           \* Tier[j]: the job's effective verification tier on chain
    Nets,           \* networks (RPC endpoints) the wallet can be pointed at
    BootNet,        \* the network whose RPC the settlement reader was built on
    DisputeWindow,  \* DISPUTE_WINDOW_BLOCKS
    Rejected,       \* requests whose transaction the network may refuse
                    \* every time: no gas money, a call that would revert
    MaxHead,        \* bound: height a chain may reach
    MaxFaults       \* bound: failed or lost calls, and restarts, together

Requests == 1 .. NumRequests

\* The seven writes the relay knows; a request naming another is a defect.
Intents == {"startExecution", "submitCommitment", "submitResult",
            "completeJob", "claimRewards", "bidOnJob", "heartbeat"}

\* What RelayValidator::validate checks of a pending request.
Checks == {"chain", "value", "intent", "contract", "selector", "args"}

\* A request names one intent, one job, and fails the checks in `defects'.
AskType == [intent : Intents, job : Jobs, defects : SUBSET Checks]

ASSUME SizeAssumption ==
    /\ NumRequests \in Nat
    /\ MaxHead \in Nat
    /\ MaxFaults \in Nat
    /\ DisputeWindow \in Nat

ASSUME DataAssumption ==
    /\ Ask \in [Requests -> AskType]
    /\ Tier \in [Jobs -> Nat]
    /\ BootNet \in Nets
    /\ Rejected \subseteq Requests

VARIABLES
    \* relay thread
    pc,           \* where the thread is between two awaits
    cursor,       \* request of the snapshot under consideration
    snapshot,     \* queue as listed at the start of the tick
    seen,         \* chain value read by the settlement check in progress
    declined,     \* RelayApprovalGate.declined
    \* user-controlled switches
    enabled,      \* RelayService.enabled
    epoch,        \* SESSION_UNLOCK_EPOCH > 0
    session,      \* the wallet session is active and its keys are in memory
    unlocking,    \* an unlock handler has unlocked but not stored the epoch
    locking,      \* a lock teardown has cleared the epoch but not locked
    net,          \* network the wallet's RPC client points at
    \* node-agent queue
    queue,
    \* chain, per network
    head, committedAt, verifiedAt, resolved,
    \* history
    broadcasts,   \* how often a request's transaction reached a network
    lost,         \* how often the agent was not told of such a broadcast
    consent,      \* writes approved by the user and not yet broadcast
    sinceOff,     \* broadcasts since the relay was switched off
    sinceLock,    \* broadcasts since the wallet was locked
    faults

relayVars   == <<pc, cursor, snapshot, seen, declined>>
custodyVars == <<epoch, session, unlocking, locking>>
userVars    == <<enabled, custodyVars, net>>
chainVars   == <<head, committedAt, verifiedAt, resolved>>
sendVars    == <<broadcasts, lost, sinceOff, sinceLock>>
vars == <<relayVars, userVars, queue, chainVars, sendVars, consent, faults>>

QueueStatus == {"absent", "pending", "submitted", "withdrawn"}
\* Points of settlement_check, each the await of one chain read.
Reads == {"readTier", "readHead", "readCommitBlock", "readResolved",
          "readVerifiedAt", "readWindowHead"}
\* Points at which the write under the cursor has passed settlement_check.
Cleared == {"gate", "prompt", "sign", "send"}
Points == {"sleep", "list", "scan", "observe"} \cup Reads \cup Cleared

RelayTypeOK ==
    /\ pc \in Points
    /\ cursor \in 1 .. NumRequests + 1
    /\ pc \in Reads \cup Cleared \cup {"observe"} => cursor \in Requests
    /\ snapshot \in [Requests -> QueueStatus]
    /\ seen \in Nat
    /\ declined \subseteq Requests

UserTypeOK ==
    /\ enabled \in BOOLEAN
    /\ epoch \in BOOLEAN
    /\ session \in BOOLEAN
    /\ unlocking \in BOOLEAN
    /\ locking \in BOOLEAN
    /\ net \in Nets

ChainTypeOK ==
    /\ head \in [Nets -> Nat]
    /\ committedAt \in [Nets -> [Jobs -> Nat]]
    /\ verifiedAt \in [Nets -> [Jobs -> Nat]]
    /\ resolved \in [Nets -> SUBSET Jobs]

HistoryTypeOK ==
    /\ broadcasts \in [Requests -> Nat]
    /\ lost \in [Requests -> Nat]
    /\ consent \subseteq Requests
    /\ sinceOff \in Nat
    /\ sinceLock \in Nat
    /\ faults \in 0 .. MaxFaults

TypeOK ==
    /\ RelayTypeOK
    /\ UserTypeOK
    /\ queue \in [Requests -> QueueStatus]
    /\ ChainTypeOK
    /\ HistoryTypeOK

Init ==
    /\ pc = "sleep" /\ cursor = 1 /\ seen = 0 /\ declined = {}
    /\ snapshot = [r \in Requests |-> "absent"]
    /\ enabled \in BOOLEAN       \* CITRATE_RELAY_ENABLED
    /\ epoch = FALSE /\ session = FALSE
    /\ unlocking = FALSE /\ locking = FALSE
    /\ net = BootNet
    /\ queue = [r \in Requests |-> "absent"]
    /\ head = [n \in Nets |-> 1]
    /\ committedAt = [n \in Nets |-> [j \in Jobs |-> 0]]
    /\ verifiedAt = [n \in Nets |-> [j \in Jobs |-> 0]]
    /\ resolved = [n \in Nets |-> {}]
    /\ broadcasts = [r \in Requests |-> 0]
    /\ lost = [r \in Requests |-> 0]
    /\ consent = {} /\ sinceOff = 0 /\ sinceLock = 0 /\ faults = 0

-----------------------------------------------------------------------------
(* The requests.                                                           *)

\* Mutant: the arguments behind a known selector are not decoded.
SoundUndecodedArgs(r) == Ask[r].defects \subseteq {"args"}

\* validate: every check passes, so run_once goes on to the settlement gate.
Sound(r) == Ask[r].defects = {}

\* settlement_check looks at the chain for the job writes only.
NeedsSettlement(r) ==
    Ask[r].intent \in {"startExecution", "submitCommitment",
                       "submitResult", "completeJob"}

\* requires_confirmation: value-bearing writes were already refused.
NeedsConfirmation(r) == Ask[r].intent = "claimRewards"

\* The chain of network n accepts r's transaction in its next block.
Landable(n, r) ==
    LET j == Ask[r].job IN
    /\ Ask[r].intent = "submitResult" =>
            committedAt[n][j] = 0 \/ head[n] > committedAt[n][j]
    /\ Ask[r].intent = "completeJob" =>
            \/ j \in resolved[n]
            \/ /\ verifiedAt[n][j] # 0
               /\ head[n] >= verifiedAt[n][j] + DisputeWindow

-----------------------------------------------------------------------------
(* The relay thread.                                                       *)

Fault == faults < MaxFaults /\ faults' = faults + 1

\* The rest of the tick is abandoned: the thread sleeps for poll_interval.
EndTick ==
    /\ pc' = "sleep"
    /\ UNCHANGED <<cursor, snapshot, seen, declined>>

\* Mutant: the cursor skips a request.
NextRequestSkipping ==
    /\ pc' = "scan"
    /\ cursor' = cursor + 2
    /\ UNCHANGED <<snapshot, seen>>

\* `continue' of run_once: on to the next request of the snapshot.
NextRequest ==
    /\ pc' = "scan"
    /\ cursor' = cursor + 1
    /\ UNCHANGED <<snapshot, seen>>

\* Mutant: run_once goes on to sign the next write of the listing.
StopAfterSigningMissing == NextRequest /\ UNCHANGED declined

\* `break' of run_once: at most one signature per tick, tried or done.
StopAfterSigning == EndTick

GoTo(point) ==
    /\ pc' = point
    /\ UNCHANGED <<cursor, snapshot, seen, declined>>

\* The custody gate of the loop, read once at the start of a tick.
Wake ==
    /\ pc = "sleep"
    /\ enabled /\ epoch
    /\ GoTo("list")
    /\ UNCHANGED <<userVars, queue, chainVars, sendVars, consent, faults>>

\* RelayService::tick re-reads the toggle, then run_once lists the queue.
List ==
    /\ pc = "list"
    /\ \/ /\ ~enabled
          /\ EndTick
          /\ UNCHANGED faults
       \/ /\ enabled
          /\ EndTick /\ Fault
       \/ /\ enabled
          /\ pc' = "scan" /\ cursor' = 1 /\ snapshot' = queue
          /\ UNCHANGED <<seen, declined, faults>>
    /\ UNCHANGED <<userVars, queue, chainVars, sendVars, consent>>

\* Mutant: an already submitted request is taken for a pending one.
ScanIgnoringStatus ==
    /\ pc = "scan"
    /\ \/ /\ cursor > NumRequests
          /\ EndTick
       \/ /\ cursor \in Requests
          /\ snapshot[cursor] = "absent" \/ ~Sound(cursor)
          /\ NextRequest /\ UNCHANGED declined
       \/ /\ cursor \in Requests
          /\ snapshot[cursor] # "absent" /\ Sound(cursor)
          /\ GoTo(IF NeedsSettlement(cursor) THEN "readTier" ELSE "gate")
    /\ UNCHANGED <<userVars, queue, chainVars, sendVars, consent, faults>>

\* One turn of the loop over the listing, up to its first await.
Scan ==
    /\ pc = "scan"
    /\ \/ /\ cursor > NumRequests
          /\ EndTick
       \/ /\ cursor \in Requests
          /\ snapshot[cursor] # "pending" \/ ~Sound(cursor)
          /\ NextRequest /\ UNCHANGED declined
       \/ /\ cursor \in Requests
          /\ snapshot[cursor] = "pending" /\ Sound(cursor)
          /\ GoTo(IF NeedsSettlement(cursor) THEN "readTier" ELSE "gate")
    /\ UNCHANGED <<userVars, queue, chainVars, sendVars, consent, faults>>

\* Mutant: a refused or deferred write ends the tick.
ReadEndingTick(refused, point, value) ==
    \/ /\ refused
       /\ EndTick /\ UNCHANGED faults
    \/ /\ ~refused
       /\ pc' = point /\ seen' = value
       /\ UNCHANGED <<cursor, snapshot, declined, faults>>
    \/ NextRequest /\ Fault /\ UNCHANGED declined

\* A settlement read: refuse or defer the write, or go on to `point' with
\* `value' kept for the next comparison.
Read(refused, point, value) ==
    \/ /\ refused
       /\ NextRequest /\ UNCHANGED <<declined, faults>>
    \/ /\ ~refused
       /\ pc' = point /\ seen' = value
       /\ UNCHANGED <<cursor, snapshot, declined, faults>>
    \/ NextRequest /\ Fault /\ UNCHANGED declined

\* Mutant: completeJob is signed one block before the window closes.
InDisputeWindowOffByOne(height, verified) ==
    height + 1 < verified + DisputeWindow

InDisputeWindow(height, verified) == height < verified + DisputeWindow

AfterTier(r) ==
    IF Ask[r].intent = "submitResult" THEN "readHead"
    ELSE IF Ask[r].intent = "completeJob" THEN "readResolved" ELSE "gate"

\* settlement_check, one disjunct per awaited read, all on the reader's RPC.
SettlementRead ==
    LET j == Ask[cursor].job IN
    /\ \/ /\ pc = "readTier"
          /\ Read(Tier[j] # 0, AfterTier(cursor), 0)
       \/ /\ pc = "readHead"
          /\ Read(FALSE, "readCommitBlock", head[BootNet])
       \/ /\ pc = "readCommitBlock"
          /\ Read(/\ committedAt[BootNet][j] # 0
                  /\ seen <= committedAt[BootNet][j], "gate", 0)
       \/ /\ pc = "readResolved"
          /\ Read(FALSE, IF j \in resolved[BootNet] THEN "gate"
                                                    ELSE "readVerifiedAt", 0)
       \/ /\ pc = "readVerifiedAt"
          /\ Read(verifiedAt[BootNet][j] = 0, "readWindowHead",
                  verifiedAt[BootNet][j])
       \/ /\ pc = "readWindowHead"
          /\ Read(InDisputeWindow(head[BootNet], seen), "gate", 0)
    /\ UNCHANGED <<userVars, queue, chainVars, sendVars, consent>>

\* Mutant: no write needs confirmation.
GateOpen ==
    /\ pc = "gate"
    /\ \/ GoTo("sign")
       \/ NeedsConfirmation(cursor) /\ GoTo("prompt")
    /\ UNCHANGED <<userVars, queue, chainVars, sendVars, consent, faults>>

\* Mutant: a declined write is put to the user again.
GateForgetful ==
    /\ pc = "gate"
    /\ GoTo(IF NeedsConfirmation(cursor) THEN "prompt" ELSE "sign")
    /\ UNCHANGED <<userVars, queue, chainVars, sendVars, consent, faults>>

\* The confirmation gate: unprivileged writes pass, a write declined before
\* is refused again without a prompt, any other is put to the user.
Gate ==
    /\ pc = "gate"
    /\ \/ /\ ~NeedsConfirmation(cursor)
          /\ GoTo("sign")
       \/ /\ NeedsConfirmation(cursor) /\ cursor \in declined
          /\ NextRequest /\ UNCHANGED declined
       \/ /\ NeedsConfirmation(cursor) /\ cursor \notin declined
          /\ GoTo("prompt")
    /\ UNCHANGED <<userVars, queue, chainVars, sendVars, consent, faults>>

\* The user approves the pending prompt.
Approve ==
    /\ pc = "prompt"
    /\ GoTo("sign")
    /\ consent' = consent \cup {cursor}
    /\ UNCHANGED <<userVars, queue, chainVars, sendVars, faults>>

\* The user declines, or the 60 s of the approval store run out.
Decline ==
    /\ pc = "prompt"
    /\ NextRequest
    /\ declined' = declined \cup {cursor}
    /\ UNCHANGED <<userVars, queue, chainVars, sendVars, consent, faults>>

\* Mutant: the session is not checked before the key is used.
FetchKeyUnchecked ==
    /\ pc = "sign"
    /\ GoTo("send")
    /\ UNCHANGED <<userVars, queue, chainVars, sendVars, consent, faults>>

\* send_transaction_with_data up to the clone of the signing key.
FetchKey ==
    /\ pc = "sign"
    /\ \/ session /\ GoTo("send") /\ UNCHANGED consent
       \/ ~session /\ StopAfterSigning /\ consent' = consent \ {cursor}
    /\ UNCHANGED <<userVars, queue, chainVars, sendVars, faults>>

\* The transaction of r reaches the network the wallet points at.
Reaches(r) ==
    /\ broadcasts' = [broadcasts EXCEPT ![r] = @ + 1]
    /\ sinceOff' = IF enabled THEN 0 ELSE sinceOff + 1
    /\ sinceLock' = IF session THEN 0 ELSE sinceLock + 1

\* r's submission is refused, or does not arrive; only the latter counts as a
\* fault, since a refusal can repeat on every tick.
NotTaken(r) == (r \in Rejected /\ UNCHANGED faults) \/ Fault

\* Mutant: a failed submission is reported as observed.
SendReportingFailure ==
    /\ pc = "send"
    /\ consent' = consent \ {cursor}
    /\ \/ Reaches(cursor) /\ UNCHANGED <<lost, faults>>
       \/ NotTaken(cursor) /\ UNCHANGED sendVars
    /\ GoTo("observe")
    /\ UNCHANGED <<userVars, queue, chainVars>>

\* Nonce fetch, signature and submission; every error ends the tick.
Send ==
    /\ pc = "send"
    /\ consent' = consent \ {cursor}
    /\ \/ \* the network accepts and answers
          /\ Reaches(cursor)
          /\ GoTo("observe")
          /\ UNCHANGED <<lost, faults>>
       \/ \* no nonce, or the submission is refused or does not arrive
          /\ NotTaken(cursor)
          /\ StopAfterSigning
          /\ UNCHANGED sendVars
       \/ \* the network accepts but the answer is lost
          /\ Fault
          /\ Reaches(cursor)
          /\ lost' = [lost EXCEPT ![cursor] = @ + 1]
          /\ StopAfterSigning
    /\ UNCHANGED <<userVars, queue, chainVars>>

\* mark_observed: its failure is only logged, and the tick ends either way.
Observe ==
    /\ pc = "observe"
    /\ StopAfterSigning
    /\ \/ \* delivered; a failure of the reply changes nothing more
          /\ queue[cursor] = "pending"
          /\ queue' = [queue EXCEPT ![cursor] = "submitted"]
          /\ UNCHANGED <<lost, faults>>
       \/ \* the agent no longer has the request
          /\ queue[cursor] # "pending"
          /\ lost' = [lost EXCEPT ![cursor] = @ + 1]
          /\ UNCHANGED <<queue, faults>>
       \/ \* the call does not reach the agent
          /\ Fault
          /\ lost' = [lost EXCEPT ![cursor] = @ + 1]
          /\ UNCHANGED queue
    /\ UNCHANGED <<userVars, chainVars, broadcasts, sinceOff, sinceLock, consent>>

RelayStep ==
    \/ Wake \/ List \/ Scan \/ SettlementRead \/ Gate
    \/ FetchKey \/ Send \/ Observe

-----------------------------------------------------------------------------
(* The user.                                                               *)

Toggle ==
    /\ enabled' = ~enabled
    /\ sinceOff' = 0
    /\ UNCHANGED <<relayVars, custodyVars, net, queue, chainVars,
                   broadcasts, lost, sinceLock, consent, faults>>

\* wallet.unlock succeeds; the handler has yet to store the epoch.
Unlock ==
    /\ ~unlocking
    /\ session' = TRUE /\ unlocking' = TRUE
    /\ sinceLock' = 0
    /\ UNCHANGED <<relayVars, enabled, epoch, locking, net, queue, chainVars,
                   broadcasts, lost, sinceOff, consent, faults>>

StoreEpoch ==
    /\ unlocking
    /\ epoch' = TRUE /\ unlocking' = FALSE
    /\ UNCHANGED <<relayVars, enabled, session, locking, net, queue,
                   chainVars, sendVars, consent, faults>>

\* Lock button, sign out, or the session timeout of the background thread.
BeginLock ==
    /\ ~locking
    /\ epoch' = FALSE /\ locking' = TRUE
    /\ UNCHANGED <<relayVars, enabled, session, unlocking, net, queue,
                   chainVars, sendVars, consent, faults>>

FinishLock ==
    /\ locking
    /\ session' = FALSE /\ locking' = FALSE
    /\ UNCHANGED <<relayVars, enabled, epoch, unlocking, net, queue,
                   chainVars, sendVars, consent, faults>>

\* Environment switch: the wallet's RPC moves, the settlement reader's stays.
SwitchNetwork ==
    /\ \E n \in Nets \ {net} : net' = n
    /\ UNCHANGED <<relayVars, enabled, custodyVars, queue, chainVars,
                   sendVars, consent, faults>>

\* The application exits or crashes, and is started again.
Restart ==
    /\ Fault
    /\ pc' = "sleep" /\ cursor' = 1 /\ seen' = 0 /\ declined' = {}
    /\ snapshot' = [r \in Requests |-> "absent"]
    /\ enabled' \in BOOLEAN
    /\ epoch' = FALSE /\ session' = FALSE
    /\ unlocking' = FALSE /\ locking' = FALSE
    /\ net' = BootNet
    /\ lost' = IF pc = "observe" THEN [lost EXCEPT ![cursor] = @ + 1] ELSE lost
    /\ consent' = {} /\ sinceOff' = 0 /\ sinceLock' = 0
    /\ UNCHANGED <<queue, chainVars, broadcasts>>

-----------------------------------------------------------------------------
(* The node-agent and the chains.                                          *)

\* The agent emits the writes of a job in sequence, on chain truth: a reveal
\* is queued only once its commitment is on chain.
Enqueue(r) ==
    /\ queue[r] = "absent"
    /\ Ask[r].intent = "submitResult" => committedAt[BootNet][Ask[r].job] # 0
    /\ queue' = [queue EXCEPT ![r] = "pending"]
    /\ UNCHANGED <<relayVars, userVars, chainVars, sendVars, consent, faults>>

Withdraw(r) ==
    /\ queue[r] = "pending"
    /\ queue' = [queue EXCEPT ![r] = "withdrawn"]
    /\ UNCHANGED <<relayVars, userVars, chainVars, sendVars, consent, faults>>

\* A block, possibly one in which a job is committed, verified or resolved.
NewBlock(n) ==
    /\ head[n] < MaxHead
    /\ head' = [head EXCEPT ![n] = @ + 1]
    /\ \/ UNCHANGED <<committedAt, verifiedAt, resolved>>
       \/ \E j \in Jobs :
            /\ committedAt[n][j] = 0
            /\ committedAt' = [committedAt EXCEPT ![n][j] = head[n] + 1]
            /\ UNCHANGED <<verifiedAt, resolved>>
       \/ \E j \in Jobs :
            /\ committedAt[n][j] # 0 /\ verifiedAt[n][j] = 0
            /\ verifiedAt' = [verifiedAt EXCEPT ![n][j] = head[n] + 1]
            /\ UNCHANGED <<committedAt, resolved>>
       \/ \E j \in Jobs :
            /\ verifiedAt[n][j] # 0 /\ j \notin resolved[n]
            /\ resolved' = [resolved EXCEPT ![n] = @ \cup {j}]
            /\ UNCHANGED <<committedAt, verifiedAt>>
    /\ UNCHANGED <<relayVars, userVars, queue, sendVars, consent, faults>>

UserStep ==
    \/ Toggle \/ Unlock \/ StoreEpoch \/ BeginLock \/ FinishLock
    \/ SwitchNetwork \/ Approve \/ Decline

Next ==
    \/ RelayStep
    \/ UserStep
    \/ Restart
    \/ \E r \in Requests : Enqueue(r) \/ Withdraw(r)
    \/ \E n \in Nets : NewBlock(n)

Spec == Init /\ [][Next]_vars

\* The relay is an OS thread that never exits its loop and whose calls
\* return; an unanswered prompt is denied by the approval store's timeout.
FairSpec == Spec /\ WF_vars(RelayStep) /\ WF_vars(Decline)

-----------------------------------------------------------------------------
(* What the relay promises.                                                *)

\* A transaction is only ever broadcast for a request that passes every check
\* of the validator and, for a job write, whose job has the Commitment tier.
\* The relay is the trust boundary against a faulty node-agent.
OnlyVettedWritesSent ==
    \A r \in Requests : broadcasts[r] > 0 =>
        /\ Ask[r].defects = {}
        /\ NeedsSettlement(r) => Tier[Ask[r].job] = 0

\* The agent hears "observed" only of a write that was broadcast before.
ReportedIsSent ==
    \A r \in Requests : queue[r] = "submitted" => broadcasts[r] > 0

\* A write is broadcast again only if the agent never learnt of the previous
\* broadcasts: each but the last one lost its answer, its report, or the
\* process.  This is all of "at most once" that the code provides.
NoDuplicateWithoutLoss ==
    \A r \in Requests : broadcasts[r] <= lost[r] + 1

\* Every broadcast of a privileged write uses up one approval of its own.
ConsentPerSend ==
    [][\A r \in Requests : NeedsConfirmation(r) /\ broadcasts'[r] # broadcasts[r]
            => r \in consent /\ r \notin consent']_vars

\* A write the user declined or let time out stays unsigned until a restart.
DeclinedStaysRefused ==
    [][\A r \in declined : broadcasts'[r] = broadcasts[r]]_vars

\* A job write is broadcast only when the chain the settlement reader reads
\* accepts it: dispute window over, reveal after the commitment's block.
\* Several awaits separate the reads from one another and from the broadcast.
LandableWhereRead ==
    [][\A r \in Requests : broadcasts'[r] # broadcasts[r]
            => Landable(BootNet, r)]_vars

\* A tick comes to its end whatever the agent, the user, the chains and failed
\* calls do to it: no step but waking takes the thread back to a request, or to
\* a check of a request, that it has passed in this tick.
Path == <<"list", "scan", "readTier", "readHead", "readCommitBlock",
          "readResolved", "readVerifiedAt", "readWindowHead", "gate", "prompt",
          "sign", "send", "observe">>
Before(point, next) ==
    \E j \in 1 .. 13 : Path[j] = next /\ \E i \in 1 .. j - 1 : Path[i] = point
TickEnds ==
    [][pc # "sleep" /\ pc' # "sleep" =>
          \/ pc = "list" /\ pc' = "scan" /\ cursor' = 1
          \/ cursor \in Requests /\ pc' = "scan" /\ cursor' = cursor + 1
          \/ cursor' = cursor /\ Before(pc, pc')]_<<pc, cursor>>

\* Switching the relay off stops it within the one write in flight.
AtMostOneAfterOff == sinceOff <= 1

\* Locking the wallet stops the relay within the one write whose key was
\* already cloned, even if a racing unlock leaves the epoch set.
AtMostOneAfterLock == sinceLock <= 1

\* While the relay stays enabled and unlocked, a sound write of the queue
\* that the chain accepts is eventually reported, withdrawn or declined,
\* unless it, or a write queued before it, is submitted over and over.
\* Refused, deferred and declined writes in front hold nothing up; a write
\* whose submission fails ends the tick, and does.
Undisturbed == enabled /\ epoch /\ session /\ ~locking
Signable(r) ==
    /\ queue[r] = "pending" /\ Sound(r) /\ r \notin declined
    /\ Landable(BootNet, r)
    /\ NeedsSettlement(r) => Tier[Ask[r].job] = 0
SignableIsSettled ==
    <>[]Undisturbed =>
        \A r \in Requests :
            \/ []<>~Signable(r)
            \/ \E q \in 1 .. r : []<>(pc = "send" /\ cursor = q)

\* The relay implements the per-write promise of module RelayPromise.
Phase(r) ==
    IF queue[r] = "submitted" THEN "reported"
    ELSE IF pc = "observe" /\ cursor = r THEN "sent" ELSE "open"

Promise == INSTANCE RelayPromise WITH
    Writes <- Requests,
    Permitted <- {r \in Requests : Ask[r].defects = {}},
    phase <- [r \in Requests |-> Phase(r)],
    sends <- broadcasts

ImplementsPromise == Promise!Spec

(* What the code does not do, although its documents say so.               *)

\* relay_service.rs: "never sign a job write the chain would reject this
\* block".
LandableWhereSent ==
    [][\A r \in Requests : broadcasts'[r] # broadcasts[r]
            => Landable(net, r)]_vars

-----------------------------------------------------------------------------
(* Why the promises hold: facts about the tick in progress that every step *)
(* preserves.                                                              *)

Busy == Reads \cup Cleared \cup {"observe"}

\* The listing is stale, but only the relay itself marks a write submitted.
SnapshotHonest ==
    pc \notin {"sleep", "list"} =>
        \A r \in Requests :
            snapshot[r] = "pending" => queue[r] \in {"pending", "withdrawn"}

\* The write under the cursor passed the checks that lie behind the thread.
CursorVetted ==
    pc \in Busy =>
        /\ snapshot[cursor] = "pending"
        /\ Ask[cursor].defects = {}
        /\ pc # "readTier" /\ NeedsSettlement(cursor) => Tier[Ask[cursor].job] = 0

\* Broadcasts, less the lost ones, are at most the one that was reported or
\* is about to be.
BroadcastsAccounted ==
    \A r \in Requests :
        IF queue[r] = "submitted" \/ (pc = "observe" /\ cursor = r)
        THEN 0 < broadcasts[r] /\ broadcasts[r] <= lost[r] + 1
        ELSE broadcasts[r] <= lost[r]

OffBounded == sinceOff = 0 \/ (sinceOff = 1 /\ ~enabled /\ pc \in {"sleep", "observe"})
LockBounded == sinceLock = 0 \/ (sinceLock = 1 /\ ~session /\ pc # "send")

\* A privileged write past the gate was approved, and never declined.
ConsentHeld ==
    /\ pc = "prompt" => NeedsConfirmation(cursor)
    /\ pc \in {"prompt", "sign", "send"} /\ NeedsConfirmation(cursor)
            => cursor \notin declined
    /\ pc \in {"sign", "send"} /\ NeedsConfirmation(cursor)
            => cursor \in consent
    /\ \A r \in declined : NeedsConfirmation(r)

\* A reveal is only ever queued for a committed job.
RevealsCommitted ==
    \A r \in Requests :
        Ask[r].intent = "submitResult" /\ "absent" # queue[r]
            => committedAt[BootNet][Ask[r].job] # 0

\* A listed request was in the queue.
SnapshotQueued ==
    \A r \in Requests : queue[r] = "absent" => snapshot[r] = "absent"

\* What the reads done so far say about the chain now.
ReadsCurrent ==
    LET j == Ask[cursor].job IN
    /\ pc \in {"readHead", "readCommitBlock"} =>
            Ask[cursor].intent = "submitResult"
    /\ pc \in {"readResolved", "readVerifiedAt", "readWindowHead"} =>
            Ask[cursor].intent = "completeJob"
    /\ pc = "readCommitBlock" => seen <= head[BootNet]
    /\ pc = "readWindowHead" => seen # 0 /\ seen = verifiedAt[BootNet][j]
    /\ pc \in Cleared => Landable(BootNet, cursor)

IInv ==
    /\ TypeOK
    /\ SnapshotHonest
    /\ CursorVetted
    /\ OnlyVettedWritesSent
    /\ BroadcastsAccounted
    /\ OffBounded
    /\ LockBounded
    /\ ConsentHeld
    /\ RevealsCommitted
    /\ SnapshotQueued
    /\ ReadsCurrent
=============================================================================
