# Verification of citrate-native

TLA+ models of the Citrate desktop application, model-checked with TLC and, but for
liveness, proved with TLAPS for every value of the constants. The application is a Rust program: a UI
crate (`src/gui/citrate_native`), a crate of async services
(`src/gui/citrate_desktop_app`) and a widget kit (`src/gui/citrate_ui_kit`). It
holds a user's keys, signs transactions for the user and, unattended, for a
compute node-agent, serves local MCP clients, publishes models and embeds a
blockchain node.

`PROJECT.json` lists components, runs, the source lines of each definition,
hazards, findings and theorems. Paths below are relative to the crates above:
`relay_service.rs`, `wallet_service.rs`, `mcp_host.rs`, `model_service.rs`,
`node_service.rs`, `chat_service.rs`, `citrate_link_service.rs` are in
`citrate_desktop_app/src/services`, `trail.rs` and `event_bus.rs` one directory
up, `main.rs`, `storage_service.rs` and `crash_telemetry.rs` in
`citrate_native/src`.

## 1. Inventory

| Component | State | Operations | Talks to |
|---|---|---|---|
| Signing relay (`relay_service.rs`, its thread in `main.rs`) | the tick in progress, the toggle, the unlock epoch, the set of declined requests | `run_once`: list, validate, check settlement, confirm, sign, report | node-agent (HTTP), chain (RPC reads), wallet service (sign), user (prompt) |
| Wallet custody (`wallet_service.rs`) | decrypted keys, sessions, failure counters, active address, re-authentication clock | unlock, lock, create, import, export, two sends, digest signature | keystore and session manager (crate `citrate_wallet_core`), UI handlers, relay, Citrate Link |
| MCP host (`mcp_host.rs`) | grants (in the agent runtime), `grant_owners`, operator tokens and their vault file | `initialize`, `tools/list`, `session/end`, token creation and revocation, loading | local HTTP clients, agent runtime |
| Model publishing (`model_service.rs`, `app_binder.rs`) | one publish record | hash, pin, submit, poll receipt, read back | RPC, IPFS, wallet |
| Embedded node (`node_service.rs`) | lifecycle lock, running and shutdown flags, storage and peer handles, task handles, cached status, sealed peer identity | start, stop, refresh | storage, network, event bus |
| Event bus and trail (`event_bus.rs`, `trail.rs`) | a broadcast channel of 256 events, recorded events, journal file | publish, subscribe, record, flush | all services, UI |
| File storage index (`storage_service.rs`, `main.rs`) | `files.json` | upload, remove, pin: load, change, save | IPFS daemon |
| Chat and tool loop (`chat_service.rs`, `main.rs`) | message history, system prompt, approvals, the card and its slot | send, inference test, up to five rounds of tool calls, context refresh, approve, reject, emergency stop, the write buttons of the panels | LLM endpoint, tools, user |
| Citrate Link (`citrate_link_service.rs`, `citrate_aa.rs`) | link file | sign in, deploy, sponsored send | authority, wallet, bundler, paymaster, RPC |
| Crash telemetry (`crash_telemetry.rs`) | session marker, breadcrumb, crash records, rotating log | startup scan, set state, panic hook, clean exit, write and rotate | file system, every thread |
| Wallet screens (`main.rs`) | onboarding, lock screen, session clock, exported key, clipboard, send dialog | unlock, lock, sign out, create, import, export, copy, send, close | wallet service, timers, polling thread |
| Application core and settings (`lib.rs`) | configuration, `config.json`, OS keychain | load, migrate secrets, change, save | keychain, UI |
| Panels (`main.rs`, `compute_service.rs`) | block explorer, storage panel and health card, chain panels, compute settings, account figures, model named for the chat, activity signs | one handler per button, each a task and a closure | RPC, IPFS, Ollama, wallet, file system |
| Education services, view models, decoders, codecs | none of their own | calldata and digests, RPC reads, labels | RPC, UI |

What is hard, and what correctness means, per component:

- **Signing relay.** One OS thread awaits a dozen calls per tick while the user
  locks, toggles and switches networks, the agent withdraws requests, blocks
  arrive and calls fail after taking effect. Correct: only vetted writes are
  signed, privileged ones with the user's consent each time, none twice unless a
  report was lost, none the chain would reject, at most one after the user
  switched it off or locked the wallet; and a write the relay would sign is settled,
  unless one queued before it is submitted in vain on every tick.
- **Wallet custody.** Every public operation is an async function over five
  locks, each held for one access; operations overlap at every await. Correct:
  a closed wallet refuses; wrong passwords are bounded by the lockout until the
  process ends; a lock that nothing overlaps is final for sends.
- **MCP host.** Admission counts on a snapshot, and adds later; ownership is
  recorded after the grant exists and pruned against a list read earlier; the
  token file is rewritten in place. Correct: the caps hold as far as calls in
  flight allow, a session opened with a token is ended with that token, a revoked
  token stays revoked.
- **Model publishing.** One record, many tasks; a poll reads a hash, awaits,
  then writes to whatever record is there. Correct: while publications come one at a
  time, one is shown as confirmed on its own receipt only, and as verified on what
  the registry says.
- **Embedded node.** Stop waits five seconds per task and goes on; a status
  refresh reads across awaits. Correct: no two nodes on one storage, no
  "running" status after a stop, and a sealed peer identity is never replaced (one
  that is still being sealed can be lost).
- **Event bus and trail.** The recorder exists only where a runtime does when the
  core is built, subscribes when it is first polled and leaves its loop on the first
  receive error; lagging is one. Correct: what the trail has is one unbroken stretch.
- **Storage index.** An upload holds the index from its load to its save, and
  removals, any number of them, come in between; an index that cannot be read counts
  as empty; the index is the only copy of a private file's key. Correct: a file kept
  by the user stays listed, pinned and readable, with the exceptions of section 6;
  what was to be private is sealed.
- **Chat and tool loop.** Two fair locks taken in opposite orders, approvals
  answered from three places, a card that is drawn later than its request.
  Correct: an act has an approval of its own, the card's buttons answer requests of
  the chat only, and turns do not wait for each other for good.
- **Citrate Link.** A sign-in, a check of the chain and a deployment, against
  the same done from the web. Correct: who may send is the wallet's root.
- **Crash telemetry, settings.** Files written in place, by processes that may
  end at any step. Correct: a death is reported by the next launch, the newest
  log lines are kept while the log can be opened, no setting or secret is lost while
  saves succeed and none is cut short.
- **Windows and panels.** A button's handler runs on the UI thread and spawns a
  task, the task posts a closure, and the UI thread shows it whatever happened
  since. Correct: once nothing is under way, and if operations did not cross, the
  window shows what is so and a closed wallet is not behind an open main view; secrets
  are wiped.

## 2. Modules and plan

In the order they were written, the most consequential first:

1. `SigningRelay` with `RelayPromise`, its abstract specification,
   `MCSigningRelay` and `SigningRelayProofs`. First, because it signs without a
   human watching.
2. `WalletCustody`, `MCWalletCustody`, `WalletCustodyProofs`.
3. `McpHost`, `MCMcpHost`, `McpHostProofs`.
4. `NodeLifecycle`, its abstract specification `NodePromise`, and `NodeStorage`:
   the embedded node and its directory.
5. The services: `ApprovalDesk` with its abstract specification `ConsentPromise`,
   `ChatTurns`, `ModelPublish`, `FileIndex`,
   `CitrateLink`, `EventTrail`.
6. What the process leaves on disk: `CrashTelemetry`, `FileLog`, `Settings`.
7. The windows: `WalletScreen`, `SendDialog`, `DagExplorer`, `DaemonPanel`,
   `ChainPanel`, `ModelPanel`, `ComputeSettings`, `Dashboard`, `BusySigns`.

`MCDesktopWindows` and `MCDesktopServices` compose small instances of 4 to 7,
and of the token vault of `McpHost`, for one run of TLC. The proofs about them are
in `NodeLifecycleProofs`, `DesktopRecordsProofs` (`FileIndex`, `ModelPublish`,
`ApprovalDesk`), `DesktopWindowsProofs` (`WalletScreen`, `SendDialog`,
`CrashTelemetry`, `FileLog`, `Settings`), `DesktopPanelsProofs` (the other windows,
the vault) and `DesktopServicesProofs` (`NodeStorage`, `ChatTurns`, `EventTrail`,
`CitrateLink`, and the types of all).

`SigningRelay` has the wallet as the relay sees it (epoch, session, key fetch), and
`WalletScreen` as the window sees it, open or closed. Both stand for the service
that `WalletCustody` has in full: what the relay calls `session` is
`active # None /\ active \in sessions` there, and `FetchKey` followed by `Send` is the
path of a send with an empty password. That the views agree is by inspection; what the
relay's relies on most is a theorem about the service: a send begun on a closed wallet is
refused whatever was in flight at the lock, an unlock or a creation excepted
(`LateSendsRefused`).

What is left: a composed module that states the wallet views as a refinement; the
nonces of two paths that send at the same time, and a status refresh that crosses a
stop, which the models leave out.

## 3. The models

### SigningRelay

`pc` is the await at which the thread stands, `cursor` the request of the
listing it works on, `snapshot` the listing. The steps of the thread are `Wake`
(the custody gate of the loop in `main.rs`), `List` (toggle and queue),
`Scan` (the validator), `SettlementRead` (one disjunct per RPC read of
`settlement_check`), `Gate`, `Approve`/`Decline` (the approval prompt and its
timeout), `FetchKey`, `Send`, `Observe` (`mark_observed`). `continue` in
`run_once` is `NextRequest`, `break` is `StopAfterSigning`, after a submission that
failed as after one that did not. `Rejected` are the requests whose transaction the
network may refuse on every tick; a refusal of those is not counted as a fault.

Around it run the user (`Toggle`, `Unlock`/`StoreEpoch`, `BeginLock`/`FinishLock`
in the order of the two handlers, `SwitchNetwork`), the agent (`Enqueue`,
`Withdraw`), the chains (`NewBlock`), `Restart`, and faults inside the steps: a
call that fails before or after it took effect.

External, modelled from how the code uses them: the agent's queue (a request it
reported as observed is submitted), the marketplace contract (`Landable`: when
it accepts a reveal or a completion) and that a reveal is queued only after its
commitment is on chain. Of the validator's six checks only the outcome is
modelled, a request carries the set of checks it fails.

History variables (`broadcasts`, `lost`, `consent`, `sinceOff`, `sinceLock`)
count what the properties speak of; no guard reads them except `MaxFaults`.

### RelayPromise

What the relay promises about one write: it is open, sent, reported; a report can
be lost, and then it is open again. `SigningRelay` implements it with `Phase` and
`broadcasts` (`ImplementsPromise`, checked and proved).

### WalletCustody

A task is one call of the service, `task[t].at` the lock or external call it is
about to make. `unlock` is `BeginUnlock`, `CheckLockout`, `Keystore`,
`SetActive`, `SetClock`, `RecordSuccess` or `RecordFailure`; `lock` is `DropKeys`, `EndSessions`, `ClearActive`, `ClearClock`;
a send is `ReadActive`, `ReadSession`, `Verify`, `Refresh`, `EnforceReauth`,
`VerifyAgain`, `Sign`. Sessions expire, lockouts end, the clock goes stale, the
application restarts. Passwords are right, wrong or empty (a send that relies on
the session). The counters have a file only after `enable_lockout_persistence`,
which the application never calls: `persist_lockout_state` returns at its first line,
it is left out of the model, and a restart clears the counters.

### McpHost

`call[c].at` is the await of one JSON-RPC request. `initialize` is `BeginInit`,
`Lookup`, `SnapshotGrants`, `Count` (owners read after the snapshot), `AddGrant`,
`SnapshotLive`, `InsertOwner` (retain and insert); `session/end` is `BeginEnd`,
`CheckOwner`, `Revoke`, `Forget`. The operator creates and revokes tokens, each
followed by the save the code makes under the same lock; a save may leave the
new file, the old one or one that cannot be read. `Restart` loads with the
keyring (`LoadSealing`, which migrates a legacy file) or without
(`LoadPlain`). The application builds the host with `new`, so `Storage` is
`FALSE` for it; `TRUE` is the service built by `with_token_storage`. Policies are
ranks, a token has a ceiling. `tools/list` changes nothing and is left out.

History: `answered` (grants the client knows of), `raced` (grants added while
another `initialize` held its list of live grants), `issued`, `unsaved`.

### The embedded node

`NodeLifecycle`: tasks that start, stop, restart, switch the environment or reset
the node, over the lifecycle mutex, the configuration lock, the
flags and handles of the backend, and the workers of each run. A worker leaves
after the shutdown flag, or is let go of after five seconds (`gaveUp`).
`lifecycle` is the mutex; `task[t].at` the await. `refresh_status` is left out:
nothing that acts reads what it writes. The configuration lock is tokio's: a start
holds a read guard to its end (`Reading`), a switch waits for those and stands before
the readers that come after it (`WaitsFor`: a start, the reset that reads the data
directory, `ReadDataDir`, and the switch's own last read).

`NodePromise` tells the same of runs, without tasks, locks or workers: a run is opened
under the configured network, aborted or served while that network is still the
configured one, stopped and released, and there is at most one at a time.
`NodeLifecycle` implements it with `Phase`: a run is with the start that opened it,
then with the node, then with nobody (`ServesInTurn`).

`NodeStorage`: the database opened under a key of the keyring or in plaintext,
the wipe on a mismatch, and the peer identity sealed under the same key, each
file operation a step, with failures and crashes between any two: a legacy key that
was shredded and whose sealed form could not be written is gone (`FailStart`).

### The services

- `ApprovalDesk`: the store of pending approvals, filled by the chat's tool loop
  and by the write buttons of the learning and compute panels, answered from the
  card, the Operations panel, the emergency stop and the time limit. The card is
  drawn from a queue of closures and finds its request through a shared slot, which
  may have moved on to a request that the card does not show yet.
  `ConsentPromise` is what all of them promise together about a request: asked,
  answered once, and carried out at most once and only after a user's yes.
  `ApprovalDesk` implements it with `Stage` and `Consents`, read off the store and the
  history of answers (`ConsentFollowed` in `MCDesktopServices`).
- `ChatTurns`: the two tokio locks of `ChatService` as fair queues, turns, the
  inference test, context writers, and the chain of backends a prompt may go to: the
  node's own URL is in it if it contains a name of this machine (`is_loopback_rpc`).
- `ModelPublish`: the Deploy button's task from hash to verification over the one
  record that all publications share.
- `FileIndex`: an upload (its button is off while one runs) and several removals
  over `files.json`, the pins and the envelope key. A load may find nothing
  (`Loaded`), a save may rename what another one has written or is still writing
  (`Written`, `Torn`), and a keyring entry that cannot be read is replaced.
- `CitrateLink`: sign-in, prediction, deployment here or from the web, the link
  file, sponsored sends, environment switches, crashes. The check of the chain id is
  not a guard: the wallet's is 40204 in every environment, so it always passes.
- `EventTrail`: the bounded broadcast channel, and the recorder, which is absent (in
  the application, whose `main` builds the core outside a runtime) or spawned, then
  subscribes, and leaves at the first error.

### On disk

- `CrashTelemetry`: marker, breadcrumbs, panic hook and startup scan over several
  launches; a kill may come between truncating a file and writing it.
- `FileLog`: append, remove, rename, reopen, each of which may fail.
- `Settings`: `config.json`, the keychain, the migration of secrets at launch,
  and one task per changed setting.

### The windows

Each has `task` or `call`, what runs; `posted`, the closures waiting for the UI
thread, in order; and what the window shows. `crossed` is a history variable that
says that two operations overlapped, or one and a change from outside: most
panels make no promise then, and the property says so. These flags, and their like
(`early`, `lost`, `torn`, `beside`, `twice`), make the properties of the windows weak
wherever the user overlaps two operations. What happens in the cases
they excuse is in section 6, where a text of the repository promises more.

- `WalletScreen`: every way into and out of the wallet's views, the session clock
  and its ticker, the exported key, the recovery phrase on the clipboard and their
  timers.
- `SendDialog`: transfers, sponsored ones, receipts, and a dialog that may be
  closed before they end.
- `DagExplorer`, `DaemonPanel`, `ChainPanel`: a view each of the blocks, of the
  IPFS daemon and of the contract state, which others change as well.
- `ModelPanel`: the bundled model's copy, detection, and which model the panel
  names and the chat uses.
- `ComputeSettings`: `compute.json` and the task that hydrates the panel.
- `Dashboard`: the polling thread behind the balances and the earned figure.
- `BusySigns`: the loader shared by the bootstrap and the chat, and the flags of
  chat, link, pin and faucet.

## 4. Runs

| Run | Instance | Shows |
|---|---|---|
| `relay_writes` | three requests (malformed, unprovable tier, privileged), two networks, one fault | what may be sent, consent per broadcast, no repetition without a loss, one broadcast after a lock, declined writes stay refused, the refinement |
| `relay_progress` | three requests (unprovable tier, one the network refuses on every tick, privileged), one fault, fairness | a signable write is settled, or it or one before it is submitted over and over |
| `relay_settlement` | a completion and a reveal, five blocks, dispute window of two, one fault | nothing is broadcast that the chain read would reject; at most one after switching off |
| `relay_other_network` | one completion, two networks, no fault | violated: after an environment switch the chain checked is not the chain written to |
| `wallet_custody` | two tasks, one address, lockout after two, one restart | late sends refused, guesses bounded |
| `wallet_keys_after_lock` | the same | violated: keys in memory behind a closed wallet |
| `mcp_sessions` | two calls, one token, four grant ids, total cap two, tokenless cap one, one restart | the caps with calls in flight, session ownership |
| `mcp_owner_binding` | two calls, two ids | violated: an overlapping `initialize` drops another session's owner |
| `desktop_services` | two node tasks and three operations; two publications, two files, one removal at a time and two envelope keys, two accounts, two chat turns and two context writers; one instance of each service and window, one after the other | everything stated of modules 4 to 7, that the node implements `NodePromise` and the approvals `ConsentPromise`, and that revocations are durable over restarts of the token vault |
| `node_storage_released` | two tasks, two operations | violated: "storage released" is logged while a leftover task holds it |
| `chat_contention` | two turns, one context writer | violated: turns and writers wait for each other for good |
| `card_exact_request` | one click, two requests | violated: an approval of a request the card did not show |

The instances of `desktop_services` share no state, so a behaviour is one of one
of them, chosen by `focus` in the initial state; the variables of the windows
share the slots `v1` to `v18`, and what a window does not use is `Off`. That
makes one run of what would be twenty-one, without their product. Its properties
are those of the modules under a guard on `focus`: `ForensicsKept` is
`DeathsReported` and `NewestKept`, and `ViewsSettle` the conjunction of what the
panels promise (`RowsOfDetail`, `DaemonShown`, `ChainShown`, `ModelShown`,
`OptInKept`, `EarnedCameIn`, `SignsTrue`).

Bounds. Two concurrent operations suffice for a race between a step and the
pair of steps around it, and every property's slack grows by one per call, which
two distinguish from none; the proofs cover any number. In `mcp_sessions` four
ids let a run without the cap exceed it by two (the bound allows one), and after
the restart, which leaves what an empty host starts with, no more sessions than
the cap are followed (`SessionsAfterRestart`). `MaxHead`
is the first height at which a commitment, a verification and the dispute window
can all be over. `MaxFaults` of one is a fault at any point, restarts included,
and two only repeat it. Two restarts of the vault cover a load without the
keyring followed by one with it. Three node operations are a start, a stop or
failed start, and a start over what they left. Two launches or three
(`MaxLaunches`, `MaxStarts`) let one write a file, one be cut short and one read
it. Three button presses (`MaxLooks`, `MaxActs`, `MaxPresses`) are an operation,
one that overlaps it and one after both. A file of two lines and five lines in
all rotate the log twice. A channel of two events and four published let the
recorder lag. An upload and a removal are two savers of one temporary file and of each other's
older copies, which more removals only repeat (the proof is for any number), and a
second envelope key is one that replaces the first. One
refused write before another one (`Rejected`) is what holds a queue up; two only
repeat it. TLC explores `mcp_sessions` modulo permutations of calls and grant
ids, and the node modulo those of its tasks; neither has a liveness property, and
no property names one. Two relay networks are the one the reader was built on and
another.

Fairness. The relay has the one liveness property that holds, `SignableIsSettled` in
`relay_progress`, under `FairSpec`: weak fairness of the relay's own steps, because it is a dedicated OS
thread whose loop has no exit, and of `Decline`, because the approval store
denies a prompt after 60 s. This assumes that calls return. The HTTP client of
the relay sets no timeout, so an agent that accepts a connection and never
answers is outside the property; the hazard list says so. Nothing is assumed of
the user, the agent, the chains or faults. The property ends in a disjunction because
`run_once` breaks after a submission that failed: a write the network refuses on
every tick keeps those behind it waiting (section 6). `TickEnds` (section 5) is the
half of it that needs no fairness.

That node operations do not wait for each other for good is stated without fairness
too, in two invariants. `WaitsEnd` follows who waits for whom over the mutex and the
configuration lock: at most three waits on there is an operation that waits for
nobody. The longest chain is a start that stands behind a switch in the queue for the
configuration, the switch behind a start that holds it, and that start behind the
holder of the mutex; two tasks show a chain of one, longer ones are the proof's part.
`NoneStuck` says that the waits named are all there are: who
waits for nobody can take a step, and as long as an operation is under way one can.

Deadlock is checked in the runs of the relay, the wallet and the MCP host: none
of their states is without a successor. `desktop_services` and the runs of single
modules from it stop where a bound on operations, launches or presses is reached,
and there deadlock is not checked; `NoneStuck` is what stands for it in the node.

## 5. Proofs

All theorems hold for every value of the constants that satisfies the named
assumptions: `SizeAssumption`, `DataAssumption` (relay), `CustodyAssumption`,
`HostAssumption`, `NodeAssumption`, `WindowsAssumption`, `FilesAssumption` and the one
per service in `MCDesktopServices`. They ask for finite sets of tasks, calls and
grants where something is counted, natural bounds, sets that are not empty where the
code picks a member, and null values that are none of the values they stand
beside; TLC evaluates each in the run of its module. Every module has an inductive
invariant `IInv`, after a rule that says which property it is for, and the safety
theorems follow from it. The `IInv`s were model-checked before they were proved;
since the proof covers every instance, no run repeats them. In the proofs of the
instances of `MCDesktopServices` the induction is over `ServicesSpec`, one guarded
`IInv` per instance: a step is one of the instance in focus, or leaves its
variables alone.

**SigningRelayProofs.** `IInv` says what the tick knows at each await. The
listing is stale, but only the relay marks a write submitted, so a listed pending
write is pending or withdrawn (`SnapshotHonest`); the write under the cursor
passed the checks behind it (`CursorVetted`); broadcasts less lost reports are at
most the one reported or about to be (`BroadcastsAccounted`); what the reads said
of the chain stays true as blocks arrive, since heads grow and a resolved job stays
resolved (`ReadsCurrent`). Theorems: `TypeCorrect`, `Invariance`,
`OnlyVettedSafety`, `ReportingSafety`, `DuplicateSafety`, `SwitchedOffSafety`,
`LockedSafety`, `LandableSafety`, `ConsentSafety`, `DeclinedSafety`, `Refinement`.
`TickSafety` is the variant that liveness rests on (`TickEnds`): a step goes on along
`Path`, to the next request, or to sleep, so a tick is one pass over its listing.

**WalletCustodyProofs.** `LateSendsRefused` needs `ClosedIsShut`: while closed,
no address is active and no operation that sets one is in flight.
`GuessesBounded` needs two counts: refused passwords are at most the counter plus
refusals not yet counted, and together with the operations past the lockout
check at most `MaxFailed - 1` plus the number of tasks (`GuessesCounted`). The
proof carries cardinalities through every step by the membership of the one task
that moves.

**McpHostProofs.** `TotalBounded` counts grants and calls that a snapshot lets
add one (`TotalCounted`). Ownership is a chain: a call about to answer is alone
with its grant (`CallsFit`), the list a call is about to prune by has every grant
not raced (`LiveSetsCover`), hence an answered, unraced session has its owner on
record until it is ended (`OwnersKept`), hence who gets past the check
presented the token (`RevokersVetted`). `RevocationSafety` rests on the file never
giving a revoked token back as active (`VaultCurrent`) and on no token being
created twice (`OnlyIssued`). `TokenlessBounded` counts, for every set of sessions
on record, the calls whose snapshot and list would let one more pass
(`TokenlessCounted`): for every set, because any of the others may end before a
call looks.

**NodeLifecycleProofs.** Who has the lifecycle mutex tells what the node holds:
what a start has built so far, what a stop has taken down, one run's storage and
peer manager or neither otherwise (`MutexHeld`, `NodeByLock`), which gives
`RunningIsServed`. A worker alive is tracked, about to be awaited by the stop of
its run, or given up (`WorkersAwaited`): `NoOrphans`. `SettledAgree` is about
operations that come one at a time; `AloneAgrees` says how far the one under way
has brought status, network, wallet and node together. `WaitingSafety`: the holder of
the mutex never waits for the configuration, since a start has it already and a stop
lets go of the mutex first (`MutexComesFree`, `ConfigComesFree`). `TurnRefinement`
maps each handler to a step of `NodePromise` or a stutter; it needs that a start still
has the configuration it opened its storage under (`OpenedAsConfigured`: it has not let
go of its read guard, so no switch came in between) and that only the holder of the
mutex builds, with an empty node beside it (`NodeByLock`).

**DesktopServicesProofs.** `NodeStorage`: a start that is about to listen carries
the identity of the sealed file beside it, and one that writes finds none (`Carried`);
`SealedIdentityKept` and `SealedDataKept` are action properties from it. `ChatTurns`:
an endpoint tried is one of the chain (`WithinChain`), for the types. `EventTrail`: the
recorder is past what the trail holds and not past the next event (`Behind`), from
wherever it subscribed. `CitrateLink`: a validator on chain was broadcast, and
what may send is a link whose deployment went out (`RootsDeployed`, `MaySend`).
`ServicesTyped` takes the type of every variable from all the invariants.

**DesktopRecordsProofs.** `FileIndex`: a task holds a copy that will replace the
index, so the copies must have what the index must not lose (`CopiesKeep`), and what is
being removed is not one to keep (`Apart`). `PrivacySafety`: an upload begun as a
private one wraps under the keyring's key (`WrapsUnder`).
`ModelPublish`: a transaction is sent once, by a publication that keeps its model;
without a crossing the one record is of the one publication under way.
`ApprovalDesk`: an open request is not decided and an approved one was answered by a
user (`DecidedOnce`); who waits has not acted (`NotYetActed`); of all that the card,
the slot, the queue of closures and the handlers still know, only the turn's request
may be open, and none is a write's (`OnlyTurns`), hence `CardLeavesWrites`. `ConsentRefinement` uses the same invariant: a new number has
never been asked (`Numbered`), so submitting is `Ask`; the first answer is `Approve` or
`Refuse`, a later one a stutter; a tool that runs or a write that is broadcast is `Act`,
by `NotYetActed`.

**DesktopWindowsProofs.** `WalletScreen`: who will start the clock of an open
session, or has stopped it (`Accounted`), for operations and ticks that interleave
freely but for an open and a close at once. `SendDialog`: the one transfer out is
the one confirmed last, closures come in the order of its fate (`InOrder`), and the
nonces used plus the transfers that have yet to take one are at most the
confirmations (`Counted`). `CrashTelemetry`: a death not reported yet has its marker
still. `FileLog`: the open file holds exactly the newest lines, as many as `len`
says, and is moved aside only when full. `Settings`: a marker is backed by the
keychain at every step of a save, and only one task writes.

**DesktopPanelsProofs.** A panel's `InTurn` says of the one operation under way and
of its closures what they will show, which is so or will be when they run; from it
`ViewsSettle`. The vault of `McpHost` is an instance, and its theorem an
instance of `McpHostProofs`' lemmas (`VaultHosted` gives their assumption).

Only model-checked: `SignableIsSettled` (liveness is outside the prover; its
safety half `TickEnds` is proved), `NoneStuck` (it speaks of `ENABLED`, also outside
it; that the waits it leaves have an end, `WaitsEnd`, is proved) and
`ConversationFlows` (that no set of turns and writers waits within itself, over the
order of two queues). Every other property of a
passing run is a theorem. `ReportedIsSent` and `ConsentPerAct` are theorems that no run
repeats, since the refinements that are checked (`ImplementsPromise`,
`ConsentFollowed`) say more; `TickEnds` is not in a run either. Nothing is proved about data computed by recursion; no
module here defines such data. The runs that expect a violation refute what they
state, so there is nothing to prove.

## 6. Where the code and its own texts disagree

Shown by a run that expects a violation:

- `main.rs:3523`: the settlement reader keeps the RPC URL of the start, the
  wallet follows the environment (`relay_other_network`). What holds is
  `LandableWhereRead`.
- `wallet_service.rs:337`: checking a password unlocks the keystore, so a send
  that overlaps a lock leaves the keys in memory (`wallet_keys_after_lock`). What
  holds is `LateSendsRefused`: the session check still refuses.
- `mcp_host.rs:977`: owners are pruned by a list read an await earlier
  (`mcp_owner_binding`). What holds is `SessionsEndByOwner`.
- `node_service.rs:656`: a start whose listener fails leaves the advertised-head
  task behind, with the storage; the next stop logs "storage released"
  (`node_storage_released`). What holds is `NoOrphans`.
- `chat_service.rs:860`: a turn keeps `system_prompt` across its completion and
  then asks for `messages`, another turn takes them the other way round, and a
  context writer in between closes the circle (`chat_contention`). Without an
  inference test there is no such circle (`ConversationFlows`).
- `main.rs:7785`: the card's buttons answer what the slot names when their task reads
  it. If the request shown lapses and the slot moves on before the card is drawn
  again, an approval runs a call the user has not seen; comments promise "the exact
  request" (`card_exact_request`). What holds is `CardLeavesWrites`, and that each act
  has an approval of its own (`ConsentFollowed`).

Found while modelling, without a run of their own. The models have each of these
behaviours, and the property named is what holds beside it:

- `relay_service.rs:931`: a failed report is logged and the request signed again on
  the next tick; `.agentile/plansets/2026-06-06-signing-relay.md:67` says
  "At-most-once". What holds is `NoDuplicateWithoutLoss`.
- `relay_service.rs:942`: a failed submission ends the tick, so a write the network
  refuses every time keeps all behind it from being signed; the comment at 872 says
  that one write per tick "still converges". What holds is `SignableIsSettled`.
- `wallet_service.rs:685`: the lockout counters go to a file only after
  `enable_lockout_persistence`, which nothing in the application calls, so a restart
  clears them; `main.rs:4706` says that the lockout is "persisted across restarts".
  What holds is `GuessesBounded`, between two resets. `lock-locked-out` disables the
  unlock button until the process ends, although the lockout itself expires.
- `node_service.rs:250`: a legacy identity is shredded before its sealed form is
  written; a failing write, or a crash, loses it, although a comment at 244 says that
  it is preserved. What holds is `SealedIdentityKept`.
- `lib.rs:653`: the trail's recorder is spawned only where a runtime is current. The
  application builds its core at `main.rs:1817`, outside one, so nothing is recorded
  there; elsewhere the recorder subscribes at its first poll and ends at the first lag.
  `trail.rs:173` says that chat messages flow through the trail. What holds is
  `Unbroken`.
- `storage_service.rs:162`: an index that cannot be read or parsed loads as an empty
  one, which the next save writes over the file; and a removal saves its older copy
  over an upload's (`main.rs:8110`). What holds is `FilesKept`, for the files that none
  of this put at risk.
- `storage_service.rs:350`: a keyring entry that cannot be read counts as none, and a
  second envelope key takes the place of the one that private files are wrapped under.
  What holds is `PrivateUploadsSealed`.
- `model_service.rs:417`: a receipt that was awaited while another publication began
  confirms that one's record. What holds is `Evidence`, for publications one at a time.
- `main.rs:3095`: closing the send dialog clears `sending`, so a dialog opened again
  has a live button while a transfer is pending (`main.rs:3017` says that it is
  disabled), and a second transfer may use the nonce of the first. What holds is
  `OneSend`.
- `crash_telemetry.rs:584`: a rotation that cannot open the new file goes on in the one
  it renamed, and the next rotation removes that; a comment at 604 says that a failed
  rotation does not kill logging. What holds is `NewestKept`, while the file can be
  opened.
- `main.rs:5968`: a block's rows are put in the list without asking whether the block
  is still open, and show with the next detail (`main.rs:6082` clears the list so that
  they do not). What holds is `RowsOfDetail`.
- `main.rs:3825`: the polling thread ends the session by an epoch it read before an
  unlock stored a new one, and the unlock's closure then takes the lock screen away;
  the comment at 3834 is about the same picture. What holds is `ClosedIsShown`.
- `main.rs:3751`: a Slint weak handle does not upgrade off the UI thread, so the
  polling thread reads the first account and overwrites the selected one's balance,
  which the comment at 3749 says it does not. What holds is `EarnedCameIn`.
- Chat: whether the node is on this machine is decided by looking for `127.0.0.1` or
  `localhost` anywhere in its URL (`chat_service.rs:86`).
- Citrate Link: `send_sponsored` compares the wallet's chain id with the one it
  supports (`citrate_link_service.rs:402`), but `chain_id_for_network` gives that one,
  40204, for every network (`lib.rs:291`), so the check never refuses. The tier in the
  link file is the one of the sign-in; its expiry is not looked at again.
- MCP: the tokenless cap is checked on a snapshot (`mcp_host.rs:914`), so
  overlapping calls exceed it by the calls in flight, and by no more
  (`TokenlessBounded`).
- Sign-out: onboarding opens at the step it was left at, and at the last step
  Complete leads to the main view of a locked wallet. By the same way back a
  bootstrap and a thinking chat can share the loader, which the comments at
  `main.rs:25` and `app.slint:228` rule out.
- Wallet: creating an account from the main view opens the wallet but does not
  start the session clock (`main.rs:4563`). Locking leaves an exported key on the
  screen until its timer. A factory reset removes the node's directory, not the
  wallet. Selecting an account shows the balance of the account record, which
  nothing updates.
- Polling thread: everything behind `upgrade()` in it (`main.rs:4041` to `4549`)
  never runs, and no transaction has the type "reward", so no reward is announced.
- Settings: two clicks on the theme are two tasks and may be saved in the other
  order. `config.json` is truncated and then written, and a file that does not
  parse counts as none: an end in the middle of a save loses what was in it, which
  `SettingsKept` excuses. The trail's journal path is passed at construction only, so a saved path
  is not "read on its next journal write".
- Models: Download and Load name a model without telling the chat; an interrupted
  copy counts as seeded; the model count has two meanings (`main.rs:3431`,
  `6150`); pinning looks for models in a directory they are not kept in.
- Chain panels: any HTTP answer to pause and resume counts as success. The
  bootnode probe is given an address with a peer name in front and reports "down"
  by default.

## 7. Not modelled, and why

Components left out: the education services (`edu/`), which build calldata and
digests over one RPC read each and keep no state; the CMO portal and the
education buttons, which show fixed data or only log.

Parts left out of the modelled components: the frames of the loader's animation;
view models and the calldata decoder for display (derivations without state); the
redaction of logs; the projection of the trail to a Logseq page; `refresh_status`;
the RPC reads of the block, compute and learning services and of the marketplace
client; `AppCore::start` and `stop` and `clear_history`, which no code calls;
encodings (ABI, base64url, JWT, EIP-712 bytes); calldata decoding in the relay
(the outcome of each check is kept); balances and nonces outside the dialog; the
account list; external message signing; the HTTP listener and header checks of
the MCP host, and `tools/list`, which changes nothing.

Cryptography, the keystore, RocksDB, the network stack, the approval store and
the agent runtime are crates outside the repository and appear as the calls the
code makes to them.
