------------------------------ MODULE NodeStorage ------------------------------
(***************************************************************************)
(* What a start of the embedded node does to its data directory: the chain *)
(* database opened under a key of the OS keyring or in plaintext, the wipe *)
(* on a mismatch, and the peer identity in noise.key, sealed under the     *)
(* same key.  Starts take turns (the lifecycle mutex of NodeLifecycle).    *)
(* RocksDB, the keyring and the file system are external.                  *)
(***************************************************************************)
EXTENDS Naturals, FiniteSets

CONSTANTS
    Dirs,        \* data directories, one per network
    MaxStarts,   \* bound: starts
    MaxLaunches  \* bound: times the process dies or is quit, and is launched

VARIABLES
    start,     \* the start under way: where it is, its directory and identity
    encrypt,   \* AppConfig.encryption_at_rest
    keyring,   \* the storage master key; 0: no entry
    disk,      \* disk[d]: the chain database
    noise,     \* noise[d]: the noise.key file
    held,      \* directories this process has open
    starts, launches,
    \* history
    identities \* identities[d]: those presented since d was last wiped

vars == <<start, encrypt, keyring, disk, noise, held, starts, launches,
          identities>>

Keys == 0 .. MaxLaunches + 1
Junk == MaxStarts + 1   \* what a torn key file holds
Ids == 0 .. Junk        \* 0: the identity of an install of an earlier version

NoStart == [at |-> "idle", dir |-> CHOOSE d \in Dirs : TRUE, id |-> 0]
NoDb == [form |-> "none", key |-> 0]
NoFile == [form |-> "none", key |-> 0, id |-> 0]
Torn == [form |-> "plain", key |-> 0, id |-> Junk]

TypeOK ==
    /\ start \in [at : {"idle", "open", "noise", "shred", "write", "listen"},
                  dir : Dirs, id : Ids]
    /\ encrypt \in BOOLEAN /\ keyring \in Keys /\ held \subseteq Dirs
    /\ disk \in [Dirs -> [form : {"none", "plain", "sealed"}, key : Keys]]
    /\ noise \in [Dirs ->
         [form : {"none", "plain", "sealed"}, key : Keys, id : Ids]]
    /\ starts \in 0 .. MaxStarts /\ launches \in 0 .. MaxLaunches
    /\ identities \in [Dirs -> SUBSET Ids]

\* A first launch, an install from before encryption, or one that sealed.
Init ==
    /\ start = NoStart /\ encrypt \in BOOLEAN /\ held = {}
    /\ starts = 0 /\ launches = 0
    /\ \E form \in {"none", "plain", "sealed"}, d \in Dirs :
         LET key == IF form = "sealed" THEN 1 ELSE 0 IN
         /\ keyring = key
         /\ disk = [e \in Dirs |->
              IF e = d THEN [form |-> form, key |-> key] ELSE NoDb]
         /\ noise = [e \in Dirs |->
              IF e = d /\ form # "none"
              THEN [form |-> form, key |-> key, id |-> 0] ELSE NoFile]
         /\ identities = [e \in Dirs |->
              IF e = d /\ form # "none" THEN {0} ELSE {}]

At(point) == start.at = point
GoTo(point) == start' = [start EXCEPT !.at = point]

BeginStart(d) ==
    /\ At("idle") /\ starts < MaxStarts
    /\ start' = [NoStart EXCEPT !.at = "open", !.dir = d]
    /\ starts' = starts + 1
    /\ UNCHANGED <<encrypt, keyring, disk, noise, held, launches, identities>>

\* Any error returns: an unreadable keyring, a full disk, a busy port.  The
\* advertised-head task, spawned before the listener, keeps the storage open.
\* A sealed key that cannot be written leaves no file, or a torn one.
FailStart ==
    /\ start.at \in {"open", "noise", "write", "listen"}
    /\ held' = IF At("listen") THEN held \cup {start.dir} ELSE held
    /\ \/ UNCHANGED noise
       \/ At("write") /\ noise' = [noise EXCEPT ![start.dir] = Torn]
    /\ start' = NoStart
    /\ UNCHANGED <<encrypt, keyring, disk, starts, launches, identities>>

\* Mutant: a keyring that cannot be read counts as one without an entry.
KeyOrNew == launches + 1

\* load_or_create_storage_key: the entry, or a new key where there is none.
Key == IF keyring = 0 THEN launches + 1 ELSE keyring

Wanted == IF encrypt THEN [form |-> "sealed", key |-> Key]
                     ELSE [form |-> "plain", key |-> 0]

\* open_storage: a database of the other mode or under another key is wiped
\* with the whole directory.
OpenStorage ==
    LET d == start.dir IN
    /\ At("open") /\ d \notin held
    /\ keyring' = IF encrypt THEN Key ELSE keyring
    /\ disk' = [disk EXCEPT ![d] = Wanted]
    /\ IF disk[d] \in {NoDb, Wanted}
       THEN UNCHANGED <<noise, identities>>
       ELSE /\ noise' = [noise EXCEPT ![d] = NoFile]
            /\ identities' = [identities EXCEPT ![d] = {}]
    /\ GoTo("noise")
    /\ UNCHANGED <<encrypt, held, starts, launches>>

\* The sealed key opens under the master key, and holds a key pair.
Opens(file) == file.key = Key /\ file.id # Junk

\* Mutant: a sealed key that does not open makes way for a fresh identity.
LoadNoiseReplacing ==
    LET file == noise[start.dir] IN
    /\ At("noise")
    /\ keyring' = Key
    /\ start' = CASE file.form = "plain" ->
                       [start EXCEPT !.at = "shred", !.id = file.id]
                  [] file.form = "sealed" /\ Opens(file) ->
                       [start EXCEPT !.at = "listen", !.id = file.id]
                  [] OTHER -> [start EXCEPT !.at = "write", !.id = starts]
    /\ UNCHANGED <<encrypt, disk, noise, held, starts, launches, identities>>

\* load_or_create_sealed_noise_key: what is not sealed passes for a legacy
\* key; a sealed one must open, or the start fails.
LoadNoise ==
    LET file == noise[start.dir] IN
    /\ At("noise")
    /\ keyring' = Key
    /\ start' = CASE file.form = "none" ->
                       [start EXCEPT !.at = "write", !.id = starts]
                  [] file.form = "plain" ->
                       [start EXCEPT !.at = "shred", !.id = file.id]
                  [] file.form = "sealed" /\ Opens(file) ->
                       [start EXCEPT !.at = "listen", !.id = file.id]
                  [] file.form = "sealed" /\ ~Opens(file) -> NoStart
    /\ UNCHANGED <<encrypt, disk, noise, held, starts, launches, identities>>

ShredNoise ==
    /\ At("shred")
    /\ noise' = [noise EXCEPT ![start.dir] = NoFile]
    /\ GoTo("write")
    /\ UNCHANGED <<encrypt, keyring, disk, held, starts, launches, identities>>

WriteNoise ==
    /\ At("write")
    /\ noise' = [noise EXCEPT ![start.dir] =
         [form |-> "sealed", key |-> keyring, id |-> start.id]]
    /\ IF start.id = Junk THEN start' = NoStart ELSE GoTo("listen")
    /\ UNCHANGED <<encrypt, keyring, disk, held, starts, launches, identities>>

\* Peers see the identity once the node listens and dials its bootnodes.  A
\* stop does not end the advertised-head task: the directory stays open.
Present ==
    /\ At("listen")
    /\ identities' = [identities EXCEPT ![start.dir] = @ \cup {start.id}]
    /\ held' = held \cup {start.dir}
    /\ start' = NoStart
    /\ UNCHANGED <<encrypt, keyring, disk, noise, starts, launches>>

\* Factory reset removes the directory after a stop; the keyring keeps its key.
RemoveDataDir(d) ==
    /\ At("idle")
    /\ disk' = [disk EXCEPT ![d] = NoDb]
    /\ noise' = [noise EXCEPT ![d] = NoFile]
    /\ identities' = [identities EXCEPT ![d] = {}]
    /\ UNCHANGED <<start, encrypt, keyring, held, starts, launches>>

\* The process ends, in the middle of a start or not, and is launched again.
\* A key file that was being shredded or written is missing, torn or whole;
\* meanwhile encryption may be switched, or the keyring cleared.
Relaunch ==
    /\ launches < MaxLaunches /\ launches' = launches + 1
    /\ start' = NoStart /\ held' = {}
    /\ IF start.at \in {"shred", "write"}
       THEN noise' \in {noise, [noise EXCEPT ![start.dir] = Torn]}
       ELSE UNCHANGED noise
    /\ keyring' \in {keyring, 0} /\ encrypt' \in BOOLEAN
    /\ UNCHANGED <<disk, starts, identities>>

Next ==
    \/ \E d \in Dirs : BeginStart(d) \/ RemoveDataDir(d)
    \/ FailStart \/ OpenStorage \/ LoadNoise \/ ShredNoise \/ WriteNoise
    \/ Present \/ Relaunch

Spec == Init /\ [][Next]_vars

-----------------------------------------------------------------------------
\* The identity that was sealed stays: no start, failed start, crash or change
\* of the keyring replaces the sealed key, which goes with its whole directory
\* only; and peers are shown what the sealed key holds and nothing else.
KeepsIdentity ==
    \A d \in Dirs :
        /\ noise[d].form = "sealed" /\ disk'[d] = disk[d]
              => noise'[d] = noise[d]
        /\ \A id \in identities'[d] \ identities[d] :
              noise[d].form = "sealed" /\ noise[d].id = id
SealedIdentityKept == [][KeepsIdentity]_vars

\* A keyring that cannot be read at the moment aborts the start (NAT-B-027):
\* sealed chain data is given up only to a changed setting, to a keyring that
\* was cleared, or to a factory reset.
KeepsSealed ==
    \A d \in Dirs :
        disk[d].form = "sealed" /\ disk'[d] \notin {disk[d], NoDb}
            => ~encrypt \/ keyring # disk[d].key
SealedDataKept == [][KeepsSealed]_vars

-----------------------------------------------------------------------------
(* Why the properties hold.                                                *)

\* The start is at one of these points of the directory d.
In(d, points) == start.dir = d /\ start.at \in points

\* A sealed database has a key; no entry, 0, is the key of none.
KeysWritten == \A d \in Dirs : disk[d].form = "sealed" => disk[d].key # 0

\* A key file stands beside a database, and is what the start takes it for.
Carried(d) ==
    /\ (noise[d].form # "none" \/ In(d, {"noise", "shred", "write", "listen"}))
         => disk[d].form # "none"
    /\ In(d, {"shred"}) => noise[d].form = "plain"
    /\ In(d, {"write"}) => noise[d].form = "none"
    /\ In(d, {"listen"}) => noise[d].form = "sealed" /\ noise[d].id = start.id

IInv == TypeOK /\ KeysWritten /\ \A d \in Dirs : Carried(d)
================================================================================
