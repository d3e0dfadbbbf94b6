------------------------ MODULE DesktopServicesProofs ------------------------
(***************************************************************************)
(* What MCDesktopServices checks of NodeStorage, ChatTurns, EventTrail and *)
(* CitrateLink, for every value of the constants. Each service has an      *)
(* inductive invariant, IInv, at the end of its module; it holds while the *)
(* service is in focus, and gives its property. At the end, the types of   *)
(* all that is instantiated, by these invariants and the other modules'.   *)
(***************************************************************************)
EXTENDS NodeLifecycleProofs, DesktopRecordsProofs, DesktopPanelsProofs

-----------------------------------------------------------------------------
(* NodeStorage                                                             *)

StartPoints == {"idle", "open", "noise", "shred", "write", "listen"}
StartType == [at : StartPoints, dir : Dirs, id : Storage!Ids]
DbType == [form : {"none", "plain", "sealed"}, key : Storage!Keys]
FileType ==
    [form : {"none", "plain", "sealed"}, key : Storage!Keys, id : Storage!Ids]

LEMMA StorageTyped ==
    Storage!TypeOK =>
      /\ start \in StartType /\ disk \in [Dirs -> DbType]
      /\ noise \in [Dirs -> FileType]
BY DEF Storage!TypeOK, StartType, StartPoints, DbType, FileType

LEMMA StorageRecords ==
    /\ Storage!NoStart \in StartType /\ Storage!NoStart.at = "idle"
    /\ Storage!NoDb \in DbType /\ Storage!NoDb.form = "none"
    /\ Storage!NoFile \in FileType /\ Storage!NoFile.form = "none"
    /\ Storage!Torn \in FileType /\ Storage!Torn.form = "plain"
<1>1. (CHOOSE d \in Dirs : TRUE) \in Dirs
  BY StorageAssumption
<1>2. 0 \in Storage!Ids /\ Storage!Junk \in Storage!Ids /\ 0 \in Storage!Keys
  BY StorageAssumption DEF Storage!Ids, Storage!Junk, Storage!Keys
<1> QED BY <1>1, <1>2 DEF StartType, StartPoints, DbType, FileType, Storage!NoStart,
        Storage!NoDb, Storage!NoFile, Storage!Torn

\* The start is at the point and carries the identity, in the directory it had.
StartsAt(point, dir, id) ==
    start' \in StartType /\ start'.at = point /\ start'.dir = dir /\ start'.id = id

LEMMA StorageGoTo ==
    ASSUME Storage!TypeOK, NEW point \in StartPoints, Storage!GoTo(point)
    PROVE  StartsAt(point, start.dir, start.id)
BY StorageTyped DEF Storage!GoTo, StartsAt, StartType

LEMMA StorageKey ==
    ASSUME Storage!TypeOK
    PROVE  /\ Storage!Key \in Storage!Keys /\ Storage!Key # 0
           /\ Storage!Wanted \in DbType
           /\ Storage!Wanted.form = "sealed" => Storage!Wanted.key # 0
<1>1. launches + 1 \in Storage!Keys /\ launches + 1 # 0
  BY StorageAssumption DEF Storage!TypeOK, Storage!Keys
<1>2. Storage!Key \in Storage!Keys /\ Storage!Key # 0
  BY <1>1 DEF Storage!TypeOK, Storage!Key
<1>3. 0 \in Storage!Keys
  BY StorageAssumption DEF Storage!Keys
<1> QED BY <1>2, <1>3 DEF Storage!Wanted, DbType

\* The parts of the type that no action but its own disturbs.
LEMMA StorageCounts ==
    ASSUME Storage!TypeOK, Storage!Next
    PROVE  /\ encrypt' \in BOOLEAN /\ keyring' \in Storage!Keys
           /\ held' \subseteq Dirs
           /\ starts' \in 0 .. MaxStarts /\ launches' \in 0 .. MaxLaunches
<1>1. keyring' \in {keyring, 0, Storage!Key}
  BY DEF Storage!Next, Storage!BeginStart, Storage!RemoveDataDir, Storage!FailStart,
         Storage!OpenStorage, Storage!LoadNoise, Storage!ShredNoise,
         Storage!WriteNoise, Storage!Present, Storage!Relaunch
<1>2. 0 \in Storage!Keys
  BY StorageAssumption DEF Storage!Keys
<1>3. start.dir \in Dirs
  BY StorageTyped DEF StartType
<1>4. held' \in {held, held \cup {start.dir}, {}}
  BY DEF Storage!Next, Storage!BeginStart, Storage!RemoveDataDir, Storage!FailStart,
         Storage!OpenStorage, Storage!LoadNoise, Storage!ShredNoise,
         Storage!WriteNoise, Storage!Present, Storage!Relaunch
<1>5. encrypt' \in BOOLEAN
  BY DEF Storage!TypeOK, Storage!Next, Storage!BeginStart,
         Storage!RemoveDataDir, Storage!FailStart,
         Storage!OpenStorage, Storage!LoadNoise, Storage!ShredNoise,
         Storage!WriteNoise, Storage!Present, Storage!Relaunch
<1>6. starts' = starts \/ (starts < MaxStarts /\ starts' = starts + 1)
  BY DEF Storage!Next, Storage!BeginStart, Storage!RemoveDataDir, Storage!FailStart,
         Storage!OpenStorage, Storage!LoadNoise, Storage!ShredNoise,
         Storage!WriteNoise, Storage!Present, Storage!Relaunch
<1>7. launches' = launches \/ (launches < MaxLaunches /\ launches' = launches + 1)
  BY DEF Storage!Next, Storage!BeginStart, Storage!RemoveDataDir, Storage!FailStart,
         Storage!OpenStorage, Storage!LoadNoise, Storage!ShredNoise,
         Storage!WriteNoise, Storage!Present, Storage!Relaunch
<1> QED BY <1>1, <1>2, <1>3, <1>4, <1>5, <1>6, <1>7, StorageKey, StorageAssumption
        DEF Storage!TypeOK

\* The rest of the invariant, once the counters have their types.
StorageRest ==
    /\ start \in StartType /\ disk \in [Dirs -> DbType]
    /\ noise \in [Dirs -> FileType]
    /\ identities \in [Dirs -> SUBSET Storage!Ids]
    /\ Storage!KeysWritten /\ \A d \in Dirs : Storage!Carried(d)

\* What the database, the key file and the start are at the points of a start.
CarriedBy(db, file, at, id) ==
    /\ (file.form # "none" \/ at \in {"noise", "shred", "write", "listen"})
         => db.form # "none"
    /\ at = "shred" => file.form = "plain"
    /\ at = "write" => file.form = "none"
    /\ at = "listen" => file.form = "sealed" /\ file.id = id

LEMMA CarriedParts ==
    /\ \A d \in Dirs : Storage!Carried(d) <=>
         /\ noise[d].form # "none" => disk[d].form # "none"
         /\ start.dir = d => CarriedBy(disk[d], noise[d], start.at, start.id)
    /\ \A d \in Dirs : Storage!Carried(d)' <=>
         /\ noise'[d].form # "none" => disk'[d].form # "none"
         /\ start'.dir = d => CarriedBy(disk'[d], noise'[d], start'.at, start'.id)
BY DEF Storage!Carried, Storage!In, CarriedBy

\* A start that ends leaves what stands beside a database.
LEMMA StartEnds ==
    ASSUME Storage!IInv, start' = Storage!NoStart, UNCHANGED disk,
           \/ UNCHANGED noise
           \/ /\ start.at \in {"shred", "write"}
              /\ noise' = [noise EXCEPT ![start.dir] = Storage!Torn],
           identities' \in [Dirs -> SUBSET Storage!Ids]
    PROVE  StorageRest'
<1>1. StorageRest
  BY StorageTyped DEF Storage!IInv, StorageRest, Storage!TypeOK
<1>2. start.dir \in Dirs
  BY <1>1 DEF StorageRest, StartType
<1>3. noise' \in [Dirs -> FileType]
  BY <1>1, <1>2, StorageRecords DEF StorageRest
<1>4. \A d \in Dirs : noise'[d].form # "none" => disk[d].form # "none"
  BY <1>1, <1>2 DEF StorageRest, Storage!Carried, Storage!In
<1>5. \A d \in Dirs : Storage!Carried(d)'
  BY <1>4, StorageRecords, CarriedParts DEF CarriedBy
<1> QED BY <1>1, <1>3, <1>5, StorageRecords DEF StorageRest, Storage!KeysWritten

LEMMA StorageBegin ==
    ASSUME Storage!IInv, NEW d \in Dirs, Storage!BeginStart(d)
    PROVE  StorageRest'
<1>1. Storage!TypeOK /\ StorageRest
  BY StorageTyped DEF Storage!IInv, StorageRest, Storage!TypeOK
<1>2. start' \in StartType /\ start'.at = "open"
  <2>1. Storage!NoStart \in StartType BY StorageRecords
  <2>2. "open" \in StartPoints BY DEF StartPoints
  <2>3. start' = [Storage!NoStart EXCEPT !.at = "open", !.dir = d]
    BY DEF Storage!BeginStart
  <2>4. start' = [at |-> "open", dir |-> d, id |-> Storage!NoStart.id]
    BY <2>1, <2>3 DEF StartType
  <2> QED BY <2>1, <2>2, <2>4 DEF StartType
<1>3. UNCHANGED <<disk, noise, identities>>
  BY DEF Storage!BeginStart
<1>4. \A e \in Dirs : Storage!Carried(e)'
  BY <1>1, <1>2, <1>3, CarriedParts DEF StorageRest, CarriedBy
<1> QED BY <1>1, <1>2, <1>3, <1>4 DEF StorageRest, Storage!KeysWritten

LEMMA StorageRemove ==
    ASSUME Storage!IInv, NEW d \in Dirs, Storage!RemoveDataDir(d)
    PROVE  StorageRest'
<1>1. Storage!TypeOK /\ StorageRest
  BY StorageTyped DEF Storage!IInv, StorageRest, Storage!TypeOK
<1>2. /\ start' = start /\ start.at = "idle"
      /\ disk' = [disk EXCEPT ![d] = Storage!NoDb]
      /\ noise' = [noise EXCEPT ![d] = Storage!NoFile]
      /\ identities' = [identities EXCEPT ![d] = {}]
  BY DEF Storage!RemoveDataDir, Storage!At
<1>3. \A e \in Dirs : Storage!Carried(e)'
  BY <1>1, <1>2, StorageRecords, CarriedParts DEF StorageRest, CarriedBy
<1> QED BY <1>1, <1>2, <1>3, StorageRecords DEF StorageRest, Storage!KeysWritten

LEMMA StorageFail ==
    ASSUME Storage!IInv, Storage!FailStart
    PROVE  StorageRest'
<1>1. identities \in [Dirs -> SUBSET Storage!Ids]
  BY DEF Storage!IInv, Storage!TypeOK
<1> QED BY <1>1, StartEnds DEF Storage!FailStart, Storage!At

LEMMA StorageOpen ==
    ASSUME Storage!IInv, Storage!OpenStorage
    PROVE  StorageRest'
<1>1. Storage!TypeOK /\ StorageRest
  BY StorageTyped DEF Storage!IInv, StorageRest, Storage!TypeOK
<1>2. /\ Storage!GoTo("noise") /\ start.at = "open"
      /\ disk' = [disk EXCEPT ![start.dir] = Storage!Wanted]
      /\ \/ UNCHANGED <<noise, identities>>
         \/ /\ noise' = [noise EXCEPT ![start.dir] = Storage!NoFile]
            /\ identities' = [identities EXCEPT ![start.dir] = {}]
  BY DEF Storage!OpenStorage, Storage!At
<1>3. StartsAt("noise", start.dir, start.id)
  BY <1>1, <1>2, StorageGoTo DEF StartPoints
<1>4. start.dir \in Dirs
  BY <1>1 DEF StorageRest, StartType
<1>5. Storage!Wanted \in DbType /\ Storage!Wanted.form # "none"
  BY <1>1, StorageKey DEF Storage!Wanted
<1>6. \A e \in Dirs : Storage!Carried(e)'
  <2>1. \A e \in Dirs \ {start.dir} : noise'[e] = noise[e] /\ disk'[e] = disk[e]
    BY <1>1, <1>2 DEF StorageRest
  <2>2. disk'[start.dir].form # "none"
    BY <1>1, <1>2, <1>4, <1>5 DEF StorageRest
  <2> QED BY <1>1, <1>3, <2>1, <2>2, CarriedParts
          DEF StorageRest, CarriedBy, StartsAt
<1>7. disk' \in [Dirs -> DbType] /\ Storage!KeysWritten'
  BY <1>1, <1>2, StorageKey DEF StorageRest, Storage!KeysWritten
<1>8. noise' \in [Dirs -> FileType] /\ identities' \in [Dirs -> SUBSET Storage!Ids]
  BY <1>1, <1>2, StorageRecords DEF StorageRest
<1> QED BY <1>3, <1>6, <1>7, <1>8 DEF StorageRest, StartsAt

LEMMA StorageLoad ==
    ASSUME Storage!IInv, Storage!LoadNoise
    PROVE  StorageRest'
<1> DEFINE file == noise[start.dir]
<1>1. Storage!TypeOK /\ StorageRest
  BY StorageTyped DEF Storage!IInv, StorageRest, Storage!TypeOK
<1>2. start.at = "noise" /\ UNCHANGED <<disk, noise, identities>>
  BY DEF Storage!LoadNoise, Storage!At
<1>3. start \in StartType /\ start.dir \in Dirs /\ file \in FileType
      /\ file.id \in Storage!Ids
      /\ file.form \in {"none", "plain", "sealed"}
  BY <1>1 DEF StorageRest, StartType, FileType
<1>4. starts \in Storage!Ids
  BY <1>1, StorageAssumption DEF Storage!TypeOK, Storage!Ids, Storage!Junk
<1>5. disk[start.dir].form # "none"
  BY <1>1, <1>2, <1>3 DEF StorageRest, Storage!Carried, Storage!In
<1>6. ASSUME NEW at \in StartPoints, NEW id \in Storage!Ids,
             start' = [start EXCEPT !.at = at, !.id = id],
             CarriedBy(disk[start.dir], file, at, id)
      PROVE  StorageRest'
  <2>1. start' = [at |-> at, dir |-> start.dir, id |-> id]
    BY <1>3, <1>6 DEF StartType
  <2>2. /\ start' \in StartType /\ start'.at = at /\ start'.dir = start.dir
        /\ start'.id = id
    BY <1>3, <2>1 DEF StartType
  <2>3. \A d \in Dirs : Storage!Carried(d)'
    BY <1>1, <1>2, <1>6, <2>2, CarriedParts DEF StorageRest
  <2> QED BY <1>1, <1>2, <2>2, <2>3 DEF StorageRest, Storage!KeysWritten
<1>7. CASE file.form = "none"
  <2>1. start' = [start EXCEPT !.at = "write", !.id = starts]
    BY <1>7 DEF Storage!LoadNoise
  <2> QED BY <1>4, <1>5, <1>6, <1>7, <2>1 DEF StartPoints, CarriedBy
<1>8. CASE file.form = "plain"
  <2>1. start' = [start EXCEPT !.at = "shred", !.id = file.id]
    BY <1>8 DEF Storage!LoadNoise
  <2> QED BY <1>3, <1>5, <1>6, <1>8, <2>1 DEF StartPoints, CarriedBy
<1>9. CASE file.form = "sealed" /\ Storage!Opens(file)
  <2>1. start' = [start EXCEPT !.at = "listen", !.id = file.id]
    BY <1>9 DEF Storage!LoadNoise
  <2> QED BY <1>3, <1>5, <1>6, <1>9, <2>1 DEF StartPoints, CarriedBy
<1>10. CASE file.form = "sealed" /\ ~Storage!Opens(file)
  <2>1. start' = Storage!NoStart
    BY <1>10 DEF Storage!LoadNoise
  <2>2. identities' \in [Dirs -> SUBSET Storage!Ids]
    BY <1>1, <1>2 DEF StorageRest
  <2> QED BY <1>2, <2>1, <2>2, StartEnds
<1> QED BY <1>3, <1>7, <1>8, <1>9, <1>10

LEMMA StorageShred ==
    ASSUME Storage!IInv, Storage!ShredNoise
    PROVE  StorageRest'
<1>1. Storage!TypeOK /\ StorageRest
  BY StorageTyped DEF Storage!IInv, StorageRest, Storage!TypeOK
<1>2. /\ start.at = "shred" /\ Storage!GoTo("write")
      /\ noise' = [noise EXCEPT ![start.dir] = Storage!NoFile]
      /\ UNCHANGED <<disk, identities>>
  BY DEF Storage!ShredNoise, Storage!At
<1>3. StartsAt("write", start.dir, start.id)
  BY <1>1, <1>2, StorageGoTo DEF StartPoints
<1>4. start.dir \in Dirs /\ noise' \in [Dirs -> FileType]
  BY <1>1, <1>2, StorageRecords DEF StorageRest, StartType
<1>5. /\ noise'[start.dir].form = "none" /\ disk[start.dir].form # "none"
      /\ \A d \in Dirs \ {start.dir} : noise'[d] = noise[d]
  BY <1>1, <1>2, <1>4, StorageRecords
  DEF StorageRest, Storage!Carried, Storage!In
<1>6. \A d \in Dirs : Storage!Carried(d)'
  BY <1>1, <1>2, <1>3, <1>5, CarriedParts DEF StorageRest, StartsAt, CarriedBy
<1> QED BY <1>1, <1>2, <1>3, <1>4, <1>6
        DEF StorageRest, StartsAt, Storage!KeysWritten

LEMMA StorageWrite ==
    ASSUME Storage!IInv, Storage!WriteNoise
    PROVE  StorageRest'
<1> DEFINE file == [form |-> "sealed", key |-> keyring, id |-> start.id]
<1>1. Storage!TypeOK /\ StorageRest
  BY StorageTyped DEF Storage!IInv, StorageRest, Storage!TypeOK
<1>2. /\ start.at = "write" /\ UNCHANGED <<disk, identities>>
      /\ noise' = [noise EXCEPT ![start.dir] = file]
      /\ start' = Storage!NoStart \/ Storage!GoTo("listen")
  BY DEF Storage!WriteNoise, Storage!At
<1>3. start.dir \in Dirs /\ start.id \in Storage!Ids /\ keyring \in Storage!Keys
  BY <1>1 DEF StorageRest, StartType, Storage!TypeOK
<1>4. file \in FileType /\ file.form = "sealed" /\ file.id = start.id
  BY <1>3 DEF FileType
<1>5. disk[start.dir].form # "none"
  BY <1>1, <1>2, <1>3 DEF StorageRest, Storage!Carried, Storage!In
<1> HIDE DEF file
<1>6. noise' \in [Dirs -> FileType] /\ noise'[start.dir] = file
      /\ \A d \in Dirs \ {start.dir} : noise'[d] = noise[d]
  BY <1>1, <1>2, <1>3, <1>4 DEF StorageRest
<1>7. \A d \in Dirs : noise'[d].form # "none" => disk'[d].form # "none"
  BY <1>1, <1>2, <1>5, <1>6, CarriedParts DEF StorageRest
<1>8. /\ start' \in StartType
      /\ start'.dir \in Dirs =>
           CarriedBy(disk'[start'.dir], noise'[start'.dir], start'.at, start'.id)
  <2>1. CASE start' = Storage!NoStart
    BY <1>7, <2>1, StorageRecords DEF CarriedBy
  <2>2. CASE Storage!GoTo("listen")
    <3>1. StartsAt("listen", start.dir, start.id)
      BY <1>1, <2>2, StorageGoTo DEF StartPoints
    <3> QED BY <1>2, <1>4, <1>5, <1>6, <3>1 DEF CarriedBy, StartsAt
  <2> QED BY <1>2, <2>1, <2>2
<1>9. \A d \in Dirs : Storage!Carried(d)'
  BY <1>7, <1>8, CarriedParts
<1> QED BY <1>1, <1>2, <1>6, <1>8, <1>9 DEF StorageRest, Storage!KeysWritten

LEMMA StoragePresent ==
    ASSUME Storage!IInv, Storage!Present
    PROVE  StorageRest'
<1>1. Storage!TypeOK /\ StorageRest
  BY StorageTyped DEF Storage!IInv, StorageRest, Storage!TypeOK
<1>2. /\ start' = Storage!NoStart /\ UNCHANGED <<disk, noise>>
      /\ identities' = [identities EXCEPT ![start.dir] = @ \cup {start.id}]
  BY DEF Storage!Present
<1>3. start.dir \in Dirs /\ start.id \in Storage!Ids
  BY <1>1 DEF StorageRest, StartType
<1>4. identities' \in [Dirs -> SUBSET Storage!Ids]
  BY <1>1, <1>2, <1>3 DEF StorageRest
<1> QED BY <1>2, <1>4, StartEnds

LEMMA StorageRelaunch ==
    ASSUME Storage!IInv, Storage!Relaunch
    PROVE  StorageRest'
<1>1. /\ start' = Storage!NoStart /\ UNCHANGED <<disk, identities>>
      /\ \/ UNCHANGED noise
         \/ /\ start.at \in {"shred", "write"}
            /\ noise' = [noise EXCEPT ![start.dir] = Storage!Torn]
  BY DEF Storage!Relaunch
<1>2. identities' \in [Dirs -> SUBSET Storage!Ids]
  BY <1>1 DEF Storage!IInv, Storage!TypeOK
<1> QED BY <1>1, <1>2, StartEnds

LEMMA StorageInit == Storage!Init => Storage!IInv
<1> SUFFICES ASSUME Storage!Init PROVE Storage!IInv
  OBVIOUS
<1>1. PICK form \in {"none", "plain", "sealed"}, d \in Dirs :
        LET key == IF form = "sealed" THEN 1 ELSE 0 IN
        /\ keyring = key
        /\ disk = [e \in Dirs |->
             IF e = d THEN [form |-> form, key |-> key] ELSE Storage!NoDb]
        /\ noise = [e \in Dirs |->
             IF e = d /\ form # "none"
             THEN [form |-> form, key |-> key, id |-> 0] ELSE Storage!NoFile]
        /\ identities = [e \in Dirs |->
             IF e = d /\ form # "none" THEN {0} ELSE {}]
  BY DEF Storage!Init
<1> DEFINE key == IF form = "sealed" THEN 1 ELSE 0
           db == [form |-> form, key |-> key]
           file == [form |-> form, key |-> key, id |-> 0]
<1>2. key \in Storage!Keys /\ 0 \in Storage!Ids
  BY StorageAssumption DEF Storage!Keys, Storage!Ids, Storage!Junk
<1>3. /\ db \in DbType /\ file \in FileType /\ db.form = form /\ db.key = key
      /\ file.form = form /\ file.id = 0
  BY <1>2 DEF DbType, FileType
<1>4. form = "sealed" => key # 0
  OBVIOUS
<1>5. /\ keyring = key
      /\ disk = [e \in Dirs |-> IF e = d THEN db ELSE Storage!NoDb]
      /\ noise = [e \in Dirs |->
           IF e = d /\ form # "none" THEN file ELSE Storage!NoFile]
      /\ identities = [e \in Dirs |-> IF e = d /\ form # "none" THEN {0} ELSE {}]
  BY <1>1
<1> HIDE DEF key, db, file
<1>6. /\ disk \in [Dirs -> DbType] /\ noise \in [Dirs -> FileType]
      /\ identities \in [Dirs -> SUBSET Storage!Ids]
  BY <1>2, <1>3, <1>5, StorageRecords
<1>7. Storage!TypeOK
  BY <1>2, <1>5, <1>6, StorageRecords, StorageAssumption
  DEF Storage!Init, Storage!TypeOK, StartType, StartPoints, DbType, FileType
<1>8. Storage!KeysWritten
  BY <1>3, <1>4, <1>5, StorageRecords DEF Storage!KeysWritten
<1>9. start.at = "idle"
  BY StorageRecords DEF Storage!Init
<1>10. \A e \in Dirs : noise[e].form # "none" => disk[e].form # "none"
  BY <1>3, <1>5, StorageRecords
<1>11. \A e \in Dirs : Storage!Carried(e)
  BY <1>9, <1>10, CarriedParts DEF CarriedBy
<1> QED BY <1>7, <1>8, <1>11 DEF Storage!IInv

LEMMA StorageNext ==
    ASSUME Storage!IInv, Storage!Next
    PROVE  Storage!IInv'
<1>1. StorageRest'
  BY StorageBegin, StorageRemove, StorageFail, StorageOpen, StorageLoad,
     StorageShred, StorageWrite, StoragePresent, StorageRelaunch
  DEF Storage!Next
<1>2. Storage!TypeOK'
  BY <1>1, StorageCounts
  DEF Storage!IInv, Storage!TypeOK, StorageRest, StartType, StartPoints, DbType,
      FileType, Storage!Keys
<1> QED BY <1>1, <1>2 DEF Storage!IInv, StorageRest

LEMMA StorageStutter ==
    ASSUME Storage!IInv, UNCHANGED storageVars
    PROVE  Storage!IInv'
BY DEF storageVars, Storage!IInv, Storage!TypeOK, Storage!KeysWritten,
       Storage!Carried, Storage!In

\* A sealed key file changes with its database only, and what is presented is
\* what it holds.
LEMMA IdentityKept ==
    ASSUME Storage!IInv, Storage!Next
    PROVE  Storage!KeepsIdentity
<1>1. /\ start \in StartType /\ disk \in [Dirs -> DbType]
      /\ noise \in [Dirs -> FileType] /\ start.dir \in Dirs
      /\ identities \in [Dirs -> SUBSET Storage!Ids]
      /\ \A d \in Dirs : Storage!Carried(d)
  BY StorageTyped DEF Storage!IInv, Storage!TypeOK, StartType
<1>2. CASE \/ \E d \in Dirs : Storage!BeginStart(d)
           \/ Storage!LoadNoise
  BY <1>2 DEF Storage!BeginStart, Storage!LoadNoise, Storage!KeepsIdentity
<1>3. ASSUME NEW d \in Dirs, Storage!RemoveDataDir(d)
      PROVE  Storage!KeepsIdentity
  <2>1. /\ disk'[d] = Storage!NoDb /\ identities'[d] = {}
        /\ \A e \in Dirs \ {d} :
             noise'[e] = noise[e] /\ identities'[e] = identities[e]
    BY <1>1, <1>3 DEF Storage!RemoveDataDir
  <2>2. noise[d].form = "sealed" => disk[d] # Storage!NoDb
    BY <1>1, CarriedParts, StorageRecords
  <2> QED BY <2>1, <2>2 DEF Storage!KeepsIdentity
<1>4. CASE Storage!OpenStorage
  <2>1. /\ disk' = [disk EXCEPT ![start.dir] = Storage!Wanted]
        /\ \/ UNCHANGED <<noise, identities>>
           \/ /\ disk[start.dir] # Storage!Wanted
              /\ noise' = [noise EXCEPT ![start.dir] = Storage!NoFile]
              /\ identities' = [identities EXCEPT ![start.dir] = {}]
    BY <1>4 DEF Storage!OpenStorage
  <2> QED BY <1>1, <2>1 DEF Storage!KeepsIdentity
<1>5. CASE Storage!FailStart \/ Storage!ShredNoise \/ Storage!WriteNoise
             \/ Storage!Relaunch
  <2>1. /\ UNCHANGED identities
        /\ \A d \in Dirs : noise'[d] # noise[d] =>
             d = start.dir /\ start.at \in {"shred", "write"}
    BY <1>1, <1>5 DEF Storage!FailStart, Storage!ShredNoise, Storage!WriteNoise,
                      Storage!Relaunch, Storage!At
  <2>2. start.at \in {"shred", "write"} => noise[start.dir].form # "sealed"
    BY <1>1 DEF Storage!Carried, Storage!In
  <2> QED BY <2>1, <2>2 DEF Storage!KeepsIdentity
<1>6. CASE Storage!Present
  <2>1. /\ UNCHANGED noise /\ start.at = "listen"
        /\ \A d \in Dirs : \A id \in identities'[d] \ identities[d] :
             d = start.dir /\ id = start.id
    BY <1>1, <1>6 DEF Storage!Present, Storage!At
  <2>2. noise[start.dir].form = "sealed" /\ noise[start.dir].id = start.id
    BY <1>1, <2>1 DEF Storage!Carried, Storage!In
  <2> QED BY <2>1, <2>2 DEF Storage!KeepsIdentity
<1> QED BY <1>2, <1>3, <1>4, <1>5, <1>6 DEF Storage!Next

\* The database of a directory changes when it is opened or removed.
LEMMA SealedKept ==
    ASSUME Storage!IInv, Storage!Next
    PROVE  Storage!KeepsSealed
<1> SUFFICES ASSUME NEW d \in Dirs, disk[d].form = "sealed",
                    disk'[d] \notin {disk[d], Storage!NoDb},
                    encrypt, keyring = disk[d].key
             PROVE  FALSE
  BY DEF Storage!KeepsSealed, Storage!IInv, Storage!TypeOK
<1>1. disk[d] \in DbType /\ disk[d].key # 0
  BY StorageTyped DEF Storage!IInv, Storage!KeysWritten
<1>2. disk'[d] = Storage!Wanted
  BY StorageTyped
  DEF Storage!IInv, Storage!Next, Storage!BeginStart, Storage!RemoveDataDir,
      Storage!FailStart, Storage!OpenStorage, Storage!LoadNoise,
      Storage!ShredNoise, Storage!WriteNoise, Storage!Present, Storage!Relaunch
<1>3. Storage!Wanted = [form |-> "sealed", key |-> disk[d].key]
  BY <1>1 DEF Storage!Wanted, Storage!Key
<1>4. disk[d] = [form |-> "sealed", key |-> disk[d].key]
  BY <1>1 DEF DbType
<1> QED BY <1>2, <1>3, <1>4

StorageInvariant == focus = "storage" => Storage!IInv

LEMMA StorageInduction ==
    ServicesSpec => []StorageInvariant
<1>1. ServicesInit => StorageInvariant
  BY StorageInit DEF ServicesInit, StorageInvariant
<1>2. StorageInvariant /\ [ServicesNext]_serviceVars => StorageInvariant'
  <2>1. CASE ServicesNext
    BY <2>1, StorageNext DEF ServicesNext, StorageInvariant
  <2>2. CASE UNCHANGED serviceVars
    BY <2>2, StorageStutter DEF serviceVars, StorageInvariant
  <2> QED BY <2>1, <2>2
<1> QED BY <1>1, <1>2, PTL DEF ServicesSpec

\* An identity that was sealed stays over restarts, failed starts, crashes and
\* changes of the keyring, as long as its directory lives, and peers are shown
\* no other.
THEOREM IdentitySafety == ServicesSpec => SealedIdentityKept
<1>1. StorageInvariant /\ [ServicesNext]_serviceVars
        => [focus = "storage" => Storage!KeepsIdentity]_serviceVars
  BY IdentityKept DEF StorageInvariant, ServicesNext
<1> QED BY <1>1, StorageInduction, PTL DEF ServicesSpec, SealedIdentityKept

\* Sealed chain data is replaced only where the encryption was switched off, or
\* the keyring no longer holds its key: an unreadable keyring costs no data.
THEOREM SealedDataSafety == ServicesSpec => SealedDataKept
<1>1. StorageInvariant /\ [ServicesNext]_serviceVars
        => [focus = "storage" => Storage!KeepsSealed]_serviceVars
  BY SealedKept DEF StorageInvariant, ServicesNext
<1> QED BY <1>1, StorageInduction, PTL DEF ServicesSpec, SealedDataKept

-----------------------------------------------------------------------------
(* ChatTurns                                                               *)

Spots == {"idle", "asking", "reading", "prompt", "model", "tool", "result",
          "reply", "fallback"}
TurnType ==
    [at : Spots,
     kind : {"none", "chat", "test"},
     round : 0..MaxRounds, calls : 0..MaxChatCalls, try : 1..2]

LEMMA TurnsTyped == Chat!TypeOK => turn \in [Turns -> TurnType]
BY DEF Chat!TypeOK, TurnType, Spots

ChainLength == Len(Chat!Endpoints(rpc))

LEMMA ChainBounds ==
    ChainLength \in Int /\ 1 <= ChainLength /\ ChainLength <= 2
BY DEF ChainLength, Chat!Endpoints

\* One turn moves, to a record that keeps the bounds.
ChatMoves(t) ==
    /\ turn' \in [Turns -> TurnType]
    /\ \A u \in Turns \ {t} : turn'[u] = turn[u]
    /\ turn'[t].at \in {"tool", "result"} => turn'[t].calls > 0
    /\ turn'[t].try <= ChainLength
    /\ rpc' = rpc

LEMMA ChatMovesKeeps ==
    ASSUME Chat!IInv, NEW t \in Turns, ChatMoves(t)
    PROVE  turn' \in [Turns -> TurnType] /\ Chat!CallsLeft' /\ Chat!WithinChain'
<1>1. ChainLength' = ChainLength
  BY DEF ChatMoves, ChainLength, Chat!Endpoints
<1>2. Chat!CallsLeft'
  BY DEF ChatMoves, Chat!IInv, Chat!CallsLeft
<1>3. \A u \in Turns : turn[u].try <= ChainLength
  BY DEF Chat!IInv, Chat!WithinChain, ChainLength
<1>4. \A u \in Turns : turn'[u].try <= ChainLength'
  BY <1>1, <1>3 DEF ChatMoves
<1> QED BY <1>2, <1>4 DEF ChatMoves, Chat!WithinChain, ChainLength

\* The queues hold whoever was in them, or joined.
LEMMA ChatQueues ==
    ASSUME Chat!TypeOK, NEW l \in Chat!Locks, NEW k \in Chat!Locks,
           NEW p \in Chat!Parties
    PROVE  /\ Chat!Joined(queue, l, p) \in [Chat!Locks -> Seq(Chat!Parties)]
           /\ queue[l] # <<>> =>
                /\ Chat!Served(l) \in [Chat!Locks -> Seq(Chat!Parties)]
                /\ Chat!Joined(Chat!Served(l), k, p)
                     \in [Chat!Locks -> Seq(Chat!Parties)]
<1> DEFINE Queues == [Chat!Locks -> Seq(Chat!Parties)]
<1>1. \A q \in Queues : Chat!Joined(q, k, p) \in Queues
  BY DEF Chat!Joined
<1>2. queue \in Queues
  BY DEF Chat!TypeOK
<1>3. queue[l] # <<>> => Tail(queue[l]) \in Seq(Chat!Parties)
  BY <1>2
<1>4. queue[l] # <<>> => Chat!Served(l) \in Queues
  BY <1>2, <1>3 DEF Chat!Served
<1>5. Chat!Joined(queue, l, p) \in Queues
  BY <1>2 DEF Chat!Joined
<1> QED BY <1>1, <1>4, <1>5

\* The records a turn is set to.
LEMMA ChatModel ==
    ASSUME NEW old \in TurnType
    PROVE  LET new == [old EXCEPT !.at = "model", !.try = 1]
           IN  new \in TurnType /\ new.at = "model" /\ new.try = 1
<1>1. ASSUME NEW new, new = [old EXCEPT !.at = "model", !.try = 1]
      PROVE  new = [at |-> "model", kind |-> old.kind, round |-> old.round,
                    calls |-> old.calls, try |-> 1]
  BY <1>1 DEF TurnType
<1>2. [old EXCEPT !.at = "model", !.try = 1] =
        [at |-> "model", kind |-> old.kind, round |-> old.round,
         calls |-> old.calls, try |-> 1]
  BY <1>1
<1> QED BY <1>2 DEF TurnType, Spots

LEMMA ChatTool ==
    ASSUME NEW old \in TurnType, NEW n \in 1..MaxChatCalls
    PROVE  LET new == [old EXCEPT !.at = "tool", !.calls = n]
           IN  new \in TurnType /\ new.calls = n /\ new.try = old.try
<1>1. ASSUME NEW new, new = [old EXCEPT !.at = "tool", !.calls = n]
      PROVE  new = [at |-> "tool", kind |-> old.kind, round |-> old.round,
                    calls |-> n, try |-> old.try]
  BY <1>1 DEF TurnType
<1> QED BY <1>1 DEF TurnType, Spots

LEMMA ChatAsk ==
    ASSUME NEW kind \in {"chat", "test"}
    PROVE  LET new == [Chat!Idle EXCEPT !.at = "asking", !.kind = kind,
                                        !.round = 1]
           IN  new \in TurnType /\ new.at = "asking" /\ new.try = 1
<1>1. ASSUME NEW new,
             new = [Chat!Idle EXCEPT !.at = "asking", !.kind = kind, !.round = 1]
      PROVE  new = [at |-> "asking", kind |-> kind, round |-> 1, calls |-> 0,
                    try |-> 1]
  BY <1>1 DEF Chat!Idle
<1>2. MaxRounds \in Int /\ 1 <= MaxRounds
  BY DeskAssumption
<1> QED BY <1>1, <1>2, ChatAssumption DEF Chat!Idle, TurnType, Spots

LEMMA ChatIdle ==
    Chat!Idle \in TurnType /\ Chat!Idle.at = "idle" /\ Chat!Idle.try = 1
BY DeskAssumption, ChatAssumption DEF TurnType, Spots, Chat!Idle

\* A turn set to such a record has moved.
LEMMA ChatMovesTo ==
    ASSUME Chat!TypeOK, NEW t \in Turns, NEW new \in TurnType,
           turn' = [turn EXCEPT ![t] = new], rpc' = rpc,
           new.at \in {"tool", "result"} => new.calls > 0,
           new.try <= ChainLength
    PROVE  ChatMoves(t)
<1>1. turn \in [Turns -> TurnType] BY TurnsTyped
<1>2. turn'[t] = new /\ turn' \in [Turns -> TurnType]
  BY <1>1
<1>3. \A u \in Turns \ {t} : turn'[u] = turn[u]
  BY <1>1
<1> QED BY <1>2, <1>3 DEF ChatMoves

ChatTurnSteps(t) ==
    \/ \E kind \in {"chat", "test"} : Chat!Ask(t, kind)
    \/ Chat!PushQuestion(t) \/ Chat!ReadMessages(t) \/ Chat!ReadPrompt(t)
    \/ Chat!EndpointFails(t) \/ Chat!Answers(t) \/ Chat!CallsTools(t)
    \/ Chat!RunTool(t) \/ Chat!PushResult(t) \/ Chat!PushReply(t)

LEMMA ChatTurnStep ==
    ASSUME Chat!IInv, NEW t \in Turns, ChatTurnSteps(t)
    PROVE  ChatMoves(t) /\ writer' = writer
<1>1. Chat!TypeOK /\ Chat!CallsLeft /\ Chat!WithinChain
  BY DEF Chat!IInv
<1>2. /\ turn \in [Turns -> TurnType] /\ turn[t] \in TurnType
      /\ turn[t].try \in 1..2 /\ turn[t].calls \in 0..MaxChatCalls
      /\ turn[t].round \in 0..MaxRounds
      /\ turn[t].at \in {"tool", "result"} => turn[t].calls > 0
      /\ turn[t].try <= ChainLength
  BY <1>1, TurnsTyped DEF TurnType, ChainLength, Chat!CallsLeft, Chat!WithinChain
<1>3. ChainLength \in Int /\ 1 <= ChainLength /\ ChainLength <= 2
  BY ChainBounds
<1>4. CASE \E kind \in {"chat", "test"} : Chat!Ask(t, kind)
  <2>1. PICK kind \in {"chat", "test"} : Chat!Ask(t, kind)
    BY <1>4
  <2> DEFINE new == [Chat!Idle EXCEPT !.at = "asking", !.kind = kind, !.round = 1]
  <2>2. new \in TurnType /\ new.at = "asking" /\ new.try = 1
    BY ChatAsk
  <2>3. turn' = [turn EXCEPT ![t] = new] /\ rpc' = rpc /\ writer' = writer
    BY <2>1 DEF Chat!Ask
  <2> HIDE DEF new
  <2> QED BY <1>1, <1>3, <2>2, <2>3, ChatMovesTo
<1>5. CASE Chat!PushQuestion(t)
  BY <1>2, <1>5 DEF Chat!PushQuestion, Chat!Go, ChatMoves, TurnType, Spots
<1>6. CASE Chat!ReadMessages(t)
  BY <1>2, <1>6 DEF Chat!ReadMessages, Chat!Go, ChatMoves, TurnType, Spots
<1>7. CASE Chat!ReadPrompt(t)
  <2> DEFINE new == [turn[t] EXCEPT !.at = "model", !.try = 1]
  <2>1. new \in TurnType /\ new.at = "model" /\ new.try = 1
    BY <1>2, ChatModel
  <2>2. turn' = [turn EXCEPT ![t] = new] /\ rpc' = rpc /\ writer' = writer
    BY <1>7 DEF Chat!ReadPrompt
  <2> HIDE DEF new
  <2> QED BY <1>1, <1>3, <2>1, <2>2, ChatMovesTo
<1>8. CASE Chat!EndpointFails(t)
  <2>1. CASE turn[t].try < ChainLength
    <3>1. /\ turn' = [turn EXCEPT ![t].try = @ + 1]
          /\ rpc' = rpc /\ writer' = writer
      BY <1>8, <2>1 DEF Chat!EndpointFails, ChainLength
    <3>2. turn[t].try + 1 \in 1..2
      BY <1>2, <1>3, <2>1
    <3>3. turn[t].try + 1 <= ChainLength
      BY <1>2, <1>3, <2>1
    <3> QED BY <1>2, <3>1, <3>2, <3>3 DEF ChatMoves, TurnType
  <2>2. CASE ~(turn[t].try < ChainLength)
    <3>1. turn' = [turn EXCEPT ![t] = Chat!Idle] /\ rpc' = rpc /\ writer' = writer
      BY <1>8, <2>2 DEF Chat!EndpointFails, ChainLength
    <3> QED BY <1>1, <1>3, ChatIdle, <3>1, ChatMovesTo
  <2> QED BY <2>1, <2>2
<1>9. CASE Chat!Answers(t)
  BY <1>2, <1>9 DEF Chat!Answers, Chat!Go, ChatMoves, TurnType, Spots
<1>10. CASE Chat!CallsTools(t)
  <2>1. PICK n \in 1..MaxChatCalls :
          turn' = [turn EXCEPT ![t].at = "tool", ![t].calls = n]
    BY <1>10 DEF Chat!CallsTools
  <2> DEFINE new == [turn[t] EXCEPT !.at = "tool", !.calls = n]
  <2>2. new \in TurnType /\ new.calls = n /\ new.try = turn[t].try
    <3>1. turn[t] \in TurnType BY <1>2
    <3> QED BY <3>1, ChatTool
  <2>3. turn' = [turn EXCEPT ![t] = new] /\ rpc' = rpc /\ writer' = writer
    BY <1>10, <2>1 DEF Chat!CallsTools
  <2> HIDE DEF new
  <2>4. new.calls > 0 /\ new.try <= ChainLength
    BY <1>2, <2>2
  <2> QED BY <1>1, <2>2, <2>3, <2>4, ChatMovesTo
<1>11. CASE Chat!RunTool(t)
  BY <1>2, <1>11 DEF Chat!RunTool, Chat!Go, ChatMoves, TurnType, Spots
<1>12. CASE Chat!PushResult(t)
  BY DeskAssumption, <1>2, <1>12 DEF Chat!PushResult, ChatMoves, TurnType, Spots
<1>13. CASE Chat!PushReply(t)
  <2>1. turn' = [turn EXCEPT ![t] = Chat!Idle] /\ rpc' = rpc /\ writer' = writer
    BY <1>13 DEF Chat!PushReply
  <2> QED BY <1>1, <1>3, ChatIdle, <2>1, ChatMovesTo
<1> QED
  BY <1>4, <1>5, <1>6, <1>7, <1>8, <1>9, <1>10, <1>11, <1>12, <1>13
  DEF ChatTurnSteps

\* The queues and guards keep their types.
LEMMA ChatLocks ==
    ASSUME Chat!IInv, NEW t \in Turns, ChatTurnSteps(t)
    PROVE  /\ queue' \in [Chat!Locks -> Seq(Chat!Parties)]
           /\ holds' \in [Chat!Locks -> SUBSET Turns]
<1>1. /\ queue \in [Chat!Locks -> Seq(Chat!Parties)]
      /\ holds \in [Chat!Locks -> SUBSET Turns]
      /\ t \in Chat!Parties /\ "messages" \in Chat!Locks
      /\ "prompt" \in Chat!Locks
  BY DEF Chat!IInv, Chat!TypeOK, Chat!Parties, Chat!Locks
<1>2. \/ queue' = queue
      \/ \E l \in Chat!Locks : queue' = Chat!Joined(queue, l, t)
      \/ \E l \in Chat!Locks : queue[l] # <<>> /\ queue' = Chat!Served(l)
      \/ \E l, k \in Chat!Locks :
           queue[l] # <<>> /\ queue' = Chat!Joined(Chat!Served(l), k, t)
  BY <1>1 DEF ChatTurnSteps, Chat!Ask, Chat!PushQuestion, Chat!ReadMessages,
         Chat!ReadPrompt, Chat!EndpointFails, Chat!Answers, Chat!CallsTools,
         Chat!RunTool, Chat!PushResult, Chat!PushReply, Chat!MayWrite,
         Chat!First
<1>3. queue' \in [Chat!Locks -> Seq(Chat!Parties)]
  BY <1>1, <1>2, ChatQueues DEF Chat!IInv
<1>4. \/ holds' = holds
      \/ holds' = [holds EXCEPT !["messages"] = @ \cup {t}]
      \/ holds' = [messages |-> holds["messages"] \ {t},
                   prompt |-> holds["prompt"] \cup {t}]
      \/ holds' = [holds EXCEPT !["prompt"] = @ \ {t}]
  BY DEF ChatTurnSteps, Chat!Ask, Chat!PushQuestion, Chat!ReadMessages,
         Chat!ReadPrompt, Chat!EndpointFails, Chat!Answers, Chat!CallsTools,
         Chat!RunTool, Chat!PushResult, Chat!PushReply
<1>5. [messages |-> holds["messages"] \ {t}, prompt |-> holds["prompt"] \cup {t}]
        \in [Chat!Locks -> SUBSET Turns]
  BY <1>1 DEF Chat!Locks
<1>6. holds' \in [Chat!Locks -> SUBSET Turns]
  BY <1>1, <1>4, <1>5
<1> QED BY <1>3, <1>6

LEMMA ChatInit == Chat!Init => Chat!IInv
<1> SUFFICES ASSUME Chat!Init PROVE Chat!IInv
  OBVIOUS
<1>1. turn \in [Turns -> TurnType]
  BY ChatIdle DEF Chat!Init
<1>2. Chat!TypeOK
  BY <1>1 DEF Chat!Init, Chat!TypeOK, Chat!Locks, TurnType, Spots
<1>3. Chat!CallsLeft
  BY ChatIdle DEF Chat!Init, Chat!CallsLeft
<1>4. 1 <= Len(Chat!Endpoints(rpc))
  BY ChainBounds DEF ChainLength
<1>5. Chat!WithinChain
  BY <1>4, ChatIdle DEF Chat!Init, Chat!WithinChain
<1> QED BY <1>2, <1>3, <1>5 DEF Chat!IInv

LEMMA ChatNext ==
    ASSUME Chat!IInv, Chat!Next
    PROVE  Chat!IInv'
<1>1. ASSUME NEW t \in Turns, ChatTurnSteps(t)
      PROVE  Chat!IInv'
  <2>1. ChatMoves(t) /\ writer' = writer
    BY <1>1, ChatTurnStep
  <2>2. turn' \in [Turns -> TurnType] /\ Chat!CallsLeft' /\ Chat!WithinChain'
    BY <2>1, ChatMovesKeeps
  <2>3. Chat!TypeOK'
    BY <1>1, <2>1, <2>2, ChatLocks
    DEF ChatMoves, Chat!IInv, Chat!TypeOK, TurnType, Spots
  <2> QED BY <2>2, <2>3 DEF Chat!IInv
<1>2. ASSUME NEW w \in Writers, Chat!WantContext(w) \/ Chat!SetContext(w)
      PROVE  Chat!IInv'
  <2>1. UNCHANGED <<turn, holds, rpc>>
    BY <1>2 DEF Chat!WantContext, Chat!SetContext
  <2>2. /\ Chat!TypeOK /\ w \in Chat!Parties /\ "prompt" \in Chat!Locks
    BY DEF Chat!IInv, Chat!Parties, Chat!Locks
  <2>3. \/ queue' = Chat!Joined(queue, "prompt", w)
        \/ queue["prompt"] # <<>> /\ queue' = Chat!Served("prompt")
    BY <1>2 DEF Chat!WantContext, Chat!SetContext, Chat!MayWrite, Chat!First
  <2>4. queue' \in [Chat!Locks -> Seq(Chat!Parties)]
    BY <2>2, <2>3, ChatQueues
  <2>5. writer' \in [Writers -> {"rest", "waiting"}]
    BY <1>2, <2>2 DEF Chat!WantContext, Chat!SetContext, Chat!TypeOK
  <2> QED BY <2>1, <2>4, <2>5
          DEF Chat!IInv, Chat!TypeOK, Chat!CallsLeft, Chat!WithinChain,
              Chat!Endpoints
<1> QED BY <1>1, <1>2 DEF Chat!Next, ChatTurnSteps

LEMMA ChatStutter ==
    ASSUME Chat!IInv, UNCHANGED chatVars
    PROVE  Chat!IInv'
BY DEF chatVars, Chat!IInv, Chat!TypeOK, Chat!CallsLeft, Chat!WithinChain,
       Chat!Endpoints

LEMMA ChatInvariant ==
    ServicesSpec => [](focus = "chat" => Chat!IInv)
<1> DEFINE I == focus = "chat" => Chat!IInv
<1>1. ServicesInit => I
  BY ChatInit DEF ServicesInit
<1>2. I /\ [ServicesNext]_serviceVars => I'
  <2>1. CASE ServicesNext
    BY <2>1, ChatNext DEF ServicesNext
  <2>2. CASE UNCHANGED serviceVars
    BY <2>2, ChatStutter DEF serviceVars
  <2> QED BY <2>1, <2>2
<1> QED BY <1>1, <1>2, PTL DEF ServicesSpec

-----------------------------------------------------------------------------
(* EventTrail                                                              *)

\* The trail as the positions it holds.
Positions == {trail[i][2] : i \in 1..Len(trail)}
KeptBefore(n) == {i \in first..(n - 1) : bus[i] = "kept"}

LEMMA TrailShape ==
    Trail!IInv =>
      /\ next \in Nat /\ next >= 1 /\ Len(bus) \in Nat /\ Len(trail) \in Nat
      /\ bus \in Seq(Trail!Events)
      /\ trail \in Seq({"kept"} \X (1..MaxEvents))
      /\ next <= Len(bus) + 1 /\ first \in Nat /\ first >= 1 /\ first <= next
      /\ \A i \in 1..Len(trail) : trail[i][2] \in Nat /\ trail[i][2] < next
      /\ Positions = KeptBefore(next)
      /\ \A i, j \in 1..Len(trail) : i < j => trail[i][2] < trail[j][2]
<1> SUFFICES ASSUME Trail!IInv
             PROVE  /\ next \in Nat /\ next >= 1 /\ Len(bus) \in Nat /\ Len(trail) \in Nat
                    /\ bus \in Seq(Trail!Events)
                    /\ trail \in Seq({"kept"} \X (1..MaxEvents))
                    /\ next <= Len(bus) + 1 /\ first \in Nat /\ first >= 1 /\ first <= next
                    /\ \A i \in 1..Len(trail) : trail[i][2] \in Nat /\ trail[i][2] < next
                    /\ Positions = KeptBefore(next)
                    /\ \A i, j \in 1..Len(trail) : i < j => trail[i][2] < trail[j][2]
  OBVIOUS
<1>1. next \in Nat /\ next >= 1 /\ first \in Nat /\ first >= 1
      /\ bus \in Seq(Trail!Events)
      /\ trail \in Seq({"kept"} \X (1..MaxEvents))
  BY TrailAssumption DEF Trail!IInv, Trail!TypeOK
<1>2. \A i \in 1..Len(trail) : trail[i] \in {"kept"} \X (1..MaxEvents)
  BY <1>1
<1>3. \A i \in 1..Len(trail) : trail[i][2] \in Nat
  BY <1>2, TrailAssumption
<1> QED BY <1>1, <1>3
        DEF Trail!IInv, Trail!Behind, Trail!Unbroken, Positions, KeptBefore

LEMMA TrailPublish ==
    ASSUME Trail!IInv, NEW e \in Trail!Events, Trail!Publish(e)
    PROVE  Trail!IInv'
<1>1. /\ bus' = Append(bus, e) /\ Len(bus) < MaxEvents
      /\ UNCHANGED <<recorder, first, next, trail>>
  BY DEF Trail!Publish
<1>2. /\ bus' \in Seq(Trail!Events) /\ Len(bus') = Len(bus) + 1
      /\ \A i \in 1..Len(bus) : bus'[i] = bus[i]
  BY <1>1, TrailShape
<1>3. KeptBefore(next)' = KeptBefore(next)
  BY <1>1, <1>2, TrailShape DEF KeptBefore
<1>4. Trail!TypeOK'
  BY <1>1, <1>2, TrailShape, TrailAssumption DEF Trail!IInv, Trail!TypeOK, Trail!Events
<1>5. Trail!Behind'
  <2>1. Trail!Behind
    BY DEF Trail!IInv
  <2>2. next <= Len(bus') + 1
    BY <1>2, <2>1, TrailShape DEF Trail!Behind
  <2> QED BY <1>1, <2>1, <2>2 DEF Trail!Behind
<1>6. Trail!Unbroken'
  BY <1>1, <1>3, TrailShape DEF Trail!Unbroken, Positions, KeptBefore
<1> QED BY <1>4, <1>5, <1>6 DEF Trail!IInv

LEMMA TrailRecord ==
    ASSUME Trail!IInv, Trail!Record
    PROVE  Trail!IInv'
<1>1. /\ next <= Len(bus) /\ next' = next + 1
      /\ trail' = IF bus[next] = "kept" THEN Append(trail, <<"kept", next>>)
                  ELSE trail
      /\ recorder = "waiting" /\ UNCHANGED <<bus, recorder, first>>
  BY DEF Trail!Record
<1>2. Len(bus) <= MaxEvents /\ next \in 1..MaxEvents
  BY <1>1, TrailShape, TrailAssumption DEF Trail!IInv, Trail!TypeOK
<1>3. CASE bus[next] # "kept"
  <2>1. trail' = trail
    BY <1>1, <1>3
  <2>2. KeptBefore(next)' = KeptBefore(next)
    BY <1>1, <1>3, TrailShape DEF KeptBefore
  <2>3. Trail!TypeOK'
    BY <1>1, <1>2, <2>1, TrailShape, TrailAssumption
       DEF Trail!IInv, Trail!TypeOK, Trail!Events
  <2>4. Trail!Behind'
    BY <1>1, <2>1, TrailShape DEF Trail!Behind
  <2>5. Trail!Unbroken'
    BY <1>1, <2>1, <2>2, TrailShape DEF Trail!Unbroken, Positions, KeptBefore
  <2> QED BY <2>3, <2>4, <2>5 DEF Trail!IInv
<1>4. CASE bus[next] = "kept"
  <2>1. /\ trail' = Append(trail, <<"kept", next>>)
        /\ <<"kept", next>> \in {"kept"} \X (1..MaxEvents)
    BY <1>1, <1>2, <1>4
  <2>2. /\ trail' \in Seq({"kept"} \X (1..MaxEvents)) /\ Len(trail') = Len(trail) + 1
        /\ \A i \in 1..Len(trail) : trail'[i] = trail[i]
        /\ trail'[Len(trail) + 1] = <<"kept", next>>
    BY <2>1, TrailShape
  <2>3. trail'[Len(trail) + 1][2] = next
    BY <2>2
  <2>4. KeptBefore(next)' = KeptBefore(next) \cup {next}
    BY <1>1, <1>4, TrailShape DEF KeptBefore
  <2>5. \A i \in 1..Len(trail') : i \in 1..Len(trail) \/ i = Len(trail) + 1
    BY <2>2, TrailShape
  <2>6. Positions' = Positions \cup {next}
    <3>1. \A i \in 1..Len(trail) : i \in 1..Len(trail') /\ trail'[i][2] = trail[i][2]
      BY <2>2, TrailShape
    <3>2. Len(trail) + 1 \in 1..Len(trail')
      BY <2>2, TrailShape
    <3>3. \A p \in Positions : p \in Positions'
      BY <3>1 DEF Positions
    <3>4. next \in Positions'
      BY <2>3, <3>2 DEF Positions
    <3>5. \A p \in Positions' : p \in Positions \cup {next}
      BY <2>3, <2>5, <3>1 DEF Positions
    <3> QED BY <3>3, <3>4, <3>5
  <2>7. Trail!TypeOK'
    BY <1>1, <1>2, <2>2, TrailShape, TrailAssumption
       DEF Trail!IInv, Trail!TypeOK, Trail!Events
  <2>8. Trail!Behind'
    <3>1. next' <= Len(bus') + 1
      BY <1>1, TrailShape
    <3>2. \A i \in 1..Len(trail') : trail'[i][2] < next'
      BY <1>1, <2>2, <2>3, <2>5, TrailShape
    <3> QED BY <1>1, <3>1, <3>2, TrailShape DEF Trail!Behind
  <2>9. \A i, j \in 1..Len(trail') : i < j => trail'[i][2] < trail'[j][2]
    <3> SUFFICES ASSUME NEW i \in 1..Len(trail'), NEW j \in 1..Len(trail'), i < j
                 PROVE  trail'[i][2] < trail'[j][2]
      OBVIOUS
    <3>1. i \in 1..Len(trail)
      BY <2>2, TrailShape
    <3>2. CASE j \in 1..Len(trail)
      BY <2>2, <3>1, <3>2, TrailShape
    <3>3. CASE j = Len(trail) + 1
      BY <2>2, <2>3, <3>1, <3>3, TrailShape
    <3> QED BY <2>5, <3>2, <3>3
  <2>10. Positions' = KeptBefore(next)'
    BY <2>4, <2>6, TrailShape
  <2>11. Trail!Unbroken'
    BY <2>9, <2>10 DEF Trail!Unbroken, Positions, KeptBefore
  <2> QED BY <2>7, <2>8, <2>11 DEF Trail!IInv
<1> QED BY <1>3, <1>4

LEMMA TrailSubscribe ==
    ASSUME Trail!IInv, Trail!Subscribe
    PROVE  Trail!IInv'
<1>1. /\ recorder = "spawned" /\ recorder' = "waiting" /\ trail = <<>>
      /\ first' = Len(bus) + 1 /\ next' = Len(bus) + 1 /\ UNCHANGED <<bus, trail>>
  BY DEF Trail!Subscribe, Trail!IInv, Trail!Behind
<1>2. Len(trail) = 0 /\ Len(bus) <= MaxEvents
  BY <1>1 DEF Trail!IInv, Trail!TypeOK
<1>3. Trail!TypeOK'
  BY <1>1, <1>2, TrailShape, TrailAssumption
  DEF Trail!IInv, Trail!TypeOK, Trail!Events
<1>4. Trail!Behind'
  BY <1>1, <1>2, TrailShape DEF Trail!Behind
<1>5. Trail!Unbroken'
  BY <1>1, <1>2, TrailShape DEF Trail!Unbroken
<1> QED BY <1>3, <1>4, <1>5 DEF Trail!IInv

LEMMA TrailInit == Trail!Init => Trail!IInv
<1> SUFFICES ASSUME Trail!Init PROVE Trail!IInv
  OBVIOUS
<1>1. /\ bus = <<>> /\ first = 1 /\ next = 1 /\ trail = <<>>
      /\ recorder \in {"absent", "spawned"}
  BY DEF Trail!Init
<1>2. Len(bus) = 0 /\ Len(trail) = 0
  BY <1>1
<1>3. Trail!TypeOK
  BY <1>1, <1>2, TrailAssumption DEF Trail!TypeOK
<1>4. Trail!Behind
  BY <1>1, <1>2 DEF Trail!Behind
<1>5. Trail!Unbroken
  BY <1>1, <1>2 DEF Trail!Unbroken
<1> QED BY <1>3, <1>4, <1>5 DEF Trail!IInv

LEMMA TrailNext ==
    ASSUME Trail!IInv, Trail!Next
    PROVE  Trail!IInv'
<1>1. CASE Trail!Panics \/ Trail!Lags
  <2>1. UNCHANGED <<bus, first, next, trail>> /\ recorder' = "ended"
    BY <1>1 DEF Trail!Panics, Trail!Lags
  <2>2. Trail!TypeOK'
    BY <2>1 DEF Trail!IInv, Trail!TypeOK, Trail!Events
  <2>3. Trail!Behind' /\ Trail!Unbroken'
    BY <2>1 DEF Trail!IInv, Trail!Behind, Trail!Unbroken
  <2> QED BY <2>2, <2>3 DEF Trail!IInv
<1> QED BY <1>1, TrailPublish, TrailSubscribe, TrailRecord DEF Trail!Next

LEMMA TrailStutter ==
    ASSUME Trail!IInv, UNCHANGED trailVars
    PROVE  Trail!IInv'
<1>1. UNCHANGED <<bus, recorder, first, next, trail>>
  BY DEF trailVars
<1> QED BY <1>1
        DEF Trail!IInv, Trail!TypeOK, Trail!Events, Trail!Behind, Trail!Unbroken

LEMMA TrailInvariant ==
    ServicesSpec => [](focus = "trail" => Trail!IInv)
<1> DEFINE I == focus = "trail" => Trail!IInv
<1>1. ServicesInit => I
  BY TrailInit DEF ServicesInit
<1>2. I /\ [ServicesNext]_serviceVars => I'
  <2>1. CASE ServicesNext
    BY <2>1, TrailNext DEF ServicesNext
  <2>2. CASE UNCHANGED serviceVars
    BY <2>2, TrailStutter DEF serviceVars
  <2> QED BY <2>1, <2>2
<1> QED BY <1>1, <1>2, PTL DEF ServicesSpec

\* The event trail is an unbroken stretch of what was published and kept, from
\* the subscription on, each event once and in order, wherever the recorder was
\* stopped.
THEOREM TrailSafety == ServicesSpec => []Unbroken
<1>1. (focus = "trail" => Trail!IInv) => Unbroken
  BY DEF Unbroken, Trail!IInv
<1> QED BY <1>1, TrailInvariant, PTL

-----------------------------------------------------------------------------
(* CitrateLink                                                             *)

LinkPoints == {"idle", "signIn", "token", "code", "enroll", "deploy", "save"}
LinkingType ==
    [at : LinkPoints, account : Accounts \cup {Link!Nobody},
     member : Members \cup {Link!Nobody}, tries : 0 .. MaxCallbacks,
     pending : BOOLEAN]
SendingType == [at : {"idle", "nonce", "sign"}, link : Link!Links]

LEMMA LinkTyped ==
    Link!TypeOK => linking \in LinkingType /\ sending \in SendingType
BY DEF Link!TypeOK, LinkingType, LinkPoints, SendingType

LEMMA LinkRecords ==
    /\ Link!NotLinking \in LinkingType /\ Link!NotLinking.at = "idle"
    /\ Link!NotSending \in SendingType /\ Link!NotSending.at = "idle"
    /\ Link!NoLink \in Link!Links /\ Link!NoLink.pending = TRUE
<1>1. Link!NoLink \in Link!Links
  BY DEF Link!Links
<1> QED BY <1>1, LinkAssumption
        DEF LinkingType, LinkPoints, SendingType, Link!NotLinking,
            Link!NotSending, Link!NoLink, Link!Nobody

\* The fields of the link under way after a step.
Linking(at, account, member, awaits) ==
    /\ linking' \in LinkingType
    /\ linking'.at = at /\ linking'.account = account
    /\ linking'.member = member /\ linking'.pending = awaits

LEMMA LinkBegins ==
    ASSUME NEW a \in Accounts,
           linking' = [Link!NotLinking EXCEPT !.at = "signIn", !.account = a]
    PROVE  linking' \in LinkingType /\ linking'.at = "signIn" /\ linking'.account = a
<1>1. linking' = [at |-> "signIn", account |-> a, member |-> Link!Nobody,
                  tries |-> 0, pending |-> TRUE]
  BY DEF Link!NotLinking
<1>2. 0 \in 0 .. MaxCallbacks /\ "signIn" \in LinkPoints
  BY LinkAssumption DEF LinkPoints
<1>3. [at |-> "signIn", account |-> a, member |-> Link!Nobody, tries |-> 0,
       pending |-> TRUE] \in LinkingType
  BY <1>2 DEF LinkingType
<1> QED BY <1>1, <1>3 DEF Link!NotLinking

LEMMA LinkGoes ==
    ASSUME linking \in LinkingType, NEW at \in LinkPoints,
           linking' = [linking EXCEPT !.at = at]
    PROVE  Linking(at, linking.account, linking.member, linking.pending)
BY DEF LinkingType, Linking

LEMMA LinkCalled ==
    ASSUME linking \in LinkingType, NEW at \in LinkPoints,
           linking.tries < MaxCallbacks,
           linking' = [linking EXCEPT !.at = at, !.tries = @ + 1]
    PROVE  Linking(at, linking.account, linking.member, linking.pending)
<1>1. linking' = [at |-> at, account |-> linking.account, member |-> linking.member,
                  tries |-> linking.tries + 1, pending |-> linking.pending]
  BY DEF LinkingType
<1>2. linking.tries + 1 \in 0 .. MaxCallbacks
  BY LinkAssumption DEF LinkingType
<1> QED BY <1>1, <1>2 DEF LinkingType, Linking

LEMMA LinkMember ==
    ASSUME linking \in LinkingType, NEW m \in Members,
           linking' = [linking EXCEPT !.at = "code", !.member = m]
    PROVE  Linking("code", linking.account, m, linking.pending)
<1>1. linking' = [at |-> "code", account |-> linking.account, member |-> m,
                  tries |-> linking.tries, pending |-> linking.pending]
  BY DEF LinkingType
<1> QED BY <1>1 DEF LinkingType, LinkPoints, Linking

LEMMA LinkJudged ==
    ASSUME linking \in LinkingType, NEW p \in BOOLEAN,
           linking' = [linking EXCEPT !.at = "save", !.pending = p]
    PROVE  Linking("save", linking.account, linking.member, p)
<1>1. linking' = [at |-> "save", account |-> linking.account,
                  member |-> linking.member, tries |-> linking.tries,
                  pending |-> p]
  BY DEF LinkingType
<1> QED BY <1>1 DEF LinkingType, LinkPoints, Linking

\* The rest of the invariant.  What may send stays so: a key that was broadcast
\* stays broadcast.
LEMMA LinkEnrolledStays ==
    ASSUME Link!TypeOK, NEW link, Link!Enrolled(link),
           \A m \in Members : deploys[m] \subseteq deploys'[m],
           abroad => abroad'
    PROVE  /\ link.member \in Members /\ ~link.pending
           /\ ~abroad' => link.account \in deploys'[link.member]
BY DEF Link!Enrolled

LEMMA LinkDeploys ==
    ASSUME Link!IInv, Link!Next
    PROVE  /\ deploys' \in [Members -> SUBSET Link!Keys]
           /\ \A m \in Members : deploys[m] \subseteq deploys'[m]
           /\ abroad => abroad'
           /\ abroad' \in BOOLEAN /\ onHome' \in BOOLEAN /\ sends' \in 0 .. MaxSends
           /\ root' \in [Members -> Link!Keys \cup {Link!Nobody}]
           /\ Link!RootsDeployed'
<1>1. /\ deploys \in [Members -> SUBSET Link!Keys] /\ abroad \in BOOLEAN
      /\ onHome \in BOOLEAN /\ sends \in 0 .. MaxSends
      /\ root \in [Members -> Link!Keys \cup {Link!Nobody}]
      /\ linking \in LinkingType
  BY LinkTyped DEF Link!IInv, Link!TypeOK
<1>2. CASE Link!Deploy
  <2>1. linking.account \in Link!Keys
    BY <1>2 DEF Link!Deploy, Link!IInv, Link!Signed, Link!Keys
  <2> QED BY <1>1, <1>2, <2>1 DEF Link!Deploy, Link!IInv, Link!RootsDeployed
<1>3. ASSUME NEW m \in Members, Link!DeployFromWeb(m)
      PROVE  /\ deploys' \in [Members -> SUBSET Link!Keys]
             /\ \A n \in Members : deploys[n] \subseteq deploys'[n]
             /\ UNCHANGED <<root, abroad, onHome, sends>>
             /\ Link!RootsDeployed'
  BY <1>1, <1>3 DEF Link!DeployFromWeb, Link!Keys, Link!IInv, Link!RootsDeployed
<1>4. ASSUME NEW m \in Members, Link!Mine(m)
      PROVE  /\ root' \in [Members -> Link!Keys \cup {Link!Nobody}]
             /\ UNCHANGED <<deploys, abroad, onHome, sends>>
             /\ Link!RootsDeployed'
  BY <1>1, <1>4 DEF Link!Mine, Link!IInv, Link!RootsDeployed
<1>5. CASE \/ \E a \in Accounts : Link!LinkDevice(a)
           \/ Link!LinkFails \/ Link!Callback \/ Link!CheckCode \/ Link!Enroll
           \/ Link!SaveLink \/ \E m \in Members : Link!Token(m)
           \/ Link!Crash \/ Link!SwitchChain \/ Link!SendSponsored
           \/ Link!ReadNonce \/ Link!SignAndSubmit \/ Link!SendFails
  <2>1. /\ UNCHANGED <<root, deploys, abroad>> /\ onHome' \in {onHome, ~onHome}
        /\ sends' = sends \/ (sends < MaxSends /\ sends' = sends + 1)
    BY <1>5 DEF Link!LinkDevice, Link!LinkFails, Link!Callback, Link!CheckCode,
         Link!Enroll, Link!SaveLink, Link!Token, Link!Crash, Link!SwitchChain,
         Link!SendSponsored, Link!ReadNonce, Link!SignAndSubmit, Link!SendFails
  <2>2. sends' \in 0 .. MaxSends
    BY <1>1, <2>1, LinkAssumption
  <2> QED BY <1>1, <2>1, <2>2 DEF Link!IInv, Link!RootsDeployed
<1> QED BY <1>1, <1>2, <1>3, <1>4, <1>5 DEF Link!Next

\* The link under way.
LinkUnderWay ==
    /\ linking \in LinkingType /\ Link!Signed
    /\ linking.at = "save" /\ ~linking.pending => Link!Enrolled(linking)

LEMMA LinkSteps ==
    ASSUME Link!IInv, Link!Next
    PROVE  LinkUnderWay'
<1>1. /\ linking \in LinkingType /\ Link!TypeOK /\ LinkUnderWay
      /\ linking.at # "idle" => linking.account \in Accounts
      /\ linking.at \in {"code", "enroll", "deploy", "save"}
           => linking.member \in Members
      /\ linking.pending \in BOOLEAN /\ linking.at \in LinkPoints
  BY LinkTyped DEF Link!IInv, LinkUnderWay, Link!MaySend, Link!Signed, LinkingType
<1>2. CASE linking' = Link!NotLinking
  BY <1>2, LinkRecords DEF LinkUnderWay, Link!Signed
<1>3. CASE linking' = linking
  <2>1. Link!Enrolled(linking) => Link!Enrolled(linking)'
    BY <1>1, <1>3, LinkDeploys, LinkEnrolledStays DEF Link!Enrolled
  <2> QED BY <1>1, <1>3, <2>1 DEF LinkUnderWay, Link!Signed
<1>4. ASSUME NEW a \in Accounts, Link!LinkDevice(a)
      PROVE  LinkUnderWay'
  BY <1>4, LinkBegins DEF Link!LinkDevice, LinkUnderWay, Link!Signed
<1>5. CASE Link!Callback
  <2>1. PICK at \in {"signIn", "token"} :
          linking' = [linking EXCEPT !.at = at, !.tries = @ + 1]
    BY <1>5 DEF Link!Callback
  <2>2. Linking(at, linking.account, linking.member, linking.pending)
    BY <1>1, <1>5, <2>1, LinkCalled DEF Link!Callback, LinkPoints
  <2> QED BY <1>1, <1>5, <2>2 DEF Link!Callback, Linking, LinkUnderWay, Link!Signed
<1>6. ASSUME NEW m \in Members, Link!Token(m)
      PROVE  LinkUnderWay'
  <2>1. Linking("code", linking.account, m, linking.pending) /\ linking.at = "token"
    BY <1>1, <1>6, LinkMember DEF Link!Token
  <2> QED BY <1>1, <2>1 DEF Linking, LinkUnderWay, Link!Signed
<1>7. CASE Link!CheckCode
  <2>1. linking.at = "code"
    BY <1>7 DEF Link!CheckCode
  <2>2. CASE linking' = [linking EXCEPT !.at = "save", !.pending = TRUE]
    <3>1. Linking("save", linking.account, linking.member, TRUE)
      BY <1>1, <2>2, LinkJudged
    <3> QED BY <1>1, <2>1, <3>1 DEF Linking, LinkUnderWay, Link!Signed
  <2>3. CASE linking' = [linking EXCEPT !.at = "enroll"]
    <3>1. Linking("enroll", linking.account, linking.member, linking.pending)
      BY <1>1, <2>3, LinkGoes DEF LinkPoints
    <3> QED BY <1>1, <2>1, <3>1 DEF Linking, LinkUnderWay, Link!Signed
  <2> QED BY <1>7, <2>2, <2>3 DEF Link!CheckCode
<1>8. CASE Link!Enroll
  <2>1. linking.at = "enroll" /\ linking' = [linking EXCEPT !.at = "deploy"]
    BY <1>8 DEF Link!Enroll, Link!Step
  <2>2. Linking("deploy", linking.account, linking.member, linking.pending)
    BY <1>1, <2>1, LinkGoes DEF LinkPoints
  <2> QED BY <1>1, <2>1, <2>2 DEF Linking, LinkUnderWay, Link!Signed
<1>9. CASE Link!Deploy
  <2>1. linking.at = "deploy"
        /\ linking' = [linking EXCEPT !.at = "save", !.pending = FALSE]
    BY <1>9 DEF Link!Deploy
  <2>2. Linking("save", linking.account, linking.member, FALSE)
    BY <1>1, <2>1, LinkJudged
  <2>3. ~abroad' => linking.account \in deploys'[linking.member]
    BY <1>1, <1>9, <2>1 DEF Link!Deploy, Link!TypeOK
  <2> QED BY <1>1, <2>1, <2>2, <2>3
          DEF Linking, LinkUnderWay, Link!Signed, Link!Enrolled
<1> QED
  BY <1>2, <1>3, <1>4, <1>5, <1>6, <1>7, <1>8, <1>9
  DEF Link!Next, Link!LinkFails, Link!SaveLink, Link!Crash, Link!DeployFromWeb,
      Link!Mine, Link!SwitchChain, Link!SendSponsored, Link!ReadNonce,
      Link!SignAndSubmit, Link!SendFails

\* The link file, the send under way and what was handed to the bundler.
LinkSent ==
    /\ linkFile \in Link!Links /\ sending \in SendingType
    /\ userOps \subseteq Link!Links
    /\ ~linkFile.pending => Link!Enrolled(linkFile)
    /\ sending.at # "idle" => Link!Enrolled(sending.link)
    /\ \A l \in userOps : Link!Enrolled(l)

LEMMA LinkSends ==
    ASSUME Link!IInv, Link!Next
    PROVE  LinkSent'
<1>1. Link!TypeOK /\ LinkSent /\ linking \in LinkingType
  BY LinkTyped DEF Link!IInv, LinkSent, Link!MaySend, Link!TypeOK
<1>2. \A l : Link!Enrolled(l) =>
        /\ l.member \in Members /\ ~l.pending
        /\ ~abroad' => l.account \in deploys'[l.member]
  BY <1>1, LinkDeploys, LinkEnrolledStays
<1>3. Link!NoLink \in Link!Links /\ Link!NoLink.pending
      /\ Link!NotSending \in SendingType /\ Link!NotSending.at = "idle"
  BY LinkRecords
<1>4. /\ ~linkFile.pending =>
           /\ linkFile.member \in Members
           /\ ~abroad' => linkFile.account \in deploys'[linkFile.member]
      /\ sending.at # "idle" =>
           /\ sending.link.member \in Members /\ ~sending.link.pending
           /\ ~abroad' =>
                sending.link.account \in deploys'[sending.link.member]
      /\ \A l \in userOps :
           /\ l.member \in Members /\ ~l.pending
           /\ ~abroad' => l.account \in deploys'[l.member]
  BY <1>1, <1>2 DEF LinkSent
<1>5. CASE Link!SaveLink
  <2> DEFINE file == [member |-> linking.member, account |-> linking.account,
                      pending |-> linking.pending]
  <2>1. /\ linkFile' = file /\ UNCHANGED <<sending, userOps>>
        /\ linking.at = "save"
    BY <1>5 DEF Link!SaveLink
  <2>2. /\ linking.account \in Accounts /\ linking.member \in Members
        /\ linking.pending \in BOOLEAN
    BY <1>1, <2>1 DEF Link!IInv, Link!Signed, LinkingType
  <2>3. file \in Link!Links
    BY <2>2 DEF Link!Links
  <2>4. ~file.pending =>
          /\ file.member \in Members
          /\ ~abroad' => file.account \in deploys'[file.member]
    <3>1. ~linking.pending => Link!Enrolled(linking)
      BY <2>1 DEF Link!IInv, Link!MaySend
    <3> QED BY <1>2, <2>2, <3>1
  <2> HIDE DEF file
  <2> QED BY <1>1, <1>4, <2>1, <2>3, <2>4 DEF LinkSent, Link!Enrolled
<1>6. CASE Link!Crash
  <2>1. /\ sending' = Link!NotSending /\ linkFile' \in {linkFile, Link!NoLink}
        /\ userOps' = userOps
    BY <1>6 DEF Link!Crash
  <2> QED BY <1>1, <1>3, <1>4, <2>1 DEF LinkSent, Link!Enrolled
<1>7. CASE Link!SendSponsored
  <2> DEFINE new == [at |-> "nonce", link |-> linkFile]
  <2>1. /\ sending' = new /\ ~linkFile.pending
        /\ UNCHANGED <<linkFile, userOps>>
    BY <1>7 DEF Link!SendSponsored
  <2>2. new \in SendingType /\ new.link = linkFile
    BY <1>1 DEF SendingType, LinkSent
  <2> HIDE DEF new
  <2> QED BY <1>1, <1>4, <2>1, <2>2 DEF LinkSent, Link!Enrolled
<1>8. CASE Link!ReadNonce
  <2>1. /\ sending' = [sending EXCEPT !.at = "sign"] /\ sending.at = "nonce"
        /\ UNCHANGED <<linkFile, userOps>>
    BY <1>8 DEF Link!ReadNonce
  <2>2. sending' \in SendingType /\ sending'.link = sending.link
    BY <1>1, <2>1 DEF SendingType, LinkSent
  <2> QED BY <1>1, <1>4, <2>1, <2>2 DEF LinkSent, Link!Enrolled
<1>9. CASE Link!SignAndSubmit
  <2>1. /\ sending' = Link!NotSending /\ sending.at = "sign" /\ linkFile' = linkFile
        /\ userOps' = userOps \cup {sending.link}
    BY <1>9 DEF Link!SignAndSubmit
  <2>2. sending.link \in Link!Links
    BY <1>1 DEF LinkSent, SendingType
  <2> QED BY <1>1, <1>3, <1>4, <2>1, <2>2 DEF LinkSent, Link!Enrolled
<1>10. CASE Link!SendFails
  <2>1. sending' = Link!NotSending /\ UNCHANGED <<linkFile, userOps>>
    BY <1>10 DEF Link!SendFails
  <2> QED BY <1>1, <1>3, <1>4, <2>1 DEF LinkSent, Link!Enrolled
<1>11. CASE UNCHANGED <<linkFile, sending, userOps>>
  BY <1>1, <1>4, <1>11 DEF LinkSent, Link!Enrolled
<1> QED
  BY <1>5, <1>6, <1>7, <1>8, <1>9, <1>10, <1>11
  DEF Link!Next, Link!LinkDevice, Link!LinkFails, Link!Callback, Link!CheckCode,
      Link!Enroll, Link!Deploy, Link!Token, Link!DeployFromWeb, Link!Mine,
      Link!SwitchChain

LEMMA LinkInit == Link!Init => Link!IInv
<1> SUFFICES ASSUME Link!Init PROVE Link!IInv
  OBVIOUS
<1>1. linking \in LinkingType /\ sending \in SendingType /\ linkFile \in Link!Links
  BY LinkRecords DEF Link!Init
<1>2. Link!TypeOK
  <2>1. sends \in 0 .. MaxSends
    BY LinkAssumption DEF Link!Init
  <2>2. /\ root \in [Members -> Link!Keys \cup {Link!Nobody}]
        /\ deploys \in [Members -> SUBSET Link!Keys]
        /\ onHome \in BOOLEAN /\ abroad \in BOOLEAN /\ userOps = {}
    BY DEF Link!Init
  <2> QED BY <1>1, <2>1, <2>2
          DEF Link!TypeOK, LinkingType, LinkPoints, SendingType
<1>3. Link!Signed /\ Link!RootsDeployed /\ Link!MaySend
  BY LinkRecords DEF Link!Init, Link!Signed, Link!RootsDeployed, Link!MaySend
<1> QED BY <1>2, <1>3 DEF Link!IInv

LEMMA LinkNext ==
    ASSUME Link!IInv, Link!Next
    PROVE  Link!IInv'
<1>1. LinkUnderWay' /\ LinkSent'
  BY LinkSteps, LinkSends
<1>2. Link!TypeOK'
  BY <1>1, LinkDeploys
  DEF LinkUnderWay, LinkSent, Link!TypeOK, LinkingType, LinkPoints, SendingType
<1>3. Link!MaySend'
  BY <1>1 DEF LinkUnderWay, LinkSent, Link!MaySend
<1> QED BY <1>1, <1>2, <1>3, LinkDeploys DEF LinkUnderWay, Link!IInv

LEMMA LinkStutter ==
    ASSUME Link!IInv, UNCHANGED linkVars
    PROVE  Link!IInv'
BY DEF linkVars, Link!IInv, Link!TypeOK, Link!Signed, Link!RootsDeployed,
       Link!MaySend, Link!Enrolled

\* The one key that was broadcast is the one that signs.
LEMMA SenderHolds ==
    ASSUME Link!IInv
    PROVE  Link!SenderIsRoot
<1> SUFFICES ASSUME ~abroad, NEW l \in userOps \cup {f \in {linkFile} : ~f.pending}
             PROVE  /\ l.account \in deploys[l.member]
                    /\ Link!Cardinality(deploys[l.member]) = 1
                         => root[l.member] \in {l.account, Link!Nobody}
  BY DEF Link!SenderIsRoot
<1>1. l.member \in Members /\ l.account \in deploys[l.member]
  BY DEF Link!IInv, Link!MaySend, Link!Enrolled
<1>2. IsFiniteSet(deploys[l.member])
  <2>1. deploys[l.member] \subseteq Link!Keys
    BY <1>1 DEF Link!IInv, Link!TypeOK
  <2>2. IsFiniteSet(Link!Keys)
    BY LinkAssumption, FS_AddElement DEF Link!Keys
  <2> QED BY <2>1, <2>2, FS_Subset
<1>3. \A S : Link!Cardinality(S) = Cardinality(S)
  BY DEF Link!Cardinality, Cardinality
<1>4. ASSUME Cardinality(deploys[l.member]) = 1
      PROVE  root[l.member] \in {l.account, Link!Nobody}
  <2>1. PICK k : deploys[l.member] = {k}
    BY <1>2, <1>4, FS_Singleton
  <2>2. root[l.member] \in deploys[l.member] \cup {Link!Nobody}
    BY <1>1 DEF Link!IInv, Link!RootsDeployed
  <2> QED BY <1>1, <2>1, <2>2
<1> QED BY <1>1, <1>3, <1>4

LEMMA LinkInvariant ==
    ServicesSpec => [](focus = "link" => Link!IInv)
<1> DEFINE I == focus = "link" => Link!IInv
<1>1. ServicesInit => I
  BY LinkInit DEF ServicesInit
<1>2. I /\ [ServicesNext]_serviceVars => I'
  <2>1. CASE ServicesNext
    BY <2>1, LinkNext DEF ServicesNext
  <2>2. CASE UNCHANGED serviceVars
    BY <2>2, LinkStutter DEF serviceVars
  <2> QED BY <2>1, <2>2
<1> QED BY <1>1, <1>2, PTL DEF ServicesSpec

\* A link that may send, and every operation signed through one, is of a key
\* whose deployment this device has broadcast; without a second deployment it is
\* the wallet's root validator.
THEOREM SenderSafety == ServicesSpec => []SenderIsRoot
<1>1. (focus = "link" => Link!IInv) => SenderIsRoot
  BY SenderHolds DEF SenderIsRoot
<1> QED BY <1>1, LinkInvariant, PTL

-----------------------------------------------------------------------------
(* The types of all.                                                       *)

LEMMA NodeInvariant == ServicesSpec => []IInv
<1>1. ServicesInit => IInv
  BY NodeAssumption, InvariantInit DEF ServicesInit
<1>2. IInv /\ [ServicesNext]_serviceVars => IInv'
  <2>1. CASE ServicesNext
    BY <2>1, NodeAssumption, InvariantStep DEF ServicesNext, nodeVars
  <2>2. CASE UNCHANGED serviceVars
    BY <2>2, NodeAssumption, InvariantStep DEF serviceVars, nodeVars
  <2> QED BY <2>1, <2>2
<1> QED BY <1>1, <1>2, PTL DEF ServicesSpec

LEMMA WindowsTyped == ServicesSpec => []WindowsTypeOK
<1> DEFINE
      One == /\ focus = "crash" => Crash!TypeOK
             /\ focus = "log" => Log!TypeOK
             /\ focus = "screen" => Screen!TypeOK
             /\ focus = "settings" => Conf!TypeOK
             /\ focus = "send" => Dialog!TypeOK
             /\ focus = "dag" => Dag!TypeOK
      Other == /\ focus = "daemon" => Daemon!TypeOK
               /\ focus = "chain" => Chain!TypeOK
               /\ focus = "model" => Model!TypeOK
               /\ focus = "compute" => Compute!TypeOK
               /\ focus = "dash" => Dash!TypeOK
               /\ focus = "busy" => Busy!TypeOK
               /\ focus = "vault" => Vault!TypeOK
<1>1. (focus = "crash" => Crash!IInv) => (focus = "crash" => Crash!TypeOK)
  BY DEF Crash!IInv
<1>2. (focus = "log" => Log!IInv) => (focus = "log" => Log!TypeOK)
  BY DEF Log!IInv
<1>3. (focus = "screen" => Screen!IInv) => (focus = "screen" => Screen!TypeOK)
  BY DEF Screen!IInv
<1>4. (focus = "settings" => Conf!IInv) => (focus = "settings" => Conf!TypeOK)
  BY DEF Conf!IInv
<1>5. (focus = "send" => Dialog!IInv) => (focus = "send" => Dialog!TypeOK)
  BY DEF Dialog!IInv
<1>6. (focus = "dag" => Dag!IInv) => (focus = "dag" => Dag!TypeOK)
  BY DEF Dag!IInv
<1>7. (focus = "daemon" => Daemon!IInv) => (focus = "daemon" => Daemon!TypeOK)
  BY DEF Daemon!IInv
<1>8. (focus = "chain" => Chain!IInv) => (focus = "chain" => Chain!TypeOK)
  BY DEF Chain!IInv
<1>9. (focus = "model" => Model!IInv) => (focus = "model" => Model!TypeOK)
  BY DEF Model!IInv
<1>10. (focus = "compute" => Compute!IInv)
          => (focus = "compute" => Compute!TypeOK)
  BY DEF Compute!IInv
<1>11. (focus = "dash" => Dash!IInv) => (focus = "dash" => Dash!TypeOK)
  BY DEF Dash!IInv
<1>12. (focus = "busy" => Busy!IInv) => (focus = "busy" => Busy!TypeOK)
  BY DEF Busy!IInv
<1>13. (focus = "vault" => Vault!IInv) => (focus = "vault" => Vault!TypeOK)
  BY DEF Vault!IInv
<1>14. ServicesSpec => []One
  BY <1>1, <1>2, <1>3, <1>4, <1>5, <1>6, CrashInvariant, LogInvariant,
     ScreenInvariant, ConfInvariant, DialogInvariant, DagInvariant, PTL
<1>15. ServicesSpec => []Other
  BY <1>7, <1>8, <1>9, <1>10, <1>11, <1>12, <1>13, DaemonInvariant,
     ChainInvariant, ModelInvariant, ComputeInvariant, DashInvariant,
     BusyInvariant, VaultInvariant, PTL
<1>16. One /\ Other => WindowsTypeOK
  BY DEF WindowsTypeOK
<1> HIDE DEF One, Other
<1> QED BY <1>14, <1>15, <1>16, PTL

\* Every variable of the node, of the service and of the window in focus has its
\* type, in every state.
THEOREM ServicesTyped == ServicesSpec => []ServicesTypeOK
<1>1. IInv => TypeOK
  BY DEF IInv
<1>2. StorageInvariant => (focus = "storage" => Storage!TypeOK)
  BY DEF StorageInvariant, Storage!IInv
<1>3. (focus = "index" => IndexInv) => (focus = "index" => Index!TypeOK)
  BY IndexParts DEF IndexInv, Index!IInv
<1>4. (focus = "desk" => Desk!IInv) => (focus = "desk" => Desk!TypeOK)
  BY DEF Desk!IInv
<1>5. (focus = "publish" => Publish!IInv)
        => (focus = "publish" => Publish!TypeOK)
  BY DEF Publish!IInv
<1>6. (focus = "link" => Link!IInv) => (focus = "link" => Link!TypeOK)
  BY DEF Link!IInv
<1>7. (focus = "chat" => Chat!IInv) => (focus = "chat" => Chat!TypeOK)
  BY DEF Chat!IInv
<1>8. (focus = "trail" => Trail!IInv) => (focus = "trail" => Trail!TypeOK)
  BY DEF Trail!IInv
<1> QED BY <1>1, <1>2, <1>3, <1>4, <1>5, <1>6, <1>7, <1>8, NodeInvariant,
           WindowsTyped, StorageInduction, IndexInvariant, DeskInvariant,
           PublishInvariant, LinkInvariant, ChatInvariant, TrailInvariant, PTL
        DEF ServicesTypeOK
=============================================================================
