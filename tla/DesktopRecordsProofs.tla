------------------------- MODULE DesktopRecordsProofs -------------------------
(***************************************************************************)
(* What MCDesktopServices checks of FileIndex, ModelPublish and            *)
(* ApprovalDesk, for every value of the constants: the services that keep  *)
(* a record others act on, the index of the files, the record of a         *)
(* publication and the store of approvals. Each has an inductive           *)
(* invariant, IInv, at the end of its module.                              *)
(***************************************************************************)
EXTENDS MCDesktopServices, FiniteSetTheorems, TLAPS

-----------------------------------------------------------------------------
(* FileIndex                                                               *)

UploadPoints == {"idle", "dialog", "key", "load", "adding"}
EnvelopeKeys == 0 .. MaxEnvelope
UploadType == [at : UploadPoints, encrypt : BOOLEAN, wanted : BOOLEAN,
               left : SUBSET Files, done : SUBSET Files, key : EnvelopeKeys,
               copy : SUBSET Index!Records]
RemovalType == [at : {"idle", "unpin", "load", "save"}, cid : Files,
                copy : SUBSET Index!Records]

LEMMA IndexRecords ==
    /\ Index!NoUpload \in UploadType /\ Index!NoUpload.at = "idle"
    /\ Index!NoUpload.done = {}
    /\ Index!NoRemoval \in RemovalType /\ Index!NoRemoval.at = "idle"
    /\ 0 \in EnvelopeKeys
<1>1. (CHOOSE f \in Files : TRUE) \in Files
  BY IndexAssumption
<1>2. 0 \in EnvelopeKeys
  BY IndexAssumption DEF EnvelopeKeys
<1> QED BY <1>1, <1>2
        DEF UploadType, UploadPoints, RemovalType, Index!NoUpload,
            Index!NoRemoval, Index!Public

\* The invariant with the envelope key as a parameter.
By(records, f, key) == \E r \in records : r.cid = f /\ r.key \in {0, key}
IndexTypes ==
    /\ upload \in UploadType /\ removal \in [Removals -> RemovalType]
    /\ index \subseteq Index!Records /\ pinned \subseteq Files
    /\ envelope \in EnvelopeKeys /\ keys \in EnvelopeKeys
    /\ kept \subseteq Files /\ atRisk \subseteq kept /\ exposed = {}
Wraps ==
    /\ upload.at # "idle" => /\ upload.key \in {0, envelope}
                             /\ upload.encrypt = upload.wanted
    /\ upload.at \in {"load", "adding"} /\ upload.wanted => upload.key # 0
    /\ upload.at # "adding" => upload.done = {}
    /\ upload.at \in {"dialog", "key"} => upload.key = 0
NotRemoved ==
    \A f \in kept \cup upload.done, d \in Removals :
      removal[d].at # "idle" => removal[d].cid # f
UploadKeeps ==
    upload.at = "adding" =>
      /\ \A f \in (kept \ atRisk) \cup upload.done : By(upload.copy, f, envelope)
      /\ upload.done \subseteq pinned
RemovalKeeps ==
    \A d \in Removals : removal[d].at = "save" =>
      \A f \in kept \ atRisk : By(removal[d].copy, f, envelope)
IndexKeeps == \A f \in kept \ atRisk : f \in pinned /\ By(index, f, envelope)
IndexInv ==
    /\ IndexTypes /\ Wraps /\ NotRemoved
    /\ UploadKeeps /\ RemovalKeeps /\ IndexKeeps

LEMMA IndexParts ==
    Index!IInv <=> IndexInv
<1>1. Index!TypeOK /\ Index!PrivateUploadsSealed <=> IndexTypes
  BY DEF Index!TypeOK, Index!PrivateUploadsSealed, IndexTypes, UploadType,
         UploadPoints, RemovalType, EnvelopeKeys
<1>2. Index!Apart <=> NotRemoved
  BY DEF Index!Apart, Index!Removed, NotRemoved
<1>3. IndexTypes => (Index!WrapsUnder <=> Wraps)
  BY DEF IndexTypes, UploadType, UploadPoints, Index!WrapsUnder, Wraps,
         Index!Public
<1>4. Index!CopiesKeep /\ Index!FilesKept
        <=> UploadKeeps /\ RemovalKeeps /\ IndexKeeps
  BY DEF Index!CopiesKeep, Index!FilesKept, Index!Readable, Index!Public,
         Index!Safe, Index!Saving, UploadKeeps, RemovalKeeps, IndexKeeps, By
<1> QED BY <1>1, <1>2, <1>3, <1>4 DEF Index!IInv, IndexInv

\* A record put in leaves the others and answers for its own file.
LEMMA ByUpsert ==
    ASSUME NEW records \in SUBSET Index!Records, NEW f \in Files,
           NEW key \in EnvelopeKeys, NEW env
    PROVE  LET new == Index!Upsert(records, [cid |-> f, key |-> key])
           IN  /\ new \in SUBSET Index!Records
               /\ key \in {0, env} => By(new, f, env)
               /\ \A g : By(records, g, env) /\ g # f => By(new, g, env)
<1> DEFINE r == [cid |-> f, key |-> key]
<1>1. r \in Index!Records /\ r.cid = f /\ r.key = key
  BY DEF Index!Records, EnvelopeKeys
<1>2. Index!Upsert(records, r) = {x \in records : x.cid # f} \cup {r}
  BY <1>1 DEF Index!Upsert, Index!Without
<1> HIDE DEF r
<1>3. Index!Upsert(records, r) \in SUBSET Index!Records
  BY <1>1, <1>2
<1>4. key \in {0, env} => By(Index!Upsert(records, r), f, env)
  BY <1>1, <1>2 DEF By
<1>5. \A g : By(records, g, env) /\ g # f => By(Index!Upsert(records, r), g, env)
  BY <1>1, <1>2 DEF By
<1> QED BY <1>3, <1>4, <1>5 DEF r

LEMMA ByWithout ==
    ASSUME NEW records \in SUBSET Index!Records, NEW f, NEW env
    PROVE  /\ Index!Without(records, f) \in SUBSET Index!Records
           /\ \A g : By(records, g, env) /\ g # f
                => By(Index!Without(records, f), g, env)
BY DEF Index!Without, By

\* A save renames a copy that has what must not be lost.
LEMMA WrittenKeeps ==
    ASSUME IndexInv, NEW records \in Index!Written
    PROVE  /\ records \in SUBSET Index!Records
           /\ \A f \in kept \ atRisk : By(records, f, envelope)
           /\ Index!Saving = {} => records = upload.copy
<1>1. \/ \E d \in Removals : removal[d].at = "save" /\ records = removal[d].copy
                             /\ Index!Saving # {}
      \/ upload.at = "adding" /\ records = upload.copy
  BY DEF Index!Written, Index!Saving, Index!SavingUpload
<1>2. ASSUME NEW d \in Removals, removal[d].at = "save",
             records = removal[d].copy, Index!Saving # {}
      PROVE  /\ records \in SUBSET Index!Records
             /\ \A f \in kept \ atRisk : By(records, f, envelope)
             /\ Index!Saving = {} => records = upload.copy
  BY <1>2 DEF IndexInv, IndexTypes, RemovalType, RemovalKeeps
<1>3. CASE upload.at = "adding" /\ records = upload.copy
  BY <1>3 DEF IndexInv, IndexTypes, UploadType, UploadKeeps
<1> QED BY <1>1, <1>2, <1>3

\* One removal moves; the others stay where they are.
LEMMA RemovalGoes ==
    ASSUME removal \in [Removals -> RemovalType], NEW d \in Removals,
           NEW r \in RemovalType, removal' = [removal EXCEPT ![d] = r]
    PROVE  /\ removal' \in [Removals -> RemovalType] /\ removal'[d] = r
           /\ \A e \in Removals \ {d} : removal'[e] = removal[e]
OBVIOUS

\* A step that gives the upload no copy and leaves the rest of the index alone.
LEMMA UploadGoes ==
    ASSUME IndexInv, upload' \in UploadType, upload'.at # "adding", Wraps',
           upload'.done = {},
           UNCHANGED <<removal, index, pinned, envelope, keys, kept, atRisk,
                       exposed>>
    PROVE  IndexInv'
BY DEF IndexInv, IndexTypes, NotRemoved, UploadKeeps, RemovalKeeps, IndexKeeps

LEMMA IndexUpload ==
    ASSUME IndexInv, Index!UploadFile
    PROVE  IndexInv'
<1>1. PICK toggle \in BOOLEAN :
        upload' = [Index!NoUpload EXCEPT !.at = "dialog", !.encrypt = toggle,
                                         !.wanted = toggle]
  BY DEF Index!UploadFile
<1>2. upload' = [at |-> "dialog", encrypt |-> toggle, wanted |-> toggle,
                 left |-> {}, done |-> {}, key |-> 0, copy |-> {}]
  BY <1>1 DEF Index!NoUpload, Index!Public
<1>3. upload' \in UploadType
  BY <1>2, IndexRecords DEF UploadType, UploadPoints
<1>4. Wraps'
  BY <1>2 DEF Wraps
<1> QED BY <1>2, <1>3, <1>4, UploadGoes
        DEF Index!UploadFile, Index!keyVars, Index!history

LEMMA IndexPick ==
    ASSUME IndexInv, Index!PickFiles
    PROVE  IndexInv'
<1> USE DEF Index!keyVars, Index!history
<1>1. CASE upload' = Index!NoUpload
  <2>1. Wraps'
    BY <1>1, IndexRecords DEF Wraps
  <2> QED BY <1>1, <2>1, IndexRecords, UploadGoes DEF Index!PickFiles
<1>2. CASE upload' # Index!NoUpload
  <2>1. PICK chosen \in SUBSET Files :
          upload' = [upload EXCEPT !.at = IF upload.encrypt THEN "key" ELSE "load",
                                   !.left = chosen]
    BY <1>2 DEF Index!PickFiles
  <2>2. /\ upload \in UploadType /\ upload.at = "dialog" /\ upload.done = {}
        /\ upload.key = 0 /\ upload.encrypt = upload.wanted
    BY DEF Index!PickFiles, IndexInv, IndexTypes, Wraps
  <2>3. PICK at \in {"key", "load"} :
          at = IF upload.encrypt THEN "key" ELSE "load"
    OBVIOUS
  <2>4. upload' = [at |-> at, encrypt |-> upload.encrypt,
                   wanted |-> upload.wanted, left |-> chosen, done |-> {},
                   key |-> 0, copy |-> upload.copy]
    BY <2>1, <2>2, <2>3 DEF UploadType
  <2>5. upload' \in UploadType /\ at = "load" => ~upload.encrypt
    BY <2>2, <2>3, <2>4, IndexRecords DEF UploadType, UploadPoints
  <2>6. upload' \in UploadType
    BY <2>2, <2>4, IndexRecords DEF UploadType, UploadPoints
  <2>7. Wraps'
    BY <2>2, <2>4, <2>5, <2>6 DEF Wraps
  <2> QED BY <2>4, <2>6, <2>7, UploadGoes DEF Index!PickFiles
<1> QED BY <1>1, <1>2

LEMMA IndexEnvelope ==
    ASSUME IndexInv, Index!LoadEnvelope
    PROVE  IndexInv'
<1>1. /\ upload.at = "key" /\ upload \in UploadType
      /\ upload.encrypt = upload.wanted /\ upload.done = {}
      /\ UNCHANGED <<removal, index, pinned, kept, exposed>>
  BY DEF Index!LoadEnvelope, IndexInv, IndexTypes, Wraps
<1>2. ASSUME NEW key \in EnvelopeKeys, key # 0,
             upload' = [upload EXCEPT !.at = "load", !.key = key]
      PROVE  /\ upload' \in UploadType /\ upload'.at = "load"
             /\ upload'.key = key /\ upload'.done = {}
             /\ upload'.encrypt = upload'.wanted
  <2>1. upload' = [at |-> "load", encrypt |-> upload.encrypt,
                   wanted |-> upload.wanted, left |-> upload.left,
                   done |-> upload.done, key |-> key, copy |-> upload.copy]
    BY <1>2, <1>1 DEF UploadType
  <2> QED BY <1>1, <2>1 DEF UploadType, UploadPoints
<1>3. CASE /\ envelope # 0
           /\ upload' = [upload EXCEPT !.at = "load", !.key = envelope]
           /\ UNCHANGED <<envelope, keys, atRisk>>
  <2>1. envelope \in EnvelopeKeys
    BY DEF IndexInv, IndexTypes
  <2>2. /\ upload' \in UploadType /\ upload'.at = "load" /\ upload'.done = {}
        /\ upload'.key = envelope /\ upload'.encrypt = upload'.wanted
    BY <1>2, <1>3, <2>1
  <2>3. Wraps'
    BY <1>3, <2>2 DEF Wraps
  <2> QED BY <1>1, <1>3, <2>2, <2>3, UploadGoes
<1>4. CASE /\ keys < MaxEnvelope
           /\ keys' = keys + 1 /\ envelope' = keys + 1
           /\ atRisk' = IF envelope = 0 THEN atRisk ELSE kept
           /\ upload' = [upload EXCEPT !.at = "load", !.key = keys + 1]
  <2>1. keys + 1 \in EnvelopeKeys /\ keys + 1 # 0
    BY <1>4, IndexAssumption DEF IndexInv, IndexTypes, EnvelopeKeys
  <2>2. /\ upload' \in UploadType /\ upload'.at = "load" /\ upload'.done = {}
        /\ upload'.key = keys + 1 /\ upload'.encrypt = upload'.wanted
    BY <1>2, <1>4, <2>1
  <2>3. Wraps'
    BY <1>4, <2>1, <2>2 DEF Wraps
  <2>4. IndexTypes' /\ NotRemoved'
    BY <1>1, <1>4, <2>1, <2>2 DEF IndexInv, IndexTypes, NotRemoved
  <2>5. \A f \in kept' \ atRisk' :
          /\ f \in kept \ atRisk
          /\ \A records : By(records, f, envelope) => By(records, f, envelope')
    BY <1>1, <1>4 DEF By
  <2>6. UploadKeeps' /\ RemovalKeeps' /\ IndexKeeps'
    BY <1>1, <2>2, <2>5
    DEF IndexInv, UploadKeeps, RemovalKeeps, IndexKeeps
  <2> QED BY <2>3, <2>4, <2>6 DEF IndexInv
<1>5. CASE upload' = Index!NoUpload /\ UNCHANGED <<envelope, keys, atRisk>>
  <2>1. Wraps'
    BY <1>5, IndexRecords DEF Wraps
  <2> QED BY <1>1, <1>5, <2>1, IndexRecords, UploadGoes
<1> QED BY <1>3, <1>4, <1>5 DEF Index!LoadEnvelope, Index!keyVars

\* What an index that was read has of the files that are then not at risk.
LEMMA LoadedKeeps ==
    ASSUME IndexInv, NEW records \in Index!Loaded,
           atRisk' = Index!AtRiskAfter(records), kept' = kept
    PROVE  /\ records \in SUBSET Index!Records /\ atRisk' \subseteq kept'
           /\ kept' \ atRisk' \subseteq kept \ atRisk
           /\ \A f \in kept' \ atRisk' : By(records, f, envelope)
<1>1. CASE records = index
  BY <1>1 DEF IndexInv, IndexTypes, IndexKeeps, Index!AtRiskAfter
<1>2. CASE records # index
  BY <1>2 DEF IndexInv, Index!Loaded, Index!AtRiskAfter
<1> QED BY <1>1, <1>2

LEMMA IndexLoad ==
    ASSUME IndexInv, Index!LoadIndex
    PROVE  IndexInv'
<1>1. /\ upload.at = "load" /\ upload \in UploadType /\ upload.done = {}
      /\ UNCHANGED <<removal, index, pinned, envelope, keys, kept, exposed>>
  BY DEF Index!LoadIndex, Index!keyVars, IndexInv, IndexTypes, Wraps
<1>2. PICK records \in Index!Loaded :
        /\ upload' = [upload EXCEPT !.at = "adding", !.copy = records]
        /\ atRisk' = Index!AtRiskAfter(records)
  BY DEF Index!LoadIndex
<1>3. /\ records \in SUBSET Index!Records /\ atRisk' \subseteq kept'
      /\ kept' \ atRisk' \subseteq kept \ atRisk
      /\ \A f \in kept' \ atRisk' : By(records, f, envelope)
  BY <1>1, <1>2, LoadedKeeps
<1>4. upload' = [at |-> "adding", encrypt |-> upload.encrypt,
                 wanted |-> upload.wanted, left |-> upload.left, done |-> {},
                 key |-> upload.key, copy |-> records]
  BY <1>1, <1>2 DEF UploadType
<1>5. upload' \in UploadType
  BY <1>1, <1>3, <1>4 DEF UploadType, UploadPoints
<1>6. IndexTypes' /\ NotRemoved'
  BY <1>1, <1>3, <1>4, <1>5 DEF IndexInv, IndexTypes, NotRemoved
<1>7. Wraps'
  BY <1>1, <1>4 DEF IndexInv, Wraps
<1>8. UploadKeeps' /\ RemovalKeeps' /\ IndexKeeps'
  BY <1>1, <1>3, <1>4 DEF IndexInv, UploadKeeps, RemovalKeeps, IndexKeeps
<1> QED BY <1>6, <1>7, <1>8 DEF IndexInv

LEMMA IndexAdd ==
    ASSUME IndexInv, NEW f \in Files, Index!AddFile(f)
    PROVE  IndexInv'
<1> DEFINE copy == Index!Upsert(upload.copy, [cid |-> f, key |-> upload.key])
           done == IF Index!Removed(f) THEN upload.done ELSE upload.done \cup {f}
<1>1. /\ upload.at = "adding" /\ upload \in UploadType
      /\ UNCHANGED <<removal, index, envelope, keys, kept, atRisk>>
  BY DEF Index!AddFile, Index!keyVars, IndexInv, IndexTypes
<1>2. /\ upload.copy \in SUBSET Index!Records /\ upload.key \in EnvelopeKeys
      /\ upload.key \in {0, envelope} /\ upload.done \in SUBSET Files
  BY <1>1 DEF IndexInv, UploadType, Wraps
<1>3. /\ copy \in SUBSET Index!Records /\ By(copy, f, envelope)
      /\ \A g : By(upload.copy, g, envelope) /\ g # f => By(copy, g, envelope)
  BY <1>2, ByUpsert
<1>4. /\ done \in SUBSET Files
      /\ \A g \in done : g \in upload.done \/ (g = f /\ ~Index!Removed(f))
  BY <1>2
<1> HIDE DEF copy, done
<1>5. CASE /\ upload' = [upload EXCEPT !.left = @ \ {f}, !.done = done,
                                      !.copy = copy]
           /\ pinned' = pinned \cup {f}
           /\ exposed' = IF upload.wanted /\ upload.key = Index!Public
                         THEN exposed \cup {f} ELSE exposed
  <2>1. upload' = [at |-> "adding", encrypt |-> upload.encrypt,
                   wanted |-> upload.wanted, left |-> upload.left \ {f},
                   done |-> done, key |-> upload.key, copy |-> copy]
    BY <1>1, <1>5 DEF UploadType
  <2>2. upload' \in UploadType
    BY <1>1, <1>3, <1>4, <2>1 DEF UploadType, UploadPoints
  <2>3. exposed' = {}
    BY <1>1, <1>5 DEF IndexInv, IndexTypes, Wraps, Index!Public
  <2>4. IndexTypes'
    BY <1>1, <1>5, <2>2, <2>3 DEF IndexInv, IndexTypes
  <2>5. Wraps'
    BY <1>1, <2>1 DEF IndexInv, Wraps
  <2>6. NotRemoved'
    BY <1>1, <1>4, <2>1 DEF IndexInv, NotRemoved, Index!Removed
  <2>7. UploadKeeps' /\ RemovalKeeps' /\ IndexKeeps'
    BY <1>1, <1>3, <1>4, <1>5, <2>1
    DEF IndexInv, UploadKeeps, RemovalKeeps, IndexKeeps
  <2> QED BY <2>4, <2>5, <2>6, <2>7 DEF IndexInv
<1>6. CASE upload' = [upload EXCEPT !.left = @ \ {f}] /\ UNCHANGED <<pinned, exposed>>
  <2>1. upload' = [at |-> "adding", encrypt |-> upload.encrypt,
                   wanted |-> upload.wanted, left |-> upload.left \ {f},
                   done |-> upload.done, key |-> upload.key,
                   copy |-> upload.copy]
    BY <1>1, <1>6 DEF UploadType
  <2>2. upload' \in UploadType
    BY <1>1, <2>1 DEF UploadType, UploadPoints
  <2>3. IndexTypes' /\ Wraps' /\ NotRemoved'
    BY <1>1, <1>6, <2>1, <2>2 DEF IndexInv, IndexTypes, Wraps, NotRemoved
  <2>4. UploadKeeps' /\ RemovalKeeps' /\ IndexKeeps'
    BY <1>1, <1>6, <2>1 DEF IndexInv, UploadKeeps, RemovalKeeps, IndexKeeps
  <2> QED BY <2>3, <2>4 DEF IndexInv
<1> QED BY <1>5, <1>6 DEF Index!AddFile, copy, done

LEMMA IndexSave ==
    ASSUME IndexInv, Index!SaveUpload
    PROVE  IndexInv'
<1>1. /\ upload.at = "adding" /\ upload' = Index!NoUpload
      /\ upload' \in UploadType /\ upload'.at = "idle" /\ upload'.done = {}
      /\ UNCHANGED <<removal, pinned, envelope, keys, exposed>>
  BY IndexRecords DEF Index!SaveUpload, Index!SavingUpload, Index!keyVars
<1>2. upload.done \subseteq Files /\ upload.done \subseteq pinned
  BY <1>1 DEF IndexInv, IndexTypes, UploadType, UploadKeeps
<1>3. Wraps' /\ UploadKeeps'
  BY <1>1 DEF Wraps, UploadKeeps
<1>4. kept' \subseteq kept \cup upload.done => NotRemoved'
  BY <1>1 DEF IndexInv, NotRemoved
<1>5. CASE /\ index' \in Index!Written /\ kept' = kept \cup upload.done
           /\ atRisk' = IF Index!Saving = {} THEN atRisk \ upload.done
                        ELSE atRisk \cup upload.done
  <2>1. /\ index' \in SUBSET Index!Records
        /\ \A f \in kept \ atRisk : By(index', f, envelope)
        /\ Index!Saving = {} => index' = upload.copy
    <3>1. PICK records \in Index!Written : index' = records
      BY <1>5
    <3> QED BY <3>1, WrittenKeeps
  <2>2. IndexTypes'
    BY <1>1, <1>2, <1>5, <2>1 DEF IndexInv, IndexTypes
  <2>3. CASE Index!Saving = {}
    <3>1. kept' \ atRisk' \subseteq (kept \ atRisk) \cup upload.done
      BY <1>5, <2>3
    <3>2. RemovalKeeps'
      BY <1>1, <2>3 DEF RemovalKeeps, Index!Saving
    <3>3. IndexKeeps'
      BY <1>1, <1>2, <2>1, <2>3, <3>1
      DEF IndexInv, UploadKeeps, IndexKeeps
    <3> QED BY <1>3, <1>4, <1>5, <2>2, <3>2, <3>3 DEF IndexInv
  <2>4. CASE Index!Saving # {}
    <3>1. kept' \ atRisk' \subseteq kept \ atRisk
      BY <1>5, <2>4
    <3>2. RemovalKeeps' /\ IndexKeeps'
      BY <1>1, <2>1, <3>1 DEF IndexInv, RemovalKeeps, IndexKeeps
    <3> QED BY <1>3, <1>4, <1>5, <2>2, <3>2 DEF IndexInv
  <2> QED BY <2>3, <2>4
<1>6. CASE index' = {} /\ kept' = kept \cup upload.done /\ atRisk' = kept'
  <2>1. IndexTypes' /\ RemovalKeeps' /\ IndexKeeps'
    BY <1>1, <1>2, <1>6 DEF IndexInv, IndexTypes, RemovalKeeps, IndexKeeps
  <2> QED BY <1>3, <1>4, <1>6, <2>1 DEF IndexInv
<1>7. CASE UNCHANGED <<index, kept, atRisk>>
  <2>1. IndexTypes' /\ RemovalKeeps' /\ IndexKeeps'
    BY <1>1, <1>7 DEF IndexInv, IndexTypes, RemovalKeeps, IndexKeeps
  <2> QED BY <1>3, <1>4, <1>7, <2>1 DEF IndexInv
<1> QED BY <1>5, <1>6, <1>7 DEF Index!SaveUpload

LEMMA IndexRemove ==
    ASSUME IndexInv, NEW d \in Removals, NEW f \in Files, Index!Remove(d, f)
    PROVE  IndexInv'
<1> DEFINE r == [at |-> "unpin", cid |-> f, copy |-> {}]
<1>1. /\ removal[d].at = "idle" /\ removal' = [removal EXCEPT ![d] = r]
      /\ kept' = kept \ {f} /\ atRisk' = atRisk \ {f}
      /\ upload' = [upload EXCEPT !.done = @ \ {f}]
      /\ UNCHANGED <<index, pinned, envelope, keys, exposed>>
  <2>1. ASSUME NEW new, new = [Index!NoRemoval EXCEPT !.at = "unpin", !.cid = f]
        PROVE  new = r
    BY <2>1 DEF Index!NoRemoval
  <2> QED BY <2>1 DEF Index!Remove, Index!keyVars
<1>2. r \in RemovalType /\ r.at = "unpin" /\ r.cid = f
  BY DEF RemovalType
<1> HIDE DEF r
<1>3. /\ removal' \in [Removals -> RemovalType] /\ removal'[d] = r
      /\ \A e \in Removals \ {d} : removal'[e] = removal[e]
  BY <1>1, <1>2, RemovalGoes DEF IndexInv, IndexTypes
<1>4. upload' = [at |-> upload.at, encrypt |-> upload.encrypt,
                 wanted |-> upload.wanted, left |-> upload.left,
                 done |-> upload.done \ {f}, key |-> upload.key,
                 copy |-> upload.copy]
  BY <1>1 DEF IndexInv, IndexTypes, UploadType
<1>5. upload' \in UploadType
  BY <1>4 DEF IndexInv, IndexTypes, UploadType
<1>6. IndexTypes'
  BY <1>1, <1>3, <1>5 DEF IndexInv, IndexTypes
<1>7. Wraps'
  BY <1>1, <1>4 DEF IndexInv, Wraps
<1>8. NotRemoved'
  BY <1>1, <1>2, <1>3, <1>4 DEF IndexInv, NotRemoved
<1>9. kept' \ atRisk' \subseteq kept \ atRisk
  BY <1>1
<1>10. UploadKeeps' /\ RemovalKeeps' /\ IndexKeeps'
  BY <1>1, <1>2, <1>3, <1>4, <1>9
  DEF IndexInv, UploadKeeps, RemovalKeeps, IndexKeeps
<1> QED BY <1>6, <1>7, <1>8, <1>10 DEF IndexInv

LEMMA IndexUnpin ==
    ASSUME IndexInv, NEW d \in Removals, Index!Unpin(d)
    PROVE  IndexInv'
<1>1. /\ removal[d].at = "unpin"
      /\ pinned' \in {pinned, pinned \ {removal[d].cid}}
      /\ removal' = [removal EXCEPT ![d] = [removal[d] EXCEPT !.at = "load"]]
      /\ UNCHANGED <<upload, index, envelope, keys, kept, atRisk, exposed>>
  BY DEF Index!Unpin, Index!keyVars, Index!history
<1>2. /\ [removal[d] EXCEPT !.at = "load"] \in RemovalType
      /\ [removal[d] EXCEPT !.at = "load"].at = "load"
      /\ [removal[d] EXCEPT !.at = "load"].cid = removal[d].cid
  BY DEF IndexInv, IndexTypes, RemovalType
<1>3. /\ removal' \in [Removals -> RemovalType]
      /\ removal'[d].at = "load" /\ removal'[d].cid = removal[d].cid
      /\ \A e \in Removals \ {d} : removal'[e] = removal[e]
  BY <1>1, <1>2, RemovalGoes DEF IndexInv, IndexTypes
<1>4. removal[d].cid \notin kept \cup upload.done
  BY <1>1 DEF IndexInv, NotRemoved
<1>5. IndexTypes' /\ Wraps'
  BY <1>1, <1>3 DEF IndexInv, IndexTypes, Wraps
<1>6. NotRemoved'
  BY <1>1, <1>3 DEF IndexInv, NotRemoved
<1>7. UploadKeeps' /\ RemovalKeeps' /\ IndexKeeps'
  BY <1>1, <1>3, <1>4 DEF IndexInv, UploadKeeps, RemovalKeeps, IndexKeeps
<1> QED BY <1>5, <1>6, <1>7 DEF IndexInv

LEMMA IndexLoadRemoval ==
    ASSUME IndexInv, NEW d \in Removals, Index!LoadForRemoval(d)
    PROVE  IndexInv'
<1>1. PICK records \in Index!Loaded :
        /\ removal' = [removal EXCEPT ![d].at = "save",
                         ![d].copy = Index!Without(records, removal[d].cid)]
        /\ atRisk' = Index!AtRiskAfter(records)
  BY DEF Index!LoadForRemoval
<1> DEFINE r == [at |-> "save", cid |-> removal[d].cid,
                 copy |-> Index!Without(records, removal[d].cid)]
<1>2. /\ removal[d].at = "load" /\ removal \in [Removals -> RemovalType]
      /\ UNCHANGED <<upload, index, pinned, envelope, keys, kept, exposed>>
  BY DEF Index!LoadForRemoval, Index!keyVars, IndexInv, IndexTypes
<1>3. removal' = [removal EXCEPT ![d] = r]
  <2>1. removal[d] = [at |-> removal[d].at, cid |-> removal[d].cid,
                      copy |-> removal[d].copy]
    BY <1>2 DEF RemovalType
  <2>2. /\ removal' \in [Removals -> {removal'[e] : e \in Removals}]
        /\ \A e \in Removals \ {d} : removal'[e] = removal[e]
    BY <1>1, <1>2
  <2>3. removal'[d] = r
    BY <1>1, <1>2, <2>1
  <2> QED BY <1>2, <2>2, <2>3
<1>4. /\ records \in SUBSET Index!Records /\ atRisk' \subseteq kept'
      /\ kept' \ atRisk' \subseteq kept \ atRisk
      /\ \A f \in kept' \ atRisk' : By(records, f, envelope)
  BY <1>1, <1>2, LoadedKeeps
<1>5. /\ r \in RemovalType /\ r.at = "save" /\ r.cid = removal[d].cid
      /\ \A g : By(records, g, envelope) /\ g # removal[d].cid
           => By(r.copy, g, envelope)
  BY <1>2, <1>4, ByWithout DEF RemovalType
<1> HIDE DEF r
<1>6. /\ removal' \in [Removals -> RemovalType] /\ removal'[d] = r
      /\ \A e \in Removals \ {d} : removal'[e] = removal[e]
  BY <1>2, <1>3, <1>5, RemovalGoes
<1>7. removal[d].cid \notin kept
  BY <1>2 DEF IndexInv, NotRemoved
<1>8. IndexTypes' /\ Wraps'
  BY <1>2, <1>4, <1>6 DEF IndexInv, IndexTypes, Wraps
<1>9. NotRemoved'
  BY <1>2, <1>5, <1>6 DEF IndexInv, NotRemoved
<1>10. UploadKeeps' /\ IndexKeeps'
  BY <1>2, <1>4 DEF IndexInv, UploadKeeps, IndexKeeps
<1>11. RemovalKeeps'
  BY <1>2, <1>4, <1>5, <1>6, <1>7 DEF IndexInv, RemovalKeeps
<1> QED BY <1>8, <1>9, <1>10, <1>11 DEF IndexInv

\* Whatever save the index comes from, it has the files that are not at risk.
LEMMA SavedKeeps ==
    ASSUME IndexInv, UNCHANGED <<pinned, envelope, keys, kept, exposed>>,
           \/ index' \in {index} \cup Index!Written /\ UNCHANGED atRisk
           \/ index' = {} /\ atRisk' = kept
    PROVE  /\ index' \subseteq Index!Records /\ atRisk' \subseteq kept'
           /\ kept' \ atRisk' \subseteq kept \ atRisk /\ IndexKeeps'
<1>1. CASE index' \in Index!Written /\ UNCHANGED atRisk
  <2>1. PICK records \in Index!Written : index' = records
    BY <1>1
  <2> QED BY <1>1, <2>1, WrittenKeeps DEF IndexInv, IndexTypes, IndexKeeps
<1>2. CASE index' = index /\ UNCHANGED atRisk
  BY <1>2 DEF IndexInv, IndexTypes, IndexKeeps
<1>3. CASE index' = {} /\ atRisk' = kept
  BY <1>3 DEF IndexKeeps
<1> QED BY <1>1, <1>2, <1>3

LEMMA IndexSaveRemoval ==
    ASSUME IndexInv, NEW d \in Removals, Index!SaveRemoval(d)
    PROVE  IndexInv'
<1>1. /\ removal' = [removal EXCEPT ![d] = Index!NoRemoval]
      /\ UNCHANGED <<upload, pinned, envelope, keys, kept, exposed>>
      /\ \/ index' \in {index} \cup Index!Written /\ UNCHANGED atRisk
         \/ index' = {} /\ atRisk' = kept
  BY DEF Index!SaveRemoval, Index!keyVars
<1>2. /\ index' \subseteq Index!Records /\ atRisk' \subseteq kept'
      /\ kept' \ atRisk' \subseteq kept \ atRisk /\ IndexKeeps'
  BY <1>1, SavedKeeps
<1>3. /\ removal' \in [Removals -> RemovalType] /\ removal'[d].at = "idle"
      /\ \A e \in Removals \ {d} : removal'[e] = removal[e]
  BY <1>1, IndexRecords, RemovalGoes DEF IndexInv, IndexTypes
<1>4. IndexTypes' /\ Wraps' /\ NotRemoved'
  BY <1>1, <1>2, <1>3 DEF IndexInv, IndexTypes, Wraps, NotRemoved
<1>5. UploadKeeps' /\ RemovalKeeps'
  BY <1>1, <1>2, <1>3 DEF IndexInv, UploadKeeps, RemovalKeeps
<1> QED BY <1>2, <1>4, <1>5 DEF IndexInv

LEMMA IndexCrash ==
    ASSUME IndexInv, Index!Crash
    PROVE  IndexInv'
<1>1. /\ upload' = Index!NoUpload
      /\ removal' = [d \in Removals |-> Index!NoRemoval]
      /\ UNCHANGED <<pinned, envelope, keys, kept, exposed>>
      /\ \/ index' \in {index} \cup Index!Written /\ UNCHANGED atRisk
         \/ index' = {} /\ atRisk' = kept
  BY DEF Index!Crash, Index!keyVars
<1>2. /\ index' \subseteq Index!Records /\ atRisk' \subseteq kept'
      /\ kept' \ atRisk' \subseteq kept \ atRisk /\ IndexKeeps'
  BY <1>1, SavedKeeps
<1>3. /\ upload' \in UploadType /\ upload'.at = "idle" /\ upload'.done = {}
      /\ removal' \in [Removals -> RemovalType]
      /\ \A d \in Removals : removal'[d].at = "idle"
  BY <1>1, IndexRecords
<1>4. IndexTypes' /\ Wraps' /\ NotRemoved' /\ UploadKeeps' /\ RemovalKeeps'
  BY <1>1, <1>2, <1>3
  DEF IndexInv, IndexTypes, Wraps, NotRemoved, UploadKeeps, RemovalKeeps
<1> QED BY <1>2, <1>4 DEF IndexInv

LEMMA IndexInit == Index!Init => IndexInv
BY IndexRecords
DEF Index!Init, IndexInv, IndexTypes, Wraps, NotRemoved, UploadKeeps,
    RemovalKeeps, IndexKeeps

LEMMA IndexNext ==
    ASSUME IndexInv, Index!Next
    PROVE  IndexInv'
<1>1. CASE \/ Index!UploadFile \/ Index!PickFiles \/ Index!LoadEnvelope
           \/ Index!LoadIndex \/ Index!SaveUpload \/ Index!Crash
  BY <1>1, IndexUpload, IndexPick, IndexEnvelope, IndexLoad, IndexSave, IndexCrash
<1>2. ASSUME NEW f \in Files, Index!AddFile(f) PROVE IndexInv'
  BY <1>2, IndexAdd
<1>3. ASSUME NEW d \in Removals,
             \/ \E f \in Files : Index!Remove(d, f)
             \/ Index!Unpin(d) \/ Index!LoadForRemoval(d) \/ Index!SaveRemoval(d)
      PROVE  IndexInv'
  BY <1>3, IndexRemove, IndexUnpin, IndexLoadRemoval, IndexSaveRemoval
<1> QED BY <1>1, <1>2, <1>3 DEF Index!Next

LEMMA IndexStutter ==
    ASSUME IndexInv, UNCHANGED indexVars
    PROVE  IndexInv'
BY DEF indexVars, IndexInv, IndexTypes, Wraps, NotRemoved, UploadKeeps,
       RemovalKeeps, IndexKeeps

LEMMA IndexInvariant ==
    ServicesSpec => [](focus = "index" => IndexInv)
<1> DEFINE I == focus = "index" => IndexInv
<1>1. ServicesInit => I
  BY IndexInit DEF ServicesInit
<1>2. I /\ [ServicesNext]_serviceVars => I'
  <2>1. CASE ServicesNext
    BY <2>1, IndexNext DEF ServicesNext
  <2>2. CASE UNCHANGED serviceVars
    BY <2>2, IndexStutter DEF serviceVars
  <2> QED BY <2>1, <2>2
<1> QED BY <1>1, <1>2, PTL DEF ServicesSpec

\* A file that was uploaded and not removed stays listed, pinned and readable,
\* over failures, overlapping removals and crashes, unless it is one of those at
\* risk: kept when the index was read as empty, when the envelope key was
\* replaced or when two saves met, or saved while a removal held an older copy.
THEOREM FilesSafety == ServicesSpec => []FilesKept
<1>1. (focus = "index" => IndexInv) => FilesKept
  BY IndexParts DEF FilesKept, Index!IInv
<1> QED BY <1>1, IndexInvariant, PTL

\* No file of an upload that was begun with the toggle on is added in the clear,
\* whatever the toggle shows later and whatever the keyring answers.
THEOREM PrivacySafety == ServicesSpec => []PrivateUploadsSealed
<1>1. (focus = "index" => IndexInv) => PrivateUploadsSealed
  BY IndexParts DEF PrivateUploadsSealed, Index!IInv
<1> QED BY <1>1, IndexInvariant, PTL

-----------------------------------------------------------------------------
(* ModelPublish                                                            *)

PublishPoints == {"idle", "init", "consent", "send", "mark", "poll", "receipt",
                  "readback", "registry", "compare", "over"}
Seen == Publish!Owners \cup {"ok", "reverted", "pooled"}
Transactions == Publications \cup {"none"}
PublicationType ==
    [at : PublishPoints, model : Models, polls : 0 .. MaxPolls,
     tx : Transactions, seen : Seen, reads : Models, cid : BOOLEAN]
RecordType ==
    [state : Publish!States, model : Models, cid : BOOLEAN, tx : Transactions,
     by : Transactions]
Fates == {"none", "pooled", "ok", "reverted"}

LEMMA PublishTyped ==
    Publish!TypeOK =>
      /\ publication \in [Publications -> PublicationType]
      /\ record \in RecordType /\ mined \in [Publications -> Fates]
BY DEF Publish!TypeOK, PublicationType, PublishPoints, Seen, Transactions,
       RecordType, Fates

LEMMA PublishRecords ==
    /\ Publish!Idle \in PublicationType /\ Publish!Idle.at = "idle"
    /\ Publish!NoRecord \in RecordType /\ Publish!NoRecord.state = "none"
    /\ Publish!NoRecord.tx = "none" /\ Publish!NoRecord.by = "none"
<1>1. Publish!NoModel \in Models
  BY PublishAssumption DEF Publish!NoModel
<1>2. 0 \in 0 .. MaxPolls
  BY PublishAssumption
<1> QED BY <1>1, <1>2
        DEF PublicationType, PublishPoints, Seen, Transactions, RecordType,
            Publish!Idle, Publish!NoRecord, Publish!Owners, Publish!States

\* One publication moves, of the same model unless it begins.
PublicationAt(p, point, model) ==
    /\ publication' \in [Publications -> PublicationType]
    /\ \A q \in Publications \ {p} : publication'[q] = publication[q]
    /\ publication'[p].at = point /\ publication'[p].model = model

LEMMA PublicationSet ==
    ASSUME publication \in [Publications -> PublicationType],
           NEW p \in Publications, NEW new \in PublicationType,
           publication' = [publication EXCEPT ![p] = new]
    PROVE  PublicationAt(p, new.at, new.model) /\ publication'[p] = new
BY DEF PublicationAt

LEMMA PublicationGoes ==
    ASSUME publication \in [Publications -> PublicationType],
           NEW p \in Publications, NEW point \in PublishPoints,
           Publish!Goes(p, point)
    PROVE  PublicationAt(p, point, publication[p].model)
           /\ publication'[p].seen = publication[p].seen
BY DEF Publish!Goes, PublicationAt, PublicationType

LEMMA PublicationBegins ==
    ASSUME NEW m \in Models
    PROVE  LET new == [Publish!Idle EXCEPT !.at = "init", !.model = m]
           IN  new \in PublicationType /\ new.at = "init" /\ new.model = m
<1>1. ASSUME NEW new, new = [Publish!Idle EXCEPT !.at = "init", !.model = m]
      PROVE  new = [at |-> "init", model |-> m, polls |-> 0, tx |-> "none",
                    seen |-> "none", reads |-> Publish!NoModel, cid |-> FALSE]
  BY <1>1 DEF Publish!Idle
<1>2. Publish!NoModel \in Models /\ 0 \in 0 .. MaxPolls
  BY PublishAssumption DEF Publish!NoModel
<1>3. [at |-> "init", model |-> m, polls |-> 0, tx |-> "none", seen |-> "none",
       reads |-> Publish!NoModel, cid |-> FALSE] \in PublicationType
  BY <1>2 DEF PublicationType, PublishPoints, Seen, Transactions, Publish!Owners
<1> QED BY <1>1, <1>3 DEF Publish!Idle

LEMMA PublicationPolls ==
    ASSUME publication \in [Publications -> PublicationType],
           NEW p \in Publications, NEW tx \in Publications, NEW fate \in Fates,
           publication[p].polls # MaxPolls,
           publication' = [publication EXCEPT ![p] =
             [@ EXCEPT !.at = "receipt", !.polls = publication[p].polls + 1, !.tx = tx,
                       !.seen = fate]]
    PROVE  PublicationAt(p, "receipt", publication[p].model)
           /\ publication'[p].seen = fate
<1> DEFINE new == [at |-> "receipt", model |-> publication[p].model,
                   polls |-> publication[p].polls + 1, tx |-> tx,
                   seen |-> fate, reads |-> publication[p].reads,
                   cid |-> publication[p].cid]
<1>1. publication'[p] = new
  <2>1. publication[p] \in PublicationType
    OBVIOUS
  <2>2. publication'[p] = [publication[p] EXCEPT !.at = "receipt",
                                !.polls = publication[p].polls + 1,
                                !.tx = tx, !.seen = fate]
    OBVIOUS
  <2> QED BY <2>1, <2>2 DEF PublicationType
<1>2. publication[p].polls + 1 \in 0 .. MaxPolls
  BY PublishAssumption DEF PublicationType
<1>3. fate \in Seen /\ tx \in Transactions /\ "receipt" \in PublishPoints
  BY DEF Fates, Seen, Publish!Owners, Transactions, PublishPoints
<1>4. new \in PublicationType
  BY <1>2, <1>3 DEF PublicationType
<1>5. new.at = "receipt" /\ new.model = publication[p].model /\ new.seen = fate
  OBVIOUS
<1> HIDE DEF new
<1>9. \A q \in Publications \ {p} : publication'[q] = publication[q]
  OBVIOUS
<1>8. publication' = [publication EXCEPT ![p] = publication'[p]]
  OBVIOUS
<1> QED BY <1>1, <1>4, <1>5, <1>8, <1>9 DEF PublicationAt

LEMMA PublicationReads ==
    ASSUME publication \in [Publications -> PublicationType],
           NEW p \in Publications, record \in RecordType,
           publication' = [publication EXCEPT ![p] =
             [@ EXCEPT !.at = "registry", !.reads = record.model,
                       !.cid = record.cid]]
    PROVE  PublicationAt(p, "registry", publication[p].model)
<1> DEFINE new == [at |-> "registry", model |-> publication[p].model,
                   polls |-> publication[p].polls, tx |-> publication[p].tx,
                   seen |-> publication[p].seen, reads |-> record.model,
                   cid |-> record.cid]
<1>1. publication'[p] = new
  <2>1. publication[p] \in PublicationType
    OBVIOUS
  <2>2. publication'[p] = [publication[p] EXCEPT !.at = "registry",
                                !.reads = record.model,
                                !.cid = record.cid]
    OBVIOUS
  <2> QED BY <2>1, <2>2 DEF PublicationType
<1>2. new \in PublicationType
  BY DEF PublicationType, PublishPoints, RecordType
<1>3. new.at = "registry" /\ new.model = publication[p].model
  OBVIOUS
<1> HIDE DEF new
<1>9. \A q \in Publications \ {p} : publication'[q] = publication[q]
  OBVIOUS
<1>8. publication' = [publication EXCEPT ![p] = publication'[p]]
  OBVIOUS
<1> QED BY <1>1, <1>2, <1>3, <1>8, <1>9 DEF PublicationAt

LEMMA PublicationSees ==
    ASSUME NEW old \in PublicationType, NEW owner \in Publish!Owners
    PROVE  LET new == [old EXCEPT !.at = "compare", !.seen = owner]
           IN  /\ new \in PublicationType /\ new.at = "compare"
               /\ new.model = old.model
<1>1. ASSUME NEW new, new = [old EXCEPT !.at = "compare", !.seen = owner]
      PROVE  new = [at |-> "compare", model |-> old.model, polls |-> old.polls,
                    tx |-> old.tx, seen |-> owner, reads |-> old.reads,
                    cid |-> old.cid]
  BY <1>1 DEF PublicationType
<1>2. [at |-> "compare", model |-> old.model, polls |-> old.polls,
       tx |-> old.tx, seen |-> owner, reads |-> old.reads, cid |-> old.cid]
         \in PublicationType
  BY DEF PublicationType, PublishPoints, Seen
<1> QED BY <1>1, <1>2 DEF PublicationType

\* The record after a step: its state, transaction, publication and model.
RecordIs(state, tx, by, model) ==
    /\ record' \in RecordType /\ record'.state = state /\ record'.tx = tx
    /\ record'.by = by /\ record'.model = model

LEMMA RecordBegins ==
    ASSUME NEW p \in Publications, NEW m \in Models,
           record' = [Publish!NoRecord EXCEPT !.state = "hashed", !.by = p,
                                              !.model = m]
    PROVE  RecordIs("hashed", "none", p, m)
<1>1. record' = [state |-> "hashed", model |-> m, cid |-> FALSE, tx |-> "none",
                 by |-> p]
  BY DEF Publish!NoRecord
<1>2. [state |-> "hashed", model |-> m, cid |-> FALSE, tx |-> "none", by |-> p]
        \in RecordType
  BY DEF RecordType, Transactions, Publish!States
<1> QED BY <1>1, <1>2 DEF RecordIs, Publish!NoRecord

LEMMA RecordPinned ==
    ASSUME record \in RecordType,
           record' = [record EXCEPT !.state = "pinned", !.cid = TRUE]
    PROVE  RecordIs("pinned", record.tx, record.by, record.model)
<1>1. record' = [state |-> "pinned", model |-> record.model, cid |-> TRUE,
                 tx |-> record.tx, by |-> record.by]
  BY DEF RecordType
<1> QED BY <1>1 DEF RecordType, Publish!States, RecordIs

LEMMA RecordSubmitted ==
    ASSUME record \in RecordType, NEW p \in Publications,
           record' = [record EXCEPT !.state = "submitted", !.tx = p]
    PROVE  RecordIs("submitted", p, record.by, record.model)
<1>1. record' = [state |-> "submitted", model |-> record.model,
                 cid |-> record.cid, tx |-> p, by |-> record.by]
  BY DEF RecordType
<1> QED BY <1>1 DEF RecordType, Publish!States, Transactions, RecordIs

LEMMA RecordSettled ==
    ASSUME record \in RecordType, NEW state \in Publish!States,
           record' = [record EXCEPT !.state = state]
    PROVE  RecordIs(state, record.tx, record.by, record.model)
<1>1. record' = [state |-> state, model |-> record.model,
                 cid |-> record.cid, tx |-> record.tx, by |-> record.by]
  BY DEF RecordType
<1> QED BY <1>1 DEF RecordType, RecordIs

LEMMA RecordUnchanged ==
    ASSUME record \in RecordType, UNCHANGED record
    PROVE  RecordIs(record.state, record.tx, record.by, record.model)
BY DEF RecordIs

\* A step of a publication under way that keeps its own side of the invariant
\* keeps all of it.
LEMMA PublishMoves ==
    ASSUME Publish!IInv, NEW p \in Publications, NEW point \in PublishPoints,
           NEW fate \in Fates, Publish!UnderWay(p),
           PublicationAt(p, point, publication[p].model),
           record' \in RecordType,
           mined' = [mined EXCEPT ![p] = fate], fate = "ok" <=> mined[p] = "ok",
           point \in {"idle", "init", "consent", "send"} => fate = "none",
           UNCHANGED <<registry, crossedRecords>>,
           ~crossedRecords => Publish!RecordOwn(p)',
           Publish!Confirmed', Publish!Evidence'
    PROVE  Publish!IInv'
<1> USE PublishTyped DEF Publish!IInv
<1>1. /\ publication \in [Publications -> PublicationType]
      /\ mined \in [Publications -> Fates]
  OBVIOUS
<1>2. /\ mined' \in [Publications -> Fates] /\ mined'[p] = fate
      /\ \A q \in Publications \ {p} : mined'[q] = mined[q]
  BY <1>1
<1>3. /\ publication' \in [Publications -> PublicationType]
      /\ \A q \in Publications \ {p} : publication'[q] = publication[q]
      /\ publication'[p].at = point
      /\ publication'[p].model = publication[p].model
  BY DEF PublicationAt
<1>4. Publish!TypeOK'
  BY <1>2, <1>3 DEF Publish!TypeOK, PublicationType, PublishPoints, Seen,
                    Transactions, RecordType, Fates
<1>5. Publish!SentOnce'
  BY <1>2, <1>3 DEF Publish!SentOnce, Publish!Among
<1>6. Publish!OwnedWhenMined'
  BY <1>2, <1>3 DEF Publish!OwnedWhenMined
<1>7. Publish!Uncrossed'
  <2> SUFFICES ASSUME ~crossedRecords
               PROVE  Publish!Alone' /\ \A q \in Publications :
                                          Publish!RecordOwn(q)'
    BY DEF Publish!Uncrossed
  <2>1. Publish!Alone
    BY DEF Publish!Uncrossed
  <2>2. \A q \in Publications \ {p} : ~Publish!UnderWay(q)
    BY <2>1 DEF Publish!Alone
  <2>3. \A q \in Publications \ {p} : publication'[q].at \in {"idle", "over"}
    BY <2>2, <1>3 DEF Publish!UnderWay
  <2>4. Publish!Alone'
    BY <2>3 DEF Publish!Alone, Publish!UnderWay
  <2>5. ASSUME NEW q \in Publications \ {p} PROVE Publish!RecordOwn(q)'
    BY <2>3 DEF Publish!RecordOwn, Publish!Among, Publish!At, Publish!UnderWay
  <2> QED BY <2>4, <2>5
<1> QED BY <1>4, <1>5, <1>6, <1>7

\* What the invariant says of the one publication under way.
LEMMA PublishFacts ==
    ASSUME Publish!IInv, NEW p \in Publications
    PROVE  /\ publication \in [Publications -> PublicationType]
           /\ publication[p] \in PublicationType
           /\ record \in RecordType /\ mined \in [Publications -> Fates]
           /\ registry \in [Models -> Publish!Owners]
           /\ crossedRecords \in BOOLEAN
           /\ publication[p].at \in {"idle", "init", "consent", "send"} =>
                mined[p] = "none"
           /\ mined[p] = "ok" => registry[publication[p].model] = "me"
           /\ ~crossedRecords => Publish!RecordOwn(p)
           /\ record.state \in {"confirmed", "verified"} /\ ~crossedRecords =>
                /\ record.tx = record.by /\ record.by \in Publications
                /\ mined[record.by] = "ok" /\ registry[record.model] = "me"
BY PublishTyped DEF Publish!IInv, Publish!TypeOK, Publish!SentOnce,
       Publish!Among, Publish!OwnedWhenMined, Publish!Uncrossed,
       Publish!Confirmed, Publish!Evidence

\* A record that does not claim a confirmation owes none.
LEMMA NothingClaimed ==
    ASSUME record'.state \notin {"confirmed", "verified"}
    PROVE  Publish!Confirmed' /\ Publish!Evidence'
BY DEF Publish!Confirmed, Publish!Evidence

\* A confirmation that stands keeps its evidence.
LEMMA ClaimKept ==
    ASSUME Publish!IInv, UNCHANGED <<mined, registry, crossedRecords>>,
           record'.tx = record.tx, record'.by = record.by,
           record'.model = record.model,
           record.state \in {"confirmed", "verified"}
             \/ record'.state \notin {"confirmed", "verified"}
    PROVE  Publish!Confirmed' /\ Publish!Evidence'
BY DEF Publish!IInv, Publish!Confirmed, Publish!Evidence

LEMMA InitPublishKeeps ==
    ASSUME Publish!IInv, NEW p \in Publications, Publish!InitPublish(p)
    PROVE  Publish!IInv'
<1> USE PublishFacts
<1>1. Publish!Goes(p, "consent") /\ Publish!UnderWay(p)
  BY DEF Publish!InitPublish, Publish!At, Publish!UnderWay
<1>2. PublicationAt(p, "consent", publication[p].model)
  BY <1>1, PublicationGoes DEF PublishPoints
<1>3. publication[p].model \in Models
  BY DEF PublicationType
<1>4. RecordIs("hashed", "none", p, publication[p].model)
  BY <1>3, RecordBegins DEF Publish!InitPublish
<1>5. Publish!RecordOwn(p)'
  BY <1>2, <1>4 DEF Publish!RecordOwn, Publish!Among, Publish!At,
        PublicationAt, RecordIs
<1>6. Publish!Confirmed' /\ Publish!Evidence'
  BY <1>4, NothingClaimed DEF RecordIs
<1>7. mined' = [mined EXCEPT ![p] = mined[p]] /\ mined[p] = "none"
  BY DEF Publish!InitPublish, Publish!At
<1>8. "consent" \in PublishPoints /\ "none" \in Fates /\ record' \in RecordType
  BY <1>4 DEF PublishPoints, Fates, RecordIs
<1>9. UNCHANGED <<registry, crossedRecords>>
  BY DEF Publish!InitPublish
<1> QED BY <1>1, <1>2, <1>5, <1>6, <1>7, <1>8, <1>9, PublishMoves

LEMMA MarkPinnedKeeps ==
    ASSUME Publish!IInv, NEW p \in Publications, Publish!MarkPinned(p)
    PROVE  Publish!IInv'
<1> USE PublishFacts
<1>1. Publish!UnderWay(p) /\ publication[p].at = "consent" /\ mined[p] = "none"
  BY DEF Publish!MarkPinned, Publish!At, Publish!UnderWay
<1>2. PublicationAt(p, "consent", publication[p].model)
  BY <1>1 DEF Publish!MarkPinned, PublicationAt
<1>3. RecordIs("pinned", record.tx, record.by, record.model)
  BY RecordPinned DEF Publish!MarkPinned
<1>4. ~crossedRecords => Publish!RecordOwn(p)'
  BY <1>1, <1>2, <1>3
     DEF Publish!RecordOwn, Publish!Among, Publish!At, Publish!UnderWay,
         PublicationAt, RecordIs
<1>5. Publish!Confirmed' /\ Publish!Evidence'
  BY <1>3, NothingClaimed DEF RecordIs
<1>6. mined' = [mined EXCEPT ![p] = mined[p]]
  BY DEF Publish!MarkPinned
<1>7. "consent" \in PublishPoints /\ "none" \in Fates /\ record' \in RecordType
  BY <1>3 DEF PublishPoints, Fates, RecordIs
<1>8. UNCHANGED <<registry, crossedRecords>>
  BY DEF Publish!MarkPinned
<1> QED BY <1>1, <1>2, <1>4, <1>5, <1>6, <1>7, <1>8, PublishMoves

LEMMA PublishConsentKeeps ==
    ASSUME Publish!IInv, NEW p \in Publications, Publish!Consent(p)
    PROVE  Publish!IInv'
<1> USE PublishFacts
<1>1. Publish!UnderWay(p) /\ publication[p].at = "consent" /\ mined[p] = "none"
  BY DEF Publish!Consent, Publish!At, Publish!UnderWay
<1>2. PICK point \in {"send", "over"} : Publish!Goes(p, point)
  BY DEF Publish!Consent
<1>3. point \in PublishPoints
  BY DEF PublishPoints
<1>4. PublicationAt(p, point, publication[p].model)
  BY <1>2, <1>3, PublicationGoes
<1>5. /\ UNCHANGED <<record, registry, crossedRecords>>
      /\ mined' = [mined EXCEPT ![p] = mined[p]] /\ UNCHANGED mined
  BY DEF Publish!Consent
<1>6. ~crossedRecords => Publish!RecordOwn(p)'
  BY <1>1, <1>4, <1>5
     DEF Publish!RecordOwn, Publish!Among, Publish!At, Publish!UnderWay,
         PublicationAt
<1>7. Publish!Confirmed' /\ Publish!Evidence'
  BY <1>5 DEF Publish!IInv, Publish!Confirmed, Publish!Evidence
<1>8. mined[p] \in Fates /\ record' \in RecordType
  BY <1>5
<1> QED BY <1>1, <1>3, <1>4, <1>5, <1>6, <1>7, <1>8, PublishMoves

LEMMA SendRegisterKeeps ==
    ASSUME Publish!IInv, NEW p \in Publications, Publish!SendRegister(p)
    PROVE  Publish!IInv'
<1> USE PublishFacts
<1>1. Publish!UnderWay(p) /\ publication[p].at = "send" /\ mined[p] = "none"
  BY DEF Publish!SendRegister, Publish!At, Publish!UnderWay
<1>2. PICK point \in {"mark", "over"}, fate \in {"pooled", "none"} :
         Publish!Goes(p, point) /\ mined' = [mined EXCEPT ![p] = fate]
  BY <1>1 DEF Publish!SendRegister
<1>3. point \in PublishPoints /\ fate \in Fates
  BY DEF PublishPoints, Fates
<1>4. PublicationAt(p, point, publication[p].model)
  BY <1>2, <1>3, PublicationGoes
<1>5. UNCHANGED <<record, registry, crossedRecords>>
  BY DEF Publish!SendRegister
<1>6. ~crossedRecords => Publish!RecordOwn(p)'
  BY <1>1, <1>2, <1>4, <1>5
     DEF Publish!RecordOwn, Publish!Among, Publish!At, Publish!UnderWay,
         PublicationAt
<1>7. Publish!Confirmed' /\ Publish!Evidence'
  <2> SUFFICES ASSUME record'.state \in {"confirmed", "verified"},
                      ~crossedRecords'
               PROVE  /\ record'.by \in Publications /\ record'.tx = record'.by
                      /\ mined'[record'.by] = "ok"
                      /\ registry'[record'.model] = "me"
    BY DEF Publish!Confirmed, Publish!Evidence
  <2>1. record.state \in {"confirmed", "verified"} /\ ~crossedRecords
    BY <1>5
  <2>2. record.by \in Publications /\ mined[record.by] = "ok"
    BY <2>1
  <2>3. record.by # p
    BY <2>2, <1>1
  <2> QED BY <2>1, <2>2, <2>3, <1>2, <1>5
<1>8. record' \in RecordType
  BY <1>5
<1> QED BY <1>1, <1>2, <1>3, <1>4, <1>5, <1>6, <1>7, <1>8, PublishMoves

LEMMA MarkSubmittedKeeps ==
    ASSUME Publish!IInv, NEW p \in Publications, Publish!MarkSubmitted(p)
    PROVE  Publish!IInv'
<1> USE PublishFacts
<1>1. Publish!UnderWay(p) /\ publication[p].at = "mark"
      /\ Publish!Goes(p, "poll")
  BY DEF Publish!MarkSubmitted, Publish!At, Publish!UnderWay
<1>2. "poll" \in PublishPoints
  BY DEF PublishPoints
<1>3. PublicationAt(p, "poll", publication[p].model)
  BY <1>1, <1>2, PublicationGoes
<1>4. RecordIs("submitted", p, record.by, record.model)
  BY RecordSubmitted DEF Publish!MarkSubmitted
<1>5. ~crossedRecords => Publish!RecordOwn(p)'
  BY <1>1, <1>3, <1>4
     DEF Publish!RecordOwn, Publish!Among, Publish!At, Publish!UnderWay,
         PublicationAt, RecordIs
<1>6. Publish!Confirmed' /\ Publish!Evidence'
  BY <1>4, NothingClaimed DEF RecordIs
<1>7. mined' = [mined EXCEPT ![p] = mined[p]] /\ mined[p] \in Fates
  BY DEF Publish!MarkSubmitted
<1>8. record' \in RecordType /\ UNCHANGED <<registry, crossedRecords>>
  BY <1>4 DEF RecordIs, Publish!MarkSubmitted
<1> QED BY <1>1, <1>2, <1>3, <1>5, <1>6, <1>7, <1>8, PublishMoves

LEMMA PollReceiptKeeps ==
    ASSUME Publish!IInv, NEW p \in Publications, Publish!PollReceipt(p)
    PROVE  Publish!IInv'
<1> USE PublishFacts
<1>1. Publish!UnderWay(p) /\ publication[p].at = "poll"
  BY DEF Publish!PollReceipt, Publish!At, Publish!UnderWay
<1>2. /\ UNCHANGED <<record, mined, registry, crossedRecords>>
      /\ mined' = [mined EXCEPT ![p] = mined[p]] /\ mined[p] \in Fates
  BY DEF Publish!PollReceipt
<1>3. Publish!Confirmed' /\ Publish!Evidence'
  BY <1>2 DEF Publish!IInv, Publish!Confirmed, Publish!Evidence
<1>4. "readback" \in PublishPoints /\ "receipt" \in PublishPoints
  BY DEF PublishPoints
<1>5. CASE publication[p].polls = MaxPolls \/ record.tx = "none"
  <2>1. PublicationAt(p, "readback", publication[p].model)
    BY <1>5, <1>4, PublicationGoes DEF Publish!PollReceipt
  <2>2. ~crossedRecords => Publish!RecordOwn(p)'
    BY <1>1, <1>2, <2>1
       DEF Publish!RecordOwn, Publish!Among, Publish!At, Publish!UnderWay,
           PublicationAt
  <2> QED BY <1>1, <1>2, <1>3, <1>4, <2>1, <2>2, PublishMoves
<1>6. CASE publication[p].polls # MaxPolls /\ record.tx # "none"
  <2>1. publication[p].polls # MaxPolls /\ record.tx \in Publications
    BY <1>6 DEF RecordType, Transactions
  <2>2. mined[record.tx] \in Fates
    BY <2>1
  <2>3. publication' = [publication EXCEPT ![p] =
          [@ EXCEPT !.at = "receipt", !.polls = publication[p].polls + 1,
                    !.tx = record.tx, !.seen = mined[record.tx]]]
    BY <1>6 DEF Publish!PollReceipt
  <2>4. PublicationAt(p, "receipt", publication[p].model)
        /\ publication'[p].seen = mined[record.tx]
    BY <2>1, <2>2, <2>3, PublicationPolls
  <2>5. ~crossedRecords => Publish!RecordOwn(p)'
    BY <1>1, <1>2, <2>4
       DEF Publish!RecordOwn, Publish!Among, Publish!At, Publish!UnderWay,
           PublicationAt
  <2> QED BY <1>1, <1>2, <1>3, <1>4, <2>4, <2>5, PublishMoves
<1> QED BY <1>5, <1>6

LEMMA ReceiptKeeps ==
    ASSUME Publish!IInv, NEW p \in Publications, Publish!Receipt(p)
    PROVE  Publish!IInv'
<1> USE PublishFacts
<1>1. Publish!UnderWay(p) /\ publication[p].at = "receipt"
  BY DEF Publish!Receipt, Publish!At, Publish!UnderWay
<1>2. /\ UNCHANGED <<mined, registry, crossedRecords>>
      /\ mined' = [mined EXCEPT ![p] = mined[p]] /\ mined[p] \in Fates
  BY DEF Publish!Receipt
<1>3. "readback" \in PublishPoints /\ "poll" \in PublishPoints
  BY DEF PublishPoints
<1>4. CASE UNCHANGED record
  <2>1. PICK point \in {"poll", "readback"} : Publish!Goes(p, point)
    BY DEF Publish!Receipt
  <2>2. PublicationAt(p, point, publication[p].model)
    BY <2>1, <1>3, PublicationGoes
  <2>3. ~crossedRecords => Publish!RecordOwn(p)'
    BY <1>1, <1>2, <1>4, <2>2
       DEF Publish!RecordOwn, Publish!Among, Publish!At, Publish!UnderWay,
           PublicationAt
  <2>4. Publish!Confirmed' /\ Publish!Evidence'
    BY <1>2, <1>4 DEF Publish!IInv, Publish!Confirmed, Publish!Evidence
  <2>5. record' \in RecordType /\ point \in PublishPoints
    BY <1>3, <1>4
  <2> QED BY <1>1, <1>2, <2>2, <2>3, <2>4, <2>5, PublishMoves
<1>5. CASE record' # record
  <2> DEFINE verdict == IF publication[p].seen = "ok" THEN "confirmed"
                        ELSE "failed"
  <2>1. record' = [record EXCEPT !.state = verdict] /\ Publish!Goes(p, "readback")
    BY <1>5 DEF Publish!Receipt
  <2>2. verdict \in Publish!States
    BY DEF Publish!States
  <2>3. RecordIs(verdict, record.tx, record.by, record.model)
    BY <2>1, <2>2, RecordSettled
  <2>4. PublicationAt(p, "readback", publication[p].model)
    BY <2>1, <1>3, PublicationGoes
  <2>5. ~crossedRecords => Publish!RecordOwn(p)'
    BY <1>1, <1>2, <2>3, <2>4
       DEF Publish!RecordOwn, Publish!Among, Publish!At, Publish!UnderWay,
           PublicationAt, RecordIs
  <2>6. ~crossedRecords /\ verdict = "confirmed" =>
          /\ record.tx = p /\ record.by = p
          /\ record.model = publication[p].model /\ mined[p] = "ok"
    BY <1>1 DEF Publish!RecordOwn, Publish!Among, Publish!At, Publish!UnderWay
  <2>7. Publish!Confirmed' /\ Publish!Evidence'
    BY <1>2, <2>3, <2>6 DEF RecordIs, Publish!Confirmed, Publish!Evidence
  <2>8. record' \in RecordType
    BY <2>3 DEF RecordIs
  <2> QED BY <1>1, <1>2, <1>3, <2>4, <2>5, <2>7, <2>8, PublishMoves
<1> QED BY <1>4, <1>5

LEMMA ReadbackKeeps ==
    ASSUME Publish!IInv, NEW p \in Publications, Publish!Readback(p)
    PROVE  Publish!IInv'
<1> USE PublishFacts
<1>1. Publish!UnderWay(p) /\ publication[p].at = "readback"
  BY DEF Publish!Readback, Publish!At, Publish!UnderWay
<1>2. /\ UNCHANGED <<record, mined, registry, crossedRecords>>
      /\ mined' = [mined EXCEPT ![p] = mined[p]] /\ mined[p] \in Fates
  BY DEF Publish!Readback
<1>3. Publish!Confirmed' /\ Publish!Evidence'
  BY <1>2 DEF Publish!IInv, Publish!Confirmed, Publish!Evidence
<1>4. "registry" \in PublishPoints /\ "over" \in PublishPoints
  BY DEF PublishPoints
<1>5. CASE record.state = "confirmed"
  <2>4. PublicationAt(p, "registry", publication[p].model)
    BY <1>5, PublicationReads DEF Publish!Readback
  <2>5. ~crossedRecords => Publish!RecordOwn(p)'
    BY <1>1, <1>2, <1>5, <2>4
       DEF Publish!RecordOwn, Publish!Among, Publish!At, Publish!UnderWay,
           PublicationAt
  <2> QED BY <1>1, <1>2, <1>3, <1>4, <2>4, <2>5, PublishMoves
<1>6. CASE record.state # "confirmed"
  <2>1. PublicationAt(p, "over", publication[p].model)
    BY <1>4, <1>6, PublicationGoes DEF Publish!Readback
  <2>2. ~crossedRecords => Publish!RecordOwn(p)'
    BY <2>1 DEF Publish!RecordOwn, Publish!Among, Publish!At,
                Publish!UnderWay, PublicationAt
  <2> QED BY <1>1, <1>2, <1>3, <1>4, <2>1, <2>2, PublishMoves
<1> QED BY <1>5, <1>6

LEMMA ReadRegistryKeeps ==
    ASSUME Publish!IInv, NEW p \in Publications, Publish!ReadRegistry(p)
    PROVE  Publish!IInv'
<1> USE PublishFacts
<1>1. Publish!UnderWay(p) /\ publication[p].at = "registry"
  BY DEF Publish!ReadRegistry, Publish!At, Publish!UnderWay
<1>2. /\ UNCHANGED <<record, mined, registry, crossedRecords>>
      /\ mined' = [mined EXCEPT ![p] = mined[p]] /\ mined[p] \in Fates
  BY DEF Publish!ReadRegistry
<1>3. Publish!Confirmed' /\ Publish!Evidence'
  BY <1>2 DEF Publish!IInv, Publish!Confirmed, Publish!Evidence
<1>4. "compare" \in PublishPoints /\ "over" \in PublishPoints
  BY DEF PublishPoints
<1>5. CASE ~Publish!Goes(p, "over")
  <2> DEFINE new == [publication[p] EXCEPT
                       !.at = "compare",
                       !.seen = registry[publication[p].reads]]
  <2>1. publication' = [publication EXCEPT ![p] = new]
    BY <1>5 DEF Publish!ReadRegistry
  <2>2. registry[publication[p].reads] \in Publish!Owners
    BY DEF PublicationType
  <2>3. /\ new \in PublicationType /\ new.at = "compare"
        /\ new.model = publication[p].model
    BY <2>2, PublicationSees
  <2> HIDE DEF new
  <2>4. PublicationAt(p, "compare", publication[p].model)
    BY <2>1, <2>3 DEF PublicationAt
  <2>5. ~crossedRecords => Publish!RecordOwn(p)'
    BY <1>1, <1>2, <2>4
       DEF Publish!RecordOwn, Publish!Among, Publish!At, Publish!UnderWay,
           PublicationAt
  <2> QED BY <1>1, <1>2, <1>3, <1>4, <2>4, <2>5, PublishMoves
<1>6. CASE Publish!Goes(p, "over")
  <2>1. PublicationAt(p, "over", publication[p].model)
    BY <1>4, <1>6, PublicationGoes
  <2>2. ~crossedRecords => Publish!RecordOwn(p)'
    BY <2>1 DEF Publish!RecordOwn, Publish!Among, Publish!At,
                Publish!UnderWay, PublicationAt
  <2> QED BY <1>1, <1>2, <1>3, <1>4, <2>1, <2>2, PublishMoves
<1> QED BY <1>5, <1>6

LEMMA CompareKeeps ==
    ASSUME Publish!IInv, NEW p \in Publications, Publish!Compare(p)
    PROVE  Publish!IInv'
<1> USE PublishFacts
<1>1. Publish!UnderWay(p) /\ publication[p].at = "compare"
  BY DEF Publish!Compare, Publish!At, Publish!UnderWay
<1>2. /\ UNCHANGED <<mined, registry, crossedRecords>>
      /\ mined' = [mined EXCEPT ![p] = mined[p]] /\ mined[p] \in Fates
  BY DEF Publish!Compare
<1>3. PICK verdict \in {"verified", "failed"} :
         record' = [record EXCEPT !.state = verdict]
  BY DEF Publish!Compare
<1>4. verdict \in Publish!States /\ "over" \in PublishPoints
  BY DEF Publish!States, PublishPoints
<1>5. RecordIs(verdict, record.tx, record.by, record.model)
  BY <1>3, <1>4, RecordSettled
<1>6. PublicationAt(p, "over", publication[p].model)
  BY <1>4, PublicationGoes DEF Publish!Compare
<1>7. ~crossedRecords => Publish!RecordOwn(p)'
  BY <1>6 DEF Publish!RecordOwn, Publish!Among, Publish!At,
              Publish!UnderWay, PublicationAt
<1>8. ~crossedRecords => record.state = "confirmed"
  BY <1>1 DEF Publish!RecordOwn, Publish!Among
<1>9. Publish!Confirmed' /\ Publish!Evidence'
  BY <1>2, <1>5, <1>8 DEF RecordIs, Publish!Confirmed, Publish!Evidence
<1>10. record' \in RecordType
  BY <1>5 DEF RecordIs
<1> QED BY <1>1, <1>2, <1>4, <1>6, <1>7, <1>9, <1>10, PublishMoves

LEMMA DeployKeeps ==
    ASSUME Publish!IInv, NEW p \in Publications, Publish!Deploy(p)
    PROVE  Publish!IInv'
<1> USE PublishFacts
<1>1. PICK m \in Models : publication' = [publication EXCEPT ![p] =
                            [Publish!Idle EXCEPT !.at = "init", !.model = m]]
  BY DEF Publish!Deploy
<1>2. PublicationAt(p, "init", m)
  <2> DEFINE new == [Publish!Idle EXCEPT !.at = "init", !.model = m]
  <2>1. new \in PublicationType /\ new.at = "init" /\ new.model = m
    BY PublicationBegins
  <2>2. publication' = [publication EXCEPT ![p] = new]
    BY <1>1
  <2> HIDE DEF new
  <2> QED BY <2>1, <2>2 DEF PublicationAt
<1>3. /\ UNCHANGED <<record, mined, registry>> /\ crossedRecords' \in BOOLEAN
      /\ publication[p].at = "idle" /\ mined[p] = "none"
  BY DEF Publish!Deploy, Publish!At
<1>4. ~crossedRecords' =>
        ~crossedRecords /\ \A q \in Publications : ~Publish!UnderWay(q)
  BY DEF Publish!Deploy
<1>5. /\ publication' \in [Publications -> PublicationType]
      /\ \A q \in Publications \ {p} : publication'[q] = publication[q]
      /\ publication'[p].at = "init"
  BY <1>2 DEF PublicationAt
<1>6. Publish!TypeOK'
  BY <1>3, <1>5 DEF Publish!IInv, Publish!TypeOK, PublicationType,
        PublishPoints, Seen, Transactions
<1>7. Publish!SentOnce' /\ Publish!OwnedWhenMined'
  BY <1>3, <1>5 DEF Publish!IInv, Publish!SentOnce, Publish!OwnedWhenMined,
        Publish!Among
<1>8. Publish!Uncrossed'
  <2> SUFFICES ASSUME ~crossedRecords'
               PROVE  Publish!Alone' /\ \A q \in Publications :
                                          Publish!RecordOwn(q)'
    BY DEF Publish!Uncrossed
  <2>1. \A q \in Publications \ {p} : publication'[q].at \in {"idle", "over"}
    BY <1>4, <1>5 DEF Publish!UnderWay
  <2>2. Publish!Alone'
    BY <2>1 DEF Publish!Alone, Publish!UnderWay
  <2>3. ASSUME NEW q \in Publications PROVE Publish!RecordOwn(q)'
    BY <2>1, <1>5 DEF Publish!RecordOwn, Publish!Among, Publish!At,
                      Publish!UnderWay
  <2> QED BY <2>2, <2>3
<1>9. Publish!Confirmed' /\ Publish!Evidence'
  BY <1>3, <1>4 DEF Publish!IInv, Publish!Confirmed, Publish!Evidence
<1> QED BY <1>6, <1>7, <1>8, <1>9 DEF Publish!IInv

LEMMA RetryKeeps ==
    ASSUME Publish!IInv, NEW p \in Publications, Publish!Retry(p)
    PROVE  Publish!IInv'
<1> USE PublishFacts
<1>1. /\ UNCHANGED <<record, mined, registry, crossedRecords>>
      /\ publication[p].at = "over" /\ mined[p] = "none"
      /\ publication' = [publication EXCEPT ![p] = Publish!Idle]
  BY DEF Publish!Retry, Publish!At
<1>2. /\ publication' \in [Publications -> PublicationType]
      /\ \A q \in Publications \ {p} : publication'[q] = publication[q]
      /\ publication'[p].at = "idle"
  BY <1>1, PublishRecords
<1>3. Publish!TypeOK'
  BY <1>1, <1>2 DEF Publish!IInv, Publish!TypeOK, PublicationType,
        PublishPoints, Seen, Transactions
<1>4. Publish!SentOnce' /\ Publish!OwnedWhenMined'
  BY <1>1, <1>2 DEF Publish!IInv, Publish!SentOnce, Publish!OwnedWhenMined,
        Publish!Among
<1>5. Publish!Uncrossed'
  <2> SUFFICES ASSUME ~crossedRecords
               PROVE  Publish!Alone' /\ \A q \in Publications :
                                          Publish!RecordOwn(q)'
    BY <1>1 DEF Publish!Uncrossed
  <2>1. Publish!Alone /\ \A q \in Publications : Publish!RecordOwn(q)
    BY DEF Publish!IInv, Publish!Uncrossed
  <2>2. Publish!Alone'
    BY <2>1, <1>1, <1>2 DEF Publish!Alone, Publish!UnderWay
  <2>3. ASSUME NEW q \in Publications PROVE Publish!RecordOwn(q)'
    BY <2>1, <1>1, <1>2 DEF Publish!RecordOwn, Publish!Among, Publish!At,
                            Publish!UnderWay
  <2> QED BY <2>2, <2>3
<1>6. Publish!Confirmed' /\ Publish!Evidence'
  BY <1>1 DEF Publish!IInv, Publish!Confirmed, Publish!Evidence
<1> QED BY <1>3, <1>4, <1>5, <1>6 DEF Publish!IInv

\* Inclusion settles the owner for good: what was included, or owned, before
\* the block is so after it.
LEMMA MineKeeps ==
    ASSUME Publish!IInv, NEW p \in Publications, Publish!Mine(p)
    PROVE  Publish!IInv'
<1> USE PublishFacts
<1>1. UNCHANGED <<publication, record, crossedRecords>> /\ mined[p] = "pooled"
  BY DEF Publish!Mine
<1>2. publication[p].model \in Models
  BY DEF PublicationType
<1>3. PICK fate \in {"ok", "reverted"} : mined' = [mined EXCEPT ![p] = fate]
  BY DEF Publish!Mine
<1>4. /\ mined' \in [Publications -> Fates] /\ mined'[p] = fate
      /\ \A q \in Publications \ {p} : mined'[q] = mined[q]
  BY <1>3 DEF Fates
<1>5. /\ registry' \in [Models -> Publish!Owners]
      /\ \A m \in Models : registry[m] = "me" => registry'[m] = "me"
      /\ fate = "ok" => registry'[publication[p].model] = "me"
  <2>1. CASE registry[publication[p].model] = "another"
    BY <2>1, <1>3 DEF Publish!Mine
  <2>2. CASE registry[publication[p].model] # "another"
    BY <2>2, <1>2 DEF Publish!Mine, Publish!Owners
  <2> QED BY <2>1, <2>2
<1>6. Publish!TypeOK'
  BY <1>1, <1>4, <1>5 DEF Publish!IInv, Publish!TypeOK, Fates
<1>7. Publish!SentOnce'
  BY <1>1, <1>4 DEF Publish!IInv, Publish!SentOnce, Publish!Among
<1>8. Publish!OwnedWhenMined'
  <2> SUFFICES ASSUME NEW q \in Publications, mined'[q] = "ok"
               PROVE  registry'[publication[q].model] = "me"
    BY <1>1 DEF Publish!OwnedWhenMined
  <2>1. publication[q].model \in Models
    BY DEF PublicationType
  <2> QED BY <2>1, <1>4, <1>5
<1>9. Publish!Uncrossed'
  <2> SUFFICES ASSUME ~crossedRecords
               PROVE  Publish!Alone' /\ \A q \in Publications :
                                          Publish!RecordOwn(q)'
    BY <1>1 DEF Publish!Uncrossed
  <2>1. Publish!Alone /\ \A q \in Publications : Publish!RecordOwn(q)
    BY DEF Publish!IInv, Publish!Uncrossed
  <2>2. Publish!Alone'
    BY <2>1, <1>1 DEF Publish!Alone, Publish!UnderWay
  <2>3. ASSUME NEW q \in Publications PROVE Publish!RecordOwn(q)'
    BY <2>1, <1>1, <1>4 DEF Publish!RecordOwn, Publish!Among, Publish!At,
                            Publish!UnderWay
  <2> QED BY <2>2, <2>3
<1>10. Publish!Confirmed' /\ Publish!Evidence'
  <2> SUFFICES ASSUME record.state \in {"confirmed", "verified"},
                      ~crossedRecords
               PROVE  /\ record.by \in Publications /\ record.tx = record.by
                      /\ mined'[record.by] = "ok"
                      /\ registry'[record.model] = "me"
    BY <1>1 DEF Publish!Confirmed, Publish!Evidence
  <2>1. record.model \in Models
    BY DEF RecordType
  <2> QED BY <2>1, <1>1, <1>4, <1>5
<1> QED BY <1>6, <1>7, <1>8, <1>9, <1>10 DEF Publish!IInv

LEMMA RegisteredByAnotherKeeps ==
    ASSUME Publish!IInv, NEW m \in Models, Publish!RegisteredByAnother(m)
    PROVE  Publish!IInv'
<1> USE PublishTyped DEF Publish!IInv
<1>1. UNCHANGED <<publication, record, mined, crossedRecords>>
  BY DEF Publish!RegisteredByAnother
<1>2. /\ registry' \in [Models -> Publish!Owners]
      /\ \A n \in Models : registry[n] = "me" => registry'[n] = "me"
  BY DEF Publish!RegisteredByAnother, Publish!TypeOK, Publish!Owners
<1>3. Publish!TypeOK'
  BY <1>1, <1>2 DEF Publish!TypeOK
<1>4. Publish!SentOnce'
  BY <1>1 DEF Publish!SentOnce, Publish!Among
<1>5. Publish!OwnedWhenMined'
  <2> SUFFICES ASSUME NEW q \in Publications, mined[q] = "ok"
               PROVE  registry'[publication[q].model] = "me"
    BY <1>1 DEF Publish!OwnedWhenMined
  <2>1. publication[q].model \in Models
    BY DEF PublicationType
  <2> QED BY <2>1, <1>2 DEF Publish!OwnedWhenMined
<1>6. Publish!Uncrossed'
  BY <1>1 DEF Publish!Uncrossed, Publish!Alone, Publish!UnderWay,
        Publish!RecordOwn, Publish!Among, Publish!At
<1>7. Publish!Confirmed' /\ Publish!Evidence'
  BY <1>1, <1>2 DEF Publish!Confirmed, Publish!Evidence, RecordType
<1> QED BY <1>3, <1>4, <1>5, <1>6, <1>7

LEMMA PublishBegins == Publish!Init => Publish!IInv
<1> SUFFICES ASSUME Publish!Init PROVE Publish!IInv
  OBVIOUS
<1>1. /\ publication \in [Publications -> PublicationType]
      /\ \A p \in Publications : publication[p].at = "idle"
      /\ mined = [p \in Publications |-> "none"] /\ record \in RecordType
      /\ record.state = "none"
  BY PublishRecords DEF Publish!Init
<1>2. Publish!TypeOK
  <2>1. mined \in [Publications -> Fates]
    BY <1>1 DEF Fates
  <2>2. registry \in [Models -> Publish!Owners] /\ crossedRecords \in BOOLEAN
    BY DEF Publish!Init, Publish!Owners
  <2> QED BY <1>1, <2>1, <2>2
          DEF Publish!TypeOK, PublicationType, PublishPoints, Seen,
              Transactions, RecordType, Fates
<1>3. Publish!SentOnce /\ Publish!OwnedWhenMined
  BY <1>1 DEF Publish!SentOnce, Publish!OwnedWhenMined
<1>4. Publish!Uncrossed
  BY <1>1 DEF Publish!Uncrossed, Publish!Alone, Publish!UnderWay,
        Publish!RecordOwn, Publish!Among, Publish!At
<1>5. Publish!Confirmed /\ Publish!Evidence
  BY <1>1 DEF Publish!Confirmed, Publish!Evidence
<1> QED BY <1>2, <1>3, <1>4, <1>5 DEF Publish!IInv

LEMMA PublishSteps == Publish!IInv /\ Publish!Next => Publish!IInv'
<1> SUFFICES ASSUME Publish!IInv, Publish!Next PROVE Publish!IInv'
  OBVIOUS
<1>1. ASSUME NEW m \in Models, Publish!RegisteredByAnother(m)
      PROVE  Publish!IInv'
  BY <1>1, RegisteredByAnotherKeeps
<1>2. ASSUME NEW p \in Publications,
             \/ Publish!Deploy(p) \/ Publish!InitPublish(p)
             \/ Publish!MarkPinned(p) \/ Publish!Consent(p)
             \/ Publish!SendRegister(p) \/ Publish!MarkSubmitted(p)
             \/ Publish!PollReceipt(p) \/ Publish!Receipt(p)
             \/ Publish!Readback(p) \/ Publish!ReadRegistry(p)
             \/ Publish!Compare(p) \/ Publish!Retry(p) \/ Publish!Mine(p)
      PROVE  Publish!IInv'
  BY <1>2, DeployKeeps, InitPublishKeeps, MarkPinnedKeeps, PublishConsentKeeps,
     SendRegisterKeeps, MarkSubmittedKeeps, PollReceiptKeeps, ReceiptKeeps,
     ReadbackKeeps, ReadRegistryKeeps, CompareKeeps, RetryKeeps, MineKeeps
<1> QED BY <1>1, <1>2 DEF Publish!Next

LEMMA PublishStutters ==
    Publish!IInv /\ UNCHANGED publishVars => Publish!IInv'
BY DEF publishVars, Publish!IInv, Publish!TypeOK, Publish!SentOnce,
       Publish!OwnedWhenMined, Publish!Uncrossed, Publish!Alone,
       Publish!UnderWay, Publish!RecordOwn, Publish!Among, Publish!At,
       Publish!Confirmed, Publish!Evidence

LEMMA PublishInvariant ==
    ServicesSpec => [](focus = "publish" => Publish!IInv)
<1> DEFINE I == focus = "publish" => Publish!IInv
<1>1. ServicesInit => I
  BY PublishBegins DEF ServicesInit
<1>2. I /\ [ServicesNext]_serviceVars => I'
  <2>1. CASE ServicesNext
    BY <2>1, PublishSteps DEF ServicesNext
  <2>2. CASE UNCHANGED serviceVars
    BY <2>2, PublishStutters DEF serviceVars
  <2> QED BY <2>1, <2>2
<1> QED BY <1>1, <1>2, PTL DEF ServicesSpec

\* A publication is shown as confirmed or verified only on the evidence of its
\* own transaction and of the registry, as long as no two were under way at once.
THEOREM EvidenceSafety == ServicesSpec => []Evidence
<1>1. (focus = "publish" => Publish!IInv) => Evidence
  BY DEF Evidence, Publish!IInv
<1> QED BY <1>1, PublishInvariant, PTL

-----------------------------------------------------------------------------
(* ApprovalDesk                                                            *)

DeskTurnType ==
    [at : {"idle", "model", "calls", "show", "slot", "submit", "wait"},
     round : 0 .. MaxRounds, left : 0 .. MaxToolCalls, id : 0 .. MaxRequests]
ClickType ==
    [at : {"idle", "read", "resolve", "clear"}, shown : 0 .. MaxRequests,
     yes : BOOLEAN, id : 0 .. MaxRequests]
WriteType ==
    [at : {"idle", "wait", "send", "poll"}, kind : Desk!Kinds,
     id : 0 .. MaxRequests]

CardTyped ==
    /\ slot \in 0 .. MaxRequests /\ card \in 0 .. MaxRequests
    /\ drawing \in Seq(0 .. MaxRequests) /\ Len(drawing) <= MaxDrawn
    /\ click \in [Clicks -> ClickType] /\ stop \subseteq Desk!Requests
BooksTyped ==
    /\ toolTurn \in DeskTurnType /\ policy \in {"guided", "readOnly"}
    /\ write \in WriteType
    /\ pending \subseteq Desk!Requests /\ issued \in 0 .. MaxRequests
    /\ decided \in [Desk!Requests -> {"open", "yes", "no"}]
    /\ acted \in [Desk!Requests -> 0 .. 2]
    /\ answers \subseteq Desk!Requests \X Desk!Requests

LEMMA DeskTyped == Desk!TypeOK <=> CardTyped /\ BooksTyped
BY DEF Desk!TypeOK, CardTyped, BooksTyped, DeskTurnType, ClickType, WriteType

LEMMA DeskTypedAfter == CardTyped' /\ BooksTyped' => Desk!TypeOK'
BY DEF Desk!TypeOK, CardTyped, BooksTyped, DeskTurnType, ClickType, WriteType

LEMMA DeskRequests ==
    /\ Desk!Requests = 1 .. MaxRequests /\ MaxRequests \in Nat
    /\ 0 \in 0 .. MaxRequests
    /\ \A r \in Desk!Requests : r \in Nat /\ r # 0 /\ r \in 0 .. MaxRequests
BY DeskAssumption DEF Desk!Requests

LEMMA DeskRecords ==
    /\ Desk!NoTurn \in DeskTurnType /\ Desk!NoTurn.at = "idle"
    /\ Desk!NoClick \in ClickType /\ Desk!NoClick.at = "idle"
    /\ Desk!NoClick.shown = 0 /\ Desk!NoClick.id = 0
    /\ Desk!NoWrite \in WriteType /\ Desk!NoWrite.at = "idle"
<1>1. 0 \in 0 .. MaxRequests /\ 0 \in 0 .. MaxRounds /\ 0 \in 0 .. MaxToolCalls
  BY DeskAssumption
<1> QED BY <1>1 DEF DeskTurnType, ClickType, WriteType, Desk!NoTurn,
                    Desk!NoClick, Desk!NoWrite, Desk!Kinds

\* What only moves the card, the slot, the handlers of the buttons, the stop or
\* the scope, and lets them know of nothing new.
LEMMA CardMoves ==
    ASSUME Desk!IInv, CardTyped', policy' \in {"guided", "readOnly"},
           UNCHANGED <<toolTurn, write, pending, decided, issued, acted,
                       answers>>,
           \A r \in Desk!Known' \ {0} : r \in Desk!Known, Desk!Clicked'
    PROVE  Desk!IInv'
<1> USE DEF Desk!IInv
<1>1. Desk!TypeOK'
  <2>1. BooksTyped'
    BY DeskTyped DEF BooksTyped
  <2> QED BY <2>1, DeskTypedAfter
<1>2. Desk!Numbered' /\ Desk!DecidedOnce' /\ Desk!NotYetActed'
  BY DEF Desk!Numbered, Desk!DecidedOnce, Desk!NotYetActed, Desk!Asking,
         Desk!Writing
<1>3. Desk!OnlyTurns'
  BY DEF Desk!OnlyTurns, Desk!Current, Desk!Asking
<1>4. Desk!ConsentPerAct'
  BY DEF Desk!ConsentPerAct
<1> QED BY <1>1, <1>2, <1>3, <1>4

LEMMA ScopeKeeps ==
    ASSUME Desk!IInv, Desk!SetScope
    PROVE  Desk!IInv'
<1> USE DEF Desk!SetScope, Desk!store
<1>1. CardTyped'
  BY DeskTyped DEF CardTyped, Desk!IInv
<1>2. Desk!Known' = Desk!Known
  BY DEF Desk!Known
<1>3. Desk!Clicked'
  BY DEF Desk!IInv, Desk!Clicked
<1> QED BY <1>1, <1>2, <1>3, CardMoves

LEMMA UiDrawsKeeps ==
    ASSUME Desk!IInv, Desk!UiDraws
    PROVE  Desk!IInv'
<1> USE DEF Desk!UiDraws, Desk!store
<1>1. CardTyped /\ BooksTyped
  BY DeskTyped DEF Desk!IInv
<1>2. /\ drawing \in Seq(0 .. MaxRequests) /\ drawing # <<>>
      /\ Len(drawing) \in Nat /\ Len(drawing) >= 1
  BY <1>1 DEF CardTyped
<1>3. /\ drawing' \in Seq(0 .. MaxRequests) /\ card' = drawing[1]
      /\ Len(drawing') = Len(drawing) - 1
      /\ \A i \in 1 .. Len(drawing') : drawing'[i] = drawing[i + 1]
  BY <1>2
<1>4. CardTyped'
  BY <1>1, <1>2, <1>3, DeskAssumption DEF CardTyped
<1>5. \A r \in Desk!Known' : r \in Desk!Known
  <2>1. \A i \in 1 .. Len(drawing') : i + 1 \in 1 .. Len(drawing)
    BY <1>2, <1>3
  <2>2. 1 \in 1 .. Len(drawing)
    BY <1>2
  <2> QED BY <1>3, <2>1, <2>2 DEF Desk!Known
<1>6. Desk!Clicked'
  BY DEF Desk!IInv, Desk!Clicked
<1>7. policy' \in {"guided", "readOnly"}
  BY <1>1 DEF BooksTyped
<1> QED BY <1>4, <1>5, <1>6, <1>7, CardMoves

LEMMA ClickCardKeeps ==
    ASSUME Desk!IInv, NEW c \in Clicks, Desk!ClickCard(c)
    PROVE  Desk!IInv'
<1> USE DEF Desk!ClickCard, Desk!store
<1>1. CardTyped /\ BooksTyped
  BY DeskTyped DEF Desk!IInv
<1>2. PICK yes \in BOOLEAN :
         click' = [click EXCEPT ![c] =
           [at |-> "read", shown |-> card, yes |-> yes, id |-> 0]]
  OBVIOUS
<1>3. /\ click' \in [Clicks -> ClickType]
      /\ \A d \in Clicks \ {c} : click'[d] = click[d]
      /\ click'[c].at = "read" /\ click'[c].shown = card /\ click'[c].id = 0
  BY <1>1, <1>2, DeskRequests DEF CardTyped, ClickType
<1>4. CardTyped'
  BY <1>1, <1>3 DEF CardTyped
<1>5. \A r \in Desk!Known' \ {0} : r \in Desk!Known
  BY <1>3 DEF Desk!Known
<1>6. Desk!Clicked'
  BY <1>3 DEF Desk!IInv, Desk!Clicked
<1>7. policy' \in {"guided", "readOnly"}
  BY <1>1 DEF BooksTyped
<1> QED BY <1>4, <1>5, <1>6, <1>7, CardMoves

LEMMA ReadSlotKeeps ==
    ASSUME Desk!IInv, NEW c \in Clicks, Desk!ReadSlot(c)
    PROVE  Desk!IInv'
<1> USE DEF Desk!ReadSlot, Desk!store
<1>1. CardTyped /\ BooksTyped
  BY DeskTyped DEF Desk!IInv
<1>2. /\ click' \in [Clicks -> ClickType]
      /\ \A d \in Clicks \ {c} : click'[d] = click[d]
      /\ click'[c].shown \in {0, click[c].shown}
      /\ click'[c].id \in {0, slot}
      /\ \/ click'[c].at = "idle"
         \/ /\ click'[c].at = "resolve" /\ click'[c].id # 0
            /\ click'[c].shown = click[c].shown
  <2>1. CASE slot = 0
    BY <2>1, <1>1, DeskRecords DEF CardTyped
  <2>2. CASE slot # 0
    BY <2>2, <1>1 DEF CardTyped, ClickType
  <2> QED BY <2>1, <2>2
<1>3. CardTyped'
  BY <1>1, <1>2 DEF CardTyped
<1>4. \A r \in Desk!Known' \ {0} : r \in Desk!Known
  BY <1>2 DEF Desk!Known
<1>5. click[c].shown # 0
  BY DEF Desk!IInv, Desk!Clicked
<1>6. Desk!Clicked'
  BY <1>2, <1>5 DEF Desk!IInv, Desk!Clicked
<1>7. policy' \in {"guided", "readOnly"}
  BY <1>1 DEF BooksTyped
<1> QED BY <1>3, <1>4, <1>6, <1>7, CardMoves

\* An event for the card is one more that it knows of.
LEMMA Drawn ==
    ASSUME drawing \in Seq(0 .. MaxRequests), NEW id \in 0 .. MaxRequests,
           Desk!Draw(id)
    PROVE  /\ drawing' \in Seq(0 .. MaxRequests) /\ Len(drawing') <= MaxDrawn
           /\ \A i \in 1 .. Len(drawing') :
                drawing'[i] = id \/ \E j \in 1 .. Len(drawing) :
                                      drawing'[i] = drawing[j]
<1>1. /\ drawing' = Append(drawing, id) /\ Len(drawing) \in Nat
      /\ Len(drawing) < MaxDrawn
  BY DEF Desk!Draw
<1>2. /\ drawing' \in Seq(0 .. MaxRequests)
      /\ Len(drawing') = Len(drawing) + 1
  BY <1>1
<1>3. Len(drawing') <= MaxDrawn
  BY <1>1, <1>2, DeskAssumption
<1>4. ASSUME NEW i \in 1 .. Len(drawing')
      PROVE  drawing'[i] = id \/ \E j \in 1 .. Len(drawing) :
                                   drawing'[i] = drawing[j]
  <2>1. CASE i = Len(drawing) + 1
    BY <2>1, <1>1
  <2>2. CASE i # Len(drawing) + 1
    <3>1. i \in 1 .. Len(drawing)
      BY <2>2, <1>1, <1>2
    <3>2. drawing'[i] = drawing[i]
      BY <3>1, <1>1
    <3> QED BY <3>1, <3>2
  <2> QED BY <2>1, <2>2
<1> QED BY <1>2, <1>3, <1>4

LEMMA ClearSlotKeeps ==
    ASSUME Desk!IInv, NEW c \in Clicks, Desk!ClearSlot(c)
    PROVE  Desk!IInv'
<1> USE DEF Desk!store
<1>1. CardTyped /\ BooksTyped
  BY DeskTyped DEF Desk!IInv
<1>2. /\ click' = [click EXCEPT ![c] = Desk!NoClick] /\ slot' = 0
      /\ Desk!Draw(0)
      /\ UNCHANGED <<toolTurn, policy, card, stop, write, pending, decided,
                     issued, acted, answers>>
  BY DEF Desk!ClearSlot
<1>3. /\ click' \in [Clicks -> ClickType]
      /\ \A d \in Clicks \ {c} : click'[d] = click[d]
      /\ click'[c].at = "idle" /\ click'[c].shown = 0 /\ click'[c].id = 0
  BY <1>1, <1>2, DeskRecords DEF CardTyped
<1>4. /\ drawing' \in Seq(0 .. MaxRequests) /\ Len(drawing') <= MaxDrawn
      /\ \A i \in 1 .. Len(drawing') :
           drawing'[i] = 0 \/ \E j \in 1 .. Len(drawing) :
                                drawing'[i] = drawing[j]
  BY <1>1, <1>2, DeskRequests, Drawn DEF CardTyped
<1>5. CardTyped'
  BY <1>1, <1>2, <1>3, <1>4, DeskRequests DEF CardTyped
<1>6. \A r \in Desk!Known' \ {0} : r \in Desk!Known
  BY <1>2, <1>3, <1>4 DEF Desk!Known
<1>7. Desk!Clicked'
  BY <1>3 DEF Desk!IInv, Desk!Clicked
<1>8. policy' \in {"guided", "readOnly"}
  BY <1>1, <1>2 DEF BooksTyped
<1> QED BY <1>2, <1>5, <1>6, <1>7, <1>8, CardMoves

LEMMA EmergencyStopKeeps ==
    ASSUME Desk!IInv, Desk!EmergencyStop
    PROVE  Desk!IInv'
<1> USE DEF Desk!EmergencyStop, Desk!store, Desk!chat
<1>1. CardTyped /\ BooksTyped
  BY DeskTyped DEF Desk!IInv
<1>2. CardTyped' /\ policy' \in {"guided", "readOnly"}
  BY <1>1 DEF CardTyped, BooksTyped
<1>3. Desk!Known' = Desk!Known
  BY DEF Desk!Known
<1>4. Desk!Clicked'
  BY DEF Desk!IInv, Desk!Clicked
<1> QED BY <1>2, <1>3, <1>4, CardMoves

-----------------------------------------------------------------------------
\* An answer, a lapse or a stop: the store decides the request if it is open.
LEMMA StoreAnswers ==
    ASSUME Desk!IInv, NEW r \in Desk!Requests, NEW yes \in BOOLEAN,
           Desk!Resolves(r, yes), CardTyped',
           UNCHANGED <<toolTurn, policy, write, acted>>,
           \A k \in Desk!Known' \ {0} : k \in Desk!Known, Desk!Clicked',
           answers' \subseteq Desk!Requests \X Desk!Requests,
           answers \subseteq answers',
           yes /\ r \in pending => r \in {a[2] : a \in answers'},
           \A a \in answers' : a \in answers \/ a[1] = a[2]
                                 \/ decided'[a[1]] # "open"
    PROVE  Desk!IInv'
<1> USE DeskRequests
<1>1. CardTyped /\ BooksTyped
  BY DeskTyped DEF Desk!IInv
<1>2. /\ decided' \in [Desk!Requests -> {"open", "yes", "no"}]
      /\ \A k \in Desk!Requests : k # r \/ r \notin pending =>
           decided'[k] = decided[k]
      /\ r \in pending => decided'[r] # "open"
      /\ decided'[r] = "yes" => decided[r] = "yes" \/ (yes /\ r \in pending)
  <2>1. CASE r \in pending
    BY <2>1, <1>1 DEF Desk!Resolves, BooksTyped
  <2>2. CASE r \notin pending
    BY <2>2, <1>1 DEF Desk!Resolves, BooksTyped
  <2> QED BY <2>1, <2>2
<1>3. pending' = pending \ {r} /\ issued' = issued
  BY DEF Desk!Resolves
<1>4. Desk!TypeOK'
  <2>1. BooksTyped'
    BY <1>1, <1>2, <1>3 DEF BooksTyped
  <2> QED BY <2>1, DeskTypedAfter
<1>5. /\ pending \subseteq Desk!Requests /\ issued \in Nat
      /\ \A k \in pending : decided[k] = "open" /\ k <= issued
      /\ \A k \in 1 .. issued : k \in Desk!Requests
  <2>1. pending \subseteq Desk!Requests /\ issued \in 0 .. MaxRequests
    BY <1>1 DEF BooksTyped
  <2>2. \A k \in pending : decided[k] = "open" /\ ~(k > issued)
    BY <2>1 DEF Desk!IInv, Desk!DecidedOnce, Desk!Numbered
  <2> QED BY <2>1, <2>2, DeskAssumption
<1>6. Desk!Numbered'
  <2>1. ASSUME NEW k \in Desk!Requests, k > issued
        PROVE  k \notin pending' /\ decided'[k] = "open" /\ acted'[k] = 0
    <3>1. k \notin pending /\ decided[k] = "open" /\ acted[k] = 0
      BY <2>1 DEF Desk!IInv, Desk!Numbered
    <3> QED BY <3>1, <1>2, <1>3
  <2> QED BY <2>1, <1>3 DEF Desk!IInv, Desk!Numbered, Desk!Asking, Desk!Writing
<1>7. Desk!DecidedOnce'
  <2>1. \A k \in Desk!Requests : k \in pending' => decided'[k] = "open"
    BY <1>2, <1>3, <1>5
  <2>2. ASSUME NEW k \in Desk!Requests, decided'[k] = "yes"
        PROVE  k \in {a[2] : a \in answers'}
    <3>1. CASE decided[k] = "yes"
      BY <3>1 DEF Desk!IInv, Desk!DecidedOnce
    <3>2. CASE decided[k] # "yes"
      BY <3>2, <2>2, <1>2
    <3> QED BY <3>1, <3>2
  <2> QED BY <2>1, <2>2 DEF Desk!DecidedOnce
<1>8. Desk!NotYetActed'
  <2>1. /\ Desk!Asking => toolTurn.id \in Desk!Requests
        /\ Desk!Writing => write.id \in Desk!Requests
    BY <1>5 DEF Desk!IInv, Desk!Numbered, Desk!Writing
  <2>2. toolTurn.at \in {"show", "slot", "submit"} =>
          decided'[toolTurn.id] = "open" /\ toolTurn.id \notin pending'
    BY <2>1, <1>2, <1>3 DEF Desk!IInv, Desk!NotYetActed, Desk!Asking
  <2>3. toolTurn.at = "wait" =>
          toolTurn.id \in pending' \/ decided'[toolTurn.id] # "open"
    BY <2>1, <1>2, <1>3 DEF Desk!IInv, Desk!NotYetActed, Desk!Asking
  <2>4. write.at = "send" => decided'[write.id] = "yes"
    BY <2>1, <1>2, <1>5 DEF Desk!IInv, Desk!NotYetActed, Desk!Writing
  <2> QED BY <2>2, <2>3, <2>4 DEF Desk!IInv, Desk!NotYetActed, Desk!Asking,
                                  Desk!Writing
<1>9. \A k \in Desk!Requests : decided[k] # "open" => decided'[k] # "open"
  BY <1>2
<1>10. Desk!OnlyTurns'
  <2> SUFFICES ASSUME NEW k \in Desk!Known' \ {0}
               PROVE  /\ k <= issued /\ (write.at # "idle" => k # write.id)
                      /\ \/ decided'[k] # "open"
                         \/ Desk!Asking /\ toolTurn.at # "show" /\ toolTurn.id = k
    BY <1>3 DEF Desk!OnlyTurns, Desk!Current, Desk!Asking
  <2>1. k \in 0 .. MaxRequests
    <3>1. \A i \in 1 .. Len(drawing') : drawing'[i] \in 0 .. MaxRequests
      BY DEF CardTyped
    <3>2. /\ slot' \in 0 .. MaxRequests /\ card' \in 0 .. MaxRequests
          /\ \A c \in Clicks : /\ click'[c].shown \in 0 .. MaxRequests
                               /\ click'[c].id \in 0 .. MaxRequests
      BY DEF CardTyped, ClickType
    <3> QED BY <3>1, <3>2 DEF Desk!Known
  <2>2. k \in Desk!Requests /\ k \in Desk!Known \ {0}
    BY <2>1
  <2>3. /\ Desk!Current(k) /\ k <= issued
        /\ write.at # "idle" => k # write.id
    BY <2>2 DEF Desk!IInv, Desk!OnlyTurns
  <2> QED BY <2>2, <2>3, <1>9 DEF Desk!Current
<1>11. Desk!ConsentPerAct'
  <2> SUFFICES ASSUME NEW k \in Desk!Requests
               PROVE  acted'[k] <= IF k \in {a[2] : a \in answers'} THEN 1 ELSE 0
    BY DEF Desk!ConsentPerAct
  <2>1. acted[k] <= IF k \in {a[2] : a \in answers} THEN 1 ELSE 0
    BY DEF Desk!IInv, Desk!ConsentPerAct
  <2>2. k \in {a[2] : a \in answers} => k \in {a[2] : a \in answers'}
    OBVIOUS
  <2>3. acted[k] \in 0 .. 2
    BY <1>1 DEF BooksTyped
  <2> QED BY <2>1, <2>2, <2>3
<1> QED BY <1>4, <1>6, <1>7, <1>8, <1>10, <1>11 DEF Desk!IInv

LEMMA TimesOutKeeps ==
    ASSUME Desk!IInv, NEW r \in Desk!Requests, Desk!TimesOut(r)
    PROVE  Desk!IInv'
<1>1. CardTyped /\ BooksTyped
  BY DeskTyped DEF Desk!IInv
<1>2. /\ Desk!Resolves(r, FALSE)
      /\ UNCHANGED <<toolTurn, policy, slot, drawing, card, click, stop, write,
                     acted, answers>>
  BY DEF Desk!TimesOut, Desk!chat
<1>3. CardTyped' /\ Desk!Known' = Desk!Known
  BY <1>1, <1>2 DEF CardTyped, Desk!Known
<1>4. Desk!Clicked'
  BY <1>2 DEF Desk!IInv, Desk!Clicked
<1>5. answers' \subseteq Desk!Requests \X Desk!Requests
  BY <1>1, <1>2 DEF BooksTyped
<1> QED BY <1>2, <1>3, <1>4, <1>5, StoreAnswers

LEMMA DecideRowKeeps ==
    ASSUME Desk!IInv, NEW r \in Desk!Requests, Desk!DecideRow(r)
    PROVE  Desk!IInv'
<1>1. CardTyped /\ BooksTyped
  BY DeskTyped DEF Desk!IInv
<1>2. PICK yes \in BOOLEAN :
         /\ Desk!Resolves(r, yes)
         /\ answers' = IF yes THEN answers \cup {<<r, r>>} ELSE answers
  BY DEF Desk!DecideRow
<1>3. UNCHANGED <<toolTurn, policy, slot, drawing, card, click, stop, write,
                  acted>>
  BY DEF Desk!DecideRow, Desk!chat
<1>4. CardTyped' /\ Desk!Known' = Desk!Known
  BY <1>1, <1>3 DEF CardTyped, Desk!Known
<1>5. Desk!Clicked'
  BY <1>3 DEF Desk!IInv, Desk!Clicked
<1>6. answers \subseteq Desk!Requests \X Desk!Requests
  BY <1>1 DEF BooksTyped
<1>7. /\ answers' \subseteq Desk!Requests \X Desk!Requests
      /\ answers \subseteq answers'
      /\ yes => <<r, r>> \in answers'
      /\ \A a \in answers' : a \in answers \/ a[1] = a[2]
  BY <1>2, <1>6
<1>8. yes => r \in {a[2] : a \in answers'}
  BY <1>7
<1> QED BY <1>2, <1>3, <1>4, <1>5, <1>7, <1>8, StoreAnswers

LEMMA StopDeniesKeeps ==
    ASSUME Desk!IInv, NEW r \in Desk!Requests, Desk!StopDenies(r)
    PROVE  Desk!IInv'
<1>1. CardTyped /\ BooksTyped
  BY DeskTyped DEF Desk!IInv
<1>2. /\ Desk!Resolves(r, FALSE) /\ stop' = stop \ {r}
      /\ UNCHANGED <<toolTurn, policy, slot, card, click, write, acted, answers>>
  BY DEF Desk!StopDenies
<1>3. /\ drawing' \in Seq(0 .. MaxRequests) /\ Len(drawing') <= MaxDrawn
      /\ \A i \in 1 .. Len(drawing') :
           drawing'[i] = 0 \/ \E j \in 1 .. Len(drawing) :
                                drawing'[i] = drawing[j]
  <2>1. CASE stop = {r}
    BY <2>1, <1>1, DeskRequests, Drawn DEF Desk!StopDenies, CardTyped
  <2>2. CASE stop # {r}
    BY <2>2, <1>1 DEF Desk!StopDenies, CardTyped
  <2> QED BY <2>1, <2>2
<1>4. CardTyped'
  BY <1>1, <1>2, <1>3 DEF CardTyped
<1>5. \A k \in Desk!Known' \ {0} : k \in Desk!Known
  BY <1>2, <1>3 DEF Desk!Known
<1>6. Desk!Clicked'
  BY <1>2 DEF Desk!IInv, Desk!Clicked
<1>7. answers' \subseteq Desk!Requests \X Desk!Requests
  BY <1>1, <1>2 DEF BooksTyped
<1> QED BY <1>2, <1>4, <1>5, <1>6, <1>7, StoreAnswers

\* The request the handler found in the slot is the one on its card, if it is
\* open: both are known, and only the request of the turn may be open.
LEMMA ResolveSlotKeeps ==
    ASSUME Desk!IInv, NEW c \in Clicks, Desk!ResolveSlot(c)
    PROVE  Desk!IInv'
<1> DEFINE r == click[c].id
           shown == click[c].shown
           yes == click[c].yes
<1> USE DeskRequests
<1>1. CardTyped /\ BooksTyped
  BY DeskTyped DEF Desk!IInv
<1>2. /\ click[c].at = "resolve" /\ Desk!Resolves(r, yes)
      /\ answers' = (IF yes /\ r \in pending THEN answers \cup {<<shown, r>>}
                     ELSE answers)
      /\ click' = [click EXCEPT ![c].at = "clear"]
      /\ UNCHANGED <<toolTurn, policy, slot, drawing, card, stop, write, acted>>
  BY DEF Desk!ResolveSlot
<1>3. click[c] \in ClickType /\ r # 0 /\ shown # 0
  BY <1>1, <1>2 DEF CardTyped, Desk!IInv, Desk!Clicked
<1>4. r \in Desk!Requests /\ shown \in Desk!Requests /\ yes \in BOOLEAN
  BY <1>3, DeskAssumption DEF ClickType
<1>5. /\ click' \in [Clicks -> ClickType]
      /\ \A d \in Clicks \ {c} : click'[d] = click[d]
      /\ click'[c].shown = shown /\ click'[c].id = r /\ click'[c].at = "clear"
  BY <1>1, <1>2 DEF CardTyped, ClickType
<1>6. CardTyped'
  BY <1>1, <1>2, <1>5 DEF CardTyped
<1>7. \A k \in Desk!Known' \ {0} : k \in Desk!Known
  BY <1>2, <1>5 DEF Desk!Known
<1>8. Desk!Clicked'
  BY <1>3, <1>5 DEF Desk!IInv, Desk!Clicked
<1>9. answers \subseteq Desk!Requests \X Desk!Requests
  BY <1>1 DEF BooksTyped
<1>10. r \in pending => shown = r \/ decided'[shown] # "open"
  <2> SUFFICES ASSUME r \in pending, shown # r PROVE decided'[shown] # "open"
    OBVIOUS
  <2>1. Desk!Current(r) /\ Desk!Current(shown)
    BY <1>3 DEF Desk!IInv, Desk!OnlyTurns, Desk!Known
  <2>2. decided[r] = "open"
    BY <1>4 DEF Desk!IInv, Desk!DecidedOnce
  <2>3. toolTurn.id = r /\ decided[shown] # "open"
    BY <2>1, <2>2 DEF Desk!Current
  <2> HIDE DEF r, shown, yes
  <2> QED BY <2>3, <1>1, <1>2, <1>4 DEF Desk!Resolves, BooksTyped
<1> HIDE DEF r, shown, yes
<1>11. /\ answers' \subseteq Desk!Requests \X Desk!Requests
       /\ answers \subseteq answers'
       /\ yes /\ r \in pending => <<shown, r>> \in answers'
       /\ \A a \in answers' : a \in answers \/ (r \in pending /\ a = <<shown, r>>)
  BY <1>2, <1>4, <1>9
<1>12. yes /\ r \in pending => r \in {a[2] : a \in answers'}
  BY <1>11
<1>13. \A a \in answers' : a \in answers \/ a[1] = a[2]
                             \/ decided'[a[1]] # "open"
  BY <1>10, <1>11
<1> QED BY <1>2, <1>4, <1>6, <1>7, <1>8, <1>11, <1>12, <1>13, StoreAnswers

-----------------------------------------------------------------------------
\* A turn that is asking for nothing, before and after.
LEMMA TurnMoves ==
    ASSUME Desk!IInv, toolTurn' \in DeskTurnType,
           toolTurn.at \in {"idle", "model", "calls"},
           toolTurn'.at \in {"idle", "model", "calls"},
           UNCHANGED <<policy, slot, drawing, card, click, stop, write, pending,
                       decided, issued, acted, answers>>
    PROVE  Desk!IInv'
<1> USE DEF Desk!IInv
<1>1. Desk!TypeOK'
  BY DeskTyped, DeskTypedAfter DEF CardTyped, BooksTyped
<1>2. ~Desk!Asking /\ ~Desk!Asking'
  BY DEF Desk!Asking
<1>3. Desk!Numbered' /\ Desk!DecidedOnce'
  BY <1>2 DEF Desk!Numbered, Desk!DecidedOnce, Desk!Writing
<1>4. Desk!NotYetActed'
  BY <1>2 DEF Desk!NotYetActed, Desk!Writing, Desk!Asking
<1>5. Desk!OnlyTurns' /\ Desk!Clicked'
  BY <1>2 DEF Desk!OnlyTurns, Desk!Current, Desk!Known, Desk!Clicked
<1>6. Desk!ConsentPerAct'
  BY DEF Desk!ConsentPerAct
<1> QED BY <1>1, <1>3, <1>4, <1>5, <1>6

LEMMA ChatSendKeeps ==
    ASSUME Desk!IInv, Desk!ChatSend
    PROVE  Desk!IInv'
<1>1. toolTurn' = [at |-> "model", round |-> 1, left |-> 0, id |-> 0]
  BY DEF Desk!ChatSend, Desk!NoTurn
<1>2. 1 \in 0 .. MaxRounds /\ 0 \in 0 .. MaxToolCalls /\ 0 \in 0 .. MaxRequests
  BY DeskAssumption
<1>3. toolTurn' \in DeskTurnType /\ toolTurn'.at = "model"
  BY <1>1, <1>2 DEF DeskTurnType
<1> QED BY <1>3, TurnMoves DEF Desk!ChatSend, Desk!store

LEMMA ModelAnswersKeeps ==
    ASSUME Desk!IInv, Desk!ModelAnswers
    PROVE  Desk!IInv'
<1>1. toolTurn \in DeskTurnType
  BY DeskTyped DEF Desk!IInv, BooksTyped
<1>2. toolTurn' \in DeskTurnType /\ toolTurn'.at \in {"idle", "calls"}
  <2>1. CASE toolTurn' = Desk!NoTurn
    BY <2>1, DeskRecords
  <2>2. ASSUME NEW n \in 1 .. MaxToolCalls,
               toolTurn' = [toolTurn EXCEPT !.at = "calls", !.left = n]
        PROVE  toolTurn' \in DeskTurnType /\ toolTurn'.at = "calls"
    <3>1. toolTurn' = [at |-> "calls", round |-> toolTurn.round, left |-> n,
                       id |-> toolTurn.id]
      BY <1>1, <2>2 DEF DeskTurnType
    <3>2. n \in 0 .. MaxToolCalls
      BY DeskAssumption
    <3> QED BY <1>1, <3>1, <3>2 DEF DeskTurnType
  <2> QED BY <2>1, <2>2 DEF Desk!ModelAnswers
<1> QED BY <1>2, TurnMoves DEF Desk!ModelAnswers, Desk!store

LEMMA NextRoundKeeps ==
    ASSUME Desk!IInv, Desk!NextRound
    PROVE  Desk!IInv'
<1>1. toolTurn \in DeskTurnType
  BY DeskTyped DEF Desk!IInv, BooksTyped
<1>2. toolTurn' \in DeskTurnType /\ toolTurn'.at \in {"idle", "model"}
  <2>1. CASE toolTurn.round = MaxRounds
    BY <2>1, DeskRecords DEF Desk!NextRound
  <2>2. CASE toolTurn.round # MaxRounds
    <3>1. toolTurn' = [at |-> "model", round |-> toolTurn.round + 1,
                       left |-> toolTurn.left, id |-> toolTurn.id]
      BY <1>1, <2>2 DEF DeskTurnType, Desk!NextRound
    <3>2. toolTurn.round + 1 \in 0 .. MaxRounds
      BY <1>1, <2>2, DeskAssumption DEF DeskTurnType
    <3> QED BY <1>1, <3>1, <3>2 DEF DeskTurnType
  <2> QED BY <2>1, <2>2
<1> QED BY <1>2, TurnMoves DEF Desk!NextRound, Desk!store

LEMMA QuickToolKeeps ==
    ASSUME Desk!IInv, Desk!QuickTool
    PROVE  Desk!IInv'
<1>1. toolTurn \in DeskTurnType
  BY DeskTyped DEF Desk!IInv, BooksTyped
<1>2. toolTurn' = [at |-> "calls", round |-> toolTurn.round,
                   left |-> toolTurn.left - 1, id |-> toolTurn.id]
  BY <1>1 DEF DeskTurnType, Desk!QuickTool
<1>3. toolTurn.left - 1 \in 0 .. MaxToolCalls
  BY <1>1, DeskAssumption DEF DeskTurnType, Desk!QuickTool
<1>4. toolTurn' \in DeskTurnType /\ toolTurn'.at = "calls"
  BY <1>1, <1>2, <1>3 DEF DeskTurnType
<1> QED BY <1>4, TurnMoves DEF Desk!QuickTool, Desk!store

\* The numbers given out, and who holds one.
LEMMA DeskNumbers ==
    ASSUME Desk!IInv
    PROVE  /\ toolTurn \in DeskTurnType /\ write \in WriteType
           /\ CardTyped /\ BooksTyped
           /\ issued \in Nat /\ issued <= MaxRequests
           /\ Desk!Asking => /\ toolTurn.id \in Desk!Requests
                             /\ toolTurn.id <= issued /\ toolTurn.left > 0
           /\ write.at # "idle" => /\ write.id \in Desk!Requests
                                   /\ write.id <= issued
<1>1. CardTyped /\ BooksTyped
  BY DeskTyped DEF Desk!IInv
<1>2. toolTurn \in DeskTurnType /\ write \in WriteType
      /\ issued \in 0 .. MaxRequests
  BY <1>1 DEF BooksTyped
<1>3. issued \in Nat /\ issued <= MaxRequests
  BY <1>2, DeskAssumption
<1>4. /\ Desk!Asking => toolTurn.id \in 1 .. issued /\ toolTurn.left > 0
      /\ write.at # "idle" => write.id \in 1 .. issued
  BY DEF Desk!IInv, Desk!Numbered
<1>5. toolTurn.left \in 0 .. MaxToolCalls
  BY <1>2 DEF DeskTurnType
<1> QED BY <1>1, <1>2, <1>3, <1>4, <1>5, DeskRequests

\* What a sequence holds are members of the set it is a sequence over.
LEMMA SeqMembers ==
    ASSUME NEW S, NEW s \in Seq(S)
    PROVE  \A i \in 1 .. Len(s) : s[i] \in S
  OBVIOUS

\* What the card, the slot and the buttons know is older than a new number.
LEMMA KnownNumbers ==
    ASSUME Desk!IInv, NEW k \in Desk!Known \ {0}
    PROVE  /\ k <= issued + 1 /\ k # issued + 1 /\ Desk!Current(k)
           /\ write.at # "idle" => k # write.id
<1>0. CardTyped
  BY DeskNumbers
<1>5. drawing \in Seq(0 .. MaxRequests)
  BY <1>0 DEF CardTyped
<1>1. \A i \in 1 .. Len(drawing) : drawing[i] \in 0 .. MaxRequests
  BY ONLY <1>5, SeqMembers
<1>2. /\ slot \in 0 .. MaxRequests /\ card \in 0 .. MaxRequests
      /\ \A c \in Clicks : /\ click[c].shown \in 0 .. MaxRequests
                           /\ click[c].id \in 0 .. MaxRequests
  BY <1>0 DEF CardTyped, ClickType
<1>3. k \in Nat /\ issued \in Nat
  BY <1>1, <1>2, DeskNumbers, DeskAssumption DEF Desk!Known
<1>4. /\ k <= issued /\ Desk!Current(k)
      /\ write.at # "idle" => k # write.id
  BY DEF Desk!IInv, Desk!OnlyTurns
<1> QED BY <1>3, <1>4

LEMMA RiskyToolKeeps ==
    ASSUME Desk!IInv, Desk!RiskyTool
    PROVE  Desk!IInv'
<1> DEFINE r == issued + 1
<1> USE DeskNumbers
<1>1. /\ toolTurn.at = "calls" /\ toolTurn.left > 0 /\ issued < MaxRequests
      /\ issued' = r /\ toolTurn' = [toolTurn EXCEPT !.at = "show", !.id = r]
      /\ UNCHANGED <<policy, slot, drawing, card, click, stop, write, pending,
                     decided, acted, answers>>
  BY DEF Desk!RiskyTool
<1>2. /\ r \in Desk!Requests /\ r \in 0 .. MaxRequests /\ r > issued
      /\ r \in 1 .. r
  BY <1>1, DeskAssumption DEF Desk!Requests
<1>3. toolTurn' = [at |-> "show", round |-> toolTurn.round,
                   left |-> toolTurn.left, id |-> r]
  BY <1>1 DEF DeskTurnType
<1>4. /\ toolTurn' \in DeskTurnType /\ toolTurn'.at = "show"
      /\ toolTurn'.id = r /\ toolTurn'.left = toolTurn.left
  BY <1>2, <1>3 DEF DeskTurnType
<1>5. r \notin pending /\ decided[r] = "open" /\ acted[r] = 0
  BY <1>2 DEF Desk!IInv, Desk!Numbered
<1>6. ~Desk!Asking
  BY <1>1 DEF Desk!Asking
<1>7. Desk!TypeOK'
  <2>1. CardTyped' /\ BooksTyped'
    BY <1>1, <1>2, <1>4 DEF CardTyped, BooksTyped
  <2> QED BY <2>1, DeskTypedAfter
<1>8. Desk!Numbered'
  <2>1. write.at # "idle" => write.id \in 1 .. r /\ write.id # r
    BY DEF Desk!IInv, Desk!Numbered
  <2>2. \A k \in Desk!Requests : k > r =>
          k \notin pending /\ decided[k] = "open" /\ acted[k] = 0
    <3>1. \A k \in Desk!Requests : k > r => k > issued
      BY DeskRequests
    <3> QED BY <3>1 DEF Desk!IInv, Desk!Numbered
  <2> HIDE DEF r
  <2> QED BY <1>1, <1>2, <1>4, <2>1, <2>2
          DEF Desk!Numbered, Desk!Asking, Desk!Writing
<1> HIDE DEF r
<1>9. Desk!DecidedOnce'
  BY <1>1 DEF Desk!IInv, Desk!DecidedOnce
<1>10. Desk!NotYetActed'
  BY <1>1, <1>4, <1>5 DEF Desk!IInv, Desk!NotYetActed, Desk!Asking, Desk!Writing
<1>13. Desk!OnlyTurns'
  <2>1. Desk!Known' = Desk!Known
    BY <1>1 DEF Desk!Known
  <2>2. ASSUME NEW k \in Desk!Known \ {0}
        PROVE  /\ k <= issued' /\ Desk!Current(k)
               /\ write.at # "idle" => k # write.id
    BY <1>1, KnownNumbers DEF r
  <2> QED BY <1>1, <1>6, <2>1, <2>2 DEF Desk!OnlyTurns, Desk!Current
<1>11. Desk!Clicked'
  BY <1>1 DEF Desk!IInv, Desk!Clicked
<1>12. Desk!ConsentPerAct'
  BY <1>1 DEF Desk!IInv, Desk!ConsentPerAct
<1> QED BY <1>7, <1>8, <1>9, <1>10, <1>11, <1>12, <1>13 DEF Desk!IInv

\* The turn goes on with the request it holds; the card, its queue and the slot
\* may learn of it, and of nothing else.
LEMMA TurnGoesOn ==
    ASSUME Desk!IInv, NEW point \in {"slot", "submit"},
           toolTurn.at = (IF point = "slot" THEN "show" ELSE "slot"),
           toolTurn' = [toolTurn EXCEPT !.at = point], CardTyped',
           UNCHANGED <<policy, click, write, pending, decided, issued, acted,
                       answers>>,
           \A k \in Desk!Known' : k \in Desk!Known \/ k = toolTurn.id
    PROVE  Desk!IInv'
<1> USE DeskNumbers
<1>1. toolTurn' = [at |-> point, round |-> toolTurn.round,
                   left |-> toolTurn.left, id |-> toolTurn.id]
  BY DEF DeskTurnType
<1>2. /\ toolTurn' \in DeskTurnType /\ toolTurn'.at = point
      /\ toolTurn'.id = toolTurn.id /\ toolTurn'.left = toolTurn.left
  BY <1>1 DEF DeskTurnType
<1>3. Desk!Asking /\ Desk!Asking'
  BY <1>2 DEF Desk!Asking
<1>4. Desk!TypeOK'
  <2>1. BooksTyped'
    BY <1>2 DEF BooksTyped
  <2> QED BY <2>1, DeskTypedAfter
<1>5. Desk!Numbered' /\ Desk!DecidedOnce'
  BY <1>2, <1>3 DEF Desk!IInv, Desk!Numbered, Desk!DecidedOnce, Desk!Writing
<1>6. Desk!NotYetActed'
  BY <1>2, <1>3 DEF Desk!IInv, Desk!NotYetActed, Desk!Writing
<1>9. write.at # "idle" => toolTurn.id # write.id
  BY <1>3 DEF Desk!IInv, Desk!Numbered
<1>7. Desk!OnlyTurns'
  BY <1>2, <1>3, <1>9 DEF Desk!IInv, Desk!OnlyTurns, Desk!Current
<1>8. Desk!Clicked' /\ Desk!ConsentPerAct'
  BY DEF Desk!IInv, Desk!Clicked, Desk!ConsentPerAct
<1> QED BY <1>4, <1>5, <1>6, <1>7, <1>8 DEF Desk!IInv

LEMMA ShowCardKeeps ==
    ASSUME Desk!IInv, Desk!ShowCard
    PROVE  Desk!IInv'
<1> USE DeskNumbers
<1>1. /\ toolTurn.at = "show" /\ Desk!Draw(toolTurn.id)
      /\ toolTurn' = [toolTurn EXCEPT !.at = "slot"]
      /\ UNCHANGED <<policy, slot, card, click, stop, write, pending, decided,
                     issued, acted, answers>>
  BY DEF Desk!ShowCard, Desk!store
<1>2. toolTurn.id \in 0 .. MaxRequests
  BY DEF DeskTurnType
<1>3. /\ drawing' \in Seq(0 .. MaxRequests) /\ Len(drawing') <= MaxDrawn
      /\ \A i \in 1 .. Len(drawing') :
           drawing'[i] = toolTurn.id \/ \E j \in 1 .. Len(drawing) :
                                          drawing'[i] = drawing[j]
  BY <1>1, <1>2, Drawn DEF CardTyped
<1>4. CardTyped'
  BY <1>1, <1>3 DEF CardTyped
<1>5. \A k \in Desk!Known' : k \in Desk!Known \/ k = toolTurn.id
  BY <1>1, <1>3 DEF Desk!Known
<1>6. toolTurn.at = (IF "slot" = "slot" THEN "show" ELSE "slot")
  BY <1>1
<1> QED BY <1>1, <1>4, <1>5, <1>6, TurnGoesOn

LEMMA StoreSlotKeeps ==
    ASSUME Desk!IInv, Desk!StoreSlot
    PROVE  Desk!IInv'
<1> USE DeskNumbers
<1>1. /\ toolTurn.at = "slot" /\ slot' = toolTurn.id
      /\ toolTurn' = [toolTurn EXCEPT !.at = "submit"]
      /\ UNCHANGED <<policy, drawing, card, click, stop, write, pending,
                     decided, issued, acted, answers>>
  BY DEF Desk!StoreSlot, Desk!store
<1>2. CardTyped'
  BY <1>1 DEF CardTyped, DeskTurnType
<1>3. \A k \in Desk!Known' : k \in Desk!Known \/ k = toolTurn.id
  BY <1>1 DEF Desk!Known
<1>4. toolTurn.at = (IF "submit" = "slot" THEN "show" ELSE "slot")
  BY <1>1
<1> QED BY <1>1, <1>2, <1>3, <1>4, TurnGoesOn

LEMMA SubmitToolKeeps ==
    ASSUME Desk!IInv, Desk!SubmitTool
    PROVE  Desk!IInv'
<1> USE DeskNumbers
<1>1. /\ toolTurn.at = "submit" /\ pending' = pending \cup {toolTurn.id}
      /\ toolTurn' = [toolTurn EXCEPT !.at = "wait"]
      /\ UNCHANGED <<policy, slot, drawing, card, click, stop, write, decided,
                     issued, acted, answers>>
  BY DEF Desk!SubmitTool, Desk!Submits
<1>2. toolTurn' = [at |-> "wait", round |-> toolTurn.round,
                   left |-> toolTurn.left, id |-> toolTurn.id]
  BY <1>1 DEF DeskTurnType
<1>3. /\ toolTurn' \in DeskTurnType /\ toolTurn'.at = "wait"
      /\ toolTurn'.id = toolTurn.id /\ toolTurn'.left = toolTurn.left
  BY <1>2 DEF DeskTurnType
<1>4. Desk!Asking /\ Desk!Asking'
  BY <1>1, <1>3 DEF Desk!Asking
<1>5. toolTurn.id \in Desk!Requests /\ decided[toolTurn.id] = "open"
      /\ ~(toolTurn.id > issued)
  BY <1>1, <1>4, DeskRequests DEF Desk!IInv, Desk!NotYetActed
<1>6. Desk!TypeOK'
  <2>1. CardTyped' /\ BooksTyped'
    BY <1>1, <1>3, <1>5 DEF CardTyped, BooksTyped
  <2> QED BY <2>1, DeskTypedAfter
<1>7. Desk!Numbered' /\ Desk!DecidedOnce'
  BY <1>1, <1>3, <1>4, <1>5
     DEF Desk!IInv, Desk!Numbered, Desk!DecidedOnce, Desk!Writing
<1>8. Desk!NotYetActed'
  BY <1>1, <1>3, <1>4 DEF Desk!IInv, Desk!NotYetActed, Desk!Writing
<1>9. Desk!OnlyTurns'
  BY <1>1, <1>3, <1>4
     DEF Desk!IInv, Desk!OnlyTurns, Desk!Current, Desk!Known
<1>10. Desk!Clicked' /\ Desk!ConsentPerAct'
  BY <1>1 DEF Desk!IInv, Desk!Clicked, Desk!ConsentPerAct
<1> QED BY <1>6, <1>7, <1>8, <1>9, <1>10 DEF Desk!IInv

\* An approved request is acted on once: no more than a user has allowed.
LEMMA ActedOnce ==
    ASSUME Desk!IInv, NEW r \in Desk!Requests, acted[r] = 0,
           decided[r] = "yes", Desk!Acts(r), UNCHANGED answers
    PROVE  /\ acted' \in [Desk!Requests -> 0 .. 2] /\ Desk!ConsentPerAct'
           /\ \A k \in Desk!Requests \ {r} : acted'[k] = acted[k]
<1>1. acted \in [Desk!Requests -> 0 .. 2]
  BY DeskTyped DEF Desk!IInv, BooksTyped
<1>2. acted' = [acted EXCEPT ![r] = 1]
  BY <1>1 DEF Desk!Acts
<1>3. 1 \in 0 .. 2
  OBVIOUS
<1>4. /\ acted' \in [Desk!Requests -> 0 .. 2] /\ acted'[r] = 1
      /\ \A k \in Desk!Requests \ {r} : acted'[k] = acted[k]
  BY <1>1, <1>2, <1>3
<1>5. r \in {a[2] : a \in answers}
  BY DEF Desk!IInv, Desk!DecidedOnce
<1>6. Desk!ConsentPerAct'
  <2> SUFFICES ASSUME NEW k \in Desk!Requests
               PROVE  acted'[k] <= IF k \in {a[2] : a \in answers} THEN 1 ELSE 0
    BY DEF Desk!ConsentPerAct
  <2>1. CASE k = r
    BY <2>1, <1>4, <1>5
  <2>2. CASE k # r
    BY <2>2, <1>4 DEF Desk!IInv, Desk!ConsentPerAct
  <2> QED BY <2>1, <2>2
<1> QED BY <1>4, <1>6

LEMMA FinishToolKeeps ==
    ASSUME Desk!IInv, Desk!FinishTool
    PROVE  Desk!IInv'
<1> DEFINE r == toolTurn.id
<1> USE DeskNumbers
<1>1. /\ toolTurn.at = "wait" /\ r \notin pending
      /\ IF decided[r] = "yes" THEN Desk!Acts(r) ELSE UNCHANGED acted
      /\ toolTurn' = [toolTurn EXCEPT !.at = "calls", !.left = @ - 1]
      /\ UNCHANGED <<policy, slot, drawing, card, click, stop, write, pending,
                     decided, issued, answers>>
  BY DEF Desk!FinishTool, Desk!store
<1>2. /\ Desk!Asking /\ r \in Desk!Requests /\ acted[r] = 0
      /\ decided[r] # "open" /\ toolTurn.left > 0 /\ ~(r > issued)
  BY <1>1 DEF Desk!IInv, Desk!NotYetActed, Desk!Asking, Desk!Requests
<1>3. toolTurn' = [at |-> "calls", round |-> toolTurn.round,
                   left |-> toolTurn.left - 1, id |-> r]
  BY <1>1 DEF DeskTurnType
<1>4. toolTurn.left - 1 \in 0 .. MaxToolCalls
  BY <1>2, DeskNumbers, DeskAssumption DEF DeskTurnType
<1>5. toolTurn' \in DeskTurnType /\ toolTurn'.at = "calls"
  BY <1>3, <1>4 DEF DeskTurnType
<1>6. ~Desk!Asking'
  BY <1>5 DEF Desk!Asking
<1>7. /\ acted' \in [Desk!Requests -> 0 .. 2] /\ Desk!ConsentPerAct'
      /\ \A k \in Desk!Requests \ {r} : acted'[k] = acted[k]
  <2>1. CASE decided[r] = "yes"
    BY <2>1, <1>1, <1>2, ActedOnce
  <2>2. CASE decided[r] # "yes"
    BY <2>2, <1>1 DEF Desk!IInv, Desk!ConsentPerAct, BooksTyped
  <2> QED BY <2>1, <2>2
<1>8. Desk!TypeOK'
  <2>1. CardTyped' /\ BooksTyped'
    BY <1>1, <1>5, <1>7 DEF CardTyped, BooksTyped
  <2> QED BY <2>1, DeskTypedAfter
<1>9. Desk!Writing => write.id # r /\ write.id \in Desk!Requests
  BY <1>2 DEF Desk!IInv, Desk!Numbered, Desk!Writing
<1>10. Desk!Numbered' /\ Desk!DecidedOnce'
  BY <1>1, <1>2, <1>6, <1>7
     DEF Desk!IInv, Desk!Numbered, Desk!DecidedOnce, Desk!Writing
<1>11. Desk!NotYetActed'
  BY <1>1, <1>5, <1>6, <1>7, <1>9
     DEF Desk!IInv, Desk!NotYetActed, Desk!Writing
<1>12. Desk!OnlyTurns'
  BY <1>1, <1>2 DEF Desk!IInv, Desk!OnlyTurns, Desk!Current, Desk!Known
<1>13. Desk!Clicked'
  BY <1>1 DEF Desk!IInv, Desk!Clicked
<1> QED BY <1>7, <1>8, <1>10, <1>11, <1>12, <1>13 DEF Desk!IInv

-----------------------------------------------------------------------------
\* The write of a panel moves; the turn, the card and the scope do not.
LEMMA AsksKeeps ==
    ASSUME Desk!IInv, NEW kind \in Desk!Kinds, Desk!Asks(kind)
    PROVE  Desk!IInv'
<1> DEFINE r == issued + 1
<1> USE DeskNumbers
<1>1. /\ write.at = "idle" /\ issued < MaxRequests /\ issued' = r
      /\ pending' = pending \cup {r}
      /\ write' = [at |-> "wait", kind |-> kind, id |-> r]
      /\ UNCHANGED <<toolTurn, policy, slot, drawing, card, click, stop,
                     decided, acted, answers>>
  BY DEF Desk!Asks, Desk!chat
<1>2. /\ r \in Desk!Requests /\ r \in 0 .. MaxRequests /\ r > issued
      /\ r \in 1 .. r /\ 1 .. issued \subseteq 1 .. r
  BY <1>1, DeskAssumption DEF Desk!Requests
<1>3. /\ write' \in WriteType /\ write'.at = "wait" /\ write'.id = r
  BY <1>1, <1>2 DEF WriteType
<1>4. r \notin pending /\ decided[r] = "open" /\ acted[r] = 0
  BY <1>2 DEF Desk!IInv, Desk!Numbered
<1>5. Desk!TypeOK'
  <2>1. CardTyped' /\ BooksTyped'
    BY <1>1, <1>2, <1>3 DEF CardTyped, BooksTyped
  <2> QED BY <2>1, DeskTypedAfter
<1>6. \A k \in Desk!Requests : k > r => k > issued /\ k # r
  BY DeskRequests
<1>7. Desk!Asking => toolTurn.id # r
  OBVIOUS
<1> HIDE DEF r
<1>8. Desk!Numbered'
  <2>1. Desk!Asking' => toolTurn'.id \in 1 .. r /\ toolTurn'.left > 0
    BY <1>1, <1>2 DEF Desk!IInv, Desk!Numbered, Desk!Asking
  <2>2. \A k \in Desk!Requests : k > r =>
          k \notin pending' /\ decided'[k] = "open" /\ acted'[k] = 0
    BY <1>1, <1>6 DEF Desk!IInv, Desk!Numbered
  <2>3. Desk!Asking' => toolTurn'.id # r
    BY <1>1, <1>7 DEF Desk!Asking
  <2> QED BY <1>1, <1>2, <1>3, <2>1, <2>2, <2>3 DEF Desk!Numbered
<1>9. Desk!DecidedOnce'
  BY <1>1, <1>4 DEF Desk!IInv, Desk!DecidedOnce
<1>10. Desk!NotYetActed'
  BY <1>1, <1>3, <1>4, <1>7
     DEF Desk!IInv, Desk!NotYetActed, Desk!Asking, Desk!Writing
<1>13. Desk!OnlyTurns'
  <2>1. Desk!Known' = Desk!Known
    BY <1>1 DEF Desk!Known
  <2>2. ASSUME NEW k \in Desk!Known \ {0}
        PROVE  k <= issued' /\ k # r /\ Desk!Current(k)
    BY <1>1, KnownNumbers DEF r
  <2> QED BY <1>1, <1>3, <2>1, <2>2
          DEF Desk!OnlyTurns, Desk!Current, Desk!Asking
<1>11. Desk!Clicked'
  BY <1>1 DEF Desk!IInv, Desk!Clicked
<1>12. Desk!ConsentPerAct'
  BY <1>1 DEF Desk!IInv, Desk!ConsentPerAct
<1> QED BY <1>5, <1>8, <1>9, <1>10, <1>11, <1>12, <1>13 DEF Desk!IInv

LEMMA WriteMoves ==
    ASSUME Desk!IInv, write' \in WriteType,
           write'.at # "idle" => write.at # "idle" /\ write'.id = write.id,
           write'.at # "wait",
           write'.at = "send" => write.at = "wait" /\ decided[write.id] = "yes",
           acted' \in [Desk!Requests -> 0 .. 2], Desk!ConsentPerAct',
           \A k \in Desk!Requests :
             acted'[k] = acted[k]
               \/ (write.at = "send" /\ write'.at = "poll" /\ k = write.id),
           UNCHANGED <<toolTurn, policy, slot, drawing, card, click, stop,
                       pending, decided, issued, answers>>
    PROVE  Desk!IInv'
<1> USE DeskNumbers
<1>1. Desk!TypeOK'
  <2>1. CardTyped' /\ BooksTyped'
    BY DEF CardTyped, BooksTyped
  <2> QED BY <2>1, DeskTypedAfter
<1>2. /\ Desk!Writing' => Desk!Writing /\ write'.id = write.id
                          /\ write'.at # "poll"
      /\ Desk!Asking' <=> Desk!Asking
  BY DEF Desk!Writing, Desk!Asking, WriteType
<1>3. Desk!Asking /\ write.at # "idle" => toolTurn.id # write.id
  BY DEF Desk!IInv, Desk!Numbered
<1>4. Desk!Asking => acted'[toolTurn.id] = acted[toolTurn.id]
  BY <1>3 DEF Desk!Writing
<1>5. Desk!Writing' => acted'[write.id] = acted[write.id]
  BY <1>2 DEF Desk!Writing
<1>6. Desk!Numbered'
  <2>1. \A k \in Desk!Requests : k > issued =>
          k \notin pending /\ decided[k] = "open" /\ acted'[k] = 0
    BY DEF Desk!IInv, Desk!Numbered
  <2> QED BY <2>1, <1>2, <1>3 DEF Desk!IInv, Desk!Numbered
<1>7. Desk!DecidedOnce'
  BY DEF Desk!IInv, Desk!DecidedOnce
<1>8. Desk!NotYetActed'
  <2>1. write'.at = "send" => decided'[write'.id] = "yes"
    BY <1>2 DEF Desk!Writing
  <2> QED BY <2>1, <1>2, <1>4, <1>5 DEF Desk!IInv, Desk!NotYetActed
<1>9. Desk!OnlyTurns' /\ Desk!Clicked'
  BY DEF Desk!IInv, Desk!OnlyTurns, Desk!Current, Desk!Known, Desk!Asking,
         Desk!Clicked
<1> QED BY <1>1, <1>6, <1>7, <1>8, <1>9 DEF Desk!IInv

LEMMA WriteGoesTo ==
    ASSUME write \in WriteType, NEW point \in {"send", "poll"},
           write' = [write EXCEPT !.at = point]
    PROVE  write' \in WriteType /\ write'.at = point /\ write'.id = write.id
<1>1. write' = [at |-> point, kind |-> write.kind, id |-> write.id]
  BY DEF WriteType
<1> QED BY <1>1 DEF WriteType

LEMMA ConfirmedKeeps ==
    ASSUME Desk!IInv, Desk!Confirmed
    PROVE  Desk!IInv'
<1>1. write \in WriteType /\ BooksTyped
  BY DeskNumbers
<1>2. /\ write.at = "wait"
      /\ UNCHANGED <<toolTurn, policy, slot, drawing, card, click, stop,
                     pending, decided, issued, acted, answers>>
      /\ IF decided[write.id] = "yes" THEN write' = [write EXCEPT !.at = "send"]
         ELSE write' = Desk!NoWrite
  BY DEF Desk!Confirmed, Desk!chat, Desk!store
<1>3. /\ write' \in WriteType
      /\ \/ write'.at = "idle"
         \/ write'.at = "send" /\ write'.id = write.id
              /\ decided[write.id] = "yes"
  BY <1>1, <1>2, WriteGoesTo, DeskRecords
<1>4. acted' \in [Desk!Requests -> 0 .. 2] /\ Desk!ConsentPerAct'
  BY <1>1, <1>2 DEF Desk!IInv, Desk!ConsentPerAct, BooksTyped
<1> QED BY <1>2, <1>3, <1>4, WriteMoves

LEMMA BroadcastKeeps ==
    ASSUME Desk!IInv, Desk!Broadcast
    PROVE  Desk!IInv'
<1>1. /\ write \in WriteType /\ BooksTyped
      /\ write.at # "idle" => write.id \in Desk!Requests
  BY DeskNumbers
<1>2. /\ write.at = "send"
      /\ UNCHANGED <<toolTurn, policy, slot, drawing, card, click, stop,
                     pending, decided, issued, answers>>
  BY DEF Desk!Broadcast, Desk!chat, Desk!store
<1>3. acted[write.id] = 0 /\ decided[write.id] = "yes"
  BY <1>2 DEF Desk!IInv, Desk!NotYetActed, Desk!Writing
<1>4. CASE Desk!Acts(write.id) /\ write' = [write EXCEPT !.at = "poll"]
  <2>1. write' \in WriteType /\ write'.at = "poll" /\ write'.id = write.id
    BY <1>1, <1>4, WriteGoesTo
  <2>2. /\ acted' \in [Desk!Requests -> 0 .. 2] /\ Desk!ConsentPerAct'
        /\ \A k \in Desk!Requests \ {write.id} : acted'[k] = acted[k]
    BY <1>1, <1>2, <1>3, <1>4, ActedOnce
  <2> QED BY <1>2, <2>1, <2>2, WriteMoves
<1>5. CASE write' = Desk!NoWrite /\ UNCHANGED acted
  <2>1. write' \in WriteType /\ write'.at = "idle"
    BY <1>5, DeskRecords
  <2>2. acted' \in [Desk!Requests -> 0 .. 2] /\ Desk!ConsentPerAct'
    BY <1>1, <1>2, <1>5 DEF Desk!IInv, Desk!ConsentPerAct, BooksTyped
  <2> QED BY <1>2, <1>5, <2>1, <2>2, WriteMoves
<1> QED BY <1>4, <1>5 DEF Desk!Broadcast

LEMMA PollKeeps ==
    ASSUME Desk!IInv, Desk!Poll
    PROVE  Desk!IInv'
<1>1. BooksTyped
  BY DeskNumbers
<1>2. /\ write' = Desk!NoWrite
      /\ UNCHANGED <<toolTurn, policy, slot, drawing, card, click, stop,
                     pending, decided, issued, acted, answers>>
  BY DEF Desk!Poll, Desk!chat, Desk!store
<1>3. write' \in WriteType /\ write'.at = "idle"
  BY <1>2, DeskRecords
<1>4. acted' \in [Desk!Requests -> 0 .. 2] /\ Desk!ConsentPerAct'
  BY <1>1, <1>2 DEF Desk!IInv, Desk!ConsentPerAct, BooksTyped
<1> QED BY <1>2, <1>3, <1>4, WriteMoves

-----------------------------------------------------------------------------
LEMMA DeskBegins == Desk!Init => Desk!IInv
<1> SUFFICES ASSUME Desk!Init PROVE Desk!IInv
  OBVIOUS
<1> USE DEF Desk!Init
<1>1. /\ toolTurn.at = "idle" /\ write.at = "idle"
      /\ \A c \in Clicks : /\ click[c].at = "idle" /\ click[c].shown = 0
                           /\ click[c].id = 0
  BY DeskRecords
<1>2. drawing \in Seq(0 .. MaxRequests) /\ Len(drawing) = 0
      /\ 1 .. Len(drawing) = {}
  OBVIOUS
<1>3. CardTyped
  BY <1>2, DeskRecords, DeskRequests, DeskAssumption DEF CardTyped
<1>4. BooksTyped
  <2>1. 0 \in 0 .. 2
    OBVIOUS
  <2> QED BY <2>1, DeskRecords, DeskRequests DEF BooksTyped
<1>5. Desk!TypeOK
  BY <1>3, <1>4, DeskTyped
<1>6. Desk!Numbered /\ Desk!NotYetActed /\ Desk!DecidedOnce
  BY <1>1 DEF Desk!Numbered, Desk!NotYetActed, Desk!DecidedOnce, Desk!Asking,
       Desk!Writing
<1>7. Desk!OnlyTurns /\ Desk!Clicked
  BY <1>1, <1>2 DEF Desk!OnlyTurns, Desk!Known, Desk!Clicked
<1>8. Desk!ConsentPerAct
  BY DEF Desk!ConsentPerAct
<1> QED BY <1>5, <1>6, <1>7, <1>8 DEF Desk!IInv

LEMMA DeskSteps == Desk!IInv /\ Desk!Next => Desk!IInv'
<1> SUFFICES ASSUME Desk!IInv, Desk!Next PROVE Desk!IInv'
  OBVIOUS
<1>1. CASE \/ Desk!ChatSend \/ Desk!ModelAnswers \/ Desk!NextRound
           \/ Desk!QuickTool \/ Desk!RiskyTool \/ Desk!ShowCard
           \/ Desk!StoreSlot \/ Desk!SubmitTool \/ Desk!FinishTool
           \/ Desk!SetScope \/ Desk!UiDraws \/ Desk!EmergencyStop
  BY <1>1, ChatSendKeeps, ModelAnswersKeeps, NextRoundKeeps, QuickToolKeeps,
     RiskyToolKeeps, ShowCardKeeps, StoreSlotKeeps, SubmitToolKeeps,
     FinishToolKeeps, ScopeKeeps, UiDrawsKeeps, EmergencyStopKeeps
<1>2. ASSUME NEW c \in Clicks, Desk!ClickCard(c) \/ Desk!ReadSlot(c)
                                 \/ Desk!ResolveSlot(c) \/ Desk!ClearSlot(c)
      PROVE  Desk!IInv'
  BY <1>2, ClickCardKeeps, ReadSlotKeeps, ResolveSlotKeeps, ClearSlotKeeps
<1>3. ASSUME NEW r \in Desk!Requests,
             Desk!TimesOut(r) \/ Desk!DecideRow(r) \/ Desk!StopDenies(r)
      PROVE  Desk!IInv'
  BY <1>3, TimesOutKeeps, DecideRowKeeps, StopDeniesKeeps
<1>4. CASE \/ Desk!JoinPool \/ Desk!LeavePool \/ Desk!ClaimEarnings
           \/ Desk!CreatePool \/ Desk!RegisterProvider \/ Desk!CollectEarnings
  BY <1>4, AsksKeeps
     DEF Desk!Kinds, Desk!JoinPool, Desk!LeavePool, Desk!ClaimEarnings,
         Desk!CreatePool, Desk!RegisterProvider, Desk!CollectEarnings
<1>5. CASE Desk!Confirmed \/ Desk!Broadcast \/ Desk!Poll
  BY <1>5, ConfirmedKeeps, BroadcastKeeps, PollKeeps
<1> QED BY <1>1, <1>2, <1>3, <1>4, <1>5 DEF Desk!Next

LEMMA DeskStutters ==
    Desk!IInv /\ UNCHANGED deskVars => Desk!IInv'
<1> SUFFICES ASSUME Desk!IInv, UNCHANGED deskVars PROVE Desk!IInv'
  OBVIOUS
<1>1. CardTyped' /\ policy' \in {"guided", "readOnly"}
  BY DeskNumbers DEF deskVars, CardTyped, BooksTyped
<1>2. Desk!Known' = Desk!Known /\ Desk!Clicked'
  BY DEF deskVars, Desk!Known, Desk!IInv, Desk!Clicked
<1> QED BY <1>1, <1>2, CardMoves DEF deskVars

LEMMA DeskInvariant == ServicesSpec => [](focus = "desk" => Desk!IInv)
<1> DEFINE I == focus = "desk" => Desk!IInv
<1>1. ServicesInit => I
  BY DeskBegins DEF ServicesInit
<1>2. I /\ [ServicesNext]_serviceVars => I'
  <2>1. CASE ServicesNext
    BY <2>1, DeskSteps DEF ServicesNext
  <2>2. CASE UNCHANGED serviceVars
    BY <2>2, DeskStutters DEF serviceVars
  <2> QED BY <2>1, <2>2
<1> QED BY <1>1, <1>2, PTL DEF ServicesSpec

\* Nothing a tool call or a panel's button asks for is carried out twice, or
\* without a user's approval of that request: a refusal, an emergency stop or a
\* lapse that came first is final (NAT-B-007).
THEOREM ActsSafety == ServicesSpec => []ConsentPerAct
<1>1. (focus = "desk" => Desk!IInv) => ConsentPerAct
  BY DEF ConsentPerAct, Desk!IInv
<1> QED BY <1>1, DeskInvariant, PTL

\* The card, the slot and the handlers of the card's buttons never know of the
\* request of a panel's write that is under way: no button of the card answers it.
THEOREM AnswersSafety == ServicesSpec => []CardLeavesWrites
<1>1. Desk!IInv => Desk!CardLeavesWrites
  <2> SUFFICES ASSUME Desk!IInv, write.at # "idle" PROVE Desk!CardLeavesWrites
    BY DEF Desk!CardLeavesWrites
  <2>1. write.id # 0
    BY DEF Desk!IInv, Desk!Numbered
  <2>2. slot \in Desk!Known /\ card \in Desk!Known
        /\ \A c \in Clicks : click[c].id \in Desk!Known
    BY DEF Desk!Known
  <2> QED BY <2>1, <2>2 DEF Desk!IInv, Desk!OnlyTurns, Desk!CardLeavesWrites
<1>2. (focus = "desk" => Desk!IInv) => CardLeavesWrites
  BY <1>1 DEF CardLeavesWrites
<1> QED BY <1>2, DeskInvariant, PTL

-----------------------------------------------------------------------------
(* ApprovalDesk keeps ConsentPromise: every step of the store, the tool loop, *)
(* the buttons, the stop and the time limit is one of its steps, or none.    *)

Stages == [r \in Desk!Requests |-> Desk!Stage(r)]

\* Which step of ConsentPromise the steps of the desk are.
LEMMA PromiseStays ==
    ASSUME UNCHANGED <<pending, decided, answers, acted>>
    PROVE  Desk!KeepsPromise
<1>1. \A r \in Desk!Requests : Desk!Stage(r)' = Desk!Stage(r)
  BY DEF Desk!Stage
<1>2. Desk!Consents' = Desk!Consents
  BY DEF Desk!Consents
<1> QED BY <1>1, <1>2 DEF Desk!KeepsPromise

LEMMA PromiseAsked ==
    ASSUME NEW r \in Desk!Requests, r \notin pending, decided[r] = "open",
           pending' = pending \cup {r}, UNCHANGED <<decided, answers, acted>>
    PROVE  Desk!KeepsPromise
<1>1. Stages' = [Stages EXCEPT ![r] = "asked"]
  BY DEF Stages, Desk!Stage
<1>2. Stages[r] = "unasked"
  BY DEF Stages, Desk!Stage
<1>3. Desk!Consents' = Desk!Consents
  BY DEF Desk!Consents
<1>4. Desk!Promise!Ask(r)
  BY <1>1, <1>2, <1>3 DEF Desk!Promise!Ask, Stages
<1> QED BY <1>4 DEF Desk!KeepsPromise, Desk!Promise!Next

LEMMA PromiseAnswered ==
    ASSUME Desk!IInv, NEW r \in Desk!Requests, NEW yes \in BOOLEAN,
           Desk!Resolves(r, yes), UNCHANGED acted,
           Desk!Consents' = IF yes /\ r \in pending
                            THEN Desk!Consents \cup {r} ELSE Desk!Consents
    PROVE  Desk!KeepsPromise
<1>1. BooksTyped
  BY DeskTyped DEF Desk!IInv
<1>2. CASE r \notin pending
  <2>1. UNCHANGED <<pending, decided>>
    BY <1>1, <1>2 DEF Desk!Resolves
  <2>2. \A o \in Desk!Requests : Desk!Stage(o)' = Desk!Stage(o)
    BY <2>1 DEF Desk!Stage
  <2> QED BY <1>2, <2>2 DEF Desk!KeepsPromise
<1>3. CASE r \in pending
  <2>1. /\ pending' = pending \ {r}
        /\ decided' = [decided EXCEPT ![r] = IF yes THEN "yes" ELSE "no"]
    BY <1>3 DEF Desk!Resolves
  <2>2. /\ decided'[r] = IF yes THEN "yes" ELSE "no"
        /\ \A o \in Desk!Requests \ {r} : decided'[o] = decided[o]
    BY <1>1, <2>1 DEF BooksTyped
  <2>3. Stages' = [Stages EXCEPT ![r] = IF yes THEN "approved" ELSE "refused"]
    <3>1. ASSUME NEW o \in Desk!Requests, o # r
          PROVE  Desk!Stage(o)' = Desk!Stage(o)
      BY <2>1, <2>2, <3>1 DEF Desk!Stage
    <3>2. CASE yes
      <4>1. Desk!Stage(r)' = "approved"
        BY <2>1, <2>2, <3>2 DEF Desk!Stage
      <4> QED BY <3>1, <3>2, <4>1 DEF Stages
    <3>3. CASE ~yes
      <4>1. Desk!Stage(r)' = "refused"
        BY <2>1, <2>2, <3>3 DEF Desk!Stage
      <4> QED BY <3>1, <3>3, <4>1 DEF Stages
    <3> QED BY <3>2, <3>3
  <2>4. Stages[r] = "asked"
    BY <1>3 DEF Stages, Desk!Stage
  <2>5. CASE yes
    <3>1. Desk!Promise!Approve(r)
      BY <1>3, <2>3, <2>4, <2>5 DEF Desk!Promise!Approve, Stages
    <3> QED BY <3>1 DEF Desk!KeepsPromise, Desk!Promise!Next
  <2>6. CASE ~yes
    <3>1. Desk!Promise!Refuse(r)
      BY <2>3, <2>4, <2>6 DEF Desk!Promise!Refuse, Stages
    <3> QED BY <3>1 DEF Desk!KeepsPromise, Desk!Promise!Next
  <2> QED BY <2>5, <2>6
<1> QED BY <1>2, <1>3

LEMMA PromiseActed ==
    ASSUME Desk!IInv, NEW r \in Desk!Requests, r \notin pending,
           decided[r] = "yes", acted[r] = 0, Desk!Acts(r),
           UNCHANGED <<pending, decided, answers>>
    PROVE  Desk!KeepsPromise
<1>1. acted' = [acted EXCEPT ![r] = 1]
  BY DEF Desk!Acts
<1>2. Stages[r] = "approved"
  BY DEF Stages, Desk!Stage
<1>3. \A o \in Desk!Requests : Desk!Stage(o)' = Desk!Stage(o)
  BY DEF Desk!Stage
<1>4. Desk!Consents' = Desk!Consents /\ Stages' = Stages
  BY <1>3 DEF Desk!Consents, Stages
<1>5. Desk!Promise!Act(r)
  BY <1>1, <1>2, <1>4 DEF Desk!Promise!Act, Stages
<1> QED BY <1>5 DEF Desk!KeepsPromise, Desk!Promise!Next

LEMMA ConsentAdded ==
    ASSUME NEW shown, NEW r, answers' = answers \cup {<<shown, r>>}
    PROVE  Desk!Consents' = Desk!Consents \cup {r}
<1>1. ASSUME NEW x \in Desk!Consents' PROVE x \in Desk!Consents \cup {r}
  <2>1. PICK a \in answers' : x = a[2]
    BY <1>1 DEF Desk!Consents
  <2>2. a \in answers \/ a = <<shown, r>>
    BY <2>1
  <2> QED BY <2>1, <2>2 DEF Desk!Consents
<1>2. Desk!Consents \subseteq Desk!Consents'
  BY DEF Desk!Consents
<1>3. <<shown, r>> \in answers' /\ <<shown, r>>[2] = r
  OBVIOUS
<1>4. r \in Desk!Consents'
  BY <1>3 DEF Desk!Consents
<1> QED BY <1>1, <1>2, <1>4

\* The handlers, one by one.
LEMMA SubmitPromised ==
    ASSUME Desk!IInv, Desk!SubmitTool
    PROVE  Desk!KeepsPromise
<1>1. PICK r : r = toolTurn.id
  OBVIOUS
<1>2. /\ r \in Desk!Requests /\ r \notin pending /\ decided[r] = "open"
  BY <1>1, DeskTyped, DeskRequests
     DEF Desk!IInv, Desk!SubmitTool, Desk!Numbered, Desk!NotYetActed,
         Desk!Asking, BooksTyped
<1>3. pending' = pending \cup {r} /\ UNCHANGED <<decided, answers, acted>>
  BY <1>1 DEF Desk!SubmitTool, Desk!Submits
<1> QED BY <1>2, <1>3, PromiseAsked

LEMMA FinishPromised ==
    ASSUME Desk!IInv, Desk!FinishTool
    PROVE  Desk!KeepsPromise
<1>1. PICK r : r = toolTurn.id
  OBVIOUS
<1>2. /\ r \in Desk!Requests /\ r \notin pending /\ acted[r] = 0
      /\ UNCHANGED <<pending, decided, answers>>
  BY <1>1, DeskTyped, DeskRequests
     DEF Desk!IInv, Desk!FinishTool, Desk!Numbered, Desk!NotYetActed,
         Desk!Asking, BooksTyped, Desk!store
<1>3. IF decided[r] = "yes" THEN Desk!Acts(r) ELSE UNCHANGED acted
  BY <1>1 DEF Desk!FinishTool, Desk!Acts
<1>4. CASE decided[r] = "yes"
  BY <1>2, <1>3, <1>4, PromiseActed
<1>5. CASE decided[r] # "yes"
  BY <1>2, <1>3, <1>5, PromiseStays
<1> QED BY <1>4, <1>5

LEMMA AsksPromised ==
    ASSUME Desk!IInv, NEW kind, Desk!Asks(kind)
    PROVE  Desk!KeepsPromise
<1>1. PICK r : r = issued + 1
  OBVIOUS
<1>2. r \in Desk!Requests /\ r > issued
  BY <1>1, DeskTyped, DeskRequests
     DEF Desk!IInv, Desk!Asks, BooksTyped
<1>3. r \notin pending /\ decided[r] = "open"
  BY <1>2 DEF Desk!IInv, Desk!Numbered
<1>4. pending' = pending \cup {r} /\ UNCHANGED <<decided, answers, acted>>
  BY <1>1 DEF Desk!Asks
<1> QED BY <1>2, <1>3, <1>4, PromiseAsked

LEMMA BroadcastPromised ==
    ASSUME Desk!IInv, Desk!Broadcast
    PROVE  Desk!KeepsPromise
<1>1. PICK r : r = write.id
  OBVIOUS
<1>2. /\ r \in Desk!Requests /\ acted[r] = 0 /\ decided[r] = "yes"
      /\ UNCHANGED <<pending, decided, answers>>
  BY <1>1, DeskTyped, DeskRequests
     DEF Desk!IInv, Desk!Broadcast, Desk!Numbered, Desk!NotYetActed,
         Desk!Writing, BooksTyped, Desk!store
<1>3. r \notin pending
  BY <1>2 DEF Desk!IInv, Desk!DecidedOnce
<1>4. Desk!Acts(r) \/ UNCHANGED acted
  BY <1>1 DEF Desk!Broadcast, Desk!Acts
<1> QED BY <1>2, <1>3, <1>4, PromiseActed, PromiseStays

LEMMA ClickPromised ==
    ASSUME Desk!IInv, NEW c \in Clicks, Desk!ResolveSlot(c)
    PROVE  Desk!KeepsPromise
<1>1. PICK r, yes : r = click[c].id /\ yes = click[c].yes
  OBVIOUS
<1>2. r \in Desk!Requests /\ yes \in BOOLEAN
  <2>1. click[c] \in ClickType /\ click[c].at = "resolve"
    BY DeskTyped DEF Desk!IInv, CardTyped, Desk!ResolveSlot
  <2>2. click[c].id # 0
    BY <2>1 DEF Desk!IInv, Desk!Clicked
  <2> QED BY <1>1, <2>1, <2>2, DeskRequests DEF ClickType
<1>3. Desk!Resolves(r, yes) /\ UNCHANGED acted
  BY <1>1 DEF Desk!ResolveSlot, Desk!Resolves
<1>4. answers' = IF yes /\ r \in pending
                 THEN answers \cup {<<click[c].shown, r>>} ELSE answers
  BY <1>1 DEF Desk!ResolveSlot
<1>5. Desk!Consents' = IF yes /\ r \in pending
                       THEN Desk!Consents \cup {r} ELSE Desk!Consents
  <2>1. CASE yes /\ r \in pending
    <3>1. PICK shown : shown = click[c].shown
      OBVIOUS
    <3> QED BY <1>4, <2>1, <3>1, ConsentAdded
  <2>2. CASE ~(yes /\ r \in pending)
    BY <1>4, <2>2 DEF Desk!Consents
  <2> QED BY <2>1, <2>2
<1> QED BY <1>2, <1>3, <1>5, PromiseAnswered

LEMMA DecidePromised ==
    ASSUME Desk!IInv, NEW r \in Desk!Requests,
           Desk!TimesOut(r) \/ Desk!DecideRow(r) \/ Desk!StopDenies(r)
    PROVE  Desk!KeepsPromise
<1>1. CASE Desk!TimesOut(r) \/ Desk!StopDenies(r)
  <2>1. Desk!Resolves(r, FALSE) /\ UNCHANGED <<answers, acted>>
    BY <1>1 DEF Desk!TimesOut, Desk!StopDenies
  <2>2. Desk!Consents' = Desk!Consents
    BY <2>1 DEF Desk!Consents
  <2> QED BY <2>1, <2>2, PromiseAnswered
<1>2. CASE Desk!DecideRow(r)
  <2>1. PICK yes \in BOOLEAN :
          /\ Desk!Resolves(r, yes)
          /\ answers' = IF yes THEN answers \cup {<<r, r>>} ELSE answers
    BY <1>2 DEF Desk!DecideRow
  <2>2. r \in pending /\ UNCHANGED acted
    BY <1>2 DEF Desk!DecideRow
  <2>3. Desk!Consents' = IF yes /\ r \in pending
                         THEN Desk!Consents \cup {r} ELSE Desk!Consents
    <3>1. CASE yes
      BY <2>1, <2>2, <3>1, ConsentAdded
    <3>2. CASE ~yes
      BY <2>1, <3>2 DEF Desk!Consents
    <3> QED BY <3>1, <3>2
  <2> QED BY <2>1, <2>2, <2>3, PromiseAnswered
<1> QED BY <1>1, <1>2

LEMMA PromisedSteps == Desk!IInv /\ Desk!Next => Desk!KeepsPromise
<1> SUFFICES ASSUME Desk!IInv, Desk!Next PROVE Desk!KeepsPromise
  OBVIOUS
<1>1. CASE \/ Desk!ChatSend \/ Desk!ModelAnswers \/ Desk!NextRound
           \/ Desk!QuickTool \/ Desk!ShowCard \/ Desk!StoreSlot
           \/ Desk!SetScope \/ Desk!UiDraws \/ Desk!EmergencyStop
           \/ Desk!RiskyTool \/ Desk!Confirmed \/ Desk!Poll
  <2>1. UNCHANGED <<pending, decided, answers, acted>>
    BY <1>1 DEF Desk!ChatSend, Desk!ModelAnswers, Desk!NextRound,
         Desk!QuickTool, Desk!ShowCard, Desk!StoreSlot, Desk!SetScope,
         Desk!UiDraws, Desk!EmergencyStop, Desk!RiskyTool, Desk!Confirmed,
         Desk!Poll, Desk!store
  <2> QED BY <2>1, PromiseStays
<1>2. ASSUME NEW c \in Clicks,
             Desk!ClickCard(c) \/ Desk!ReadSlot(c) \/ Desk!ClearSlot(c)
      PROVE  Desk!KeepsPromise
  <2>1. UNCHANGED <<pending, decided, answers, acted>>
    BY <1>2 DEF Desk!ClickCard, Desk!ReadSlot, Desk!ClearSlot, Desk!store
  <2> QED BY <2>1, PromiseStays
<1>3. CASE \/ Desk!JoinPool \/ Desk!LeavePool \/ Desk!ClaimEarnings
           \/ Desk!CreatePool \/ Desk!RegisterProvider \/ Desk!CollectEarnings
  BY <1>3, AsksPromised
     DEF Desk!JoinPool, Desk!LeavePool, Desk!ClaimEarnings, Desk!CreatePool,
         Desk!RegisterProvider, Desk!CollectEarnings
<1> QED
  BY <1>1, <1>2, <1>3, SubmitPromised, FinishPromised, BroadcastPromised,
     ClickPromised, DecidePromised DEF Desk!Next

LEMMA PromiseAtFirst == Desk!Init => Desk!PromiseBegins
<1> SUFFICES ASSUME Desk!Init PROVE Desk!PromiseBegins
  OBVIOUS
<1>1. \A r \in Desk!Requests : Desk!Stage(r) = "unasked"
  BY DEF Desk!Init, Desk!Stage
<1>2. Desk!Consents = {}
  BY DEF Desk!Init, Desk!Consents
<1> QED BY <1>1, <1>2 DEF Desk!Init, Desk!PromiseBegins, Desk!Promise!Init

\* The chat, the panels, the list of requests, the stop and the time limit are
\* one approval procedure: asked once, answered once, carried out at most once
\* and after a user's yes.
THEOREM ConsentRefinement == ServicesSpec => ConsentFollowed
<1>1. ServicesInit => (focus = "desk" => Desk!PromiseBegins)
  BY PromiseAtFirst DEF ServicesInit
<1>2. (focus = "desk" => Desk!IInv) /\ [ServicesNext]_serviceVars
        => [focus = "desk" => Desk!KeepsPromise]_serviceVars
  BY PromisedSteps DEF ServicesNext
<1> QED BY <1>1, <1>2, DeskInvariant, PTL DEF ServicesSpec, ConsentFollowed
==============================================================================
