------------------------------- MODULE FileIndex -------------------------------
(***************************************************************************)
(* The Storage panel's index, files.json.  For a private file it holds the *)
(* only copy of the file's key, wrapped under the envelope key of the OS   *)
(* keyring: a lost record or envelope key is a lost file.  An upload loads *)
(* the index before it adds its files and saves it after the last; a       *)
(* removal, and there may be several, loads and saves it in between.  All  *)
(* saves go through one temporary file.  IPFS and the keyring are          *)
(* external.                                                               *)
(***************************************************************************)
EXTENDS Naturals, FiniteSets

CONSTANTS
    Files,      \* contents, named by their CIDs
    Removals,   \* removals that may run at a time
    MaxEnvelope \* bound: envelope keys generated

VARIABLES
    upload,   \* the upload: where it is, files left, its copy of the index
    removal,  \* removal[d]: where it is, its file, its copy of the index
    index,    \* files.json: records with their CID and wrapping key
    pinned,   \* what the IPFS daemon pins
    envelope, \* the envelope key in the keyring; 0: no entry
    keys,     \* envelope keys generated
    \* history
    kept,     \* files whose upload was saved and that no one removed since
    atRisk,   \* of these, the ones the next save or a lost key may lose
    exposed   \* files added in the clear though the toggle was on

keyVars == <<envelope, keys>>
history == <<kept, atRisk, exposed>>
vars == <<upload, removal, index, pinned, keyVars, history>>

Public == 0   \* the wrapping key of a record that is not encrypted
Records == [cid : Files, key : 0 .. MaxEnvelope]
\* wanted, history: what the toggle showed when the upload was begun.
NoUpload == [at |-> "idle", encrypt |-> TRUE, wanted |-> TRUE, left |-> {},
             done |-> {}, key |-> Public, copy |-> {}]
NoRemoval == [at |-> "idle", cid |-> CHOOSE f \in Files : TRUE, copy |-> {}]

TypeOK ==
    /\ upload \in [at : {"idle", "dialog", "key", "load", "adding"},
                   encrypt : BOOLEAN, wanted : BOOLEAN, left : SUBSET Files,
                   done : SUBSET Files, key : 0 .. MaxEnvelope,
                   copy : SUBSET Records]
    /\ removal \in [Removals -> [at : {"idle", "unpin", "load", "save"},
                                 cid : Files, copy : SUBSET Records]]
    /\ index \subseteq Records /\ pinned \subseteq Files
    /\ envelope \in 0 .. MaxEnvelope /\ keys \in 0 .. MaxEnvelope
    /\ kept \subseteq Files /\ atRisk \subseteq kept /\ exposed \subseteq Files

Init ==
    /\ upload = NoUpload
    /\ removal = [d \in Removals |-> NoRemoval]
    /\ index = {} /\ pinned = {} /\ envelope = 0 /\ keys = 0
    /\ kept = {} /\ atRisk = {} /\ exposed = {}

Cids(records) == {r.cid : r \in records}
Without(records, f) == {r \in records : r.cid # f}

\* upsert: one record per CID, the newest.
Upsert(records, r) == Without(records, r.cid) \cup {r}

\* load: a file that cannot be read, or parsed, is an empty index.
Loaded == {index, {}}
AtRiskAfter(records) == IF records = index THEN atRisk ELSE kept

SavingUpload == upload.at = "adding" /\ upload.left = {}
Saving == {d \in Removals : removal[d].at = "save"}

\* Mutant: the file is written in place, so that a crash may cut it short.
WrittenInPlace ==
    {removal[d].copy : d \in Saving} \cup {{}}
      \cup (IF SavingUpload THEN {upload.copy} ELSE {})

\* What is about to be renamed over the index: the temporary file has one name,
\* so that a save may rename what another one has written.
Written ==
    {removal[d].copy : d \in Saving}
      \cup (IF SavingUpload THEN {upload.copy} ELSE {})

\* One save renames what another one is still writing.
Torn == \E d \in Saving : SavingUpload \/ Saving # {d}

-----------------------------------------------------------------------------
(* An upload                                                               *)

\* The button is off while an upload runs.  The toggle, which the user may flip
\* at any time, counts as it is at the click.
UploadFile ==
    /\ upload.at = "idle"
    /\ \E toggle \in BOOLEAN :
         upload' = [NoUpload EXCEPT !.at = "dialog", !.encrypt = toggle,
                                    !.wanted = toggle]
    /\ UNCHANGED <<removal, index, pinned, keyVars, history>>

\* Mutant: the toggle is looked at when the dialog returns.
PickFilesThenLook ==
    /\ upload.at = "dialog"
    /\ \/ upload' = NoUpload
       \/ \E chosen \in SUBSET Files \ {{}}, toggle \in BOOLEAN :
            upload' = [upload EXCEPT !.at = IF toggle THEN "key" ELSE "load",
                                     !.left = chosen]
    /\ UNCHANGED <<removal, index, pinned, keyVars, history>>

PickFiles ==
    /\ upload.at = "dialog"
    /\ \/ upload' = NoUpload
       \/ \E chosen \in SUBSET Files \ {{}} :
            upload' = [upload EXCEPT !.at = IF upload.encrypt THEN "key" ELSE "load",
                                     !.left = chosen]
    /\ UNCHANGED <<removal, index, pinned, keyVars, history>>

\* EnvelopeKey::load_or_create.  get_secret gives None for an entry it cannot
\* read as well: a new key then replaces the old one.  A store that fails to
\* take the new key cancels the upload.
LoadEnvelope ==
    /\ upload.at = "key"
    /\ \/ /\ envelope # 0
          /\ upload' = [upload EXCEPT !.at = "load", !.key = envelope]
          /\ UNCHANGED <<keyVars, atRisk>>
       \/ /\ keys < MaxEnvelope
          /\ keys' = keys + 1 /\ envelope' = keys + 1
          /\ atRisk' = IF envelope = 0 THEN atRisk ELSE kept
          /\ upload' = [upload EXCEPT !.at = "load", !.key = keys + 1]
       \/ upload' = NoUpload /\ UNCHANGED <<keyVars, atRisk>>
    /\ UNCHANGED <<removal, index, pinned, kept, exposed>>

LoadIndex ==
    /\ upload.at = "load"
    /\ \E records \in Loaded :
         /\ upload' = [upload EXCEPT !.at = "adding", !.copy = records]
         /\ atRisk' = AtRiskAfter(records)
    /\ UNCHANGED <<removal, index, pinned, keyVars, kept, exposed>>

\* A file that is being removed at the same time is not one to keep.
Removed(f) == \E d \in Removals : removal[d].at # "idle" /\ removal[d].cid = f

\* ipfs add with a pin; a file that fails is reported and left out.
AddFile(f) ==
    /\ upload.at = "adding" /\ f \in upload.left
    /\ \/ /\ upload' = [upload EXCEPT !.left = @ \ {f},
            !.done = IF Removed(f) THEN @ ELSE @ \cup {f},
            !.copy = Upsert(@, [cid |-> f, key |-> upload.key])]
          /\ pinned' = pinned \cup {f}
          /\ exposed' = IF upload.wanted /\ upload.key = Public
                      THEN exposed \cup {f} ELSE exposed
       \/ upload' = [upload EXCEPT !.left = @ \ {f}] /\ UNCHANGED <<pinned, exposed>>
    /\ UNCHANGED <<removal, index, keyVars, kept, atRisk>>

\* Saved once, after the last file; a failed save is only logged.  What is saved
\* while a removal has its copy already, the removal loses.
SaveUpload ==
    /\ SavingUpload
    /\ \/ /\ index' \in Written
          /\ kept' = kept \cup upload.done
          /\ atRisk' = IF Saving = {} THEN atRisk \ upload.done
                       ELSE atRisk \cup upload.done
       \/ /\ Torn /\ index' = {}
          /\ kept' = kept \cup upload.done /\ atRisk' = kept'
       \/ UNCHANGED <<index, kept, atRisk>>
    /\ upload' = NoUpload
    /\ UNCHANGED <<removal, pinned, keyVars, exposed>>

-----------------------------------------------------------------------------
(* Removals: every click spawns a task of its own                          *)

Remove(d, f) ==
    /\ removal[d].at = "idle" /\ f \in Cids(index)
    /\ removal' = [removal EXCEPT ![d] = [NoRemoval EXCEPT !.at = "unpin",
                                                           !.cid = f]]
    /\ kept' = kept \ {f} /\ atRisk' = atRisk \ {f}
    /\ upload' = [upload EXCEPT !.done = @ \ {f}]
    /\ UNCHANGED <<index, pinned, keyVars, exposed>>

\* A failed unpin does not keep the record.
Unpin(d) ==
    /\ removal[d].at = "unpin"
    /\ pinned' \in {pinned, pinned \ {removal[d].cid}}
    /\ removal' = [removal EXCEPT ![d].at = "load"]
    /\ UNCHANGED <<upload, index, keyVars, history>>

LoadForRemoval(d) ==
    /\ removal[d].at = "load"
    /\ \E records \in Loaded :
         /\ removal' = [removal EXCEPT ![d].at = "save",
                          ![d].copy = Without(records, removal[d].cid)]
         /\ atRisk' = AtRiskAfter(records)
    /\ UNCHANGED <<upload, index, pinned, keyVars, kept, exposed>>

SaveRemoval(d) ==
    /\ removal[d].at = "save"
    /\ \/ index' \in {index} \cup Written /\ UNCHANGED atRisk
       \/ Torn /\ index' = {} /\ atRisk' = kept
    /\ removal' = [removal EXCEPT ![d] = NoRemoval]
    /\ UNCHANGED <<upload, pinned, keyVars, kept, exposed>>

-----------------------------------------------------------------------------
\* The application ends, perhaps in the middle of a save, and starts again.
Crash ==
    /\ upload.at # "idle" \/ \E d \in Removals : removal[d].at # "idle"
    /\ \/ index' \in {index} \cup Written /\ UNCHANGED atRisk
       \/ Torn /\ index' = {} /\ atRisk' = kept
    /\ upload' = NoUpload /\ removal' = [d \in Removals |-> NoRemoval]
    /\ UNCHANGED <<pinned, keyVars, kept, exposed>>

Next ==
    \/ UploadFile \/ PickFiles \/ LoadEnvelope \/ LoadIndex
    \/ SaveUpload \/ Crash
    \/ \E f \in Files : AddFile(f)
    \/ \E d \in Removals :
         \/ \E f \in Files : Remove(d, f)
         \/ Unpin(d) \/ LoadForRemoval(d) \/ SaveRemoval(d)

Spec == Init /\ [][Next]_vars

-----------------------------------------------------------------------------
Readable(records, f) ==
    \E r \in records : r.cid = f /\ r.key \in {Public, envelope}

\* A file the user uploaded and did not remove stays listed, pinned and, if it
\* is private, readable with the keyring's key, over failed adds and saves,
\* removals that overlap, and restarts.  The files at risk are others: those
\* kept when the index was read as empty, when a new envelope key took the place
\* of one or when two saves met in the temporary file, and those whose upload was
\* saved while a removal held an older copy.
FilesKept == \A f \in kept \ atRisk : f \in pinned /\ Readable(index, f)

\* "a user who asked for private never silently gets a plaintext upload": what
\* the toggle showed at the click holds for every file of the upload, whatever
\* the toggle shows later and whatever the keyring answers.
PrivateUploadsSealed == exposed = {}

-----------------------------------------------------------------------------
(* Why FilesKept and PrivateUploadsSealed hold.                            *)

Safe == kept \ atRisk

\* What is being removed is not one of those to keep.
Apart == \A f \in kept \cup upload.done : ~Removed(f)

\* The copies that will replace the index have what it must not lose.
CopiesKeep ==
    /\ upload.at = "adding" =>
         /\ \A f \in Safe \cup upload.done : Readable(upload.copy, f)
         /\ upload.done \subseteq pinned
    /\ \A d \in Saving : \A f \in Safe : Readable(removal[d].copy, f)

\* An upload wraps under the key the keyring has, if it was begun as a private
\* one, and has added nothing before it has loaded the index.
WrapsUnder ==
    /\ upload.at # "idle" => /\ upload.key \in {Public, envelope}
                             /\ upload.encrypt = upload.wanted
    /\ upload.at \in {"load", "adding"} /\ upload.wanted => upload.key # Public
    /\ upload.at \in {"idle", "dialog", "key", "load"} => upload.done = {}
    /\ upload.at \in {"dialog", "key"} => upload.key = Public

IInv == TypeOK /\ Apart /\ CopiesKeep /\ WrapsUnder /\ FilesKept
          /\ PrivateUploadsSealed
================================================================================
