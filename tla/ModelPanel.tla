------------------------------ MODULE ModelPanel ------------------------------
(***************************************************************************)
(* The model the chat panel names.  The installer's model is copied into   *)
(* ~/.citrate/models before the window opens, and again by the Download    *)
(* button, unless a file of its name is there; the copy is made in place.  *)
(* The startup detection and the Scan button take Ollama's model, or the   *)
(* file's, for the chat; Download names the file and Load the first model  *)
(* of the chain, and neither tells the chat.                               *)
(***************************************************************************)
EXTENDS Naturals, Sequences

CONSTANTS
    Tasks,        \* tasks of the runtime that may be in flight together
    MaxClicks,    \* bound: buttons pressed
    MaxLaunches   \* bound: launches

VARIABLES
    app,          \* down, or seeding before the window opens, or up
    file,         \* the bundled model's file
    ollama,       \* Ollama is there, with a model
    shown,        \* chat-model-name while chat-model-loaded, or none
    used,         \* the model of ChatService
    task,         \* task[t]: an operation, where it is and what it found
    posted,       \* closures for the UI thread, oldest first
    clicks, launches,
    \* history
    torn,         \* a copy of the file was cut short, or failed
    crossed,      \* two operations, or one and a change, overlapped
    agreed        \* what is shown is what a detection found

vars == <<app, file, ollama, shown, used, task, posted, clicks, launches,
          torn, crossed, agreed>>

Names == {"bundle", "ollama", "chain", "none"}
Buttons == {"scan", "download", "load"}
Idle == [op |-> "none", at |-> "idle", name |-> "none"]

TypeOK ==
    /\ app \in {"down", "seeding", "up"}
    /\ file \in {"absent", "partial", "whole"} /\ ollama \in BOOLEAN
    /\ {shown, used} \subseteq Names
    /\ task \in [Tasks -> {Idle} \cup
           [op : Buttons \cup {"detect"},
            at : {"begun", "copying", "seeded", "found", "set"},
            name : Names]]
    /\ posted \in Seq([op : Buttons \cup {"detect"}, name : Names])
    /\ clicks \in 0..MaxClicks /\ launches \in 0..MaxLaunches
    /\ {torn, crossed, agreed} \subseteq BOOLEAN

Init ==
    /\ app = "down" /\ file = "absent" /\ ollama \in BOOLEAN
    /\ shown = "none" /\ used = "none" /\ task = [t \in Tasks |-> Idle]
    /\ posted = <<>> /\ clicks = 0 /\ launches = 0
    /\ torn = FALSE /\ crossed = FALSE /\ agreed = FALSE

Due == posted # <<>> \/ \E t \in Tasks : task[t] # Idle
At(t, ops, at) == task[t].op \in ops /\ task[t].at = at
Ends(t) == task' = [task EXCEPT ![t] = Idle]
Goes(t, at, name) == task' = [task EXCEPT ![t].at = at, ![t].name = name]
Post(op, name) == posted' = Append(posted, [op |-> op, name |-> name])

\* The startup detection, as a task of its own.
Opens ==
    /\ app' = "up"
    /\ \E t \in Tasks :
           task' = [task EXCEPT ![t] = [Idle EXCEPT !.op = "detect",
                                                    !.at = "begun"]]

-----------------------------------------------------------------------------
\* seed_bundled_model in AppCore::new: a file that is there, whole or not, is
\* not copied again.
Launch ==
    /\ app = "down" /\ launches < MaxLaunches /\ launches' = launches + 1
    /\ shown' = "none" /\ used' = "none" /\ agreed' = FALSE
    /\ IF file = "absent"
       THEN app' = "seeding" /\ file' = "partial" /\ UNCHANGED task
       ELSE Opens /\ UNCHANGED file
    /\ UNCHANGED <<ollama, posted, clicks, torn, crossed>>

SeedEnds ==
    /\ app = "seeding" /\ Opens
    /\ \/ file' = "whole" /\ UNCHANGED torn
       \/ file' \in {"partial", "absent"} /\ torn' = (file' = "partial")
    /\ UNCHANGED <<ollama, shown, used, posted, clicks, launches, crossed,
                   agreed>>

Press(t, op) ==
    /\ app = "up" /\ task[t] = Idle /\ clicks < MaxClicks
    /\ clicks' = clicks + 1 /\ crossed' = (crossed \/ Due)
    /\ task' = [task EXCEPT ![t] = [op |-> op, at |-> "begun",
                                    name |-> "none"]]
    /\ UNCHANGED <<app, file, ollama, shown, used, posted, launches, torn,
                   agreed>>

\* detect_local_backend: Ollama first, then a file, whatever is in it.
Detect(t) ==
    /\ At(t, {"detect", "scan"}, "begun")
    /\ Goes(t, "found", IF ollama THEN "ollama"
                        ELSE IF file # "absent" THEN "bundle" ELSE "none")
    /\ UNCHANGED <<app, file, ollama, shown, used, posted, clicks, launches,
                   torn, crossed, agreed>>

SetModel(t) ==
    /\ At(t, {"detect", "scan"}, "found") /\ Goes(t, "set", task[t].name)
    /\ used' = IF task[t].name = "none" THEN used ELSE task[t].name
    /\ UNCHANGED <<app, file, ollama, shown, posted, clicks, launches, torn,
                   crossed, agreed>>

PostFound(t) ==
    /\ At(t, {"detect", "scan"}, "set") /\ Ends(t)
    /\ Post(task[t].op, task[t].name)
    /\ UNCHANGED <<app, file, ollama, shown, used, clicks, launches, torn,
                   crossed, agreed>>

\* Mutant: the copy is started and not waited for.
DownloadUnawaited(t) ==
    /\ At(t, {"download"}, "begun")
    /\ Goes(t, "seeded", "none")
    /\ file' = IF file = "absent" THEN "partial" ELSE file
    /\ UNCHANGED <<app, ollama, shown, used, posted, clicks, launches, torn,
                   crossed, agreed>>

\* on_settings_download_model seeds again, on a blocking thread.
Download(t) ==
    /\ At(t, {"download"}, "begun")
    /\ IF file = "absent"
       THEN Goes(t, "copying", "none") /\ file' = "partial"
       ELSE Goes(t, "seeded", "none") /\ UNCHANGED file
    /\ UNCHANGED <<app, ollama, shown, used, posted, clicks, launches, torn,
                   crossed, agreed>>

CopyEnds(t) ==
    /\ At(t, {"download"}, "copying") /\ Goes(t, "seeded", "none")
    /\ \/ file' = "whole" /\ UNCHANGED torn
       \/ torn' = TRUE /\ UNCHANGED file
    /\ UNCHANGED <<app, ollama, shown, used, posted, clicks, launches,
                   crossed, agreed>>

\* Whether or not the seeding worked, the first file that is there is named.
NameFile(t) ==
    /\ At(t, {"download"}, "seeded") /\ Ends(t)
    /\ Post("download", IF file = "absent" THEN "none" ELSE "bundle")
    /\ UNCHANGED <<app, file, ollama, shown, used, clicks, launches, torn,
                   crossed, agreed>>

\* on_models_load_model: the chain has models, or none, or does not answer.
LoadModel(t) ==
    /\ At(t, {"load"}, "begun") /\ Ends(t)
    /\ Post("load", "chain") \/ UNCHANGED posted
    /\ UNCHANGED <<app, file, ollama, shown, used, clicks, launches, torn,
                   crossed, agreed>>

ShowModel ==
    /\ posted # <<>> /\ posted' = Tail(posted)
    /\ shown' = Head(posted).name
    /\ agreed' = (Head(posted).op \in {"detect", "scan"}
                     /\ Head(posted).name # "none")
    /\ UNCHANGED <<app, file, ollama, used, task, clicks, launches, torn,
                   crossed>>

\* The process ends, and with it a copy.
Quits ==
    /\ app # "down" /\ app' = "down" /\ posted' = <<>>
    /\ task' = [t \in Tasks |-> Idle] /\ crossed' = FALSE
    /\ torn' = (torn \/ app = "seeding"
                     \/ \E t \in Tasks : task[t].at = "copying")
    /\ UNCHANGED <<file, ollama, shown, used, clicks, launches, agreed>>

\* The user removes the file, while no copy of it runs, or starts or stops
\* Ollama.
Outside ==
    /\ \/ /\ app # "seeding" /\ file # "absent"
          /\ \A t \in Tasks : task[t].at # "copying"
          /\ file' = "absent" /\ torn' = FALSE /\ UNCHANGED ollama
       \/ ollama' = ~ollama /\ UNCHANGED <<file, torn>>
    /\ crossed' = (crossed \/ Due)
    /\ UNCHANGED <<app, shown, used, task, posted, clicks, launches, agreed>>

Next ==
    \/ Launch \/ SeedEnds \/ ShowModel \/ Quits \/ Outside
    \/ \E t \in Tasks :
           \/ \E op \in Buttons : Press(t, op)
           \/ Detect(t) \/ SetModel(t) \/ PostFound(t)
           \/ Download(t) \/ CopyEnds(t) \/ NameFile(t) \/ LoadModel(t)

Spec == Init /\ [][Next]_vars

-----------------------------------------------------------------------------
(***************************************************************************)
(* Operations one after the other: the bundled model is never named while  *)
(* its file is a part of it, as long as no copy of it was cut short or     *)
(* failed; and a model that a detection named is the one the chat asks.    *)
(***************************************************************************)
ModelShown ==
    app = "up" /\ ~Due /\ ~crossed =>
        /\ shown = "bundle" /\ ~torn => file # "partial"
        /\ agreed => used = shown
-----------------------------------------------------------------------------
(* Why ModelShown holds.                                                   *)

\* A part of the file is there only as long as it is copied.
Copied ==
    file = "partial" =>
        torn \/ app = "seeding" \/ \E t \in Tasks : task[t].at = "copying"

\* Nothing is under way before the window opens, and nothing was found.
NotYet ==
    /\ app # "up" => posted = <<>> /\ \A t \in Tasks : task[t] = Idle
    /\ app = "seeding" => ~agreed

\* What a detection found is the chat's before it is named.
Detection == {"detect", "scan"}
InTurn ==
    /\ \A t, u \in Tasks : task[t] # Idle /\ task[u] # Idle => t = u
    /\ Len(posted) <= 1
    /\ \A t \in Tasks : task[t] # Idle => posted = <<>>
    /\ \A t \in Tasks : task[t].at = "set" /\ task[t].name # "none" =>
           used = task[t].name
    /\ \A i \in DOMAIN posted :
           posted[i].op \in Detection /\ posted[i].name # "none" =>
               used = posted[i].name
    /\ agreed =>
           \/ used = shown
           \/ \E t \in Tasks : task[t].at = "set"
           \/ posted # <<>>

IInv == TypeOK /\ Copied /\ NotYet /\ (app = "up" /\ ~crossed => InTurn)
=============================================================================
