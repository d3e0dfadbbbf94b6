--------------------------- MODULE ComputeSettings ---------------------------
(***************************************************************************)
(* compute.json: the opt-in settings of the compute panel, saved by the    *)
(* window on every change through a temporary file and a rename, and put   *)
(* into the window once per launch by a task that first spends its time    *)
(* on detecting the hardware.  The window can be used before that.         *)
(***************************************************************************)
EXTENDS Naturals

CONSTANTS
    Schedules,   \* always, nights, weekends
    Always,      \* the schedule of ComputeSettings::default
    None, Torn,  \* no file; a file cut short
    MaxChanges,  \* bound: changes of a setting
    MaxLaunches  \* bound: launches

VARIABLES
    launched,    \* down, or the startup task: detecting, loaded, done
    panel,       \* compute-enabled, compute-schedule
    loaded,      \* what the startup task read
    file,        \* compute.json
    save,        \* the save under way: none, or its temporary file is written
    changes, launches,
    \* history
    wished,      \* the settings as the user last left them
    early,       \* a setting was changed before the startup task was done
    lost         \* a save failed or was cut short

vars == <<launched, panel, loaded, file, save, changes, launches, wished,
          early, lost>>

Settings == [enabled : BOOLEAN, schedule : Schedules]
Defaults == [enabled |-> FALSE, schedule |-> Always]

TypeOK ==
    /\ launched \in {"down", "detecting", "loaded", "done"}
    /\ {panel, loaded, wished} \subseteq Settings
    /\ file \in Settings \cup {None, Torn}
    /\ save \in {"none", "written"}
    /\ changes \in 0..MaxChanges /\ launches \in 0..MaxLaunches
    /\ early \in BOOLEAN /\ lost \in BOOLEAN

Init ==
    /\ launched = "down" /\ file = None /\ wished = Defaults
    /\ panel = Defaults /\ loaded = Defaults /\ save = "none"
    /\ changes = 0 /\ launches = 0 /\ early = FALSE /\ lost = FALSE

\* The window opens with its own defaults.
Launch ==
    /\ launched = "down" /\ launches < MaxLaunches
    /\ launched' = "detecting" /\ launches' = launches + 1
    /\ panel' = Defaults
    /\ UNCHANGED <<loaded, file, save, changes, wished, early, lost>>

\* ComputeSettings::load: what is not there or not readable is the default.
Load ==
    /\ launched = "detecting" /\ launched' = "loaded"
    /\ loaded' = IF file \in {None, Torn} THEN Defaults ELSE file
    /\ UNCHANGED <<panel, file, save, changes, launches, wished, early, lost>>

\* The UI thread puts in what was read, whatever was changed since.
Hydrate ==
    /\ launched = "loaded" /\ save = "none" /\ launched' = "done"
    /\ panel' = loaded
    /\ UNCHANGED <<loaded, file, save, changes, launches, wished, early, lost>>

\* Mutant: the file is written in place.
ChangeInPlace ==
    /\ launched # "down" /\ save = "none" /\ changes < MaxChanges
    /\ changes' = changes + 1
    /\ \E s \in Settings \ {panel} : panel' = s /\ wished' = s
    /\ early' = (early \/ launched # "done")
    /\ save' = "written" /\ file' = Torn
    /\ UNCHANGED <<launched, loaded, launches, lost>>

\* on_compute_settings_changed, on the UI thread: the temporary file first.
Change ==
    /\ launched # "down" /\ save = "none" /\ changes < MaxChanges
    /\ changes' = changes + 1
    /\ \E s \in Settings \ {panel} : panel' = s /\ wished' = s
    /\ early' = (early \/ launched # "done")
    /\ \/ save' = "written" /\ UNCHANGED lost
       \/ save' = "none" /\ lost' = TRUE
    /\ UNCHANGED <<launched, loaded, file, launches>>

Rename ==
    /\ save = "written" /\ save' = "none"
    /\ \/ file' = panel /\ UNCHANGED lost
       \/ file' = file /\ lost' = TRUE
    /\ UNCHANGED <<launched, panel, loaded, changes, launches, wished, early>>

\* The process ends, in the middle of a save or not.
Quits ==
    /\ launched # "down" /\ launched' = "down" /\ save' = "none"
    /\ lost' = (lost \/ save # "none")
    /\ UNCHANGED <<panel, loaded, file, changes, launches, wished, early>>

Next == Launch \/ Load \/ Hydrate \/ Change \/ Rename \/ Quits

Spec == Init /\ [][Next]_vars

-----------------------------------------------------------------------------
(***************************************************************************)
(* compute.json is whole whenever the process ends.  And settings that     *)
(* were not touched before the startup task was done, and whose saves went *)
(* through, are as the user left them, on disk and, once that task is      *)
(* done, in the panel, in this launch and in the next.                     *)
(***************************************************************************)
OptInKept ==
    /\ file # Torn
    /\ ~early /\ ~lost /\ save = "none" =>
           /\ file = wished \/ (file = None /\ wished = Defaults)
           /\ launched = "done" => panel = wished
-----------------------------------------------------------------------------
(* Why OptInKept holds.                                                    *)

\* What is on its way to the file or to the panel is as the user left it.
Kept ==
    ~early /\ ~lost =>
        /\ save = "none" => file = wished \/ (file = None /\ wished = Defaults)
        /\ launched # "done" => save = "none"
        /\ launched = "loaded" => loaded = wished
        /\ launched = "done" => panel = wished

IInv == TypeOK /\ file # Torn /\ Kept
=============================================================================
