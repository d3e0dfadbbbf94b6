------------------------------- MODULE Settings -------------------------------
(***************************************************************************)
(* AppConfig over several launches: config.json, the OS keychain that      *)
(* holds the provider keys and integration tokens, the migration that a    *)
(* launch runs over what it loads, and the settings of the window, each a  *)
(* task that takes the write lock of the shared configuration, changes it  *)
(* and saves it before the lock is released.                               *)
(*                                                                         *)
(* The file is truncated and then written; the process may be killed       *)
(* between any two steps, and the keychain may refuse.  A secret is `old', *)
(* from a file of an earlier version, or `new', typed in this one.         *)
(***************************************************************************)
EXTENDS Naturals, FiniteSets

CONSTANTS
    Tasks,       \* settings that may be saved together
    Names,       \* providers and integrations with a secret
    Choices,     \* values of a plain setting: the theme, the graph's path
    Default,     \* the choice of AppConfig::default
    None, Torn,  \* no file; a file cut short
    MaxSaves,    \* bound: settings clicked
    MaxLaunches  \* bound: launches

VARIABLES
    phase,       \* where the process is
    config,      \* AppCore.config
    file,        \* config.json
    keychain,    \* keychain[n]: the secret stored for n
    saving,      \* saving[t]: the setting of a task and where it is
    clicked, launches,
    \* history
    entered,     \* entered[n]: the secret n was last given
    dropped,     \* names whose secret a launch gave up, the keychain refusing
    unsaved,     \* the last save failed, and the session goes on
    cut          \* a save was cut short or failed

vars == <<phase, config, file, keychain, saving, clicked, launches, entered,
          dropped, unsaved, cut>>

\* A configuration: a choice, the bootnode the user adds and removes, and
\* for each name nothing, a secret in plain, or the keychain's marker.
Plain == {"old", "new"}
Config == [choice : Choices, bootnode : BOOLEAN,
           secret : [Names -> {"none", "marker"} \cup Plain]]
Fresh == [choice |-> Default, bootnode |-> FALSE,
          secret |-> [n \in Names |-> "none"]]
Readable == file \notin {None, Torn}

Settable ==
    [set : {"choice"}, to : Choices]
        \cup [set : {"add", "remove"}]
        \cup [set : {"secret"}, name : Names]
Idle == [set |-> "nothing"]

TypeOK ==
    /\ phase \in {"down", "migrate", "truncate", "write", "up"}
    /\ config \in Config
    /\ file \in Config \cup {None, Torn}
    /\ keychain \in [Names -> {"none"} \cup Plain]
    /\ saving \in [Tasks -> {[at |-> "idle", what |-> Idle]} \cup
                      [at : {"clicked", "changed", "truncated"},
                       what : Settable]]
    /\ clicked \in 0..MaxSaves /\ launches \in 0..MaxLaunches
    /\ entered \in [Names -> {"none"} \cup Plain]
    /\ dropped \subseteq Names
    /\ unsaved \in BOOLEAN /\ cut \in BOOLEAN

AtRest == [at |-> "idle", what |-> Idle]

\* A first run, or a file of an earlier version with its keys in plain.
Init ==
    /\ phase = "down" /\ config = Fresh
    /\ file \in {None} \cup
           {[Fresh EXCEPT !.secret = s] : s \in [Names -> {"none", "old"}]}
    /\ keychain = [n \in Names |-> "none"]
    /\ entered = IF file = None THEN keychain ELSE file.secret
    /\ saving = [t \in Tasks |-> AtRest]
    /\ clicked = 0 /\ launches = 0
    /\ dropped = {} /\ unsaved = FALSE /\ cut = FALSE

InPlain(c) == {n \in Names : c.secret[n] \in Plain}

-----------------------------------------------------------------------------
\* AppConfig::load: what cannot be parsed is taken for nothing, and the
\* defaults are not written back.
Load ==
    /\ phase = "down" /\ launches < MaxLaunches
    /\ launches' = launches + 1
    /\ config' = IF Readable THEN file ELSE Fresh
    /\ phase' = IF InPlain(config') = {} THEN "up" ELSE "migrate"
    /\ unsaved' = FALSE
    /\ UNCHANGED <<file, keychain, saving, clicked, entered, dropped, cut>>

\* migrate_plaintext_secrets: one secret after the other goes to the
\* keychain, which overwrites what it holds; the marker takes its place.
Migrate(n) ==
    /\ phase = "migrate" /\ n \in InPlain(config)
    /\ keychain' = [keychain EXCEPT ![n] = config.secret[n]]
    /\ config' = [config EXCEPT !.secret[n] = "marker"]
    /\ phase' = IF InPlain(config') = {} THEN "truncate" ELSE "migrate"
    /\ UNCHANGED <<file, saving, clicked, launches, entered, dropped, unsaved,
                   cut>>

\* Mutant: the markers of the refused secrets are kept all the same.
RefusedKeepingMarkers ==
    /\ phase = "migrate" /\ phase' = "truncate"
    /\ config' = [config EXCEPT !.secret = [n \in Names |->
                     IF n \in InPlain(config) THEN "marker" ELSE @[n]]]
    /\ dropped' = dropped \cup InPlain(config)
    /\ UNCHANGED <<file, keychain, saving, clicked, launches, entered, unsaved,
                   cut>>

\* The keychain refuses: every secret still in plain is dropped.
Refused ==
    /\ phase = "migrate" /\ phase' = "truncate"
    /\ config' = [config EXCEPT !.secret = [n \in Names |->
                     IF n \in InPlain(config) THEN "none" ELSE @[n]]]
    /\ dropped' = dropped \cup InPlain(config)
    /\ UNCHANGED <<file, keychain, saving, clicked, launches, entered, unsaved,
                   cut>>

\* The migrated file is written; when that fails the launch goes on.
Migrated(from, to, f) ==
    /\ phase = from /\ phase' = to /\ file' = f
    /\ UNCHANGED <<config, keychain, saving, clicked, launches, entered,
                   dropped>>

MigratedWrite ==
    \/ Migrated("truncate", "write", Torn) /\ UNCHANGED <<unsaved, cut>>
    \/ Migrated("write", "up", config) /\ UNCHANGED <<unsaved, cut>>
    \/ /\ Migrated("truncate", "up", file) \/ Migrated("write", "up", Torn)
       /\ unsaved' = TRUE /\ cut' = TRUE

-----------------------------------------------------------------------------
\* A setting is clicked: its task waits for the lock.
Click(t, what) ==
    /\ phase = "up" /\ saving[t] = AtRest /\ clicked < MaxSaves
    /\ clicked' = clicked + 1
    /\ saving' = [saving EXCEPT ![t] = [at |-> "clicked", what |-> what]]
    /\ UNCHANGED <<phase, config, file, keychain, launches, entered, dropped,
                   unsaved, cut>>

LockFree == \A t \in Tasks : saving[t].at \in {"idle", "clicked"}
Goes(t, at) == saving' = [saving EXCEPT ![t].at = at]
Ends(t) == saving' = [saving EXCEPT ![t] = AtRest]
Took(t, set) == /\ phase = "up" /\ LockFree
                /\ saving[t].at = "clicked" /\ saving[t].what.set = set

\* set_theme, save_graph_path.
SetChoice(t) ==
    /\ Took(t, "choice") /\ Goes(t, "changed")
    /\ config' = [config EXCEPT !.choice = saving[t].what.to]
    /\ UNCHANGED <<phase, file, keychain, clicked, launches, entered, dropped,
                   unsaved, cut>>

\* A bootnode that is listed already is not saved again.
AddBootnode(t) ==
    /\ Took(t, "add")
    /\ IF config.bootnode THEN Ends(t) ELSE Goes(t, "changed")
    /\ config' = [config EXCEPT !.bootnode = TRUE]
    /\ UNCHANGED <<phase, file, keychain, clicked, launches, entered, dropped,
                   unsaved, cut>>

RemoveBootnode(t) ==
    /\ Took(t, "remove") /\ Goes(t, "changed")
    /\ config' = [config EXCEPT !.bootnode = FALSE]
    /\ UNCHANGED <<phase, file, keychain, clicked, launches, entered, dropped,
                   unsaved, cut>>

\* set_ai_key, set_integration_token: the keychain first, and without it
\* nothing changes.
SetSecret(t) ==
    /\ Took(t, "secret")
    /\ LET n == saving[t].what.name
       IN  \/ /\ Goes(t, "changed")
              /\ keychain' = [keychain EXCEPT ![n] = "new"]
              /\ entered' = [entered EXCEPT ![n] = "new"]
              /\ dropped' = dropped \ {n}
              /\ config' = [config EXCEPT !.secret[n] = "marker"]
           \/ Ends(t) /\ UNCHANGED <<keychain, entered, dropped, config>>
    /\ UNCHANGED <<phase, file, clicked, launches, unsaved, cut>>

Truncate(t) ==
    /\ saving[t].at = "changed" /\ Goes(t, "truncated") /\ file' = Torn
    /\ UNCHANGED <<phase, config, keychain, clicked, launches, entered,
                   dropped, unsaved, cut>>

Write(t) ==
    /\ saving[t].at = "truncated" /\ Ends(t)
    /\ file' = config /\ unsaved' = FALSE
    /\ UNCHANGED <<phase, config, keychain, clicked, launches, entered,
                   dropped, cut>>

\* A failed save is logged at most; the memory keeps the change.
SaveFails(t) ==
    /\ saving[t].at \in {"changed", "truncated"} /\ Ends(t)
    /\ unsaved' = TRUE /\ cut' = TRUE
    /\ UNCHANGED <<phase, config, file, keychain, clicked, launches, entered,
                   dropped>>

-----------------------------------------------------------------------------
\* The process ends, in the middle of a save or not.
Quits ==
    /\ phase # "down" /\ phase' = "down"
    /\ saving' = [t \in Tasks |-> AtRest]
    /\ cut' = (cut \/ file = Torn \/ ~LockFree)
    /\ UNCHANGED <<config, file, keychain, clicked, launches, entered, dropped,
                   unsaved>>

Next ==
    \/ Load \/ (\E n \in Names : Migrate(n)) \/ Refused \/ MigratedWrite
    \/ \E t \in Tasks :
           \/ \E what \in Settable : Click(t, what)
           \/ SetChoice(t) \/ AddBootnode(t) \/ RemoveBootnode(t)
           \/ SetSecret(t) \/ Truncate(t) \/ Write(t) \/ SaveFails(t)
    \/ Quits

Spec == Init /\ [][Next]_vars

-----------------------------------------------------------------------------
(***************************************************************************)
(* A marker always has a secret of the keychain behind it.  While no task  *)
(* saves, what a file holds is what the session works with, without a key  *)
(* in plain, unless the last save failed.  And until a save is cut short   *)
(* or fails, every secret is the one last entered, and still referred to,  *)
(* but for those a launch dropped because the keychain refused them.       *)
(***************************************************************************)
SettingsKept ==
    LET quiet == phase = "up" /\ \A t \in Tasks : saving[t] = AtRest
    IN  /\ \A n \in Names : config.secret[n] = "marker" => keychain[n] # "none"
        /\ quiet /\ Readable /\ ~unsaved => file = config /\ InPlain(file) = {}
        /\ quiet /\ ~cut => \A n \in Names \ dropped :
               entered[n] # "none" => /\ keychain[n] = entered[n]
                                      /\ config.secret[n] = "marker"
-----------------------------------------------------------------------------
(* Why SettingsKept holds.                                                 *)

\* The marker of a secret says that the keychain holds one.
Backed(c) == \A n \in Names : c.secret[n] = "marker" => keychain[n] # "none"

\* One task at a time changes the settings and saves them, in a session.
OneWriter ==
    /\ \A t, u \in Tasks : saving[t].at \in {"changed", "truncated"} /\
           saving[u].at \in {"changed", "truncated"} => t = u
    /\ phase # "up" => \A t \in Tasks : saving[t] = AtRest

\* Without a save under way the file is what the session works with.
Saved ==
    /\ phase \in {"truncate", "write", "up"} => InPlain(config) = {}
    /\ phase = "up" /\ LockFree /\ Readable /\ ~unsaved => file = config
    /\ phase = "write" => file = Torn

\* A secret can be found: in plain, or in the keychain.
Found(c, n) ==
    \/ c.secret[n] \in Plain /\ c.secret[n] = entered[n]
    \/ c.secret[n] = "marker" /\ keychain[n] = entered[n]
Entered ==
    ~cut => \A n \in Names \ dropped : entered[n] # "none" =>
        /\ phase # "down" => Found(config, n)
        /\ phase # "write" /\ LockFree => Readable /\ Found(file, n)

IInv ==
    /\ TypeOK /\ Backed(config) /\ (Readable => Backed(file))
    /\ OneWriter /\ Saved /\ Entered
=============================================================================
