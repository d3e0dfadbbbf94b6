------------------------------- MODULE FileLog -------------------------------
(***************************************************************************)
(* FileLogWriter, the rotating log of crash_telemetry.  Every line takes   *)
(* the writer's mutex, so lines do not interleave; what can go wrong is a  *)
(* file operation that fails, which the writer ignores, and a process that *)
(* is killed between two of them.  A file is the set of lines it holds, a  *)
(* line its number; the redaction of a line is left out.                   *)
(***************************************************************************)
EXTENDS Naturals, FiniteSets

CONSTANTS
    NoFile,      \* no file of that name
    MaxLen,      \* MAX_LOG_BYTES, in lines
    MaxLines     \* bound: lines written

VARIABLES
    current,     \* citrate-gui.log
    rotated,     \* citrate-gui.log.1
    handle,      \* the name under which the open file can be found
    len,         \* LogInner.len
    lines,       \* lines written so far
    step,        \* where the write under way is
    \* history
    unopened     \* a rotation could not open the new file

vars == <<current, rotated, handle, len, lines, step, unopened>>

Contents == (SUBSET (1..MaxLines)) \cup {NoFile}

TypeOK ==
    /\ current \in Contents /\ rotated \in Contents
    /\ handle \in {"closed", "current", "rotated", "unlinked"}
    /\ len \in 0..MaxLines /\ lines \in 0..MaxLines
    /\ step \in {"ready", "remove", "rename", "open", "write"}
    /\ unopened \in BOOLEAN

Init ==
    /\ current = NoFile /\ rotated = NoFile
    /\ handle = "closed" /\ len = 0 /\ lines = 0 /\ step = "ready"
    /\ unopened = FALSE

\* FileLogWriter::new: an existing log is appended to.
Open ==
    /\ handle = "closed"
    /\ current' = IF current = NoFile THEN {} ELSE current
    /\ handle' = "current" /\ len' = Cardinality(current')
    /\ UNCHANGED <<rotated, lines, step, unopened>>

\* A line: does the log have to be rotated first?
BeginWrite ==
    /\ handle # "closed" /\ step = "ready" /\ lines < MaxLines
    /\ step' = IF len + 1 > MaxLen THEN "remove" ELSE "write"
    /\ UNCHANGED <<current, rotated, handle, len, lines, unopened>>

RemoveRotated ==
    /\ step = "remove" /\ step' = "rename"
    /\ \/ /\ rotated' = NoFile
          /\ handle' = IF handle = "rotated" THEN "unlinked" ELSE handle
       \/ UNCHANGED <<rotated, handle>>
    /\ UNCHANGED <<current, len, lines, unopened>>

\* Mutant: the old log is removed once the new name is free.
RenameRemoving ==
    /\ step = "rename" /\ step' = "open"
    /\ current' = NoFile /\ rotated' = NoFile
    /\ handle' = IF handle = "current" THEN "unlinked" ELSE handle
    /\ UNCHANGED <<len, lines, unopened>>

\* The open file follows its name; without a current log nothing is renamed.
Rename ==
    /\ step = "rename"
    /\ \/ /\ current # NoFile
          /\ rotated' = current /\ current' = NoFile /\ step' = "open"
          /\ handle' = IF handle = "current" THEN "rotated" ELSE "unlinked"
       \/ step' = "write" /\ UNCHANGED <<current, rotated, handle>>
    /\ UNCHANGED <<len, lines, unopened>>

Reopen ==
    /\ step = "open" /\ step' = "write"
    /\ \/ /\ current' = {} /\ handle' = "current" /\ len' = 0
          /\ UNCHANGED unopened
       \/ unopened' = TRUE /\ UNCHANGED <<current, handle, len>>
    /\ UNCHANGED <<rotated, lines>>

\* The line goes to the open file, wherever that is; or writing fails.
Append ==
    /\ step = "write" /\ step' = "ready"
    /\ LET n == lines + 1
       IN  /\ lines' = n /\ len' = len + 1
           /\ current' = IF handle = "current" THEN current \cup {n}
                         ELSE current
           /\ rotated' = IF handle = "rotated" THEN rotated \cup {n}
                         ELSE rotated
    /\ UNCHANGED <<handle, unopened>>

WriteFails ==
    /\ step = "write" /\ step' = "ready"
    /\ UNCHANGED <<current, rotated, handle, len, lines, unopened>>

\* The process ends, between any two steps.
Killed ==
    /\ handle # "closed"
    /\ handle' = "closed" /\ len' = 0 /\ step' = "ready"
    /\ UNCHANGED <<current, rotated, lines, unopened>>

Next ==
    \/ Open \/ BeginWrite \/ RemoveRotated \/ Rename \/ Reopen
    \/ Append \/ WriteFails \/ Killed

Spec == Init /\ [][Next]_vars

-----------------------------------------------------------------------------
(***************************************************************************)
(* "A silent death leaves logs that survive the terminal": the newest      *)
(* lines, as many as one file holds, are on disk at every step, a rotation *)
(* half done included.  The exception is a log whose new file could not be *)
(* opened after the rename: the next rotation removes the file the writer  *)
(* still writes to, and no later one can bring it back.                    *)
(***************************************************************************)
OnDisk == (IF current = NoFile THEN {} ELSE current)
              \cup (IF rotated = NoFile THEN {} ELSE rotated)
NewestKept ==
    unopened \/ \A n \in 1..lines : n > lines - MaxLen => n \in OnDisk
-----------------------------------------------------------------------------
(* Why NewestKept holds.                                                   *)

Newest(k) == {n \in 1..lines : n > lines - k}

\* A file holds lines that were written, and the open one is there; a write
\* under way has room for one more.
Written ==
    /\ current = NoFile \/ current \subseteq 1..lines
    /\ handle = "current" => current # NoFile
    /\ handle = "rotated" => rotated # NoFile
    /\ len <= lines
    /\ step # "ready" => lines < MaxLines

\* The log holds the newest lines, as many as len says while it is open; it
\* is moved aside only when that is what one file holds.
Rotating ==
    /\ handle = "closed" =>
           /\ step = "ready"
           /\ current = NoFile \/ \E k \in 0..lines : current = Newest(k)
    /\ handle = "current" =>
           /\ current = Newest(len)
           /\ step # "open"
           /\ step \in {"remove", "rename"} => len >= MaxLen
    /\ handle = "rotated" => step = "open" /\ current = NoFile
    /\ handle # "unlinked"

IInv == TypeOK /\ Written /\ NewestKept /\ (~unopened => Rotating)
=============================================================================
