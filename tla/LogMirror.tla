----------------------------- MODULE LogMirror -----------------------------
(* The log file that the extension writes and the app shows: set_log_file and
   the logger of logging.rs, and the clear button of LogsView.

   The two processes share paths, not handles: a handle keeps the file it was
   opened on, whatever the path names later.  Threads of the extension log
   between any two steps of set_log_file, through the handle installed before. *)
EXTENDS Naturals, FiniteSets

CONSTANTS
  Files,     \* the files there may be at once: path, backup, two handles, a new one
  Lines,     \* bound: lines logged, each once
  MaxLogLines  \* stands for MAX_LOG_BYTES: a longer file is rotated

None == "none"
Steps == {"no", "measuring", "rotating", "opening"}

ASSUME LogAssumption ==
  /\ MaxLogLines \in Nat
  /\ IsFiniteSet(Files) /\ Cardinality(Files) > 4
  /\ None \notin Files /\ Files \cap Steps = {}

VARIABLES
  path, backup,  \* the files that svpn-tunnel.log and svpn-tunnel.log.1 name
  handle,        \* the installed append handle
  opening,       \* set_log_file: its step, or the file opened
  content,       \* the lines of each file
  due, kept,    \* history: lines that must be in the file, and in its backup
  goes          \* history: where the lines logged now must be found: "path" once a
                \* handle is installed, "backup" while a rotation has renamed the
                \* file under it, "nowhere" without a handle and after a clear

lmVars == <<path, backup, handle, opening, content, due, kept, goes>>

Logged    == UNION {content[f] : f \in Files} \cup due \cup kept
Unused(f) == f \notin {path, backup, handle, opening}
Fresh == CHOOSE f \in Files : Unused(f)
\* A file that no path names and no handle holds is gone.
Only(held) == [f \in Files |-> IF f \in held THEN content[f] ELSE {}]
LinesOf(f) == IF f = None THEN {} ELSE content[f]

LogTypeOK ==
  /\ path \in Files \cup {None} /\ backup \in Files \cup {None}
  /\ handle \in Files \cup {None} /\ opening \in Files \cup Steps
  /\ content \in [Files -> SUBSET Lines]
  /\ due \subseteq Lines /\ kept \subseteq Lines
  /\ goes \in {"path", "backup", "nowhere"}

LogInit ==
  /\ path = None /\ backup = None /\ handle = None /\ opening = "no"
  /\ content = [f \in Files |-> {}]
  /\ due = {} /\ kept = {} /\ goes = "nowhere"

\* svpn_core_set_home_dir, at each start of the tunnel and of the engine
SetHomeDir ==
  /\ opening = "no" /\ opening' = "measuring"
  /\ UNCHANGED <<path, backup, handle, content, due, kept, goes>>

\* A length that cannot be read is not over the limit.
Measure ==
  /\ opening = "measuring"
  /\ opening' \in {"opening"} \cup
        IF Cardinality(LinesOf(path)) > MaxLogLines THEN {"rotating"} ELSE {}
  /\ UNCHANGED <<path, backup, handle, content, due, kept, goes>>
\* Between the rename and InstallHandle the handle is on the renamed file.
Rotate ==
  /\ opening = "rotating" /\ opening' = "opening"
  /\ backup' = path /\ path' = None
  /\ kept' = due /\ due' = {}
  /\ goes' = IF goes = "path" THEN "backup" ELSE "nowhere"
  /\ content' = Only({path, handle})
  /\ UNCHANGED handle
\* The rename's result is ignored: the long file is opened again.
RotateFails ==
  /\ opening = "rotating" /\ opening' = "opening"
  /\ UNCHANGED <<path, backup, handle, content, due, kept, goes>>

\* create(true).append(true): the file at the path, or a new one
OpenLog ==
  /\ opening = "opening"
  /\ \/ path # None /\ opening' = path /\ UNCHANGED <<path, content>>
     \/ path = None /\ path' = Fresh /\ opening' = Fresh /\ UNCHANGED content
  /\ UNCHANGED <<backup, handle, due, kept, goes>>
\* Neither the directory nor the file may be there to open; the handle stays.
OpenFails ==
  /\ opening \in {"measuring", "opening"} /\ opening' = "no"
  /\ UNCHANGED <<path, backup, handle, content, due, kept, goes>>

\* The file opened is at the path unless a clear came since.
InstalledOn(f) == IF f = path THEN "path" ELSE "nowhere"

\* Faulty variant of InstallHandle: only the first handle is installed.
InstallOnce ==
  /\ opening \in Files /\ opening' = "no"
  /\ handle' = IF handle = None THEN opening ELSE handle
  /\ goes' = InstalledOn(opening) /\ content' = Only({path, backup, handle'})
  /\ UNCHANGED <<path, backup, due, kept>>
InstallHandle ==
  /\ opening \in Files /\ opening' = "no"
  /\ handle' = opening /\ goes' = InstalledOn(opening)
  /\ content' = Only({path, backup, opening})
  /\ UNCHANGED <<path, backup, due, kept>>

\* A record at info or above; without a handle it reaches os_log alone.
LogLine(l) ==
  /\ l \notin Logged
  /\ content' = IF handle = None THEN content
                ELSE [content EXCEPT ![handle] = @ \cup {l}]
  /\ due' = IF goes = "path" THEN due \cup {l} ELSE due
  /\ kept' = IF goes = "backup" THEN kept \cup {l} ELSE kept
  /\ UNCHANGED <<path, backup, handle, opening, goes>>

\* LogsView.clear: an atomic write puts a new empty file at the path.
ClearLog ==
  /\ path' = Fresh /\ content' = Only({backup, handle, opening})
  /\ due' = {} /\ goes' = IF goes = "path" THEN "nowhere" ELSE goes
  /\ UNCHANGED <<backup, handle, opening, kept>>

\* The extension ends, at any step; its files stay.
LogProcessEnds ==
  /\ handle' = None /\ opening' = "no" /\ goes' = "nowhere"
  /\ content' = Only({path, backup})
  /\ UNCHANGED <<path, backup, due, kept>>

LogNext == \/ SetHomeDir \/ Measure \/ Rotate \/ RotateFails
           \/ OpenLog \/ OpenFails \/ InstallHandle \/ ClearLog \/ LogProcessEnds \/ \E l \in Lines : LogLine(l)
LogSpec == LogInit /\ [][LogNext]_lmVars

-----------------------------------------------------------------------------
\* No line is lost to a rotation that other threads log across, to a failing
\* one, to a restart of the engine or to the end of the process (set_log_file,
\* logging.rs:105-127).  Lines logged through an installed handle are in the file
\* the app shows; those in the file when it was rotated last, and those logged
\* after its rename until a new handle is installed, also when none can be
\* opened, are in the backup.  What is not claimed: lines logged after a clear
\* until the next handle (AppendsAreTailed), and the backup of an earlier rotation.
LinesFound == due \subseteq LinesOf(path) /\ kept \subseteq LinesOf(backup)

\* What the comment of LogsView.clear promises (LogsView.swift:157-159):
\* outside set_log_file, the next append of the extension lands in the file the
\* app is tailing.
AppendsAreTailed == opening = "no" /\ handle # None => handle = path
=============================================================================
