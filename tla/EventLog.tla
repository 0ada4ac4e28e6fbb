-------------------------------- MODULE EventLog --------------------------------
(***************************************************************************)
(* core/logger.py: the event log of the gateway, one JSON line per event,  *)
(* in a file that every worker process rotates with a RotatingFileHandler  *)
(* of its own.                                                             *)
(*                                                                         *)
(* The handler's lock is one process's, so the workers interleave at every *)
(* access to the directory: an action is one exists, remove, rename, open  *)
(* or write of logging/handlers.py (Python 3.11) and what leads to the     *)
(* next.  A file that has lost its name lives on while somebody has it     *)
(* open.                                                                   *)
(***************************************************************************)
EXTENDS Integers, FiniteSets, SequencesExt

CONSTANTS
  Workers,
  MaxLines,     \* maxBytes, in lines of events
  BackupCount,  \* backupCount
  MaxEvents     \* bound: events written

ASSUME LogAssumption ==
  /\ IsFiniteSet(Workers)
  /\ MaxLines \in Nat /\ MaxLines >= 2
  /\ BackupCount \in Nat \ {0}
  /\ MaxEvents \in Nat

NoFile == 0
Names == 0 .. BackupCount      \* gateway_events.jsonl and its backups .1, .2, ...
Files == 1 .. BackupCount + 1 + Cardinality(Workers)

VARIABLES
  named,     \* the file behind each name, or NoFile
  content,   \* the events in each file
  stream,    \* the file each worker has open, or NoFile
  pc,        \* the next access of each worker, "idle" between two events
  source,    \* the name it is about to rename to the next one
  written,   \* the number of events written so far
  writers,   \* auxiliary: the workers that have logged
  cuts       \* auxiliary: the rotations that a kill cut short, up to BackupCount

vars == <<named, content, stream, pc, source, written, writers, cuts>>

\* No worker has been started, and there is no log yet.
Init ==
  /\ named = [k \in Names |-> NoFile]
  /\ content = [f \in Files |-> <<>>]
  /\ stream = [w \in Workers |-> NoFile]
  /\ pc = [w \in Workers |-> "down"]
  /\ source = [w \in Workers |-> 0]
  /\ written = 0 /\ writers = {} /\ cuts = 0

Linked == {named[k] : k \in Names} \ {NoFile}
Opened == {stream[w] : w \in Workers} \ {NoFile}
InUse == Linked \cup Opened

\* A file that has neither a name nor a reader is gone.
Retain == content' = [f \in Files |-> IF f \in InUse' THEN content[f] ELSE <<>>]

Go(w, next) == pc' = [pc EXCEPT ![w] = next]

\* open(base, "a")
BaseFile == IF named[0] # NoFile THEN named[0] ELSE CHOOSE f \in Files : f \notin InUse

OpenBase(w) ==
  /\ named' = [named EXCEPT ![0] = BaseFile]
  /\ stream' = [stream EXCEPT ![w] = BaseFile]

\* Where doRollover goes on with the name k: the base is renamed last, and its
\* target is cleared before it is looked for.
From(w, k) ==
  /\ source' = [source EXCEPT ![w] = k]
  /\ Go(w, IF k = 0 THEN "find_target" ELSE "find_source")

\* _build_logger, when a worker imports the module
BuildLogger(w) ==
  /\ pc[w] = "down"
  /\ OpenBase(w)
  /\ Go(w, "idle")
  /\ UNCHANGED <<content, source, written, writers, cuts>>

\* One of the log_... functions: the handler opens its stream, if it has none.
Emit(w) ==
  /\ pc[w] = "idle" /\ written < MaxEvents
  /\ IF stream[w] = NoFile THEN OpenBase(w) ELSE UNCHANGED <<named, stream>>
  /\ Go(w, "should_rollover")
  /\ writers' = writers \cup {w}
  /\ UNCHANGED <<content, source, written, cuts>>

\* A variant ends in Slip when it is a bug a run must catch: no specification
\* uses it.
ShouldRolloverSlip(w) ==   \* maxBytes is left at its default: no file is ever full
  /\ pc[w] = "should_rollover"
  /\ Go(w, "write")
  /\ UNCHANGED <<named, content, stream, source, written, writers, cuts>>

OneBackupSlip(w) ==   \* backupCount is 1
  /\ pc[w] = "should_rollover"
  /\ IF Len(content[stream[w]]) + 1 >= MaxLines
     THEN stream' = [stream EXCEPT ![w] = NoFile] /\ From(w, 0)
     ELSE Go(w, "write") /\ UNCHANGED <<stream, source>>
  /\ UNCHANGED <<named, written, writers, cuts>>
  /\ Retain

\* A stream with no room for the line is closed, and the files are rotated.
ShouldRollover(w) ==
  /\ pc[w] = "should_rollover"
  /\ IF Len(content[stream[w]]) + 1 >= MaxLines
     THEN stream' = [stream EXCEPT ![w] = NoFile] /\ From(w, BackupCount - 1)
     ELSE Go(w, "write") /\ UNCHANGED <<stream, source>>
  /\ UNCHANGED <<named, written, writers, cuts>>
  /\ Retain

\* doRollover.  A remove or a rename of what another worker has taken away
\* raises: handleError drops the event, and the stream stays closed until the
\* next one.
FindSource(w) ==
  /\ pc[w] = "find_source"
  /\ IF named[source[w]] # NoFile
     THEN Go(w, IF source[w] = 0 THEN "rename" ELSE "find_target") /\ UNCHANGED source
     ELSE IF source[w] = 0 THEN Go(w, "open") /\ UNCHANGED source
                           ELSE From(w, source[w] - 1)
  /\ UNCHANGED <<named, content, stream, written, writers, cuts>>

TargetCleared(w) == Go(w, IF source[w] = 0 THEN "find_source" ELSE "rename")

FindTarget(w) ==
  /\ pc[w] = "find_target"
  /\ IF named[source[w] + 1] # NoFile THEN Go(w, "remove") ELSE TargetCleared(w)
  /\ UNCHANGED <<named, content, stream, source, written, writers, cuts>>

RemoveTarget(w) ==
  /\ pc[w] = "remove"
  /\ IF named[source[w] + 1] # NoFile
     THEN /\ named' = [named EXCEPT ![source[w] + 1] = NoFile]
          /\ TargetCleared(w)
     ELSE Go(w, "idle") /\ UNCHANGED named
  /\ UNCHANGED <<stream, source, written, writers, cuts>>
  /\ Retain

\* rename replaces a target that has appeared in the meantime.
RenameSource(w) ==
  /\ pc[w] = "rename"
  /\ IF named[source[w]] # NoFile
     THEN /\ named' = [named EXCEPT ![source[w] + 1] = named[source[w]], ![source[w]] = NoFile]
          /\ IF source[w] = 0 THEN Go(w, "open") /\ UNCHANGED source ELSE From(w, source[w] - 1)
     ELSE Go(w, "idle") /\ UNCHANGED <<named, source>>
  /\ UNCHANGED <<stream, written, writers, cuts>>
  /\ Retain

Open(w) ==
  /\ pc[w] = "open"
  /\ OpenBase(w)
  /\ Go(w, "write")
  /\ UNCHANGED <<content, source, written, writers, cuts>>

\* The line that JsonFormatter makes of the event
Write(w) ==
  /\ pc[w] = "write"
  /\ content' = [content EXCEPT ![stream[w]] = Append(@, written + 1)]
  /\ written' = written + 1
  /\ Go(w, "idle")
  /\ UNCHANGED <<named, stream, source, writers, cuts>>

Rotating == {"find_source", "find_target", "remove", "rename"}

\* A worker is killed; another will be started in its place.
Crash(w) ==
  /\ pc[w] # "down"
  /\ stream' = [stream EXCEPT ![w] = NoFile]
  /\ Go(w, "down")
  /\ cuts' = IF pc[w] \in Rotating /\ cuts < BackupCount THEN cuts + 1 ELSE cuts
  /\ UNCHANGED <<named, source, written, writers>>
  /\ Retain

Rotate(w) == FindSource(w) \/ FindTarget(w) \/ RemoveTarget(w) \/ RenameSource(w) \/ Open(w)

Next ==
  \E w \in Workers :
    BuildLogger(w) \/ Emit(w) \/ ShouldRollover(w) \/ Rotate(w) \/ Write(w) \/ Crash(w)

Spec == Init /\ [][Next]_vars
--------------------------------------------------------------------------------
\* The most lines a file can get: each worker may add one to a file that was
\* not full when it looked.
FileCap == MaxLines - 2 + Cardinality(Workers)

\* Rotation caps the disk usage (logger.py:74-76), whatever the workers do to
\* each other's files and wherever they are killed: no file outgrows its limit
\* by more than the lines that were being written, and of the files that others
\* have rotated away one worker at least has none open.
DiskCapped ==
  /\ \A f \in Files : Len(content[f]) <= FileCap
  /\ Cardinality(InUse) <= BackupCount + Cardinality(Workers)

\* The events in the files, oldest file first
Kept ==
  FlattenSeq([j \in 1 .. BackupCount + 1 |->
                LET file == named[BackupCount + 1 - j]
                IN  IF file = NoFile THEN <<>> ELSE content[file]])

\* The full files that are left of a rotation.  One that is cut short can leave
\* a name without a file, and the next one loses a backup to it all the same;
\* the base and one backup are always spared.
Spared == LET least == IF BackupCount = 1 THEN 1 ELSE 2
          IN  IF BackupCount - cuts > least THEN BackupCount - cuts ELSE least

\* As long as a single worker logs, the files hold the latest events, none
\* missing and in order, through rotations and restarts in the middle of them:
\* all that fit into the backups, less one file for each rotation cut short.
LoneWriterKeepsTail ==
  Cardinality(writers) <= 1 =>
    LET wanted == Spared * (MaxLines - 1)
    IN  /\ Len(Kept) >= IF written < wanted THEN written ELSE wanted
        /\ \A i \in DOMAIN Kept : Kept[i] = written - Len(Kept) + i
================================================================================
