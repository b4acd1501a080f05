------------------------------ MODULE Logging ------------------------------
(***************************************************************************)
(* The log file: the rotating FileWriter (internal/rotate), and            *)
(* newLogWriter (logger/logger.go), which replaces the writer at every     *)
(* reload while goroutines go on logging.                                  *)
(*                                                                         *)
(* A line is its number and has size 1.  The directory has the file of the *)
(* configured name and archives, each named by the second of its rotation. *)
(* An open file is where its inode is now: the name, an archive, or no     *)
(* name at all.  Writes and rotations hold the mutex of their writer.  A   *)
(* rename may fail; the removal of an archive is taken to succeed.         *)
(***************************************************************************)
EXTENDS Integers, FiniteSets

CONSTANTS
  MaxSize,      \* maxSizeInBytes, in lines
  MaxArchives,  \* maxArchives, -1 to keep all
  MaxLines,     \* bound: lines logged
  MaxTime,      \* bound: seconds
  MaxSetups     \* bound: reloads

ASSUME LoggingAssumption ==
  /\ MaxSize \in Nat \ {0} /\ MaxArchives \in Nat \cup {-1}
  /\ MaxLines \in Nat /\ MaxTime \in Nat /\ MaxSetups \in Nat

VARIABLES
  clock,      \* seconds
  exists,     \* there is a file of the configured name,
  file,       \*   with these lines
  archives,   \* the archives, by second,
  archive,    \*   and the lines of each
  fd,         \* what the writer of the log package has open,
  bytes,      \*   and its bytesWritten
  newFd,      \* the same of the writer that is about to replace it
  newBytes,
  setup,      \* progress of newLogWriter, and
  setups,     \*   how often it was called
  logged,     \* number of lines logged
  collided,   \* a rotation replaced an archive of the same second
  overflow    \* the stack has overflown

logVars == <<clock, exists, file, archives, archive, fd, bytes, newFd, newBytes,
             setup, setups, logged, collided, overflow>>

File   == -1    \* the file of the configured name
Gone   == -2    \* a file without a name
Closed == -3

LogInit ==
  /\ clock = 0 /\ exists = TRUE /\ file = {}
  /\ archives = {} /\ archive = [t \in 0 .. MaxTime |-> {}]
  /\ fd = File /\ bytes = 0 /\ newFd = Closed /\ newBytes = 0
  /\ setup = "idle" /\ setups = 0 /\ logged = 0
  /\ collided = FALSE /\ overflow = FALSE

Tick ==
  /\ clock < MaxTime /\ clock' = clock + 1
  /\ UNCHANGED <<exists, file, archives, archive, fd, bytes, newFd, newBytes,
                 setup, setups, logged, collided, overflow>>
-----------------------------------------------------------------------------
\* Mutant of purgeArchivesIfNeeded: the newest archives go first.
PurgeNewest(a) ==
  IF MaxArchives = -1 THEN a
  ELSE {t \in a : Cardinality({u \in a : u < t}) < MaxArchives}

\* purgeArchivesIfNeeded: of the archives a the newest stay; names sort by second.
purgeArchivesIfNeeded(a) ==
  IF MaxArchives = -1 THEN a
  ELSE {t \in a : Cardinality({u \in a : u > t}) < MaxArchives}

\* Where an open file is after a rotation in this second.
Moved(at) ==
  IF at = File THEN IF clock \in archives' THEN clock ELSE Gone
  ELSE IF at \in archives' \ {clock} \/ at = Closed THEN at ELSE Gone

\* rotate, with lines f in the file and the archives' lines a: nothing to rename if
\* another writer has renamed it, which is an error and ends the rotation.
rotate(f, a) ==
  IF exists
  THEN /\ archives' = purgeArchivesIfNeeded(archives \cup {clock})
       /\ archive' = [a EXCEPT ![clock] = f]
       /\ collided' = (collided \/ clock \in archives)
  ELSE /\ archives' = archives
       /\ archive' = a
       /\ UNCHANGED collided

\* Write of the current writer: the line, and rotateIfNeeded, by size or because the
\* interval has passed.
WriteLine(expired) ==
  LET l == logged + 1
      f == IF fd = File THEN file \cup {l} ELSE file
      a == IF fd \in archives THEN [archive EXCEPT ![fd] = @ \cup {l}] ELSE archive
  IN /\ logged < MaxLines /\ logged' = l
     /\ fd # Closed
     /\ IF expired \/ bytes + 1 >= MaxSize
        THEN /\ rotate(f, a)
             /\ exists' = TRUE /\ file' = {}
             /\ fd' = File /\ bytes' = 0
             /\ newFd' = IF exists THEN Moved(newFd) ELSE newFd
        ELSE /\ file' = f /\ archive' = a /\ bytes' = bytes + 1
             /\ UNCHANGED <<exists, archives, collided, fd, newFd>>
     /\ UNCHANGED <<clock, newBytes, setup, setups, overflow>>

\* A line given to the writer after Close is lost.
WriteClosed ==
  /\ logged < MaxLines /\ logged' = logged + 1
  /\ fd = Closed
  /\ UNCHANGED <<clock, exists, file, archives, archive, fd, bytes, newFd, newBytes,
                 setup, setups, collided, overflow>>

\* Write, when the rename fails: openCurrent opens the file as it is, and if that is
\* due again, rotateIfNeeded and openCurrent call each other without end.
RotateFails(expired) ==
  /\ logged < MaxLines /\ logged' = logged + 1
  /\ fd = File /\ (expired \/ bytes + 1 >= MaxSize)
  /\ file' = file \cup {logged + 1}
  /\ bytes' = Cardinality(file')
  /\ overflow' = (bytes' >= MaxSize)
  /\ UNCHANGED <<clock, exists, archives, archive, fd, newFd, newBytes, setup, setups, collided>>

\* runAgent calls SetupLogging, at a reload.
SetupLogging ==
  /\ setup = "idle" /\ setup' = "create"
  /\ setups < MaxSetups /\ setups' = setups + 1
  /\ UNCHANGED <<clock, exists, file, archives, archive, fd, bytes, newFd, newBytes,
                 logged, collided, overflow>>

\* newLogWriter: NewFileWriter opens the file, and rotates one that is due ...
CreateLogger(expired) ==
  /\ setup = "create" /\ setup' = "close"
  /\ newFd' = File /\ exists' = TRUE
  /\ IF exists /\ (expired \/ Cardinality(file) >= MaxSize)
     THEN /\ rotate(file, archive)
          /\ file' = {} /\ newBytes' = 0 /\ fd' = Moved(fd)
     ELSE /\ file' = IF exists THEN file ELSE {}
          /\ newBytes' = IF exists THEN Cardinality(file) ELSE 0
          /\ UNCHANGED <<archives, archive, collided, fd>>
  /\ UNCHANGED <<clock, bytes, setups, logged, overflow>>

\* ... (the same when the rename fails: the file stays due) ...
CreateFails(expired) ==
  /\ setup = "create" /\ exists /\ (expired \/ Cardinality(file) >= MaxSize)
  /\ overflow' = TRUE
  /\ UNCHANGED <<clock, exists, file, archives, archive, fd, bytes, newFd, newBytes,
                 setup, setups, logged, collided>>

\* ... the writer before it is closed, which rotates or fails to ...
CloseLogger ==
  /\ setup = "close" /\ setup' = "set"
  /\ fd' = Closed
  /\ \/ /\ rotate(file, archive)
        /\ exists' = FALSE /\ file' = {}
        /\ newFd' = IF exists THEN Moved(newFd) ELSE newFd
     \/ UNCHANGED <<exists, file, archives, archive, newFd, collided>>
  /\ UNCHANGED <<clock, bytes, newBytes, setups, logged, overflow>>

\* ... and replaced.
SetOutput ==
  /\ setup = "set" /\ setup' = "idle"
  /\ fd' = newFd /\ bytes' = newBytes
  /\ newFd' = Closed /\ newBytes' = 0
  /\ UNCHANGED <<clock, exists, file, archives, archive, setups, logged, collided, overflow>>

LogNext ==
  /\ ~overflow
  /\ \/ Tick \/ WriteClosed
     \/ \E expired \in BOOLEAN :
          WriteLine(expired) \/ RotateFails(expired) \/ CreateLogger(expired) \/ CreateFails(expired)
     \/ SetupLogging \/ CloseLogger \/ SetOutput

LogSpec == LogInit /\ [][LogNext]_logVars
-----------------------------------------------------------------------------
\* The lines that can still be read.
Kept == (IF exists THEN file ELSE {}) \cup UNION {archive[t] : t \in archives}

\* What the rotation deletes is the oldest: when a line is gone, so are those before
\* it.  Left aside are two rotations in one second, of which the second replaces the
\* archive of the first, and reloads.
OldestGoFirst ==
  ~collided /\ setups = 0 =>
    \A i, j \in 1 .. logged : i < j /\ i \in Kept => j \in Kept

\* The log goes to the file that is configured: "FileWriter implements the io.Writer
\* interface and writes to the filename specified."
WritesToFilename == setup = "idle" => fd = File
=============================================================================
