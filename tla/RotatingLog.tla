---------------------------- MODULE RotatingLog -----------------------------
(***************************************************************************)
(* The debug log of the proxy (proxy/src/logging.rs): file 0 is the log,   *)
(* file j the one with suffix .j.  A mutex makes each write one step.      *)
(* Renames are best effort; opening the new log may fail, before or after  *)
(* it has been created, and then the line is refused and the handle stays  *)
(* on the file it had, wherever that has been moved.                       *)
(***************************************************************************)
EXTENDS Integers

CONSTANTS
    Keep,           \* MAX_ROTATED_FILES
    Limit,          \* MAX_LOG_BYTES
    Sizes,          \* of the lines
    Gone,           \* a handle whose file has been removed or replaced
    MaxLines,       \* bound on the lines written
    MaxMishaps      \* bound on rotations in which something fails

ASSUME KeepAssumption == Keep \in Nat \ {0} /\ Limit \in Nat
ASSUME SizesAssumption == Sizes \subseteq 1 .. Limit
ASSUME GoneAssumption == Gone \notin Nat

Files == 0 .. Keep

VARIABLES
    disk,       \* per file: whether it is there, its lines, its size
    handle,     \* which file is open
    written,    \* bytes written to the log, as far as the writer knows
    count,      \* lines accepted so far: they are numbered
    excess,     \* history: Limit for each time the log could not be renamed
    gaps,       \* history: a rename failed, or a line went nowhere
    mishaps     \* rotations in which something failed

lvars == <<disk, handle, written, count, excess, gaps, mishaps>>

File == [there : BOOLEAN, lines : SUBSET Nat, size : Nat]
NoFile == [there |-> FALSE, lines |-> {}, size |-> 0]
NewFile == [there |-> TRUE, lines |-> {}, size |-> 0]

LogTypeOK ==
    /\ disk \in [Files -> File]
    /\ handle \in Files \cup {Gone}
    /\ written \in Nat /\ count \in Nat /\ excess \in Nat /\ mishaps \in Nat
    /\ gaps \in BOOLEAN

LogInit ==
    /\ disk = [j \in Files |-> IF j = 0 THEN NewFile ELSE NoFile]
    /\ handle = 0
    /\ written = 0 /\ count = 0 /\ excess = 0 /\ mishaps = 0
    /\ gaps = FALSE

-----------------------------------------------------------------------------
(* Which files a rotation moves (the last one it removes), where "failing" *)
(* is the set of those it cannot move.                                     *)
Moves(failing) == {j \in Files \ failing : disk[j].there}

\* Mutant: from the first to the last, so that the log ends where the last goes.
AfterUpwards(failing) ==
    [j \in Files |-> IF j \in Moves(failing) THEN NoFile ELSE disk[j]]

\* Mutant: the other way round, so that the newest has the highest suffix.
AfterDownwards(failing) ==
    [j \in Files |-> IF j = Keep THEN disk[0]
                     ELSE IF j = 0 THEN NoFile ELSE disk[j + 1]]

(* From the last to the first, so that each finds its place free, unless   *)
(* the file there could not be moved and is replaced.                      *)
After(failing) ==
    [j \in Files |-> IF j > 0 /\ j - 1 \in Moves(failing) THEN disk[j - 1]
                     ELSE IF j \in Moves(failing) THEN NoFile ELSE disk[j]]

HandleAfter(failing) ==
    IF handle \in Moves(failing)
    THEN IF handle < Keep THEN handle + 1 ELSE Gone
    ELSE IF handle # Gone /\ handle > 0 /\ handle - 1 \in Moves(failing) THEN Gone
    ELSE handle

(* open_log_file creates the log if it is not there.                       *)
Opened(d) == [d EXCEPT ![0] = IF d[0].there THEN d[0] ELSE NewFile]

Appended(d, j, size) ==
    [d EXCEPT ![j] = [there |-> TRUE, lines |-> d[j].lines \cup {count + 1},
                      size  |-> d[j].size + size]]

\* Mutant: the line to be written is not counted.
FitsSoFar(size) == written < Limit

Fits(size) == written + size <= Limit

Append(size) ==
    /\ Fits(size)
    /\ count < MaxLines /\ count' = count + 1
    /\ disk' = IF handle = Gone THEN disk ELSE Appended(disk, handle, size)
    /\ written' = written + size
    /\ gaps' = (gaps \/ handle = Gone)
    /\ UNCHANGED <<handle, excess, mishaps>>

(* What a rotation leaves behind if the renames of "failing" fail.         *)
Trouble(failing) ==
    /\ gaps' = (gaps \/ failing # {})
    /\ excess' = IF 0 \in failing /\ disk[0].there THEN excess + Limit ELSE excess

Mishap(bad) ==
    /\ bad => mishaps < MaxMishaps
    /\ mishaps' = IF bad THEN mishaps + 1 ELSE mishaps

Rotate(size, failing) ==
    /\ ~Fits(size)
    /\ count < MaxLines /\ count' = count + 1
    /\ Mishap(failing # {})
    /\ disk' = Appended(Opened(After(failing)), 0, size)
    /\ handle' = 0
    /\ written' = size
    /\ Trouble(failing)

(* The line is refused, the count stays: the next line that does not fit   *)
(* rotates again.                                                          *)
RotateFails(size, failing) ==
    /\ ~Fits(size)
    /\ Mishap(TRUE)
    /\ disk' \in {After(failing), Opened(After(failing))}
    /\ handle' = HandleAfter(failing)
    /\ Trouble(failing)
    /\ UNCHANGED <<written, count>>

\* Mutant: the bytes left are counted, not the bytes written.
ReopenCountingDown ==
    /\ disk' = Opened(disk)
    /\ handle' = 0
    /\ written' = Limit - disk'[0].size
    /\ UNCHANGED <<count, excess, gaps, mishaps>>

(* A new process opens the log that is there.                              *)
Reopen ==
    /\ disk' = Opened(disk)
    /\ handle' = 0
    /\ written' = disk'[0].size
    /\ UNCHANGED <<count, excess, gaps, mishaps>>

LogStep ==
    \E size \in Sizes :
        \/ Append(size)
        \/ \E failing \in SUBSET Files : Rotate(size, failing) \/ RotateFails(size, failing)

-----------------------------------------------------------------------------
(* The bound of docs/FacadeProxydesigndoc.md:933 on each file, however     *)
(* lines, failures and restarts of the proxy mix: a file exceeds the limit *)
(* by at most one limit for each time the log could not be renamed, when   *)
(* the writer counts from zero although the file is full.                  *)
FilesBounded == \A j \in Files : disk[j].size <= Limit + excess

(* The suffixes tell the age: every line in a file is newer than every     *)
(* line in the files after it, even where some renames of a rotation       *)
(* failed, or the handle is left on a file that was moved.                 *)
NewestFirst ==
    \A i, j \in Files :
        i < j => \A m \in disk[i].lines, n \in disk[j].lines : m > n

(* Only the oldest lines are dropped: as long as every rename works and no *)
(* line went to a file that had been removed, the lines on disk have no    *)
(* gap up to the newest one, however often the log could not be opened;    *)
(* and if nothing ever failed, lines are missing only when all files are   *)
(* there.                                                                  *)
OnlyOldestDropped ==
    /\ ~gaps => \A j \in Files : \A n \in disk[j].lines :
                   \A m \in n .. count : \E i \in 0 .. j : m \in disk[i].lines
    /\ mishaps = 0 /\ count > 0 /\ (\A j \in Files : 1 \notin disk[j].lines) =>
           \A j \in Files : disk[j].there
=============================================================================
