------------------------------ MODULE RotateLog ------------------------------
(***************************************************************************)
(* The log file and its backups: rotateWriter of internal/logging/logging.go.*)
(*                                                                         *)
(* Writes exclude one another (rotateWriter.mu), so the writer is one       *)
(* process here; a rotation is several calls of the operating system, each  *)
(* of which may fail, and between which the program may be killed and       *)
(* started again on what it left behind.                                    *)
(***************************************************************************)
EXTENDS Integers, Sequences

CONSTANTS
  Backups,    \* rotateWriter.backups: kitsune.log.1 .. kitsune.log.<Backups>
  MaxBytes,   \* rotateWriter.maxBytes
  Sizes,      \* bytes of a line
  MaxLines    \* bound on the lines written

ASSUME BackupsAssumption  == Backups \in Nat \ {0}
ASSUME MaxBytesAssumption == MaxBytes \in Nat
ASSUME SizesAssumption    == Sizes \subseteq Nat \ {0}

VARIABLES
  files,      \* the directory: 0 is kitsune.log, i is kitsune.log.i
  lines,      \* lines handed to Write so far
  up,         \* the program runs
  writer,     \* Manager.writer is not nil
  open,       \* rotateWriter.file is not nil
  size,       \* rotateWriter.size
  failed,     \* rotateWriter.failed is not nil
  pc,         \* the step of Write
  index,      \* the loop variable of rotate
  line        \* the bytes of the line being written

manager == <<up, writer>>
vars == <<files, lines, up, writer, open, size, failed, pc, index, line>>

Slots == 0 .. Backups
\* A file is its length and the numbers of the lines in it, whole or cut short.
File  == [bytes : Nat, lines : Seq(Nat)]
Empty == [bytes |-> 0, lines |-> <<>>]
None  == [bytes |-> -1, lines |-> <<>>]
Exists(f) == f # None

Append1(f, bytes, number) ==
  [bytes |-> f.bytes + bytes, lines |-> Append(f.lines, number)]

Init ==
  /\ files = [i \in Slots |-> None] /\ lines = 0
  /\ up = FALSE /\ writer = FALSE /\ open = FALSE /\ size = 0 /\ failed = FALSE
  /\ pc = "idle" /\ index = 0 /\ line = 0

-----------------------------------------------------------------------------
\* disable: the file is closed, and markUnavailable is told (see StatusBoard).
Disable ==
  /\ failed' = TRUE /\ open' = FALSE
  /\ pc' = "idle" /\ index' = 0 /\ line' = 0
  /\ UNCHANGED <<lines, manager>>

\* A system call that fails leaves the directory alone.
Fails == Disable /\ UNCHANGED <<files, size>>

\* O_CREATE|O_APPEND
CreateActive ==
  files' = IF Exists(files[0]) THEN files ELSE [files EXCEPT ![0] = Empty]

\* open, with Stat.
OpenFile == CreateActive /\ open' = TRUE /\ size' = files'[0].bytes

-----------------------------------------------------------------------------
\* New: the file is opened, or the logger writes to stderr and there is no writer, though
\* there may be a file.
Start ==
  /\ ~up
  /\ up' = TRUE
  /\ \/ OpenFile /\ writer' = TRUE
     \/ (CreateActive \/ UNCHANGED files) /\ UNCHANGED <<writer, open, size>>
  /\ UNCHANGED <<lines, failed, pc, index, line>>

\* Variant: a line that is too long rotates an empty file too.
FullEvenEmpty(bytes) == size + bytes > MaxBytes

\* Variant: the line to come is not counted.
FullBefore(bytes) == size > MaxBytes

Full(bytes) == size > 0 /\ size + bytes > MaxBytes

\* Write: refused after a failure, or when New has no writer.
Write(bytes) ==
  /\ writer /\ pc = "idle" /\ ~failed
  /\ lines < MaxLines /\ lines' = lines + 1
  /\ line' = bytes
  /\ pc' = IF Full(bytes) THEN "close" ELSE "append"
  /\ UNCHANGED <<files, manager, open, size, failed, index>>

\* rotate.  Close on a nil file fails as well.
CloseActive ==
  /\ pc = "close"
  /\ \/ Fails
     \/ /\ open /\ open' = FALSE /\ pc' = "remove"
        /\ UNCHANGED <<files, lines, manager, size, failed, index, line>>

\* The error of os.Remove is dropped.
RemoveOldest ==
  /\ pc = "remove"
  /\ \/ files' = [files EXCEPT ![Backups] = None]
     \/ UNCHANGED files
  /\ index' = Backups - 1 /\ pc' = "shift"
  /\ UNCHANGED <<lines, manager, open, size, failed, line>>

\* Variant: the newest backup is moved first.
RenamedFirst(i) == Backups - 1 - i

\* The loop counts down; index 0 is the rename of kitsune.log itself.
Renamed(i) == i

\* os.Rename replaces its target; a source that does not exist is passed over.
Shift ==
  /\ pc = "shift"
  /\ \/ Fails
     \/ /\ LET i == Renamed(index) IN
             files' = (IF Exists(files[i])
                       THEN [files EXCEPT ![i + 1] = files[i], ![i] = None] ELSE files)
        /\ IF index > 0 THEN index' = index - 1 /\ UNCHANGED pc
           ELSE pc' = "reopen" /\ UNCHANGED index
        /\ UNCHANGED <<lines, manager, open, size, failed, line>>

\* Variant: the size of the old file is kept.
ReopenKeepsSize ==
  /\ pc = "reopen"
  /\ \/ Fails
     \/ /\ CreateActive /\ open' = TRUE /\ pc' = "append"
        /\ UNCHANGED <<lines, manager, size, failed, index, line>>

\* Stat may fail on a file that has been created.
Reopen ==
  /\ pc = "reopen"
  /\ \/ Fails
     \/ CreateActive /\ Disable /\ UNCHANGED size
     \/ OpenFile /\ pc' = "append" /\ UNCHANGED <<lines, manager, failed, index, line>>

\* file.Write: the whole line, or a part of it and an error; a nil file takes nothing.
AppendLine ==
  /\ pc = "append"
  /\ \/ Fails
     \/ \E bytes \in 1 .. line - 1 :
          /\ open /\ Disable
          /\ files' = [files EXCEPT ![0] = Append1(@, bytes, lines)]
          /\ size' = size + bytes
     \/ /\ open
        /\ files' = [files EXCEPT ![0] = Append1(@, line, lines)]
        /\ size' = size + line
        /\ pc' = "idle" /\ line' = 0
        /\ UNCHANGED <<lines, manager, open, failed, index>>

\* Manager.Close, by main after Shutdown; lines that come later find a nil file.
Close ==
  /\ up /\ pc = "idle" /\ open
  /\ open' = FALSE
  /\ UNCHANGED <<files, lines, manager, size, failed, pc, index, line>>

\* The process ends, or is killed, at any moment.
Crash ==
  /\ up
  /\ up' = FALSE /\ writer' = FALSE /\ open' = FALSE /\ size' = 0 /\ failed' = FALSE
  /\ pc' = "idle" /\ index' = 0 /\ line' = 0
  /\ UNCHANGED <<files, lines>>

Next ==
  \/ Start \/ Close \/ Crash
  \/ \E bytes \in Sizes : Write(bytes)
  \/ CloseActive \/ RemoveOldest \/ Shift \/ Reopen \/ AppendLine

Spec == Init /\ [][Next]_vars

-----------------------------------------------------------------------------
\* Directory and writer hold values of their types; an open writer knows the length of
\* its file.
TypeOK ==
  /\ files \in [Slots -> File \cup {None}] /\ lines \in Nat
  /\ up \in BOOLEAN /\ writer \in BOOLEAN /\ open \in BOOLEAN /\ failed \in BOOLEAN
  /\ size \in Nat /\ line \in Nat /\ index \in 0 .. Backups - 1
  /\ pc \in {"idle", "close", "remove", "shift", "reopen", "append"}
  /\ open => Exists(files[0]) /\ size = files[0].bytes

\* What the files hold: the numbers of the lines in one, and in all of them.
LinesOf(i) == {files[i].lines[k] : k \in 1 .. Len(files[i].lines)}
Held == UNION {LinesOf(i) : i \in Slots}

\* A reader who goes from the oldest backup to kitsune.log meets the lines in the order in
\* which they were written, each once.
InOrder ==
  /\ \A i \in Slots : \A j, k \in 1 .. Len(files[i].lines) :
       j < k => files[i].lines[j] < files[i].lines[k]
  /\ \A i, j \in Slots : i < j => \A m \in LinesOf(i), n \in LinesOf(j) : n < m

\* README.md:276 "rotates through kitsune.log.1 to kitsune.log.5": a file outgrows the
\* limit only by being a single line, in any slot, after failures and restarts.
FilesBounded ==
  \A i \in Slots : files[i].bytes <= MaxBytes \/ Len(files[i].lines) = 1

\* Every step adds the line being written or drops lines older than all it keeps, and what
\* the files hold stays in order: a rotation that fails or is cut off half-way neither
\* reorders nor loses a line but the oldest.
OldestGoesFirst ==
  [][/\ InOrder'
     /\ \/ Held' = Held \cup {lines}
        \/ /\ Held' \subseteq Held
           /\ \A gone \in Held \ Held', kept \in Held' : gone < kept]_vars

\* A rotation is never spent on nothing: every backup holds a line.
BackupsHoldLines ==
  \A i \in Slots \ {0} : Exists(files[i]) => Len(files[i].lines) > 0

=============================================================================
