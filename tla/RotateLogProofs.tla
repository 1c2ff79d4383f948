--------------------------- MODULE RotateLogProofs ---------------------------
(***************************************************************************)
(* Proofs about RotateLog, for any number of backups, any limit and any     *)
(* lines, with failures and restarts wherever they may come.                *)
(***************************************************************************)
EXTENDS RotateLog, TLAPS

\* A file without bytes is a file without lines.
FilesInv ==
  \A i \in Slots :
     Exists(files[i]) => (files[i].bytes = 0 <=> files[i].lines = <<>>)

\* What Write and rotate know from one step to the next.
StepInv ==
  /\ ~up => ~writer /\ pc = "idle"
  /\ pc # "idle" => line \in Sizes
  /\ pc = "close" => size > 0
  /\ pc \in {"remove", "shift"} => ~open /\ (Exists(files[0]) => files[0].bytes > 0)
  /\ pc = "reopen" => ~open /\ ~Exists(files[0])
  /\ pc = "append" => size = 0 \/ size + line <= MaxBytes

IInv == TypeOK /\ FilesInv /\ StepInv /\ FilesBounded /\ BackupsHoldLines

LEMMA FileFacts ==
  /\ Empty \in File /\ Exists(Empty)
  /\ \A f \in File : Exists(f)
  /\ ~Exists(None) /\ None.bytes <= MaxBytes
BY MaxBytesAssumption DEF Empty, File, Exists, None

LEMMA InitInv == Init => IInv
<1>. SUFFICES ASSUME Init  PROVE IInv
  OBVIOUS
<1>. USE FileFacts, BackupsAssumption DEF Init
<1>1. TypeOK
  <2>. 0 \in 0 .. Backups - 1
    OBVIOUS
  <2>. files \in [Slots -> File \cup {None}]
    OBVIOUS
  <2>. HIDE FileFacts DEF Slots
  <2>. QED  BY DEF TypeOK
<1>2. FilesInv /\ StepInv /\ FilesBounded /\ BackupsHoldLines
  BY DEF FilesInv, StepInv, FilesBounded, BackupsHoldLines, Slots
<1>. QED  BY <1>1, <1>2 DEF IInv

\* Creating the active file harms nothing.
LEMMA CreateKeeps ==
  ASSUME IInv, CreateActive
  PROVE  /\ files' \in [Slots -> File \cup {None}] /\ Exists(files'[0])
         /\ FilesInv' /\ FilesBounded' /\ BackupsHoldLines'
         /\ ~Exists(files[0]) => files'[0] = Empty
<1>. USE FileFacts, BackupsAssumption, MaxBytesAssumption DEF IInv, CreateActive, Slots
<1>1. files' \in [Slots -> File \cup {None}] /\ Exists(files'[0])
  BY DEF TypeOK
<1>2. FilesInv' /\ FilesBounded' /\ BackupsHoldLines'
  BY DEF TypeOK, FilesInv, FilesBounded, BackupsHoldLines, Empty
<1>. QED  BY <1>1, <1>2 DEF TypeOK

LEMMA AppendFacts ==
  ASSUME NEW f \in File, NEW b \in Nat \ {0}, NEW n \in Nat
  PROVE  /\ Append1(f, b, n) \in File
         /\ Append1(f, b, n).bytes = f.bytes + b
         /\ Append1(f, b, n).lines # <<>>
         /\ Len(Append1(f, b, n).lines) = Len(f.lines) + 1
<1>1. f.lines \in Seq(Nat) /\ f.bytes \in Nat
  BY DEF File
<1>2. /\ Append(f.lines, n) \in Seq(Nat) /\ Append(f.lines, n) # <<>>
      /\ Len(Append(f.lines, n)) = Len(f.lines) + 1
  BY <1>1
<1>3. f.bytes + b \in Nat
  BY <1>1
<1>. QED  BY <1>2, <1>3, Zenon DEF Append1, File

LEMMA OpenKeeps ==
  ASSUME IInv, OpenFile
  PROVE  /\ files' \in [Slots -> File \cup {None}]
         /\ open' = TRUE /\ size' \in Nat /\ Exists(files'[0]) /\ size' = files'[0].bytes
         /\ FilesInv' /\ FilesBounded' /\ BackupsHoldLines'
         /\ ~Exists(files[0]) => size' = 0
BY CreateKeeps, BackupsAssumption DEF OpenFile, Slots, File, Exists, Empty

\* What Disable leaves behind is in order when the directory is.
LEMMA DisableKeeps ==
  ASSUME IInv, Disable, size' \in Nat, files' \in [Slots -> File \cup {None}],
         FilesInv', FilesBounded', BackupsHoldLines'
  PROVE  IInv'
<1>1. TypeOK'
  <2>. 0 \in 0 .. Backups - 1
    BY BackupsAssumption
  <2>. open' = FALSE /\ ~open'
    BY DEF Disable
  <2>. QED  BY DEF Disable, IInv, TypeOK, manager
<1>2. StepInv'
  BY DEF Disable, IInv, StepInv, manager
<1>. QED  BY <1>1, <1>2 DEF IInv

\* With the directory as it was, only the steps and the writer's copy of the size remain.
LEMMA SameFiles ==
  ASSUME IInv, UNCHANGED files
  PROVE  files' \in [Slots -> File \cup {None}] /\ FilesInv' /\ FilesBounded' /\ BackupsHoldLines'
BY DEF IInv, TypeOK, FilesInv, FilesBounded, BackupsHoldLines

LEMMA FailsKeeps == ASSUME IInv, Fails  PROVE IInv'
BY DisableKeeps, SameFiles DEF Fails, IInv, TypeOK

LEMMA ShiftKeeps ==
  ASSUME IInv, pc = "shift",
         files' = (IF Exists(files[index])
                   THEN [files EXCEPT ![index + 1] = files[index], ![index] = None] ELSE files)
  PROVE  /\ files' \in [Slots -> File \cup {None}]
         /\ FilesInv' /\ FilesBounded' /\ BackupsHoldLines'
         /\ index = 0 => ~Exists(files'[0])
         /\ index > 0 => files'[0] = files[0]
<1>. USE FileFacts, BackupsAssumption, MaxBytesAssumption DEF IInv, TypeOK, Slots
<1>1. CASE ~Exists(files[index])
  BY <1>1, SameFiles
<1>2. CASE Exists(files[index])
  <2>1. /\ index \in Slots /\ index + 1 \in Slots
        /\ files[index] \in File
        /\ \A i \in Slots : files'[i] = IF i = index + 1 THEN files[index]
                                       ELSE IF i = index THEN None ELSE files[i]
    BY <1>2
  <2>2. files' \in [Slots -> File \cup {None}]
    BY <1>2
  <2>3. FilesInv' /\ FilesBounded'
    BY <2>1 DEF FilesInv, FilesBounded
  <2>4. Len(files[index].lines) > 0
    <3>. files[index].lines \in Seq(Nat) /\ files[index].bytes \in Nat
      BY <2>1 DEF File
    <3>1. CASE index = 0
      BY <1>2, <2>1, <3>1 DEF StepInv, FilesInv
    <3>2. CASE index # 0
      BY <1>2, <2>1, <3>2 DEF BackupsHoldLines
    <3>. QED  BY <3>1, <3>2
  <2>5. BackupsHoldLines'
    BY <2>1, <2>4 DEF BackupsHoldLines
  <2>. QED  BY <2>1, <2>2, <2>3, <2>5
<1>. QED  BY <1>1, <1>2

LEMMA AppendKeeps ==
  ASSUME IInv, pc = "append", open, NEW b \in 1 .. line,
         files' = [files EXCEPT ![0] = Append1(@, b, lines)],
         size' = size + b
  PROVE  /\ files' \in [Slots -> File \cup {None}] /\ size' \in Nat
         /\ Exists(files'[0]) /\ size' = files'[0].bytes
         /\ FilesInv' /\ FilesBounded' /\ BackupsHoldLines'
<1>. USE FileFacts, BackupsAssumption, MaxBytesAssumption DEF IInv, TypeOK, Slots
<1>1. files[0] \in File /\ size = files[0].bytes /\ files[0].lines \in Seq(Nat)
  <2>. files[0] \in File
    OBVIOUS
  <2>. QED  BY DEF File
<1>. DEFINE new == Append1(files[0], b, lines)
<1>2. /\ new \in File /\ new.bytes = size + b
      /\ new.lines # <<>> /\ Len(new.lines) = Len(files[0].lines) + 1
  BY <1>1, AppendFacts
<1>3. \A i \in Slots : files'[i] = IF i = 0 THEN new ELSE files[i]
  OBVIOUS
<1>4. files' \in [Slots -> File \cup {None}]
  BY <1>2
<1>5. new.bytes <= MaxBytes \/ Len(new.lines) = 1
  <2>1. CASE size = 0
    <3>. Exists(files[0]) /\ 0 \in Slots
      BY <1>1
    <3>. files[0].lines = <<>>
      BY <1>1, <2>1 DEF FilesInv
    <3>. QED  BY <1>2
  <2>2. CASE size + line <= MaxBytes
    BY <1>2, <2>2
  <2>. QED  BY <2>1, <2>2 DEF StepInv
<1>. HIDE DEF new
<1>6. FilesInv' /\ FilesBounded' /\ BackupsHoldLines'
  <2>. new.bytes # 0
    BY <1>2
  <2>. QED  BY <1>2, <1>3, <1>5 DEF FilesInv, FilesBounded, BackupsHoldLines
<1>. QED  BY <1>1, <1>2, <1>3, <1>4, <1>6

LEMMA StepKeeps == IInv /\ [Next]_vars => IInv'
<1>. SUFFICES ASSUME IInv, [Next]_vars  PROVE IInv'
  OBVIOUS
<1>. USE BackupsAssumption, MaxBytesAssumption, SizesAssumption
<1>1. CASE Start
  <2>1. CASE OpenFile
    <3>1. TypeOK'
      BY <1>1, <2>1, OpenKeeps DEF Start, IInv, TypeOK
    <3>2. StepInv'
      BY <1>1, <2>1, OpenKeeps DEF Start, IInv, StepInv, TypeOK
    <3>. QED  BY <2>1, <3>1, <3>2, OpenKeeps DEF IInv
  <2>2. CASE (CreateActive \/ UNCHANGED files) /\ UNCHANGED <<writer, open, size>>
    <3>1. TypeOK'
      BY <1>1, <2>2, CreateKeeps, SameFiles DEF Start, IInv, TypeOK, CreateActive
    <3>2. StepInv'
      BY <1>1, <2>2 DEF Start, IInv, StepInv
    <3>. QED  BY <2>2, <3>1, <3>2, CreateKeeps, SameFiles DEF IInv
  <2>. QED  BY <1>1, <2>1, <2>2 DEF Start
<1>2. CASE Close \/ Crash
  <2>1. TypeOK' /\ StepInv'
    <3>. 0 \in 0 .. Backups - 1
      OBVIOUS
    <3>. ~open' /\ pc' = "idle"
      BY <1>2 DEF Close, Crash
    <3>1. CASE Close
      BY <3>1 DEF Close, IInv, TypeOK, StepInv, manager
    <3>2. CASE Crash
      BY <3>2 DEF Crash, IInv, TypeOK, StepInv
    <3>. QED  BY <1>2, <3>1, <3>2
  <2>. QED  BY <1>2, <2>1, SameFiles DEF IInv, Close, Crash
<1>3. ASSUME NEW bytes \in Sizes, Write(bytes)  PROVE IInv'
  <2>1. TypeOK' /\ StepInv'
    BY <1>3 DEF Write, Full, IInv, TypeOK, StepInv, manager
  <2>. QED  BY <1>3, <2>1, SameFiles DEF IInv, Write
<1>4. CASE CloseActive
  <2>1. CASE Fails
    BY <2>1, FailsKeeps
  <2>2. CASE /\ open /\ open' = FALSE /\ pc' = "remove"
             /\ UNCHANGED <<files, lines, manager, size, failed, index, line>>
    <3>1. TypeOK' /\ StepInv'
      BY <1>4, <2>2 DEF CloseActive, IInv, TypeOK, StepInv, manager
    <3>. QED  BY <2>2, <3>1, SameFiles DEF IInv
  <2>. QED  BY <1>4, <2>1, <2>2 DEF CloseActive
<1>5. CASE RemoveOldest
  <2>1. /\ files' \in [Slots -> File \cup {None}] /\ files'[0] = files[0]
        /\ FilesInv' /\ FilesBounded' /\ BackupsHoldLines'
    <3>1. CASE files' = [files EXCEPT ![Backups] = None]
      BY <3>1, FileFacts DEF IInv, TypeOK, Slots, FilesInv, FilesBounded, BackupsHoldLines
    <3>. QED  BY <1>5, <3>1, SameFiles DEF RemoveOldest
  <2>2. TypeOK' /\ StepInv'
    BY <1>5, <2>1 DEF RemoveOldest, IInv, TypeOK, StepInv, manager
  <2>. QED  BY <2>1, <2>2 DEF IInv
<1>6. CASE Shift
  <2>1. CASE Fails
    BY <2>1, FailsKeeps
  <2>2. CASE ~Fails
    <3>1. TypeOK' /\ StepInv'
      BY <1>6, <2>2, ShiftKeeps DEF Shift, Renamed, IInv, TypeOK, StepInv, manager
    <3>. QED  BY <1>6, <2>2, <3>1, ShiftKeeps DEF Shift, Renamed, IInv
  <2>. QED  BY <2>1, <2>2
<1>7. CASE Reopen
  <2>1. CASE Fails
    BY <2>1, FailsKeeps
  <2>2. CASE CreateActive /\ Disable /\ UNCHANGED size
    BY <2>2, CreateKeeps, DisableKeeps DEF IInv, TypeOK
  <2>3. CASE OpenFile /\ pc' = "append" /\ UNCHANGED <<lines, manager, failed, index, line>>
    <3>1. TypeOK' /\ StepInv'
      BY <1>7, <2>3, OpenKeeps DEF Reopen, IInv, TypeOK, StepInv, manager
    <3>. QED  BY <2>3, <3>1, OpenKeeps DEF IInv
  <2>. QED  BY <1>7, <2>1, <2>2, <2>3 DEF Reopen
<1>8. CASE AppendLine
  <2>1. CASE Fails
    BY <2>1, FailsKeeps
  <2>2. ASSUME NEW bytes \in 1 .. line - 1, open, Disable,
               files' = [files EXCEPT ![0] = Append1(@, bytes, lines)],
               size' = size + bytes
        PROVE  IInv'
    <3>. bytes \in 1 .. line
      BY DEF IInv, TypeOK
    <3>. QED  BY <1>8, <2>2, AppendKeeps, DisableKeeps DEF AppendLine
  <2>3. CASE /\ open
             /\ files' = [files EXCEPT ![0] = Append1(@, line, lines)]
             /\ size' = size + line
             /\ pc' = "idle" /\ line' = 0
             /\ UNCHANGED <<lines, manager, open, failed, index>>
    <3>0. line \in 1 .. line /\ pc = "append"
      BY <1>8 DEF AppendLine, IInv, StepInv, TypeOK
    <3>1. /\ files' \in [Slots -> File \cup {None}] /\ size' \in Nat
          /\ Exists(files'[0]) /\ size' = files'[0].bytes
          /\ FilesInv' /\ FilesBounded' /\ BackupsHoldLines'
      BY <2>3, <3>0, AppendKeeps
    <3>2. TypeOK' /\ StepInv'
      BY <2>3, <3>1 DEF IInv, TypeOK, StepInv, manager
    <3>. QED  BY <3>1, <3>2 DEF IInv
  <2>. QED  BY <1>8, <2>1, <2>2, <2>3 DEF AppendLine
<1>9. CASE UNCHANGED vars
  <2>1. TypeOK' /\ StepInv'
    BY <1>9 DEF vars, manager, IInv, TypeOK, StepInv
  <2>. QED  BY <1>9, <2>1, SameFiles DEF vars, IInv
<1>. QED
  BY <1>1, <1>2, <1>3, <1>4, <1>5, <1>6, <1>7, <1>8, <1>9 DEF Next

\* The inductive invariant of the log's files.
THEOREM LogInductive == Spec => []IInv
BY InitInv, StepKeeps, PTL DEF Spec

\* The types; an open writer knows the length of its file.
THEOREM LogTypeCorrect == Spec => []TypeOK
<1>1. IInv => TypeOK
  BY DEF IInv
<1>. QED  BY LogInductive, <1>1, PTL

\* README.md:276: no file outgrows the limit unless it is a single line, for any limit,
\* any number of backups and lines of any size.
THEOREM LogIsBounded == Spec => []FilesBounded
<1>1. IInv => FilesBounded
  BY DEF IInv
<1>. QED  BY LogInductive, <1>1, PTL

\* logging.go:177: no backup is ever empty, after any failures and restarts.
THEOREM BackupsAreFull == Spec => []BackupsHoldLines
<1>1. IInv => BackupsHoldLines
  BY DEF IInv
<1>. QED  BY LogInductive, <1>1, PTL

-----------------------------------------------------------------------------
(* The order of the lines. *)

\* Numbers are given in order, and the line being written is in no file yet.  While a
\* rotation goes down the slots, the one above the next to be moved is vacant: no rename
\* but that onto the oldest backup replaces anything.
OrderInv ==
  /\ InOrder
  /\ \A i \in Slots : \A m \in LinesOf(i) : m <= lines /\ (pc # "idle" => m < lines)
  /\ pc = "shift" /\ index + 1 < Backups => ~Exists(files[index + 1])

\* What OldestGoesFirst allows the files to lose.
LosesOldest ==
  Held' \subseteq Held /\ \A gone \in Held \ Held', kept \in Held' : gone < kept

LEMMA LineFacts ==
  ASSUME TypeOK, NEW i \in Slots
  PROVE  /\ files[i].lines \in Seq(Nat) /\ LinesOf(i) \subseteq Nat
         /\ ~Exists(files[i]) => files[i].lines = <<>>
<1>1. files[i].lines \in Seq(Nat)
  <2>1. CASE files[i] = None
    <3>. <<>> \in Seq(Nat)
      OBVIOUS
    <3>. QED  BY <2>1 DEF None
  <2>2. CASE files[i] \in File
    BY <2>2 DEF File
  <2>. QED  BY <2>1, <2>2 DEF TypeOK
<1>2. LinesOf(i) \subseteq Nat
  BY <1>1 DEF LinesOf
<1>. QED  BY <1>1, <1>2 DEF Exists, None

\* Files that hold what they held lose nothing.
LEMMA SameLines ==
  ASSUME InOrder, \A i \in Slots : files'[i].lines = files[i].lines
  PROVE  /\ \A i \in Slots : LinesOf(i)' = LinesOf(i)
         /\ InOrder' /\ LosesOldest
<1>1. \A i \in Slots : LinesOf(i)' = LinesOf(i)
  BY DEF LinesOf
<1>2. InOrder'
  BY <1>1 DEF InOrder
<1>3. Held' = Held
  BY <1>1 DEF Held
<1>. QED  BY <1>1, <1>2, <1>3 DEF LosesOldest

LEMMA CreateHolds ==
  ASSUME TypeOK, InOrder, CreateActive
  PROVE  /\ \A i \in Slots : LinesOf(i)' = LinesOf(i)
         /\ InOrder' /\ LosesOldest
<1>. 0 \in Slots
  BY BackupsAssumption DEF Slots
<1>1. \A i \in Slots : files'[i].lines = files[i].lines
  BY LineFacts DEF CreateActive, TypeOK, Empty
<1>. QED  BY <1>1, SameLines

\* The oldest backup goes.
LEMMA DropHolds ==
  ASSUME TypeOK, InOrder, files' = [files EXCEPT ![Backups] = None]
  PROVE  /\ \A i \in Slots : LinesOf(i)' \subseteq LinesOf(i)
         /\ InOrder' /\ LosesOldest
<1>. USE BackupsAssumption
<1>1. /\ Backups \in Slots /\ \A i \in Slots : i # Backups => i < Backups
      /\ Slots \subseteq Int
  BY DEF Slots
<1>2. \A i \in Slots : files'[i] = IF i = Backups THEN None ELSE files[i]
  BY <1>1 DEF TypeOK
<1>3. /\ LinesOf(Backups)' = {}
      /\ \A i \in Slots \ {Backups} : LinesOf(i)' = LinesOf(i)
  BY <1>1, <1>2 DEF LinesOf, None
<1>4. InOrder'
  <2>1. \A i \in Slots : \A j, k \in 1 .. Len(files'[i].lines) :
          j < k => files'[i].lines[j] < files'[i].lines[k]
    BY <1>2 DEF InOrder, None
  <2>2. \A i, j \in Slots : i < j => \A m \in LinesOf(i)', n \in LinesOf(j)' : n < m
    BY <1>3 DEF InOrder
  <2>. QED  BY <2>1, <2>2 DEF InOrder
<1>5. Held' \subseteq Held
  BY <1>3 DEF Held
<1>6. ASSUME NEW gone \in Held \ Held', NEW kept \in Held'  PROVE gone < kept
  <2>1. gone \in LinesOf(Backups)
    BY <1>3 DEF Held
  <2>2. PICK i \in Slots \ {Backups} : kept \in LinesOf(i)
    BY <1>3 DEF Held
  <2>. QED  BY <1>1, <2>1, <2>2 DEF InOrder
<1>. QED  BY <1>3, <1>4, <1>5, <1>6 DEF LosesOldest

\* A slot is moved up, into a vacant one or over the oldest backup.
LEMMA MoveHolds ==
  ASSUME TypeOK, InOrder, NEW i \in Slots, i < Backups,
         i + 1 < Backups => ~Exists(files[i + 1]),
         files' = [files EXCEPT ![i + 1] = files[i], ![i] = None]
  PROVE  /\ LinesOf(i + 1)' = LinesOf(i) /\ LinesOf(i)' = {}
         /\ \A j \in Slots \ {i, i + 1} : LinesOf(j)' = LinesOf(j)
         /\ InOrder' /\ LosesOldest
<1>. USE BackupsAssumption
<1>1. /\ i + 1 \in Slots /\ Backups \in Slots /\ Slots \subseteq Int
      /\ i # i + 1 /\ \A j \in Slots : j # Backups => j < Backups
      /\ \A j \in Slots \ {i, i + 1} : (j < i + 1 <=> j < i) /\ (i + 1 < j <=> i < j)
      /\ \A j \in Slots : j < j => FALSE
      /\ ~(i + 1 < i)
  BY DEF Slots
<1>2. \A j \in Slots : files'[j] = IF j = i + 1 THEN files[i]
                                   ELSE IF j = i THEN None ELSE files[j]
  BY <1>1 DEF TypeOK
<1>3. /\ LinesOf(i + 1)' = LinesOf(i) /\ LinesOf(i)' = {}
      /\ \A j \in Slots \ {i, i + 1} : LinesOf(j)' = LinesOf(j)
  <2>1. files'[i + 1] = files[i] /\ files'[i] = None
    BY <1>1, <1>2
  <2>2. LinesOf(i + 1)' = LinesOf(i)
    BY <2>1 DEF LinesOf
  <2>3. LinesOf(i)' = {}
    BY <2>1 DEF LinesOf, None
  <2>4. \A j \in Slots \ {i, i + 1} : LinesOf(j)' = LinesOf(j)
    BY <1>2 DEF LinesOf
  <2>. QED  BY <2>2, <2>3, <2>4
<1>4. InOrder'
  <2>1. ASSUME NEW j \in Slots
        PROVE  \A l, k \in 1 .. Len(files'[j].lines) :
                 l < k => files'[j].lines[l] < files'[j].lines[k]
    <3>1. CASE j = i
      <4>. files'[j] = None
        BY <1>1, <1>2, <3>1
      <4>. QED  BY DEF None
    <3>2. CASE j = i + 1
      <4>. files'[j] = files[i]
        BY <1>2, <3>2
      <4>. QED  BY DEF InOrder
    <3>3. CASE j # i /\ j # i + 1
      <4>. files'[j] = files[j]
        BY <1>2, <3>3
      <4>. QED  BY DEF InOrder
    <3>. QED  BY <3>1, <3>2, <3>3
  <2>2. ASSUME NEW j \in Slots, NEW k \in Slots, j < k,
               NEW m \in LinesOf(j)', NEW n \in LinesOf(k)'
        PROVE  n < m
    <3>1. j # i /\ k # i
      BY <1>3
    <3>2. CASE j = i + 1
      <4>. k \in Slots \ {i, i + 1} /\ i < k
        BY <1>1, <2>2, <3>1, <3>2
      <4>. QED  BY <1>3, <3>2 DEF InOrder
    <3>3. CASE k = i + 1
      <4>. j \in Slots \ {i, i + 1} /\ j < i
        BY <1>1, <2>2, <3>1, <3>3
      <4>. QED  BY <1>3, <3>3 DEF InOrder
    <3>4. CASE j # i + 1 /\ k # i + 1
      BY <1>3, <2>2, <3>1, <3>4 DEF InOrder
    <3>. QED  BY <3>2, <3>3, <3>4
  <2>. QED  BY <2>1, <2>2 DEF InOrder
<1>5. i + 1 # Backups => LinesOf(i + 1) = {}
  <2>. SUFFICES ASSUME i + 1 # Backups  PROVE LinesOf(i + 1) = {}
    OBVIOUS
  <2>. files[i + 1].lines = <<>>
    BY <1>1, LineFacts
  <2>. QED  BY DEF LinesOf
<1>6. Held' \subseteq Held
  BY <1>1, <1>3 DEF Held
<1>7. ASSUME NEW gone \in Held \ Held', NEW kept \in Held'  PROVE gone < kept
  <2>1. gone \in LinesOf(i + 1) /\ i + 1 = Backups
    BY <1>1, <1>3, <1>5 DEF Held
  <2>2. PICK j \in Slots \ {i + 1} : kept \in LinesOf(j)
    BY <1>1, <1>3 DEF Held
  <2>. QED  BY <1>1, <2>1, <2>2 DEF InOrder
<1>. QED  BY <1>3, <1>4, <1>6, <1>7 DEF LosesOldest

\* A line is added after all the others.
LEMMA AppendHolds ==
  ASSUME TypeOK, OrderInv, pc = "append", open, NEW b \in Nat,
         files' = [files EXCEPT ![0] = Append1(@, b, lines)]
  PROVE  /\ LinesOf(0)' = LinesOf(0) \cup {lines}
         /\ \A i \in Slots \ {0} : LinesOf(i)' = LinesOf(i)
         /\ InOrder' /\ Held' = Held \cup {lines}
<1>. USE BackupsAssumption
<1>1. /\ 0 \in Slots /\ \A i \in Slots : ~(i < 0) /\ Slots \subseteq Int
  BY DEF Slots
<1>. DEFINE old == files[0].lines
            new == files'[0].lines
<1>2. old \in Seq(Nat) /\ lines \in Nat /\ new = Append(old, lines)
  BY <1>1, LineFacts DEF TypeOK, Append1
<1>3. /\ new \in Seq(Nat) /\ Len(new) = Len(old) + 1 /\ new[Len(new)] = lines
      /\ \A k \in 1 .. Len(old) : new[k] = old[k]
  <2>. HIDE DEF old, new
  <2>. QED  BY <1>2
<1>4. \A i \in Slots \ {0} : files'[i] = files[i]
  BY DEF TypeOK
<1>5. \A k \in 1 .. Len(new) : k \in 1 .. Len(old) \/ k = Len(new)
  BY <1>2, <1>3
<1>6. LinesOf(0)' = LinesOf(0) \cup {lines}
  <2>. 1 .. Len(old) \subseteq 1 .. Len(new) /\ Len(new) \in 1 .. Len(new)
    BY <1>2, <1>3
  <2>. LinesOf(0) = {old[k] : k \in 1 .. Len(old)} /\ LinesOf(0)' = {new[k] : k \in 1 .. Len(new)}
    BY DEF LinesOf
  <2>. HIDE DEF old, new
  <2>. QED  BY <1>3, <1>5
<1>7. \A i \in Slots \ {0} : LinesOf(i)' = LinesOf(i)
  BY <1>4 DEF LinesOf
<1>8. InOrder'
  <2>1. ASSUME NEW j \in 1 .. Len(new), NEW k \in 1 .. Len(new), j < k
        PROVE  new[j] < new[k]
    <3>1. j \in 1 .. Len(old) /\ new[j] = old[j]
      <4>. HIDE DEF old, new
      <4>1. Len(old) \in Nat /\ Len(new) = Len(old) + 1
        BY <1>2, <1>3
      <4>2. j \in 1 .. Len(old)
        BY <2>1, <4>1
      <4>. QED  BY <1>3, <4>2
    <3>2. CASE k = Len(new)
      <4>. old[j] \in LinesOf(0)
        BY <3>1 DEF LinesOf
      <4>. QED  BY <1>1, <1>3, <3>1, <3>2 DEF OrderInv
    <3>3. CASE k \in 1 .. Len(old)
      BY <1>1, <1>3, <2>1, <3>1, <3>3 DEF OrderInv, InOrder
    <3>. QED  BY <1>5, <3>2, <3>3
  <2>2. \A i \in Slots : \A j, k \in 1 .. Len(files'[i].lines) :
          j < k => files'[i].lines[j] < files'[i].lines[k]
    BY <1>4, <2>1 DEF OrderInv, InOrder
  <2>3. \A i, j \in Slots : i < j => \A m \in LinesOf(i)', n \in LinesOf(j)' : n < m
    <3>. SUFFICES ASSUME NEW i \in Slots, NEW j \in Slots, i < j,
                         NEW m \in LinesOf(i)', NEW n \in LinesOf(j)'
                  PROVE  n < m
      OBVIOUS
    <3>1. j # 0 /\ n \in LinesOf(j)
      BY <1>1, <1>7
    <3>2. CASE m = lines
      BY <3>1, <3>2 DEF OrderInv
    <3>3. CASE m \in LinesOf(i)
      BY <3>1, <3>3 DEF OrderInv, InOrder
    <3>. QED  BY <1>6, <1>7, <3>2, <3>3
  <2>. QED  BY <2>2, <2>3 DEF InOrder
<1>9. Held' = Held \cup {lines}
  BY <1>1, <1>6, <1>7 DEF Held
<1>. QED  BY <1>6, <1>7, <1>8, <1>9

\* A step after which no slot holds more than before, and no rename is at hand.
LEMMA FewerLines ==
  ASSUME OrderInv, \A i \in Slots : LinesOf(i)' \subseteq LinesOf(i), InOrder',
         lines' = lines, pc' # "idle" => pc # "idle", pc' # "shift"
  PROVE  OrderInv'
BY DEF OrderInv

\* The same directory.
LEMMA SameHolds ==
  ASSUME InOrder, files' = files
  PROVE  /\ \A i \in Slots : LinesOf(i)' = LinesOf(i)
         /\ InOrder' /\ LosesOldest
BY SameLines

LEMMA FailsHolds ==
  ASSUME OrderInv, Fails  PROVE OrderInv' /\ LosesOldest
BY SameHolds, FewerLines DEF Fails, Disable, OrderInv

LEMMA OrderStep ==
  IInv /\ OrderInv /\ [Next]_vars =>
    OrderInv' /\ (Held' = Held \cup {lines} \/ LosesOldest)
<1>. SUFFICES ASSUME IInv, OrderInv, [Next]_vars
              PROVE  OrderInv' /\ (Held' = Held \cup {lines} \/ LosesOldest)
  OBVIOUS
<1>. USE BackupsAssumption, SizesAssumption
<1>0. TypeOK /\ InOrder /\ (\A i \in Slots : LinesOf(i) \subseteq Nat) /\ lines \in Nat
  BY LineFacts DEF IInv, TypeOK, OrderInv
<1>1. CASE Start
  <2>1. CASE CreateActive
    BY <1>0, <1>1, <2>1, CreateHolds, FewerLines DEF Start, IInv, StepInv
  <2>2. CASE files' = files
    BY <1>0, <1>1, <2>2, SameHolds, FewerLines DEF Start, IInv, StepInv
  <2>. QED  BY <1>1, <2>1, <2>2 DEF Start, OpenFile
<1>2. CASE Close \/ Crash \/ UNCHANGED vars
  <2>1. files' = files /\ lines' = lines
    BY <1>2 DEF Close, Crash, vars
  <2>2. CASE Close \/ Crash
    BY <1>0, <2>1, <2>2, SameHolds, FewerLines DEF Close, Crash
  <2>3. CASE UNCHANGED vars
    <3>. UNCHANGED <<pc, index>>
      BY <2>3 DEF vars
    <3>. QED  BY <1>0, <2>1, SameHolds DEF OrderInv
  <2>. QED  BY <1>2, <2>2, <2>3
<1>3. ASSUME NEW bytes \in Sizes, Write(bytes)
      PROVE  OrderInv' /\ LosesOldest
  <2>1. /\ files' = files /\ lines' = lines + 1 /\ pc' # "shift"
        /\ \A m \in Nat : m <= lines => m <= lines' /\ m < lines'
    BY <1>0, <1>3 DEF Write
  <2>. QED  BY <1>0, <2>1, SameHolds DEF OrderInv
<1>4. CASE CloseActive
  <2>1. CASE Fails
    BY <2>1, FailsHolds
  <2>2. CASE ~Fails
    BY <1>0, <1>4, <2>2, SameHolds, FewerLines DEF CloseActive
  <2>. QED  BY <2>1, <2>2
<1>5. CASE RemoveOldest
  <2>1. (\A i \in Slots : LinesOf(i)' \subseteq LinesOf(i)) /\ InOrder' /\ LosesOldest
    BY <1>0, <1>5, SameHolds, DropHolds DEF RemoveOldest
  <2>2. lines' = lines /\ pc # "idle" /\ ~(index' + 1 < Backups)
    BY <1>5 DEF RemoveOldest
  <2>. QED  BY <2>1, <2>2 DEF OrderInv
<1>6. CASE Shift
  <2>1. CASE Fails
    BY <2>1, FailsHolds
  <2>2. CASE ~Fails
    <3>1. /\ pc = "shift" /\ lines' = lines
          /\ files' = (IF Exists(files[index])
                       THEN [files EXCEPT ![index + 1] = files[index], ![index] = None]
                       ELSE files)
          /\ IF index > 0 THEN index' = index - 1 ELSE pc' # "shift"
      BY <1>6, <2>2 DEF Shift, Renamed
    <3>2. index \in Slots /\ index \in Nat /\ index < Backups
      BY <1>0 DEF TypeOK, Slots
    <3>3. CASE Exists(files[index])
      <4>. PICK moved \in Slots : moved = index
        BY <3>2
      <4>1. /\ LinesOf(moved + 1)' = LinesOf(moved) /\ LinesOf(moved)' = {}
            /\ \A j \in Slots \ {moved, moved + 1} : LinesOf(j)' = LinesOf(j)
            /\ InOrder' /\ LosesOldest
        <5>1. moved + 1 < Backups => ~Exists(files[moved + 1])
          BY <3>1 DEF OrderInv
        <5>2. files' = [files EXCEPT ![moved + 1] = files[moved], ![moved] = None]
          BY <3>1, <3>3
        <5>. QED  BY <1>0, <3>2, <5>1, <5>2, MoveHolds
      <4>2. \A i \in Slots : LinesOf(i)' \subseteq LinesOf(i) \cup LinesOf(moved)
        BY <4>1
      <4>3. pc' = "shift" => index' + 1 = index
        BY <3>1, <3>2
      <4>4. ~Exists(files'[index])
        BY <1>0, <3>1, <3>2, <3>3, FileFacts DEF TypeOK
      <4>. QED  BY <3>1, <3>2, <4>1, <4>2, <4>3, <4>4 DEF OrderInv
    <3>4. CASE ~Exists(files[index])
      <4>1. files' = files /\ (pc' = "shift" => index' + 1 = index)
        BY <3>1, <3>2, <3>4
      <4>. QED  BY <1>0, <3>1, <3>4, <4>1, SameHolds DEF OrderInv
    <3>. QED  BY <3>3, <3>4
  <2>. QED  BY <2>1, <2>2
<1>7. CASE Reopen
  <2>1. CASE Fails
    BY <2>1, FailsHolds
  <2>2. CASE CreateActive
    BY <1>0, <1>7, <2>1, <2>2, CreateHolds, FewerLines DEF Reopen, Disable
  <2>. QED  BY <1>7, <2>1, <2>2 DEF Reopen, OpenFile
<1>8. CASE AppendLine
  <2>1. CASE Fails
    BY <2>1, FailsHolds
  <2>2. CASE ~Fails
    <3>1. line \in Nat /\ pc = "append"
      BY <1>0, <1>8 DEF TypeOK, AppendLine
    <3>2. PICK b \in Nat : files' = [files EXCEPT ![0] = Append1(@, b, lines)]
      BY <1>8, <2>2, <3>1 DEF AppendLine
    <3>3. open /\ lines' = lines /\ pc' = "idle"
      BY <1>8, <2>2 DEF AppendLine, Disable
    <3>4. /\ LinesOf(0)' = LinesOf(0) \cup {lines}
          /\ \A i \in Slots \ {0} : LinesOf(i)' = LinesOf(i)
          /\ InOrder' /\ Held' = Held \cup {lines}
      BY <1>0, <3>1, <3>2, <3>3, AppendHolds
    <3>5. \A i \in Slots : \A m \in LinesOf(i)' : m <= lines'
      BY <1>0, <3>3, <3>4 DEF OrderInv
    <3>. QED  BY <3>3, <3>4, <3>5 DEF OrderInv
  <2>. QED  BY <2>1, <2>2
<1>. QED
  BY <1>1, <1>2, <1>3, <1>4, <1>5, <1>6, <1>7, <1>8 DEF Next

LEMMA OrderInit == Init => OrderInv
<1>. SUFFICES ASSUME Init  PROVE OrderInv
  OBVIOUS
<1>1. \A i \in Slots : files[i].lines = <<>>
  BY DEF Init, None
<1>2. \A i \in Slots : LinesOf(i) = {}
  BY <1>1 DEF LinesOf
<1>. QED  BY <1>1, <1>2 DEF Init, OrderInv, InOrder

\* No step of Write, rotate or New, and no failure, restart or partial write, reorders the
\* lines or loses any but the oldest, for any number of backups and lines.
THEOREM LinesStayInOrder == Spec => OldestGoesFirst
<1>1. IInv /\ OrderInv /\ [Next]_vars =>
        [/\ InOrder'
         /\ \/ Held' = Held \cup {lines}
            \/ /\ Held' \subseteq Held
               /\ \A gone \in Held \ Held', kept \in Held' : gone < kept]_vars
  BY OrderStep DEF OrderInv, LosesOldest
<1>2. IInv /\ OrderInv /\ [Next]_vars => (IInv /\ OrderInv)'
  BY StepKeeps, OrderStep
<1>3. Init => IInv /\ OrderInv
  BY InitInv, OrderInit
<1>. QED  BY <1>1, <1>2, <1>3, PTL DEF Spec, OldestGoesFirst

-----------------------------------------------------------------------------
(* How long a write holds the log. *)

\* The calls of the operating system a write has before it.
CallsFrom(step, i) ==
  [idle |-> 0, append |-> 1, reopen |-> 2, shift |-> i + 3,
   remove |-> Backups + 3, close |-> Backups + 4][step]
CallsLeft == CallsFrom(pc, index)

\* A write never goes back: each step of it leaves fewer calls to make, so that
\* rotateWriter.mu is held for a bounded number of them, Backups + 4 at most.
BoundedWrite == [][pc # "idle" => CallsLeft' < CallsLeft]_vars

LEMMA CallsFacts ==
  ASSUME NEW i \in 0 .. Backups - 1
  PROVE  /\ CallsFrom("idle", i) = 0 /\ CallsFrom("append", i) = 1
         /\ CallsFrom("reopen", i) = 2 /\ CallsFrom("shift", i) = i + 3
         /\ CallsFrom("remove", i) = Backups + 3 /\ CallsFrom("close", i) = Backups + 4
BY DEF CallsFrom

\* logging.go:170-233: whatever fails, Write and rotate come to an end, for any number of
\* backups; none of their loops can start again.
THEOREM WritesAreBounded == Spec => BoundedWrite
<1>1. IInv /\ [Next]_vars => [pc # "idle" => CallsLeft' < CallsLeft]_vars
  <2>. SUFFICES ASSUME IInv, Next, pc # "idle", vars' # vars  PROVE CallsLeft' < CallsLeft
    BY DEF vars
  <2>. USE BackupsAssumption
  <2>1. /\ up /\ {index, index'} \subseteq 0 .. Backups - 1
        /\ pc \in {"close", "remove", "shift", "reopen", "append"}
    BY StepKeeps DEF IInv, StepInv, TypeOK
  <2>. USE CallsFacts DEF CallsLeft
  <2>2. pc' = "idle" => CallsLeft' < CallsLeft
    BY <2>1
  <2>3. CASE Start \/ Close \/ Crash \/ \E bytes \in Sizes : Write(bytes)
    BY <2>1, <2>2, <2>3 DEF Start, Close, Crash, Write
  <2>4. CASE CloseActive
    <3>1. pc = "close" /\ pc' \in {"remove", "idle"}
      BY <2>4 DEF CloseActive, Fails, Disable
    <3>. QED  BY <2>1, <2>2, <3>1
  <2>5. CASE RemoveOldest
    <3>1. pc = "remove" /\ pc' = "shift" /\ index' = Backups - 1
      BY <2>5 DEF RemoveOldest
    <3>. QED  BY <2>1, <3>1
  <2>6. CASE Shift
    <3>1. /\ pc = "shift"
          /\ \/ pc' = "idle" \/ pc' = "reopen"
             \/ pc' = "shift" /\ index' = index - 1
      BY <2>6 DEF Shift, Fails, Disable
    <3>. QED  BY <2>1, <2>2, <3>1
  <2>7. CASE Reopen
    <3>1. pc = "reopen" /\ pc' \in {"append", "idle"}
      BY <2>7 DEF Reopen, Fails, Disable
    <3>. QED  BY <2>1, <2>2, <3>1
  <2>8. CASE AppendLine
    <3>1. pc' = "idle"
      BY <2>8 DEF AppendLine, Fails, Disable
    <3>. QED  BY <2>2, <3>1
  <2>. QED  BY <2>3, <2>4, <2>5, <2>6, <2>7, <2>8 DEF Next
<1>. QED  BY LogInductive, <1>1, PTL DEF Spec, BoundedWrite

=============================================================================
