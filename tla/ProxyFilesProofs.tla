-------------------------- MODULE ProxyFilesProofs --------------------------
(***************************************************************************)
(* Theorems about the files of the proxy, for any personas and concurrent  *)
(* POSTs, any number of rotated files, any limit and any sizes of lines.   *)
(***************************************************************************)
EXTENDS ProxyFiles, TLAPS

LEMMA FilesFacts == Files \subseteq Nat /\ 0 \in Files /\ Gone \notin Files
  BY KeepAssumption, GoneAssumption DEF Files

(* What is in each file after a rotation, wherever renames fail.           *)
LEMMA AfterCases ==
    ASSUME NEW failing \in SUBSET Files, NEW j \in Files
    PROVE  \/ j > 0 /\ j - 1 \in Moves(failing) /\ After(failing)[j] = disk[j - 1]
           \/ j \in Moves(failing) /\ After(failing)[j] = NoFile
           \/ j \notin Moves(failing) /\ After(failing)[j] = disk[j]
  BY DEF After

LEMMA AfterType ==
    ASSUME disk \in [Files -> File], NEW failing \in SUBSET Files
    PROVE  After(failing) \in [Files -> File]
<1>1. NoFile \in File
  BY DEF NoFile, File
<1>2. \A j \in Files : j > 0 => j - 1 \in Files
  BY KeepAssumption DEF Files
<1>3. \A j \in Files : After(failing)[j] \in File
  BY <1>1, <1>2, AfterCases
<1> QED BY <1>3 DEF After

LEMMA OpenedType ==
    ASSUME NEW d \in [Files -> File]
    PROVE  /\ Opened(d) \in [Files -> File]
           /\ \A j \in Files : Opened(d)[j] = d[j] \/ (j = 0 /\ Opened(d)[j] = NewFile)
           /\ Opened(d)[0] = IF d[0].there THEN d[0] ELSE NewFile
<1>1. NewFile \in File
  BY DEF NewFile, File
<1> QED BY <1>1, FilesFacts DEF Opened

LEMMA AppendedType ==
    ASSUME NEW d \in [Files -> File], NEW k \in Files, NEW size \in Nat, count \in Nat
    PROVE  /\ Appended(d, k, size) \in [Files -> File]
           /\ \A j \in Files : j # k => Appended(d, k, size)[j] = d[j]
           /\ Appended(d, k, size)[k].there = TRUE
           /\ Appended(d, k, size)[k].lines = d[k].lines \cup {count + 1}
           /\ Appended(d, k, size)[k].size = d[k].size + size
<1>1. d[k].lines \cup {count + 1} \in SUBSET Nat /\ d[k].size + size \in Nat
  BY DEF File
<1> DEFINE f == [there |-> TRUE, lines |-> d[k].lines \cup {count + 1},
                 size  |-> d[k].size + size]
<1>2. f \in File /\ f.there = TRUE /\ f.lines = d[k].lines \cup {count + 1}
      /\ f.size = d[k].size + size
  BY <1>1 DEF File
<1>3. Appended(d, k, size) = [d EXCEPT ![k] = f]
  BY DEF Appended
<1> HIDE DEF f
<1> QED BY <1>2, <1>3

LEMMA HandleAfterType ==
    ASSUME handle \in Files \cup {Gone}, NEW failing \in SUBSET Files
    PROVE  HandleAfter(failing) \in Files \cup {Gone}
<1>1. \A j \in Files : j < Keep => j + 1 \in Files
  BY KeepAssumption DEF Files
<1>2. Moves(failing) \subseteq Files
  BY DEF Moves
<1> QED BY <1>1, <1>2 DEF HandleAfter

-----------------------------------------------------------------------------
LEMMA LogInitType == LogInit => LogTypeOK
<1>1. NewFile \in File /\ NoFile \in File
  BY DEF NewFile, NoFile, File
<1> QED BY <1>1, FilesFacts DEF LogInit, LogTypeOK

LEMMA SizesFacts == \A s \in Sizes : s \in Nat /\ s <= Limit
  BY SizesAssumption, KeepAssumption

LEMMA LogTypeStep == LogTypeOK /\ (LogStep \/ Reopen \/ UNCHANGED lvars) => LogTypeOK'
<1> SUFFICES ASSUME LogTypeOK, LogStep \/ Reopen \/ UNCHANGED lvars PROVE LogTypeOK'
  OBVIOUS
<1>0. Limit \in Nat
  BY KeepAssumption
<1>1. CASE \E size \in Sizes : Append(size)
  <2>1. PICK size \in Sizes : Append(size)
    BY <1>1
  <2>2. disk' \in [Files -> File]
    <3>1. CASE handle = Gone
      BY <2>1, <3>1 DEF Append, LogTypeOK
    <3>2. CASE handle # Gone
      BY <2>1, <3>2, AppendedType, SizesFacts DEF Append, LogTypeOK
    <3> QED BY <3>1, <3>2
  <2>3. written' \in Nat /\ count' \in Nat
    BY <2>1, SizesFacts DEF Append, LogTypeOK
  <2> QED BY <2>1, <2>2, <2>3 DEF Append, LogTypeOK
<1>2. ASSUME NEW failing \in SUBSET Files, Trouble(failing), NEW bad, Mishap(bad)
      PROVE  excess' \in Nat /\ gaps' \in BOOLEAN /\ mishaps' \in Nat
  BY <1>0, <1>2 DEF Trouble, Mishap, LogTypeOK
<1>3. CASE \E size \in Sizes, failing \in SUBSET Files : Rotate(size, failing)
  <2>1. PICK size \in Sizes, failing \in SUBSET Files : Rotate(size, failing)
    BY <1>3
  <2>2. Opened(After(failing)) \in [Files -> File]
    BY AfterType, OpenedType DEF LogTypeOK
  <2>3. disk' \in [Files -> File]
    BY <2>1, <2>2, AppendedType, FilesFacts, SizesFacts DEF Rotate, LogTypeOK
  <2>4. written' \in Nat /\ count' \in Nat /\ handle' \in Files
    BY <2>1, FilesFacts, SizesFacts DEF Rotate, LogTypeOK
  <2>5. Trouble(failing) /\ Mishap(failing # {})
    BY <2>1 DEF Rotate
  <2> QED BY <1>2, <2>3, <2>4, <2>5 DEF LogTypeOK
<1>4. CASE \E size \in Sizes, failing \in SUBSET Files : RotateFails(size, failing)
  <2>1. PICK size \in Sizes, failing \in SUBSET Files : RotateFails(size, failing)
    BY <1>4
  <2>2. disk' \in [Files -> File] /\ handle' \in Files \cup {Gone}
    BY <2>1, AfterType, OpenedType, HandleAfterType DEF RotateFails, LogTypeOK
  <2>3. Trouble(failing) /\ Mishap(TRUE) /\ UNCHANGED <<written, count>>
    BY <2>1 DEF RotateFails
  <2> QED BY <1>2, <2>2, <2>3 DEF LogTypeOK
<1>5. CASE Reopen
  <2>1. disk' \in [Files -> File] /\ disk'[0].size \in Nat
    BY <1>5, OpenedType, FilesFacts DEF Reopen, LogTypeOK, File
  <2> QED BY <1>5, <2>1, FilesFacts DEF Reopen, LogTypeOK
<1>6. CASE UNCHANGED lvars
  BY <1>6 DEF lvars, LogTypeOK
<1> QED BY <1>1, <1>3, <1>4, <1>5, <1>6 DEF LogStep

LEMMA FileInitType == PersonaFileInit => PersonaFileTypeOK
<1>1. Whole(Installed) \in [kind : {"whole", "empty", "torn"}, personas : SUBSET Personas,
                            length : Nat]
  BY ValidAssumption, LengthAssumption DEF Whole
<1> QED BY <1>1, ValidAssumption DEF PersonaFileInit, PersonaFileTypeOK, Steps

LEMMA FileTypeStep ==
    ASSUME PersonaFileTypeOK,
           (\E p \in Posts : PostStep(p)) \/ Crash \/ Start \/ UNCHANGED fvars
    PROVE  PersonaFileTypeOK'
<1> USE DEF PersonaFileTypeOK, Steps
<1>1. CASE \E p \in Posts : PostStep(p)
  <2>1. PICK p \in Posts : PostStep(p)
    BY <1>1
  <2>2. CASE SyncPersonas(p)
    BY <2>2 DEF SyncPersonas, HandlePersonasSync, Step
  <2>3. CASE Truncate(p)
    BY <2>3 DEF Truncate, Step
  <2>4. CASE Write(p)
    BY <2>4, LengthAssumption DEF Write, Whole, Step
  <2>5. CASE WriteFails(p)
    <3>1. saving' \in [Posts -> Steps] /\ content' \in [Posts -> SUBSET Personas]
          /\ UNCHANGED <<up, last>>
      BY <2>5 DEF WriteFails, Step
    <3>2. file' \in [kind : {"whole", "empty", "torn"}, personas : SUBSET Personas,
                     length : Nat]
      BY <2>5 DEF WriteFails
    <3>3. damaged' \in BOOLEAN
      BY <2>5 DEF WriteFails
    <3> QED BY <3>1, <3>2, <3>3
  <2>6. CASE Protect(p)
    BY <2>6 DEF Protect, Step
  <2> QED BY <2>1, <2>2, <2>3, <2>4, <2>5, <2>6 DEF PostStep
<1>2. CASE Crash
  BY <1>2 DEF Crash
<1>3. CASE Start \/ UNCHANGED fvars
  BY <1>3 DEF Start, fvars
<1> QED BY <1>1, <1>2, <1>3

LEMMA Split ==
    ASSUME [FilesNext]_filesVars
    PROVE  /\ (\E p \in Posts : PostStep(p)) \/ Crash \/ Start \/ UNCHANGED fvars
           /\ LogStep \/ Reopen \/ UNCHANGED lvars
  BY DEF FilesNext, filesVars

(* Both files of the proxy, its handlers and the writer of the log keep    *)
(* their types (proxy.rs:184-267, persona.rs:72-90, logging.rs:54-104).    *)
THEOREM FilesTypeCorrect == FilesSpec => []FilesTypeOK
<1>1. FilesInit => FilesTypeOK
  BY LogInitType, FileInitType DEF FilesInit, FilesTypeOK
<1>2. FilesTypeOK /\ [FilesNext]_filesVars => FilesTypeOK'
  BY Split, LogTypeStep, FileTypeStep DEF FilesTypeOK
<1> QED BY <1>1, <1>2, PTL DEF FilesSpec

-----------------------------------------------------------------------------
(* The personas file: at most one write is under way in an undamaged file, *)
(* and it finds the file empty.                                            *)
Writing == {p \in Posts : saving[p] = "write"}

FileInv ==
    ~damaged =>
        /\ \A p, q \in Writing : p = q
        /\ Writing # {} => file.length = 0
        /\ Writing = {} => file = Whole(last)

LEMMA FileStep ==
    ASSUME PersonaFileTypeOK, FileInv,
           (\E p \in Posts : PostStep(p)) \/ Crash \/ Start \/ UNCHANGED fvars
    PROVE  FileInv'
<1>0. /\ saving \in [Posts -> Steps] /\ content \in [Posts -> SUBSET Personas]
      /\ file.length \in Nat
  BY DEF PersonaFileTypeOK
<1>1. CASE \E p \in Posts : PostStep(p)
  <2>1. PICK p \in Posts : PostStep(p)
    BY <1>1
  <2>2. CASE SyncPersonas(p) \/ Protect(p)
    <3>1. Writing' = Writing /\ UNCHANGED <<file, last, damaged>>
      BY <1>0, <2>2 DEF SyncPersonas, HandlePersonasSync, Protect, Step, Writing
    <3> QED BY <3>1 DEF FileInv, Whole
  <2>3. CASE Truncate(p)
    <3>1. /\ Writing' = Writing \cup {p} /\ file'.length = 0
          /\ damaged' <=> Writing \ {p} # {}
      BY <1>0, <2>3 DEF Truncate, Step, Writing
    <3> QED BY <3>1 DEF FileInv
  <2>4. CASE Write(p)
    <3>1. Writing' = Writing \ {p} /\ p \in Writing /\ last' = content[p] /\ damaged' = damaged
      BY <1>0, <2>4 DEF Write, Step, Writing
    <3>2. CASE ~damaged
      <4>1. Writing' = {} /\ file.length = 0
        BY <3>1, <3>2 DEF FileInv
      <4>2. Length[content[p]] \in Nat
        BY <1>0, LengthAssumption
      <4>3. file' = Whole(content[p])
        BY <2>4, <4>1, <4>2 DEF Write
      <4>4. Whole(last)' = Whole(content[p])
        BY <3>1 DEF Whole
      <4> QED BY <4>1, <4>3, <4>4 DEF FileInv
    <3> QED BY <3>1, <3>2 DEF FileInv
  <2>5. CASE WriteFails(p)
    <3>1. CASE saving[p] = "write"
      BY <2>5, <3>1 DEF WriteFails, FileInv
    <3>2. CASE saving[p] # "write"
      <4>1. Writing' = Writing /\ UNCHANGED <<file, last, damaged>>
        BY <1>0, <2>5, <3>2 DEF WriteFails, Step, Writing
      <4> QED BY <4>1 DEF FileInv, Whole
    <3> QED BY <3>1, <3>2
  <2> QED BY <2>1, <2>2, <2>3, <2>4, <2>5 DEF PostStep
<1>2. CASE Crash
  <2>1. Writing' = {} /\ UNCHANGED <<file, last>> /\ (damaged' <=> damaged \/ Writing # {})
    BY <1>2 DEF Crash, Writing
  <2> QED BY <2>1 DEF FileInv, Whole
<1>3. CASE Start \/ UNCHANGED fvars
  BY <1>3 DEF Start, fvars, FileInv, Writing, Whole
<1> QED BY <1>1, <1>2, <1>3

(* For any number of concurrent POSTs, any crash and any full disk, the    *)
(* personas file is whole and is the last one written, unless a write was  *)
(* cut short or met another (persona.rs:72-90).                            *)
THEOREM FileIsLastHolds == FilesSpec => []FileIsLast
<1>1. FilesInit => FileInv
  BY DEF FilesInit, PersonaFileInit, FileInv, Writing
<1>2. FilesTypeOK /\ FileInv /\ [FilesNext]_filesVars => FileInv'
  BY Split, FileStep DEF FilesTypeOK
<1>3. FileInv => FileIsLast
  BY DEF FileInv, FileIsLast, Writing
<1> QED BY <1>1, <1>2, <1>3, FilesTypeCorrect, PTL DEF FilesSpec

-----------------------------------------------------------------------------
(* The log.  What the writer counts is at most what is in its file, but    *)
(* for the times it could not be renamed; the lines in the files before    *)
(* the one it writes to are none.                                          *)
SizesInv ==
    /\ written <= Limit + excess
    /\ \A j \in Files : disk[j].size <= Limit + excess
    /\ handle # Gone => disk[handle].size <= written + excess

AgesInv ==
    /\ NewestFirst
    /\ \A j \in Files : \A n \in disk[j].lines : n <= count
    /\ handle # Gone => \A i \in Files : i < handle => disk[i].lines = {}

(* A rotation leaves sizes and ages as they were.                          *)
LEMMA RotationSizes ==
    ASSUME LogTypeOK, SizesInv, NEW failing \in SUBSET Files, Trouble(failing)
    PROVE  /\ excess' \in Nat /\ excess <= excess'
           /\ \A j \in Files : After(failing)[j].size <= Limit + excess
           /\ \A j \in Files : Opened(After(failing))[j].size <= Limit + excess
           /\ Opened(After(failing))[0].size <= excess'
           /\ LET h == HandleAfter(failing) IN
              h # Gone => /\ After(failing)[h].size <= written + excess
                          /\ Opened(After(failing))[h].size <= written + excess
<1>0. /\ Limit \in Nat /\ excess \in Nat /\ written \in Nat /\ Moves(failing) \subseteq Files
      /\ \A j \in Files : disk[j].size \in Nat
  BY KeepAssumption DEF LogTypeOK, File, Moves
<1>1. excess' \in Nat /\ excess <= excess'
  BY <1>0 DEF Trouble
<1>2. NoFile.size = 0 /\ NewFile.size = 0 /\ ~NoFile.there
  BY DEF NoFile, NewFile
<1>3. \A j \in Files : After(failing)[j].size <= Limit + excess
  <2> SUFFICES ASSUME NEW j \in Files PROVE After(failing)[j].size <= Limit + excess
    OBVIOUS
  <2> QED BY <1>0, <1>2, AfterCases DEF SizesInv
<1>4. /\ \A j \in Files : \/ Opened(After(failing))[j] = After(failing)[j]
                          \/ j = 0 /\ Opened(After(failing))[j] = NewFile
      /\ Opened(After(failing))[0] =
             IF After(failing)[0].there THEN After(failing)[0] ELSE NewFile
  BY AfterType, OpenedType DEF LogTypeOK
<1>5. \A j \in Files : Opened(After(failing))[j].size <= Limit + excess
  BY <1>0, <1>2, <1>3, <1>4
<1>6. Opened(After(failing))[0].size <= excess'
  <2>1. (After(failing)[0] = disk[0] /\ 0 \notin Moves(failing)) \/ After(failing)[0] = NoFile
    BY <1>0, FilesFacts, AfterCases
  <2>2. CASE 0 \in failing /\ disk[0].there
    <3>1. excess' = excess + Limit
      BY <2>2 DEF Trouble
    <3>2. Opened(After(failing))[0].size <= Limit + excess
      BY <1>5, FilesFacts
    <3>3. Opened(After(failing))[0].size \in Nat
      BY FilesFacts, AfterType, OpenedType DEF LogTypeOK, File
    <3> QED BY <1>0, <3>1, <3>2, <3>3
  <2>3. CASE ~(0 \in failing /\ disk[0].there)
    <3>1. ~After(failing)[0].there
      BY <1>2, <2>1, <2>3, FilesFacts DEF Moves
    <3>2. Opened(After(failing))[0].size = 0
      BY <1>2, <1>4, <3>1
    <3> QED BY <1>1, <3>2
  <2> QED BY <2>2, <2>3
<1>7. ASSUME HandleAfter(failing) # Gone
      PROVE  /\ HandleAfter(failing) \in Files
             /\ After(failing)[HandleAfter(failing)].size <= written + excess
  <2>1. handle \in Files /\ Keep \in Nat
    BY <1>0, <1>7, KeepAssumption DEF HandleAfter, LogTypeOK
  <2>2. CASE handle \in Moves(failing)
    <3>1. handle < Keep /\ HandleAfter(failing) = handle + 1 /\ handle + 1 \in Files
      <4>1. handle < Keep /\ HandleAfter(failing) = handle + 1
        BY <1>7, <2>2 DEF HandleAfter
      <4> QED BY <2>1, <4>1 DEF Files
    <3>2. After(failing)[handle + 1] = disk[handle]
      BY <2>1, <2>2, <3>1 DEF After, Files
    <3>3. disk[handle].size <= written + excess
      BY <2>1, FilesFacts DEF SizesInv
    <3> QED BY <3>1, <3>2, <3>3
  <2>3. CASE handle \notin Moves(failing)
    <3>1. HandleAfter(failing) = handle /\ ~(handle > 0 /\ handle - 1 \in Moves(failing))
      BY <1>7, <2>1, <2>3, GoneAssumption DEF HandleAfter, Files
    <3>2. After(failing)[handle] = disk[handle]
      BY <2>1, <2>3, <3>1 DEF After
    <3> QED BY <1>7, <2>1, <3>1, <3>2 DEF SizesInv
  <2> QED BY <2>2, <2>3
<1>8. HandleAfter(failing) # Gone =>
          Opened(After(failing))[HandleAfter(failing)].size <= written + excess
  BY <1>0, <1>2, <1>4, <1>7
<1> QED BY <1>1, <1>3, <1>5, <1>6, <1>7, <1>8

LEMMA SizesStep ==
    ASSUME LogTypeOK, SizesInv, LogStep \/ Reopen \/ UNCHANGED lvars
    PROVE  SizesInv'
<1>0. /\ Limit \in Nat /\ excess \in Nat /\ written \in Nat
      /\ \A j \in Files : disk[j].size \in Nat
      /\ disk \in [Files -> File] /\ count \in Nat
  BY KeepAssumption DEF LogTypeOK, File
<1>1. CASE \E size \in Sizes : Append(size)
  <2>1. PICK size \in Sizes : Append(size)
    BY <1>1
  <2>2. size \in Nat /\ written' = written + size /\ written + size <= Limit
        /\ UNCHANGED <<handle, excess>>
    BY <2>1, SizesFacts DEF Append, Fits
  <2>3. CASE handle = Gone
    BY <1>0, <2>1, <2>2, <2>3 DEF Append, SizesInv
  <2>4. CASE handle # Gone
    <3>1. handle \in Files /\ disk' = Appended(disk, handle, size)
      BY <2>1, <2>4 DEF Append, LogTypeOK
    <3>2. /\ \A j \in Files : j # handle => disk'[j] = disk[j]
          /\ disk'[handle].size = disk[handle].size + size
      <4>1. disk \in [Files -> File] /\ handle \in Files /\ size \in Nat /\ count \in Nat
        BY <1>0, <2>2, <3>1
      <4>2. /\ \A j \in Files : j # handle => Appended(disk, handle, size)[j] = disk[j]
            /\ Appended(disk, handle, size)[handle].size = disk[handle].size + size
        BY <4>1, AppendedType
      <4> QED BY <3>1, <4>2
    <3>3. disk[handle].size <= written + excess
      BY <2>4 DEF SizesInv
    <3>4. PICK w \in Nat, n \in Nat : w = written' /\ n = disk'[handle].size
      BY <1>0, <2>2, <3>1, <3>2
    <3>5. w <= Limit + excess /\ n <= w + excess /\ n <= Limit + excess
      BY <1>0, <2>2, <3>1, <3>2, <3>3, <3>4
    <3> QED BY <2>2, <3>2, <3>4, <3>5 DEF SizesInv
  <2> QED BY <2>3, <2>4
<1>2. CASE \E size \in Sizes, failing \in SUBSET Files : Rotate(size, failing)
  <2>1. PICK size \in Sizes, failing \in SUBSET Files : Rotate(size, failing)
    BY <1>2
  <2>2. PICK e \in Nat : e = excess' /\ excess <= e
    BY <2>1, RotationSizes DEF Rotate
  <2>2a. excess <= e
    BY <2>2
  <2>3. PICK d \in [Files -> File] : d = Opened(After(failing))
    BY AfterType, OpenedType DEF LogTypeOK
  <2>4. /\ \A j \in Files : d[j].size \in Nat
        /\ \A j \in Files : d[j].size <= Limit + excess
        /\ d[0].size <= e
    BY <2>1, <2>2, <2>3, RotationSizes DEF Rotate, File
  <2>5. /\ disk' = Appended(d, 0, size) /\ handle' = 0 /\ written' = size
        /\ size \in Nat /\ size <= Limit
    BY <2>1, <2>3, SizesFacts DEF Rotate
  <2>6. /\ \A j \in Files : j # 0 => disk'[j] = d[j]
        /\ disk'[0].size = d[0].size + size
    <3>1. 0 \in Files /\ size \in Nat /\ count \in Nat
      BY <1>0, <2>5, FilesFacts
    <3>2. /\ \A j \in Files : j # 0 => Appended(d, 0, size)[j] = d[j]
          /\ Appended(d, 0, size)[0].size = d[0].size + size
      BY <3>1, AppendedType
    <3> QED BY <2>5, <3>2
  <2>7. PICK n \in Nat : n = disk'[0].size /\ n <= e + size
    <3>1. size \in Nat /\ d[0].size \in Nat /\ d[0].size <= e
      BY <2>4, <2>5, FilesFacts
    <3>2. d[0].size + size \in Nat /\ d[0].size + size <= e + size
      BY <3>1
    <3> QED BY <2>6, <3>2
  <2>8. \A j \in Files : disk'[j].size <= Limit + e
    <3> SUFFICES ASSUME NEW j \in Files PROVE disk'[j].size <= Limit + e
      OBVIOUS
    <3>1. CASE j = 0
      BY <1>0, <2>5, <2>7, <3>1
    <3>2. CASE j # 0
      BY <1>0, <2>2a, <2>4, <2>6, <3>2
    <3> QED BY <3>1, <3>2
  <2>9. size <= Limit + e /\ n <= size + e
    <3>1. size \in Nat /\ size <= Limit /\ n <= e + size
      BY <2>5, <2>7
    <3> QED BY <1>0, <3>1
  <2> QED BY <2>2, <2>5, <2>7, <2>8, <2>9 DEF SizesInv
<1>3. CASE \E size \in Sizes, failing \in SUBSET Files : RotateFails(size, failing)
  <2>1. PICK size \in Sizes, failing \in SUBSET Files : RotateFails(size, failing)
    BY <1>3
  <2>2. PICK e \in Nat : e = excess' /\ excess <= e
    BY <2>1, RotationSizes DEF RotateFails
  <2>2a. excess <= e
    BY <2>2
  <2>3. PICK d \in {After(failing), Opened(After(failing))} : d = disk'
    BY <2>1 DEF RotateFails
  <2>4. d \in [Files -> File] /\ \A j \in Files : d[j].size \in Nat
    BY <2>3, AfterType, OpenedType DEF LogTypeOK, File
  <2>5. /\ \A j \in Files : d[j].size <= Limit + excess
        /\ handle' # Gone => d[handle'].size <= written + excess
    BY <2>1, <2>3, RotationSizes DEF RotateFails
  <2>6. PICK h \in Files \cup {Gone} : h = handle'
    BY <2>1, HandleAfterType DEF RotateFails, LogTypeOK
  <2>7. /\ \A j \in Files : d[j].size <= Limit + e
        /\ h # Gone => d[h].size <= written + e
        /\ written <= Limit + e
    <3>1. \A j \in Files : d[j].size <= Limit + e
      BY <1>0, <2>2a, <2>4, <2>5
    <3>2. h # Gone => d[h].size <= written + e
      BY <1>0, <2>2a, <2>4, <2>5, <2>6
    <3>3. written <= Limit + e
      <4>1. written <= Limit + excess
        BY DEF SizesInv
      <4> QED BY <1>0, <2>2a, <4>1
    <3> QED BY <3>1, <3>2, <3>3
  <2> QED BY <2>1, <2>2, <2>3, <2>6, <2>7 DEF RotateFails, SizesInv
<1>4. CASE Reopen
  <2>1. /\ disk' = Opened(disk) /\ handle' = 0 /\ written' = disk'[0].size
        /\ UNCHANGED excess
    BY <1>4 DEF Reopen
  <2>2. \A j \in Files : disk'[j] = disk[j] \/ disk'[j] = NewFile
    BY <1>0, <2>1, OpenedType
  <2>3. NewFile.size = 0
    BY DEF NewFile
  <2>4. \A j \in Files : disk'[j].size \in Nat /\ disk'[j].size <= Limit + excess
    BY <1>0, <2>2, <2>3 DEF SizesInv
  <2>5. disk'[0].size <= disk'[0].size + excess
    BY <1>0, <2>4, FilesFacts
  <2> QED BY <2>1, <2>4, <2>5, FilesFacts DEF SizesInv
<1>5. CASE UNCHANGED lvars
  BY <1>5 DEF lvars, SizesInv
<1> QED BY <1>1, <1>2, <1>3, <1>4, <1>5 DEF LogStep

(* For any number of files, any limit and any mix of lines, restarts and   *)
(* failing renames, no file of the log exceeds the limit by more than one  *)
(* limit for each time it could not be renamed (logging.rs:69-97).         *)
THEOREM FilesBoundedHolds == FilesSpec => []FilesBounded
<1>1. FilesInit => SizesInv
  BY KeepAssumption, FilesFacts DEF FilesInit, LogInit, SizesInv, NoFile, NewFile
<1>2. FilesTypeOK /\ SizesInv /\ [FilesNext]_filesVars => SizesInv'
  BY Split, SizesStep DEF FilesTypeOK
<1>3. SizesInv => FilesBounded
  BY DEF SizesInv, FilesBounded
<1> QED BY <1>1, <1>2, <1>3, FilesTypeCorrect, PTL DEF FilesSpec

-----------------------------------------------------------------------------
(* The lines of a file after a rotation come from it or from the file      *)
(* before, and never two files have theirs from one.                       *)
LEMMA LinesAfter ==
    ASSUME LogTypeOK, NEW failing \in SUBSET Files
    PROVE  \A j \in Files :
               \/ /\ j > 0 /\ j - 1 \in Files /\ j - 1 \in Moves(failing)
                  /\ After(failing)[j].lines = disk[j - 1].lines
               \/ After(failing)[j].lines = {}
               \/ j \notin Moves(failing) /\ After(failing)[j].lines = disk[j].lines
<1>1. NoFile.lines = {} /\ Moves(failing) \subseteq Files
  BY DEF NoFile, Moves
<1> QED BY <1>1, AfterCases

LEMMA OpenedLines ==
    ASSUME NEW d \in [Files -> File], NEW j \in Files
    PROVE  Opened(d)[j].lines = d[j].lines \/ Opened(d)[j].lines = {}
<1>1. NewFile.lines = {}
  BY DEF NewFile
<1> QED BY <1>1, OpenedType

LEMMA AppendedLines ==
    ASSUME NEW d \in [Files -> File], NEW k \in Files, NEW size \in Nat, count \in Nat
    PROVE  \A j \in Files :
               Appended(d, k, size)[j].lines =
                   IF j = k THEN d[k].lines \cup {count + 1} ELSE d[j].lines
<1>1. \A j \in Files : j # k => Appended(d, k, size)[j] = d[j]
  BY AppendedType
<1> DEFINE f == [there |-> TRUE, lines |-> d[k].lines \cup {count + 1},
                 size  |-> d[k].size + size]
<1>2. Appended(d, k, size)[k] = f
  BY DEF Appended
<1>3. f.lines = d[k].lines \cup {count + 1}
  OBVIOUS
<1> QED BY <1>1, <1>2, <1>3

(* So it keeps the files in the order of their age.                        *)
LEMMA RotationAges ==
    ASSUME LogTypeOK, AgesInv, NEW failing \in SUBSET Files, NEW d \in [Files -> File],
           d = After(failing) \/ d = Opened(After(failing))
    PROVE  /\ \A i, j \in Files : i < j => \A m \in d[i].lines, n \in d[j].lines : m > n
           /\ \A j \in Files : \A n \in d[j].lines : n <= count
           /\ HandleAfter(failing) # Gone =>
                  \A i \in Files : i < HandleAfter(failing) => d[i].lines = {}
<1>1. \A j \in Files : d[j].lines = After(failing)[j].lines \/ d[j].lines = {}
  BY AfterType, OpenedLines DEF LogTypeOK
<1>2. \A j \in Files :
          \/ /\ j > 0 /\ j - 1 \in Files /\ j - 1 \in Moves(failing)
             /\ d[j].lines = disk[j - 1].lines
          \/ d[j].lines = {}
          \/ j \notin Moves(failing) /\ d[j].lines = disk[j].lines
  BY <1>1, LinesAfter
<1>3. \A i, j \in Files : i < j => \A m \in disk[i].lines, n \in disk[j].lines : m > n
  BY DEF AgesInv, NewestFirst
<1>4. ASSUME NEW i \in Files, NEW j \in Files, i < j,
             NEW m \in d[i].lines, NEW n \in d[j].lines
      PROVE  m > n
  <2>1. i \in Int /\ j \in Int
    BY FilesFacts
  <2>2. PICK k \in Files : /\ m \in disk[k].lines /\ k \in {i, i - 1}
                           /\ k = i => i \notin Moves(failing)
    <3>1. \/ i \notin Moves(failing) /\ d[i].lines = disk[i].lines
          \/ i - 1 \in Files /\ i - 1 # i /\ d[i].lines = disk[i - 1].lines
      BY <1>2, <2>1
    <3> QED BY <3>1
  <2> QED BY <1>2, <1>3, <1>4, <2>1, <2>2
<1>5. \A j \in Files : \A n \in d[j].lines : n <= count
  BY <1>2 DEF AgesInv
<1>6. ASSUME HandleAfter(failing) # Gone, NEW i \in Files, i < HandleAfter(failing)
      PROVE  d[i].lines = {}
  <2>1. handle \in Files /\ i \in Int /\ handle \in Int
    BY <1>6, FilesFacts DEF HandleAfter, LogTypeOK, Moves
  <2>2. \A k \in Files : k < handle => disk[k].lines = {}
    BY <2>1, FilesFacts DEF AgesInv
  <2>3. (HandleAfter(failing) = handle + 1 /\ handle \in Moves(failing))
        \/ HandleAfter(failing) = handle
    BY <1>6 DEF HandleAfter
  <2> QED BY <1>2, <1>6, <2>1, <2>2, <2>3
<1> QED BY <1>4, <1>5, <1>6

LEMMA AgesStep ==
    ASSUME LogTypeOK, AgesInv, LogStep \/ Reopen \/ UNCHANGED lvars
    PROVE  AgesInv'
<1>0. /\ disk \in [Files -> File] /\ count \in Nat /\ handle \in Files \cup {Gone}
      /\ \A j \in Files : disk[j].lines \subseteq Nat
      /\ \A i \in Files : i \in Int
  BY FilesFacts DEF LogTypeOK, File
<1>1. ASSUME NEW d \in [Files -> File], NEW k \in Files, NEW size \in Nat,
             disk' = Appended(d, k, size), count' = count + 1, handle' = k,
             \A i, j \in Files : i < j => \A m \in d[i].lines, n \in d[j].lines : m > n,
             \A j \in Files : \A n \in d[j].lines : n <= count,
             \A i \in Files : i < k => d[i].lines = {}
      PROVE  AgesInv'
  <2> DEFINE e == Appended(d, k, size)
  <2>1. \A j \in Files :
            e[j].lines = IF j = k THEN d[k].lines \cup {count + 1} ELSE d[j].lines
    <3>1. count \in Nat
      BY <1>0
    <3> QED BY <3>1, AppendedLines
  <2> HIDE DEF e
  <2>2. \A j \in Files : d[j].lines \subseteq Nat
    BY DEF File
  <2>3. \A i, j \in Files : i < j => \A m \in e[i].lines, n \in e[j].lines : m > n
    <3> SUFFICES ASSUME NEW i \in Files, NEW j \in Files, i < j,
                        NEW m \in e[i].lines, NEW n \in e[j].lines
                 PROVE  m > n
      OBVIOUS
    <3>1. j # k
      BY <1>0, <1>1, <2>1
    <3>2. n \in d[j].lines /\ n <= count /\ n \in Nat
      BY <1>1, <2>1, <2>2, <3>1
    <3>3. m \in d[i].lines \/ m = count + 1
      BY <2>1
    <3> QED BY <1>0, <1>1, <3>2, <3>3
  <2>4. \A j \in Files : \A n \in e[j].lines : n <= count + 1
    BY <1>0, <1>1, <2>1, <2>2
  <2>5. \A i \in Files : i < k => e[i].lines = {}
    BY <1>0, <1>1, <2>1
  <2>6. disk' = e
    BY <1>1 DEF e
  <2> QED BY <1>1, <2>3, <2>4, <2>5, <2>6 DEF AgesInv, NewestFirst
<1>2. CASE \E size \in Sizes : Append(size)
  <2>1. PICK size \in Sizes : Append(size)
    BY <1>2
  <2>2. size \in Nat /\ count' = count + 1 /\ handle' = handle
    BY <2>1, SizesFacts DEF Append
  <2>3. CASE handle = Gone
    <3>1. disk' = disk
      BY <2>1, <2>3 DEF Append
    <3>2. \A j \in Files : \A n \in disk[j].lines : n <= count + 1
      BY <1>0 DEF AgesInv
    <3> QED BY <2>2, <2>3, <3>1, <3>2 DEF AgesInv, NewestFirst
  <2>4. CASE handle # Gone
    <3>1. disk' = Appended(disk, handle, size) /\ handle \in Files
      BY <1>0, <2>1, <2>4 DEF Append
    <3>2. \A i \in Files : i < handle => disk[i].lines = {}
      BY <2>4 DEF AgesInv
    <3> QED BY <1>0, <1>1, <2>2, <3>1, <3>2 DEF AgesInv, NewestFirst
  <2> QED BY <2>3, <2>4
<1>3. CASE \E size \in Sizes, failing \in SUBSET Files : Rotate(size, failing)
  <2>1. PICK size \in Sizes, failing \in SUBSET Files : Rotate(size, failing)
    BY <1>3
  <2>2. PICK d \in [Files -> File] : d = Opened(After(failing))
    BY <1>0, AfterType, OpenedType
  <2>3. /\ \A i, j \in Files : i < j => \A m \in d[i].lines, n \in d[j].lines : m > n
        /\ \A j \in Files : \A n \in d[j].lines : n <= count
    BY <2>2, RotationAges
  <2>4. /\ disk' = Appended(d, 0, size) /\ size \in Nat /\ count' = count + 1
        /\ handle' = 0 /\ 0 \in Files /\ \A i \in Files : ~(i < 0)
    BY <2>1, <2>2, SizesFacts, FilesFacts DEF Rotate
  <2> QED BY <1>1, <2>3, <2>4
<1>4. CASE \E size \in Sizes, failing \in SUBSET Files : RotateFails(size, failing)
  <2>1. PICK size \in Sizes, failing \in SUBSET Files : RotateFails(size, failing)
    BY <1>4
  <2>2. PICK d \in [Files -> File] :
            d = disk' /\ (d = After(failing) \/ d = Opened(After(failing)))
    BY <1>0, <2>1, AfterType, OpenedType DEF RotateFails
  <2>3. handle' = HandleAfter(failing) /\ count' = count
    BY <2>1 DEF RotateFails
  <2> QED BY <2>2, <2>3, RotationAges DEF AgesInv, NewestFirst
<1>5. CASE Reopen
  <2>1. disk' = Opened(disk) /\ handle' = 0 /\ count' = count
    BY <1>5 DEF Reopen
  <2>2. \A j \in Files : disk'[j].lines = disk[j].lines \/ disk'[j].lines = {}
    BY <1>0, <2>1, OpenedLines
  <2>3. \A i \in Files : ~(i < 0)
    BY FilesFacts
  <2> QED BY <2>1, <2>2, <2>3 DEF AgesInv, NewestFirst
<1>6. CASE UNCHANGED lvars
  BY <1>6 DEF lvars, AgesInv, NewestFirst
<1> QED BY <1>2, <1>3, <1>4, <1>5, <1>6 DEF LogStep

(* For any number of files, and wherever renames or the opening fail, a    *)
(* file of the log holds only newer lines than the files after it.         *)
THEOREM NewestFirstHolds == FilesSpec => []NewestFirst
<1>1. FilesInit => AgesInv
  BY FilesFacts DEF FilesInit, LogInit, AgesInv, NewestFirst, NoFile, NewFile
<1>2. FilesTypeOK /\ AgesInv /\ [FilesNext]_filesVars => AgesInv'
  BY Split, AgesStep DEF FilesTypeOK
<1>3. AgesInv => NewestFirst
  BY DEF AgesInv
<1> QED BY <1>1, <1>2, <1>3, FilesTypeCorrect, PTL DEF FilesSpec

-----------------------------------------------------------------------------
(* Which lines are missing: none between those on disk, as long as no      *)
(* rename failed; and without any mishap the files are those up to one.    *)
Contiguous(d, c) ==
    \A j \in Files : \A n \in d[j].lines :
        \A m \in n .. c : \E i \in 0 .. j : m \in d[i].lines

KeptInv ==
    /\ \A j \in Files : ~disk[j].there => disk[j].lines = {}
    /\ ~gaps => Contiguous(disk, count)

Adds(d, k, e) ==
    \A j \in Files :
        e[j].lines = IF j = k THEN d[k].lines \cup {count + 1} ELSE d[j].lines

FilledInv ==
    mishaps = 0 =>
        /\ handle = 0 /\ ~gaps /\ disk[0].there
        /\ \A i, j \in Files : i <= j /\ disk[j].there => disk[i].there
        /\ count > 0 /\ (\A j \in Files : 1 \notin disk[j].lines) =>
               \A j \in Files : disk[j].there

LEMMA ShiftKeeps ==
    ASSUME LogTypeOK, KeptInv, ~gaps, NEW d \in [Files -> File],
           d = After({}) \/ d = Opened(After({}))
    PROVE  Contiguous(d, count)
<1> SUFFICES ASSUME NEW j \in Files, NEW n \in d[j].lines, NEW m \in n .. count
             PROVE  \E i \in 0 .. j : m \in d[i].lines
  BY DEF Contiguous
<1>0. /\ \A k \in Files : k \in Nat
      /\ \A k \in Files, i \in Nat : i <= k => i \in Files
      /\ \A k \in Files : disk[k].lines \subseteq Nat
      /\ count \in Nat
  BY KeepAssumption DEF Files, LogTypeOK, File
<1>1. n \in After({})[j].lines
  BY AfterType, OpenedLines DEF LogTypeOK
<1>2. \A k \in Files : k \notin Moves({}) => disk[k].lines = {}
  BY DEF Moves, KeptInv
<1>3. j > 0 /\ j - 1 \in Files /\ n \in disk[j - 1].lines
  BY <1>1, <1>2, LinesAfter
<1>4. PICK i \in 0 .. (j - 1) : m \in disk[i].lines
  BY <1>3 DEF KeptInv, Contiguous
<1>5. i \in Files /\ i + 1 \in Files /\ i + 1 \in 0 .. j /\ i + 1 # 0 /\ (i + 1) - 1 = i
  BY <1>0, <1>3
<1>6. i \in Moves({})
  BY <1>2, <1>4, <1>5
<1>7. After({})[i + 1] = disk[i]
  BY <1>5, <1>6 DEF After
<1>8. d[i + 1] = After({})[i + 1]
  BY <1>5, AfterType, OpenedType DEF LogTypeOK
<1> QED BY <1>4, <1>5, <1>7, <1>8

(* A line appended to the file after which there is nothing newer.         *)
LEMMA AppendKeeps ==
    ASSUME count \in Nat, NEW d \in [Files -> File], NEW k \in Files,
           \A i \in Files : i < k => d[i].lines = {},
           NEW e \in [Files -> File], Adds(d, k, e), Contiguous(d, count)
    PROVE  Contiguous(e, count + 1)
<1> SUFFICES ASSUME NEW j \in Files, NEW n \in e[j].lines, NEW m \in n .. (count + 1)
             PROVE  \E i \in 0 .. j : m \in e[i].lines
  BY DEF Contiguous
<1>0. /\ \A i \in Files : i \in Nat
      /\ \A i \in Nat : i <= j => i \in Files
      /\ \A i \in Files : d[i].lines \subseteq Nat
  BY KeepAssumption DEF Files, File
<1>1. \A i \in Files :
          e[i].lines = IF i = k THEN d[k].lines \cup {count + 1} ELSE d[i].lines
  BY DEF Adds
<1>2. CASE m = count + 1
  <2>1. k <= j
    BY <1>0, <1>1
  <2>2. k \in 0 .. j /\ m \in e[k].lines
    BY <1>0, <1>1, <1>2, <2>1
  <2> QED BY <2>2
<1>3. CASE m # count + 1
  <2>1. n \in d[j].lines /\ m \in n .. count
    BY <1>0, <1>1, <1>3
  <2>2. PICK i \in 0 .. j : m \in d[i].lines
    BY <2>1 DEF Contiguous
  <2>3. i \in Files
    BY <1>0
  <2> QED BY <1>1, <2>2, <2>3
<1> QED BY <1>2, <1>3

LEMMA ThereAfter ==
    ASSUME LogTypeOK, KeptInv, NEW failing \in SUBSET Files, NEW d \in [Files -> File],
           d = After(failing) \/ d = Opened(After(failing))
    PROVE  \A j \in Files : ~d[j].there => d[j].lines = {}
<1>1. /\ NoFile.lines = {} /\ NewFile.there /\ Moves(failing) \subseteq Files
      /\ \A j \in Files : d[j] = After(failing)[j] \/ d[j] = NewFile
  BY AfterType, OpenedType DEF LogTypeOK, NoFile, NewFile, Moves
<1>2. \A j \in Files : j \notin Moves(failing) \/ disk[j].there
  BY DEF Moves
<1> QED BY <1>1, <1>2, AfterCases DEF KeptInv

LEMMA KeptStep ==
    ASSUME LogTypeOK, AgesInv, KeptInv, LogStep \/ Reopen \/ UNCHANGED lvars
    PROVE  KeptInv'
<1>0. /\ disk \in [Files -> File] /\ count \in Nat /\ handle \in Files \cup {Gone}
      /\ gaps \in BOOLEAN
  BY DEF LogTypeOK
<1>1. ASSUME NEW d \in [Files -> File], NEW k \in Files, NEW size \in Nat,
             disk' = Appended(d, k, size), count' = count + 1,
             \A j \in Files : ~d[j].there => d[j].lines = {},
             \A i \in Files : i < k => d[i].lines = {},
             ~gaps' => Contiguous(d, count)
      PROVE  KeptInv'
  <2> DEFINE E == Appended(d, k, size)
  <2>0. count \in Nat
    BY <1>0
  <2>1. (\A j \in Files : j # k => E[j] = d[j]) /\ E[k].there = TRUE
    BY <2>0, AppendedType
  <2>1a. Adds(d, k, E)
    BY <2>0, AppendedLines DEF Adds
  <2>1b. E \in [Files -> File]
    BY <2>0, AppendedType
  <2> HIDE DEF E
  <2>2. PICK e \in [Files -> File] : e = E
    BY <2>1b
  <2>3. \A j \in Files : ~e[j].there => e[j].lines = {}
    BY <1>1, <2>1, <2>2
  <2>4. ~gaps' => Contiguous(e, count + 1)
    <3>1. \A i \in Files : i < k => d[i].lines = {}
      BY <1>1
    <3>2. Adds(d, k, e)
      BY <2>1a, <2>2
    <3>3. CASE ~gaps'
      <4>1. Contiguous(d, count)
        BY <1>1, <3>3
      <4> QED BY <2>0, <3>1, <3>2, <4>1, AppendKeeps
    <3> QED BY <3>3
  <2>5. disk' = e
    BY <1>1, <2>2 DEF E
  <2> QED BY <1>1, <2>3, <2>4, <2>5 DEF KeptInv, Contiguous
<1>2. CASE \E size \in Sizes : Append(size)
  <2>1. PICK size \in Sizes : Append(size)
    BY <1>2
  <2>2. size \in Nat /\ count' = count + 1
    BY <2>1, SizesFacts DEF Append
  <2>3. CASE handle = Gone
    BY <2>1, <2>3 DEF Append, KeptInv, Contiguous
  <2>4. CASE handle # Gone
    <3>1. disk' = Appended(disk, handle, size) /\ handle \in Files /\ gaps' = gaps
      BY <1>0, <2>1, <2>4 DEF Append
    <3>2. \A i \in Files : i < handle => disk[i].lines = {}
      BY <2>4 DEF AgesInv
    <3>3. /\ \A j \in Files : ~disk[j].there => disk[j].lines = {}
          /\ ~gaps' => Contiguous(disk, count)
      BY <3>1 DEF KeptInv
    <3> QED BY <1>0, <1>1, <2>2, <3>1, <3>2, <3>3
  <2> QED BY <2>3, <2>4
<1>3. CASE \E size \in Sizes, failing \in SUBSET Files : Rotate(size, failing)
  <2>1. PICK size \in Sizes, failing \in SUBSET Files : Rotate(size, failing)
    BY <1>3
  <2>2. PICK d \in [Files -> File] : d = Opened(After(failing))
    BY <1>0, AfterType, OpenedType
  <2>3. /\ disk' = Appended(d, 0, size) /\ size \in Nat /\ count' = count + 1
        /\ 0 \in Files /\ \A i \in Files : ~(i < 0)
    BY <2>1, <2>2, SizesFacts, FilesFacts DEF Rotate
  <2>4. ~gaps' => ~gaps /\ failing = {}
    BY <2>1 DEF Rotate, Trouble
  <2>5. \A j \in Files : ~d[j].there => d[j].lines = {}
    BY <2>2, ThereAfter
  <2>6. ~gaps' => Contiguous(d, count)
    BY <2>2, <2>4, ShiftKeeps
  <2> QED BY <1>1, <2>3, <2>5, <2>6
<1>4. CASE \E size \in Sizes, failing \in SUBSET Files : RotateFails(size, failing)
  <2>1. PICK size \in Sizes, failing \in SUBSET Files : RotateFails(size, failing)
    BY <1>4
  <2>2. PICK d \in [Files -> File] :
            d = disk' /\ (d = After(failing) \/ d = Opened(After(failing)))
    BY <1>0, <2>1, AfterType, OpenedType DEF RotateFails
  <2>3. ~gaps' => ~gaps /\ failing = {}
    BY <2>1 DEF RotateFails, Trouble
  <2>4. count' = count
    BY <2>1 DEF RotateFails
  <2>5. \A j \in Files : ~d[j].there => d[j].lines = {}
    BY <2>2, ThereAfter
  <2>6. ~gaps' => Contiguous(d, count)
    BY <2>2, <2>3, ShiftKeeps
  <2> QED BY <2>2, <2>4, <2>5, <2>6 DEF KeptInv, Contiguous
<1>5. CASE Reopen
  <2>1. disk' = Opened(disk) /\ count' = count /\ gaps' = gaps
    BY <1>5 DEF Reopen
  <2>2. \A j \in Files : disk'[j] = disk[j] \/ (j = 0 /\ disk'[0] = NewFile /\ ~disk[0].there)
    <3>1. Opened(disk)[0] = IF disk[0].there THEN disk[0] ELSE NewFile
      BY <1>0, OpenedType
    <3> QED BY <1>0, <2>1, <3>1, OpenedType
  <2>3. NewFile.lines = {}
    BY DEF NewFile
  <2>4. \A j \in Files : disk'[j].lines = disk[j].lines
    BY <2>2, <2>3 DEF KeptInv
  <2>5. \A j \in Files : ~disk'[j].there => disk'[j].lines = {}
    BY <2>2, <2>3 DEF KeptInv
  <2>6. \A j \in Files : \A i \in 0 .. j : i \in Files
    BY KeepAssumption DEF Files
  <2> QED BY <2>1, <2>4, <2>5, <2>6 DEF KeptInv, Contiguous
<1>6. CASE UNCHANGED lvars
  BY <1>6 DEF lvars, KeptInv, Contiguous
<1> QED BY <1>2, <1>3, <1>4, <1>5, <1>6 DEF LogStep

LEMMA ShiftFills ==
    ASSUME LogTypeOK, KeptInv, FilledInv, mishaps = 0,
           NEW d \in [Files -> File], d = Opened(After({}))
    PROVE  /\ d[0].there
           /\ \A i, j \in Files : i <= j /\ d[j].there => d[i].there
           /\ count > 0 /\ (\A j \in Files : 1 \notin d[j].lines) =>
                  \A j \in Files : d[j].there
<1>0. /\ \A k \in Files : k \in Nat /\ k <= Keep
      /\ \A k \in Files : k > 0 => k - 1 \in Files
      /\ \A k \in Files : k < Keep => k + 1 \in Files
      /\ 0 \in Files /\ Keep \in Files /\ Keep \in Nat
  BY KeepAssumption DEF Files
<1>1. /\ \A i, j \in Files : i <= j /\ disk[j].there => disk[i].there
      /\ count > 0 /\ (\A j \in Files : 1 \notin disk[j].lines) =>
             \A j \in Files : disk[j].there
  BY DEF FilledInv
<1>2. NewFile.there /\ ~NoFile.there
  BY DEF NewFile, NoFile
<1>3. /\ \A j \in Files : d[j] = After({})[j] \/ (j = 0 /\ d[j] = NewFile)
      /\ d[0] = IF After({})[0].there THEN After({})[0] ELSE NewFile
  BY AfterType, OpenedType DEF LogTypeOK
<1>4. d[0].there
  BY <1>2, <1>3
<1>5. \A j \in Files : j > 0 /\ disk[j - 1].there => d[j] = disk[j - 1]
  BY <1>0, <1>3 DEF After, Moves
<1>6. \A j \in Files : j > 0 /\ d[j].there => disk[j - 1].there
  <2> SUFFICES ASSUME NEW j \in Files, j > 0, d[j].there PROVE disk[j - 1].there
    OBVIOUS
  <2>1. After({})[j].there
    BY <1>0, <1>3
  <2> QED BY <1>2, <2>1, AfterCases DEF Moves
<1>7. \A i, j \in Files : i <= j /\ d[j].there => d[i].there
  <2> SUFFICES ASSUME NEW i \in Files, NEW j \in Files, i <= j, d[j].there, i # 0
               PROVE  d[i].there
    BY <1>4
  <2>1. i > 0 /\ j > 0 /\ i - 1 \in Files /\ j - 1 \in Files /\ i - 1 <= j - 1
    BY <1>0
  <2>2. disk[i - 1].there
    BY <1>1, <1>6, <2>1
  <2> QED BY <1>5, <2>1, <2>2
<1>8. ASSUME count > 0, \A j \in Files : 1 \notin d[j].lines
      PROVE  \A j \in Files : d[j].there
  <2>1. \A k \in Files : k < Keep /\ disk[k].there => 1 \notin disk[k].lines
    <3> SUFFICES ASSUME NEW k \in Files, k < Keep, disk[k].there PROVE 1 \notin disk[k].lines
      OBVIOUS
    <3>1. k + 1 \in Files /\ k + 1 > 0 /\ (k + 1) - 1 = k
      BY <1>0
    <3>2. d[k + 1] = disk[k]
      BY <1>5, <3>1
    <3> QED BY <1>8, <3>1, <3>2
  <2>2. \A k \in Files : k < Keep => 1 \notin disk[k].lines
    BY <2>1 DEF KeptInv
  <2>3. CASE 1 \in disk[Keep].lines
    <3>1. disk[Keep].there
      BY <1>0, <2>3 DEF KeptInv
    <3>2. \A k \in Files : disk[k].there
      BY <1>0, <1>1, <3>1
    <3> QED BY <1>0, <1>4, <1>5, <3>2
  <2>4. CASE 1 \notin disk[Keep].lines
    <3>1. \A k \in Files : 1 \notin disk[k].lines
      <4> SUFFICES ASSUME NEW k \in Files PROVE 1 \notin disk[k].lines
        OBVIOUS
      <4>1. k < Keep \/ k = Keep
        BY <1>0
      <4> QED BY <2>2, <2>4, <4>1
    <3>2. \A k \in Files : disk[k].there
      BY <1>1, <1>8, <3>1
    <3> QED BY <1>0, <1>4, <1>5, <3>2
  <2> QED BY <2>3, <2>4
<1> QED BY <1>4, <1>7, <1>8

LEMMA FilledStep ==
    ASSUME LogTypeOK, KeptInv, FilledInv, LogStep \/ Reopen \/ UNCHANGED lvars
    PROVE  FilledInv'
<1>0. /\ disk \in [Files -> File] /\ count \in Nat /\ mishaps \in Nat /\ 0 \in Files
      /\ Gone # 0
  BY FilesFacts DEF LogTypeOK
<1> SUFFICES ASSUME mishaps' = 0
             PROVE  /\ handle' = 0 /\ ~gaps' /\ disk'[0].there
                    /\ \A i, j \in Files : i <= j /\ disk'[j].there => disk'[i].there
                    /\ count' > 0 /\ (\A j \in Files : 1 \notin disk'[j].lines) =>
                           \A j \in Files : disk'[j].there
  BY DEF FilledInv
<1>1. ASSUME NEW d \in [Files -> File], NEW size \in Nat,
             disk' = Appended(d, 0, size), count' = count + 1,
             d[0].there,
             \A i, j \in Files : i <= j /\ d[j].there => d[i].there,
             count > 0 /\ (\A j \in Files : 1 \notin d[j].lines) =>
                 \A j \in Files : d[j].there
      PROVE  /\ disk'[0].there
             /\ \A i, j \in Files : i <= j /\ disk'[j].there => disk'[i].there
             /\ count' > 0 /\ (\A j \in Files : 1 \notin disk'[j].lines) =>
                    \A j \in Files : disk'[j].there
  <2> DEFINE E == Appended(d, 0, size)
  <2>1. (\A j \in Files : j # 0 => E[j] = d[j]) /\ E[0].there = TRUE
    <3>1. count \in Nat /\ 0 \in Files
      BY <1>0
    <3> QED BY <3>1, AppendedType
  <2>2. Adds(d, 0, E)
    <3>1. count \in Nat /\ 0 \in Files
      BY <1>0
    <3> QED BY <3>1, AppendedLines DEF Adds
  <2> HIDE DEF E
  <2>3. \A j \in Files : E[j].there <=> d[j].there
    BY <1>1, <2>1
  <2>4. (\A j \in Files : 1 \notin E[j].lines) =>
            count > 0 /\ \A j \in Files : 1 \notin d[j].lines
    BY <1>0, <2>2 DEF Adds
  <2>5. disk' = E
    BY <1>1 DEF E
  <2> QED BY <1>0, <1>1, <2>1, <2>3, <2>4, <2>5
<1>2. CASE \E size \in Sizes : Append(size)
  <2>1. PICK size \in Sizes : Append(size)
    BY <1>2
  <2>2. /\ size \in Nat /\ count' = count + 1 /\ mishaps = 0 /\ handle' = handle
        /\ handle = 0 /\ gaps' = (gaps \/ handle = Gone)
    BY <2>1, SizesFacts DEF Append, FilledInv
  <2>3. disk' = Appended(disk, 0, size)
    BY <1>0, <2>1, <2>2 DEF Append
  <2>4. /\ ~gaps /\ disk[0].there
        /\ \A i, j \in Files : i <= j /\ disk[j].there => disk[i].there
        /\ count > 0 /\ (\A j \in Files : 1 \notin disk[j].lines) =>
               \A j \in Files : disk[j].there
    BY <2>2 DEF FilledInv
  <2>5. handle' = 0 /\ ~gaps'
    BY <1>0, <2>2, <2>4
  <2> QED BY <1>0, <1>1, <2>2, <2>3, <2>4, <2>5
<1>3. CASE \E size \in Sizes, failing \in SUBSET Files : Rotate(size, failing)
  <2>1. PICK size \in Sizes, failing \in SUBSET Files : Rotate(size, failing)
    BY <1>3
  <2>2. failing = {} /\ mishaps = 0 /\ ~gaps
    BY <1>0, <2>1 DEF Rotate, Mishap, FilledInv
  <2>3. PICK d \in [Files -> File] : d = Opened(After({}))
    BY <1>0, AfterType, OpenedType
  <2>4. /\ disk' = Appended(d, 0, size) /\ size \in Nat /\ count' = count + 1
        /\ handle' = 0 /\ ~gaps'
    BY <2>1, <2>2, <2>3, SizesFacts DEF Rotate, Trouble
  <2>5. /\ d[0].there
        /\ \A i, j \in Files : i <= j /\ d[j].there => d[i].there
        /\ count > 0 /\ (\A j \in Files : 1 \notin d[j].lines) =>
               \A j \in Files : d[j].there
    BY <2>2, <2>3, ShiftFills
  <2> QED BY <1>1, <2>4, <2>5
<1>4. CASE \E size \in Sizes, failing \in SUBSET Files : RotateFails(size, failing)
  BY <1>0, <1>4 DEF RotateFails, Mishap
<1>5. CASE Reopen
  <2>1. /\ disk' = Opened(disk) /\ handle' = 0 /\ mishaps = 0
        /\ UNCHANGED <<count, gaps>>
    BY <1>5 DEF Reopen
  <2>2. disk' = disk
    BY <1>0, <2>1 DEF Opened, FilledInv
  <2> QED BY <2>1, <2>2 DEF FilledInv
<1>6. CASE UNCHANGED lvars
  BY <1>6 DEF lvars, FilledInv
<1> QED BY <1>2, <1>3, <1>4, <1>5, <1>6 DEF LogStep

(* For any number of files and any mishaps, no line is missing between the *)
(* lines that are kept, as long as every rename worked; and without mishap *)
(* the first is dropped only once all files are there (logging.rs:78-97).  *)
THEOREM OnlyOldestDroppedHolds == FilesSpec => []OnlyOldestDropped
<1>1. FilesInit => AgesInv /\ KeptInv /\ FilledInv
  BY FilesFacts DEF FilesInit, LogInit, AgesInv, NewestFirst, KeptInv, Contiguous, FilledInv,
     NoFile, NewFile
<1>2. FilesTypeOK /\ AgesInv /\ KeptInv /\ FilledInv /\ [FilesNext]_filesVars =>
          AgesInv' /\ KeptInv' /\ FilledInv'
  BY Split, AgesStep, KeptStep, FilledStep DEF FilesTypeOK
<1>3. KeptInv /\ FilledInv => OnlyOldestDropped
  BY DEF KeptInv, Contiguous, FilledInv, OnlyOldestDropped
<1> QED BY <1>1, <1>2, <1>3, FilesTypeCorrect, PTL DEF FilesSpec
=============================================================================
