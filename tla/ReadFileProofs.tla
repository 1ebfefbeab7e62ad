--------------------------- MODULE ReadFileProofs ---------------------------
(***************************************************************************)
(* That a read which ends has the whole of one file, for any number of     *)
(* directories, any length of files and any number of edits.               *)
(*                                                                         *)
(* ReadIsComplete is about the end only.  Meanwhile the buffer is a prefix *)
(* of the file that was opened, unless somebody has written into that:     *)
(* names may be given to other files, but a FILE stays with its inode.     *)
(***************************************************************************)
EXTENDS ReadFile, SequenceLemmas

VersionSet == [bytes : Seq(Nat), writes : Nat]

\* The names are names of files that exist.
DiskSound ==
  /\ files \in Seq(VersionSet)
  /\ disk \in [Path -> 0 .. Len(files)]
  /\ edits \in Nat
  /\ path \in Path

\* The reader has a file open from fopen on, and its size from ftell on.
Reading == pc \in {"read", "done"}

\* The buffer is the beginning of a file.
Begins(s, bytes) ==
  Len(s) <= Len(bytes) /\ \A k \in 1 .. Len(s) : s[k] = bytes[k]

\* Nobody has written into the file since ftell.
Untouched == files[opened].writes = seen

BufferSound ==
  /\ size \in Nat /\ chars \in Seq(Nat) /\ Len(chars) <= size
  /\ seen \in Nat /\ seen <= files[opened].writes
  /\ Untouched => size = Len(files[opened].bytes) /\ Begins(chars, files[opened].bytes)

IInv ==
  /\ DiskSound
  /\ pc \in {"find", "open", "measure", "read", "done", "failed"}
  /\ pc \in {"find", "open", "measure"} => chars = <<>>
  /\ pc \in {"measure", "read", "done"} => opened \in 1 .. Len(files)
  /\ Reading => BufferSound
  /\ pc = "done" => Len(chars) >= size
-----------------------------------------------------------------------------
(* The editor.                                                             *)

LEMMA WrittenIsText ==
  ASSUME NEW number \in Nat, NEW bytes \in Written(number)
  PROVE  bytes \in Seq(Nat)
<1>1. PICK n \in 0 .. MaxLen : bytes = [k \in 1 .. n |-> number]
  BY DEF Written
<1>2. n \in Nat /\ bytes \in [1 .. n -> Nat]
  BY <1>1, ReadFileAssumption
<1> QED
  BY <1>2, SeqDef

\* An edit leaves the reader alone if what it has open is as it was, or is
\* known to be written in place.
LEMMA EditKeepsIInv ==
  ASSUME IInv, UNCHANGED readVars, DiskSound',
         Len(files') >= Len(files),
         \A f \in 1 .. Len(files) :
           \/ files'[f] = files[f]
           \/ files'[f].writes = files[f].writes + 1
  PROVE  IInv'
<1>1. UNCHANGED <<pc, path, opened, size, eof, chars, seen>>
  BY DEF readVars
<1>2. Len(files) \in Nat /\ Len(files') \in Nat
  <2> HIDE DEF VersionSet
  <2> QED
    BY LenProperties DEF IInv, DiskSound
<1>3. opened \in 1 .. Len(files) => opened \in 1 .. Len(files')
  BY <1>2
<1>4. ASSUME Reading PROVE BufferSound'
  <2>1. opened \in 1 .. Len(files) /\ BufferSound
    BY <1>4 DEF IInv, Reading
  <2>2. files[opened] \in VersionSet
    <3> HIDE DEF VersionSet
    <3> QED
      BY <2>1, ElementOfSeq DEF IInv, DiskSound
  <2>3. files[opened].writes \in Nat /\ seen \in Nat /\ seen <= files[opened].writes
    BY <2>1, <2>2 DEF VersionSet, BufferSound
  <2>4. CASE files'[opened] = files[opened]
    BY <1>1, <2>1, <2>4 DEF BufferSound, Untouched
  <2>5. CASE files'[opened].writes = files[opened].writes + 1
    <3>1. seen' <= files'[opened'].writes /\ ~Untouched'
      BY <1>1, <2>3, <2>5 DEF Untouched
    <3> QED
      BY <1>1, <2>1, <3>1 DEF BufferSound
  <2> QED
    BY <2>1, <2>4, <2>5
<1> QED
  BY <1>1, <1>3, <1>4 DEF IInv, Reading

LEMMA WriteInPlaceKeepsIInv ==
  ASSUME IInv, NEW p \in Path, WriteInPlace(p)
  PROVE  IInv'
<1>1. /\ edits' = edits + 1 /\ UNCHANGED readVars /\ UNCHANGED disk
      /\ disk[p] # 0
  BY DEF WriteInPlace, CountEdit
<1>2. PICK bytes \in Written(edits + 1) :
        files' = [files EXCEPT ![disk[p]] = Version(bytes, @.writes + 1)]
  BY DEF WriteInPlace
<1>3. files \in Seq(VersionSet) /\ Len(files) \in Nat
  <2> HIDE DEF VersionSet
  <2> QED
    BY LenProperties DEF IInv, DiskSound
<1>4. disk[p] \in 1 .. Len(files) /\ edits \in Nat
  BY <1>1, <1>3 DEF IInv, DiskSound
<1>5. files[disk[p]] \in VersionSet
  <2> HIDE DEF VersionSet
  <2> QED
    BY <1>3, <1>4, ElementOfSeq
<1>6. PICK v \in VersionSet : /\ v = Version(bytes, files[disk[p]].writes + 1)
                              /\ v.writes = files[disk[p]].writes + 1
  <2> DEFINE v == Version(bytes, files[disk[p]].writes + 1)
  <2>1. bytes \in Seq(Nat)
    BY <1>4, WrittenIsText
  <2>2. v \in VersionSet /\ v.writes = files[disk[p]].writes + 1
    BY <1>5, <2>1 DEF Version, VersionSet
  <2>3. v = Version(bytes, files[disk[p]].writes + 1)
    OBVIOUS
  <2> HIDE DEF v
  <2> QED
    BY <2>2, <2>3
<1>7. files' = [files EXCEPT ![disk[p]] = v]
  BY <1>2, <1>6
<1>8. /\ files' \in Seq(VersionSet) /\ Len(files') = Len(files)
      /\ \A f \in 1 .. Len(files) : files'[f] = IF f = disk[p] THEN v ELSE files[f]
  <2> HIDE DEF VersionSet
  <2> QED
    BY <1>3, <1>4, <1>7, ExceptSeq
<1>9. DiskSound'
  BY <1>1, <1>4, <1>8 DEF IInv, DiskSound, readVars
<1>10. Len(files') >= Len(files)
  BY <1>3, <1>8
<1>11. \A f \in 1 .. Len(files) :
         files'[f] = files[f] \/ files'[f].writes = files[f].writes + 1
  BY <1>6, <1>8
<1> QED
  BY <1>1, <1>9, <1>10, <1>11, EditKeepsIInv

LEMMA ReplaceKeepsIInv ==
  ASSUME IInv, NEW p \in Path, Replace(p)
  PROVE  IInv'
<1>1. /\ edits' = edits + 1 /\ UNCHANGED readVars
      /\ disk' = [disk EXCEPT ![p] = Len(files) + 1]
  BY DEF Replace, CountEdit
<1>2. PICK bytes \in Written(edits + 1) : files' = Append(files, Version(bytes, 0))
  BY DEF Replace
<1>3. files \in Seq(VersionSet) /\ Len(files) \in Nat
  <2> HIDE DEF VersionSet
  <2> QED
    BY LenProperties DEF IInv, DiskSound
<1>4. Version(bytes, 0) \in VersionSet
  <2>1. bytes \in Seq(Nat)
    BY WrittenIsText DEF IInv, DiskSound
  <2> QED
    BY <2>1 DEF Version, VersionSet
<1>5. /\ files' \in Seq(VersionSet) /\ Len(files') = Len(files) + 1
      /\ \A f \in 1 .. Len(files) : files'[f] = files[f]
  <2> HIDE DEF VersionSet
  <2> QED
    BY <1>2, <1>3, <1>4, AppendProperties
<1>6. disk' \in [Path -> 0 .. Len(files')]
  <2>1. disk \in [Path -> 0 .. Len(files) + 1]
    BY <1>3 DEF IInv, DiskSound
  <2> QED
    BY <1>1, <1>3, <1>5, <2>1
<1>7. DiskSound'
  BY <1>1, <1>5, <1>6 DEF IInv, DiskSound, readVars
<1>8. Len(files') >= Len(files)
  BY <1>3, <1>5
<1> QED
  BY <1>1, <1>5, <1>7, <1>8, EditKeepsIInv

LEMMA DeleteKeepsIInv ==
  ASSUME IInv, NEW p \in Path, Delete(p)
  PROVE  IInv'
<1>1. /\ edits' = edits + 1 /\ UNCHANGED readVars /\ UNCHANGED files
      /\ disk' = [disk EXCEPT ![p] = 0]
  BY DEF Delete, CountEdit
<1>2. Len(files) \in Nat
  <2> HIDE DEF VersionSet
  <2> QED
    BY LenProperties DEF IInv, DiskSound
<1>3. disk' \in [Path -> 0 .. Len(files)]
  BY <1>1, <1>2 DEF IInv, DiskSound
<1>4. DiskSound'
  BY <1>1, <1>3 DEF IInv, DiskSound, readVars
<1>5. Len(files') >= Len(files)
  BY <1>1, <1>2
<1> QED
  BY <1>1, <1>4, <1>5, EditKeepsIInv
-----------------------------------------------------------------------------
(* The reader.                                                             *)

LEMMA OpensKeepIInv ==
  ASSUME IInv, Find \/ Open \/ ReadError
  PROVE  IInv'
<1>1. Len(files) \in Nat
  <2> HIDE DEF VersionSet
  <2> QED
    BY LenProperties DEF IInv, DiskSound
<1>2. CASE Find
  BY <1>2 DEF Find, IInv, DiskSound, Reading, editVars
<1>3. CASE Open
  <2>1. disk[path] \in 0 .. Len(files)
    BY DEF IInv, DiskSound
  <2>2. pc' = "measure" => opened' \in 1 .. Len(files)
    BY <1>1, <1>3, <2>1 DEF Open
  <2> QED
    BY <1>3, <2>2 DEF Open, IInv, DiskSound, Reading, editVars
<1>4. CASE ReadError
  BY <1>4 DEF ReadError, IInv, DiskSound, Reading, editVars
<1> QED
  BY <1>2, <1>3, <1>4

\* Where the reader has a file open.
LEMMA OpenedFacts ==
  ASSUME IInv, pc \in {"measure", "read", "done"}
  PROVE  /\ opened \in 1 .. Len(files)
         /\ files[opened].bytes \in Seq(Nat) /\ Len(files[opened].bytes) \in Nat
         /\ files[opened].writes \in Nat
<1>1. opened \in 1 .. Len(files) /\ files \in Seq(VersionSet)
  BY DEF IInv, DiskSound
<1>2. files[opened] \in VersionSet
  <2> HIDE DEF VersionSet
  <2> QED
    BY <1>1, ElementOfSeq
<1>3. files[opened].bytes \in Seq(Nat) /\ files[opened].writes \in Nat
  BY <1>2 DEF VersionSet
<1> QED
  BY <1>1, <1>3, LenProperties

LEMMA MeasureKeepsIInv ==
  ASSUME IInv, Measure
  PROVE  IInv'
<1>1. /\ pc = "measure" /\ pc' = "read" /\ UNCHANGED <<editVars, path, opened, eof, chars>>
      /\ size' = Len(files[opened].bytes) /\ seen' = files[opened].writes
  BY DEF Measure
<1>2. chars = <<>>
  BY <1>1 DEF IInv
<1>3. chars \in Seq(Nat) /\ Len(chars) = 0
  BY <1>2, EmptySeq
<1>4. /\ opened \in 1 .. Len(files) /\ Len(files[opened].bytes) \in Nat
      /\ files[opened].writes \in Nat
  BY <1>1, OpenedFacts
<1>5. Begins(chars, files[opened].bytes)
  BY <1>3, <1>4 DEF Begins
<1>6. BufferSound'
  BY <1>1, <1>3, <1>4, <1>5 DEF BufferSound, Untouched, editVars
<1> QED
  BY <1>1, <1>4, <1>6 DEF IInv, DiskSound, editVars, Reading

\* fread appends what comes next in the file.
LEMMA FreadKeepsIInv ==
  ASSUME IInv, Fread
  PROVE  IInv'
<1> DEFINE bytes == files[opened].bytes
<1>1. /\ pc = "read" /\ UNCHANGED <<editVars, pc, path, opened, size, seen>>
      /\ \/ UNCHANGED chars
         \/ \E n \in Len(chars) + 1 .. Len(bytes) :
              n <= size /\ chars' = chars \o SubSeq(bytes, Len(chars) + 1, n)
  BY DEF Fread
<1>2. /\ opened \in 1 .. Len(files) /\ bytes \in Seq(Nat) /\ Len(bytes) \in Nat
      /\ BufferSound
  BY <1>1, OpenedFacts DEF IInv, Reading
<1>3. chars \in Seq(Nat) /\ Len(chars) \in Nat /\ size \in Nat /\ Len(chars) <= size
  BY <1>2, LenProperties DEF BufferSound
<1>4. CASE UNCHANGED chars
  BY <1>1, <1>2, <1>4 DEF IInv, DiskSound, BufferSound, Untouched, editVars, Reading
<1>5. ASSUME NEW n \in Len(chars) + 1 .. Len(bytes), n <= size,
             chars' = chars \o SubSeq(bytes, Len(chars) + 1, n)
      PROVE  IInv'
  <2> HIDE DEF bytes
  <2> DEFINE part == SubSeq(bytes, Len(chars) + 1, n)
             m == Len(chars)
  <2>1. m \in Nat /\ m + 1 \in Nat /\ n \in Nat /\ m + 1 >= 1 /\ m + 1 <= n /\ n <= Len(bytes)
    BY <1>2, <1>3
  <2>2. \A k \in m + 1 .. n : bytes[k] \in Nat
    BY <1>2, <2>1, ElementOfSeq
  <2>3. /\ part \in Seq(Nat) /\ Len(part) = n - m
        /\ \A k \in 1 .. n - m : part[k] = bytes[m + k]
    <3>1. part \in Seq(Nat)
      BY <2>1, <2>2, SubSeqProperties
    <3>2. Len(part) = n - m
      BY <1>2, <2>1, <2>2, SubSeqProperties
    <3>3. \A k \in 1 .. n - (m + 1) + 1 : part[k] = bytes[(m + 1) + k - 1]
      BY <2>1, <2>2, SubSeqProperties
    <3>4. \A k \in 1 .. n - m : part[k] = bytes[m + k]
      <4> TAKE k \in 1 .. n - m
      <4>1. k \in 1 .. n - (m + 1) + 1 /\ (m + 1) + k - 1 = m + k
        BY <2>1
      <4> QED
        BY <3>3, <4>1
    <3> QED
      BY <3>1, <3>2, <3>4
  <2> HIDE DEF part
  <2>4. /\ chars' \in Seq(Nat) /\ Len(chars') = n
        /\ \A k \in 1 .. m : chars'[k] = chars[k]
        /\ \A k \in m + 1 .. n : chars'[k] = bytes[k]
    <3>1. chars' = chars \o part
      BY <1>5 DEF part
    <3>2. /\ chars \o part \in Seq(Nat) /\ Len(chars \o part) = m + Len(part)
          /\ \A k \in 1 .. m + Len(part) :
               (chars \o part)[k] = IF k <= m THEN chars[k] ELSE part[k - m]
      BY <1>3, <2>3, ConcatProperties
    <3>3. m + Len(part) = n
      BY <2>1, <2>3
    <3>4. \A k \in m + 1 .. n : part[k - m] = bytes[k]
      <4> TAKE k \in m + 1 .. n
      <4>1. k - m \in 1 .. n - m /\ m + (k - m) = k
        BY <2>1
      <4> QED
        BY <2>3, <4>1
    <3>5. \A k \in 1 .. m : chars'[k] = chars[k]
      <4> TAKE k \in 1 .. m
      <4>1. k \in 1 .. n /\ k <= m
        BY <2>1
      <4> QED
        BY <3>1, <3>2, <3>3, <4>1
    <3>6. \A k \in m + 1 .. n : chars'[k] = bytes[k]
      <4> TAKE k \in m + 1 .. n
      <4>1. k \in 1 .. n /\ ~(k <= m)
        BY <2>1
      <4> QED
        BY <3>1, <3>2, <3>3, <3>4, <4>1
    <3> QED
      BY <3>1, <3>2, <3>3, <3>5, <3>6
  <2>5. Begins(chars, bytes) => Begins(chars', bytes)
    BY <2>1, <2>4 DEF Begins
  <2>6. BufferSound'
    BY <1>1, <1>2, <1>3, <1>5, <2>4, <2>5 DEF BufferSound, Untouched, editVars, bytes
  <2> QED
    BY <1>1, <1>2, <2>6 DEF IInv, DiskSound, editVars, Reading
<1> QED
  BY <1>1, <1>4, <1>5

LEMMA FinishKeepsIInv ==
  ASSUME IInv, Finish
  PROVE  IInv'
<1>1. /\ pc = "read" /\ pc' = "done" /\ Len(chars) >= size
      /\ UNCHANGED <<editVars, path, opened, size, eof, chars, seen>>
  BY DEF Finish
<1>2. BufferSound'
  BY <1>1 DEF IInv, Reading, BufferSound, Untouched, editVars
<1> QED
  BY <1>1, <1>2 DEF IInv, DiskSound, editVars, Reading
-----------------------------------------------------------------------------
(* The specification.                                                      *)

\* Before the first edit the inodes have the numbers of the paths.
LEMMA InitIsSound ==
  Init => IInv
<1> SUFFICES ASSUME Init PROVE IInv
  OBVIOUS
<1>1. PICK bytes \in [Path -> Written(0)] : files = [p \in Path |-> Version(bytes[p], 0)]
  BY DEF Init
<1>2. \A p \in Path : Version(bytes[p], 0) \in VersionSet
  <2> TAKE p \in Path
  <2>1. bytes[p] \in Seq(Nat)
    BY WrittenIsText
  <2> QED
    BY <2>1 DEF Version, VersionSet
<1>3. files \in [1 .. Paths -> VersionSet] /\ Paths \in Nat
  BY <1>1, <1>2, ReadFileAssumption DEF Path
<1>4. files \in Seq(VersionSet) /\ Len(files) = Paths
  <2> HIDE DEF VersionSet
  <2> QED
    BY <1>3, SeqDef, LenProperties
<1>5. disk \in [Path -> 0 .. Len(files)]
  BY <1>3, <1>4 DEF Init, Path
<1> QED
  BY <1>4, <1>5 DEF Init, IInv, DiskSound, Reading

LEMMA IInvImplies ==
  IInv => ReadIsComplete
<1> SUFFICES ASSUME IInv, pc = "done"
             PROVE  /\ Len(chars) = size
                    /\ files[opened].writes = seen => chars = files[opened].bytes
  BY DEF ReadIsComplete
<1>1. BufferSound /\ Len(chars) >= size
  BY DEF IInv, Reading
<1>2. /\ chars \in Seq(Nat) /\ size \in Nat /\ Len(chars) <= size
      /\ files[opened].bytes \in Seq(Nat)
  BY <1>1, OpenedFacts DEF BufferSound
<1>3. Len(chars) = size
  BY <1>1, <1>2, LenProperties
<1>4. ASSUME files[opened].writes = seen PROVE chars = files[opened].bytes
  <2>1. /\ Len(chars) = Len(files[opened].bytes)
        /\ \A k \in 1 .. Len(chars) : chars[k] = files[opened].bytes[k]
    BY <1>1, <1>3, <1>4 DEF BufferSound, Untouched, Begins
  <2> QED
    BY <1>2, <2>1, SeqEqual
<1> QED
  BY <1>3, <1>4

THEOREM ReadFileInvariant == Spec => []IInv
<1>1. IInv /\ [Next]_vars => IInv'
  <2> SUFFICES ASSUME IInv, [Next]_vars PROVE IInv'
    OBVIOUS
  <2>1. CASE UNCHANGED vars
    BY <2>1 DEF vars, editVars, readVars, IInv, DiskSound, Reading, BufferSound, Untouched
  <2>2. ASSUME NEW p \in Path, WriteInPlace(p) \/ Replace(p) \/ Delete(p) PROVE IInv'
    BY <2>2, WriteInPlaceKeepsIInv, ReplaceKeepsIInv, DeleteKeepsIInv
  <2>3. CASE Read
    BY <2>3, OpensKeepIInv, MeasureKeepsIInv, FreadKeepsIInv, FinishKeepsIInv DEF Read
  <2>4. CASE ReadError
    BY <2>4, OpensKeepIInv
  <2> QED
    BY <2>1, <2>2, <2>3, <2>4 DEF Next
<1> QED
  BY <1>1, InitIsSound, PTL DEF Spec

\* A read that ends without an error has the whole of the file it opened, as
\* it was when it was measured, whatever was done to the name meanwhile.
THEOREM ReadsAreAlwaysComplete == Spec => []ReadIsComplete
  BY ReadFileInvariant, IInvImplies, PTL
=============================================================================
