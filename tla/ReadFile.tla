------------------------------ MODULE ReadFile ------------------------------
(***************************************************************************)
(* Finding a script and reading it in one piece (js_getfile, js_readfile), *)
(* while an editor may write, replace or remove it: scripts are edited     *)
(* outside of Pd and reloaded with "compile".                              *)
(*                                                                         *)
(* A path of the file system names an inode; an open FILE stays with its   *)
(* inode, also when the path names another one or none.  A byte of a file  *)
(* is the number of the edit that wrote it.                                *)
(***************************************************************************)
EXTENDS Integers, Sequences

CONSTANTS
  Paths,     (* how many directories open_via_path looks in                *)
  MaxLen,    (* bound: the length of a file                                *)
  MaxEdits   (* bound: times a file is written, replaced or removed        *)

ASSUME ReadFileAssumption == Paths \in Nat /\ MaxLen \in Nat /\ MaxEdits \in Nat

VARIABLES
  disk,    (* disk[p]: the inode path p names, 0 for none                  *)
  files,   (* files[f]: the bytes of inode f, and how often it was         *)
           (* written in place                                             *)
  edits,   (* what the editor has done so far, counted                     *)
  pc,      (* "find", "open", "measure", "read", "done" or "failed"        *)
  path,    (* the path js_getfile has put together, or x->path             *)
  opened,  (* the inode of the FILE, 0 before fopen                        *)
  size,    (* what ftell reported                                          *)
  eof,     (* the C library will not ask for more                          *)
  chars,   (* the part of the buffer that is filled; its length is i       *)
  seen     (* history: how often the inode was written before ftell        *)

editVars == <<disk, files, edits>>
readVars == <<pc, path, opened, size, eof, chars, seen>>
vars     == <<editVars, readVars>>

Path == 1 .. Paths

Version(bytes, writes) == [bytes |-> bytes, writes |-> writes]

\* What the number of an edit can have written.
Written(number) == {[k \in 1 .. n |-> number] : n \in 0 .. MaxLen}

-----------------------------------------------------------------------------
(* The editor.                                                             *)

CountEdit == edits < MaxEdits /\ edits' = edits + 1 /\ UNCHANGED readVars

\* It writes the file where it is: longer, shorter or empty.
WriteInPlace(p) ==
  /\ CountEdit
  /\ disk[p] # 0
  /\ \E bytes \in Written(edits + 1) :
       files' = [files EXCEPT ![disk[p]] = Version(bytes, @.writes + 1)]
  /\ UNCHANGED disk

\* It writes a new file and gives it the name.
Replace(p) ==
  /\ CountEdit
  /\ \E bytes \in Written(edits + 1) : files' = Append(files, Version(bytes, 0))
  /\ disk' = [disk EXCEPT ![p] = Len(files) + 1]

Delete(p) ==
  /\ CountEdit
  /\ disk[p] # 0
  /\ disk' = [disk EXCEPT ![p] = 0]
  /\ UNCHANGED files

-----------------------------------------------------------------------------
(* js_getfile and js_readfile.                                             *)

\* open_via_path looks in the patch's directory first.  The file it opens is
\* closed again; what is kept is its path.
Find ==
  /\ pc = "find"
  /\ \/ \E p \in Path :
          /\ disk[p] # 0
          /\ \A q \in Path : q < p => disk[q] = 0
          /\ path' = p
          /\ pc' = "open"
     \/ /\ \A p \in Path : disk[p] = 0
        /\ pc' = "failed"
        /\ UNCHANGED path
  /\ UNCHANGED <<editVars, opened, size, eof, chars, seen>>

\* fopen; the file may be gone, or must not be read.
Open ==
  /\ pc = "open"
  /\ \/ disk[path] # 0 /\ opened' = disk[path] /\ pc' = "measure"
     \/ pc' = "failed" /\ UNCHANGED opened
  /\ UNCHANGED <<editVars, path, size, eof, chars, seen>>

\* fseek, ftell, rewind, and a buffer of that size.
Measure ==
  /\ pc = "measure"
  /\ size' = Len(files[opened].bytes)
  /\ seen' = files[opened].writes
  /\ pc' = "read"
  /\ UNCHANGED <<editVars, path, opened, eof, chars>>

\* Faulty variant of Fread: the path is opened again for each part.
FreadByPath ==
  /\ pc = "read"
  /\ Len(chars) < size
  /\ UNCHANGED eof
  /\ LET now == disk[path]
         bytes == IF now = 0 THEN <<>> ELSE files[now].bytes
     IN  IF Len(chars) < Len(bytes)
           THEN \E n \in Len(chars) + 1 .. Len(bytes) :
                  n <= size /\ chars' = chars \o SubSeq(bytes, Len(chars) + 1, n)
           ELSE UNCHANGED chars
  /\ UNCHANGED <<editVars, pc, path, opened, size, seen>>

\* fread: the C library asks for the next part of the file.  At the end of the
\* file fread returns what it has, with no error, and the loop calls it again;
\* libraries differ in whether they then look for more.
Fread ==
  /\ pc = "read"
  /\ Len(chars) < size
  /\ ~eof
  /\ LET bytes == files[opened].bytes
     IN  IF Len(chars) < Len(bytes)
           THEN \E n \in Len(chars) + 1 .. Len(bytes) :
                  /\ n <= size
                  /\ chars' = chars \o SubSeq(bytes, Len(chars) + 1, n)
                  /\ UNCHANGED eof
           ELSE eof' \in BOOLEAN /\ UNCHANGED chars
  /\ UNCHANGED <<editVars, pc, path, opened, size, seen>>

\* ferror
ReadError ==
  /\ pc = "read"
  /\ Len(chars) < size
  /\ pc' = "failed"
  /\ UNCHANGED <<editVars, path, opened, size, eof, chars, seen>>

\* Faulty variant of Finish: the loop runs once too often.
FinishBehind ==
  /\ pc = "read"
  /\ Len(chars) > size
  /\ pc' = "done"
  /\ UNCHANGED <<editVars, path, opened, size, eof, chars, seen>>

\* i < size no longer holds.
Finish ==
  /\ pc = "read"
  /\ Len(chars) >= size
  /\ pc' = "done"
  /\ UNCHANGED <<editVars, path, opened, size, eof, chars, seen>>

Read == Find \/ Open \/ Measure \/ Fread \/ Finish

-----------------------------------------------------------------------------
\* "compile f" and js_new look for the file, "compile" opens x->path again.
Init ==
  /\ \E bytes \in [Path -> Written(0)] : files = [p \in Path |-> Version(bytes[p], 0)]
  /\ disk \in [Path -> {0} \cup Path] /\ \A p \in Path : disk[p] \in {0, p}
  /\ edits = 0
  /\ pc \in {"find", "open"} /\ path \in Path
  /\ opened = 0 /\ size = 0 /\ eof = FALSE /\ chars = <<>> /\ seen = 0

Next ==
  \/ \E p \in Path : WriteInPlace(p) \/ Replace(p) \/ Delete(p)
  \/ Read
  \/ ReadError

\* Pd's thread goes on executing js_readfile; no error need come to its help.
Spec == Init /\ [][Next]_vars /\ WF_vars(Read)

-----------------------------------------------------------------------------
(* Properties.                                                             *)

\* A read that ends without an error has filled the buffer, and has the whole
\* of one file: the one it opened, as it was when it was measured.  It does
\* not matter that the path was given to another file or removed meanwhile;
\* only an editor that writes in place can tear it.
ReadIsComplete ==
  pc = "done" => /\ Len(chars) = size
                 /\ files[opened].writes = seen => chars = files[opened].bytes

Ended == pc \in {"done", "failed"}

\* js_getfile and js_readfile end, whatever happens to the path, if the file
\* that was opened is not cut below the size that was measured.
EndsUnlessCut == <>(Ended \/ (pc = "read" /\ Len(files[opened].bytes) < size))
=============================================================================
