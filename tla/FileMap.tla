------------------------------ MODULE FileMap -------------------------------
(***************************************************************************)
(* What the file table promises its callers (the shell's ls and cat): a   *)
(* name -> content map of bounded capacity that only grows, by            *)
(* insert-if-absent, and whose reads return what was inserted under the   *)
(* name.  Result codes are those of fs_add_file and fs_read.               *)
(***************************************************************************)
EXTENDS Integers, FiniteSets, TLC, SequencesExt

CONSTANTS
    Names, Contents, NameLen, ContentLen,
    MaxFiles, MaxFilename, MaxFilesize,
    DemoFiles,     \* the files the table is opened with, in order
    NoContent      \* what a read reports before any read has succeeded

VARIABLES ready, dir, last_rc, last_read

avars == <<ready, dir, last_rc, last_read>>

\* The result code of inserting content c under name n into directory d.
AddCode(r, d, n, c) ==
    CASE ~r \/ Cardinality(DOMAIN d) >= MaxFiles              -> -1
      [] NameLen[n] >= MaxFilename \/ ContentLen[c] >= MaxFilesize -> -2
      [] n \in DOMAIN d                                       -> -3
      [] OTHER                                                -> 0

AddTo(d, n, c) == IF AddCode(TRUE, d, n, c) = 0 THEN (n :> c) @@ d ELSE d

AInit ==
    /\ ready = FALSE
    /\ dir = << >>
    /\ last_rc = 0
    /\ last_read = [rc |-> 0, content |-> NoContent, size |-> 0]

Open ==
    /\ ~ready
    /\ ready' = TRUE
    /\ dir' = FoldLeft(LAMBDA d, f : AddTo(d, f.name, f.content), << >>, DemoFiles)
    /\ UNCHANGED <<last_rc, last_read>>

Add(n, c) ==
    /\ last_rc' = AddCode(ready, dir, n, c)
    /\ dir' = IF last_rc' = 0 THEN (n :> c) @@ dir ELSE dir
    /\ UNCHANGED <<ready, last_read>>

Read(n) ==
    /\ last_read' = IF n \in DOMAIN dir
                    THEN [rc |-> 0, content |-> dir[n], size |-> ContentLen[dir[n]]]
                    ELSE [last_read EXCEPT !.rc = -1]
    /\ UNCHANGED <<ready, dir, last_rc>>

ANext ==
    \/ Open
    \/ \E n \in Names, c \in Contents : Add(n, c)
    \/ \E n \in Names : Read(n)

ASpec == AInit /\ [][ANext]_avars
====
