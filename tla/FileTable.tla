----------------------------- MODULE FileTable ------------------------------
(***************************************************************************)
(* The static in-memory file table of src/fs.c: fs_init, fs_add_file,     *)
(* fs_find_file and fs_read over the fixed array filesystem.files[] of    *)
(* FS_MAX_FILES entries, filled in order with file_count as the cursor.   *)
(* Names and contents are model values with a length (NameLen,            *)
(* ContentLen): the code only compares names and measures strings.  The   *)
(* data pointer of entry i is the fixed region i of file_data[], so an    *)
(* entry carries its content.  fs_list and fs_print_file_info only print. *)
(***************************************************************************)
EXTENDS Integers, FiniteSets, TLC, SequencesExt

CONSTANTS
    Names, Contents, NameLen, ContentLen,
    MaxFiles,      \* FS_MAX_FILES
    MaxFilename,   \* FS_MAX_FILENAME (bytes, NUL included)
    MaxFilesize,   \* FS_MAX_FILESIZE
    DemoFiles,     \* the fs_add_file calls of fs_create_demo_files, in order
    NoName, NoContent

ASSUME NameLen \in [Names -> Nat] /\ ContentLen \in [Contents -> Nat]

VARIABLES
    fs_initialized,
    file_count,
    files,         \* filesystem.files[]: [name, size, content]
    last_rc,       \* the value the last fs_add_file returned
    last_read      \* fs_read's return value and its *data, *size outputs

vars == <<fs_initialized, file_count, files, last_rc, last_read>>

Slots == 0 .. MaxFiles - 1
NULL == -1

EmptyEntry == [name |-> NoName, size |-> 0, content |-> NoContent]

\* The table's state, as the helpers pass it along.
FS == [init |-> fs_initialized, count |-> file_count, files |-> files]

\* Variant of fs_find_file whose scan stops before the last entry.
FsFindFileShort(fs, n) ==
    LET hits == { i \in 0 .. fs.count - 2 : fs.files[i].name = n }
    IN  IF ~fs.init \/ hits = {} THEN NULL
        ELSE CHOOSE i \in hits : \A j \in hits : i <= j

\* fs_find_file: the first of the file_count entries named n, or NULL.
FsFindFile(fs, n) ==
    LET hits == { i \in 0 .. fs.count - 1 : fs.files[i].name = n }
    IN  IF ~fs.init \/ hits = {} THEN NULL
        ELSE CHOOSE i \in hits : \A j \in hits : i <= j

\* Variant of fs_add_file without the file_count >= FS_MAX_FILES check.
FsAddFileNoFullCheck(fs, n, c) ==
    CASE ~fs.init -> [fs |-> fs, rc |-> -1]
      [] NameLen[n] >= MaxFilename \/ ContentLen[c] >= MaxFilesize
            -> [fs |-> fs, rc |-> -2]
      [] FsFindFile(fs, n) # NULL -> [fs |-> fs, rc |-> -3]
      [] OTHER -> [fs |-> [fs EXCEPT !.files[fs.count] =
                                        [name |-> n, size |-> ContentLen[c],
                                         content |-> c],
                                     !.count = @ + 1],
                   rc |-> 0]

\* fs_add_file: the checks in the code's order, then fill entry
\* file_count (name, size, data region) and advance file_count.
FsAddFile(fs, n, c) ==
    CASE ~fs.init \/ fs.count >= MaxFiles -> [fs |-> fs, rc |-> -1]
      [] NameLen[n] >= MaxFilename \/ ContentLen[c] >= MaxFilesize
            -> [fs |-> fs, rc |-> -2]
      [] FsFindFile(fs, n) # NULL -> [fs |-> fs, rc |-> -3]
      [] OTHER -> [fs |-> [fs EXCEPT !.files[fs.count] =
                                        [name |-> n, size |-> ContentLen[c],
                                         content |-> c],
                                     !.count = @ + 1],
                   rc |-> 0]

SetFS(fs) ==
    /\ fs_initialized' = fs.init
    /\ file_count' = fs.count
    /\ files' = fs.files

Init ==
    /\ fs_initialized = FALSE
    /\ file_count = 0
    /\ files = [i \in Slots |-> EmptyEntry]
    /\ last_rc = 0
    /\ last_read = [rc |-> 0, content |-> NoContent, size |-> 0]

\* fs_create_demo_files: fs_add_file for each preloaded file in turn,
\* the result codes discarded.
FsCreateDemoFiles(fs) ==
    FoldLeft(LAMBDA t, f : FsAddFile(t, f.name, f.content).fs, fs, DemoFiles)

\* fs_init: return if initialized; else clear the table, set
\* fs_initialized, and run fs_create_demo_files.
FsInit ==
    /\ ~fs_initialized
    /\ SetFS(FsCreateDemoFiles([init |-> TRUE, count |-> 0,
                                files |-> [i \in Slots |-> EmptyEntry]]))
    /\ UNCHANGED <<last_rc, last_read>>

\* A call fs_add_file(n, c, type).
FsAddFileCall(n, c) ==
    LET r == FsAddFile(FS, n, c)
    IN  /\ SetFS(r.fs)
        /\ last_rc' = r.rc
        /\ UNCHANGED last_read

\* fs_read: -1 if fs_find_file fails (outputs untouched), else 0 with
\* *data = file->data and *size = file->size.
FsRead(n) ==
    LET i == FsFindFile(FS, n)
    IN  /\ last_read' = IF i = NULL
                        THEN [last_read EXCEPT !.rc = -1]
                        ELSE [rc |-> 0, content |-> files[i].content,
                              size |-> files[i].size]
        /\ UNCHANGED <<fs_initialized, file_count, files, last_rc>>

Next ==
    \/ FsInit
    \/ \E n \in Names, c \in Contents : FsAddFileCall(n, c)
    \/ \E n \in Names : FsRead(n)

Spec == Init /\ [][Next]_vars

-----------------------------------------------------------------------------
(* Properties                                                              *)

\* The directory the table represents: each name among the first
\* file_count entries, with the content of its first entry.
Directory ==
    LET used == 0 .. file_count - 1
        first(n) == CHOOSE i \in used : files[i].name = n
                                       /\ \A j \in used : files[j].name = n => i <= j
    IN  [n \in { files[i].name : i \in used } |-> files[first(n)].content]

FM == INSTANCE FileMap WITH ready <- fs_initialized, dir <- Directory

\* fs_init, fs_add_file and fs_read together implement the bounded
\* insert-if-absent map: every result code of fs_add_file, and every
\* content and size fs_read hands back, is the one the map prescribes.
ImplementsFileMap == FM!ASpec

====
