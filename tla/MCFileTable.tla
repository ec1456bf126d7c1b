---------------------------- MODULE MCFileTable -----------------------------
EXTENDS FileTable

CONSTANTS n1, n2, n3, n4, nlong, c1, c2, cbig, NoNameV, NoContentV

MCNames == {n1, n2, n3, n4, nlong}
MCContents == {c1, c2, cbig}

\* nlong fills the 32-byte name field with no room for the NUL; cbig is
\* exactly FS_MAX_FILESIZE bytes long: both sit on a length boundary.
MCNameLen == [n \in MCNames |-> IF n = nlong THEN 32 ELSE 11]
MCContentLen == [c \in MCContents |-> IF c = cbig THEN 4096 ELSE 300]

\* fs_create_demo_files with one preloaded file.
MCDemoFiles == << [name |-> n1, content |-> c1] >>

\* Four slots instead of FS_MAX_FILES = 16: the table fills after three adds,
\* so the fourth valid name meets the full table.
MCMaxFiles == 4
====
