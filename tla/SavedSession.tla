----------------------------- MODULE SavedSession -----------------------------
(***************************************************************************)
(* faculty_workflow/session_store.py: the two files ProtectedSessionStore  *)
(* keeps for a site.  save overwrites the data, then the meta file; list   *)
(* loads every site that has a meta file, and load clears what it cannot   *)
(* read.  No lock is taken.  A file is "part" while it is being written:   *)
(* it then reads as broken, and Windows refuses to remove it.              *)
(***************************************************************************)
VARIABLES
    data,       \* <host>.state: "none", "part" or "whole"
    meta        \* <host>.json

Files == {"none", "part", "whole"}

sessionFiles == <<data, meta>>

\* One write of save: the data file is opened, filled, then the meta file is.
SaveStep(from, to) ==
    \/ from = "save" /\ to = "save data" /\ data' = "part" /\ UNCHANGED meta
    \/ from = "save data" /\ to = "save meta" /\ data' = "whole" /\ UNCHANGED meta
    \/ from = "save meta" /\ to = "save ends" /\ meta' = "part" /\ UNCHANGED data
    \/ from = "save ends" /\ to = "saved" /\ meta' = "whole" /\ UNCHANGED data

\* What list does next: the glob, the read that sorts the file out, load, and the removal
\* of what cannot be read.  An error other than a broken file's ends it: the file of the
\* glob is gone, or the file to remove is held by save.
ListStep(from, to) ==
    \/ /\ from = "list" /\ to = IF meta = "none" THEN "done" ELSE "read"
       /\ UNCHANGED sessionFiles
    \/ /\ from = "read" /\ UNCHANGED sessionFiles
       /\ to = CASE meta = "none" -> "error" [] meta = "part" -> "unlink" [] meta = "whole" -> "load"
    \/ /\ from = "load" /\ UNCHANGED sessionFiles
       /\ to = CASE meta = "none" -> "done" [] meta = "part" -> "clear" [] meta = "whole" -> "load data"
    \/ /\ from = "load data" /\ UNCHANGED sessionFiles
       /\ to = IF data = "part" THEN "clear" ELSE "done"
    \/ /\ from \in {"unlink", "clear"}
       /\ to = CASE meta = "part" -> "error" [] from = "unlink" -> "done" [] OTHER -> "clear data"
       /\ meta' = IF meta = "part" THEN meta ELSE "none"
       /\ UNCHANGED data
    \/ /\ from = "clear data" /\ to = IF data = "part" THEN "error" ELSE "done"
       /\ data' = IF data = "part" THEN data ELSE "none"
       /\ UNCHANGED meta

=============================================================================
