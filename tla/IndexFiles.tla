----------------------------- MODULE IndexFiles -----------------------------
(***************************************************************************)
(* What the builds of an index (runnrr/rag/indexer.py) promise whoever     *)
(* reads its three files: in which order the files come, are rewritten and *)
(* go.  A file is absent, torn (opened for writing and not yet written) or *)
(* whole.  RagIndex implements this with the contents of the files, and    *)
(* RetrieverCache with their identity.                                     *)
(***************************************************************************)
VARIABLES
    file,      \* per index file how a reader finds it
    building   \* a build is under way

indexFilesVars == <<file, building>>

IndexFile == {"manifest", "bm25", "vector"}

Init ==
    /\ file \in [IndexFile -> {"absent", "whole"}]
    /\ file["manifest"] = "whole" => file["bm25"] = "whole" /\ file["vector"] = "whole"
    /\ building = FALSE

\* json.loads of a torn manifest ends a build before it has done anything.
Begin ==
    /\ ~building /\ file["manifest"] # "torn"
    /\ building' = TRUE
    /\ UNCHANGED file

\* _reset_index_files takes the manifest first.
Unlink(f) ==
    /\ building
    /\ f # "manifest" => file["manifest"] = "absent"
    /\ file' = [file EXCEPT ![f] = "absent"]
    /\ UNCHANGED building

\* sqlite3.connect creates the file, for a build and for a search alike.
CreateVector ==
    /\ file["vector"] = "absent"
    /\ file' = [file EXCEPT !["vector"] = "whole"]
    /\ UNCHANGED building

Tear(f) ==
    /\ building
    /\ \/ f = "bm25" /\ file["vector"] = "whole"
       \/ f = "manifest" /\ file["bm25"] = "whole" /\ file["vector"] = "whole"
    /\ file' = [file EXCEPT ![f] = "torn"]
    /\ UNCHANGED building

Write(f) ==
    /\ building /\ file[f] = "torn"
    /\ file' = [file EXCEPT ![f] = "whole"]
    /\ building' = (f = "bm25")

\* A build that fails or dies leaves the files as they are.
Leave ==
    /\ building
    /\ building' = FALSE
    /\ UNCHANGED file

Next ==
    \/ Begin
    \/ \E f \in IndexFile : Unlink(f)
    \/ CreateVector
    \/ \E f \in {"bm25", "manifest"} : Tear(f) \/ Write(f)
    \/ Leave

Spec == Init /\ [][Next]_indexFilesVars

-----------------------------------------------------------------------------
\* A reader that finds a manifest, even one it cannot parse, finds the two other
\* files as well: _reset_index_files unlinks the manifest first, build writes it last.
ManifestVouches ==
    file["manifest"] # "absent" => file["bm25"] # "absent" /\ file["vector"] # "absent"
=============================================================================
