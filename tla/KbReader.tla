------------------------------ MODULE KbReader ------------------------------
(***************************************************************************)
(* runnrr/kb_loader.py: how the tools list_kb, search_kb and read_file     *)
(* show a knowledge base to the model in pieces.  A path is a sequence of  *)
(* names, of which those in Dotted begin with a dot.  A file is known by   *)
(* where its lines end: the bytes up to the newline behind each of them,   *)
(* in the encoding read_file counts in.                                    *)
(***************************************************************************)
EXTENDS Integers, Sequences, FiniteSets

CONSTANTS
    MaxLines,        \* MAX_LINES_PER_READ
    DefaultLines,    \* DEFAULT_LINES_PER_READ
    MaxBytes,        \* MAX_BYTES_PER_CALL
    Widths,          \* the bytes a line may have
    Names, Dotted,   \* names a path is made of
    ToTheEnd,        \* end_line is None
    KbPaths,         \* what files may be called
    MaxFiles,        \* bound: files of a knowledge base
    MaxLength        \* bound: lines of the file that is read

ReaderAssumption ==
    /\ MaxLines \in Nat \ {0} /\ DefaultLines \in Nat \ {0}
    /\ MaxBytes \in Nat /\ Widths \subseteq Nat
    /\ Dotted \subseteq Names
    /\ ToTheEnd \notin Int
    /\ KbPaths \subseteq Seq(Names) \ {<<>>}
    /\ MaxFiles \in Nat /\ MaxLength \in Nat

VARIABLES
    kbFiles,   \* the files of a knowledge base
    lineEnds   \* where the lines of a file end

Least(a, b)    == IF a < b THEN a ELSE b
Greatest(a, b) == IF a > b THEN a ELSE b

-----------------------------------------------------------------------------
\* read_file's start_line and end_line as it settles them for a file of total lines.
From(start) == Greatest(1, start)

\* Fault variant: the cap counts from the line after the first.
MutCapped(start) == From(start) + MaxLines

Capped(start) == From(start) + MaxLines - 1

Wanted(start, end) == IF end = ToTheEnd THEN From(start) + DefaultLines - 1 ELSE end

To(total, start, end) ==
    Greatest(From(start), Least(Wanted(start, end), Least(Capped(start), total)))

\* The window that is taken of a file, which read_file reports as shown: the slice of a
\* list stops at its end by itself.
LinesRead(total, start, end) == From(start) .. Least(To(total, start, end), total)

\* The bytes of lines a to b of a file, joined by newlines.
Bytes(file, a, b) == file[b] - (IF a = 1 THEN 0 ELSE file[a - 1]) - 1

\* The text of the window is cut at the byte limit: these lines of it stay whole.
LinesShown(file, start, end) ==
    {i \in LinesRead(Len(file), start, end) : Bytes(file, From(start), i) <= MaxBytes}

\* "[truncated; ... bytes omitted]" ends the text.
Marked(file, start, end) ==
    LET last == Least(To(Len(file), start, end), Len(file))
    IN  last >= From(start) /\ Bytes(file, From(start), last) > MaxBytes

\* Reading on from the line after the last one reported, until the total is reached.
PageStarts(total) ==
    LET start[n \in 0 .. total] ==
          IF n = 0 THEN 1 ELSE To(total, start[n - 1], ToTheEnd) + 1
    IN  {start[n] : n \in 0 .. total} \cap 1 .. total

-----------------------------------------------------------------------------
Below(p, q) == Len(p) < Len(q) /\ \A i \in DOMAIN p : p[i] = q[i]
Ignored(p)  == p[Len(p)] \in Dotted

\* A file is below directories only.
Trees == {files \in SUBSET (Seq(Names) \ {<<>>}) : \A p, q \in files : ~Below(p, q)}

Dirs(files) == {<<>>} \cup UNION {{SubSeq(p, 1, n) : n \in 1 .. Len(p) - 1} : p \in files}

\* iter_kb_files, which search_kb reads through in this order of its paths.
IterFiles(files, dir) == {p \in files : Below(dir, p) /\ ~Ignored(p)}

\* Fault variant: an explicit directory is listed like the root, and the root not at all.
MutDepth(dir) == IF dir = <<>> THEN 0 ELSE 1

Depth(dir) == IF dir = <<>> THEN 1 ELSE 2     \* LIST_ROOT_DEPTH, LIST_SUBDIR_DEPTH

\* list_kb
Listed(files, dir) ==
    {p \in files \cup Dirs(files) : Below(dir, p) /\ Len(p) - Len(dir) <= Depth(dir) /\ ~Ignored(p)}

\* What the model gets to see by listing what it was listed, n times over.
Seen(files, n) ==
    LET seen[i \in 0 .. n] ==
          IF i = 0 THEN {<<>>}
          ELSE seen[i - 1] \cup UNION {Listed(files, d) : d \in seen[i - 1] \cap Dirs(files)}
    IN  seen[n]

-----------------------------------------------------------------------------
\* Reading on from where read_file says it stopped reports every line of a file exactly
\* once, in pieces within the limit of lines, and a range within that limit is reported
\* as it was asked for.  A reported line that the byte limit kept from being shown
\* whole is in a piece that says it was cut, no other piece says so, and reading from
\* that line shows it, unless it alone is over the limit (read_file's clamps and its cut).
PagesCover(file) ==
    LET total == Len(file)
    IN  /\ UNION {LinesRead(total, s, ToTheEnd) : s \in PageStarts(total)} = 1 .. total
        /\ \A s, r \in PageStarts(total) : s # r =>
             LinesRead(total, s, ToTheEnd) \cap LinesRead(total, r, ToTheEnd) = {}
        /\ \A s \in -1 .. total : \A e \in {ToTheEnd} \cup (s .. total + 1) :
             /\ Cardinality(LinesRead(total, s, e)) \in (IF total = 0 THEN 0 ELSE 1) .. MaxLines
             /\ e # ToTheEnd /\ s >= 1 /\ e - s < MaxLines =>
                  LinesRead(total, s, e) = s .. Least(e, total)
             /\ Marked(file, s, e) <=> LinesShown(file, s, e) # LinesRead(total, s, e)
             /\ s >= 1 => (s \in LinesShown(file, s, e) <=> Bytes(file, s, s) <= MaxBytes)

\* Whatever search_kb can find, listing leads to as well, except below a directory
\* whose name begins with a dot: list_kb leaves that out, iter_kb_files looks into it.
ListingLeadsEverywhere(files) ==
    \A p \in IterFiles(files, <<>>) :
        p \in Seen(files, Len(p)) \/ \E i \in 1 .. Len(p) - 1 : p[i] \in Dotted

-----------------------------------------------------------------------------
(* A knowledge base, file by file, and a file, line by line.               *)

KbInit == kbFiles = {} /\ lineEnds = <<>>

AddFile(p) ==
    /\ Cardinality(kbFiles) < MaxFiles
    /\ kbFiles \cup {p} \in Trees
    /\ kbFiles' = kbFiles \cup {p}
    /\ UNCHANGED lineEnds

\* The newline behind the last line is counted as well.
AddLine(width) ==
    /\ Len(lineEnds) < MaxLength
    /\ lineEnds' = Append(lineEnds,
                          (IF lineEnds = <<>> THEN 0 ELSE lineEnds[Len(lineEnds)]) + width + 1)
    /\ UNCHANGED kbFiles

KbNext == (\E p \in KbPaths : AddFile(p)) \/ (\E width \in Widths : AddLine(width))

KbSpec == KbInit /\ [][KbNext]_<<kbFiles, lineEnds>>

\* read_file, list_kb and iter_kb_files leave nothing of a knowledge base out of reach.
ReadingLaw == PagesCover(lineEnds) /\ ListingLeadsEverywhere(kbFiles)
=============================================================================
