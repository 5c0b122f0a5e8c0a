------------------------------ MODULE Chunker ------------------------------
(***************************************************************************)
(* runnrr/rag/chunker.py: the passages chunk_markdown cuts a file into.    *)
(* A document is a sequence of lines.  Of a line there is left whether it  *)
(* is a heading, text or blank, and the tokens it is estimated at; a       *)
(* heading is known by the number of its line.                             *)
(***************************************************************************)
EXTENDS Naturals, Sequences

CONSTANTS
    Target, Overlap,     \* target_tokens, overlap_tokens
    Lines,               \* those a document may have
    MaxDocument             \* bound: how many of them

Kinds == {"h1", "h2", "text", "blank"}

\* _estimate_tokens: at least one token, also for a blank line.
Line == [kind : Kinds, tokens : Nat \ {0}]

ChunkerAssumption ==
    /\ Target \in Nat \ {0} /\ Overlap \in Nat
    /\ Lines \subseteq Line /\ MaxDocument \in Nat

VARIABLE document        \* as far as it is written

IsHeading(line) == line.kind \in {"h1", "h2"}

-----------------------------------------------------------------------------
\* Fault variant: an h2 keeps the heading of the section before it as its parent.
MutHeadingAt(doc, state, i) ==
    IF doc[i].kind = "h1" THEN <<i>> ELSE Append(state.heading, i)

HeadingAt(doc, state, i) ==
    IF doc[i].kind = "h1" \/ state.h1 = 0 THEN <<i>> ELSE <<state.h1, i>>

Flush(state, i) ==
    IF state.start = i THEN state.done
    ELSE Append(state.done, [heading |-> state.heading, first |-> state.start, last |-> i - 1])

\* _split_by_h1_h2, line by line; h1 = 0 is None.
Split(doc) ==
    LET after[i \in 0 .. Len(doc)] ==
          IF i = 0 THEN [h1 |-> 0, heading |-> <<>>, start |-> 1, done |-> <<>>]
          ELSE LET before == after[i - 1]
               IN  IF ~IsHeading(doc[i]) THEN before
                   ELSE [h1 |-> IF doc[i].kind = "h1" THEN i ELSE before.h1,
                         heading |-> HeadingAt(doc, before, i),
                         start |-> i, done |-> Flush(before, i)]
    IN  Flush(after[Len(doc)], Len(doc) + 1)

\* The tokens of lines i to j.
Tokens(doc, i, j) ==
    LET upto[k \in 0 .. Len(doc)] == IF k < i THEN 0 ELSE upto[k - 1] + doc[k].tokens
    IN  upto[j]

\* The inner while loop: where the chunk that starts with line i of the section ends.
EndOf(doc, section, i) ==
    CHOOSE j \in i .. section.last :
        /\ Tokens(doc, i, j) >= Target \/ j = section.last
        /\ \A k \in i .. j - 1 : Tokens(doc, i, k) < Target

\* Fault variant: the loop that steps back has gone one line too far.
MutNextOf(doc, i, j) ==
    LET far == {m \in i + 1 .. j + 1 : Tokens(doc, m, j) >= Overlap}
    IN  IF far = {} THEN i + 1 ELSE 1 + CHOOSE m \in far : \A n \in far : n <= m

\* Back over the last lines until they make up the overlap, but on by a line at least.
NextOf(doc, i, j) ==
    LET far == {m \in i + 1 .. j + 1 : Tokens(doc, m, j) >= Overlap}
    IN  IF far = {} THEN i + 1 ELSE CHOOSE m \in far : \A n \in far : n <= m

ChunkAt(doc, section, i) ==
    [heading |-> section.heading, first |-> i, last |-> EndOf(doc, section, i)]

\* _chunk_section: a chunk more in every turn of the outer loop, until one ends with the section.
ChunkSection(doc, section) ==
    LET More(chunks) ==
          LET c == chunks[Len(chunks)]
          IN  IF c.last >= section.last THEN chunks
              ELSE Append(chunks, ChunkAt(doc, section, NextOf(doc, c.first, c.last)))
        after[n \in 0 .. section.last - section.first] ==
          IF n = 0 THEN <<ChunkAt(doc, section, section.first)>> ELSE More(after[n - 1])
    IN  IF Tokens(doc, section.first, section.last) <= Target THEN <<section>>
        ELSE after[section.last - section.first]

\* chunk_markdown
ChunkMarkdown(doc) ==
    LET sections == Split(doc)
        upto[n \in 0 .. Len(sections)] ==
          IF n = 0 THEN <<>> ELSE upto[n - 1] \o ChunkSection(doc, sections[n])
    IN  IF \A i \in DOMAIN doc : doc[i].kind = "blank" THEN <<>> ELSE upto[Len(sections)]

-----------------------------------------------------------------------------
\* The headings that line i of a document stands under, as a reader sees them.
HeadingsOver(doc, i) ==
    LET above == {h \in 1 .. i : IsHeading(doc[h])}
        h1s   == {h \in above : doc[h].kind = "h1"}
        Last(S) == CHOOSE h \in S : \A g \in S : g <= h
    IN  IF above = {} THEN <<>>
        ELSE IF doc[Last(above)].kind = "h1" \/ h1s = {} THEN <<Last(above)>>
        ELSE <<Last(h1s), Last(above)>>

\* What the index relies on: every line of a document is in a chunk; each chunk lies
\* under one heading and names it and its h1; no two chunks have the same line range,
\* for that is what chunk_id is made from; a chunk ends with the line that fills it; and
\* within a section a chunk takes up the overlap of the one before, unless that would
\* be all of it (chunk_markdown).
ChunksCover(doc) ==
    LET chunks == ChunkMarkdown(doc)
    IN  /\ (\E i \in DOMAIN doc : doc[i].kind # "blank") =>
             \A i \in DOMAIN doc : \E n \in DOMAIN chunks :
                 i \in chunks[n].first .. chunks[n].last
        /\ \A n \in DOMAIN chunks :
             LET c == chunks[n]
             IN  /\ c.first <= c.last
                 /\ \A i \in c.first .. c.last : HeadingsOver(doc, i) = c.heading
                 /\ Tokens(doc, c.first, c.last - 1) < Target
                 /\ n > 1 => chunks[n - 1].first < c.first
                 /\ n > 1 /\ chunks[n - 1].heading = c.heading =>
                      LET d == chunks[n - 1]
                      IN  Tokens(doc, c.first, d.last) >= Overlap \/ c.first = d.first + 1

-----------------------------------------------------------------------------
(* A document, line by line.                                               *)

DocumentInit == document = <<>>

WriteLine ==
    /\ Len(document) < MaxDocument
    /\ \E line \in Lines : document' = Append(document, line)

DocumentSpec == DocumentInit /\ [][WriteLine]_document

\* chunk_markdown loses and mixes nothing, whatever it is given.
ChunkLaw == ChunksCover(document)
=============================================================================
