----------------------------- MODULE MCRagIndex -----------------------------
(* RagIndex for TLC, with Chunker for what chunk_markdown makes of a       *)
(* version: a long file goes on under a second heading where a short one   *)
(* ends.                                                                   *)
EXTENDS RagIndex, Sequences

CONSTANTS Target, Overlap, short, long, f1, f2

Chunking(doc) == INSTANCE Chunker WITH Lines <- {}, MaxDocument <- 0, document <- doc

H1 == [kind |-> "h1", tokens |-> 1]
H2 == [kind |-> "h2", tokens |-> 1]

MCVersions == {short, long}
MCDocument == [v \in MCVersions |-> IF v = short THEN <<H1>> ELSE <<H1, H2>>]

RangesOf(doc) ==
    LET chunks == Chunking(doc)!ChunkMarkdown(doc)
    IN  {<<chunks[n].first, chunks[n].last>> : n \in DOMAIN chunks}

MCChunksOf == [v \in MCVersions |-> RangesOf(MCDocument[v])]
MCRanges   == UNION {MCChunksOf[v] : v \in MCVersions}
=============================================================================
