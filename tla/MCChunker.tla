----------------------------- MODULE MCChunker -----------------------------
(* All short documents over headings of three levels and blocks of four    *)
(* sizes: white space, less than the overlap, about max_tokens and more    *)
(* than that; the overlap is off, small, and as large as max_tokens.       *)
EXTENDS Chunker, SequencesExt

MaxBlocks == 5

SampleBlocks ==
    [level : {0}, tokens : {0, 1, 2, 4}] \cup [level : {1, 2, 3}, tokens : {1}]

SampleDocuments == BoundedSeq(SampleBlocks, MaxBlocks)

SampleChunkers == [max : {3}, overlap : {0, 1, 3}, levels : {{1}, {1, 2}}]
=============================================================================
