------------------------------ MODULE Chunker ------------------------------
(***************************************************************************)
(* SemanticChunker::chunk_with of rust_markdown_transformer                *)
(* (src/chunker.rs): the blocks of a document are gathered into chunks; a  *)
(* heading of a splitting level begins a chunk, one that would grow past   *)
(* max_tokens is closed and its last blocks are carried into the next.     *)
(*                                                                         *)
(* A block is its heading level, 0 for another block, and the tokens of    *)
(* its Markdown.  HeuristicTokenCounter counts 0 exactly for white space   *)
(* and a heading has at least its "#".  The blocks gathered so far are     *)
(* those from first to done; a chunk keeps the numbers of its blocks and   *)
(* of the headings of its path.                                            *)
(***************************************************************************)
EXTENDS Naturals, Sequences, FiniteSetsExt

CONSTANTS
    Documents,  \* sequences of blocks
    Chunkers    \* settings: max_tokens, overlap_tokens, heading_levels

ASSUME ChunkerAssumption ==
    /\ Documents \subseteq Seq([level : Nat, tokens : Nat])
    /\ \A d \in Documents : \A k \in DOMAIN d : d[k].level > 0 => d[k].tokens > 0
    /\ Chunkers \subseteq [max : Nat, overlap : Nat, levels : SUBSET (Nat \ {0})]

VARIABLES
    doc,        \* the document
    chunker,    \* the settings
    done,       \* how many blocks the loop has handled
    first,      \* cur: the blocks first..done
    curTokens,  \* cur_tokens
    path,       \* path_stack
    chunks,     \* the chunks so far
    returned    \* whether chunk_with has returned

vars == <<doc, chunker, done, first, curTokens, path, chunks, returned>>

TypeOK ==
    /\ doc \in Documents /\ chunker \in Chunkers /\ returned \in BOOLEAN
    /\ done \in 0..Len(doc) /\ first \in 1..(done + 1)

Init ==
    /\ doc \in Documents /\ chunker \in Chunkers
    /\ done = 0 /\ first = 1 /\ curTokens = 0
    /\ path = <<>> /\ chunks = <<>> /\ returned = FALSE

-----------------------------------------------------------------------------
Level(k) == doc[k].level
IsHeading(k) == Level(k) > 0
Splits(k) == IsHeading(k) /\ Level(k) \in chunker.levels

(* render_blocks and count: the blocks are rendered one by one, so their   *)
(* tokens add up.                                                          *)
Tokens(a, b) == MapThenSumSet(LAMBDA k : doc[k].tokens, a..b)
Renders(a, b) == \E k \in a..b : doc[k].tokens > 0

(* cur becomes a chunk, unless nothing is left of it after trim.           *)
Closed(p, n) ==
    IF Renders(first, done)
    THEN Append(chunks, [from |-> first, to |-> done, path |-> p, tokens |-> n])
    ELSE chunks

(* Mutant of Popped: a heading of the same level stays.                    *)
PoppedDeeper(n, l) ==
    /\ n > 0 => Level(path[n]) <= l
    /\ \A m \in (n + 1)..Len(path) : Level(path[m]) > l

(* Headings of level l or deeper are popped until n are left.              *)
Popped(n, l) ==
    /\ n > 0 => Level(path[n]) < l
    /\ \A m \in (n + 1)..Len(path) : Level(path[m]) >= l

(* The path with block k, where only a heading changes it.                 *)
PathWith(k, p) ==
    \/ ~IsHeading(k) /\ p = path
    \/ /\ IsHeading(k)
       /\ \E n \in 0..Len(path) : Popped(n, Level(k)) /\ p = Append(SubSeq(path, 1, n), k)

(* Mutant of Fits: the block itself is not counted.                        *)
FitsAlready(k) == first <= done => curTokens <= chunker.max

(* An empty cur takes any block.                                           *)
Fits(k) == first <= done => curTokens + doc[k].tokens <= chunker.max

(* flush_with_overlap: blocks are carried from the back until they have    *)
(* overlap_tokens or all are carried.                                      *)
CarriedFrom(c) ==
    /\ c > first => Tokens(c, done) >= chunker.overlap
    /\ \A d \in (c + 1)..(done + 1) : Tokens(d, done) < chunker.overlap

-----------------------------------------------------------------------------
(* Mutant of Split: the chunk is not closed.                               *)
SplitNothing(k) ==
    /\ Splits(k)
    /\ PathWith(k, path')
    /\ curTokens' = curTokens + doc[k].tokens
    /\ UNCHANGED <<chunks, first>>

(* A heading of a splitting level closes the chunk and begins the next.    *)
Split(k) ==
    /\ Splits(k)
    /\ chunks' = Closed(path, curTokens)
    /\ PathWith(k, path')
    /\ first' = k /\ curTokens' = doc[k].tokens

Gather(k) ==
    /\ ~Splits(k) /\ Fits(k)
    /\ PathWith(k, path')
    /\ curTokens' = curTokens + doc[k].tokens
    /\ UNCHANGED <<chunks, first>>

(* The path is already that of block k when the chunk before it is closed. *)
Overflow(k) ==
    /\ ~Splits(k) /\ ~Fits(k)
    /\ PathWith(k, path')
    /\ chunks' = Closed(path', Tokens(first, done))
    /\ \E c \in first..(done + 1) :
        CarriedFrom(c) /\ first' = c /\ curTokens' = Tokens(c, done) + doc[k].tokens

TakeBlock ==
    /\ ~returned /\ done < Len(doc)
    /\ Split(done + 1) \/ Gather(done + 1) \/ Overflow(done + 1)
    /\ done' = done + 1
    /\ UNCHANGED <<doc, chunker, returned>>

(* The last chunk is closed.                                               *)
Return ==
    /\ ~returned /\ done = Len(doc)
    /\ chunks' = Closed(path, curTokens)
    /\ first' = done + 1 /\ curTokens' = 0 /\ returned' = TRUE
    /\ UNCHANGED <<doc, chunker, done, path>>

Stop == returned /\ UNCHANGED vars

Next == TakeBlock \/ Return \/ Stop

Spec == Init /\ [][Next]_vars

-----------------------------------------------------------------------------
Inside(k, c) == c.from <= k /\ k <= c.to

(* README.md:345: headings are the first split points, and the text beyond *)
(* max_tokens is split "at block boundaries": every block that renders to  *)
(* something is in a chunk once it has left cur, the chunks come in the    *)
(* order of the document, each brings something new, and a splitting       *)
(* heading is only ever the first block of a chunk.                        *)
ChunksCover ==
    /\ \A k \in DOMAIN doc :
        k < first /\ doc[k].tokens > 0 => \E i \in DOMAIN chunks : Inside(k, chunks[i])
    /\ \A i, j \in DOMAIN chunks :
        i < j => chunks[i].from <= chunks[j].from /\ chunks[i].to < chunks[j].to
    /\ \A i \in DOMAIN chunks, k \in 1..done :
        Inside(k, chunks[i]) /\ Splits(k) => k = chunks[i].from

(* The rule of flush_with_overlap and of its caller (chunker.rs:135-146):  *)
(* token_count is the number of tokens of the chunk; a chunk that takes a  *)
(* block behind text of its own stays within max_tokens, with no overlap   *)
(* behind any text; a chunk ends before a block that is no splitting       *)
(* heading only if that one would not fit; and what is carried reaches     *)
(* overlap_tokens with its first block, not earlier.                       *)
LimitsKept ==
    \A i \in DOMAIN chunks :
        LET c == chunks[i]
            behindOwn == i = 1 \/ chunks[i - 1].to < c.to - 1 \/ chunker.overlap = 0
        IN  /\ c.tokens = Tokens(c.from, c.to)
            /\ Renders(c.from, c.to - 1) /\ behindOwn => c.tokens <= chunker.max
            /\ c.to < done /\ ~Splits(c.to + 1) => c.tokens + doc[c.to + 1].tokens > chunker.max
            /\ i > 1 /\ c.from <= chunks[i - 1].to =>
                Tokens(c.from + 1, chunks[i - 1].to) < chunker.overlap

(* What chunker.rs:74 says: max_tokens is the maximum of tokens per chunk, *)
(* unless a block is larger by itself, as blocks are not cut.  The code    *)
(* does not keep this: it takes a block behind carried ones unchecked.     *)
WithinMaxTokens ==
    \A i \in DOMAIN chunks :
        LET c == chunks[i] IN
        (\A k \in c.from..c.to : doc[k].tokens <= chunker.max) => c.tokens <= chunker.max

(* The headings block k lies under, its own included: those with no        *)
(* heading of their level or above between them and k.                     *)
Ancestors(k) ==
    {j \in 1..k : IsHeading(j) /\ \A i \in (j + 1)..k : IsHeading(i) => Level(i) > Level(j)}

IsPathOf(p, k) ==
    /\ \A n \in DOMAIN p : p[n] \in Ancestors(k)
    /\ \A j \in Ancestors(k) : \E n \in DOMAIN p : p[n] = j
    /\ \A m, n \in DOMAIN p : m < n => p[m] < p[n]

(* chunker.rs:116-139: a chunk that is closed by a splitting heading, by a *)
(* block that is no heading or by the end of the document carries exactly  *)
(* the headings its last block lies under, outermost first.  The chunks    *)
(* that are closed by a heading that does not split are left out; of them  *)
(* CarriesAncestorPath speaks.                                             *)
PathsTrue ==
    \A i \in DOMAIN chunks :
        LET c == chunks[i] IN
        (c.to < done /\ IsHeading(c.to + 1) => Splits(c.to + 1)) => IsPathOf(c.path, c.to)

(* What README.md:345 says: "Every chunk carries its ancestor heading      *)
(* path", that of one of its blocks at least.  The code does not keep      *)
(* this: a heading that does not split but overflows the chunk is in the   *)
(* path when the chunk before it is closed.                                *)
CarriesAncestorPath ==
    \A i \in DOMAIN chunks :
        \E k \in chunks[i].from..chunks[i].to : IsPathOf(chunks[i].path, k)
=============================================================================
