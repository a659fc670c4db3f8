--------------------------- MODULE MCSearchEngine ---------------------------
(* An instance of SearchEngine: a source with a limiter that retries and   *)
(* one without.  The first search asks both; the others share a cache key  *)
(* that selects arxiv only.                                                *)
EXTENDS SearchEngine

CONSTANTS arxiv, blog, q1, broad, narrow

TwoKeys == [q \in Searches |-> IF q = q1 THEN broad ELSE narrow]
SourcesOfKey == [k \in Keys |-> IF k = broad THEN Sources ELSE {arxiv}]
Intervals == [s \in Sources |-> IF s = arxiv THEN 1 ELSE 0]
=============================================================================
