# Verification of rust_ai_core_stack

TLA+ models, TLC runs and TLAPS proofs for the programs that this repository
contributes itself. Paths below are relative to the repository; `serving/` is
short for `rust_ai_serving_engine/crates/rust_ai_serving_engine_`, `scholar/`
for `rust_scholar_transformer/src/`, `ranking/` for
`rust_multi_ranking_engine/src/`, `pii/` for `rust_pii_transformer/src/` and
`markdown/` for `rust_markdown_transformer/src/`.

    tlc -workers 2 -config MCModelRegistry.cfg MCModelRegistry
    tlapm ServingProofs.tla

## 1. Inventory

Most of the repository is a collection of third-party projects (burn, candle,
lancedb, llm, openfang, polars, qdrant, rhai, rig, RustGPT, tokenizers,
turbovec, zeroclaw). They are not modelled. The repository's own programs:

| part | state | operations | hard behaviour | modelled in |
|---|---|---|---|---|
| model registry (`serving/core/src/registry.rs`), `serve model ...` commands (`serving/cli`) | one TOML manifest per model id, a temporary file | `import_local`, `attach_tokenizer`, `get`, `verify`, `write_manifest_atomically` | several processes, crashes between system calls, files replaced under it | `Manifest`, `ManifestStore`, `ModelRegistry` |
| session cache (`serving/models/src/session.rs`) | map from model and device to a loaded session | `get_or_load`, `clear` | the mutex is released during hashing and loading; the registry changes meanwhile | `SessionCache` |
| generation (`serving/core/src/generation.rs`, `serving/api/src/lib.rs`, decoders) | tokens, KV position, how much text was handed out | `generate_with`, `run_generation` | characters split over tokens, stop strings split over deltas, clients that leave | `TokenStream` |
| HTTP API (`serving/api/src/lib.rs`) | session mutex, KV cache, event channel | `complete`, `chat_complete`, `chat_stream` | blocking send under a mutex, disconnects, stalled clients, panics | `ChatService` |
| search fan-out (`scholar/engine.rs`, `ratelimit.rs`, `cache.rs`, `sources/arxiv.rs`) | tasks of every search, limiter per source, cached reports | `Engine::search`, `MinIntervalLimiter::acquire`, `DiskCache::get/put`, `ArxivSource::fetch` | shared limiter, timeouts, retries, dropped futures, late timers | `SearchEngine` |
| fusion and deduplication (`scholar/fusion.rs`, `dedup.rs`) | ranked documents, union-find forest, LSH buckets | `fuse`, `merge_docs`, `near_dedup`, date filter, limit | order of arrival, order of a `HashMap` | `RankFusion` |
| ranking engine (`ranking/engine.rs`, `select.rs`, `constraint.rs`, `objective.rs`, `fuse.rs`, `evidence.rs`) | heap, slab, free list, pool, chosen set, rejections | `Engine::run`, `BoundedHeap::push`, `Selector::run` | reuse of slab positions, order of arrival, repair of lower bounds, what greedy may promise | `CandidatePool`, `RankingEngine` |
| PII normalisation (`pii/span.rs`, `pii/normalize/`) | normalised text and its span table | five passes, `SpanMapBuilder`, `compose`, `to_source` | offsets in bytes and characters through five rewritings; texts that shrink, grow and lose separators | `SpanMap`, `Normalize`, `Normalization` |
| PII detection (`pii/detect/`) | findings, rejections | three scanners, `detect`, `drop_contained` | findings that overlap or contain each other | `Detect`, `Masking`, `PiiPipeline` |
| PII masking and restoring (`pii/mask/`) | cursor, result, applied and skipped findings, restore map | `mask_findings`, `for_text`, `push`, `unmask` | overlaps, texts that already look masked, restoring as the inverse of masking | `Masking`, `Restore`, `PiiPipeline` |
| semantic chunker (`markdown/chunker.rs`) | gathered blocks, heading stack, chunks | `chunk_with`, `flush`, `flush_with_overlap` | two kinds of boundaries, blocks carried over, order of the path update | `Chunker` |
| markdown parsers and renderer, `rust_ocr_transformer` | documents and images in memory | parse, render; sample, recognise, merge | file formats and inference | no, see sections 6 and 7 |

How the parts interact. The commands and the API share the registry through
files only. The API asks the session cache, which reads the registry, verifies
the digests and loads. A session is used by one request at a time under its
mutex; within a request `run_generation` drives the decode loop and hands
deltas to the event channel. `SessionCache` therefore sits on `ManifestStore`,
the abstract registry, and `ModelRegistry` is shown to implement that same
module; `ChatService` takes sessions as given and leaves open what a generation
sends, which `TokenStream` says. `SearchEngine` says which sources' answers
arrive and when; `RankFusion` says what is done with them in any order.
`RankingEngine` extends `CandidatePool`: the pool is the interface.
`PiiPipeline` composes the parts of the PII program as `mask` does: the passes
build span tables (`Normalize` on `SpanMap`), which `Normalization` composes, the scanners search the normalised
text (`Detect`), the tables take the findings back to the source, where
`Masking` works, and `Restore` takes the result back.

What makes each part correct, in a line: readers never see half a manifest and
Ok means published; a session is of a registered version and of verified bytes;
the stream is the text and stop strings do not get out; requests do not mix
their KV caches and nobody waits for ever; sources are called at their interval
and at a bounded rate, and no failure is lost; the ranking is what the formula says; no candidate
disappears and every promised bound holds; a finding leads back to exactly the
characters it comes from, nothing else is touched, nothing found stays visible
unnoticed and unmasking undoes masking; no block of a document is lost between
chunks, and each chunk has its headings and its size. `PROJECT.json` lists the
hazards, each with its line and the properties that are about it. Three of them
no property catches, and a note says why: an import that a slower
`attach_tokenizer` of the same id undoes, a file that is replaced between its
verification and its load, and the margin of a repaired selection. The code does
not rule these out and does not claim to.

## 2. The modules

**Manifest** has the data of a registry: manifests, files and their contents
(a digest is the content it is of). **ManifestStore** is the abstract registry:
`shelf[id]` is a manifest or nothing, `Register` and `Attach` change it in one
step. `raced` holds the ids on which two commands have overlapped; on those
`Collide` may do anything (the code has no lock between processes).

**ModelRegistry** is the same at the level of system calls. A writer process
goes through `ImportHash` or `AttachRead`, `AttachHash`, then `CreateTmp`
(truncates `<id>.toml.tmp`), `WriteTmp` (through its own descriptor, which may
by now be another name's inode: `Overlay`, `AfterRename`) and `RenameTmp`; a
pull continues with `PullTokenizer`. `Abort` kills a process or fails a call
anywhere. `Store == INSTANCE ManifestStore WITH shelf <- ...` reads the files
through `get`.

**SessionCache** has one action per stretch of `get_or_load` between two
releases of the map's mutex or two reads of a file: `Call` (registry.get),
`LookupHit`, `LookupMiss`, `VerifyGet`, `VerifyWeights`, `VerifyTokenizer`,
`LoadTokenizer`, `LoadDecoder`, `LoadFails`, `Insert`; `Clear`; and the world:
`RegistryStep` (a step of `ManifestStore`) and `ReplaceFile`. `seen`, `dirty`
and two fields of a session are history variables for the properties.

**TokenStream** is one request: `Prefill`, then per token `SampleToken` (which
decodes everything so far, holds the text back while it ends in an incomplete
character, cuts it at a stop string or sends what cannot be part of one any
more) or `SampleStop` or `MaxReached`, then `Flush`. Tokens are sequences of
units, a wide character is two units that may be in different tokens, and
`Decode` shows a half character as the replacement character. The sampler may
choose any token.

**ChatService** has requests in phases; `Serve(r)` is the next step of the
thread of `r`: resolve the session, `Acquire` the mutex, `Prepare`, `SendRole`,
`Prefill`, `SendDelta`, `EndGeneration`, `SendFinish`, `SendDone` or `SendError`,
`Release`. `Send` waits while the channel is full and fails when the client is
gone. `Panic` ends a thread while it holds the mutex; poisoning is recovered
from, as `unwrap_or_else(into_inner)` does. `Receive` and `Disconnect` are the client.

**SearchEngine** has a task per search and source with the stages waiting (for
a slot of `buffer_unordered`), queue (for the limiter's mutex), sleep (inside
it), call, backoff, ended. `Lock` and `Wake` are `acquire`, `Respond`, `Refuse`
and `Retry` the source, `TimedOut` the timeout around the call, `Finish` makes
and caches the report, `Cancel` drops the whole future (and the mutex guards in
it), `Evict` loses a cache entry. Time is a counter: `Tick`. `sent`, the requests
each source was sent, is a history variable.

**RankFusion** has one step per iteration of a loop: the sources answer in any
order (`Collect`); `fuse` enters or merges one document after the other
(`StartFuse`, `FuseNext`) and sorts (`Rank`); the buckets are visited in any
order (`Visit`) and their pairs compared in theirs, with union and path
compression (`Compare`); `near_dedup` merges every document into the base of its
group (`StartMerge`, `MergeNext`); and the report is made (`Deliver`). `todo`
holds what a loop has still to visit. The path to a root and the component of a
document are least closed sets, and the stable sort lists a strict total order,
so that nothing in the module is recursive. Scores are whole numbers of
`1 / Unit`, which every `1 / (k + rank)` is. MinHash signatures are constants.

**CandidatePool** and **RankingEngine** are `Engine::run`: `Start` (validate),
`RejectUnary`, `RejectUnscored`, `Accept`, `Evict`, `Refuse` for one candidate,
then `BuildPool` (expensive scores, fusion, threshold, order, budget) or
`BatchMismatch`; one `Pick` per round of a greedy; `EndCount`, `EndRatio`,
`EndGain`; `Repair` and `NextRequirement`; `Report`. Candidates are taken from
the input in any order, so one run covers all orders of arrival.

**SpanMap** is the span table: a sequence of segments that tile the source and
the normalised text, with points as pairs of a byte and a character offset.
`AddCall` is one call of the builder, `Walk` the loop of `compose` with its
search for the next point where both tables may be cut (`NextCut`), `ToSource`
takes a span back and `Valid` is `validate`. Loops are written with `Repeat`, the
value after n runs of the body; the loops of the code end after at most as many
as there are segments or characters. **Normalize** has what each pass
finds at a position (`NfcAt`, `FoldAt`, `HangulAt`, `LookalikeAt`,
`SeparatorAt`) and the loop they share (`Apply`). **Normalization** runs one pass
per step (`RunPass`) and composes its table with the one so far. **Detect** has
the scanners as sets of ranges. **Masking** begins with what was found, as it is
or with what lies inside a wider finding removed (`DropContained`), and walks it
in the order of the places: `SkipFinding`, `ApplyFinding`, `FinishMask`; its result is a
sequence of pieces, copied, replaced or tokens. **Restore** chooses the prefix
(`ForText`), spells tokens and reads them (`Unmask`). **PiiPipeline** joins them:
the steps of `Normalization`, then `DetectAndMask`, the steps of `Masking` and
`UnmaskText`. Which candidates pass their evaluation is an arbitrary subset, but
an address always passes. `origin` is a history variable: which characters of
the source a character of the normalised text comes from, kept without the
tables.

**Chunker** takes one block per step: `Split` (a heading of a splitting level
closes the chunk), `Gather`, or `Overflow` (the chunk is closed and its last
blocks are carried over); `Return` closes the last chunk. The gathered blocks
are always a stretch of the document, so `cur` is kept as where it begins.

The `MC*` modules only give values to constants. `MCTransformers` and
`MCRankers` take two programs each that share nothing: a behaviour runs one of
them (`program`), the other rests at its beginning on an empty input, so the states are
those of the one and those of the other and never pairs. The `*Proofs` modules hold the
theorems. Every definition that models code is mapped to its lines in
`PROJECT.json`. Definitions whose comment begins with "Mutant of" are variants
with a plausible bug, one for every property; with each of them in place of the
original the property fails.

### Abstractions

- Digests are the contents they are of; there are no collisions.
- Scores are integers, or fractions over a common multiple. Rounding of floats
  and their overflow are left out, so are equalities that only rounding makes.
- Signatures of documents are given, not computed from text; the same for the
  power-law fit of `derive_budget`: K is any number up to the pool's size or
  the configured fallback.
- The candidates of one input have different ids (`candidate.rs` requires it).
- Timings, logging, JSON and wording are left out.
- The alphabet of the PII model has 22 units: one or two members of each class
  of characters that a pass or a scanner tells apart, and a domain and the marks
  of tokens as units of their own, with the width they have in bytes. Digits are
  not told apart. The four counters of a normalisation cost are one.
- A block of a document is its heading level and its number of tokens. The
  blocks are rendered one by one, so the tokens of a chunk are their sum.

## 3. The runs

| run | instance | what it shows |
|---|---|---|
| `registry` | 2 processes, 1 id, 2 weight files, 1 tokenizer file, 2 contents | `NeverTorn`, `AckPublishes` and `ImplementsStore` hold on every id on which commands did not overlap, whatever dies, is left behind or is replaced |
| `registry_race` | the same | violation: `ManifestAtomic` without that restriction |
| `session_cache` | 2 threads, 1 model, 2 contents | `FreshAtReturn`, `CacheIntegrity`; `ReloadsStop`: threads with different versions cannot evict each other for ever |
| `session_tokenizer` | 1 thread, 2 tokenizer contents | violation: `HitHasRegisteredTokenizer` |
| `token_stream` | up to 4 tokens of 6, 6 sets of stop strings | `StreamedIsText` (which also says that no character is taken back), `HoldbackSuffices`, `ReasonIsTrue`, `Ends` |
| `stop_leak` | the same | violation: `StopNeverReturned` |
| `chat_service` | a streaming and a plain request on one model, a stalling client on another, channel of 1, 2 deltas | `KvIsolation`, `LockDiscipline`, `StreamWellFormed`, `DisconnectFrees`, `Answered` |
| `search` | 3 searches with 2 cache keys, 2 sources, 2 slots, interval and timeout 1, one retry, a prompt executor | `EveryAccounted`, `BoundedDelay`, `RateBounded`, `CallsSpaced`, `Finishes` |
| `rankers` | fusion: 3 sources with up to 2 documents, 3 queries; ranking: 4 of 6 kinds of candidates in every order, 14 configurations | `FusedIsRRF`, `GroupsAreComponents`, `UniqueIdentity`; `SlabSound`, `PoolIsBest`, `Complete`, `BoundsHold`, `PromiseHolds`, `NothingFits`, `MarginIsLead` |
| `transformers` | PII: all texts of up to 2 of 22 characters, texts of up to 4 or 5 over seven themes, two sets of passes, three policies; chunker: all documents of up to 5 blocks of 7 kinds, 6 settings | `MapIsValid`, `SourceIsOrigin`, `ComposeAssociates`, `OutsideUntouched`, `NothingLeaks`, `RoundTrip`; `ChunksCover`, `LimitsKept`, `PathsTrue` |
| `chunk_limit` | the chunker as above | violation: `WithinMaxTokens` |
| `chunk_path` | the chunker as above | violation: `CarriesAncestorPath` |

Why the bounds are enough to be interesting. Two writers on one id show every
pairwise race; a third adds no new kind of overlap, and the proofs cover any
number. Two contents tell old from new. Four tokens are enough for a stop string of
three characters that begins before, and ends after, a held-back character. A
channel of one event is full after every send, so every send blocks in some
behaviour. It takes three searches for one to come to the limiter while another
sleeps in it; two of them share a cache key. With an interval of 1 and
a timeout of 1, the queue of three searches, an attempt, a refusal, a retry and a
timeout fit before `MaxTime`. Cache entries live until the end of the instant
they are made in, and `Evict` loses them earlier; timers that fire late
(`Prompt` FALSE) are left to the proofs, which cover both. With three sources a
document can be found twice and a near
duplicate chain (A like B, B like C, A unlike C) spans all of them. With four
candidates and pools of two to six the heap evicts, refuses and stays open, and
repair swaps, adds and gives up. The engine that promises 1 - 1/e chooses 2 of a
pool of 4, where greedy can be worse than the best choice. The themes of the PII
program put next to each other what one
pass makes and the next one reads: jamo that compose to numerals, numerals that
become digits next to separators, look-alikes between digits, addresses that
contain digits, marks of tokens with digits between them. Three constants of
the program are scaled down so that five characters reach both sides of them:
the shortest passport number has 2 digits instead of 7, numerals without context
need 3 instead of 6, and context is looked for over 1 blank instead of 2. In no
text does a pass put a boundary inside what an earlier pass replaced by several
characters, so the branch of `compose` that groups segments for that reason is
not reached; the proof of `ComposeTable` covers it. With `max_tokens` 3, blocks of 0, 1, 2 and 4 tokens and an overlap of
0, 1 or 3, chunks are closed by headings and by size, one block alone is too
large, and everything is carried over. `LastStart` and `MaxTime` bound the clock;
`MaxTokens`, `MaxDeltas`, `MaxRetries` and `MaxRank` are bounds of the program
or of the answer.

No run disables the check for deadlock: a state with nothing left to do has an
explicit idle step (`Idle`, `Finished`, `AtEnd`, `Stop`).

### Fairness

- `TokenStream`: weak fairness of `Step`; the decode loop is a loop on one
  thread that waits for nobody. Not of `Break` or `Disconnect`.
- `ChatService`: weak fairness of `Serve(r)`, since blocking threads are run by
  the operating system and the mutex is released in the end (a thread that
  waits for a mutex that is handed to others again and again is not at issue:
  there are finitely many requests), and of `Receive(r)` for clients that are
  not in `Stalling`: hyper drains the channel of a connection whose peer reads.
  `Answered` excludes requests that share a model with a client that may stall;
  no timeout in the code covers that case.
- `SearchEngine`: weak fairness of `Tick` and of `Proceed(q)`: the executor runs
  what is ready and time passes. None of `Respond`: a source may never answer.
- `SessionCache`: none. `ReloadsStop` says that from some point on nothing is
  inserted if the registry, the files and the map are left alone, which needs
  no fairness.

## 4. Proofs

All theorems are about any number of processes, threads, sources and so on. The
assumptions are the named `ASSUME`s of the component modules: the
placeholders (`None`, `Missing`, `Absent`, ...) are not values of the data, parameters
have their types, and what the program keeps in a vector or counts (sources,
searches, stop strings, topics) is finite. TLC evaluates each of them in some
run. Every inductive invariant below was an invariant of a TLC run before it was
proved.

- `ServingProofs`, registry: `RegTypeOK`, `NeverTorn`, `AckPublishes` and the
  refinement `ImplementsStore`. The inductive invariant `RegInv` adds what a
  process relies on in mid-command: `JobInv` (what it has in its hands),
  `RaceInv` (two processes in a command on one id have been noticed) and
  `AloneInv` (a process alone on its id owns the temporary file, and the
  manifest it read is still the registered one). `NeverTorn` is not inductive
  without it: rename publishes whatever the temporary file holds.
- `ServiceProofs`, session cache: `CacheTypeOK`, `FreshAtReturn`, `CacheIntegrity`. `CacheInv`
  adds `CallInv`, `VerifiedInv` (what `verify` established still holds of the
  files or of what was read from them, unless they were replaced) and `SeenInv`.
- `ServingProofs`, generation: `StreamedIsText`, `HoldbackSuffices` and `ReasonIsTrue`,
  for any vocabulary, stop strings of any length and number and any limit. The
  first part is about texts: `Decode` is the concatenation of what each unit
  contributes, so one more token leaves the decoded text as it is up to an
  incomplete last character (`Grows`), and the text a delta may end at stays
  free of stop strings, and of their beginnings, in every continuation (`Safe`).
  `StreamInv` then says that what was emitted is `Safe`, that the client has it
  (or a beginning of it, if it left), and that a cut is at the first stop string.
- `ServiceProofs`, requests: `KvIsolation`, `LockDiscipline` and the types (an event
  channel never exceeds its capacity), from `ServiceInv`: the types, the lock
  discipline, and the KV cache of a decoding request. `StreamWellFormed`, from
  `EventInv`: at every phase of a request it is known what the last event of the
  stream of a client that stays can be (`StreamAt`); without the phase no event
  could be shown to follow rightly.
- `SearchEngineProofs`: `CallsSpaced`, from `LimiterInv` (a task that sleeps
  holds the mutex and sleeps until one interval after the last pass, which
  nobody has changed since); `EveryAccounted`, from
  `AccountInv` (a task that ended has a result, a cached report accounts for its
  key's sources). `BoundedDelay`, from `DelayInv`: `Ahead(q, s)` are the other
  searches that have passed the limiter of `s` or will not come to it any more,
  and `Due(q, s)` is the beginning of `q` and one interval for each of them.
  `InTime` says that the next pass of a limiter is never later than the due time
  of a task that waits for it. A pass takes an interval and adds one to `Ahead`;
  a cancelled sleep frees the limiter before it was due; and a prompt executor
  lets time pass only when every waiting task has another that sleeps before it.
  `RateBounded`, from `RateInv`: what a source was sent, and what the tasks that
  are past its limiter may still send it as retries (`Owed`), fits into the intervals
  up to the limiter's last pass (`WithinRate`). Without `Owed` this is not
  inductive, since retries come after the pass they belong to; with it a retry
  changes nothing, a pass adds one request and its retries, and the end of a task
  only takes away.
- `RankFusionProofs`: `FusedIsRRF`, `UniqueIdentity` and `GroupsAreComponents`,
  for any sources, answers and signatures, whatever the order of arrival and of
  the buckets. The assumptions are that a document has a title hash, that an
  answer is a finite list and that `Unit` is a multiple of every `k + rank`. The
  invariant follows the phases. While `fuse` runs, the map collects what was
  visited (`Collects`): it has one document per identity, with the sum of the
  shares and the union of the sources of its finds; merging leaves the key, since
  what is merged has the same one (`FuseAdds`). The sort is by a strict total
  order, and listing such an order loses and repeats nothing (`Places`, `Listing`).
  In the union phase every path of the forest ends in a root, trees lie within
  components, and linked documents are in one tree or still to be compared. The
  roots are characterised as a labelling that is constant along the forest
  (`RootIs`), so that compression keeps them and union changes them for one tree
  only. With nothing left to compare, trees are closed under links and therefore
  the components. While groups are merged, a base has its own score, the sources
  of what it absorbed and the key of one of its group (`MergedKey`); groups are
  disjoint and keys were unique, so they stay so.
- `RankingEngineProofs`: `SlabSound` and `PoolIsBest`, from `PoolInv`. The key
  part is `Positions`: there is never more than one free position, and only
  when the heap is full, so the slab has exactly as many positions as slots and
  free entries together. `Order` states that comparing slots is a total
  preorder; with it the three outcomes of a push keep the heap the best of what
  was read. `BoundsHold` and `MarginIsLead`, from `ChoiceInv`: in every state
  what is chosen, by either greedy, repaired or not, is within the bounds
  (`IsChoice`), and the last place was won by the key that the margin is
  measured by (`LastLeads`). The bounds are kept because a check against one
  candidate (`Admits`) is a check of the set with it, sums of costs included.
  `NothingFits`, from `FullInv` (`Maximal` when a greedy has ended, `WorthFirst`:
  the greedy by gain is worth its first pick, so a single candidate never
  replaces it): it assumes `[]ScoresCount`, no fused score is negative. That
  holds of reciprocal ranks and of scores in the unit interval under weights
  that are not negative; the code does not check the sign of a weight, and with
  a negative one a single candidate can replace both greedies. TLC finds
  `ScoresCount` true on the instance. `Complete`, from `CountInv`: `LogInv` (what is
  kept of the rejections is what the policy allows, each candidate once) and
  `LeftInv` (what was read is the rejected ones and those that are left).
- `TransformerProofs`, masking: `MaskTypeOK`, `OutsideUntouched`,
  `SkippedForCause`, `NothingLeaks` and `TokensHaveEntries` for texts of any
  length and any finite set of findings. `MaskInv` joins them with `LoopInv`: the cursor is 0 or the end of
  an applied finding, and no finding that is left begins before one that was
  applied. Without it a skip would have no cause to show. For `NothingLeaks` it also
  has that whatever was found lies within a finding that is left, applied or
  skipped; in the beginning because the widest of the findings around one that
  `drop_contained` removes is itself kept. The specification is
  that of `Masking` alone, where the findings are arbitrary; in `PiiPipeline`
  they come from the scanners.
- `SpanMapProofs`: what the builder and `compose` make, for any character widths
  and tables of any length. Bytes and characters rise together, so the points of
  a text are a ruler: a point is known by its byte (`Points`, `Ruler`). A `Sound`
  segment goes from points to points and is one that `validate` accepts; a
  `Table` is sound segments that tile both sides. `BuildTable`: calls that
  between them hand over the whole text (`Hands`) build a table of it and of what
  was written. `ComposeTable`: if the second table begins with the points the
  first one ends in, and its identity segments take points to points (`Joint`),
  `compose` succeeds and gives a table from the first source to the last text.
  Each table is seen from the text between them as a rail of intervals (`Rail`); the
  walk stands at a point where both can be cut (`Standpoint`), never inside a
  segment that is not an identity. `CutInv`, the invariant of the search for the
  next cut, says that the two segments at a cut overlap, so that a cut that may
  not be made is widened by a segment that exists; what lies between two cuts is
  a `Group`. `Place`, that of the walk, that what was emitted tiles both sides so far
  and that every turn uses up a segment, so that the number of turns allowed is
  enough and no segment is left. The loops are unrolled as the
  functions of their values (`CutRun`, `WalkRun`, `BuildRun`).
- `TransformerProofs`, normalisation: `TablesStayValid`, that is `MapIsValid`,
  for texts of any length, any choice of passes, widths and limits of numerals.
  Of each pass it is shown that what it finds at a position is a stretch of the
  text that begins there and is not empty (`AtFinds`), so the calls of its loop
  hand over the whole text (`PassHands`). The inductive invariant `Mapped` says
  more than `MapIsValid`: the segments of the table end between two characters of the
  text. `validate` does not check that, and without it `compose` may find no
  common cut. The specification is `NormSpec`, the steps of `Normalization`; in
  `PiiPipeline` the same steps come first and the rest leaves the table alone.
- `TransformerProofs`, chunker: `TypeOK`, `ChunksCover`, `PathsTrue` and
  `LimitsKept` for every document and setting. `ChunkInv` adds `PathInv` (the
  stack is the path of the last block and gets deeper from heading to heading)
  and `CurInv` (no splitting heading is among the gathered blocks except as the
  first, and they end behind every chunk) and `AllPaths`, what the code does with
  the path of every chunk, those closed by a heading that does not split included:
  `PathsTrue` is the part of it that is meant. `LimitInv` is `AllKept`, when a chunk
  may be larger than `max_tokens`, and `CurKept`, the same of the gathered
  blocks before they are closed; `LimitsKept` follows with the carried tokens
  below `overlap_tokens`.
- `DataInduction` has what these need about data. The library's induction
  theorems take a predicate, which the provers cannot instantiate; but it also
  says, for sets, that strict inclusion of finite sets is well founded. From that
  follow induction over the naturals and over the subsets of a finite set, for a
  set in place of the predicate, and the rules for the sums that `MapThenSumSet`
  computes: adding an element, comparing sets, equal weights. `ServingProofs`
  gets from them what a fold over a sequence computes.

The type invariants of `SessionCache`, `ChatService`, `Masking` and `Chunker`
are proved and not repeated in the runs.

Only model-checked:

- everything about liveness (`Ends`, `DisconnectFrees`, `Answered`, `Finishes`,
  `ReloadsStop`), which is out of the prover's reach;
- `PromiseHolds`: that greedy reaches its factor is a theorem about matroids and
  submodular functions, whose proof exchanges elements of two arbitrary
  choices; the run compares with every other choice;
- of the PII program, what is about the content of texts: `SourceIsOrigin` and
  `ComposeAssociates` (where the tables lead, beyond their being sound) and
  `RoundTrip`, whose `Unmask` reads a text recursively, with
  which the prover loses its arithmetic.

## 5. Known divergences between the code and its documents

Shown by runs:

1. *The manifest is written atomically* (README:202 of the serving engine): not
   if two commands on one id overlap, because the temporary file has one fixed
   name (`registry_race`). One process can publish the file another has just
   truncated.
2. *The cache is invalidated when a file changes* (README:65-66): the cache
   compares the digest of the weights only; after `attach-tokenizer` the old
   tokenizer is used until the process restarts or `clear` is called
   (`session_tokenizer`).
3. *Only the text before a stop string is returned* (README:401-403): a token
   that completes a stop string and begins a multi-byte character is not
   searched, and if it is the last one neither is the final text (`stop_leak`).
4. *The maximum number of tokens per chunk* (`markdown/chunker.rs:74`): not even
   when every block fits. The block that overflows is taken behind the carried
   ones without another check, so a chunk can have nearly twice as many tokens
   (`chunk_limit`); with `overlap_tokens` at or above `max_tokens` a chunk contains
   the one before. `LimitsKept` says when the limit holds.
5. *Every chunk carries its ancestor heading path* (README:345 of the markdown
   transformer): a chunk that overflows at a heading that does not split gets
   the path of that heading, which is behind it (`chunk_path`). `PathsTrue` is about
   all other chunks.

Seen while modelling and not checked by a run of their own:

6. *The same result set always yields the same order* (README:45 of the scholar
   transformer): documents with equal scores keep the order in which their
   sources answered, because the sort at `scholar/fusion.rs:48` is stable and the
   first documents of two sources always tie.
7. *The model is loaded only once* (README:729): two threads that miss at the
   same time both load; the second insertion replaces the first.
8. *Decoding stops at the next token boundary when the client disconnects*
   (README:488): it stops at the next delta that is sent, and none is sent while
   text is held back.
9. *One connection at a time for arXiv* (`scholar/sources/arxiv.rs:144`): the
   policy's `max_concurrency` is not used; two searches can have requests open
   at once.
10. *The limiter enforces the interval between requests* (`scholar/ratelimit.rs:1`):
   the retry of a refused request does not go through it. `CallsSpaced` is about
   calls that do; `RateBounded` says what holds with the retries.
11. *Source authority is a tie-breaker* (README:325): it is computed and not
   compared.
12. `cut_margin` is measured by gain per cost for token budgets, although the
    greedy by gain may have been the one that won; then it can be negative.
    `MarginIsLead` excludes that case. The branch of a single best candidate
    never wins when gains are not negative: the greedy by gain begins with it.
13. Two findings that overlap without one containing the other are not both
    masked: the later one is skipped, and its part outside the first stays
    visible. It is listed in `skipped` (`NothingLeaks`), which the caller has to
    look at.

## 6. Not modelled

The sampler's arithmetic, tensor code and GPU kernels, chat templates, parsing
of feeds and file formats, Python bindings, the encoding of the disk cache, the
power-law fit of the budget, the checksums and scores of PII candidates, the
synthetic PII data, the markdown parsers and renderer, neural inference of the
OCR program. They are numeric or textual and have no state that several actors
share. The collected third-party projects make up nearly all lines of the
repository; they are other projects' programs, with their own specifications to
write, and are left out on purpose.

## 7. Plan

Done, in this order: registry with its refinement; session cache; generation;
HTTP service; search engine; fusion; ranking engine; the PII program from
normalisation to restoring; the chunker; proofs about all of them except
restoring.

Next, the most valuable first:

1. Proofs of `SourceIsOrigin` and `ComposeAssociates`, on top of `SpanMapProofs`:
   the segment of a composed table covers exactly the segments it was made of.
2. A composition of `SessionCache` and `ChatService`: a session that is replaced
   in the cache while requests still use it.
3. PII detection: the choice among the entities of one run of digits, and its
   rejections.
4. OCR sampler and temporal merge: frames, scene changes and merged text.
