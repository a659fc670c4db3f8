---------------------------- MODULE SessionCache ----------------------------
(***************************************************************************)
(* The process-wide cache of loaded models                                 *)
(* (rust_ai_serving_engine_models/src/session.rs) over the registry that   *)
(* other processes keep changing (ManifestStore) and over weight and       *)
(* tokenizer files that anybody may replace.  Threads are the threads      *)
(* that call SessionCache::get_or_load.  The map's mutex is held for the   *)
(* look-up and for the insertion only, each of which is one action; the    *)
(* digests and the load, which take seconds, run without it.               *)
(***************************************************************************)
EXTENDS ManifestStore

CONSTANTS
    Devices,        \* DevicePreference values callers pass
    Threads,        \* threads that call get_or_load
    Gguf,           \* the weight paths whose manifest says format = "gguf"
    Supported       \* the architectures load_gguf_decoder has a decoder for

Keys == Ids \X Devices

(* A ModelSession: the bytes its decoder and its tokenizer were made from. *)
(* The last two fields are history: the tokenizer digest verify() accepted *)
(* and whether somebody replaced a file of the model between verify() and  *)
(* the moment the load read it.                                            *)
ModelSessions ==
    [weights : Contents, tokenizer : TokContents,
     tokenizer_sha256 : TokContents, tampered : BOOLEAN]

(* A CachedSession.                                                        *)
Entries == [sha256 : Contents, session : ModelSessions]

ASSUME EntryAssumption == None \notin Entries \cup Keys
ASSUME SupportedAssumption == None \notin Supported /\ Gguf \subseteq Weights

VARIABLES
    artifact,   \* artifact[p]: content of the weight or tokenizer file p
    cache,      \* cache[k]: the sessions map
    rpc,        \* rpc[r]: where thread r is in get_or_load
    key,        \* key[r]: its arguments
    man,        \* man[r]: its local variable manifest
    part,       \* part[r]: what ModelSession::load has read so far
    ret,        \* ret[r]: the session r's last call returned, None after an error
    dirty,      \* history: threads whose model's files changed since verify read them
    seen        \* history: seen[r]: digests registered since r's call began

cacheVars == <<shelf, raced, artifact, cache, rpc, key, man, part, ret, dirty, seen>>

Steps == {"idle", "lookup", "verify", "weights", "tokenizer", "load", "decoder", "insert"}

Nothing == [weights |-> None, tokenizer |-> None]

CacheTypeOK ==
    /\ StoreTypeOK
    /\ artifact \in Disks
    /\ cache \in [Keys -> Entries \cup {None}]
    /\ rpc \in [Threads -> Steps]
    /\ key \in [Threads -> Keys \cup {None}]
    /\ man \in [Threads -> Manifests \cup {None}]
    /\ part \in [Threads -> [weights : Contents \cup {None}, tokenizer : TokContents \cup {None}]]
    /\ ret \in [Threads -> Entries \cup {None}]
    /\ dirty \subseteq Threads
    /\ seen \in [Threads -> SUBSET Contents]

CacheInit ==
    /\ StoreInit
    /\ artifact \in Disks
    /\ cache = [k \in Keys |-> None]
    /\ rpc = [r \in Threads |-> "idle"]
    /\ key = [r \in Threads |-> None]
    /\ man = [r \in Threads |-> None]
    /\ part = [r \in Threads |-> Nothing]
    /\ ret = [r \in Threads |-> None]
    /\ dirty = {}
    /\ seen = [r \in Threads |-> {}]

-----------------------------------------------------------------------------
(* get_or_load returns Ok(the session of e), or an error when e is None.   *)
Return(r, e) ==
    /\ rpc' = [rpc EXCEPT ![r] = "idle"]
    /\ ret' = [ret EXCEPT ![r] = e]
    /\ key' = [key EXCEPT ![r] = None]
    /\ man' = [man EXCEPT ![r] = None]
    /\ part' = [part EXCEPT ![r] = Nothing]
    /\ dirty' = dirty \ {r}
    /\ UNCHANGED <<shelf, raced, artifact, seen>>

Fail(r) == Return(r, None) /\ cache' = cache

(* Thread r goes on in get_or_load with manifest m.                        *)
ProceedTo(r, step, m) ==
    /\ rpc' = [rpc EXCEPT ![r] = step]
    /\ man' = [man EXCEPT ![r] = m]
    /\ UNCHANGED <<shelf, raced, artifact, cache, key, part, ret, dirty, seen>>

(* get_or_load(id, device): registry.get(id), which may fail.              *)
Call(r, k) ==
    LET m == shelf[k[1]] IN
    /\ rpc[r] = "idle"
    /\ key' = [key EXCEPT ![r] = IF m = None THEN None ELSE k]
    /\ man' = [man EXCEPT ![r] = m]
    /\ rpc' = [rpc EXCEPT ![r] = IF m = None THEN "idle" ELSE "lookup"]
    /\ ret' = [ret EXCEPT ![r] = None]
    /\ seen' = [seen EXCEPT ![r] = IF m = None THEN {} ELSE {m.sha256}]
    /\ UNCHANGED <<shelf, raced, artifact, cache, part, dirty>>

(* Mutant of Hit: any entry of the model will do.                          *)
HitAnyVersion(r) == cache[key[r]] # None

(* The look-up in the map, under its mutex.                                *)
Hit(r) == cache[key[r]] # None /\ cache[key[r]].sha256 = man[r].sha256

LookupHit(r) ==
    /\ rpc[r] = "lookup"
    /\ Hit(r)
    /\ Return(r, cache[key[r]])
    /\ cache' = cache

LookupMiss(r) ==
    /\ rpc[r] = "lookup"
    /\ ~Hit(r)
    /\ ProceedTo(r, "verify", man[r])

(* registry.verify(id) reads the manifest a second time ...                *)
VerifyGet(r) ==
    LET m == shelf[key[r][1]] IN
    /\ rpc[r] = "verify"
    /\ \/ m # None /\ ProceedTo(r, "weights", m)
       \/ m = None /\ Fail(r)

(* Mutant of VerifyWeights: the file only has to be there.                 *)
WeightsExist(r) ==
    /\ rpc[r] = "weights"
    /\ \/ /\ artifact[man[r].weights] # Missing
          /\ ProceedTo(r, IF man[r].tokenizer = None THEN "load" ELSE "tokenizer", man[r])
       \/ /\ artifact[man[r].weights] = Missing
          /\ Fail(r)

(* ... compares the digest of the weight file ...                          *)
VerifyWeights(r) ==
    /\ rpc[r] = "weights"
    /\ \/ /\ artifact[man[r].weights] = man[r].sha256
          /\ ProceedTo(r, IF man[r].tokenizer = None THEN "load" ELSE "tokenizer", man[r])
       \/ /\ artifact[man[r].weights] # man[r].sha256
          /\ Fail(r)

(* ... and, when there is one, of the tokenizer file.                      *)
VerifyTokenizer(r) ==
    /\ rpc[r] = "tokenizer"
    /\ \/ /\ artifact[man[r].tokenizer] = man[r].tokenizer_sha256
          /\ ProceedTo(r, "load", man[r])
       \/ /\ artifact[man[r].tokenizer] # man[r].tokenizer_sha256
          /\ Fail(r)

(* ModelSession::load: format, architecture and tokenizer must be there;   *)
(* the tokenizer file is opened again ...                                  *)
Loadable(m) == m.weights \in Gguf /\ m.architecture # None /\ m.tokenizer # None

LoadTokenizer(r) ==
    /\ rpc[r] = "load"
    /\ \/ /\ Loadable(man[r]) /\ artifact[man[r].tokenizer] # Missing
          /\ part' = [part EXCEPT ![r].tokenizer = artifact[man[r].tokenizer]]
          /\ rpc' = [rpc EXCEPT ![r] = "decoder"]
          /\ UNCHANGED <<shelf, raced, artifact, cache, key, man, ret, dirty, seen>>
       \/ /\ Loadable(man[r]) => artifact[man[r].tokenizer] = Missing
          /\ Fail(r)

(* ... and then the weight file.                                           *)
LoadDecoder(r) ==
    /\ rpc[r] = "decoder"
    /\ \/ /\ man[r].architecture \in Supported /\ artifact[man[r].weights] # Missing
          /\ part' = [part EXCEPT ![r].weights = artifact[man[r].weights]]
          /\ rpc' = [rpc EXCEPT ![r] = "insert"]
          /\ UNCHANGED <<shelf, raced, artifact, cache, key, man, ret, dirty, seen>>
       \/ /\ man[r].architecture \notin Supported \/ artifact[man[r].weights] = Missing
          /\ Fail(r)

(* RuntimeDevice::select fails, or a file does not parse.                  *)
LoadFails(r) == rpc[r] \in {"load", "decoder"} /\ Fail(r)

(* Mutant of Insert: the map is left as it is.                             *)
InsertNothing(r) ==
    /\ rpc[r] = "insert"
    /\ cache' = cache
    /\ Return(r, [sha256 |-> man[r].sha256,
                  session |-> [weights |-> part[r].weights, tokenizer |-> part[r].tokenizer,
                               tokenizer_sha256 |-> man[r].tokenizer_sha256,
                               tampered |-> r \in dirty]])

(* The insertion into the map, under its mutex; whatever is there goes.    *)
Insert(r) ==
    LET e == [sha256 |-> man[r].sha256,
              session |-> [weights |-> part[r].weights, tokenizer |-> part[r].tokenizer,
                           tokenizer_sha256 |-> man[r].tokenizer_sha256,
                           tampered |-> r \in dirty]] IN
    /\ rpc[r] = "insert"
    /\ cache' = [cache EXCEPT ![key[r]] = e]
    /\ Return(r, e)

Clear ==
    /\ cache' = [k \in Keys |-> None]
    /\ UNCHANGED <<shelf, raced, artifact, rpc, key, man, part, ret, dirty, seen>>

(* External: somebody replaces or removes a weight or tokenizer file.      *)
ReplaceFile(p, c) ==
    /\ artifact[p] # c
    /\ artifact' = [artifact EXCEPT ![p] = c]
    /\ dirty' = dirty \cup
         {r \in Threads : \/ rpc[r] \in {"tokenizer", "load", "decoder"} /\ man[r].weights = p
                          \/ rpc[r] = "load" /\ man[r].tokenizer = p}
    /\ UNCHANGED <<shelf, raced, cache, rpc, key, man, part, ret, seen>>

(* Another process changes the registry.                                   *)
RegistryStep ==
    /\ StoreNext
    /\ seen' = [r \in Threads |->
          IF rpc[r] # "idle" /\ shelf'[key[r][1]] # None
          THEN seen[r] \cup {shelf'[key[r][1]].sha256} ELSE seen[r]]
    /\ UNCHANGED <<artifact, cache, rpc, key, man, part, ret, dirty>>

GetOrLoad(r) ==
    \/ LookupHit(r) \/ LookupMiss(r)
    \/ VerifyGet(r) \/ VerifyWeights(r) \/ VerifyTokenizer(r)
    \/ LoadTokenizer(r) \/ LoadDecoder(r) \/ LoadFails(r) \/ Insert(r)

CacheNext ==
    \/ \E r \in Threads : GetOrLoad(r)
    \/ \E r \in Threads, k \in Keys : Call(r, k)
    \/ Clear
    \/ \E p \in Artifacts : \E c \in Holds(p) : ReplaceFile(p, c)
    \/ RegistryStep

CacheSpec == CacheInit /\ [][CacheNext]_cacheVars

-----------------------------------------------------------------------------
(* session.rs:5-6: a call never returns a session of another version of    *)
(* the model than one that was registered while the call ran, whichever    *)
(* registrations, loads and insertions of other threads it overlaps.       *)
FreshAtReturn == \A r \in Threads : ret[r] # None => ret[r].sha256 \in seen[r]

(* An entry of the map, and a session handed out, was made from files with *)
(* the digests of one manifest: the weights match the digest the entry is  *)
(* filed under and the tokenizer its own, unless a file was replaced       *)
(* between verify() and the load.                                          *)
Intact(e) ==
    ~e.session.tampered =>
        /\ e.session.weights = e.sha256
        /\ e.session.tokenizer = e.session.tokenizer_sha256

CacheIntegrity ==
    /\ \A k \in Keys : cache[k] # None => Intact(cache[k])
    /\ \A r \in Threads : ret[r] # None => Intact(ret[r])

(* Once registrations, unloads and file replacements have stopped, models  *)
(* are not loaded again and again: the threads that insert an old version  *)
(* over a newer one cannot keep evicting each other for ever.              *)
Quiet == UNCHANGED <<shelf, artifact>> /\ (cache' = [k \in Keys |-> None] => cache' = cache)
ReloadsStop ==
    <>[][Quiet]_cacheVars => <>[][\A r \in Threads : ~Insert(r)]_cacheVars

(* README.md:65-66: "Weight and tokenizer hashes are recorded, integrity   *)
(* is verified before load, and the cache is invalidated automatically     *)
(* when a file changes."  A cached session is returned only if it has the  *)
(* tokenizer that the manifest read by this very call records.             *)
HitHasRegisteredTokenizer ==
    [][\A r \in Threads :
         LookupHit(r) => cache[key[r]].session.tokenizer_sha256 = man[r].tokenizer_sha256]_cacheVars
=============================================================================
