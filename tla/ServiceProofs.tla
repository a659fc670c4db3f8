--------------------------- MODULE ServiceProofs ---------------------------
(***************************************************************************)
(* Proofs about the sessions of the server and the requests that use them, *)
(* two modules that share no state.                                        *)
(*                                                                         *)
(* SessionCache, for every set of models, files, devices and threads, and  *)
(* whatever other processes do to the registry and the files.              *)
(*                                                                         *)
(* ChatService, for every number of requests, sessions, channel sizes and  *)
(* deltas: the session mutex keeps the KV caches apart and no way out of a *)
(* request leaves it locked.                                               *)
(***************************************************************************)
EXTENDS SessionCache, ChatService, SequenceTheorems, TLAPS

(* The local variables of get_or_load at each of its steps.                *)
CallInv ==
    \A r \in Threads :
        /\ rpc[r] # "idle" => /\ key[r] \in Keys
                              /\ man[r] \in Manifests
                              /\ man[r].sha256 \in seen[r]
        /\ rpc[r] \in {"tokenizer", "decoder", "insert"} => man[r].tokenizer # None
        /\ rpc[r] \in {"decoder", "insert"} => part[r].tokenizer \in TokContents
        /\ rpc[r] = "insert" => part[r].weights \in Contents

(* What verify() has established still holds for the files, or for what    *)
(* has been read from them, unless they were replaced meanwhile.           *)
VerifiedInv ==
    \A r \in Threads : r \notin dirty =>
        /\ rpc[r] \in {"tokenizer", "load", "decoder"} => artifact[man[r].weights] = man[r].sha256
        /\ (rpc[r] = "load" /\ man[r].tokenizer # None) =>
              artifact[man[r].tokenizer] = man[r].tokenizer_sha256
        /\ rpc[r] \in {"decoder", "insert"} => part[r].tokenizer = man[r].tokenizer_sha256
        /\ rpc[r] = "insert" => part[r].weights = man[r].sha256

(* The digest that is registered now is one registered since the call      *)
(* began.                                                                  *)
SeenInv ==
    \A r \in Threads : (rpc[r] # "idle" /\ shelf[key[r][1]] # None) =>
        shelf[key[r][1]].sha256 \in seen[r]

CacheInv == CacheTypeOK /\ CallInv /\ VerifiedInv /\ SeenInv /\ FreshAtReturn /\ CacheIntegrity

-----------------------------------------------------------------------------
(* The fields of a manifest.                                               *)
LEMMA ManifestFields ==
    ASSUME NEW m \in Manifests
    PROVE  /\ m.weights \in Weights /\ m.sha256 \in Contents
           /\ m.tokenizer # None =>
                 m.tokenizer \in Tokenizers /\ m.tokenizer_sha256 \in TokContents
           /\ m # None
BY NoneAssumption DEF Manifests

(* Both ways to make a manifest make one.                                  *)
LEMMA ManifestsMade ==
    /\ \A p \in Weights, c \in Contents, a \in Architectures : Registered(p, c, a) \in Manifests
    /\ \A m \in Manifests, t \in Tokenizers, c \in TokContents :
          WithTokenizer(m, t, c) \in Manifests
BY NoneAssumption DEF Registered, WithTokenizer, Manifests

(* What an existing weight or tokenizer file holds.                        *)
LEMMA FileContents ==
    ASSUME NEW d \in Disks
    PROVE  /\ \A p \in Weights : d[p] # Missing => d[p] \in Contents
           /\ \A t \in Tokenizers : d[t] # Missing => d[t] \in TokContents
           /\ \A p \in Artifacts : \A c \in Holds(p) : [d EXCEPT ![p] = c] \in Disks
BY ArtifactAssumption DEF Disks, Holds, Artifacts

(* Returning ends a call and touches nothing but the thread's variables.   *)
LEMMA ReturnStep ==
    ASSUME CacheTypeOK, CallInv, VerifiedInv, SeenInv, NEW r \in Threads, NEW e \in Entries \cup {None},
           Return(r, e), cache' \in [Keys -> Entries \cup {None}]
    PROVE  CacheTypeOK' /\ CallInv' /\ VerifiedInv' /\ SeenInv'
<1> USE DEF Return
<1>1. CacheTypeOK'
  BY DEF CacheTypeOK, StoreTypeOK, Nothing, Steps
<1>2. CallInv'
  BY DEF CacheTypeOK, CallInv
<1>3. VerifiedInv'
  BY DEF CacheTypeOK, VerifiedInv
<1>4. SeenInv'
  BY DEF CacheTypeOK, SeenInv
<1> QED BY <1>1, <1>2, <1>3, <1>4

(* A failed call leaves the map alone.                                     *)
LEMMA FailStep == ASSUME CacheInv, NEW r \in Threads, Fail(r) PROVE CacheInv'
<1> USE DEF CacheInv, Fail
<1>1. CacheTypeOK' /\ CallInv' /\ VerifiedInv' /\ SeenInv'
  BY ReturnStep DEF CacheTypeOK
<1>2. FreshAtReturn' /\ CacheIntegrity'
  BY DEF Return, CacheTypeOK, FreshAtReturn, CacheIntegrity, Intact
<1> QED BY <1>1, <1>2

(* So does going on to the next step with a manifest.                      *)
LEMMA GotoStep ==
    ASSUME CacheInv, NEW r \in Threads, NEW s \in Steps, NEW m \in Manifests, ProceedTo(r, s, m),
           rpc[r] # "idle", m.sha256 \in seen[r],
           s \in {"verify", "weights", "tokenizer", "load"},
           s = "tokenizer" => m.tokenizer # None,
           s \in {"tokenizer", "load"} /\ r \notin dirty => artifact[m.weights] = m.sha256,
           s = "load" /\ r \notin dirty /\ m.tokenizer # None =>
                artifact[m.tokenizer] = m.tokenizer_sha256
    PROVE  CacheInv'
<1> USE DEF CacheInv, ProceedTo
<1>1. CacheTypeOK'
  BY DEF CacheTypeOK, StoreTypeOK
<1>2. CallInv'
  BY DEF CacheTypeOK, CallInv
<1>3. VerifiedInv'
  BY DEF CacheTypeOK, VerifiedInv
<1>4. FreshAtReturn' /\ CacheIntegrity' /\ SeenInv'
  BY DEF CacheTypeOK, FreshAtReturn, CacheIntegrity, Intact, SeenInv
<1> QED BY <1>1, <1>2, <1>3, <1>4

-----------------------------------------------------------------------------
(* Nothing is cached and nobody has called.                                *)
LEMMA CacheInitInv == CacheInit => CacheInv
BY DEF CacheInit, StoreInit, CacheInv, CacheTypeOK, StoreTypeOK, CallInv, VerifiedInv, SeenInv,
       FreshAtReturn, CacheIntegrity, Steps, Nothing

(* The beginning of a call.                                                *)
LEMMA CallStep ==
    ASSUME CacheInv, NEW r \in Threads, NEW k \in Keys, Call(r, k) PROVE CacheInv'
<1> USE DEF CacheInv, Call
<1>1. shelf[k[1]] \in Manifests \cup {None}
  BY DEF CacheTypeOK, StoreTypeOK, Keys
<1>2. CacheTypeOK'
  BY <1>1, ManifestFields DEF CacheTypeOK, StoreTypeOK, Steps
<1>3. CallInv'
  BY <1>1 DEF CacheTypeOK, CallInv
<1>4. VerifiedInv'
  BY DEF CacheTypeOK, VerifiedInv
<1>5. FreshAtReturn' /\ CacheIntegrity'
  BY DEF CacheTypeOK, FreshAtReturn, CacheIntegrity, Intact
<1>6. SeenInv'
  BY DEF CacheTypeOK, SeenInv
<1> QED BY <1>2, <1>3, <1>4, <1>5, <1>6

(* The look-up: a hit returns an entry filed under the digest that this    *)
(* call read from the registry.                                            *)
LEMMA LookupStep ==
    ASSUME CacheInv, NEW r \in Threads, LookupHit(r) \/ LookupMiss(r) PROVE CacheInv'
<1> USE DEF CacheInv
<1>1. CASE LookupMiss(r)
  BY <1>1, GotoStep DEF LookupMiss, CallInv, Steps
<1>2. CASE LookupHit(r)
  <2> DEFINE e == cache[key[r]]
  <2>1. e \in Entries /\ e.sha256 = man[r].sha256 /\ Return(r, e) /\ cache' = cache /\ Intact(e)
    BY <1>2 DEF LookupHit, Hit, CacheTypeOK, CallInv, CacheIntegrity
  <2>2. CacheTypeOK' /\ CallInv' /\ VerifiedInv' /\ SeenInv'
    BY <2>1, ReturnStep DEF CacheTypeOK
  <2>3. e.sha256 \in seen[r]
    BY <1>2, <2>1 DEF LookupHit, CallInv
  <2> HIDE DEF e
  <2>4. FreshAtReturn'
    BY <2>1, <2>3 DEF Return, CacheTypeOK, FreshAtReturn
  <2>5. CacheIntegrity'
    BY <2>1 DEF Return, CacheTypeOK, CacheIntegrity, Intact
  <2> QED BY <2>2, <2>4, <2>5
<1> QED BY <1>1, <1>2

(* verify().                                                               *)
LEMMA VerifyStep ==
    ASSUME CacheInv, NEW r \in Threads, VerifyGet(r) \/ VerifyWeights(r) \/ VerifyTokenizer(r)
    PROVE  CacheInv'
<1> USE DEF CacheInv
<1>1. CASE VerifyGet(r)
  <2>1. shelf[key[r][1]] \in Manifests \cup {None}
    BY <1>1 DEF VerifyGet, CacheTypeOK, StoreTypeOK, CallInv, Keys
  <2>2. shelf[key[r][1]] # None => shelf[key[r][1]].sha256 \in seen[r]
    BY <1>1 DEF VerifyGet, SeenInv
  <2> QED BY <1>1, <2>1, <2>2, FailStep, GotoStep DEF VerifyGet, Steps
<1>2. CASE VerifyWeights(r)
  BY <1>2, FailStep, GotoStep DEF VerifyWeights, CallInv, Steps
<1>3. CASE VerifyTokenizer(r)
  BY <1>3, FailStep, GotoStep DEF VerifyTokenizer, CallInv, VerifiedInv, Steps
<1> QED BY <1>1, <1>2, <1>3

(* ModelSession::load reads the two files again.                           *)
LEMMA LoadStep ==
    ASSUME CacheInv, NEW r \in Threads, LoadTokenizer(r) \/ LoadDecoder(r) \/ LoadFails(r)
    PROVE  CacheInv'
<1> USE DEF CacheInv
<1>m. rpc[r] # "idle" /\ man[r] \in Manifests
  BY DEF LoadTokenizer, LoadDecoder, LoadFails, CallInv
<1>1. CASE LoadTokenizer(r) /\ ~Fail(r)
  <2>1. /\ man[r].tokenizer # None
        /\ artifact[man[r].tokenizer] \in TokContents
        /\ part' = [part EXCEPT ![r].tokenizer = artifact[man[r].tokenizer]]
        /\ rpc[r] = "load" /\ rpc' = [rpc EXCEPT ![r] = "decoder"]
        /\ UNCHANGED <<shelf, raced, artifact, cache, key, man, ret, dirty, seen>>
    BY <1>1, <1>m, ManifestFields, FileContents DEF LoadTokenizer, Loadable, CacheTypeOK
  <2>2. part'[r].tokenizer = artifact[man[r].tokenizer] /\ part'[r].weights = part[r].weights
    BY <2>1 DEF CacheTypeOK
  <2>3. \A q \in Threads : q # r => part'[q] = part[q] /\ rpc'[q] = rpc[q]
    BY <2>1 DEF CacheTypeOK
  <2>4. CacheTypeOK'
    BY <2>1 DEF CacheTypeOK, StoreTypeOK, Steps
  <2>5. CallInv'
    BY <2>1, <2>2, <2>3 DEF CacheTypeOK, CallInv
  <2>6. VerifiedInv'
    BY <2>1, <2>2, <2>3 DEF CacheTypeOK, VerifiedInv
  <2>7. FreshAtReturn' /\ CacheIntegrity' /\ SeenInv'
    BY <2>1, <2>3 DEF FreshAtReturn, CacheIntegrity, Intact, SeenInv
  <2> QED BY <2>4, <2>5, <2>6, <2>7
<1>2. CASE LoadDecoder(r) /\ ~Fail(r)
  <2>1. /\ artifact[man[r].weights] \in Contents
        /\ part' = [part EXCEPT ![r].weights = artifact[man[r].weights]]
        /\ rpc[r] = "decoder" /\ rpc' = [rpc EXCEPT ![r] = "insert"]
        /\ UNCHANGED <<shelf, raced, artifact, cache, key, man, ret, dirty, seen>>
    BY <1>2, <1>m, ManifestFields, FileContents DEF LoadDecoder, CacheTypeOK
  <2>2. part'[r].weights = artifact[man[r].weights] /\ part'[r].tokenizer = part[r].tokenizer
    BY <2>1 DEF CacheTypeOK
  <2>3. \A q \in Threads : q # r => part'[q] = part[q] /\ rpc'[q] = rpc[q]
    BY <2>1 DEF CacheTypeOK
  <2>4. CacheTypeOK'
    BY <2>1 DEF CacheTypeOK, StoreTypeOK, Steps
  <2>5. CallInv'
    BY <2>1, <2>2, <2>3 DEF CacheTypeOK, CallInv
  <2>6. VerifiedInv'
    BY <2>1, <2>2, <2>3 DEF CacheTypeOK, VerifiedInv
  <2>7. FreshAtReturn' /\ CacheIntegrity' /\ SeenInv'
    BY <2>1, <2>3 DEF FreshAtReturn, CacheIntegrity, Intact, SeenInv
  <2> QED BY <2>4, <2>5, <2>6, <2>7
<1>3. CASE Fail(r)
  BY <1>3, FailStep
<1> QED BY <1>1, <1>2, <1>3 DEF LoadFails

(* The insertion files the session under the digest of the manifest that   *)
(* verify() accepted.                                                      *)
LEMMA InsertStep == ASSUME CacheInv, NEW r \in Threads, Insert(r) PROVE CacheInv'
<1> USE DEF CacheInv
<1> DEFINE s == [weights |-> part[r].weights, tokenizer |-> part[r].tokenizer,
                 tokenizer_sha256 |-> man[r].tokenizer_sha256, tampered |-> r \in dirty]
<1> DEFINE e == [sha256 |-> man[r].sha256, session |-> s]
<1>1. rpc[r] = "insert" /\ key[r] \in Keys /\ man[r] \in Manifests /\ man[r].tokenizer # None
  BY DEF Insert, CallInv
<1>2. s \in ModelSessions
  BY <1>1, ManifestFields DEF CallInv, ModelSessions
<1>3. e \in Entries
  BY <1>1, <1>2, ManifestFields DEF Entries
<1>4. cache' = [cache EXCEPT ![key[r]] = e] /\ Return(r, e)
  BY DEF Insert
<1>5. Intact(e)
  BY <1>1 DEF Intact, VerifiedInv
<1>6. e.sha256 \in seen[r]
  BY <1>1 DEF CallInv
<1> HIDE DEF e
<1>7. cache' \in [Keys -> Entries \cup {None}]
  BY <1>1, <1>3, <1>4 DEF CacheTypeOK
<1>8. CacheTypeOK' /\ CallInv' /\ VerifiedInv' /\ SeenInv'
  BY <1>3, <1>4, <1>7, ReturnStep
<1>9. FreshAtReturn'
  BY <1>4, <1>6 DEF Return, CacheTypeOK, FreshAtReturn
<1>10. CacheIntegrity'
  BY <1>1, <1>4, <1>5 DEF Return, CacheTypeOK, CacheIntegrity, Intact
<1> QED BY <1>8, <1>9, <1>10

(* clear(), a replaced file and a registry change.                         *)
LEMMA EnvironmentStep ==
    ASSUME CacheInv,
           \/ Clear
           \/ \E p \in Artifacts : \E c \in Holds(p) : ReplaceFile(p, c)
           \/ RegistryStep
    PROVE  CacheInv'
<1> USE DEF CacheInv
<1>1. CASE Clear
  BY <1>1 DEF Clear, CacheTypeOK, StoreTypeOK, CallInv, VerifiedInv, FreshAtReturn, CacheIntegrity,
              Intact, SeenInv
<1>2. ASSUME NEW p \in Artifacts, NEW c \in Holds(p), ReplaceFile(p, c) PROVE CacheInv'
  <2> USE <1>2 DEF ReplaceFile
  <2>1. CacheTypeOK'
    BY FileContents DEF CacheTypeOK, StoreTypeOK
  <2>2. CallInv' /\ FreshAtReturn' /\ CacheIntegrity' /\ SeenInv'
    BY DEF CallInv, FreshAtReturn, CacheIntegrity, Intact, SeenInv
  <2>3. \A q \in Artifacts : q # p => artifact'[q] = artifact[q]
    BY DEF CacheTypeOK, Disks
  <2>4. ASSUME NEW r \in Threads, r \notin dirty', rpc[r] # "idle"
        PROVE  /\ rpc[r] \in {"tokenizer", "load", "decoder"} =>
                     artifact'[man[r].weights] = artifact[man[r].weights]
               /\ (rpc[r] = "load" /\ man[r].tokenizer # None) =>
                     artifact'[man[r].tokenizer] = artifact[man[r].tokenizer]
    BY <2>3, <2>4, ManifestFields DEF CallInv, Artifacts
  <2>5. VerifiedInv'
    BY <2>4 DEF VerifiedInv
  <2> QED BY <2>1, <2>2, <2>5
<1>3. CASE RegistryStep
  <2> USE <1>3 DEF RegistryStep
  <2>1. StoreTypeOK'
    BY ManifestsMade DEF CacheTypeOK, StoreTypeOK, StoreNext, Register, Attach, Overlap, Collide
  <2>2. \A r \in Threads : rpc[r] # "idle" => key[r][1] \in Ids
    BY DEF CallInv, Keys
  <2>3. CacheTypeOK'
    BY <2>1, <2>2, ManifestFields DEF CacheTypeOK, StoreTypeOK
  <2>4. \A r \in Threads : seen[r] \subseteq seen'[r]
    OBVIOUS
  <2>5. CallInv' /\ FreshAtReturn'
    BY <2>4 DEF CallInv, FreshAtReturn
  <2>6. VerifiedInv' /\ CacheIntegrity'
    BY DEF VerifiedInv, CacheIntegrity, Intact
  <2>7. SeenInv'
    BY DEF SeenInv
  <2> QED BY <2>3, <2>5, <2>6, <2>7
<1> QED BY <1>1, <1>2, <1>3

-----------------------------------------------------------------------------
(* The inductive invariant of the cache.                                   *)
THEOREM CacheInvariant == CacheSpec => []CacheInv
<1>1. CacheInit => CacheInv
  BY CacheInitInv
<1>2. CacheInv /\ [CacheNext]_cacheVars => CacheInv'
  <2>1. CASE CacheNext
    BY <2>1, CallStep, LookupStep, VerifyStep, LoadStep, InsertStep, EnvironmentStep
       DEF CacheNext, GetOrLoad
  <2>2. CASE UNCHANGED cacheVars
    BY <2>2 DEF cacheVars, CacheInv, CacheTypeOK, StoreTypeOK, CallInv, VerifiedInv, SeenInv,
                FreshAtReturn, CacheIntegrity, Intact
  <2> QED BY <2>1, <2>2
<1> QED BY <1>1, <1>2, PTL DEF CacheSpec

(* The variables of the cache keep their types.                            *)
THEOREM CacheTypeCorrect == CacheSpec => []CacheTypeOK
<1>1. CacheInv => CacheTypeOK
  BY DEF CacheInv
<1> QED BY <1>1, CacheInvariant, PTL

(* get_or_load never returns a version of a model that was not registered  *)
(* while the call ran.                                                     *)
THEOREM CacheFreshAtReturn == CacheSpec => []FreshAtReturn
<1>1. CacheInv => FreshAtReturn
  BY DEF CacheInv
<1> QED BY <1>1, CacheInvariant, PTL

(* Every session in the map or in a caller's hands was made from files     *)
(* with the digests of its manifest, unless they were replaced while it    *)
(* was loaded.                                                             *)
THEOREM CacheIsIntact == CacheSpec => []CacheIntegrity
<1>1. CacheInv => CacheIntegrity
  BY DEF CacheInv
<1> QED BY <1>1, CacheInvariant, PTL

-----------------------------------------------------------------------------
(* Requests. *)

ServiceInv == TypeOK /\ LockDiscipline /\ KvIsolation

-----------------------------------------------------------------------------
ChannelType ==
    /\ channel \in [Requests -> Seq(Events)]
    /\ \A r \in Requests : Len(channel[r]) <= Capacity

(* blocking_send appends one event or, when the receiver is gone, nothing. *)
LEMMA SendType ==
    ASSUME TypeOK, NEW r \in Requests, NEW e \in Events, Send(r, e) \/ SendFails(r)
    PROVE  ChannelType'
<1> USE DEF ChannelType
<1>1. ChannelType
  BY DEF TypeOK
<1>2. Append(channel[r], e) \in Seq(Events) /\ Len(Append(channel[r], e)) = Len(channel[r]) + 1
  BY <1>1
<1>5. Capacity \in Nat /\ Len(channel[r]) \in Nat
  BY <1>1, ServiceAssumption
<1>3. CASE Send(r, e)
  BY <1>1, <1>2, <1>3, <1>5 DEF Send
<1>4. CASE SendFails(r)
  BY <1>1, <1>4 DEF SendFails
<1> QED BY <1>3, <1>4

(* A step of a request that stays on one side of lock() and does not       *)
(* touch the mutex or the KV cache keeps the discipline.                   *)
LEMMA InsideStep ==
    ASSUME ServiceInv, NEW r \in Requests, NEW p,
           phase' = [phase EXCEPT ![r] = p], p \in Locked, phase[r] \in Locked,
           lock' = lock, kv' = kv,
           p = "decode" => phase[r] = "decode"
    PROVE  LockDiscipline' /\ KvIsolation'
BY DEF ServiceInv, TypeOK, LockDiscipline, KvIsolation

LEMMA InitInv == Init => ServiceInv
BY ServiceAssumption DEF Init, ServiceInv, TypeOK, LockDiscipline, KvIsolation, Locked

(* Every step of a request keeps the invariant.                            *)
LEMMA ServeStep == ASSUME ServiceInv, NEW r \in Requests, Serve(r) PROVE ServiceInv'
<1> USE DEF Goto
<1>t. TypeOK
  BY DEF ServiceInv
<1>e. Events = {"role", "delta", "finish", "DONE", "error"}
  BY DEF Events
<1>1. CASE Resolve(r)
  <2>1. PICK p \in {"wait", "ended"} : phase' = [phase EXCEPT ![r] = p]
    BY <1>1 DEF Resolve
  <2>2. TypeOK'
    BY <1>1, <1>t, <2>1 DEF Resolve, TypeOK, Over
  <2>3. phase[r] \notin Locked /\ p \notin Locked /\ "decode" \in Locked
    BY <1>1, <2>1 DEF Resolve, Locked
  <2>4. LockDiscipline' /\ KvIsolation'
    BY <1>1, <1>t, <2>1, <2>3 DEF Resolve, ServiceInv, TypeOK, LockDiscipline, KvIsolation
  <2> QED BY <2>2, <2>4 DEF ServiceInv
<1>2. CASE Acquire(r)
  <2>1. TypeOK'
    BY <1>2, <1>t, ServiceAssumption DEF Acquire, TypeOK, Locked
  <2>2. LockDiscipline' /\ KvIsolation'
    BY <1>2, <1>t, ServiceAssumption DEF Acquire, ServiceInv, TypeOK, LockDiscipline, KvIsolation, Locked
  <2> QED BY <2>1, <2>2 DEF ServiceInv
<1>3. CASE Prepare(r)
  <2>1. PICK p \in {"role", "prefill", "error", "release"} : phase' = [phase EXCEPT ![r] = p]
    BY <1>3 DEF Prepare, Failed
  <2>2. LockDiscipline' /\ KvIsolation'
    BY <1>3, <2>1, InsideStep DEF Prepare, Locked
  <2> QED BY <1>3, <1>t, <2>1, <2>2 DEF Prepare, ServiceInv, TypeOK, Locked
<1>4. CASE SendRole(r)
  <2>1. PICK p \in {"prefill", "error"} : phase' = [phase EXCEPT ![r] = p]
    BY <1>4 DEF SendRole
  <2>2. LockDiscipline' /\ KvIsolation'
    BY <1>4, <2>1, InsideStep DEF SendRole, Locked
  <2>3. ChannelType'
    BY <1>4, <1>t, <1>e, SendType DEF SendRole
  <2> QED BY <1>4, <1>t, <2>1, <2>2, <2>3 DEF ChannelType, SendRole, ServiceInv, TypeOK, Locked
<1>5. CASE Prefill(r)
  <2>1. PICK p \in {"decode", "error", "release"} : phase' = [phase EXCEPT ![r] = p]
    BY <1>5 DEF Prefill, Failed
  <2>2. lock[SessionOf[r]] = r /\ SessionOf[r] \in Sessions
    BY <1>5, ServiceAssumption DEF Prefill, ServiceInv, LockDiscipline, Locked
  <2>3. \A q \in Requests : q # r /\ phase[q] = "decode" => SessionOf[q] # SessionOf[r]
    BY <2>2 DEF ServiceInv, LockDiscipline, Locked
  <2>4. LockDiscipline'
    BY <1>5, <1>t, <2>1 DEF Prefill, ServiceInv, TypeOK, LockDiscipline, Locked
  <2>5. KvIsolation'
    <3> SUFFICES ASSUME NEW q \in Requests, phase'[q] = "decode" PROVE kv'[SessionOf[q]] = q
      BY DEF KvIsolation
    <3>1. CASE q = r
      BY <1>5, <1>t, <2>2, <3>1 DEF Prefill, TypeOK
    <3>2. CASE q # r
      <4>1. phase[q] = "decode" /\ SessionOf[q] \in Sessions
        BY <1>t, <2>1, <3>2, ServiceAssumption DEF TypeOK
      <4> QED BY <1>5, <1>t, <2>2, <2>3, <3>2, <4>1 DEF Prefill, ServiceInv, TypeOK, KvIsolation
    <3> QED BY <3>1, <3>2
  <2>6. kv' \in [Sessions -> Requests \cup {Nobody}]
    BY <1>5, <1>t, <2>2 DEF Prefill, TypeOK
  <2>7. phase' \in [Requests -> {"resolve", "wait"} \cup Over \cup Locked]
    BY <1>t, <2>1 DEF TypeOK, Locked
  <2>8. TypeOK'
    BY <1>5, <1>t, <2>6, <2>7 DEF Prefill, TypeOK
  <2> QED BY <2>4, <2>5, <2>8 DEF ServiceInv
<1>6. CASE SendDelta(r)
  <2>1. PICK p \in {"decode", "finish"} : phase' = [phase EXCEPT ![r] = p]
    BY <1>6, <1>t DEF SendDelta, TypeOK
  <2>2. LockDiscipline' /\ KvIsolation'
    BY <1>6, <2>1, InsideStep DEF SendDelta, Locked
  <2>3. ChannelType'
    BY <1>6, <1>t, <1>e, SendType DEF SendDelta
  <2>4. deltas' \in [Requests -> 0..MaxDeltas]
    <3>1. deltas \in [Requests -> 0..MaxDeltas] /\ MaxDeltas \in Nat
      BY <1>t, ServiceAssumption DEF TypeOK
    <3>2. deltas[r] \in 0..MaxDeltas /\ deltas[r] < MaxDeltas
      BY <1>6, <3>1 DEF SendDelta
    <3>3. deltas[r] + 1 \in 0..MaxDeltas
      BY <3>1, <3>2
    <3>4. deltas' = deltas \/ deltas' = [deltas EXCEPT ![r] = deltas[r] + 1]
      BY <1>6 DEF SendDelta
    <3> QED BY <3>1, <3>3, <3>4
  <2> QED BY <1>6, <1>t, <2>1, <2>2, <2>3, <2>4 DEF ChannelType, SendDelta, ServiceInv, TypeOK, Locked
<1>7. CASE EndGeneration(r)
  <2>1. PICK p \in {"finish", "error", "release"} : phase' = [phase EXCEPT ![r] = p]
    BY <1>7 DEF EndGeneration, Failed
  <2>2. LockDiscipline' /\ KvIsolation'
    BY <1>7, <2>1, InsideStep DEF EndGeneration, Locked
  <2> QED BY <1>7, <1>t, <2>1, <2>2 DEF EndGeneration, ServiceInv, TypeOK, Locked
<1>8. CASE SendFinish(r) \/ SendDone(r) \/ SendError(r)
  <2>1. PICK p \in {"DONE", "release"} : phase' = [phase EXCEPT ![r] = p]
    BY <1>8 DEF SendFinish, SendDone, SendError
  <2>2. LockDiscipline' /\ KvIsolation'
    BY <1>8, <2>1, InsideStep DEF SendFinish, SendDone, SendError, Locked
  <2>3. ChannelType'
    BY <1>8, <1>t, <1>e, SendType DEF SendFinish, SendDone, SendError
  <2> QED BY <1>8, <1>t, <2>1, <2>2, <2>3
          DEF ChannelType, SendFinish, SendDone, SendError, ServiceInv, TypeOK, Locked
<1>9. CASE Release(r)
  <2>1. TypeOK'
    BY <1>9, <1>t, ServiceAssumption DEF Release, TypeOK, Over
  <2>2. LockDiscipline' /\ KvIsolation'
    BY <1>9, <1>t, ServiceAssumption
       DEF Release, ServiceInv, TypeOK, LockDiscipline, KvIsolation, Locked
  <2> QED BY <2>1, <2>2 DEF ServiceInv
<1> QED BY <1>1, <1>2, <1>3, <1>4, <1>5, <1>6, <1>7, <1>8, <1>9 DEF Serve

(* A panic frees the session and ends the request.                         *)
LEMMA PanicStep == ASSUME ServiceInv, NEW r \in Requests, Panic(r) PROVE ServiceInv'
<1>t. TypeOK
  BY DEF ServiceInv
<1>1. TypeOK'
  BY <1>t, ServiceAssumption DEF Panic, Goto, TypeOK, Over
<1>2. LockDiscipline' /\ KvIsolation'
  BY <1>t, ServiceAssumption
     DEF Panic, Goto, ServiceInv, TypeOK, LockDiscipline, KvIsolation, Locked
<1> QED BY <1>1, <1>2 DEF ServiceInv

(* So does a step of a client.                                             *)
LEMMA ClientStep ==
    ASSUME ServiceInv, NEW r \in Requests, Receive(r) \/ Disconnect(r) PROVE ServiceInv'
<1>1. TypeOK'
  <2>1. CASE Receive(r)
    <3>1. channel \in [Requests -> Seq(Events)] /\ received \in [Requests -> Seq(Events)]
      BY DEF ServiceInv, TypeOK
    <3>2. channel[r] \in Seq(Events) /\ channel[r] # <<>>
      BY <2>1, <3>1 DEF Receive
    <3>3. Head(channel[r]) \in Events /\ Tail(channel[r]) \in Seq(Events)
      BY <3>2
    <3>4. Append(received[r], Head(channel[r])) \in Seq(Events)
      BY <3>1, <3>3
    <3>5. ChannelType'
      <4>1. Len(Tail(channel[r])) <= Len(channel[r]) /\ Len(channel[r]) \in Nat
        BY <3>2
      <4>2. Len(Tail(channel[r])) <= Capacity
        BY <3>3, <4>1, ServiceAssumption DEF ServiceInv, TypeOK
      <4> QED BY <2>1, <3>1, <3>3, <4>2 DEF Receive, ServiceInv, TypeOK, ChannelType
    <3>6. received' \in [Requests -> Seq(Events)]
      BY <2>1, <3>1, <3>4 DEF Receive
    <3> QED BY <2>1, <3>5, <3>6 DEF Receive, ServiceInv, TypeOK, ChannelType
  <2>2. CASE Disconnect(r)
    <3>1. <<>> \in Seq(Events) /\ Len(<<>>) <= Capacity
      BY ServiceAssumption
    <3>2. ChannelType'
      BY <2>2, <3>1 DEF Disconnect, ServiceInv, TypeOK, ChannelType
    <3> QED BY <2>2, <3>2 DEF Disconnect, ServiceInv, TypeOK, ChannelType
  <2> QED BY <2>1, <2>2
<1>2. LockDiscipline' /\ KvIsolation'
  BY DEF Receive, Disconnect, ServiceInv, LockDiscipline, KvIsolation
<1> QED BY <1>1, <1>2 DEF ServiceInv

(* The invariant holds in every reachable state of the service.            *)
THEOREM ServiceInvariant == Spec => []ServiceInv
<1>1. Init => ServiceInv
  BY InitInv
<1>2. ServiceInv /\ [Next]_vars => ServiceInv'
  <2> SUFFICES ASSUME ServiceInv, [Next]_vars PROVE ServiceInv'
    OBVIOUS
  <2>1. ASSUME NEW r \in Requests, Serve(r) PROVE ServiceInv'
    BY <2>1, ServeStep
  <2>2. ASSUME NEW r \in Requests, Receive(r) \/ Disconnect(r) PROVE ServiceInv'
    BY <2>2, ClientStep
  <2>3. ASSUME NEW r \in Requests, Panic(r) PROVE ServiceInv'
    BY <2>3, PanicStep
  <2>4. CASE UNCHANGED vars
    BY <2>4 DEF vars, ServiceInv, TypeOK, LockDiscipline, KvIsolation
  <2> QED BY <2>1, <2>2, <2>3, <2>4 DEF Next, Idle
<1> QED BY <1>1, <1>2, PTL DEF Spec

(* While a request decodes, the KV cache of its session holds its tokens.  *)
THEOREM ServiceKvIsolation == Spec => []KvIsolation
<1>1. ServiceInv => KvIsolation
  BY DEF ServiceInv
<1> QED BY <1>1, ServiceInvariant, PTL

(* A session is locked exactly while a request is past lock().             *)
THEOREM ServiceLockDiscipline == Spec => []LockDiscipline
<1>1. ServiceInv => LockDiscipline
  BY DEF ServiceInv
<1> QED BY <1>1, ServiceInvariant, PTL

(* The channel of a request never holds more than its capacity, and every  *)
(* variable keeps its type.                                                *)
THEOREM ServiceTypeCorrect == Spec => []TypeOK
<1>1. ServiceInv => TypeOK
  BY DEF ServiceInv
<1> QED BY <1>1, ServiceInvariant, PTL

-----------------------------------------------------------------------------
(* What a stream that can go on ends with, and how far the stream of a     *)
(* client that stays is at each phase of its request.                      *)
Running(q) == q # <<>> /\ q[Len(q)] \in {"role", "delta"}

StreamAt(q, p, streams) ==
    /\ p \in {"resolve", "wait", "prepare", "role"} => q = <<>>
    /\ p \in {"prefill", "decode"} /\ streams => Running(q)
    /\ p = "finish" => Running(q)
    /\ p = "DONE" => q # <<>> /\ q[Len(q)] = "finish"
    /\ p = "error" => q = <<>> \/ Running(q)
    /\ p \in {"release", "ended"} /\ streams => q = <<>> \/ q[Len(q)] \in {"DONE", "error"}

EventInv ==
    \A r \in open : WellFormed(Stream(r)) /\ StreamAt(Stream(r), phase[r], r \in Streaming)

(* The events that may follow a stream.                                    *)
Follows(q, e) ==
    \/ e = "role" /\ q = <<>>
    \/ e \in {"delta", "finish"} /\ Running(q)
    \/ e = "DONE" /\ q # <<>> /\ q[Len(q)] = "finish"
    \/ e = "error" /\ (q = <<>> \/ Running(q))

(* A well-formed stream stays so when such an event is appended.           *)
LEMMA AppendWellFormed ==
    ASSUME NEW q \in Seq(Events), NEW e \in Events, WellFormed(q), Follows(q, e)
    PROVE  WellFormed(Append(q, e))
<1> DEFINE n == Len(q)
           a == Append(q, e)
<1>1. /\ n \in Nat /\ Len(a) = n + 1
      /\ a[n + 1] = e /\ \A i \in 1..n : a[i] = q[i]
  OBVIOUS
<1>2. q = <<>> <=> n = 0
  OBVIOUS
<1>3. n > 0 => a # <<"error">>
  <2>1. Len(<<"error">>) = 1
    OBVIOUS
  <2> QED BY <1>1, <2>1
<1>4. n = 0 => a = <<e>>
  <2> SUFFICES ASSUME n = 0 PROVE a = <<e>>
    OBVIOUS
  <2>1. q = <<>>
    BY <1>2
  <2> QED BY <2>1
<1>7. n > 0 => q # <<"error">> /\ q[n] \in {"role", "delta", "finish"}
  <2>1. <<"error">>[1] = "error" /\ Len(<<"error">>) = 1
    OBVIOUS
  <2> QED BY <1>2, <2>1 DEF Follows, Running
<1>w. /\ \A i \in 1..n : /\ q[i] = "role" <=> i = 1 /\ q # <<"error">>
                         /\ q[i] = "delta" => i > 1 /\ q[i - 1] \in {"role", "delta"}
                         /\ q[i] = "finish" => i > 1 /\ q[i - 1] \in {"role", "delta"}
                         /\ q[i] = "DONE" => i = n /\ i > 1 /\ q[i - 1] = "finish"
                         /\ q[i] = "error" => i = n /\ (i > 1 => q[i - 1] \in {"role", "delta"})
  BY DEF WellFormed
<1>f. /\ e = "role" => n = 0
      /\ e \in {"delta", "finish"} => n > 0 /\ q[n] \in {"role", "delta"}
      /\ e = "DONE" => n > 0 /\ q[n] = "finish"
      /\ e = "error" => n = 0 \/ q[n] \in {"role", "delta"}
      /\ e \in {"role", "delta", "finish", "DONE", "error"}
  BY <1>1, <1>2 DEF Follows, Running
<1> HIDE DEF n, a
<1>5. ASSUME NEW i \in 1..(n + 1)
      PROVE  /\ a[i] = "role" <=> i = 1 /\ a # <<"error">>
             /\ a[i] = "delta" => i > 1 /\ a[i - 1] \in {"role", "delta"}
             /\ a[i] = "finish" => i > 1 /\ a[i - 1] \in {"role", "delta"}
             /\ a[i] = "DONE" => i = n + 1 /\ i > 1 /\ a[i - 1] = "finish"
             /\ a[i] = "error" => i = n + 1 /\ (i > 1 => a[i - 1] \in {"role", "delta"})
  <2>1. CASE i \in 1..n
    <3>1. a[i] = q[i] /\ (i > 1 => i - 1 \in 1..n /\ a[i - 1] = q[i - 1])
      BY <1>1, <2>1
    <3>2. a # <<"error">> /\ q # <<"error">> /\ a[i] # "error" /\ a[i] # "DONE"
      BY <1>1, <1>3, <1>7, <1>w, <2>1, <3>1
    <3> QED BY <1>1, <1>w, <2>1, <3>1, <3>2
  <2>2. CASE i = n + 1
    <3>1. CASE n = 0
      <4>1. a = <<"error">> <=> e = "error"
        BY <1>1, <1>4, <3>1
      <4>2. e \in {"role", "error"}
        BY <1>f, <3>1
      <4> QED BY <1>1, <2>2, <3>1, <4>1, <4>2
    <3>2. CASE n > 0
      <4>1. a[i] = e /\ i > 1 /\ a[i - 1] = q[n]
        BY <1>1, <2>2, <3>2
      <4> QED BY <1>1, <1>f, <2>2, <3>2, <4>1
    <3> QED BY <1>1, <3>1, <3>2
  <2> QED BY <1>1, <2>1, <2>2
<1>6. WellFormed(a)
  BY <1>1, <1>5 DEF WellFormed
<1> QED BY <1>6 DEF a

(* An event moves from one end of the channel to the other without         *)
(* changing what was read followed by what was not.                        *)
LEMMA MoveEvent ==
    ASSUME NEW S, NEW s \in Seq(S), NEW t \in Seq(S)
    PROVE  /\ \A e \in S : s \o Append(t, e) = Append(s \o t, e)
           /\ t # <<>> => Append(s, Head(t)) \o Tail(t) = s \o t
<1>1. ASSUME NEW e \in S PROVE s \o Append(t, e) = Append(s \o t, e)
  <2>1. <<e>> \in Seq(S) /\ s \o t \in Seq(S)
    OBVIOUS
  <2>2. Append(t, e) = t \o <<e>> /\ Append(s \o t, e) = (s \o t) \o <<e>>
    BY <2>1, AppendIsConcat
  <2> QED BY <2>1, <2>2, ConcatAssociative
<1>2. ASSUME t # <<>> PROVE Append(s, Head(t)) \o Tail(t) = s \o t
  <2>1. Head(t) \in S /\ Tail(t) \in Seq(S)
    BY <1>2
  <2>2. <<Head(t)>> \in Seq(S) /\ Append(s, Head(t)) = s \o <<Head(t)>>
    BY <2>1, AppendIsConcat
  <2>3. <<Head(t)>> \o Tail(t) = t
    <3>1. <<Head(t)>> \o Tail(t) \in Seq(S)
      BY <2>1, <2>2
    <3>2. Len(<<Head(t)>> \o Tail(t)) = Len(t)
      BY <1>2, <2>1, <2>2
    <3>3. \A i \in 1..Len(t) : (<<Head(t)>> \o Tail(t))[i] = t[i]
      BY <1>2, <2>1, <2>2
    <3> QED BY <3>1, <3>2, <3>3, SeqEqual
  <2> QED BY <2>1, <2>2, <2>3, ConcatAssociative
<1> QED BY <1>1, <1>2

(* What a send and a read do to the stream of a request.                   *)
LEMMA SendExtends ==
    ASSUME TypeOK, NEW r \in Requests, NEW e \in Events, Send(r, e), received' = received
    PROVE  /\ Stream(r) \in Seq(Events)
           /\ Stream(r)' = Append(Stream(r), e)
           /\ \A q \in Requests \ {r} : Stream(q)' = Stream(q)
<1>1. channel[r] \in Seq(Events) /\ received[r] \in Seq(Events)
  BY DEF TypeOK
<1>2. channel' = [channel EXCEPT ![r] = Append(channel[r], e)]
      /\ channel \in [Requests -> Seq(Events)]
  BY DEF Send, TypeOK
<1>3. channel'[r] = Append(channel[r], e) /\ \A q \in Requests \ {r} : channel'[q] = channel[q]
  BY <1>2
<1>4. received[r] \o Append(channel[r], e) = Append(received[r] \o channel[r], e)
  BY <1>1, MoveEvent
<1>5. received[r] \o channel[r] \in Seq(Events)
  BY <1>1
<1> QED BY <1>3, <1>4, <1>5 DEF Stream

LEMMA ReceiveKeeps ==
    ASSUME TypeOK, NEW r \in Requests, Receive(r)
    PROVE  \A q \in Requests : Stream(q)' = Stream(q)
<1>1. channel[r] \in Seq(Events) /\ received[r] \in Seq(Events) /\ channel[r] # <<>>
  BY DEF TypeOK, Receive
<1>2. /\ channel' = [channel EXCEPT ![r] = Tail(channel[r])]
      /\ received' = [received EXCEPT ![r] = Append(received[r], Head(channel[r]))]
      /\ channel \in [Requests -> Seq(Events)] /\ received \in [Requests -> Seq(Events)]
  BY DEF Receive, TypeOK
<1>3. /\ channel'[r] = Tail(channel[r])
      /\ received'[r] = Append(received[r], Head(channel[r]))
      /\ \A q \in Requests \ {r} : channel'[q] = channel[q] /\ received'[q] = received[q]
  BY <1>2
<1>4. Append(received[r], Head(channel[r])) \o Tail(channel[r]) = received[r] \o channel[r]
  BY <1>1, MoveEvent
<1> QED BY <1>3, <1>4 DEF Stream

(* A step after which the stream of r is as before and its phase is p.     *)
LEMMA QuietStep ==
    ASSUME TypeOK, EventInv, NEW r \in Requests, NEW p,
           phase' = [phase EXCEPT ![r] = p],
           r \in open => StreamAt(Stream(r), p, r \in Streaming),
           channel' = channel, received' = received, open' = open
    PROVE  EventInv'
<1> SUFFICES ASSUME NEW q \in open
             PROVE  /\ WellFormed(Stream(q)')
                    /\ StreamAt(Stream(q)', phase'[q], q \in Streaming)
  BY DEF EventInv
<1>1. Stream(q)' = Stream(q) /\ q \in Requests
  BY DEF Stream, TypeOK
<1>2. phase'[q] = IF q = r THEN p ELSE phase[q]
  BY <1>1 DEF TypeOK
<1> QED BY <1>1, <1>2 DEF EventInv

(* A step in which r sends e, or fails to because its client is gone.      *)
LEMMA EventStep ==
    ASSUME TypeOK, EventInv, NEW r \in Requests, NEW p, NEW e \in Events,
           phase' = [phase EXCEPT ![r] = p],
           Send(r, e) => /\ Follows(Stream(r), e)
                         /\ StreamAt(Append(Stream(r), e), p, r \in Streaming),
           Send(r, e) \/ SendFails(r), received' = received, open' = open
    PROVE  EventInv'
<1>1. CASE SendFails(r)
  BY <1>1, QuietStep DEF SendFails
<1>2. CASE Send(r, e)
  <2> SUFFICES ASSUME NEW q \in open
               PROVE  /\ WellFormed(Stream(q)')
                      /\ StreamAt(Stream(q)', phase'[q], q \in Streaming)
    BY DEF EventInv
  <2>1. q \in Requests /\ r \in open
    BY <1>2 DEF TypeOK, Send
  <2>2. /\ Stream(r) \in Seq(Events)
        /\ Stream(r)' = Append(Stream(r), e)
        /\ \A k \in Requests \ {r} : Stream(k)' = Stream(k)
    BY <1>2, SendExtends
  <2>3. WellFormed(Stream(r)')
    BY <1>2, <2>1, <2>2, AppendWellFormed DEF EventInv
  <2>4. phase'[q] = IF q = r THEN p ELSE phase[q]
    BY <2>1 DEF TypeOK
  <2>5. CASE q = r
    BY <1>2, <2>2, <2>3, <2>4, <2>5
  <2>6. CASE q # r
    BY <2>1, <2>2, <2>4, <2>6 DEF EventInv
  <2> QED BY <2>5, <2>6
<1> QED BY <1>1, <1>2

(* The last event of a stream that was extended.                           *)
LEMMA AppendedLast ==
    ASSUME NEW q \in Seq(Events), NEW e \in Events
    PROVE  Append(q, e) # <<>> /\ Append(q, e)[Len(Append(q, e))] = e
OBVIOUS

LEMMA ServeEvents ==
    ASSUME TypeOK, EventInv, NEW r \in Requests, Serve(r) PROVE EventInv'
<1> USE DEF Goto
<1> DEFINE q == Stream(r)
<1>e. Events = {"role", "delta", "finish", "DONE", "error"}
  BY DEF Events
<1>i. r \in open => WellFormed(q) /\ StreamAt(q, phase[r], r \in Streaming)
  BY DEF EventInv
<1>l. \A e \in Events : Append(q, e) # <<>> /\ Append(q, e)[Len(Append(q, e))] = e
  <2>1. channel[r] \in Seq(Events) /\ received[r] \in Seq(Events)
    BY DEF TypeOK
  <2>2. q \in Seq(Events)
    BY <2>1 DEF Stream
  <2> HIDE DEF q
  <2> QED BY <2>2, AppendedLast
<1> HIDE DEF q
<1>1. CASE Resolve(r)
  <2>1. PICK p \in {"wait", "ended"} : phase' = [phase EXCEPT ![r] = p]
    BY <1>1 DEF Resolve
  <2>2. r \in open => StreamAt(q, p, r \in Streaming)
    BY <1>1, <1>i, <2>1 DEF Resolve, StreamAt
  <2> QED BY <1>1, <2>1, <2>2, QuietStep DEF Resolve, q
<1>2. CASE Acquire(r)
  <2>1. r \in open => StreamAt(q, "prepare", r \in Streaming)
    BY <1>2, <1>i DEF Acquire, StreamAt
  <2> QED BY <1>2, <2>1, QuietStep DEF Acquire, q
<1>3. CASE Prepare(r)
  <2>1. PICK p : /\ phase' = [phase EXCEPT ![r] = p]
                 /\ p \in IF r \in Streaming THEN {"role", "error"} ELSE {"prefill", "release"}
    BY <1>3 DEF Prepare, Failed
  <2>2. r \in open => StreamAt(q, p, r \in Streaming)
    BY <1>3, <1>i, <2>1 DEF Prepare, StreamAt
  <2> QED BY <1>3, <2>1, <2>2, QuietStep DEF Prepare, q
<1>4. CASE SendRole(r)
  <2>1. CASE Send(r, "role") /\ Goto(r, "prefill")
    <3>1. Follows(q, "role") /\ StreamAt(Append(q, "role"), "prefill", r \in Streaming)
      BY <1>4, <1>e, <1>i, <1>l, <2>1 DEF SendRole, Send, StreamAt, Follows, Running
    <3> QED BY <1>4, <1>e, <2>1, <3>1, EventStep DEF SendRole, q
  <2>2. CASE SendFails(r) /\ Goto(r, "error")
    BY <1>4, <2>2, QuietStep DEF SendRole, SendFails, q
  <2> QED BY <1>4, <2>1, <2>2 DEF SendRole
<1>5. CASE Prefill(r)
  <2>1. PICK p : /\ phase' = [phase EXCEPT ![r] = p]
                 /\ p \in IF r \in Streaming THEN {"decode", "error"} ELSE {"decode", "release"}
    BY <1>5 DEF Prefill, Failed
  <2>2. r \in open => StreamAt(q, p, r \in Streaming)
    BY <1>5, <1>i, <2>1 DEF Prefill, StreamAt
  <2> QED BY <1>5, <2>1, <2>2, QuietStep DEF Prefill, q
<1>6. CASE SendDelta(r)
  <2>1. CASE Send(r, "delta") /\ phase' = phase
    <3>1. phase' = [phase EXCEPT ![r] = "decode"]
      BY <1>6, <2>1 DEF SendDelta, TypeOK
    <3>2. Follows(q, "delta") /\ StreamAt(Append(q, "delta"), "decode", r \in Streaming)
      BY <1>6, <1>e, <1>i, <1>l, <2>1 DEF SendDelta, Send, StreamAt, Follows, Running
    <3> QED BY <1>6, <1>e, <2>1, <3>1, <3>2, EventStep DEF SendDelta, q
  <2>2. CASE SendFails(r) /\ Goto(r, "finish")
    BY <1>6, <2>2, QuietStep DEF SendDelta, SendFails, q
  <2> QED BY <1>6, <2>1, <2>2 DEF SendDelta
<1>7. CASE EndGeneration(r)
  <2>1. PICK p : /\ phase' = [phase EXCEPT ![r] = p]
                 /\ p \in IF r \in Streaming THEN {"finish", "error"} ELSE {"release"}
    BY <1>7 DEF EndGeneration, Failed
  <2>2. r \in open => StreamAt(q, p, r \in Streaming)
    BY <1>7, <1>i, <2>1 DEF EndGeneration, StreamAt
  <2> QED BY <1>7, <2>1, <2>2, QuietStep DEF EndGeneration, q
<1>8. CASE SendFinish(r)
  <2>1. r \in open => /\ Follows(q, "finish")
                      /\ StreamAt(Append(q, "finish"), "DONE", r \in Streaming)
    BY <1>8, <1>e, <1>i, <1>l DEF SendFinish, StreamAt, Follows
  <2> QED BY <1>8, <1>e, <2>1, EventStep DEF SendFinish, Send, q
<1>9. CASE SendDone(r)
  <2>1. r \in open => /\ Follows(q, "DONE")
                      /\ StreamAt(Append(q, "DONE"), "release", r \in Streaming)
    BY <1>9, <1>e, <1>i, <1>l DEF SendDone, StreamAt, Follows
  <2> QED BY <1>9, <1>e, <2>1, EventStep DEF SendDone, Send, q
<1>10. CASE SendError(r)
  <2>1. r \in open => /\ Follows(q, "error")
                      /\ StreamAt(Append(q, "error"), "release", r \in Streaming)
    BY <1>10, <1>e, <1>i, <1>l DEF SendError, StreamAt, Follows
  <2> QED BY <1>10, <1>e, <2>1, EventStep DEF SendError, Send, q
<1>11. CASE Release(r)
  <2>1. r \in open => StreamAt(q, "ended", r \in Streaming)
    BY <1>11, <1>i DEF Release, StreamAt
  <2> QED BY <1>11, <2>1, QuietStep DEF Release, q
<1> QED BY <1>1, <1>2, <1>3, <1>4, <1>5, <1>6, <1>7, <1>8, <1>9, <1>10, <1>11 DEF Serve

(* After a panic nothing more is sent; a read moves an event, and a client *)
(* that goes away is no longer looked at.                                  *)
LEMMA OtherEvents ==
    ASSUME TypeOK, EventInv, NEW r \in Requests, Panic(r) \/ Receive(r) \/ Disconnect(r)
    PROVE  EventInv'
<1>1. CASE Panic(r)
  <2>1. StreamAt(Stream(r), "panicked", r \in Streaming)
    BY DEF StreamAt
  <2> QED BY <1>1, <2>1, QuietStep DEF Panic, Goto
<1>2. CASE Receive(r)
  <2>1. \A q \in Requests : Stream(q)' = Stream(q)
    BY <1>2, ReceiveKeeps
  <2>2. phase' = phase /\ open' = open /\ open \subseteq Requests
    BY <1>2 DEF Receive, TypeOK
  <2> QED BY <2>1, <2>2 DEF EventInv
<1>3. CASE Disconnect(r)
  <2>1. \A q \in Requests \ {r} : Stream(q)' = Stream(q)
    BY <1>3 DEF Disconnect, Stream, TypeOK
  <2>2. phase' = phase /\ open' = open \ {r} /\ open \subseteq Requests
    BY <1>3 DEF Disconnect, TypeOK
  <2> QED BY <2>1, <2>2 DEF EventInv
<1> QED BY <1>1, <1>2, <1>3

(* The events a client that stays has been sent are in the order the       *)
(* README promises, from the role to [DONE] or an error, and a stream that *)
(* ended is closed by one of the two, however its reads, the sends of the  *)
(* thread and the steps of the other requests interleave.                  *)
THEOREM ServiceStreamWellFormed == Spec => []StreamWellFormed
<1>1. Init => EventInv
  <2> SUFFICES ASSUME Init PROVE EventInv
    OBVIOUS
  <2>1. \A r \in Requests : Stream(r) = <<>> /\ phase[r] = "resolve" /\ open = Requests
    <3>1. <<>> \o <<>> = <<>>
      OBVIOUS
    <3> QED BY <3>1 DEF Init, Stream
  <2>2. WellFormed(<<>>)
    BY DEF WellFormed
  <2>3. ASSUME NEW b PROVE StreamAt(<<>>, "resolve", b)
    BY DEF StreamAt
  <2>4. open = Requests
    BY DEF Init
  <2> QED BY <2>1, <2>2, <2>3, <2>4 DEF EventInv
<1>2. TypeOK /\ EventInv /\ [Next]_vars => EventInv'
  <2> SUFFICES ASSUME TypeOK, EventInv, [Next]_vars PROVE EventInv'
    OBVIOUS
  <2>1. ASSUME NEW r \in Requests, Serve(r) PROVE EventInv'
    BY <2>1, ServeEvents
  <2>2. ASSUME NEW r \in Requests, Panic(r) \/ Receive(r) \/ Disconnect(r) PROVE EventInv'
    BY <2>2, OtherEvents
  <2>3. CASE UNCHANGED vars
    BY <2>3 DEF vars, EventInv, Stream
  <2> QED BY <2>1, <2>2, <2>3 DEF Next, Idle
<1>3. TypeOK /\ EventInv => StreamWellFormed
  BY DEF EventInv, StreamAt, StreamWellFormed
<1> QED BY <1>1, <1>2, <1>3, ServiceTypeCorrect, PTL DEF Spec
=============================================================================
