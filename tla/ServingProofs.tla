--------------------------- MODULE ServingProofs ---------------------------
(***************************************************************************)
(* Proofs about two parts of the serving engine that share no state.       *)
(*                                                                         *)
(* ModelRegistry, for every set of ids, files, contents and writing        *)
(* processes: manifests are never torn and the files are a ManifestStore.  *)
(*                                                                         *)
(* TokenStream, for every vocabulary, every set of stop strings and every  *)
(* limit: the finish reason is true, the holdback is long enough, and what *)
(* was streamed is the text.  That part begins with sequences: the         *)
(* recursion equation of FlattenSeq, by induction over its parts.          *)
(***************************************************************************)
EXTENDS ModelRegistry, TokenStream, DataInduction, SequenceTheorems, TLAPS

(* What a process holds at each point of its command.                      *)
JobInv ==
    \A w \in Writers :
        /\ wpc[w] = "idle" => fd[w] = "none"
        /\ wpc[w] # "idle" => job[w] \in Jobs
        /\ wpc[w] # "write" => fd[w] = "none"
        /\ wpc[w] = "download" => job[w].tokenizer # None
        /\ wpc[w] = "hash" => job[w].op = "attach"
        /\ (wpc[w] # "idle" /\ job[w].op = "attach") => job[w].tokenizer # None
        /\ wpc[w] \in {"hash", "create", "write", "rename"} => pending[w] \in Manifests
        /\ (wpc[w] \in {"create", "write", "rename"} /\ job[w].op = "import")
              => pending[w].tokenizer = None

(* Two processes in a command on the same id have raced.                   *)
RaceInv ==
    \A v, w \in Writers :
        (v # w /\ wpc[v] # "idle" /\ wpc[w] # "idle" /\ job[v].id = job[w].id)
            => job[w].id \in raced

(* A process that is alone on its id owns the temporary file, and the      *)
(* manifest it read is still the one that is registered.                   *)
AloneInv ==
    \A w \in Writers :
        (wpc[w] # "idle" /\ job[w].id \notin raced) =>
            /\ wpc[w] = "write" => fd[w] = "tmp" /\ tmp[job[w].id] = Empty
            /\ wpc[w] = "rename" => tmp[job[w].id] = pending[w]
            /\ wpc[w] = "hash" => pending[w] = main[job[w].id]
            /\ (wpc[w] \in {"create", "write", "rename"} /\ job[w].op = "attach") =>
                  /\ main[job[w].id] \in Manifests
                  /\ pending[w].tokenizer \in Tokenizers
                  /\ pending[w] = WithTokenizer(main[job[w].id], pending[w].tokenizer,
                                                pending[w].tokenizer_sha256)

RegInv == RegTypeOK /\ JobInv /\ RaceInv /\ AloneInv /\ NeverTorn

-----------------------------------------------------------------------------
(* The manifest import_local makes has every field and no tokenizer.       *)
LEMMA RegisteredIsManifest ==
    ASSUME NEW p \in Weights, NEW c \in Contents, NEW a \in Architectures
    PROVE  Registered(p, c, a) \in Manifests /\ Registered(p, c, a).tokenizer = None
BY NoneAssumption DEF Registered, Manifests

(* attach_tokenizer makes a manifest of a manifest.                        *)
LEMMA WithTokenizerIsManifest ==
    ASSUME NEW m \in Manifests, NEW t \in Tokenizers, NEW c \in TokContents
    PROVE  /\ WithTokenizer(m, t, c) \in Manifests
           /\ WithTokenizer(m, t, c).tokenizer = t
           /\ WithTokenizer(m, t, c).tokenizer_sha256 = c
BY NoneAssumption DEF WithTokenizer, Manifests

(* A manifest without a tokenizer is what import_local makes.              *)
LEMMA ManifestIsRegistered ==
    ASSUME NEW m \in Manifests, m.tokenizer = None
    PROVE  m = Registered(m.weights, m.sha256, m.architecture)
BY NoneAssumption DEF Registered, Manifests

(* What an existing weight or tokenizer file holds.                        *)
LEMMA FileContents ==
    ASSUME NEW d \in Disks
    PROVE  /\ \A p \in Weights : d[p] # Missing => d[p] \in Contents
           /\ \A t \in Tokenizers : d[t] # Missing => d[t] \in TokContents
           /\ \A p \in Artifacts : \A c \in Holds(p) : [d EXCEPT ![p] = c] \in Disks
BY ArtifactAssumption DEF Disks, Holds, Artifacts

(* The sentinels of a manifest path are no manifests.                      *)
LEMMA Sentinels ==
    /\ None \notin Manifests /\ None \notin Jobs /\ None \notin Tokenizers
    /\ Absent \notin Manifests /\ Empty \notin Manifests /\ Torn \notin Manifests
    /\ Absent # Empty /\ Empty # Torn /\ Absent # Torn
BY NoneAssumption, JobAssumption, FileStateAssumption

-----------------------------------------------------------------------------
(* The registry starts with no manifest and no command running.            *)
LEMMA InitInv == RegInit => RegInv
BY Sentinels DEF RegInit, RegInv, RegTypeOK, JobInv, RaceInv, AloneInv, NeverTorn, FileStates

(* Every step of a command, of the environment or of the file system keeps *)
(* the variables of RegTypeOK in their sets.                               *)
LEMMA TypeStep == RegInv /\ RegNext => RegTypeOK'
<1> SUFFICES ASSUME RegInv, RegNext PROVE RegTypeOK'
  OBVIOUS
<1> USE DEF RegInv, RegTypeOK
<1>j. \A w \in Writers : wpc[w] # "idle" =>
         /\ job[w].id \in Ids /\ job[w].weights \in Weights
         /\ job[w].architecture \in Architectures
         /\ job[w].op = "attach" => job[w].tokenizer \in Tokenizers
  BY DEF JobInv, Jobs
<1>f. ASSUME NEW w \in Writers, Fail(w) PROVE RegTypeOK'
  BY <1>f DEF Fail, Finish
<1>1. ASSUME NEW w \in Writers, ImportHash(w) PROVE RegTypeOK'
  <2>1. CASE artifact[job[w].weights] # Missing /\ job[w].weights \notin Unsupported
    <3>1. Registered(job[w].weights, artifact[job[w].weights], job[w].architecture) \in Manifests
      BY <1>1, <1>j, <2>1, FileContents, RegisteredIsManifest DEF ImportHash
    <3> QED BY <1>1, <2>1, <3>1 DEF ImportHash
  <2> QED BY <1>1, <1>f, <2>1 DEF ImportHash
<1>2. ASSUME NEW w \in Writers, AttachRead(w) PROVE RegTypeOK'
  <2>1. CASE artifact[job[w].tokenizer] # Missing /\ Get(job[w].id) # None
    BY <1>2, <2>1 DEF AttachRead, Get
  <2> QED BY <1>2, <1>f, <2>1 DEF AttachRead
<1>3. ASSUME NEW w \in Writers, AttachHash(w) PROVE RegTypeOK'
  <2>1. CASE artifact[job[w].tokenizer] # Missing
    <3>1. WithTokenizer(pending[w], job[w].tokenizer, artifact[job[w].tokenizer]) \in Manifests
      BY <1>3, <1>j, <2>1, FileContents, WithTokenizerIsManifest DEF AttachHash, JobInv
    <3> QED BY <1>3, <2>1, <3>1 DEF AttachHash
  <2> QED BY <1>3, <1>f, <2>1 DEF AttachHash
<1>4. ASSUME NEW w \in Writers, CreateTmp(w) PROVE RegTypeOK'
  BY <1>4, <1>j DEF CreateTmp, FileStates
<1>5. ASSUME NEW w \in Writers, WriteTmp(w) PROVE RegTypeOK'
  <2>1. \A old : Overlay(old, pending[w]) \subseteq FileStates
    BY <1>5 DEF WriteTmp, JobInv, Overlay, FileStates
  <2> QED BY <1>5, <1>j, <2>1 DEF WriteTmp
<1>6. ASSUME NEW w \in Writers, RenameTmp(w) PROVE RegTypeOK'
  <2>1. [v \in Writers |-> AfterRename(job[w].id, v)]
            \in [Writers -> {"none", "tmp", "main", "orphan"}]
    BY DEF AfterRename
  <2>2. CASE tmp[job[w].id] # Absent
    BY <1>6, <1>j, <2>1, <2>2 DEF RenameTmp, FileStates, Finish
  <2> QED BY <1>6, <1>f, <2>2 DEF RenameTmp
<1>7. ASSUME NEW w \in Writers, PullTokenizer(w) PROVE RegTypeOK'
  BY <1>7 DEF PullTokenizer, JobInv, Jobs
<1>8. ASSUME NEW w \in Writers, NEW j \in Jobs, StartJob(w, j) PROVE RegTypeOK'
  BY <1>8 DEF StartJob, Jobs
<1>9. ASSUME NEW p \in Artifacts, NEW c \in Holds(p), ReplaceFile(p, c) PROVE RegTypeOK'
  BY <1>9, FileContents DEF ReplaceFile
<1> QED BY <1>f, <1>1, <1>2, <1>3, <1>4, <1>5, <1>6, <1>7, <1>8, <1>9
        DEF RegNext, WriterStep, Abort

(* The same for what each process holds.                                   *)
LEMMA JobStep == RegInv /\ RegNext => JobInv'
<1> SUFFICES ASSUME RegInv, RegNext PROVE JobInv'
  OBVIOUS
<1> USE Sentinels DEF RegInv, RegTypeOK
<1>j. \A w \in Writers : wpc[w] # "idle" =>
         /\ job[w].id \in Ids /\ job[w].weights \in Weights
         /\ job[w].architecture \in Architectures
         /\ job[w].op = "attach" => job[w].tokenizer \in Tokenizers
  BY DEF JobInv, Jobs
<1>f. ASSUME NEW w \in Writers, Fail(w) PROVE JobInv'
  BY <1>f DEF Fail, Finish, JobInv
<1>1. ASSUME NEW w \in Writers, ImportHash(w) PROVE JobInv'
  <2>1. CASE artifact[job[w].weights] # Missing /\ job[w].weights \notin Unsupported
    <3>1. /\ Registered(job[w].weights, artifact[job[w].weights], job[w].architecture) \in Manifests
          /\ Registered(job[w].weights, artifact[job[w].weights], job[w].architecture).tokenizer = None
      BY <1>1, <1>j, <2>1, FileContents, RegisteredIsManifest DEF ImportHash
    <3> QED BY <1>1, <2>1, <3>1 DEF ImportHash, JobInv
  <2> QED BY <1>1, <1>f, <2>1 DEF ImportHash
<1>2. ASSUME NEW w \in Writers, AttachRead(w) PROVE JobInv'
  <2>1. CASE artifact[job[w].tokenizer] # Missing /\ Get(job[w].id) # None
    BY <1>2, <2>1 DEF AttachRead, Get, JobInv
  <2> QED BY <1>2, <1>f, <2>1 DEF AttachRead
<1>3. ASSUME NEW w \in Writers, AttachHash(w) PROVE JobInv'
  <2>1. CASE artifact[job[w].tokenizer] # Missing
    <3>1. WithTokenizer(pending[w], job[w].tokenizer, artifact[job[w].tokenizer]) \in Manifests
      BY <1>3, <1>j, <2>1, FileContents, WithTokenizerIsManifest DEF AttachHash, JobInv
    <3> QED BY <1>3, <2>1, <3>1 DEF AttachHash, JobInv
  <2> QED BY <1>3, <1>f, <2>1 DEF AttachHash
<1>4. ASSUME NEW w \in Writers, CreateTmp(w) PROVE JobInv'
  BY <1>4 DEF CreateTmp, JobInv
<1>5. ASSUME NEW w \in Writers, WriteTmp(w) PROVE JobInv'
  BY <1>5 DEF WriteTmp, JobInv
<1>6. ASSUME NEW w \in Writers, RenameTmp(w) PROVE JobInv'
  <2>1. \A v \in Writers : fd[v] = "none" => AfterRename(job[w].id, v) = "none"
    BY DEF AfterRename
  <2>2. CASE tmp[job[w].id] # Absent
    BY <1>6, <2>1, <2>2 DEF RenameTmp, Finish, JobInv
  <2> QED BY <1>6, <1>f, <2>2 DEF RenameTmp
<1>7. ASSUME NEW w \in Writers, PullTokenizer(w) PROVE JobInv'
  BY <1>7 DEF PullTokenizer, JobInv, Jobs
<1>8. ASSUME NEW w \in Writers, NEW j \in Jobs, StartJob(w, j),
             j.op = "attach" => j.tokenizer # None
      PROVE JobInv'
  BY <1>8 DEF StartJob, JobInv
<1>9. ASSUME NEW p \in Artifacts, NEW c \in Holds(p), ReplaceFile(p, c) PROVE JobInv'
  BY <1>9 DEF ReplaceFile, JobInv
<1> QED BY <1>f, <1>1, <1>2, <1>3, <1>4, <1>5, <1>6, <1>7, <1>8, <1>9
        DEF RegNext, WriterStep, Abort

(* Only the start of a command makes two commands overlap, and it records  *)
(* that they do.                                                           *)
LEMMA RaceStep == RegInv /\ RegNext => RaceInv'
<1> SUFFICES ASSUME RegInv, RegNext PROVE RaceInv'
  OBVIOUS
<1> USE DEF RegInv, RegTypeOK, RaceInv
<1>1. ASSUME NEW w \in Writers, WriterStep(w) \/ Abort(w)
      PROVE  /\ raced' = raced
             /\ \A v \in Writers : wpc'[v] # "idle" => wpc[v] # "idle" /\ job'[v].id = job[v].id
  <2>f. CASE Fail(w) /\ wpc[w] # "idle"
    BY <2>f DEF Fail, Finish
  <2>1. CASE ImportHash(w) /\ ~Fail(w)
    BY <2>1 DEF ImportHash
  <2>2. CASE AttachRead(w) /\ ~Fail(w)
    BY <2>2 DEF AttachRead
  <2>3. CASE AttachHash(w) /\ ~Fail(w)
    BY <2>3 DEF AttachHash
  <2>4. CASE CreateTmp(w)
    BY <2>4 DEF CreateTmp
  <2>5. CASE WriteTmp(w)
    BY <2>5 DEF WriteTmp
  <2>6. CASE RenameTmp(w) /\ ~Fail(w)
    BY <2>6 DEF RenameTmp, Finish
  <2>7. CASE PullTokenizer(w)
    BY <2>7 DEF PullTokenizer, JobInv
  <2>8. \/ ImportHash(w) \/ AttachRead(w) \/ AttachHash(w) \/ RenameTmp(w) => wpc[w] # "idle"
    BY DEF ImportHash, AttachRead, AttachHash, RenameTmp
  <2> QED BY <1>1, <2>f, <2>1, <2>2, <2>3, <2>4, <2>5, <2>6, <2>7, <2>8 DEF WriterStep, Abort
<1>2. ASSUME NEW w \in Writers, NEW j \in Jobs, StartJob(w, j) PROVE RaceInv'
  BY <1>2 DEF StartJob, Jobs
<1>3. ASSUME NEW p \in Artifacts, NEW c \in Holds(p), ReplaceFile(p, c) PROVE RaceInv'
  BY <1>3 DEF ReplaceFile
<1>4. ASSUME NEW w \in Writers, WriterStep(w) \/ Abort(w) PROVE RaceInv'
  BY <1>1, <1>4
<1> QED BY <1>2, <1>3, <1>4 DEF RegNext

(* The step of a process that is alone on its id keeps what it owns, and   *)
(* the steps of others do not touch it.                                    *)
LEMMA AloneStep == RegInv /\ RegNext => AloneInv'
<1> SUFFICES ASSUME RegInv, RegNext PROVE AloneInv'
  OBVIOUS
<1> USE Sentinels DEF RegInv, RegTypeOK
<1>j. \A w \in Writers : wpc[w] # "idle" =>
         job[w].id \in Ids /\ (job[w].op = "attach" => job[w].tokenizer \in Tokenizers)
  BY DEF JobInv, Jobs
<1>f. ASSUME NEW w \in Writers, Fail(w) PROVE AloneInv'
  BY <1>f DEF Fail, Finish, AloneInv
<1>1. ASSUME NEW w \in Writers, ImportHash(w) PROVE AloneInv'
  <2>1. CASE artifact[job[w].weights] # Missing /\ job[w].weights \notin Unsupported
    BY <1>1, <2>1 DEF ImportHash, AloneInv
  <2> QED BY <1>1, <1>f, <2>1 DEF ImportHash
<1>2. ASSUME NEW w \in Writers, AttachRead(w) PROVE AloneInv'
  <2>1. CASE artifact[job[w].tokenizer] # Missing /\ Get(job[w].id) # None
    BY <1>2, <2>1 DEF AttachRead, AloneInv, Get
  <2> QED BY <1>2, <1>f, <2>1 DEF AttachRead
<1>3. ASSUME NEW w \in Writers, AttachHash(w) PROVE AloneInv'
  <2>1. CASE artifact[job[w].tokenizer] # Missing
    <3> DEFINE t == job[w].tokenizer
    <3> DEFINE c == artifact[t]
    <3>1. t \in Tokenizers /\ c \in TokContents /\ pending[w] \in Manifests
      BY <1>3, <1>j, <2>1, FileContents DEF AttachHash, JobInv
    <3>2. /\ WithTokenizer(pending[w], t, c).tokenizer = t
          /\ WithTokenizer(pending[w], t, c).tokenizer_sha256 = c
      BY <3>1, WithTokenizerIsManifest
    <3>3. job[w].id \notin raced => pending[w] = main[job[w].id]
      BY <1>3 DEF AttachHash, AloneInv
    <3> QED BY <1>3, <2>1, <3>1, <3>2, <3>3 DEF AttachHash, AloneInv
  <2> QED BY <1>3, <1>f, <2>1 DEF AttachHash
<1>4. ASSUME NEW w \in Writers, CreateTmp(w) PROVE AloneInv'
  BY <1>4, <1>j DEF CreateTmp, AloneInv, RaceInv
<1>5. ASSUME NEW w \in Writers, WriteTmp(w) PROVE AloneInv'
  <2>1. job[w].id \notin raced => main' = main /\ tmp' = [tmp EXCEPT ![job[w].id] = pending[w]]
    BY <1>5, <1>j DEF WriteTmp, AloneInv, Overlay
  <2>2. \A id \in Ids : id # job[w].id => main'[id] = main[id] /\ tmp'[id] = tmp[id]
    BY <1>5, <1>j DEF WriteTmp
  <2> QED BY <1>5, <1>j, <2>1, <2>2 DEF WriteTmp, AloneInv, RaceInv
<1>6. ASSUME NEW w \in Writers, RenameTmp(w) PROVE AloneInv'
  <2>1. \A v \in Writers : job[v].id # job[w].id => AfterRename(job[w].id, v) = fd[v]
    BY DEF AfterRename
  <2>2. CASE tmp[job[w].id] # Absent
    BY <1>6, <1>j, <2>1, <2>2 DEF RenameTmp, Finish, AloneInv, RaceInv
  <2> QED BY <1>6, <1>f, <2>2 DEF RenameTmp
<1>7. ASSUME NEW w \in Writers, PullTokenizer(w) PROVE AloneInv'
  BY <1>7 DEF PullTokenizer, AloneInv
<1>8. ASSUME NEW w \in Writers, NEW j \in Jobs, StartJob(w, j) PROVE AloneInv'
  BY <1>8 DEF StartJob, AloneInv
<1>9. ASSUME NEW p \in Artifacts, NEW c \in Holds(p), ReplaceFile(p, c) PROVE AloneInv'
  BY <1>9 DEF ReplaceFile, AloneInv
<1> QED BY <1>f, <1>1, <1>2, <1>3, <1>4, <1>5, <1>6, <1>7, <1>8, <1>9
        DEF RegNext, WriterStep, Abort

(* Who changes <id>.toml: a process that still writes to it after another  *)
(* one renamed it, which takes a race, and rename.                         *)
LEMMA MainChanges ==
    ASSUME RegInv, RegNext, main' # main
    PROVE  \E w \in Writers :
              /\ wpc[w] # "idle" /\ raced' = raced
              /\ \/ /\ RenameTmp(w)
                    /\ main' = [main EXCEPT ![job[w].id] = tmp[job[w].id]]
                 \/ /\ job[w].id \in raced
                    /\ \E c \in FileStates : main' = [main EXCEPT ![job[w].id] = c]
<1> USE DEF RegInv, RegTypeOK
<1>1. PICK w \in Writers : WriterStep(w) \/ Abort(w)
  BY DEF RegNext, StartJob, ReplaceFile
<1>2. ~Fail(w)
  BY DEF Fail
<1>3. WriteTmp(w) \/ RenameTmp(w)
  BY <1>1, <1>2 DEF WriterStep, Abort, ImportHash, AttachRead, AttachHash, CreateTmp, PullTokenizer
<1>4. CASE WriteTmp(w)
  <2>1. fd[w] = "main" /\ job[w].id \in raced
    BY <1>4 DEF WriteTmp, AloneInv
  <2>2. \A old : Overlay(old, pending[w]) \subseteq FileStates
    BY <1>4 DEF WriteTmp, JobInv, Overlay, FileStates
  <2> QED BY <1>4, <2>1, <2>2 DEF WriteTmp
<1>5. CASE RenameTmp(w)
  BY <1>2, <1>5 DEF RenameTmp, Finish
<1> QED BY <1>3, <1>4, <1>5

(* Nobody publishes half a manifest on an id without a race.               *)
LEMMA TornStep == RegInv /\ RegNext => NeverTorn'
<1> SUFFICES ASSUME RegInv, RegNext PROVE NeverTorn'
  OBVIOUS
<1>1. raced \subseteq raced'
  BY DEF RegNext, WriterStep, Abort, StartJob, ReplaceFile, ImportHash, AttachRead, AttachHash,
         CreateTmp, WriteTmp, RenameTmp, PullTokenizer, Fail, Finish
<1>2. CASE main' = main
  BY <1>1, <1>2 DEF RegInv, NeverTorn
<1>3. CASE main' # main
  <2>1. PICK w \in Writers :
              /\ wpc[w] # "idle" /\ raced' = raced
              /\ \/ /\ RenameTmp(w)
                    /\ main' = [main EXCEPT ![job[w].id] = tmp[job[w].id]]
                 \/ /\ job[w].id \in raced
                    /\ \E c \in FileStates : main' = [main EXCEPT ![job[w].id] = c]
    BY <1>3, MainChanges
  <2>2. CASE job[w].id \in raced
    BY <2>1, <2>2 DEF RegInv, RegTypeOK, NeverTorn
  <2>3. CASE job[w].id \notin raced
    <3>1. tmp[job[w].id] \in Manifests
      BY <2>1, <2>3 DEF RegInv, AloneInv, JobInv, RenameTmp
    <3> QED BY <2>1, <2>3, <3>1 DEF RegInv, RegTypeOK, NeverTorn
  <2> QED BY <2>2, <2>3
<1> QED BY <1>2, <1>3

-----------------------------------------------------------------------------
(* The inductive invariant holds in every reachable state of the registry. *)
THEOREM RegInvariant == RegSpec => []RegInv
<1>1. RegInit => RegInv
  BY InitInv
<1>2. RegInv /\ [RegNext]_regVars => RegInv'
  <2>1. CASE RegNext
    BY <2>1, TypeStep, JobStep, RaceStep, AloneStep, TornStep DEF RegInv
  <2>2. CASE UNCHANGED regVars
    BY <2>2 DEF regVars, RegInv, RegTypeOK, JobInv, RaceInv, AloneInv, NeverTorn
  <2> QED BY <2>1, <2>2
<1> QED BY <1>1, <1>2, PTL DEF RegSpec

(* The variables of the registry keep their types.                         *)
THEOREM RegTypeCorrect == RegSpec => []RegTypeOK
<1>1. RegInv => RegTypeOK
  BY DEF RegInv
<1> QED BY <1>1, RegInvariant, PTL

(* write_manifest_atomically is atomic for readers, process deaths         *)
(* included, on every id on which commands did not overlap.                *)
THEOREM RegNeverTorn == RegSpec => []NeverTorn
<1>1. RegInv => NeverTorn
  BY DEF RegInv
<1> QED BY <1>1, RegInvariant, PTL

(* A command that returns Ok has published the manifest it returns.        *)
THEOREM RegAckPublishes == RegSpec => AckPublishes
<1>1. RegInv /\ [RegNext]_regVars =>
        [\A w \in Writers :
            (w \in acked' \ acked /\ job[w].id \notin raced)
               => main'[job[w].id] = pending[w]]_regVars
  <2> SUFFICES ASSUME RegInv, RegNext, NEW w \in Writers,
                      w \in acked' \ acked, job[w].id \notin raced
               PROVE  main'[job[w].id] = pending[w]
    OBVIOUS
  <2>1. RenameTmp(w) /\ tmp[job[w].id] # Absent
    BY DEF RegNext, WriterStep, Abort, StartJob, ReplaceFile, ImportHash, AttachRead, AttachHash,
           CreateTmp, WriteTmp, RenameTmp, PullTokenizer, Fail, Finish
  <2>2. tmp[job[w].id] = pending[w] /\ job[w].id \in Ids
    BY <2>1 DEF RegInv, AloneInv, JobInv, Jobs, RenameTmp
  <2>3. ~Fail(w)
    BY DEF Fail
  <2> QED BY <2>1, <2>2, <2>3 DEF RegInv, RegTypeOK, RenameTmp
<1> QED BY <1>1, RegInvariant, PTL DEF RegSpec, AckPublishes

(* The files of the registry, read through get, implement ManifestStore.   *)
THEOREM RegImplementsStore == RegSpec => ImplementsStore
<1>1. RegInit => Store!StoreInit
  BY Sentinels DEF RegInit, Store!StoreInit, Get
<1>2. RegInv /\ [RegNext]_regVars => [Store!StoreNext]_Store!storeVars
  <2> SUFFICES ASSUME RegInv, RegNext
               PROVE  Store!StoreNext \/ UNCHANGED Store!storeVars
    BY DEF regVars, Store!storeVars, Get
  <2> USE DEF RegInv, RegTypeOK
  <2>1. CASE main' = main
    <3>1. \A id \in Ids : Get(id)' = Get(id)
      BY <2>1 DEF Get
    <3>2. raced' = raced \/ \E id \in Ids : raced' = raced \cup {id}
      BY DEF RegNext, WriterStep, Abort, StartJob, ReplaceFile, ImportHash, AttachRead, AttachHash,
             CreateTmp, WriteTmp, RenameTmp, PullTokenizer, Fail, Finish, Jobs
    <3> QED BY <3>1, <3>2 DEF Store!StoreNext, Store!Overlap, Store!storeVars
  <2>2. CASE main' # main
    <3>1. PICK w \in Writers :
              /\ wpc[w] # "idle" /\ raced' = raced
              /\ \/ /\ RenameTmp(w)
                    /\ main' = [main EXCEPT ![job[w].id] = tmp[job[w].id]]
                 \/ /\ job[w].id \in raced
                    /\ \E c \in FileStates : main' = [main EXCEPT ![job[w].id] = c]
      BY <2>2, MainChanges
    <3>2. PICK id \in Ids : id = job[w].id
      BY <3>1 DEF JobInv, Jobs
    <3>3. \A i \in Ids : i # id => Get(i)' = Get(i)
      BY <3>1, <3>2 DEF Get
    <3>4. [i \in Ids |-> Get(i)]' = [[i \in Ids |-> Get(i)] EXCEPT ![id] = Get(id)']
      BY <3>2, <3>3
    <3>5. CASE id \in raced
      <4>1. Get(id)' \in Manifests \cup {None}
        BY DEF Get
      <4>2. Store!Collide(id, Get(id)')
        BY <3>1, <3>4, <3>5 DEF Store!Collide
      <4> QED BY <3>2, <4>1, <4>2 DEF Store!StoreNext, Store!Manifests, Manifests
    <3>6. CASE id \notin raced
      <4>1. RenameTmp(w) /\ main'[id] = pending[w] /\ pending[w] \in Manifests
        BY <3>1, <3>2, <3>6 DEF AloneInv, JobInv, RenameTmp
      <4>2. Get(id)' = pending[w]
        BY <4>1 DEF Get
      <4>3. job[w].op \in {"import", "attach"}
        BY <3>1 DEF JobInv, Jobs
      <4>4. CASE job[w].op = "import"
        <5>1. pending[w].tokenizer = None
          BY <4>1, <4>4 DEF JobInv, RenameTmp
        <5>2. Store!Register(id, pending[w].weights, pending[w].sha256, pending[w].architecture)
          BY <3>1, <3>4, <4>1, <4>2, <5>1, ManifestIsRegistered
             DEF Store!Register, Store!Registered, Registered
        <5> QED BY <3>2, <4>1, <5>2 DEF Store!StoreNext, Manifests
      <4>5. CASE job[w].op = "attach"
        <5>1. /\ main[id] \in Manifests
              /\ pending[w].tokenizer \in Tokenizers
              /\ pending[w] = WithTokenizer(main[id], pending[w].tokenizer,
                                            pending[w].tokenizer_sha256)
          BY <3>1, <3>2, <3>6, <4>1, <4>5 DEF AloneInv, RenameTmp
        <5>2. pending[w].tokenizer_sha256 \in TokContents
          BY <4>1, <5>1, NoneAssumption DEF Manifests
        <5>3. Get(id) = main[id] /\ Get(id) # None
          BY <5>1, Sentinels DEF Get
        <5>4. Store!Attach(id, pending[w].tokenizer, pending[w].tokenizer_sha256)
          BY <3>1, <3>2, <3>4, <4>2, <5>1, <5>3
             DEF Store!Attach, Store!WithTokenizer, WithTokenizer
        <5> QED BY <3>2, <5>1, <5>2, <5>4 DEF Store!StoreNext
      <4> QED BY <4>3, <4>4, <4>5
    <3> QED BY <3>5, <3>6
  <2> QED BY <2>1, <2>2
<1> QED BY <1>1, <1>2, RegInvariant, PTL DEF RegSpec, ImplementsStore, Store!StoreSpec

-----------------------------------------------------------------------------
(* TokenStream                                                             *)

(* F accumulates the parts s[1], s[2], ... of V with op, from v.           *)
Accumulates(F, V, op, v, s, n) ==
    /\ F \in [0..n -> V]
    /\ F[0] = v
    /\ \A i \in 1..n : F[i] = op[F[i - 1]][s[i]]

(* Such an F exists, by induction on the number of parts.                   *)
LEMMA AccumulatesExists ==
    ASSUME NEW V, NEW op \in [V -> [V -> V]], NEW v \in V, NEW N \in Nat, NEW s \in [1..N -> V]
    PROVE  \E F : Accumulates(F, V, op, v, s, N)
<1> DEFINE T == {n \in Nat : n <= N => \E F : Accumulates(F, V, op, v, s, n)}
<1>1. 0 \in T
    <2> DEFINE F == [i \in 0..0 |-> v]
    <2>1. Accumulates(F, V, op, v, s, 0)
        BY DEF Accumulates
    <2> QED BY <2>1
<1>2. ASSUME NEW n \in Nat, n \in T PROVE n + 1 \in T
    <2> SUFFICES ASSUME n + 1 <= N PROVE \E G : Accumulates(G, V, op, v, s, n + 1)
        OBVIOUS
    <2>1. PICK F : Accumulates(F, V, op, v, s, n)
        BY <1>2
    <2> DEFINE e == op[F[n]][s[n + 1]]
               G == [i \in 0..(n + 1) |-> IF i = n + 1 THEN e ELSE F[i]]
    <2>2. s[n + 1] \in V /\ F[n] \in V
        BY <2>1 DEF Accumulates
    <2>3. e \in V
        BY <2>2
    <2>4. G[n + 1] = op[F[n]][s[n + 1]]
        OBVIOUS
    <2> HIDE DEF e
    <2>5. G \in [0..(n + 1) -> V] /\ \A i \in 0..n : G[i] = F[i]
        BY <2>1, <2>3 DEF Accumulates
    <2> HIDE DEF G
    <2>6. G[0] = v
        BY <2>1, <2>5 DEF Accumulates
    <2>7. ASSUME NEW i \in 1..(n + 1) PROVE G[i] = op[G[i - 1]][s[i]]
        <3>1. CASE i = n + 1
            BY <2>4, <2>5, <3>1
        <3>2. CASE i # n + 1
            <4>1. i \in 1..n /\ i \in 0..n /\ i - 1 \in 0..n
                BY <3>2
            <4>2. F[i] = op[F[i - 1]][s[i]]
                BY <2>1, <4>1 DEF Accumulates
            <4> QED BY <2>5, <4>1, <4>2
        <3> QED BY <3>1, <3>2
    <2> QED BY <2>5, <2>6, <2>7 DEF Accumulates
<1>3. \A n \in Nat : n \in T
    <2> HIDE DEF T
    <2> QED BY <1>1, <1>2, SetInduction
<1> QED BY <1>3

(* Two of them that begin with the same parts agree so far.                *)
LEMMA AccumulatesSame ==
    ASSUME NEW V, NEW op, NEW v, NEW m \in Nat, NEW n \in Nat, m <= n,
           NEW s, NEW t, \A i \in 1..m : t[i] = s[i],
           NEW F, NEW G, Accumulates(F, V, op, v, s, m), Accumulates(G, V, op, v, t, n)
    PROVE  G[m] = F[m]
<1> DEFINE T == {i \in Nat : i <= m => G[i] = F[i]}
<1>1. 0 \in T
    BY DEF Accumulates
<1>2. ASSUME NEW i \in Nat, i \in T PROVE i + 1 \in T
    <2> SUFFICES ASSUME i + 1 <= m PROVE G[i + 1] = F[i + 1]
        OBVIOUS
    <2>1. i + 1 \in 1..m /\ i + 1 \in 1..n /\ (i + 1) - 1 = i
        OBVIOUS
    <2>2. G[i] = F[i]
        BY <1>2
    <2>3. G[i + 1] = op[G[i]][t[i + 1]]
        BY <2>1 DEF Accumulates
    <2>4. F[i + 1] = op[F[i]][s[i + 1]]
        BY <2>1 DEF Accumulates
    <2> QED BY <2>1, <2>2, <2>3, <2>4
<1>3. \A i \in Nat : i \in T
    <2> HIDE DEF T
    <2> QED BY <1>1, <1>2, SetInduction
<1> QED BY <1>3

(* op on V is associative and v is neutral.                                *)
Monoid(V, op, v) ==
    /\ op \in [V -> [V -> V]] /\ v \in V
    /\ \A a \in V : op[a][v] = a
    /\ \A a, b, c \in V : op[op[a][b]][c] = op[a][op[b][c]]

(* y is x and something more.                                              *)
Extends(V, op, x, y) == \E r \in V : y = op[x][r]

(* What an associative op makes of n parts is what it makes of the first m *)
(* and something more.                                                     *)
LEMMA AccumulatesMore ==
    ASSUME NEW V, NEW op, NEW v, Monoid(V, op, v),
           NEW n \in Nat, NEW m \in 0..n, NEW t \in [1..n -> V],
           NEW G, Accumulates(G, V, op, v, t, n)
    PROVE  Extends(V, op, G[m], G[n])
<1>a. v \in V /\ (\A a \in V : op[a][v] = a) /\ \A a, b \in V : op[a][b] \in V
    BY DEF Monoid
<1>b. \A a, b, c \in V : op[op[a][b]][c] = op[a][op[b][c]]
    BY DEF Monoid
<1>1. G \in [0..n -> V] /\ \A i \in 1..n : G[i] = op[G[i - 1]][t[i]]
    BY DEF Accumulates
<1> DEFINE T == {i \in Nat : m + i <= n => \E r \in V : G[m + i] = op[G[m]][r]}
<1>2. 0 \in T
    <2>1. m + 0 = m /\ G[m] \in V
        BY <1>1
    <2>2. G[m + 0] = op[G[m]][v]
        BY <1>a, <2>1
    <2> QED BY <1>a, <2>2
<1>3. ASSUME NEW i \in Nat, i \in T PROVE i + 1 \in T
    <2> DEFINE j == m + (i + 1)
    <2> SUFFICES ASSUME j <= n PROVE \E r \in V : G[j] = op[G[m]][r]
        OBVIOUS
    <2>1. PICK r \in V : G[m + i] = op[G[m]][r]
        BY <1>3
    <2>2. j \in 1..n /\ j - 1 = m + i /\ m + i \in 0..n
        OBVIOUS
    <2> HIDE DEF j
    <2>3. G[m] \in V /\ G[j - 1] \in V /\ t[j] \in V
        BY <1>1, <2>2
    <2>4. G[j] = op[op[G[m]][r]][t[j]]
        BY <1>1, <2>1, <2>2
    <2>5. op[r][t[j]] \in V
        BY <1>a, <2>3, Zenon
    <2>6. op[op[G[m]][r]][t[j]] = op[G[m]][op[r][t[j]]]
        BY <1>b, <2>3, Zenon
    <2>7. G[j] = op[G[m]][op[r][t[j]]]
        BY <2>4, <2>6
    <2> QED BY <2>5, <2>7
<1>4. \A i \in Nat : i \in T
    <2> HIDE DEF T
    <2> QED BY <1>2, <1>3, SetInduction
<1> DEFINE d == n - m
<1>5. d \in Nat /\ m + d = n
    OBVIOUS
<1> HIDE DEF d
<1>6. m + d <= n
    BY <1>5
<1>7. \E r \in V : G[m + d] = op[G[m]][r]
    BY <1>4, <1>5, <1>6
<1>8. Extends(V, op, G[m], G[m + d])
    BY <1>7 DEF Extends
<1> QED BY <1>5, <1>8, Zenon

(* Concatenation as a function, and what it makes of the parts of s.       *)
Join(S) == [a \in Seq(S) |-> [b \in Seq(S) |-> a \o b]]
Flattens(F, S, s) == Accumulates(F, Seq(S), Join(S), <<>>, s, Len(s))

(* Join is concatenation.                                                  *)
LEMMA JoinType ==
    ASSUME NEW S
    PROVE  /\ Join(S) \in [Seq(S) -> [Seq(S) -> Seq(S)]]
           /\ \A a, b \in Seq(S) : Join(S)[a][b] = a \o b
<1>1. \A a, b \in Seq(S) : a \o b \in Seq(S)
    OBVIOUS
<1> QED BY <1>1 DEF Join

(* Concatenation is associative and <<>> is neutral.                       *)
LEMMA JoinMonoid ==
    ASSUME NEW S
    PROVE  Monoid(Seq(S), Join(S), <<>>)
<1> DEFINE V == Seq(S)
           J(a, b) == a \o b
<1>1. \A a, b \in V : Join(S)[a][b] = J(a, b)
    BY JoinType
<1>2. <<>> \in V /\ \A a \in V : J(a, <<>>) = a
    OBVIOUS
<1>3. \A a, b, c \in V : J(a, b) \in V /\ J(J(a, b), c) = J(a, J(b, c))
    OBVIOUS
<1> HIDE DEF V, J
<1>4. \A a \in V : Join(S)[a][<<>>] = a
    BY <1>1, <1>2
<1>5. ASSUME NEW a \in V, NEW b \in V, NEW c \in V
      PROVE  Join(S)[Join(S)[a][b]][c] = Join(S)[a][Join(S)[b][c]]
    <2>1. J(a, b) \in V /\ J(b, c) \in V /\ J(J(a, b), c) = J(a, J(b, c))
        BY <1>3
    <2>2. Join(S)[J(a, b)][c] = J(J(a, b), c) /\ Join(S)[a][J(b, c)] = J(a, J(b, c))
        BY <1>1, <2>1
    <2>3. Join(S)[a][b] = J(a, b) /\ Join(S)[b][c] = J(b, c)
        BY <1>1
    <2> QED BY <2>1, <2>2, <2>3
<1>6. Join(S) \in [V -> [V -> V]]
    BY JoinType DEF V
<1> QED BY <1>2, <1>4, <1>5, <1>6 DEF V, Monoid

(* Every sequence of sequences can be flattened step by step.              *)
LEMMA FlattensExists ==
    ASSUME NEW S, NEW s \in Seq(Seq(S))
    PROVE  \E F : Flattens(F, S, s)
<1> DEFINE V == Seq(S)
<1>1. Len(s) \in Nat /\ s \in [1..Len(s) -> V] /\ <<>> \in V
    OBVIOUS
<1>2. Join(S) \in [V -> [V -> V]]
    BY JoinType
<1> HIDE DEF V
<1>3. \E F : Accumulates(F, V, Join(S), <<>>, s, Len(s))
    BY <1>1, <1>2, AccumulatesExists
<1> QED BY <1>3 DEF Flattens, V

(* FlattenSeq, a recursive function under a CHOOSE, does just that.         *)
LEMMA FlattenSeqIs ==
    ASSUME NEW S, NEW s \in Seq(Seq(S)), NEW F, Flattens(F, S, s)
    PROVE  FlattenSeq(s) = F[Len(s)]
<1> DEFINE J(a, b) == a \o b
           G == CHOOSE g : g = [i \in 1..Len(s) |-> IF i = 1 THEN s[i] ELSE J(g[i - 1], s[i])]
           V == Seq(S)
           N == Len(s)
<1>1. FlattenSeq(s) = IF N = 0 THEN s ELSE G[N]
    BY DEF FlattenSeq
<1>2. N \in Nat /\ s \in [1..N -> V]
    OBVIOUS
<1>3. F \in [0..N -> V] /\ F[0] = <<>> /\ \A i \in 1..N : F[i] = Join(S)[F[i - 1]][s[i]]
    BY DEF Flattens, Accumulates
<1>4. \A a, b \in V : Join(S)[a][b] = J(a, b)
    BY JoinType
<1>5. \A a \in V : J(<<>>, a) = a
    OBVIOUS
<1>6. N = 0 => s = <<>>
    OBVIOUS
<1> DEFINE H == [i \in 1..N |-> F[i]]
<1> HIDE DEF J, V, N
<1>7. \A i \in 1..N : F[i] = J(F[i - 1], s[i])
    <2> SUFFICES ASSUME NEW i \in 1..N PROVE F[i] = J(F[i - 1], s[i])
        OBVIOUS
    <2>1. i - 1 \in 0..N
        BY <1>2
    <2>2. F[i - 1] \in V
        BY <1>3, <2>1
    <2>3. s[i] \in V
        BY <1>2
    <2> QED BY <1>3, <1>4, <2>2, <2>3
<1>8. N >= 1 => F[1] = s[1]
    <2> SUFFICES ASSUME N >= 1 PROVE F[1] = s[1]
        OBVIOUS
    <2>1. 1 \in 1..N /\ 1 - 1 = 0
        BY <1>2
    <2>2. F[1] = J(F[0], s[1])
        BY <1>7, <2>1
    <2>3. s[1] \in V
        BY <1>2, <2>1
    <2> QED BY <1>3, <1>5, <2>2, <2>3
<1>9. H = [i \in 1..N |-> IF i = 1 THEN s[i] ELSE J(H[i - 1], s[i])]
    BY <1>2, <1>7, <1>8
<1>10. G = [i \in 1..N |-> IF i = 1 THEN s[i] ELSE J(G[i - 1], s[i])]
    <2> HIDE DEF H
    <2> QED BY <1>9 DEF N
<1> HIDE DEF G
<1> DEFINE T == {n \in Nat : n \in 1..N => G[n] = F[n]}
<1>11. 0 \in T
    OBVIOUS
<1>12. ASSUME NEW n \in Nat, n \in T PROVE n + 1 \in T
    <2> SUFFICES ASSUME n + 1 \in 1..N PROVE G[n + 1] = F[n + 1]
        OBVIOUS
    <2>1. CASE n = 0
        BY <1>2, <1>8, <1>10, <2>1
    <2>2. CASE n # 0
        <3>1. G[n] = F[n]
            BY <1>2, <1>12, <2>2
        <3>2. F[n + 1] = J(F[n], s[n + 1])
            BY <1>2, <1>7, <2>2
        <3>3. G[n + 1] = J(G[n], s[n + 1])
            BY <1>2, <1>10, <2>2
        <3> QED BY <3>1, <3>2, <3>3
    <2> QED BY <2>1, <2>2
<1>13. \A n \in Nat : n \in T
    <2> HIDE DEF T
    <2> QED BY <1>11, <1>12, SetInduction
<1>14. CASE N = 0
    BY <1>14, <1>1, <1>3, <1>6 DEF N
<1>15. CASE N # 0
    <2>1. G[N] = F[N]
        BY <1>2, <1>13, <1>15
    <2> QED BY <2>1, <1>15, <1>1 DEF N
<1> QED BY <1>14, <1>15

(* FlattenSeq of sequences over S is a sequence over S.                    *)
LEMMA FlattenType ==
    ASSUME NEW S, NEW s \in Seq(Seq(S))
    PROVE  FlattenSeq(s) \in Seq(S)
<1>1. PICK F : Flattens(F, S, s)
    BY FlattensExists
<1>2. FlattenSeq(s) = F[Len(s)]
    BY <1>1, FlattenSeqIs
<1>3. Len(s) \in 0..Len(s)
    OBVIOUS
<1> QED BY <1>1, <1>2, <1>3 DEF Flattens, Accumulates

(* A sequence that begins with the parts of s, flattened, begins with s    *)
(* flattened.                                                              *)
LEMMA FlattenPrefix ==
    ASSUME NEW S, NEW s \in Seq(Seq(S)), NEW t \in Seq(Seq(S)),
           Len(s) <= Len(t), \A i \in 1..Len(s) : t[i] = s[i]
    PROVE  \E r \in Seq(S) : FlattenSeq(t) = FlattenSeq(s) \o r
<1> DEFINE m == Len(s)
           n == Len(t)
           V == Seq(S)
<1>1. PICK F : Flattens(F, S, s)
    BY FlattensExists
<1>2. PICK G : Flattens(G, S, t)
    BY FlattensExists
<1>3. FlattenSeq(s) = F[m] /\ FlattenSeq(t) = G[n]
    BY <1>1, <1>2, FlattenSeqIs
<1>4. m \in Nat /\ n \in Nat /\ m <= n /\ m \in 0..n /\ m \in 0..m
    OBVIOUS
<1>a. \A i \in 1..m : t[i] = s[i]
    OBVIOUS
<1>b. t \in [1..n -> V]
    OBVIOUS
<1>5. Monoid(V, Join(S), <<>>)
    BY JoinMonoid
<1>6. \A a, b \in V : Join(S)[a][b] = a \o b
    BY JoinType
<1>9. Accumulates(F, V, Join(S), <<>>, s, m) /\ Accumulates(G, V, Join(S), <<>>, t, n)
    BY <1>1, <1>2 DEF Flattens
<1>10. F[m] \in V /\ G[m] \in V
    BY <1>4, <1>9 DEF Accumulates
<1> HIDE DEF m, n, V
<1>11. G[m] = F[m]
    BY <1>4, <1>a, <1>9, AccumulatesSame
<1>12. \E r \in V : G[n] = Join(S)[G[m]][r]
    <2>1. Accumulates(G, V, Join(S), <<>>, t, n)
        BY <1>9
    <2>2. n \in Nat /\ m \in 0..n
        BY <1>4
    <2>3. Extends(V, Join(S), G[m], G[n])
        BY <1>5, <1>b, <2>1, <2>2, AccumulatesMore
    <2> QED BY <2>3 DEF Extends
<1>13. \E r \in V : G[n] = G[m] \o r
    BY <1>6, <1>10, <1>12
<1> QED BY <1>3, <1>11, <1>13 DEF V

(* One part more.                                                          *)
LEMMA FlattenAppend ==
    ASSUME NEW S, NEW s \in Seq(Seq(S)), NEW e \in Seq(S)
    PROVE  FlattenSeq(Append(s, e)) = FlattenSeq(s) \o e
<1> DEFINE t == Append(s, e)
           m == Len(s)
           n == m + 1
           V == Seq(S)
<1>1. t \in Seq(V) /\ Len(t) = n
    OBVIOUS
<1>2. m \in Nat /\ n \in Nat /\ m <= n /\ n \in 1..n /\ m \in 0..m /\ n - 1 = m
    OBVIOUS
<1>a. t[n] = e /\ e \in V /\ \A i \in 1..m : t[i] = s[i]
    OBVIOUS
<1> HIDE DEF t, n
<1>3. PICK F : Flattens(F, S, s)
    BY FlattensExists
<1>4. PICK G : Flattens(G, S, t)
    BY <1>1, FlattensExists
<1>5. FlattenSeq(s) = F[m] /\ FlattenSeq(t) = G[n]
    BY <1>1, <1>3, <1>4, FlattenSeqIs
<1>6. Accumulates(F, V, Join(S), <<>>, s, m) /\ Accumulates(G, V, Join(S), <<>>, t, n)
    BY <1>1, <1>3, <1>4 DEF Flattens
<1>7. Join(S) \in [V -> [V -> V]]
    BY JoinType
<1>8. \A a, b \in V : Join(S)[a][b] = a \o b
    BY JoinType
<1> HIDE DEF m, V
<1>9. G[m] = F[m]
    BY <1>2, <1>a, <1>6, AccumulatesSame
<1>10. G[n] = Join(S)[G[m]][e]
    BY <1>2, <1>a, <1>6 DEF Accumulates
<1>11. F[m] \in V
    BY <1>2, <1>6 DEF Accumulates
<1>12. Join(S)[F[m]][e] = F[m] \o e
    BY <1>a, <1>8, <1>11
<1>13. FlattenSeq(t) = FlattenSeq(s) \o e
    BY <1>5, <1>9, <1>10, <1>12
<1> QED BY <1>13 DEF t

-----------------------------------------------------------------------------
(* Decode in two steps: what each unit of u becomes, and the text.         *)
CharAt(u, i) ==
    IF u[i] = Lead
    THEN IF i < Len(u) /\ u[i + 1] = Trail THEN <<Wide>> ELSE <<Bad>>
    ELSE IF u[i] = Trail
    THEN IF i > 1 /\ u[i - 1] = Lead THEN <<>> ELSE <<Bad>>
    ELSE <<u[i]>>

Chars(u) == [i \in 1..Len(u) |-> CharAt(u, i)]

TextOf(u) == FlattenSeq(Chars(u))

Unit == STRING \cup {Wide, Bad}

(* Decode does this to the units of the tokens.                            *)
LEMMA DecodeIs == \A ts : Decode(ts) = TextOf(FlattenSeq(ts))
BY DEF Decode, TextOf, Chars, CharAt

(* Every unit becomes at most one character.                               *)
LEMMA CharsType ==
    ASSUME NEW u \in Seq(Unit)
    PROVE  /\ Chars(u) \in Seq(Seq(Unit))
           /\ Len(Chars(u)) = Len(u)
           /\ \A i \in 1..Len(u) : Chars(u)[i] = CharAt(u, i)
           /\ \A i \in 1..Len(u) : u[i] = Lead =>
                  \E x \in Unit : Chars(u)[i] = <<x>> /\ (i = Len(u) => x = Bad)
<1>1. Len(u) \in Nat
    OBVIOUS
<1>2. Wide \in Unit /\ Bad \in Unit
    BY DEF Unit
<1>3. ASSUME NEW i \in 1..Len(u) PROVE u[i] \in Unit
    OBVIOUS
<1>4. <<Wide>> \in Seq(Unit) /\ <<Bad>> \in Seq(Unit) /\ <<>> \in Seq(Unit)
    BY <1>2
<1>5. ASSUME NEW i \in 1..Len(u) PROVE <<u[i]>> \in Seq(Unit)
    BY <1>3
<1>6. ASSUME NEW i \in 1..Len(u) PROVE CharAt(u, i) \in Seq(Unit)
    BY <1>4, <1>5 DEF CharAt
<1>7. Chars(u) \in [1..Len(u) -> Seq(Unit)]
    BY <1>6 DEF Chars
<1> DEFINE V == Seq(Unit)
           n == Len(u)
<1>8. Chars(u) \in Seq(Seq(Unit)) /\ Len(Chars(u)) = Len(u)
    <2> HIDE DEF V
    <2>1. Chars(u) \in Seq(V) /\ Len(Chars(u)) = Len(u)
        BY <1>1, <1>7 DEF V
    <2> QED BY <2>1 DEF V
<1>9. \A i \in 1..Len(u) : Chars(u)[i] = CharAt(u, i)
    BY DEF Chars
<1>10. ASSUME NEW i \in 1..Len(u), u[i] = Lead
       PROVE \E x \in Unit : Chars(u)[i] = <<x>> /\ (i = Len(u) => x = Bad)
    <2>1. CASE i < Len(u) /\ u[i + 1] = Trail
        <3>1. CharAt(u, i) = <<Wide>> /\ i # Len(u)
            BY <1>1, <1>10, <2>1 DEF CharAt
        <3> QED BY <1>2, <1>9, <3>1
    <2>2. CASE ~(i < Len(u) /\ u[i + 1] = Trail)
        <3>1. CharAt(u, i) = <<Bad>>
            BY <1>1, <1>10, <2>2 DEF CharAt
        <3> QED BY <1>2, <1>9, <3>1
    <2> QED BY <2>1, <2>2
<1> QED BY <1>8, <1>9, <1>10

(* Units that follow change nothing but a first half at the end.           *)
LEMMA CharsKept ==
    ASSUME NEW u \in Seq(Unit), NEW v \in Seq(Unit), NEW i \in 1..Len(u),
           i < Len(u) \/ u[i] # Lead
    PROVE  Chars(u \o v)[i] = Chars(u)[i]
<1> DEFINE w == u \o v
<1>1. /\ w \in Seq(Unit) /\ Len(u) \in Nat /\ Len(w) \in Nat /\ Len(u) <= Len(w)
      /\ \A j \in 1..Len(u) : w[j] = u[j]
    OBVIOUS
<1> HIDE DEF w
<1>2. i \in 1..Len(w) /\ w[i] = u[i]
    BY <1>1
<1>3. i < Len(u) => (i < Len(w) /\ w[i + 1] = u[i + 1])
    BY <1>1
<1>4. i > 1 => w[i - 1] = u[i - 1]
    BY <1>1
<1>5. CharAt(w, i) = CharAt(u, i)
    <2>1. CASE u[i] = Lead
        BY <1>2, <1>3, <2>1 DEF CharAt
    <2>2. CASE u[i] # Lead
        BY <1>2, <1>4, <2>2 DEF CharAt
    <2> QED BY <2>1, <2>2
<1> QED BY <1>1, <1>2, <1>5, CharsType DEF w

(* How much of the text d will not change any more.                        *)
Settled(d) == IF Incomplete(d) THEN Len(d) - 1 ELSE Len(d)

(* e is d with more after it: what is settled of d is in e, and settled.   *)
Grows(d, e) ==
    /\ Len(d) <= Len(e) /\ Settled(d) <= Settled(e)
    /\ \A i \in 1..Settled(d) : e[i] = d[i]

(* A text with more characters behind it has grown.                        *)
LEMMA ConcatGrows ==
    ASSUME NEW d \in Seq(Unit), NEW r \in Seq(Unit)
    PROVE  Grows(d, d \o r)
<1> DEFINE e == d \o r
<1>1. /\ e \in Seq(Unit) /\ Len(e) = Len(d) + Len(r) /\ Len(d) \in Nat /\ Len(r) \in Nat
      /\ \A i \in 1..Len(d) : e[i] = d[i]
    OBVIOUS
<1>2. Len(r) = 0 => e = d
    OBVIOUS
<1>3. d # <<>> => Len(d) >= 1
    OBVIOUS
<1> HIDE DEF e
<1>4. Settled(d) \in Nat /\ Settled(d) <= Len(d) /\ Settled(e) \in {Len(e) - 1, Len(e)}
    BY <1>1, <1>3 DEF Settled, Incomplete
<1>5. Settled(d) <= Settled(e)
    <2>1. CASE Len(r) = 0
        BY <1>2, <1>4, <2>1
    <2>2. CASE Len(r) # 0
        BY <1>1, <1>4, <2>2
    <2> QED BY <2>1, <2>2
<1>6. \A i \in 1..Settled(d) : e[i] = d[i]
    BY <1>1, <1>4
<1>7. Grows(d, e)
    BY <1>1, <1>5, <1>6 DEF Grows
<1> QED BY <1>7 DEF e

(* A text whose last character is Bad and becomes another one has grown    *)
(* too.                                                                    *)
LEMMA LastMayChange ==
    ASSUME NEW f \in Seq(Unit), NEW x \in Unit, NEW r \in Seq(Unit)
    PROVE  Grows(f \o <<Bad>>, (f \o <<x>>) \o r)
<1> DEFINE d == f \o <<Bad>>
           e == (f \o <<x>>) \o r
           m == Len(f)
<1>0. Bad \in Unit
    BY DEF Unit
<1>1. /\ d \in Seq(Unit) /\ m \in Nat /\ Len(d) = m + 1 /\ d[m + 1] = Bad
      /\ \A i \in 1..m : d[i] = f[i]
    BY <1>0
<1>2. /\ e \in Seq(Unit) /\ Len(e) \in Nat /\ Len(e) >= m + 1
      /\ \A i \in 1..m : e[i] = f[i]
    OBVIOUS
<1> HIDE DEF d, e, m
<1>3. Incomplete(d)
    <2>1. d # <<>>
        BY <1>1
    <2> QED BY <1>1, <2>1 DEF Incomplete
<1>4. Settled(d) = m /\ Settled(e) >= m
    BY <1>1, <1>2, <1>3 DEF Settled
<1>5. Grows(d, e)
    BY <1>1, <1>2, <1>4 DEF Grows
<1> QED BY <1>5 DEF d, e

(* More units make the text grow: the characters of two halves that meet   *)
(* were not settled.                                                       *)
LEMMA TextGrows ==
    ASSUME NEW u \in Seq(Unit), NEW v \in Seq(Unit)
    PROVE  TextOf(u) \in Seq(Unit) /\ Grows(TextOf(u), TextOf(u \o v))
<1> DEFINE w == u \o v
           c == Chars(u)
           k == Chars(w)
           m == Len(u) - 1
<1>1. /\ w \in Seq(Unit) /\ Len(u) \in Nat /\ Len(w) \in Nat /\ Len(u) <= Len(w)
      /\ \A j \in 1..Len(u) : w[j] = u[j]
    OBVIOUS
<1>2. Len(v) = 0 => w = u
    OBVIOUS
<1>3. /\ c \in Seq(Seq(Unit)) /\ Len(c) = Len(u)
      /\ k \in Seq(Seq(Unit)) /\ Len(k) = Len(w)
    BY <1>1, CharsType
<1>4. TextOf(u) \in Seq(Unit)
    BY <1>3, FlattenType DEF TextOf
<1>5. CASE Len(u) = 0 \/ u[Len(u)] # Lead
    <2>1. \A i \in 1..Len(c) : k[i] = c[i]
        <3> SUFFICES ASSUME NEW i \in 1..Len(u) PROVE k[i] = c[i]
            BY <1>3
        <3>1. i < Len(u) \/ u[i] # Lead
            BY <1>1, <1>5
        <3> QED BY <3>1, CharsKept
    <2>2. PICK r \in Seq(Unit) : FlattenSeq(k) = FlattenSeq(c) \o r
        <3> HIDE DEF c, k
        <3> QED BY <1>1, <1>3, <2>1, FlattenPrefix
    <2> QED BY <1>4, <2>2, ConcatGrows DEF TextOf
<1>6. CASE Len(u) > 0 /\ u[Len(u)] = Lead
    <2> DEFINE p == SubSeq(c, 1, m)
    <2>1. PICK x \in Unit : k[Len(u)] = <<x>>
        <3>1. Len(u) \in 1..Len(w) /\ w[Len(u)] = Lead
            BY <1>1, <1>6
        <3> QED BY <1>1, <3>1, CharsType
    <2>2. c[Len(u)] = <<Bad>>
        <3>1. Len(u) \in 1..Len(u)
            BY <1>1, <1>6
        <3> QED BY <1>6, <3>1, CharsType
    <2>3. m \in Nat /\ m < Len(u) /\ m + 1 = Len(u)
        BY <1>1, <1>6
    <2>4. \A i \in 1..m : k[i] = c[i]
        BY <1>1, <2>3, CharsKept
    <2>5. Bad \in Unit
        BY DEF Unit
    <2> HIDE DEF c, k, w, m
    <2>6. p \in Seq(Seq(Unit)) /\ Len(p) = m /\ \A i \in 1..m : p[i] = c[i]
        BY <1>3, <2>3
    <2> HIDE DEF p
    <2>7. c = Append(p, <<Bad>>)
        BY <1>3, <2>2, <2>3, <2>5, <2>6
    <2> DEFINE q == Append(p, <<x>>)
    <2>8. <<x>> \in Seq(Unit) /\ <<Bad>> \in Seq(Unit)
        BY <2>5
    <2>9. q \in Seq(Seq(Unit)) /\ Len(q) = m + 1 /\ \A i \in 1..Len(q) : k[i] = q[i]
        <3>1. /\ q \in Seq(Seq(Unit)) /\ Len(q) = m + 1 /\ q[m + 1] = <<x>>
              /\ \A i \in 1..m : q[i] = p[i]
            BY <2>6, <2>8
        <3> HIDE DEF q
        <3>2. k[m + 1] = q[m + 1]
            BY <2>1, <2>3, <3>1
        <3>3. \A i \in 1..m : k[i] = q[i]
            BY <2>4, <2>6, <3>1
        <3>4. \A i \in 1..(m + 1) : i = m + 1 \/ i \in 1..m
            BY <2>3
        <3> QED BY <3>1, <3>2, <3>3, <3>4
    <2>10. FlattenSeq(c) = FlattenSeq(p) \o <<Bad>> /\ FlattenSeq(q) = FlattenSeq(p) \o <<x>>
        BY <2>6, <2>7, <2>8, FlattenAppend
    <2> HIDE DEF q
    <2>11. PICK r \in Seq(Unit) : FlattenSeq(k) = FlattenSeq(q) \o r
        BY <1>1, <1>3, <2>3, <2>9, FlattenPrefix
    <2>12. FlattenSeq(p) \in Seq(Unit)
        BY <2>6, FlattenType
    <2> QED BY <1>4, <2>10, <2>11, <2>12, LastMayChange DEF TextOf, c, k, w
<1> QED BY <1>1, <1>5, <1>6

(* The text of the tokens, and one token more.                             *)
LEMMA DecodeGrows ==
    ASSUME NEW ts \in Seq(Tokens)
    PROVE  /\ Decode(ts) \in Seq(Unit)
           /\ \A t \in Tokens : Grows(Decode(ts), Decode(Append(ts, t)))
<1>1. Tokens \subseteq Seq(Unit)
    <2> SUFFICES ASSUME NEW t \in Tokens PROVE t \in Seq(Unit)
        OBVIOUS
    <2>1. t \in Seq(STRING) /\ STRING \subseteq Unit
        BY LoopAssumption DEF Unit
    <2> QED BY <2>1, SeqMonotonic
<1>2. ts \in Seq(Seq(Unit))
    BY <1>1, SeqMonotonic
<1>3. FlattenSeq(ts) \in Seq(Unit)
    BY <1>2, FlattenType
<1>4. Decode(ts) \in Seq(Unit)
    <2>1. <<>> \in Seq(Unit)
        OBVIOUS
    <2> QED BY <1>3, <2>1, TextGrows, DecodeIs
<1>5. ASSUME NEW t \in Tokens PROVE Grows(Decode(ts), Decode(Append(ts, t)))
    <2>1. t \in Seq(Unit)
        BY <1>1
    <2>2. FlattenSeq(Append(ts, t)) = FlattenSeq(ts) \o t
        BY <1>2, <2>1, FlattenAppend
    <2> QED BY <1>3, <2>1, <2>2, TextGrows, DecodeIs
<1> QED BY <1>4, <1>5

-----------------------------------------------------------------------------
(* The stop strings of a request are finitely many sequences.              *)
StopsOK == IsFiniteSet(stops) /\ stops \subseteq Seq(STRING)

(* Among finitely many strings there is a longest one: the sets of longer  *)
(* ones are ordered by inclusion.                                          *)
LEMMA LongestStop ==
    ASSUME StopsOK, stops # {}
    PROVE  \E s \in stops : \A r \in stops : Len(r) <= Len(s)
<1> DEFINE Longer(s) == {r \in stops : Len(r) > Len(s)}
           U == {Longer(s) : s \in stops}
           R == StrictSubsetOrdering(stops)
<1>1. \A s \in stops : Len(s) \in Nat
    BY DEF StopsOK
<1>2. U \subseteq FiniteSubsetsOf(stops)
    <2>1. ASSUME NEW s \in stops PROVE Longer(s) \in FiniteSubsetsOf(stops)
        <3>1. Longer(s) \in SUBSET stops
            OBVIOUS
        <3>2. IsFiniteSet(Longer(s))
            BY <3>1, FS_Subset DEF StopsOK
        <3> QED BY <3>1, <3>2 DEF FiniteSubsetsOf
    <2> QED BY <2>1
<1>3. IsWellFoundedOn(R, FiniteSubsetsOf(stops))
    BY FS_StrictSubsetOrderingWellFounded
<1>4. U # {}
    OBVIOUS
<1> HIDE DEF U, R
<1>5. \E x \in U : \A y \in U : ~(<<y, x>> \in R)
    BY <1>2, <1>3, <1>4, WFMin
<1>6. PICK s \in stops : \A y \in U : <<y, Longer(s)>> \notin R
    BY <1>5 DEF U
<1>7. ASSUME NEW r \in stops, Len(r) > Len(s) PROVE FALSE
    <2>1. Longer(r) \subseteq Longer(s) /\ r \in Longer(s) /\ r \notin Longer(r)
        BY <1>1, <1>7
    <2>2. Longer(r) \in SUBSET stops /\ Longer(s) \in SUBSET stops
        OBVIOUS
    <2>3. Longer(r) \in U
        BY DEF U
    <2> HIDE DEF Longer
    <2>4. <<Longer(r), Longer(s)>> \in R
        BY <2>1, <2>2 DEF R, StrictSubsetOrdering
    <2> QED BY <1>6, <2>3, <2>4
<1> QED BY <1>1, <1>6, <1>7

(* The holdback covers every stop string but for its last character        *)
(* (api/src/lib.rs holdback_chars).                                        *)
LEMMA HoldbackCovers ==
    ASSUME StopsOK
    PROVE  /\ HoldbackChars \in Nat
           /\ \A s \in stops : Len(s) <= HoldbackChars + 1
<1> DEFINE L == {Len(s) : s \in stops} \cup {0}
           longest == CHOOSE n \in L : \A s \in stops : Len(s) <= n
<1>1. \A s \in stops : Len(s) \in Nat
    BY DEF StopsOK
<1>2. \E n \in L : \A s \in stops : Len(s) <= n
    <2>1. CASE stops = {}
        BY <2>1
    <2>2. CASE stops # {}
        BY <2>2, LongestStop
    <2> QED BY <2>1, <2>2
<1>3. longest \in L /\ \A s \in stops : Len(s) <= longest
    BY <1>2
<1>4. longest \in Nat
    BY <1>1, <1>3
<1>5. HoldbackChars = IF longest = 0 THEN 0 ELSE longest - 1
    BY DEF HoldbackChars
<1> HIDE DEF longest, L
<1> QED BY <1>1, <1>3, <1>4, <1>5

(* The first place at which a stop string begins.                          *)
LEMMA FirstStop ==
    ASSUME NEW d \in Seq(Unit), StopPositions(d) # {}
    PROVE  /\ EarliestStop(d) \in StopPositions(d)
           /\ EarliestStop(d) \in 0..Len(d)
           /\ \A j \in StopPositions(d) : EarliestStop(d) <= j
<1>1. StopPositions(d) \in SUBSET (0..Len(d)) /\ Len(d) \in Nat
    BY DEF StopPositions
<1>2. StopPositions(d) \in SUBSET Nat
    BY <1>1
<1>3. \E i \in StopPositions(d) : \A j \in StopPositions(d) : i <= j
    BY <1>2, LeastNat
<1> QED BY <1>1, <1>3 DEF EarliestStop

-----------------------------------------------------------------------------
(* No stop string begins in the first n characters of d, nor will: those   *)
(* characters a stop string that begins there would need are settled.      *)
Safe(d, n) ==
    /\ n <= Settled(d)
    /\ \A i \in 0..(n - 1), s \in stops : s # <<>> =>
        i + Len(s) <= Settled(d) /\ SubSeq(d, i + 1, i + Len(s)) # s

(* The settled part of a text is at most the text.                         *)
LEMMA SettledType ==
    ASSUME NEW d \in Seq(Unit)
    PROVE  Len(d) \in Nat /\ Settled(d) \in Nat /\ Settled(d) <= Len(d)
<1>1. d # <<>> => Len(d) >= 1
    OBVIOUS
<1> QED BY <1>1 DEF Settled, Incomplete

(* The parts of a settled text do not change while it grows.               *)
LEMMA GrowsKeeps ==
    ASSUME NEW d \in Seq(Unit), NEW e \in Seq(Unit), Grows(d, e),
           NEW i \in Nat, NEW j \in Nat, i + j <= Settled(d)
    PROVE  SubSeq(e, i + 1, i + j) = SubSeq(d, i + 1, i + j)
<1>1. /\ Len(d) \in Nat /\ Len(e) \in Nat /\ Settled(d) \in Nat
      /\ Settled(d) <= Len(d) /\ Len(d) <= Len(e)
    BY SettledType DEF Grows
<1>2. \A l \in 1..j : e[i + l] = d[i + l]
    <2> SUFFICES ASSUME NEW l \in 1..j PROVE e[i + l] = d[i + l]
        OBVIOUS
    <2>1. i + l \in 1..Settled(d)
        BY <1>1
    <2> QED BY <2>1 DEF Grows
<1>3. i + j <= Len(d) /\ i + j <= Len(e)
    BY <1>1
<1> HIDE DEF Grows
<1> DEFINE a == SubSeq(e, i + 1, i + j)
           b == SubSeq(d, i + 1, i + j)
<1>4. a \in Seq(Unit) /\ Len(a) = j /\ \A l \in 1..j : a[l] = e[i + l]
    BY <1>3
<1>5. b \in Seq(Unit) /\ Len(b) = j /\ \A l \in 1..j : b[l] = d[i + l]
    BY <1>3
<1> HIDE DEF a, b
<1>6. a = b
    BY <1>2, <1>4, <1>5, SeqEqual
<1> QED BY <1>6 DEF a, b

(* What is safe stays safe.                                                *)
LEMMA SafeGrows ==
    ASSUME StopsOK, NEW d \in Seq(Unit), NEW e \in Seq(Unit), Grows(d, e),
           NEW n \in Nat, Safe(d, n)
    PROVE  Safe(e, n) /\ SubSeq(e, 1, n) = SubSeq(d, 1, n)
<1>1. Settled(d) \in Nat /\ Settled(e) \in Nat /\ Settled(d) <= Settled(e)
    BY SettledType DEF Grows
<1>2. n <= Settled(d) /\ n <= Settled(e)
    BY <1>1 DEF Safe
<1>3. SubSeq(e, 1, n) = SubSeq(d, 1, n)
    <2> DEFINE z == 0
    <2>1. z \in Nat /\ z + n <= Settled(d) /\ z + 1 = 1 /\ z + n = n
        BY <1>1, <1>2
    <2> HIDE DEF z
    <2>2. SubSeq(e, z + 1, z + n) = SubSeq(d, z + 1, z + n)
        BY <2>1, GrowsKeeps
    <2> QED BY <2>1, <2>2
<1>4. ASSUME NEW i \in 0..(n - 1), NEW s \in stops, s # <<>>
      PROVE  i + Len(s) <= Settled(e) /\ SubSeq(e, i + 1, i + Len(s)) # s
    <2>1. Len(s) \in Nat /\ i \in Nat
        BY DEF StopsOK
    <2>2. i + Len(s) <= Settled(d) /\ SubSeq(d, i + 1, i + Len(s)) # s
        BY <1>4 DEF Safe
    <2>3. SubSeq(e, i + 1, i + Len(s)) = SubSeq(d, i + 1, i + Len(s))
        BY <2>1, <2>2, GrowsKeeps
    <2> QED BY <1>1, <2>1, <2>2, <2>3
<1> QED BY <1>2, <1>3, <1>4 DEF Safe

(* So the first stop string that appears begins after what is safe.        *)
LEMMA SafeBeforeStop ==
    ASSUME StopsOK, NEW d \in Seq(Unit), NEW n \in Nat, Safe(d, n), StopPositions(d) # {}
    PROVE  n <= EarliestStop(d)
<1> DEFINE i == EarliestStop(d)
<1>1. i \in StopPositions(d) /\ i \in 0..Len(d) /\ Len(d) \in Nat
    BY FirstStop
<1>2. PICK s \in stops : s # <<>> /\ SubSeq(d, i + 1, i + Len(s)) = s
    BY <1>1 DEF StopPositions
<1> HIDE DEF i
<1>3. i \notin 0..(n - 1)
    BY <1>2 DEF Safe
<1>4. n <= i
    BY <1>1, <1>3
<1> QED BY <1>4 DEF i

(* All but the holdback of a text without a stop string is safe.           *)
LEMMA SafeToSend ==
    ASSUME StopsOK, NEW d \in Seq(Unit), ~Incomplete(d), StopPositions(d) = {}
    PROVE  /\ HoldbackBoundary(d, HoldbackChars) \in 0..Len(d)
           /\ Safe(d, HoldbackBoundary(d, HoldbackChars))
<1> DEFINE n == HoldbackBoundary(d, HoldbackChars)
           h == HoldbackChars
<1>1. Settled(d) = Len(d) /\ Len(d) \in Nat
    BY DEF Settled
<1>2. h \in Nat /\ \A s \in stops : Len(s) <= h + 1
    BY HoldbackCovers
<1>3. n = IF h <= Len(d) THEN Len(d) - h ELSE 0
    BY DEF HoldbackBoundary
<1> HIDE DEF n, h
<1>4. n \in 0..Len(d)
    BY <1>1, <1>2, <1>3
<1>5. ASSUME NEW i \in 0..(n - 1), NEW s \in stops, s # <<>>
      PROVE  i + Len(s) <= Settled(d) /\ SubSeq(d, i + 1, i + Len(s)) # s
    <2>1. Len(s) \in Nat /\ Len(s) <= h + 1
        BY <1>2 DEF StopsOK
    <2>2. i \in 0..Len(d) /\ i + Len(s) <= Len(d)
        BY <1>1, <1>2, <1>3, <2>1
    <2>3. i \notin StopPositions(d)
        OBVIOUS
    <2>4. SubSeq(d, i + 1, i + Len(s)) # s
        BY <1>5, <2>2, <2>3 DEF StopPositions
    <2> QED BY <1>1, <2>2, <2>4
<1>6. Safe(d, n)
    BY <1>1, <1>4, <1>5 DEF Safe
<1> QED BY <1>4, <1>6 DEF n, h

(* A beginning of what is safe has no stop string.                         *)
LEMMA SafeHasNoStop ==
    ASSUME StopsOK, NEW d \in Seq(Unit), NEW n \in Nat, Safe(d, n),
           NEW x \in Seq(Unit), IsPrefix(x, SubSeq(d, 1, n))
    PROVE  StopPositions(x) = {}
<1> SUFFICES ASSUME NEW i \in StopPositions(x) PROVE FALSE
    OBVIOUS
<1>1. PICK s \in stops : s # <<>> /\ i + Len(s) <= Len(x) /\ SubSeq(x, i + 1, i + Len(s)) = s
    BY DEF StopPositions
<1>2. Len(x) \in Nat /\ i \in Nat
    BY DEF StopPositions
<1>3. s \in Seq(STRING) /\ Len(s) \in Nat /\ Len(s) >= 1
    BY <1>1 DEF StopsOK
<1>4. n <= Len(d)
    BY SettledType DEF Safe
<1> DEFINE y == SubSeq(d, 1, n)
<1>5. y \in Seq(Unit) /\ Len(y) = n /\ \A l \in 1..n : y[l] = d[l]
    BY <1>4
<1> HIDE DEF y
<1>6. Len(x) <= n /\ \A l \in 1..Len(x) : x[l] = y[l]
    BY <1>5 DEF IsPrefix, y
<1>7. i \in 0..(n - 1) /\ \A l \in 1..Len(x) : x[l] = d[l]
    BY <1>1, <1>2, <1>3, <1>5, <1>6
<1>8. SubSeq(x, i + 1, i + Len(s)) = SubSeq(d, i + 1, i + Len(s))
    <2> DEFINE a == SubSeq(x, i + 1, i + Len(s))
               b == SubSeq(d, i + 1, i + Len(s))
    <2>1. i + Len(s) <= Len(d)
        BY <1>1, <1>2, <1>3, <1>4, <1>6
    <2>2. a \in Seq(Unit) /\ Len(a) = Len(s) /\ \A l \in 1..Len(s) : a[l] = x[i + l]
        BY <1>1, <1>2, <1>3
    <2>3. b \in Seq(Unit) /\ Len(b) = Len(s) /\ \A l \in 1..Len(s) : b[l] = d[i + l]
        BY <1>2, <1>3, <2>1
    <2>4. \A l \in 1..Len(s) : x[i + l] = d[i + l]
        BY <1>1, <1>2, <1>3, <1>7
    <2> HIDE DEF a, b
    <2>5. a = b
        BY <2>2, <2>3, <2>4, SeqEqual
    <2> QED BY <2>5 DEF a, b
<1> QED BY <1>1, <1>7, <1>8 DEF Safe

-----------------------------------------------------------------------------
(* The state of a generation, and why the finish reason is true.           *)
StreamType ==
    /\ stops \in StopSets
    /\ pc \in {"prefill", "loop", "flush", "done", "failed"}
    /\ tokens \in Seq(Tokens)
    /\ produced \in 0..MaxTokens
    /\ emitted \in 0..Len(Decode(tokens))
    /\ streamed \in Seq(Unit)
    /\ truncated \in BOOLEAN /\ connected \in BOOLEAN
    /\ reason \in {"none", "StopToken", "Cancelled", "MaxTokens"}

ReasonInv ==
    /\ pc \in {"prefill", "loop"} => reason = "none" /\ ~truncated
    /\ pc \in {"flush", "done"} => reason # "none"
    /\ reason = "MaxTokens" => produced = MaxTokens
    /\ reason = "Cancelled" => truncated \/ ~connected

(* The client has what was emitted of d, or a beginning if it has left.    *)
Sent(d) ==
    /\ IsPrefix(streamed, SubSeq(d, 1, emitted))
    /\ connected => streamed = SubSeq(d, 1, emitted)

(* The invariant: what was emitted is safe while decoding goes on; a cut   *)
(* is at the first stop string; at the end all of the text was emitted.    *)
StreamInv ==
    /\ StreamType /\ ReasonInv
    /\ Sent(Decode(tokens))
    /\ pc \in {"prefill", "loop"} => Safe(Decode(tokens), emitted)
    /\ truncated => /\ StopPositions(Decode(tokens)) # {}
                    /\ emitted = EarliestStop(Decode(tokens))
    /\ pc = "done" /\ ~truncated => emitted = Len(Decode(tokens))

(* Emitting more of a text of which the client has the beginning.          *)
LEMMA EmitSends ==
    ASSUME NEW e \in Seq(Unit), emitted \in 0..Len(e), streamed \in Seq(Unit),
           connected \in BOOLEAN, Sent(e), NEW end \in 0..Len(e), Emit(e, end), connected' = connected
    PROVE  /\ emitted' = IF end > emitted THEN end ELSE emitted
           /\ emitted' \in 0..Len(e)
           /\ streamed' \in Seq(Unit)
           /\ IsPrefix(streamed', SubSeq(e, 1, emitted'))
           /\ connected' => streamed' = SubSeq(e, 1, emitted')
<1>1. Len(e) \in Nat /\ emitted \in Nat /\ end \in Nat
    OBVIOUS
<1>2. CASE end <= emitted
    <2>1. emitted' = emitted /\ streamed' = streamed
        BY <1>1, <1>2 DEF Emit
    <2> QED BY <1>1, <1>2, <2>1 DEF Sent
<1>3. CASE end > emitted
    <2> DEFINE a == SubSeq(e, 1, emitted)
               b == SubSeq(e, emitted + 1, end)
               c == SubSeq(e, 1, end)
    <2>1. emitted' = end
        BY <1>1, <1>3 DEF Emit
    <2>2. a \o b = c
        <3>1. 1 \in 1..(Len(e) + 1) /\ emitted \in (1 - 1)..Len(e) /\ end \in emitted..Len(e)
            BY <1>1, <1>3
        <3> QED BY <3>1, ConcatAdjacentSubSeq
    <2>3. /\ a \in Seq(Unit) /\ b \in Seq(Unit) /\ c \in Seq(Unit)
          /\ Len(a) = emitted /\ Len(c) = end
          /\ \A i \in 1..emitted : a[i] = c[i]
        BY <1>1, <1>3
    <2> HIDE DEF a, b, c
    <2>4. CASE connected
        <3>1. streamed' = c
            BY <1>3, <2>2, <2>4 DEF Emit, Sent, a, b
        <3>2. IsPrefix(c, c)
            BY <2>3 DEF IsPrefix
        <3> QED BY <1>1, <1>3, <2>1, <2>3, <3>1, <3>2 DEF c
    <2>5. CASE ~connected
        <3>1. streamed' = streamed
            BY <2>5 DEF Emit
        <3>2. IsPrefix(streamed, a)
            BY DEF Sent, a
        <3>3. IsPrefix(streamed, c)
            BY <1>1, <1>3, <2>3, <3>2 DEF IsPrefix
        <3> QED BY <1>1, <1>3, <2>1, <2>5, <3>1, <3>3 DEF c
    <2> QED BY <2>4, <2>5
<1> QED BY <1>1, <1>2, <1>3

(* Init: nothing is decoded, nothing is sent.                              *)
LEMMA StreamInit == Init => StreamInv
<1> SUFFICES ASSUME Init PROVE StreamInv
    OBVIOUS
<1>1. tokens = <<>> /\ emitted = 0 /\ streamed = <<>> /\ tokens \in Seq(Tokens)
    BY DEF Init
<1>2. Decode(tokens) \in Seq(Unit)
    BY <1>1, DecodeGrows
<1> DEFINE d == Decode(tokens)
<1> HIDE DEF d
<1>3. Len(d) \in Nat /\ Settled(d) \in Nat /\ d \in Seq(Unit)
    BY <1>2, SettledType DEF d
<1>4. StreamType
    <2>1. emitted \in 0..Len(d) /\ streamed \in Seq(Unit)
        BY <1>1, <1>3
    <2>2. produced \in 0..MaxTokens
        BY LoopAssumption DEF Init
    <2> QED BY <1>1, <2>1, <2>2 DEF Init, StreamType, d
<1>5. Sent(d)
    <2>1. SubSeq(d, 1, 0) = <<>>
        BY <1>3
    <2> QED BY <1>1, <2>1 DEF Sent, IsPrefix
<1>6. Safe(d, emitted)
    BY <1>1, <1>3 DEF Safe
<1> QED BY <1>4, <1>5, <1>6 DEF Init, StreamInv, ReasonInv, d

(* One token more: what was emitted is still what the client has, and      *)
(* still safe.                                                             *)
LEMMA TokenKeeps ==
    ASSUME StreamInv, pc = "loop", NEW t \in Tokens
    PROVE  LET e == Decode(Append(tokens, t)) IN
           /\ Append(tokens, t) \in Seq(Tokens)
           /\ e \in Seq(Unit) /\ emitted \in 0..Len(e)
           /\ Sent(e) /\ Safe(e, emitted)
<1> DEFINE d == Decode(tokens)
           e == Decode(Append(tokens, t))
<1>1. tokens \in Seq(Tokens) /\ Append(tokens, t) \in Seq(Tokens)
    BY DEF StreamInv, StreamType
<1>2. d \in Seq(Unit) /\ e \in Seq(Unit) /\ Grows(d, e)
    BY <1>1, DecodeGrows
<1>3. StopsOK
    BY LoopAssumption DEF StreamInv, StreamType, StopsOK
<1>4. emitted \in Nat /\ emitted <= Len(d) /\ Len(d) \in Nat
    BY <1>2 DEF StreamInv, StreamType
<1>5. Sent(d) /\ Safe(d, emitted)
    BY DEF StreamInv
<1> HIDE DEF d, e
<1>6. Safe(e, emitted) /\ SubSeq(e, 1, emitted) = SubSeq(d, 1, emitted)
    BY <1>2, <1>3, <1>4, <1>5, SafeGrows
<1>7. Len(e) \in Nat /\ emitted <= Len(e)
    BY <1>2, <1>4 DEF Grows
<1>8. Sent(e)
    BY <1>5, <1>6 DEF Sent
<1> QED BY <1>1, <1>2, <1>4, <1>6, <1>7, <1>8 DEF e

(* Every step keeps the invariant.  A token is held back, cuts the text or *)
(* lets the safe part go; the limit, the end of the generation and the     *)
(* loss of the client leave the text alone.                                *)
LEMMA StreamStep == StreamInv /\ [Next]_vars => StreamInv'
<1> SUFFICES ASSUME StreamInv, [Next]_vars PROVE StreamInv'
    OBVIOUS
<1>0. StopsOK
    BY LoopAssumption DEF StreamInv, StreamType, StopsOK
<1>a. MaxTokens \in Nat
    BY LoopAssumption
<1>b. Decode(tokens) \in Seq(Unit)
    BY DecodeGrows DEF StreamInv, StreamType
<1>1. ASSUME UNCHANGED <<stops, tokens, produced, emitted, streamed, truncated, reason>>,
             connected' \in BOOLEAN, connected' => connected,
             \/ pc' = pc
             \/ pc \in {"prefill", "loop", "flush"} /\ pc' = "failed"
             \/ pc = "prefill" /\ pc' = "loop"
      PROVE  StreamInv'
    <2>1. StreamType' /\ ReasonInv'
        BY <1>1 DEF StreamInv, StreamType, ReasonInv
    <2>2. Sent(Decode(tokens))' /\ (Safe(Decode(tokens), emitted) => Safe(Decode(tokens), emitted)')
        BY <1>1 DEF StreamInv, Sent, Safe
    <2>3. truncated' => /\ StopPositions(Decode(tokens))' # {}
                        /\ emitted' = EarliestStop(Decode(tokens))'
        <3>1. StopPositions(Decode(tokens))' = StopPositions(Decode(tokens))
            BY <1>1 DEF StopPositions
        <3>2. EarliestStop(Decode(tokens))' = EarliestStop(Decode(tokens))
            BY <1>1 DEF EarliestStop, StopPositions
        <3> QED BY <1>1, <3>1, <3>2 DEF StreamInv
    <2> QED BY <1>1, <2>1, <2>2, <2>3 DEF StreamInv
<1>2. CASE Prefill
    BY <1>1, <1>2 DEF Prefill, StreamInv, StreamType
<1>3. CASE Break
    BY <1>1, <1>3 DEF Break, StreamInv, StreamType
<1>4. CASE Disconnect
    BY <1>1, <1>4 DEF Disconnect
<1>5. CASE UNCHANGED vars
    BY <1>1, <1>5 DEF vars, StreamInv, StreamType
<1>6. ASSUME NEW r, Stop(r), r \in {"StopToken", "MaxTokens"}, pc = "loop",
             produced' \in 0..MaxTokens, r = "MaxTokens" => produced' = MaxTokens,
             UNCHANGED <<stops, tokens, emitted, streamed, truncated, connected>>
      PROVE  StreamInv'
    <2>1. StreamType' /\ ReasonInv'
        BY <1>6 DEF StreamInv, StreamType, ReasonInv, Stop
    <2>2. Sent(Decode(tokens))'
        BY <1>6 DEF StreamInv, Sent
    <2> QED BY <1>6, <2>1, <2>2 DEF StreamInv, ReasonInv, Stop
<1>7. CASE SampleStop
    <2>1. produced' \in 0..MaxTokens
        BY <1>7, <1>a DEF SampleStop, StreamInv, StreamType
    <2> QED BY <1>6, <1>7, <2>1 DEF SampleStop
<1>8. CASE MaxReached
    <2>1. produced' \in 0..MaxTokens
        BY <1>8, <1>a DEF MaxReached
    <2> QED BY <1>6, <1>8, <2>1 DEF MaxReached
<1>9. ASSUME NEW t \in Tokens, SampleToken(t) PROVE StreamInv'
    <2> DEFINE e == Decode(Append(tokens, t))
    <2>1. /\ pc = "loop" /\ tokens' = Append(tokens, t) /\ stops' = stops /\ connected' = connected
          /\ reason = "none" /\ ~truncated
        BY <1>9 DEF SampleToken, StreamInv, ReasonInv
    <2>2. /\ tokens' \in Seq(Tokens) /\ e \in Seq(Unit) /\ emitted \in 0..Len(e)
          /\ Sent(e) /\ Safe(e, emitted)
        BY <2>1, TokenKeeps
    <2>3. Decode(tokens)' = e
        BY <2>1
    <2>4. produced' \in 0..MaxTokens
        BY <1>9, <1>a DEF SampleToken, StreamInv, StreamType
    <2>5. /\ stops' \in StopSets /\ streamed \in Seq(Unit)
          /\ connected \in BOOLEAN /\ truncated \in BOOLEAN
        BY <2>1 DEF StreamInv, StreamType
    <2> HIDE DEF e
    <2>6. CASE HoldIncomplete(t)
        <3>1. UNCHANGED <<emitted, streamed, truncated, pc, reason>>
            BY <2>6 DEF HoldIncomplete, Evaluate
        <3>2. StreamType'
            BY <2>1, <2>2, <2>3, <2>4, <2>5, <3>1 DEF StreamType
        <3>3. ReasonInv'
            BY <2>1, <3>1 DEF ReasonInv
        <3>4. Sent(Decode(tokens))' /\ Safe(Decode(tokens), emitted)'
            BY <2>1, <2>2, <2>3, <3>1 DEF Sent, Safe
        <3> QED BY <2>1, <3>1, <3>2, <3>3, <3>4 DEF StreamInv
    <2>7. CASE CutAtStop(t)
        <3> DEFINE i == EarliestStop(e)
        <3>1. /\ StopPositions(e) # {} /\ Emit(e, i)
              /\ truncated' = TRUE /\ pc' = "flush" /\ reason' = "Cancelled"
            BY <2>7 DEF CutAtStop, Stop, e
        <3>2. i \in 0..Len(e) /\ i \in Nat
            BY <2>2, <3>1, FirstStop
        <3>3. emitted \in Nat /\ emitted <= i
            BY <1>0, <2>2, <3>1, SafeBeforeStop
        <3>4. /\ emitted' = IF i > emitted THEN i ELSE emitted
              /\ emitted' \in 0..Len(e) /\ streamed' \in Seq(Unit)
              /\ IsPrefix(streamed', SubSeq(e, 1, emitted'))
              /\ connected' => streamed' = SubSeq(e, 1, emitted')
            <4> HIDE DEF i
            <4> QED BY <2>1, <2>2, <2>5, <3>1, <3>2, EmitSends
        <3>5. emitted' = i
            BY <3>2, <3>3, <3>4
        <3>6. StopPositions(Decode(tokens))' # {} /\ i = EarliestStop(Decode(tokens))'
            BY <2>1, <2>3, <3>1 DEF EarliestStop, StopPositions
        <3>7. StreamType' /\ ReasonInv'
            BY <2>1, <2>2, <2>3, <2>4, <2>5, <3>1, <3>4 DEF StreamType, ReasonInv
        <3>8. Sent(Decode(tokens))'
            BY <2>3, <3>4 DEF Sent
        <3> QED BY <3>1, <3>5, <3>6, <3>7, <3>8 DEF StreamInv
    <2>8. CASE SendSafePart(t)
        <3> DEFINE end == HoldbackBoundary(e, HoldbackChars)
        <3>1. /\ ~Incomplete(e) /\ StopPositions(e) = {} /\ Emit(e, end) /\ truncated' = truncated
              /\ \/ end > emitted /\ ~connected /\ pc' = "flush" /\ reason' = "Cancelled"
                 \/ pc' = pc /\ reason' = reason
            BY <2>8 DEF SendSafePart, Stop, Evaluate, e
        <3>2. end \in 0..Len(e) /\ Safe(e, end)
            BY <1>0, <2>2, <3>1, SafeToSend
        <3> HIDE DEF end
        <3>3. /\ emitted' = IF end > emitted THEN end ELSE emitted
              /\ emitted' \in 0..Len(e) /\ streamed' \in Seq(Unit)
              /\ IsPrefix(streamed', SubSeq(e, 1, emitted'))
              /\ connected' => streamed' = SubSeq(e, 1, emitted')
            BY <2>1, <2>2, <2>5, <3>1, <3>2, EmitSends
        <3>4. Safe(e, emitted')
            BY <2>2, <3>2, <3>3
        <3>5. Safe(Decode(tokens), emitted)'
            BY <2>1, <2>3, <3>4 DEF Safe
        <3>6. StreamType' /\ ReasonInv'
            BY <2>1, <2>2, <2>3, <2>4, <2>5, <3>1, <3>3 DEF StreamType, ReasonInv
        <3>7. Sent(Decode(tokens))'
            BY <2>3, <3>3 DEF Sent
        <3> QED BY <2>1, <3>1, <3>5, <3>6, <3>7 DEF StreamInv
    <2> QED BY <1>9, <2>6, <2>7, <2>8 DEF SampleToken
<1>10. CASE Flush
    <2> DEFINE d == Decode(tokens)
               i == EarliestStop(d)
    <2>1. /\ pc = "flush" /\ pc' = "done" /\ Emit(Text, Len(Text))
          /\ UNCHANGED <<stops, tokens, produced, truncated, reason, connected>>
        BY <1>10 DEF Flush
    <2>2. /\ d \in Seq(Unit) /\ Len(d) \in Nat /\ emitted \in 0..Len(d)
          /\ streamed \in Seq(Unit) /\ connected \in BOOLEAN
        BY <1>b DEF StreamInv, StreamType
    <2>3. Decode(tokens)' = d /\ StopPositions(d)' = StopPositions(d) /\ EarliestStop(d)' = i
        BY <2>1 DEF StopPositions, EarliestStop
    <2>4. CASE truncated
        <3>1. StopPositions(d) # {} /\ emitted = i
            BY <2>4 DEF StreamInv
        <3>2. i \in 0..Len(d)
            BY <2>2, <3>1, FirstStop
        <3>3. Text = SubSeq(d, 1, i)
            BY <2>4 DEF Text
        <3>4. Len(Text) = i
            <4> HIDE DEF i, d
            <4> QED BY <2>2, <3>2, <3>3
        <3>5. emitted' = emitted /\ streamed' = streamed
            <4> HIDE DEF i, d
            <4> QED BY <2>1, <2>2, <3>1, <3>2, <3>4 DEF Emit
        <3>6. StreamType' /\ ReasonInv'
            BY <2>1, <3>5 DEF StreamInv, StreamType, ReasonInv
        <3>7. Sent(Decode(tokens))'
            BY <2>1, <3>5 DEF StreamInv, Sent
        <3> QED BY <2>1, <2>3, <2>4, <3>1, <3>5, <3>6, <3>7 DEF StreamInv
    <2>5. CASE ~truncated
        <3>1. Emit(d, Len(d)) /\ Sent(d)
            BY <2>1, <2>5 DEF Text, StreamInv
        <3> HIDE DEF d
        <3>2. Len(d) \in 0..Len(d)
            BY <2>2
        <3>3. /\ emitted' = IF Len(d) > emitted THEN Len(d) ELSE emitted
              /\ emitted' \in 0..Len(d) /\ streamed' \in Seq(Unit)
              /\ IsPrefix(streamed', SubSeq(d, 1, emitted'))
              /\ connected' => streamed' = SubSeq(d, 1, emitted')
            BY <2>1, <2>2, <3>1, <3>2, EmitSends
        <3>4. emitted' = Len(d)
            BY <2>2, <3>3
        <3>5. StreamType' /\ ReasonInv'
            BY <2>1, <2>3, <3>3 DEF StreamInv, StreamType, ReasonInv
        <3>6. Sent(Decode(tokens))'
            BY <2>3, <3>3 DEF Sent
        <3> QED BY <2>1, <2>3, <2>5, <3>4, <3>5, <3>6 DEF StreamInv
    <2> QED BY <2>4, <2>5 DEF StreamInv, StreamType
<1> QED
    BY <1>2, <1>3, <1>4, <1>5, <1>7, <1>8, <1>9, <1>10 DEF Next, Step, Finished

(* Every generation keeps StreamInv.                                       *)
THEOREM StreamInvariant == Spec => []StreamInv
BY StreamInit, StreamStep, PTL DEF Spec

(* finish_reason tells the truth (api/src/lib.rs finish_reason): "length"  *)
(* only at the limit, "cancelled" only for a client that is gone.          *)
THEOREM FinishReasonIsTrue == Spec => []ReasonIsTrue
<1>1. StreamInv => ReasonIsTrue
    BY DEF StreamInv, StreamType, ReasonInv, ReasonIsTrue, FinishReason
<1> QED BY <1>1, StreamInvariant, PTL

(* The holdback suffices (api/src/lib.rs run_generation, the holdback of   *)
(* longest stop string - 1 characters), for all stop strings, tokens of    *)
(* any length and characters split between tokens.                         *)
THEOREM HoldbackIsEnough == Spec => []HoldbackSuffices
<1>1. StreamInv => HoldbackSuffices
    <2> SUFFICES ASSUME StreamInv PROVE HoldbackSuffices
        OBVIOUS
    <2> DEFINE d == Decode(tokens)
    <2>1. StopsOK /\ streamed \in Seq(Unit) /\ tokens \in Seq(Tokens)
        BY LoopAssumption DEF StreamInv, StreamType, StopsOK
    <2>2. d \in Seq(Unit) /\ emitted \in 0..Len(d)
        BY <2>1, DecodeGrows DEF StreamInv, StreamType
    <2>3. pc = "loop" => StopPositions(streamed) = {}
        <3> SUFFICES ASSUME pc = "loop" PROVE StopPositions(streamed) = {}
            OBVIOUS
        <3>1. Safe(d, emitted) /\ IsPrefix(streamed, SubSeq(d, 1, emitted))
            BY DEF StreamInv, Sent
        <3> HIDE DEF d
        <3> QED BY <2>1, <2>2, <3>1, SafeHasNoStop
    <2>4. truncated => emitted <= EarliestStop(d)
        <3> SUFFICES ASSUME truncated PROVE emitted <= EarliestStop(d)
            OBVIOUS
        <3>1. emitted = EarliestStop(d)
            BY DEF StreamInv
        <3> HIDE DEF d
        <3> QED BY <2>2, <3>1
    <2> QED BY <2>3, <2>4 DEF HoldbackSuffices
<1> QED BY <1>1, StreamInvariant, PTL

(* A streamed answer is the answer (api/src/lib.rs run_generation): what a *)
(* client that stayed has received is the text, and what was sent is never *)
(* taken back when later tokens complete a character or a stop string.     *)
THEOREM StreamIsTheText == Spec => []StreamedIsText
<1>1. StreamInv => StreamedIsText
    <2> SUFFICES ASSUME StreamInv PROVE StreamedIsText
        OBVIOUS
    <2> DEFINE d == Decode(tokens)
               x == SubSeq(d, 1, emitted)
    <2>1. streamed \in Seq(Unit) /\ tokens \in Seq(Tokens) /\ truncated \in BOOLEAN
        BY DEF StreamInv, StreamType
    <2>2. d \in Seq(Unit) /\ emitted \in 0..Len(d)
        BY <2>1, DecodeGrows DEF StreamInv, StreamType
    <2>3. IsPrefix(streamed, x) /\ (connected => streamed = x)
        BY DEF StreamInv, Sent
    <2>4. pc = "done" => Text = x
        <3>1. CASE truncated
            BY <3>1 DEF StreamInv, Text
        <3>2. CASE ~truncated /\ pc = "done"
            <4>1. Text = d /\ emitted = Len(d)
                BY <3>2 DEF StreamInv, Text
            <4> HIDE DEF d
            <4>2. SubSeq(d, 1, Len(d)) = d
                BY <2>2
            <4> QED BY <4>1, <4>2
        <3> QED BY <2>1, <3>1, <3>2
    <2>5. IsPrefix(streamed, d)
        <3> HIDE DEF d
        <3>1. x \in Seq(Unit) /\ Len(x) = emitted /\ \A i \in 1..emitted : x[i] = d[i]
            BY <2>2
        <3> HIDE DEF x
        <3> QED BY <2>1, <2>2, <2>3, <3>1 DEF IsPrefix
    <2> HIDE DEF x
    <2> QED BY <2>3, <2>4, <2>5 DEF StreamedIsText
<1> QED BY <1>1, StreamInvariant, PTL
=============================================================================
