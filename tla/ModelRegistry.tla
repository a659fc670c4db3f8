--------------------------- MODULE ModelRegistry ---------------------------
(***************************************************************************)
(* The on-disk model registry of rust_ai_serving_engine                    *)
(* (rust_ai_serving_engine_core/src/registry.rs) and the command-line      *)
(* operations that write it (rust_ai_serving_engine_cli/src/main.rs).      *)
(*                                                                         *)
(* A registry is a directory of TOML manifests, one per model id.  Every   *)
(* command is a process of its own (Writers) and no lock is taken, so the  *)
(* model interleaves the file-system calls of several processes.  A        *)
(* manifest is published by write_manifest_atomically: create (truncate)   *)
(* "<id>.toml.tmp", write it, rename it over "<id>.toml".  A process that  *)
(* has the temporary file open keeps writing to the same inode after       *)
(* another process renamed it; fd[w] says which name that inode has now.   *)
(***************************************************************************)
EXTENDS Manifest

CONSTANTS
    Unsupported,    \* weight paths whose extension is neither gguf nor safetensors
    Writers,        \* processes that run import, pull or attach-tokenizer
    Absent,         \* no file at a manifest's path
    Empty,          \* a manifest file that has been truncated and not yet written
    Torn            \* a manifest file with bytes of two different manifests

(* What a manifest path, or its temporary path, can hold.                  *)
FileStates == {Absent, Empty, Torn} \cup Manifests

(* One registry command: import (optionally followed by an attach, which   *)
(* is `model pull`) or attach-tokenizer.                                   *)
Jobs ==
    [op : {"import", "attach"}, id : Ids, weights : Weights,
     tokenizer : Tokenizers \cup {None}, architecture : Architectures]

ASSUME JobAssumption == None \notin Jobs
ASSUME FileStateAssumption ==
    /\ {Absent, Empty, Torn} \cap Manifests = {}
    /\ Absent # Empty /\ Empty # Torn /\ Absent # Torn

VARIABLES
    artifact,   \* artifact[p]: content of the weight or tokenizer file p
    main,       \* main[id]: the file <id>.toml
    tmp,        \* tmp[id]: the file <id>.toml.tmp
    wpc,        \* wpc[w]: where process w is in its command
    job,        \* job[w]: the command w runs
    pending,    \* pending[w]: the manifest w is about to publish
    fd,         \* fd[w]: the name that the inode w has open has now
    acked,      \* the processes whose last command returned Ok
    raced       \* history: the ids on which two commands ever overlapped

regVars == <<artifact, main, tmp, wpc, job, pending, fd, acked, raced>>

RegTypeOK ==
    /\ artifact \in Disks
    /\ main \in [Ids -> FileStates]
    /\ tmp \in [Ids -> FileStates]
    /\ wpc \in [Writers -> {"idle", "begin", "download", "hash", "create", "write", "rename"}]
    /\ job \in [Writers -> Jobs \cup {None}]
    /\ pending \in [Writers -> Manifests \cup {None}]
    /\ fd \in [Writers -> {"none", "tmp", "main", "orphan"}]
    /\ acked \subseteq Writers
    /\ raced \subseteq Ids

RegInit ==
    /\ artifact \in Disks
    /\ main = [id \in Ids |-> Absent]
    /\ tmp = [id \in Ids |-> Absent]
    /\ wpc = [w \in Writers |-> "idle"]
    /\ job = [w \in Writers |-> None]
    /\ pending = [w \in Writers |-> None]
    /\ fd = [w \in Writers |-> "none"]
    /\ acked = {}
    /\ raced = {}

-----------------------------------------------------------------------------
(* ModelRegistry::get: the parsed manifest, or None where the code returns *)
(* an error (no such file, or a file that does not parse).                 *)
Get(id) == IF main[id] \in Manifests THEN main[id] ELSE None

(* A command begins.                                                       *)
StartJob(w, j) ==
    /\ wpc[w] = "idle"
    /\ job' = [job EXCEPT ![w] = j]
    /\ wpc' = [wpc EXCEPT ![w] = "begin"]
    /\ acked' = acked \ {w}
    /\ raced' = IF \E v \in Writers : wpc[v] # "idle" /\ job[v].id = j.id
                THEN raced \cup {j.id} ELSE raced
    /\ UNCHANGED <<artifact, main, tmp, pending, fd>>

(* The command returns; its process is gone and holds no file open.        *)
Finish(w) ==
    /\ wpc' = [wpc EXCEPT ![w] = "idle"]
    /\ job' = [job EXCEPT ![w] = None]
    /\ pending' = [pending EXCEPT ![w] = None]
    /\ raced' = raced

(* It returns an error: the files stay as they are.                        *)
Fail(w) ==
    /\ Finish(w)
    /\ fd' = [fd EXCEPT ![w] = "none"]
    /\ UNCHANGED <<artifact, main, tmp, acked>>

(* The process is killed, or one of its file-system calls or downloads     *)
(* fails, wherever it is.                                                  *)
Abort(w) == wpc[w] # "idle" /\ Fail(w)

(* import_local up to the manifest value: the weight file must exist, have *)
(* a supported extension, and is hashed; the new manifest has no tokenizer.*)
ImportHash(w) ==
    LET p == job[w].weights IN
    /\ wpc[w] = "begin" /\ job[w].op = "import"
    /\ \/ /\ artifact[p] # Missing /\ p \notin Unsupported
          /\ pending' = [pending EXCEPT ![w] =
                Registered(p, artifact[p], job[w].architecture)]
          /\ wpc' = [wpc EXCEPT ![w] = "create"]
          /\ UNCHANGED <<artifact, main, tmp, job, fd, acked, raced>>
       \/ /\ artifact[p] = Missing \/ p \in Unsupported
          /\ Fail(w)

(* attach_tokenizer reads the manifest it is going to rewrite ...          *)
AttachRead(w) ==
    LET t == job[w].tokenizer
        m == Get(job[w].id) IN
    /\ wpc[w] = "begin" /\ job[w].op = "attach"
    /\ \/ /\ artifact[t] # Missing /\ m # None
          /\ pending' = [pending EXCEPT ![w] = m]
          /\ wpc' = [wpc EXCEPT ![w] = "hash"]
          /\ UNCHANGED <<artifact, main, tmp, job, fd, acked, raced>>
       \/ /\ artifact[t] = Missing \/ m = None
          /\ Fail(w)

(* Mutant of AttachHash: the weights are hashed again too.                 *)
AttachRehash(w) ==
    LET t == job[w].tokenizer
        c == artifact[pending[w].weights] IN
    /\ wpc[w] = "hash"
    /\ artifact[t] # Missing /\ c # Missing
    /\ pending' = [pending EXCEPT ![w] =
          WithTokenizer(Registered(@.weights, c, @.architecture), t, artifact[t])]
    /\ wpc' = [wpc EXCEPT ![w] = "create"]
    /\ UNCHANGED <<artifact, main, tmp, job, fd, acked, raced>>

(* ... and then hashes the tokenizer, which takes a while.                 *)
AttachHash(w) ==
    LET t == job[w].tokenizer IN
    /\ wpc[w] = "hash"
    /\ \/ /\ artifact[t] # Missing
          /\ pending' = [pending EXCEPT ![w] = WithTokenizer(@, t, artifact[t])]
          /\ wpc' = [wpc EXCEPT ![w] = "create"]
          /\ UNCHANGED <<artifact, main, tmp, job, fd, acked, raced>>
       \/ /\ artifact[t] = Missing
          /\ Fail(w)

(* Mutants of CreateTmp: no truncation; a temporary file that is there is  *)
(* used as it is.                                                          *)
CreateKeep(w) ==
    /\ wpc[w] = "create"
    /\ tmp' = [tmp EXCEPT ![job[w].id] = IF @ = Absent THEN Empty ELSE @]
    /\ fd' = [fd EXCEPT ![w] = "tmp"]
    /\ wpc' = [wpc EXCEPT ![w] = "write"]
    /\ UNCHANGED <<artifact, main, job, pending, acked, raced>>

CreateReuse(w) ==
    /\ wpc[w] = "create"
    /\ tmp' = [tmp EXCEPT ![job[w].id] = IF @ \in Manifests THEN @ ELSE Empty]
    /\ fd' = [fd EXCEPT ![w] = IF tmp[job[w].id] \in Manifests THEN "none" ELSE "tmp"]
    /\ wpc' = [wpc EXCEPT ![w] = IF tmp[job[w].id] \in Manifests THEN "rename" ELSE "write"]
    /\ UNCHANGED <<artifact, main, job, pending, acked, raced>>

(* write_manifest_atomically: fs::write opens the temporary file with      *)
(* truncation ...                                                          *)
CreateTmp(w) ==
    /\ wpc[w] = "create"
    /\ tmp' = [tmp EXCEPT ![job[w].id] = Empty]
    /\ fd' = [fd EXCEPT ![w] = "tmp"]
    /\ wpc' = [wpc EXCEPT ![w] = "write"]
    /\ UNCHANGED <<artifact, main, job, pending, acked, raced>>

(* The possible contents after m is written at offset 0 over old.          *)
Overlay(old, m) == IF old \in {Empty, m} THEN {m} ELSE {m, Torn}

(* ... writes it: into the inode it opened, whatever name that has now ... *)
WriteTmp(w) ==
    LET id == job[w].id
        m == pending[w] IN
    /\ wpc[w] = "write"
    /\ \/ /\ fd[w] = "tmp"
          /\ \E c \in Overlay(tmp[id], m) : tmp' = [tmp EXCEPT ![id] = c]
          /\ main' = main
       \/ /\ fd[w] = "main"
          /\ \E c \in Overlay(main[id], m) : main' = [main EXCEPT ![id] = c]
          /\ tmp' = tmp
       \/ /\ fd[w] = "orphan"
          /\ UNCHANGED <<main, tmp>>
    /\ fd' = [fd EXCEPT ![w] = "none"]
    /\ wpc' = [wpc EXCEPT ![w] = "rename"]
    /\ UNCHANGED <<artifact, job, pending, acked, raced>>

(* Who has <id>.toml.tmp open has <id>.toml open once it is renamed; who   *)
(* had the old <id>.toml open has an unlinked inode.                       *)
AfterRename(id, v) ==
    IF fd[v] = "none" \/ job[v].id # id THEN fd[v]
    ELSE IF fd[v] = "tmp" THEN "main" ELSE "orphan"

(* ... and renames whatever the temporary file holds over the manifest.    *)
(* `model pull` with a tokenizer goes on to download and attach it.        *)
RenameTmp(w) ==
    LET id == job[w].id IN
    /\ wpc[w] = "rename"
    /\ \/ /\ tmp[id] # Absent
          /\ main' = [main EXCEPT ![id] = tmp[id]]
          /\ tmp' = [tmp EXCEPT ![id] = Absent]
          /\ fd' = [v \in Writers |-> AfterRename(id, v)]
          /\ artifact' = artifact
          /\ \/ /\ job[w].op = "import" /\ job[w].tokenizer # None
                /\ wpc' = [wpc EXCEPT ![w] = "download"]
                /\ UNCHANGED <<job, pending, acked, raced>>
             \/ /\ job[w].op = "attach" \/ job[w].tokenizer = None
                /\ Finish(w)
                /\ acked' = acked \cup {w}
       \/ /\ tmp[id] = Absent
          /\ Fail(w)

(* HuggingFaceHub::download of the tokenizer, then attach_tokenizer.       *)
PullTokenizer(w) ==
    /\ wpc[w] = "download"
    /\ job' = [job EXCEPT ![w] =
          [op |-> "attach", id |-> job[w].id, weights |-> job[w].weights,
           tokenizer |-> job[w].tokenizer, architecture |-> job[w].architecture]]
    /\ wpc' = [wpc EXCEPT ![w] = "begin"]
    /\ UNCHANGED <<artifact, main, tmp, pending, fd, acked, raced>>

(* External: somebody replaces or removes a weight or tokenizer file.      *)
ReplaceFile(p, c) ==
    /\ artifact[p] # c
    /\ artifact' = [artifact EXCEPT ![p] = c]
    /\ UNCHANGED <<main, tmp, wpc, job, pending, fd, acked, raced>>

WriterStep(w) ==
    \/ ImportHash(w) \/ AttachRead(w) \/ AttachHash(w)
    \/ CreateTmp(w) \/ WriteTmp(w) \/ RenameTmp(w)
    \/ PullTokenizer(w)

RegNext ==
    \/ \E w \in Writers : WriterStep(w) \/ Abort(w)
    \/ \E w \in Writers, j \in Jobs : (j.op = "attach" => j.tokenizer # None) /\ StartJob(w, j)
    \/ \E p \in Artifacts : \E c \in Holds(p) : ReplaceFile(p, c)

RegSpec == RegInit /\ [][RegNext]_regVars

-----------------------------------------------------------------------------
(* No process ever reads half a manifest: whoever opens <id>.toml finds no *)
(* file or a whole manifest, also after processes died at any point of     *)
(* write_manifest_atomically, as long as commands on that id did not run   *)
(* at the same time.                                                       *)
NeverTorn == \A id \in Ids \ raced : main[id] \in {Absent} \cup Manifests

(* README.md:202: the registry "hashes the weights and writes the TOML     *)
(* manifest atomically", without the restriction of NeverTorn.             *)
ManifestAtomic == \A id \in Ids : main[id] \in {Absent} \cup Manifests

(* import_local and attach_tokenizer return Ok(manifest) only when that    *)
(* very manifest is what <id>.toml holds, whatever an earlier command left *)
(* in <id>.toml.tmp.                                                       *)
AckPublishes ==
    [][\A w \in Writers :
         (w \in acked' \ acked /\ job[w].id \notin raced)
            => main'[job[w].id] = pending[w]]_regVars

(* The files, seen through get, are a ManifestStore: the model changes     *)
(* only by one whole registration or by one tokenizer joining the model    *)
(* that is registered (so attach_tokenizer, which rewrites the manifest it *)
(* read earlier, never brings back older weights).                         *)
Store == INSTANCE ManifestStore WITH shelf <- [id \in Ids |-> Get(id)], raced <- raced
ImplementsStore == Store!StoreSpec
=============================================================================
