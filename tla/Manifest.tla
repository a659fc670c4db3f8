------------------------------ MODULE Manifest ------------------------------
(***************************************************************************)
(* The model manifest of rust_ai_serving_engine (core/src/manifest.rs).    *)
(* A SHA-256 digest is represented by the content it is the digest of.     *)
(* kind and context_length are stored and never read by the engine, and    *)
(* chat_template is chosen together with architecture; they are left out.  *)
(***************************************************************************)
EXTENDS Naturals, FiniteSets

CONSTANTS
    Ids,            \* model ids that pass validate_model_id
    Weights,        \* paths of weight files
    Tokenizers,     \* paths of tokenizer.json files
    Contents,       \* what a weight file can hold
    TokContents,    \* what a tokenizer file can hold
    Architectures,  \* values of the architecture field; may contain None
    None,           \* an Option that is None
    Missing         \* no file at a path

(* attach_tokenizer sets the tokenizer path and its digest together.       *)
Manifests ==
    {m \in [weights : Weights, sha256 : Contents,
            tokenizer : Tokenizers \cup {None}, tokenizer_sha256 : TokContents \cup {None},
            architecture : Architectures] :
        (m.tokenizer = None) <=> (m.tokenizer_sha256 = None)}

(* The files a manifest points to, which other processes own, and what can *)
(* be found at the path of each.                                           *)
Artifacts == Weights \cup Tokenizers
Holds(p) == {Missing} \cup (IF p \in Weights THEN Contents ELSE TokContents)
Disks ==
    {f \in [Artifacts -> Contents \cup TokContents \cup {Missing}] :
        \A p \in Artifacts : f[p] \in Holds(p)}

ASSUME NoneAssumption ==
    None \notin Tokenizers \cup Contents \cup TokContents \cup Manifests
ASSUME ArtifactAssumption ==
    Missing \notin Contents \cup TokContents /\ Weights \cap Tokenizers = {}

(* The two manifests import_local and attach_tokenizer make.               *)
Registered(p, c, a) ==
    [weights |-> p, sha256 |-> c, tokenizer |-> None, tokenizer_sha256 |-> None,
     architecture |-> a]

(* Mutant of WithTokenizer: the path of the tokenizer is not recorded.     *)
WithoutPath(m, t, c) ==
    [weights |-> m.weights, sha256 |-> m.sha256, tokenizer |-> None, tokenizer_sha256 |-> c,
     architecture |-> m.architecture]

WithTokenizer(m, t, c) ==
    [weights |-> m.weights, sha256 |-> m.sha256, tokenizer |-> t, tokenizer_sha256 |-> c,
     architecture |-> m.architecture]
=============================================================================
