--------------------------- MODULE ManifestStore ---------------------------
(***************************************************************************)
(* What the registry of rust_ai_serving_engine promises to the processes   *)
(* that read it: a map from model ids to manifests that changes only by    *)
(* registering a model or by attaching a tokenizer to the model that is    *)
(* registered, each in one step.  The promise is void for an id on which   *)
(* two commands ran at the same time: there Collide may leave anything,    *)
(* an unreadable manifest (None) included.                                 *)
(***************************************************************************)
EXTENDS Manifest

VARIABLES
    shelf,      \* shelf[id]: the manifest get(id) returns, None if it fails
    raced       \* the ids on which two commands ran at the same time

storeVars == <<shelf, raced>>

StoreTypeOK ==
    /\ shelf \in [Ids -> Manifests \cup {None}]
    /\ raced \subseteq Ids

StoreInit ==
    /\ shelf = [id \in Ids |-> None]
    /\ raced = {}

Register(id, p, c, a) ==
    /\ shelf' = [shelf EXCEPT ![id] = Registered(p, c, a)]
    /\ raced' = raced

Attach(id, t, c) ==
    /\ shelf[id] # None
    /\ shelf' = [shelf EXCEPT ![id] = WithTokenizer(shelf[id], t, c)]
    /\ raced' = raced

Overlap(id) ==
    /\ raced' = raced \cup {id}
    /\ shelf' = shelf

Collide(id, m) ==
    /\ id \in raced
    /\ shelf' = [shelf EXCEPT ![id] = m]
    /\ raced' = raced

StoreNext ==
    \E id \in Ids :
        \/ \E p \in Weights, c \in Contents, a \in Architectures : Register(id, p, c, a)
        \/ \E t \in Tokenizers, c \in TokContents : Attach(id, t, c)
        \/ Overlap(id)
        \/ \E m \in Manifests \cup {None} : Collide(id, m)

StoreSpec == StoreInit /\ [][StoreNext]_storeVars
=============================================================================
