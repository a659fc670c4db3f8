------------------------------ MODULE Masking ------------------------------
(***************************************************************************)
(* mask_findings of rust_pii_transformer (src/mask/mod.rs): the findings   *)
(* are taken in the order of their places in the source text; what lies    *)
(* between them is copied, a finding is replaced as the policy of its      *)
(* entity says, and one that overlaps its predecessor is skipped.  mask    *)
(* gives it what drop_contained (src/detect/mod.rs) leaves of the findings *)
(* of detect; another caller may give it any findings.                     *)
(*                                                                         *)
(* A place is an offset into the source text.  The result is kept as the   *)
(* sequence of its pieces; Restore renders them and takes them back.       *)
(***************************************************************************)
EXTENDS Integers, Sequences, FiniteSets

CONSTANTS
    Entities,   \* the kinds of personal data
    Lengths,    \* the lengths of texts
    Findings,   \* what detect may find
    Policies    \* policy sets: the entities whose policy is Tokenize

ASSUME MaskingAssumption ==
    /\ Lengths \subseteq Nat
    /\ Findings \subseteq [entity : Entities, from : Nat, to : Nat, at : Nat]
    /\ Policies \subseteq SUBSET Entities

VARIABLES
    stage,      \* "idle", "masking", "masked"
    length,     \* text.len()
    policy,     \* the entities with the policy Tokenize
    found,      \* history: the findings before drop_contained
    left,       \* the findings not yet looked at
    cursor,     \* the end of what has been handled
    out,        \* the pieces of the result
    applied,    \* MaskOutput.applied
    skipped,    \* MaskOutput.skipped
    entries     \* RestoreMap.entries: the places of the originals

mvars == <<stage, length, policy, found, left, cursor, out, applied, skipped, entries>>

(* A piece of the result: text that is copied, a placeholder, or a token   *)
(* with the number of its entry.                                           *)
Pieces ==
    [kind : {"copy", "label"}, from : Nat, to : Nat, entry : {0}]
        \cup [kind : {"token"}, from : Nat, to : Nat, entry : Nat \ {0}]

Copy(a, b) == [kind |-> "copy", from |-> a, to |-> b, entry |-> 0]
Label(f) == [kind |-> "label", from |-> f.from, to |-> f.to, entry |-> 0]
Token(f, n) == [kind |-> "token", from |-> f.from, to |-> f.to, entry |-> n]

MaskTypeOK ==
    /\ stage \in {"idle", "masking", "masked"}
    /\ length \in Nat /\ cursor \in Nat
    /\ policy \subseteq Entities
    /\ found \subseteq Findings /\ left \subseteq Findings
    /\ applied \subseteq Findings /\ skipped \subseteq Findings
    /\ out \in Seq(Pieces)
    /\ entries \in Seq([from : Nat, to : Nat])

MaskInit ==
    /\ stage = "idle" /\ length = 0 /\ policy = {} /\ found = {} /\ left = {}
    /\ cursor = 0 /\ out = <<>> /\ applied = {} /\ skipped = {} /\ entries = <<>>

-----------------------------------------------------------------------------
(* Mutant of Swallowed: of two findings at the same place both go.         *)
SwallowedEqual(f, fs) ==
    \E g \in fs : g # f /\ g.from <= f.from /\ f.to <= g.to

(* drop_contained: a finding inside a wider one goes.                      *)
Swallowed(f, fs) ==
    \E g \in fs : g.from <= f.from /\ f.to <= g.to /\ g.to - g.from > f.to - f.from

DropContained(fs) == {f \in fs : ~Swallowed(f, fs)}

(* fs was found, and given is what mask_findings is called with.           *)
BeginMask(n, fs, given, tokenize) ==
    /\ stage = "idle"
    /\ stage' = "masking" /\ length' = n /\ policy' = tokenize /\ found' = fs /\ left' = given
    /\ UNCHANGED <<cursor, out, applied, skipped, entries>>

(* sort_by_key is stable: f.at is the place of f among the findings.       *)
NotAfter(f, g) ==
    \/ f.from < g.from
    \/ f.from = g.from /\ f.to < g.to
    \/ f.from = g.from /\ f.to = g.to /\ f.at <= g.at

IsNext(f) == stage = "masking" /\ f \in left /\ \A g \in left : NotAfter(f, g)

(* Mutant of OutOfPlace: an overlap is looked for at the end of the        *)
(* finding only.                                                           *)
OutOfPlaceByEnd(f) == f.to < cursor \/ f.to > length \/ f.from > f.to

OutOfPlace(f) == f.from < cursor \/ f.to > length \/ f.from > f.to

SkipFinding(f) ==
    /\ IsNext(f) /\ OutOfPlace(f)
    /\ skipped' = skipped \cup {f}
    /\ left' = left \ {f}
    /\ UNCHANGED <<stage, length, policy, found, cursor, out, applied, entries>>

(* render: with the policy Tokenize the original gets an entry of the      *)
(* restore map (RestoreMap::push).                                         *)
ApplyFinding(f) ==
    /\ IsNext(f) /\ ~OutOfPlace(f)
    /\ \/ /\ f.entity \in policy
          /\ entries' = Append(entries, [from |-> f.from, to |-> f.to])
          /\ out' = out \o <<Copy(cursor, f.from), Token(f, Len(entries) + 1)>>
       \/ /\ f.entity \notin policy
          /\ entries' = entries
          /\ out' = out \o <<Copy(cursor, f.from), Label(f)>>
    /\ cursor' = f.to
    /\ applied' = applied \cup {f}
    /\ left' = left \ {f}
    /\ UNCHANGED <<stage, length, policy, found, skipped>>

(* The text after the last finding is copied.                              *)
FinishMask ==
    /\ stage = "masking" /\ left = {}
    /\ out' = Append(out, Copy(cursor, length))
    /\ cursor' = length
    /\ stage' = "masked"
    /\ UNCHANGED <<length, policy, found, left, applied, skipped, entries>>

MaskStep ==
    \/ \E f \in left : SkipFinding(f) \/ ApplyFinding(f)
    \/ FinishMask

MaskNext ==
    \/ \E n \in Lengths, fs \in SUBSET Findings, tokenize \in Policies :
        /\ IsFiniteSet(fs)
        /\ \E given \in {fs, DropContained(fs)} : BeginMask(n, fs, given, tokenize)
    \/ MaskStep

MaskSpec == MaskInit /\ [][MaskNext]_mvars

-----------------------------------------------------------------------------
(* The pieces are in order, without gap or overlap, from the start of the  *)
(* text to the cursor.                                                     *)
PiecesTile ==
    /\ IF out = <<>> THEN cursor = 0 ELSE out[1].from = 0 /\ out[Len(out)].to = cursor
    /\ \A k \in DOMAIN out : out[k].from <= out[k].to
    /\ \A k \in 1..(Len(out) - 1) : out[k + 1].from = out[k].to

SamePlace(p, q) == p.from = q.from /\ p.to = q.to

(* What is not copied is what was found and applied.                       *)
OnlyFindingsReplaced ==
    /\ \A k \in DOMAIN out : out[k].kind # "copy" => \E f \in applied : SamePlace(out[k], f)
    /\ \A f \in applied : \E k \in DOMAIN out : out[k].kind # "copy" /\ SamePlace(out[k], f)

(* mask/mod.rs:11: "every byte outside the found ranges is exactly that of *)
(* the source", and at the end none is missing.                            *)
OutsideUntouched ==
    /\ PiecesTile /\ OnlyFindingsReplaced
    /\ stage = "masked" => cursor = length

(* A finding is skipped only because it does not fit into the text or      *)
(* because it begins inside one that was applied.                          *)
SkippedForCause ==
    \A f \in skipped :
        \/ f.to > length \/ f.from > f.to
        \/ \E g \in applied : g.from <= f.from /\ f.from < g.to

(* Whatever passes the evaluation is masked, or lies within a finding that *)
(* is skipped, and skipped findings are listed in the output: nothing is   *)
(* left visible in silence.                                                *)
NothingLeaks ==
    stage = "masked" =>
        /\ SkippedForCause
        /\ \A f \in found : \E g \in applied \cup skipped : g.from <= f.from /\ f.to <= g.to

(* Every token has an entry with the place it stands for, and every entry  *)
(* a token: what restore.rs:6-7 rests on.                                  *)
TokensHaveEntries ==
    /\ \A k \in DOMAIN out : out[k].kind = "token" =>
            out[k].entry \in DOMAIN entries /\ SamePlace(out[k], entries[out[k].entry])
    /\ \A n \in DOMAIN entries : \E k \in DOMAIN out : out[k].kind = "token" /\ out[k].entry = n
=============================================================================
