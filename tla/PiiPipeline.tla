---------------------------- MODULE PiiPipeline ----------------------------
(***************************************************************************)
(* mask and unmask of rust_pii_transformer end to end: normalize           *)
(* (src/normalize/mod.rs), detect on the normalised text                   *)
(* (src/detect/mod.rs), masking on the source (src/mask/mod.rs) and        *)
(* restoring (src/mask/restore.rs).  The span table is all that ties the   *)
(* findings to the source.                                                 *)
(*                                                                         *)
(* Places in the source are counted in characters here, in bytes in the    *)
(* code; SourceIsOrigin has both agree, so that every slice is one of      *)
(* whole characters.                                                       *)
(***************************************************************************)
EXTENDS Detect, Normalization, Masking, Restore

VARIABLE
    restored    \* the result of unmask

pvars == <<nvars, restored, mvars>>

PiiInit == NormInit /\ restored = <<>> /\ MaskInit

-----------------------------------------------------------------------------
NormalizeMore == RunPass /\ UNCHANGED <<restored, mvars>>

Normalised == pass > Len(Passes) /\ ~failed

RangeSpan(r) == Span(PointAt(text, r[1]), PointAt(text, r[2]))

(* A candidate that passes, taken back to the source.                      *)
Finding(c) ==
    LET s == ToSource(map, RangeSpan(c.range)).span IN
    [entity |-> c.entity, from |-> s.from[2], to |-> s.to[2], at |-> ListedAt(text, c)]

(* detect and the start of mask_findings.                                  *)
DetectAndMask ==
    /\ Normalised /\ stage = "idle"
    /\ \E passing \in SUBSET Candidates(text), tokenize \in Policies :
        /\ \A c \in Candidates(text) : Sure(c) => c \in passing
        /\ LET fs == {Finding(c) : c \in passing}
           IN  BeginMask(Len(source), fs, DropContained(fs), tokenize)
    /\ UNCHANGED <<nvars, restored>>

MaskMore == MaskStep /\ UNCHANGED <<nvars, restored>>

Original(e) == SubSeq(source, e.from + 1, e.to)
Masked == Rendered(out, source, ForText(source))

UnmaskText ==
    /\ stage = "masked" /\ restored = <<>>
    /\ restored' = <<Unmask(Masked, ForText(source),
                            [n \in DOMAIN entries |-> Original(entries[n])], <<>>)>>
    /\ UNCHANGED <<nvars, mvars>>

PiiStop == failed \/ restored # <<>>
PiiNext == NormalizeMore \/ DetectAndMask \/ MaskMore \/ UnmaskText \/ (PiiStop /\ UNCHANGED pvars)

PiiSpec == PiiInit /\ [][PiiNext]_pvars

-----------------------------------------------------------------------------
Hull(S) == [from |-> (CHOOSE i \in S : \A k \in S : i <= k) - 1,
            to |-> CHOOSE i \in S : \A k \in S : k <= i]

(* mask/mod.rs:4-5: a span that is found in the normalised text, taken     *)
(* back to the source, holds every character the found ones come from, and *)
(* no other between boundaries it was not widened to; its byte and its     *)
(* character offsets denote the same places.                               *)
SourceIsOrigin ==
    \A r \in Ranges(text) :
        LET s == ToSource(map, RangeSpan(r))
            h == Hull(UNION {origin[i] : i \in (r[1] + 1)..r[2]})
        IN  /\ s.span.from[2] <= h.from /\ h.to <= s.span.to[2]
            /\ ~s.snapped => s.span.from[2] = h.from /\ s.span.to[2] = h.to
            /\ s.span.from = PointAt(source, s.span.from[2])
            /\ s.span.to = PointAt(source, s.span.to[2])

(* span.rs:187-192: however the composition of the passes is bracketed,    *)
(* the table is the same.                                                  *)
ComposeAssociates ==
    Normalised =>
        map = FoldRight(LAMBDA t, acc : Compose(t, acc).map, tables, IdentityMap(text))

(* restore.rs:3: unmask of the masked text is the source, up to the        *)
(* findings whose policy leaves nothing to restore.                        *)
RoundTrip ==
    restored # <<>> =>
        /\ restored[1].ok
        /\ restored[1].text =
            Rendered([k \in DOMAIN out |->
                        [out[k] EXCEPT !.kind = IF @ = "token" THEN "copy" ELSE @]],
                     source, 0)
=============================================================================
