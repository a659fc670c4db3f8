---------------------------- MODULE TokenStream ----------------------------
(***************************************************************************)
(* One generation of rust_ai_serving_engine: the decode loop generate_with *)
(* (core/src/generation.rs), the decoder's KV cache position               *)
(* (models/src/qwen3_gguf.rs, llama_gguf.rs) and run_generation            *)
(* (api/src/lib.rs), which turns tokens into text, holds text back for the *)
(* sake of stop strings and streams the rest to a client that may go away. *)
(*                                                                         *)
(* A token is a sequence of units; a unit is a one-byte character or one   *)
(* of the two bytes Lead, Trail of a multi-byte character.  The sampler is *)
(* free to choose any token.  Positions count characters.                  *)
(***************************************************************************)
EXTENDS Naturals, FiniteSets, SequencesExt

CONSTANTS
    Tokens,         \* the vocabulary, a set of sequences of units
    StopSets,       \* the values of the request's stop field, sets of strings
    MaxTokens,      \* max_tokens of the request
    PromptLen       \* number of tokens of the prompt

Lead == "lead"      \* first byte of a two-byte character
Trail == "trail"    \* second byte
Wide == "wide"      \* the character they make
Bad == "bad"        \* U+FFFD, the replacement character

ASSUME LoopAssumption ==
    /\ MaxTokens \in Nat /\ PromptLen \in Nat /\ Tokens # {} /\ StopSets # {}
    /\ Tokens \subseteq Seq(STRING)
    /\ \A S \in StopSets : IsFiniteSet(S) /\ S \subseteq Seq(STRING)

VARIABLES
    stops,      \* stop strings of this request
    pc,         \* "prefill", "loop", "flush", "done" or "failed"
    tokens,     \* the tokens on_token has seen
    produced,   \* how many tokens were sampled, a stop token included
    position,   \* next_position of the decoder's KV cache
    emitted,    \* how much text has been handed to on_delta
    streamed,   \* the text the client was sent
    truncated,  \* whether a stop string ended the generation
    reason,     \* GenerationStopReason
    connected   \* the client still listens

vars == <<stops, pc, tokens, produced, position, emitted, streamed, truncated, reason,
          connected>>

-----------------------------------------------------------------------------
(* External: tokenizer.decode concatenates the bytes of the tokens and     *)
(* replaces every byte that is no part of a character by U+FFFD.           *)
Decode(ts) ==
    LET u == FlattenSeq(ts)
        Char(i) ==
            IF u[i] = Lead
            THEN IF i < Len(u) /\ u[i + 1] = Trail THEN <<Wide>> ELSE <<Bad>>
            ELSE IF u[i] = Trail
            THEN IF i > 1 /\ u[i - 1] = Lead THEN <<>> ELSE <<Bad>>
            ELSE <<u[i]>>
    IN FlattenSeq([i \in 1..Len(u) |-> Char(i)])

(* The positions at which a stop string begins in text, and the first one. *)
StopPositions(text) ==
    {i \in 0..Len(text) : \E s \in stops :
        s # <<>> /\ i + Len(s) <= Len(text) /\ SubSeq(text, i + 1, i + Len(s)) = s}

EarliestStop(text) == CHOOSE i \in StopPositions(text) : \A j \in StopPositions(text) : i <= j

(* Mutant of HoldbackChars: one character short.                           *)
HoldbackShort ==
    LET longest == CHOOSE n \in {Len(s) : s \in stops} \cup {0} : \A s \in stops : Len(s) <= n
    IN IF longest < 2 THEN 0 ELSE longest - 2

(* The length of the longest stop string, less one.                        *)
HoldbackChars ==
    LET longest == CHOOSE n \in {Len(s) : s \in stops} \cup {0} : \A s \in stops : Len(s) <= n
    IN IF longest = 0 THEN 0 ELSE longest - 1

(* What may be sent of text: all but its last n characters.                *)
HoldbackBoundary(text, n) == IF n <= Len(text) THEN Len(text) - n ELSE 0

(* The client receives the rest of text[..end] if it is there.             *)
Emit(text, end) ==
    /\ emitted' = IF end > emitted THEN end ELSE emitted
    /\ streamed' = IF end > emitted /\ connected
                   THEN streamed \o SubSeq(text, emitted + 1, end) ELSE streamed

-----------------------------------------------------------------------------
Init ==
    /\ stops \in StopSets
    /\ pc = "prefill"
    /\ tokens = <<>>
    /\ produced = 0
    /\ position \in {0, PromptLen + MaxTokens}      \* left by an earlier request
    /\ emitted = 0
    /\ streamed = <<>>
    /\ truncated = FALSE
    /\ reason = "none"
    /\ connected = TRUE

(* GenerationConfig::validate and decoder.prefill, which clears the KV     *)
(* cache and evaluates the whole prompt; an error of the former leaves the *)
(* cache as it is, an error of the latter leaves it empty.                 *)
Prefill ==
    /\ pc = "prefill"
    /\ \/ /\ MaxTokens > 0 /\ PromptLen > 0
          /\ position' = PromptLen
          /\ pc' = "loop"
       \/ /\ position' \in {position, 0}
          /\ pc' = "failed"
    /\ UNCHANGED <<stops, tokens, produced, emitted, streamed, truncated, reason, connected>>

(* The end of the loop with stop reason r.                                 *)
Stop(r) == pc' = "flush" /\ reason' = r /\ UNCHANGED position

(* decoder.decode(token): the token is evaluated at next_position.         *)
Evaluate ==
    /\ position' = position + 1
    /\ UNCHANGED <<pc, reason>>

(* The model's end-of-sequence token, which run_generation adds to the     *)
(* stop tokens: it counts as produced and is not shown to on_token.        *)
SampleStop ==
    /\ pc = "loop" /\ produced < MaxTokens
    /\ produced' = produced + 1
    /\ Stop("StopToken")
    /\ UNCHANGED <<stops, tokens, emitted, streamed, truncated, connected>>

(* Mutant of Incomplete: no text is.                                       *)
NeverIncomplete(text) == FALSE

(* Any other token goes through on_token, in three ways.  The text ends in *)
(* the middle of a character: wait for the rest.                           *)
Incomplete(text) == text # <<>> /\ text[Len(text)] = Bad

HoldIncomplete(t) ==
    /\ Incomplete(Decode(Append(tokens, t)))
    /\ Evaluate
    /\ UNCHANGED <<emitted, streamed, truncated>>

(* Mutant of CutAtStop: the cut is not remembered.                         *)
CutForgotten(t) ==
    LET full == Decode(Append(tokens, t)) IN
    /\ ~Incomplete(full) /\ StopPositions(full) # {}
    /\ Emit(full, EarliestStop(full))
    /\ truncated' = truncated
    /\ Stop("Cancelled")

(* A stop string is in the text: send what precedes it and stop.           *)
CutAtStop(t) ==
    LET full == Decode(Append(tokens, t)) IN
    /\ ~Incomplete(full) /\ StopPositions(full) # {}
    /\ Emit(full, EarliestStop(full))
    /\ truncated' = TRUE
    /\ Stop("Cancelled")

(* Otherwise send what no stop string can begin in; if the client is gone  *)
(* and there was something to send, stop.                                  *)
SendSafePart(t) ==
    LET full == Decode(Append(tokens, t))
        end == HoldbackBoundary(full, HoldbackChars) IN
    /\ ~Incomplete(full) /\ StopPositions(full) = {}
    /\ Emit(full, end)
    /\ truncated' = truncated
    /\ \/ (end > emitted /\ ~connected) /\ Stop("Cancelled")
       \/ ~(end > emitted /\ ~connected) /\ Evaluate

SampleToken(t) ==
    /\ pc = "loop" /\ produced < MaxTokens
    /\ produced' = produced + 1
    /\ tokens' = Append(tokens, t)
    /\ HoldIncomplete(t) \/ CutAtStop(t) \/ SendSafePart(t)
    /\ UNCHANGED <<stops, connected>>

(* Mutant of MaxReached: the limit is one too high.                        *)
MaxPassed ==
    /\ pc = "loop" /\ produced > MaxTokens
    /\ Stop("MaxTokens")
    /\ UNCHANGED <<stops, tokens, produced, emitted, streamed, truncated, connected>>

(* max_tokens tokens have been sampled.                                    *)
MaxReached ==
    /\ pc = "loop" /\ produced = MaxTokens
    /\ Stop("MaxTokens")
    /\ UNCHANGED <<stops, tokens, produced, emitted, streamed, truncated, connected>>

(* The sampler, the decoder or the tokenizer fails (the last also when the *)
(* final text is decoded): run_generation returns the error and sends      *)
(* nothing more.                                                           *)
Break ==
    /\ pc = "loop" \/ (pc = "flush" /\ ~truncated)
    /\ pc' = "failed"
    /\ UNCHANGED <<stops, tokens, produced, position, emitted, streamed, truncated, reason,
                   connected>>

(* After the loop: the text is what precedes the stop string, or all of    *)
(* it, and what has not been handed out of it is sent now.                 *)
Text ==
    LET full == Decode(tokens) IN
    IF truncated THEN SubSeq(full, 1, EarliestStop(full)) ELSE full

Flush ==
    /\ pc = "flush"
    /\ Emit(Text, Len(Text))
    /\ pc' = "done"
    /\ UNCHANGED <<stops, tokens, produced, position, truncated, reason, connected>>

(* External: the client closes the connection.                             *)
Disconnect ==
    /\ connected /\ pc # "done" /\ pc # "failed"
    /\ connected' = FALSE
    /\ UNCHANGED <<stops, pc, tokens, produced, position, emitted, streamed, truncated, reason>>

Step ==
    \/ Prefill \/ SampleStop \/ MaxReached \/ Flush
    \/ \E t \in Tokens : SampleToken(t)

Finished == pc \in {"done", "failed"} /\ UNCHANGED vars

Next == Step \/ Break \/ Disconnect \/ Finished

Spec == Init /\ [][Next]_vars /\ WF_vars(Step)

-----------------------------------------------------------------------------
FinishReason ==
    IF reason = "StopToken" \/ truncated THEN "stop"
    ELSE IF reason = "MaxTokens" THEN "length" ELSE "cancelled"

(* A streamed answer is the answer: a client that stayed has received,     *)
(* piece by piece, exactly the text of the outcome, and one that left has  *)
(* received a beginning of it.  What was sent is never taken back: it      *)
(* stays a beginning of the text while later tokens complete characters.   *)
StreamedIsText ==
    /\ pc = "loop" => IsPrefix(streamed, Decode(tokens))
    /\ pc = "done" /\ connected => streamed = Text
    /\ pc = "done" => IsPrefix(streamed, Text)

(* The holdback is long enough (api/src/lib.rs:330-331): text that was     *)
(* sent while decoding contains no stop string, and no stop string that is *)
(* completed later begins in it.                                           *)
HoldbackSuffices ==
    /\ pc = "loop" => StopPositions(streamed) = {}
    /\ truncated => emitted <= EarliestStop(Decode(tokens))

(* finish_reason tells the truth: "length" when the limit was reached,     *)
(* "cancelled" only for a client that is gone.                             *)
ReasonIsTrue ==
    pc = "done" =>
        /\ FinishReason = "length" => produced = MaxTokens
        /\ FinishReason = "cancelled" => ~connected

(* Every generation ends, whatever the sampler chooses.                    *)
Ends == <>(pc \in {"done", "failed"})

(* README.md:401-403: "When a stop string appears in the generated text,   *)
(* only the text up to just before it is returned".                        *)
StopNeverReturned == pc = "done" => StopPositions(Text) = {}
=============================================================================
