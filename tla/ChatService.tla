---------------------------- MODULE ChatService ----------------------------
(***************************************************************************)
(* The HTTP surface of rust_ai_serving_engine (api/src/lib.rs): requests   *)
(* for completions, plain or streamed, that share loaded models.           *)
(*                                                                         *)
(* Every request runs on a blocking thread.  It takes the mutex of its     *)
(* session, keeps it for the whole generation (the KV cache cannot be      *)
(* shared) and, when it streams, sends its events with blocking_send into  *)
(* a bounded channel that the client's connection drains; the receiver is  *)
(* dropped when the client goes away.  What a generation sends is left     *)
(* open here (any number of deltas up to MaxDeltas, an error at any        *)
(* point); TokenStream says what it is.                                    *)
(***************************************************************************)
EXTENDS Naturals, Sequences

CONSTANTS
    Requests,       \* the requests the server receives
    Sessions,       \* the sessions SessionCache hands out
    SessionOf,      \* SessionOf[r]: the session request r is given
    Streaming,      \* the requests with stream = true
    Capacity,       \* capacity of the event channel (64 in the code)
    MaxDeltas,      \* most deltas one generation sends
    Stalling,       \* the clients that may stop reading without disconnecting
    Nobody          \* no request: a free mutex, an empty KV cache

ASSUME ServiceAssumption ==
    /\ SessionOf \in [Requests -> Sessions]
    /\ Streaming \subseteq Requests /\ Stalling \subseteq Requests
    /\ Capacity \in Nat \ {0} /\ MaxDeltas \in Nat
    /\ Nobody \notin Requests

VARIABLES
    phase,      \* phase[r]: where the thread of request r is
    lock,       \* lock[s]: the request that holds the mutex of session s
    kv,         \* kv[s]: the request whose tokens the KV cache of s holds
    channel,    \* channel[r]: events sent and not yet taken by the client
    open,       \* the requests whose client is still connected
    deltas,     \* deltas[r]: deltas sent by r
    received    \* received[r]: the events the client of r has read

vars == <<phase, lock, kv, channel, open, deltas, received>>

Events == {"role", "delta", "finish", "DONE", "error"}

(* The phases of a request that is over, and those in which the session's  *)
(* mutex is held.                                                          *)
Over == {"ended", "panicked"}
Locked == {"prepare", "role", "prefill", "decode", "finish", "DONE", "error", "release"}

TypeOK ==
    /\ phase \in [Requests -> {"resolve", "wait"} \cup Over \cup Locked]
    /\ lock \in [Sessions -> Requests \cup {Nobody}]
    /\ kv \in [Sessions -> Requests \cup {Nobody}]
    /\ channel \in [Requests -> Seq(Events)]
    /\ \A r \in Requests : Len(channel[r]) <= Capacity
    /\ open \subseteq Requests
    /\ deltas \in [Requests -> 0..MaxDeltas]
    /\ received \in [Requests -> Seq(Events)]

Init ==
    /\ phase = [r \in Requests |-> "resolve"]
    /\ lock = [s \in Sessions |-> Nobody]
    /\ kv = [s \in Sessions |-> Nobody]
    /\ channel = [r \in Requests |-> <<>>]
    /\ open = Requests
    /\ deltas = [r \in Requests |-> 0]
    /\ received = [r \in Requests |-> <<>>]

-----------------------------------------------------------------------------
Goto(r, p) == phase' = [phase EXCEPT ![r] = p]

(* state.session(model): before the response is opened, so that a failure  *)
(* is a plain HTTP error.                                                  *)
Resolve(r) ==
    /\ phase[r] = "resolve"
    /\ Goto(r, "wait") \/ Goto(r, "ended")
    /\ UNCHANGED <<lock, kv, channel, open, deltas, received>>

(* session.lock().                                                         *)
Acquire(r) ==
    /\ phase[r] = "wait"
    /\ lock[SessionOf[r]] = Nobody
    /\ lock' = [lock EXCEPT ![SessionOf[r]] = r]
    /\ Goto(r, "prepare")
    /\ UNCHANGED <<kv, channel, open, deltas, received>>

(* Mutant of Failed: the handler returns without dropping the guard.       *)
FailedLocked(r) == IF r \in Streaming THEN "error" ELSE "ended"

(* prepare_chat, or tokenizer.encode: fails without a template, for a bad  *)
(* role or for text that does not tokenize.  A request that does not       *)
(* stream answers with the error; a stream sends it as an event.           *)
Failed(r) == IF r \in Streaming THEN "error" ELSE "release"

Prepare(r) ==
    /\ phase[r] = "prepare"
    /\ \/ Goto(r, IF r \in Streaming THEN "role" ELSE "prefill")
       \/ Goto(r, Failed(r))
    /\ UNCHANGED <<lock, kv, channel, open, deltas, received>>

(* sender.blocking_send(e): waits for room; fails once the receiver is     *)
(* gone.                                                                   *)
Send(r, e) ==
    /\ r \in open
    /\ Len(channel[r]) < Capacity
    /\ channel' = [channel EXCEPT ![r] = Append(@, e)]

SendFails(r) == r \notin open /\ channel' = channel

(* The first event; if it cannot be sent, no generation.                   *)
SendRole(r) ==
    /\ phase[r] = "role"
    /\ \/ Send(r, "role") /\ Goto(r, "prefill")
       \/ SendFails(r) /\ Goto(r, "error")
    /\ UNCHANGED <<lock, kv, open, deltas, received>>

(* Mutant of Prefill: a cache that is filled is kept.                      *)
PrefillKeep(r) ==
    /\ phase[r] = "prefill"
    /\ kv' = [kv EXCEPT ![SessionOf[r]] = IF @ = Nobody THEN r ELSE @]
    /\ Goto(r, "decode") \/ Goto(r, Failed(r))
    /\ UNCHANGED <<lock, channel, open, deltas, received>>

(* generate_with begins: the decoder clears and refills its KV cache.      *)
Prefill(r) ==
    /\ phase[r] = "prefill"
    /\ kv' = [kv EXCEPT ![SessionOf[r]] = r]
    /\ Goto(r, "decode") \/ Goto(r, Failed(r))
    /\ UNCHANGED <<lock, channel, open, deltas, received>>

(* on_delta of a stream: a failed send ends the loop, which is no error;   *)
(* the rest of the text is tried once more and fails again.                *)
SendDelta(r) ==
    /\ phase[r] = "decode" /\ r \in Streaming /\ deltas[r] < MaxDeltas
    /\ \/ /\ Send(r, "delta")
          /\ deltas' = [deltas EXCEPT ![r] = @ + 1]
          /\ phase' = phase
       \/ SendFails(r) /\ Goto(r, "finish") /\ deltas' = deltas
    /\ UNCHANGED <<lock, kv, open, received>>

(* Mutant of EndGeneration: a plain request starts over.                   *)
EndRetry(r) ==
    /\ phase[r] = "decode"
    /\ \/ Goto(r, IF r \in Streaming THEN "finish" ELSE "prefill")
       \/ r \in Streaming /\ Goto(r, "error")
    /\ UNCHANGED <<lock, kv, channel, open, deltas, received>>

(* The generation ends or fails.                                           *)
EndGeneration(r) ==
    /\ phase[r] = "decode"
    /\ \/ Goto(r, IF r \in Streaming THEN "finish" ELSE "release")
       \/ Goto(r, Failed(r))
    /\ UNCHANGED <<lock, kv, channel, open, deltas, received>>

(* Mutants of the closing events: a send that fails is tried again; a full *)
(* channel swallows the event.                                             *)
SendFinishAgain(r) ==
    /\ phase[r] = "finish"
    /\ \/ Send(r, "finish") /\ Goto(r, "DONE")
       \/ SendFails(r) /\ phase' = phase
    /\ UNCHANGED <<lock, kv, open, deltas, received>>

TrySendDone(r) ==
    /\ phase[r] = "DONE"
    /\ Send(r, "DONE") \/ (Len(channel[r]) = Capacity /\ channel' = channel) \/ SendFails(r)
    /\ Goto(r, "release")
    /\ UNCHANGED <<lock, kv, open, deltas, received>>

(* The closing events; whether they arrive is not looked at.               *)
SendFinish(r) ==
    /\ phase[r] = "finish"
    /\ Send(r, "finish") \/ SendFails(r)
    /\ Goto(r, "DONE")
    /\ UNCHANGED <<lock, kv, open, deltas, received>>

SendDone(r) ==
    /\ phase[r] = "DONE"
    /\ Send(r, "DONE") \/ SendFails(r)
    /\ Goto(r, "release")
    /\ UNCHANGED <<lock, kv, open, deltas, received>>

SendError(r) ==
    /\ phase[r] = "error"
    /\ Send(r, "error") \/ SendFails(r)
    /\ Goto(r, "release")
    /\ UNCHANGED <<lock, kv, open, deltas, received>>

(* The guard is dropped when the thread's function returns.                *)
Release(r) ==
    /\ phase[r] = "release"
    /\ lock' = [lock EXCEPT ![SessionOf[r]] = Nobody]
    /\ Goto(r, "ended")
    /\ UNCHANGED <<kv, channel, open, deltas, received>>

(* A panic below the handler unwinds the thread: the guard is dropped and  *)
(* poisons the mutex, which every later lock() ignores; nothing more is    *)
(* sent.                                                                   *)
Panic(r) ==
    /\ phase[r] \in {"prepare", "prefill", "decode"}
    /\ lock' = [lock EXCEPT ![SessionOf[r]] = Nobody]
    /\ Goto(r, "panicked")
    /\ UNCHANGED <<kv, channel, open, deltas, received>>

Serve(r) ==
    \/ Resolve(r) \/ Acquire(r) \/ Prepare(r) \/ SendRole(r) \/ Prefill(r) \/ SendDelta(r)
    \/ EndGeneration(r) \/ SendFinish(r) \/ SendDone(r) \/ SendError(r) \/ Release(r)

(* The connection takes the next event and writes it to the client.        *)
Receive(r) ==
    /\ r \in open /\ channel[r] # <<>>
    /\ received' = [received EXCEPT ![r] = Append(@, Head(channel[r]))]
    /\ channel' = [channel EXCEPT ![r] = Tail(@)]
    /\ UNCHANGED <<phase, lock, kv, open, deltas>>

(* The client goes away: the receiver and what is in the channel with it.  *)
Disconnect(r) ==
    /\ r \in open /\ r \in Streaming /\ phase[r] # "resolve"
    /\ open' = open \ {r}
    /\ channel' = [channel EXCEPT ![r] = <<>>]
    /\ UNCHANGED <<phase, lock, kv, deltas, received>>

Idle ==
    /\ \A r \in Requests : phase[r] \in Over /\ channel[r] = <<>>
    /\ UNCHANGED vars

Next ==
    \/ \E r \in Requests : Serve(r) \/ Panic(r) \/ Receive(r) \/ Disconnect(r)
    \/ Idle

(* Threads run, and connections are drained, except those of clients that  *)
(* may stop reading.                                                       *)
Fairness ==
    /\ \A r \in Requests : WF_vars(Serve(r))
    /\ \A r \in Requests \ Stalling : WF_vars(Receive(r))

Spec == Init /\ [][Next]_vars /\ Fairness

-----------------------------------------------------------------------------
(* README.md:205: requests for the same model are serialized and "the KV   *)
(* cache cannot be shared": while a request decodes, the cache of its      *)
(* session holds its own tokens, whatever other requests do.               *)
KvIsolation == \A r \in Requests : phase[r] = "decode" => kv[SessionOf[r]] = r

(* A mutex is held by the one request that is past lock(), and by nobody   *)
(* when no request is, whether requests end, fail, panic or lose clients.  *)
LockDiscipline ==
    \A s \in Sessions, r \in Requests :
        lock[s] = r <=> (SessionOf[r] = s /\ phase[r] \in Locked)

(* README.md:486-487: "The first chunk carries the role, later chunks      *)
(* carry delta.content, the last chunk carries finish_reason, and the      *)
(* terminator is data: [DONE]" (an error event may come instead): what the *)
(* client has read, followed by what is in the channel, has this shape.    *)
Stream(r) == received[r] \o channel[r]

WellFormed(q) ==
    \A i \in 1..Len(q) :
        /\ q[i] = "role" <=> i = 1 /\ q # <<"error">>
        /\ q[i] = "delta" => i > 1 /\ q[i - 1] \in {"role", "delta"}
        /\ q[i] = "finish" => i > 1 /\ q[i - 1] \in {"role", "delta"}
        /\ q[i] = "DONE" => i = Len(q) /\ i > 1 /\ q[i - 1] = "finish"
        /\ q[i] = "error" => i = Len(q) /\ (i > 1 => q[i - 1] \in {"role", "delta"})

(* A client that stays is told how its stream ended, unless it panicked.   *)
StreamWellFormed ==
    \A r \in Requests : r \in open =>
        /\ WellFormed(Stream(r))
        /\ (r \in Streaming /\ phase[r] = "ended" /\ Stream(r) # <<>>) =>
            Stream(r)[Len(Stream(r))] \in {"DONE", "error"}

(* A client that goes away frees the model, though nobody reads its events *)
(* any more (api/src/lib.rs:219-220).                                      *)
DisconnectFrees ==
    \A r \in Streaming : (r \notin open /\ lock[SessionOf[r]] = r) ~> (lock[SessionOf[r]] # r)

(* Every request is answered unless a client of the same model stops       *)
(* reading without going away: it holds the mutex in blocking_send.        *)
Answered ==
    \A r \in Requests :
        (\A q \in Stalling : SessionOf[q] # SessionOf[r]) => <>(phase[r] \in Over)
=============================================================================
