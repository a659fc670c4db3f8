---------------------------- MODULE SearchEngine ----------------------------
(***************************************************************************)
(* The fan-out engine of rust_scholar_transformer (src/engine.rs): several *)
(* callers search at the same time; each search asks every selected source *)
(* in a task of its own, which waits for the rate limiter that all         *)
(* searches share (src/ratelimit.rs), calls the source under a timeout and *)
(* ends in documents or in a warning; the report is cached (src/cache.rs). *)
(* A source may retry a request that was refused (src/sources/arxiv.rs).   *)
(*                                                                         *)
(* Time is a counter.  With Prompt, time does not pass while a task could  *)
(* go on, as on an executor that is not overloaded; without it a timer may *)
(* fire arbitrarily late.  What the documents are is left to RankFusion.   *)
(***************************************************************************)
EXTENDS Naturals, FiniteSets

CONSTANTS
    Searches,       \* calls of Engine::search
    Sources,        \* the registered sources
    Keys,           \* cache keys
    KeyOf,          \* KeyOf[q]: cache_key of the query of q
    Selected,       \* Selected[k]: the sources a query with key k selects
    Interval,       \* Interval[s]: min_interval_ms of s; 0: no limiter
    MaxConcurrency, \* max_concurrency of the engine
    Timeout,        \* per-source timeout
    Retrying,       \* the sources that retry on HTTP 429
    MaxRetries,     \* how often
    RetryAfter,     \* what a Retry-After header may say
    BaseDelay,      \* retry_base_delay
    TTL,            \* lifetime of a cache entry
    Prompt,         \* whether the executor keeps up with its timers
    LastStart,      \* bound: no search begins later than this
    MaxTime,        \* bound on the clock
    None

(* How the call of a source may end.                                       *)
Results == {"docs", "empty", "error", "timeout"}

ASSUME EngineAssumption ==
    /\ KeyOf \in [Searches -> Keys]
    /\ Selected \in [Keys -> SUBSET Sources]
    /\ Interval \in [Sources -> Nat]
    /\ MaxConcurrency \in Nat \ {0} /\ Timeout \in Nat \ {0}
    /\ Retrying \subseteq Sources /\ MaxRetries \in Nat
    /\ RetryAfter \subseteq Nat /\ BaseDelay \in Nat
    /\ TTL \in Nat /\ Prompt \in BOOLEAN /\ LastStart \in Nat /\ MaxTime \in Nat
    /\ None \notin Searches /\ None \notin Nat /\ None \notin Results

ASSUME SizeAssumption == IsFiniteSet(Searches) /\ IsFiniteSet(Sources)

Tasks == Searches \X Sources

VARIABLES
    now,        \* the clock
    state,      \* state[q]: "idle", "running", "done" or "cancelled"
    begun,      \* begun[q]: when q was called
    stage,      \* stage[<<q, s>>]: where the task of q for s is
    wake,       \* wake[t]: when the sleep or the backoff of t ends
    called,     \* called[t]: when t called its source
    tries,      \* tries[t]: requests of t that were refused
    result,     \* result[t]: how the call of t ended
    holder,     \* holder[s]: the search that has the limiter of s locked
    last,       \* last[s]: when the limiter of s let the last call pass
    cache,      \* cache[k]: the cached report and when it expires
    report,     \* report[q]: what q returned
    sent        \* history: sent[s]: calls the limiter of s has let pass, and their retries

vars == <<now, state, begun, stage, wake, called, tries, result, holder, last, cache, report, sent>>

Stages == {"waiting", "queue", "sleep", "call", "backoff", "ended"}

Init ==
    /\ now = 0
    /\ state = [q \in Searches |-> "idle"]
    /\ begun = [q \in Searches |-> 0]
    /\ stage = [t \in Tasks |-> "waiting"]
    /\ wake = [t \in Tasks |-> 0]
    /\ called = [t \in Tasks |-> 0]
    /\ tries = [t \in Tasks |-> 0]
    /\ result = [t \in Tasks |-> None]
    /\ holder = [s \in Sources |-> None]
    /\ last = [s \in Sources |-> None]
    /\ cache = [k \in Keys |-> None]
    /\ report = [q \in Searches |-> None]
    /\ sent = [s \in Sources |-> 0]

-----------------------------------------------------------------------------
(* cache.get: an entry that has not expired.                               *)
Cached(k) == cache[k] # None /\ cache[k].expires >= now

(* Engine::search: a hit returns the cached report and asks nobody.        *)
Begin(q) ==
    /\ state[q] = "idle" /\ now <= LastStart
    /\ \/ /\ Cached(KeyOf[q])
          /\ state' = [state EXCEPT ![q] = "done"]
          /\ begun' = begun
          /\ report' = [report EXCEPT ![q] = cache[KeyOf[q]].report]
       \/ /\ ~Cached(KeyOf[q])
          /\ state' = [state EXCEPT ![q] = "running"]
          /\ begun' = [begun EXCEPT ![q] = now]
          /\ report' = report
    /\ UNCHANGED <<now, stage, wake, called, tries, result, holder, last, cache, sent>>

Running(q, s) == state[q] = "running" /\ s \in Selected[KeyOf[q]]

(* The task calls source.search, under the timeout.                        *)
CallSource(q, s) ==
    /\ stage' = [stage EXCEPT ![<<q, s>>] = "call"]
    /\ called' = [called EXCEPT ![<<q, s>>] = now]

(* buffer_unordered: at most MaxConcurrency tasks of a search are under    *)
(* way.  A source without an interval has no limiter.                      *)
UnderWay(q) ==
    {s \in Selected[KeyOf[q]] : stage[<<q, s>>] \notin {"waiting", "ended"}}

MayEnter(q, s) ==
    Running(q, s) /\ stage[<<q, s>>] = "waiting" /\ Cardinality(UnderWay(q)) < MaxConcurrency

Enter(q, s) ==
    /\ MayEnter(q, s)
    /\ \/ /\ Interval[s] = 0
          /\ CallSource(q, s)
       \/ /\ Interval[s] > 0
          /\ stage' = [stage EXCEPT ![<<q, s>>] = "queue"]
          /\ called' = called
    /\ UNCHANGED <<now, state, begun, wake, tries, result, holder, last, cache, report, sent>>

(* MinIntervalLimiter::acquire: the mutex is taken (which of the waiting   *)
(* tasks gets it is left open) and kept while the task sleeps until the    *)
(* interval has passed.                                                    *)
TooEarly(s) == last[s] # None /\ now - last[s] < Interval[s]

(* Mutant of Lock: the mutex is not kept during the sleep.                 *)
LockBriefly(q, s) ==
    /\ Running(q, s) /\ stage[<<q, s>>] = "queue" /\ holder[s] = None
    /\ \/ /\ TooEarly(s)
          /\ wake' = [wake EXCEPT ![<<q, s>>] = last[s] + Interval[s]]
          /\ stage' = [stage EXCEPT ![<<q, s>>] = "sleep"]
          /\ UNCHANGED <<called, last, sent>>
       \/ /\ ~TooEarly(s)
          /\ last' = [last EXCEPT ![s] = now]
          /\ sent' = [sent EXCEPT ![s] = @ + 1]
          /\ CallSource(q, s)
          /\ wake' = wake
    /\ UNCHANGED <<now, state, begun, tries, result, holder, cache, report>>

Lock(q, s) ==
    /\ Running(q, s) /\ stage[<<q, s>>] = "queue" /\ holder[s] = None
    /\ \/ /\ TooEarly(s)
          /\ holder' = [holder EXCEPT ![s] = q]
          /\ wake' = [wake EXCEPT ![<<q, s>>] = last[s] + Interval[s]]
          /\ stage' = [stage EXCEPT ![<<q, s>>] = "sleep"]
          /\ UNCHANGED <<called, last, sent>>
       \/ /\ ~TooEarly(s)
          /\ last' = [last EXCEPT ![s] = now]
          /\ sent' = [sent EXCEPT ![s] = @ + 1]
          /\ CallSource(q, s)
          /\ UNCHANGED <<holder, wake>>
    /\ UNCHANGED <<now, state, begun, tries, result, cache, report>>

Wake(q, s) ==
    /\ Running(q, s) /\ stage[<<q, s>>] = "sleep" /\ now >= wake[<<q, s>>]
    /\ last' = [last EXCEPT ![s] = now]
    /\ sent' = [sent EXCEPT ![s] = @ + 1]
    /\ holder' = [holder EXCEPT ![s] = None]
    /\ CallSource(q, s)
    /\ UNCHANGED <<now, state, begun, wake, tries, result, cache, report>>

EndTask(q, s, r) ==
    LET t == <<q, s>> IN
    /\ stage' = [stage EXCEPT ![t] = "ended"]
    /\ result' = [result EXCEPT ![t] = r]
    /\ wake' = [wake EXCEPT ![t] = 0]
    /\ called' = [called EXCEPT ![t] = 0]
    /\ tries' = [tries EXCEPT ![t] = 0]
    /\ UNCHANGED <<now, state, begun, holder, last, cache, report, sent>>

(* The source answers: documents, none, or an error.                       *)
Respond(q, s, r) ==
    /\ Running(q, s) /\ stage[<<q, s>>] = "call"
    /\ r \in {"docs", "empty", "error"}
    /\ EndTask(q, s, r)

(* Mutant of TimeUp: the timeout is around each request only.              *)
TimeUpRequest(q, s) == stage[<<q, s>>] = "call" /\ now >= called[<<q, s>>] + Timeout

(* The timeout around source.search elapses.                               *)
TimeUp(q, s) == stage[<<q, s>>] \in {"call", "backoff"} /\ now >= called[<<q, s>>] + Timeout

TimedOut(q, s) ==
    /\ Running(q, s) /\ TimeUp(q, s)
    /\ EndTask(q, s, "timeout")

(* ArxivSource::fetch: on HTTP 429 it waits as Retry-After says, or        *)
(* exponentially longer, and sends the request again, past the limiter.    *)
Smaller(a, b) == IF a < b THEN a ELSE b
Backoff(n) == Smaller(BaseDelay * 2 ^ Smaller(n, 5), 30)

(* Mutant of Refuse: one retry too many.                                   *)
RefuseOnceMore(q, s) ==
    LET t == <<q, s>> IN
    /\ Running(q, s) /\ stage[t] = "call" /\ s \in Retrying /\ tries[t] <= MaxRetries
    /\ \E d \in RetryAfter \cup {Backoff(tries[t])} : wake' = [wake EXCEPT ![t] = now + d]
    /\ tries' = [tries EXCEPT ![t] = @ + 1]
    /\ stage' = [stage EXCEPT ![t] = "backoff"]
    /\ UNCHANGED <<now, state, begun, called, result, holder, last, cache, report, sent>>

Refuse(q, s) ==
    LET t == <<q, s>> IN
    /\ Running(q, s) /\ stage[t] = "call" /\ s \in Retrying /\ tries[t] < MaxRetries
    /\ \E d \in RetryAfter \cup {Backoff(tries[t])} : wake' = [wake EXCEPT ![t] = now + d]
    /\ tries' = [tries EXCEPT ![t] = @ + 1]
    /\ stage' = [stage EXCEPT ![t] = "backoff"]
    /\ UNCHANGED <<now, state, begun, called, result, holder, last, cache, report, sent>>

Retry(q, s) ==
    /\ Running(q, s) /\ stage[<<q, s>>] = "backoff" /\ now >= wake[<<q, s>>]
    /\ stage' = [stage EXCEPT ![<<q, s>>] = "call"]
    /\ sent' = [sent EXCEPT ![s] = @ + 1]
    /\ UNCHANGED <<now, state, begun, wake, called, tries, result, holder, last, cache, report>>

(* The future of search is gone, and its tasks with it; a limiter that one *)
(* of them holds is free.                                                  *)
Reset(q, f, v) == [t \in Tasks |-> IF t[1] = q THEN v ELSE f[t]]

Drop(q, outcome) ==
    /\ state' = [state EXCEPT ![q] = outcome]
    /\ begun' = [begun EXCEPT ![q] = 0]
    /\ stage' = Reset(q, stage, "waiting")
    /\ wake' = Reset(q, wake, 0)
    /\ called' = Reset(q, called, 0)
    /\ tries' = Reset(q, tries, 0)
    /\ result' = Reset(q, result, None)
    /\ holder' = [s \in Sources |-> IF holder[s] = q THEN None ELSE holder[s]]
    /\ UNCHANGED <<now, last, sent>>

(* Mutant of MakeReport: an empty answer is passed over in silence.        *)
ReportSilently(q) ==
    LET S == Selected[KeyOf[q]] IN
    [docs |-> {s \in S : result[<<q, s>>] = "docs"},
     warnings |-> {w \in S \X {"error", "timeout"} : result[<<q, w[1]>>] = w[2]}]

(* All tasks have ended: failures, timeouts and empty answers become       *)
(* warnings; the report is cached, complete or not, and returned.          *)
MakeReport(q) ==
    LET S == Selected[KeyOf[q]] IN
    [docs |-> {s \in S : result[<<q, s>>] = "docs"},
     warnings |-> {w \in S \X Results : w[2] # "docs" /\ result[<<q, w[1]>>] = w[2]}]

AllEnded(q) == state[q] = "running" /\ \A s \in Selected[KeyOf[q]] : stage[<<q, s>>] = "ended"

(* Mutant of Finish: only a search that found something returns.           *)
FinishSome(q) ==
    /\ AllEnded(q) /\ MakeReport(q).docs # {}
    /\ report' = [report EXCEPT ![q] = MakeReport(q)]
    /\ cache' = [cache EXCEPT ![KeyOf[q]] = [report |-> MakeReport(q), expires |-> now + TTL]]
    /\ Drop(q, "done")

Finish(q) ==
    /\ AllEnded(q)
    /\ report' = [report EXCEPT ![q] = MakeReport(q)]
    /\ cache' = [cache EXCEPT ![KeyOf[q]] = [report |-> MakeReport(q), expires |-> now + TTL]]
    /\ Drop(q, "done")

(* The caller drops the future before it is ready.                         *)
Cancel(q) ==
    /\ state[q] = "running"
    /\ Drop(q, "cancelled")
    /\ UNCHANGED <<cache, report>>

(* External: the cache drops an entry (capacity, or a write that failed).  *)
Evict(k) ==
    /\ cache[k] # None
    /\ cache' = [cache EXCEPT ![k] = None]
    /\ UNCHANGED <<now, state, begun, stage, wake, called, tries, result, holder, last, report, sent>>

(* Something the executor would run now.                                   *)
Ready ==
    \E q \in Searches :
        \/ AllEnded(q)
        \/ \E s \in Sources :
            \/ MayEnter(q, s)
            \/ /\ Running(q, s)
               /\ \/ stage[<<q, s>>] = "queue" /\ holder[s] = None
                  \/ stage[<<q, s>>] \in {"sleep", "backoff"} /\ now >= wake[<<q, s>>]
                  \/ TimeUp(q, s)

Tick ==
    /\ now < MaxTime
    /\ Prompt => ~Ready
    /\ now' = now + 1
    /\ UNCHANGED <<state, begun, stage, wake, called, tries, result, holder, last, cache, report, sent>>

(* What the engine does by itself for q.                                   *)
Proceed(q) ==
    \/ \E s \in Sources :
        Enter(q, s) \/ Lock(q, s) \/ Wake(q, s) \/ TimedOut(q, s) \/ Retry(q, s)
    \/ Finish(q)

AtEnd == now = MaxTime /\ UNCHANGED vars

Next ==
    \/ \E q \in Searches : Begin(q) \/ Proceed(q) \/ Cancel(q)
    \/ \E q \in Searches, s \in Sources, r \in Results : Respond(q, s, r)
    \/ \E q \in Searches, s \in Sources : Refuse(q, s)
    \/ \E k \in Keys : Evict(k)
    \/ Tick \/ AtEnd

(* The executor runs what is ready and time passes; a source need not      *)
(* answer.                                                                 *)
Spec == Init /\ [][Next]_vars /\ WF_vars(Tick) /\ \A q \in Searches : WF_vars(Proceed(q))

-----------------------------------------------------------------------------
(* README.md:340: the engine "enforces the interval before calling the     *)
(* source", also across searches that run at the same time, that are       *)
(* dropped while they wait, and with timers that fire late.                *)
CallsSpaced ==
    [][\A q \in Searches, s \in Sources :
        (stage[<<q, s>>] # "call" /\ stage'[<<q, s>>] = "call" /\ stage[<<q, s>>] # "backoff"
            /\ last[s] # None)
          => now - last[s] >= Interval[s]]_vars

(* r has documents or one warning of every source of S and of no other,    *)
(* and never both.                                                         *)
Accounts(r, S) ==
    /\ r.docs \cup {w[1] : w \in r.warnings} = S
    /\ \A w \in r.warnings : w[1] \notin r.docs
    /\ \A v, w \in r.warnings : v[1] = w[1] => v = w

(* error.rs:43: "partial failures are not dropped silently": the report of *)
(* a search accounts for every source its query selects, also one that     *)
(* comes from the cache.                                                   *)
EveryAccounted == \A q \in Searches : report[q] # None => Accounts(report[q], Selected[KeyOf[q]])

(* arxiv.rs:144 asks for an interval between requests.  A retry does not   *)
(* go through the limiter, so two requests can follow each other at once;  *)
(* but over all searches, cancelled ones included, a source gets no more   *)
(* than one request and its retries for every interval.                    *)
RateBounded ==
    \A s \in Sources : sent[s] * Interval[s] <= (MaxRetries + 1) * (now + Interval[s])

(* With a prompt executor and a slot for every source, a search takes no   *)
(* longer than the timeout and one interval for every other search.        *)
Longest == CHOOSE i \in {0} \cup {Interval[s] : s \in Sources} : \A s \in Sources : Interval[s] <= i

BoundedDelay ==
    (Prompt /\ MaxConcurrency >= Cardinality(Sources)) =>
        \A q \in Searches : state[q] = "running" =>
            now - begun[q] <= (Cardinality(Searches) - 1) * Longest + Timeout

(* Every search returns, whether or not its sources answer: there comes a  *)
(* time when none is running.                                              *)
Unfinished == {q \in Searches : state[q] = "running"}
Finishes == (Unfinished # {}) ~> (Unfinished = {})
=============================================================================
