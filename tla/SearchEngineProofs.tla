------------------------- MODULE SearchEngineProofs -------------------------
(***************************************************************************)
(* Proofs about SearchEngine for every number of searches and sources,     *)
(* every interval and whatever the timing of the executor: the limiter     *)
(* keeps the calls of a source apart, and a report accounts for every      *)
(* source.  With an executor that keeps up, a search ends in time.         *)
(***************************************************************************)
EXTENDS SearchEngine, DataInduction, TLAPS

(* The part of the state the limiter uses.                                 *)
LimiterType ==
    /\ now \in Nat
    /\ stage \in [Tasks -> Stages]
    /\ DOMAIN wake = Tasks
    /\ holder \in [Sources -> Searches \cup {None}]
    /\ last \in [Sources -> Nat \cup {None}]

(* The limiter's invariant: the last pass is not in the future, and a task *)
(* that sleeps holds the mutex of its source and sleeps until one interval *)
(* after the last pass, which therefore nobody has changed since.          *)
LimiterInv ==
    /\ LimiterType
    /\ \A s \in Sources : last[s] # None => last[s] <= now
    /\ \A q \in Searches, s \in Sources : stage[<<q, s>>] = "sleep" =>
        /\ holder[s] = q
        /\ last[s] # None
        /\ wake[<<q, s>>] = last[s] + Interval[s]

(* Init establishes the limiter's invariant: nobody has passed yet.        *)
LEMMA LimiterInit == Init => LimiterInv
BY EngineAssumption DEF Init, LimiterInv, LimiterType, Tasks, Stages

(* Every step keeps it; Lock and Wake change the last pass only when no    *)
(* other task sleeps on that source, Drop frees the mutex of its own tasks *)
(* only.                                                                   *)
LEMMA LimiterStep == LimiterInv /\ [Next]_vars => LimiterInv'
<1> SUFFICES ASSUME LimiterInv, [Next]_vars PROVE LimiterInv'
    OBVIOUS
<1> USE EngineAssumption DEF LimiterInv, LimiterType, Tasks, Stages
<1>1. ASSUME NEW q \in Searches, Begin(q) PROVE LimiterInv'
    BY <1>1 DEF Begin
<1>2. ASSUME NEW q \in Searches, NEW s \in Sources, Enter(q, s) PROVE LimiterInv'
    BY <1>2, SMTT(30) DEF Enter, CallSource
<1>3. ASSUME NEW q \in Searches, NEW s \in Sources, Lock(q, s) PROVE LimiterInv'
    <2>1. /\ holder[s] = None
          /\ now' = now
          /\ \A p \in Searches : stage[<<p, s>>] # "sleep"
        BY <1>3 DEF Lock
    <2> USE <2>1
    <2>2. CASE TooEarly(s)
        <3>1. /\ holder' = [holder EXCEPT ![s] = q]
              /\ wake' = [wake EXCEPT ![<<q, s>>] = last[s] + Interval[s]]
              /\ stage' = [stage EXCEPT ![<<q, s>>] = "sleep"]
              /\ last' = last
            BY <1>3, <2>2 DEF Lock
        <3>2. last[s] # None
            BY <2>2 DEF TooEarly
        <3> QED BY <3>1, <3>2
    <2>3. CASE ~TooEarly(s)
        <3>1. /\ last' = [last EXCEPT ![s] = now]
              /\ stage' = [stage EXCEPT ![<<q, s>>] = "call"]
              /\ holder' = holder /\ wake' = wake
            BY <1>3, <2>3 DEF Lock, CallSource
        <3> QED BY <3>1
    <2> QED BY <2>2, <2>3
<1>4. ASSUME NEW q \in Searches, NEW s \in Sources, Wake(q, s) PROVE LimiterInv'
    <2>1. holder[s] = q /\ \A p \in Searches \ {q} : stage[<<p, s>>] # "sleep"
        BY <1>4 DEF Wake
    <2> QED BY <1>4, <2>1 DEF Wake, CallSource
<1>5. ASSUME NEW q \in Searches, NEW s \in Sources, NEW r, EndTask(q, s, r),
             stage[<<q, s>>] # "sleep"
      PROVE LimiterInv'
    BY <1>5 DEF EndTask
<1>6. ASSUME NEW q \in Searches, NEW s \in Sources, NEW r \in Results, Respond(q, s, r)
      PROVE LimiterInv'
    BY <1>5, <1>6 DEF Respond
<1>7. ASSUME NEW q \in Searches, NEW s \in Sources, TimedOut(q, s) PROVE LimiterInv'
    BY <1>5, <1>7 DEF TimedOut, TimeUp
<1>8. ASSUME NEW q \in Searches, NEW s \in Sources, Refuse(q, s) PROVE LimiterInv'
    <2>1. PICK d : wake' = [wake EXCEPT ![<<q, s>>] = now + d]
        BY <1>8 DEF Refuse
    <2> QED BY <1>8, <2>1 DEF Refuse
<1>9. ASSUME NEW q \in Searches, NEW s \in Sources, Retry(q, s) PROVE LimiterInv'
    BY <1>9 DEF Retry
<1>10. ASSUME NEW q \in Searches, NEW o, Drop(q, o) PROVE LimiterInv'
    BY <1>10 DEF Drop, Reset
<1>11. ASSUME NEW q \in Searches, Finish(q) PROVE LimiterInv'
    BY <1>10, <1>11 DEF Finish
<1>12. ASSUME NEW q \in Searches, Cancel(q) PROVE LimiterInv'
    BY <1>10, <1>12 DEF Cancel
<1>13. ASSUME NEW k \in Keys, Evict(k) PROVE LimiterInv'
    BY <1>13 DEF Evict
<1>14. CASE Tick
    BY <1>14 DEF Tick
<1>15. CASE UNCHANGED vars
    BY <1>15 DEF vars
<1> QED
    BY <1>1, <1>2, <1>3, <1>4, <1>6, <1>7, <1>8, <1>9, <1>11, <1>12, <1>13, <1>14, <1>15
    DEF Next, Proceed, AtEnd

(* The calls of a source are at least its interval apart (ratelimit.rs     *)
(* acquire), for any number of searches at the same time, dropped searches *)
(* and timers that fire late included.                                     *)
THEOREM CallsAreSpaced == Spec => CallsSpaced
<1> DEFINE Spaced == \A q \in Searches, s \in Sources :
        (stage[<<q, s>>] # "call" /\ stage'[<<q, s>>] = "call" /\ stage[<<q, s>>] # "backoff"
            /\ last[s] # None)
          => now - last[s] >= Interval[s]
<1>1. LimiterInv /\ [Next]_vars => [Spaced]_vars
    <2> SUFFICES ASSUME LimiterInv, Next,
                        NEW q \in Searches, NEW s \in Sources,
                        stage[<<q, s>>] # "call", stage'[<<q, s>>] = "call",
                        stage[<<q, s>>] # "backoff", last[s] # None
                 PROVE  now - last[s] >= Interval[s]
        BY DEF Spaced
    <2> USE EngineAssumption DEF LimiterInv, LimiterType, Tasks, Stages
    <2>1. Interval[s] \in Nat /\ last[s] \in Nat /\ last[s] <= now
        OBVIOUS
    <2>2. ASSUME NEW p \in Searches, NEW t \in Sources, Enter(p, t)
          PROVE now - last[s] >= Interval[s]
        <3>1. CASE Interval[t] = 0
            <4>1. stage' = [stage EXCEPT ![<<p, t>>] = "call"]
                BY <2>2, <3>1 DEF Enter, CallSource
            <4>2. t = s
                BY <4>1
            <4> QED BY <2>1, <3>1, <4>2
        <3>2. CASE Interval[t] # 0
            BY <2>2, <3>2 DEF Enter
        <3> QED BY <3>1, <3>2
    <2>3. ASSUME NEW p \in Searches, NEW t \in Sources, Lock(p, t)
          PROVE now - last[s] >= Interval[s]
        <3>1. CASE TooEarly(t)
            BY <2>3, <3>1 DEF Lock
        <3>2. CASE ~TooEarly(t)
            <4>1. stage' = [stage EXCEPT ![<<p, t>>] = "call"]
                BY <2>3, <3>2 DEF Lock, CallSource
            <4>2. t = s
                BY <4>1
            <4> QED BY <2>1, <3>2, <4>2 DEF TooEarly
        <3> QED BY <3>1, <3>2
    <2>4. ASSUME NEW p \in Searches, NEW t \in Sources, Wake(p, t)
          PROVE now - last[s] >= Interval[s]
        <3>1. stage' = [stage EXCEPT ![<<p, t>>] = "call"]
            BY <2>4 DEF Wake, CallSource
        <3>2. t = s /\ p = q
            BY <3>1
        <3>3. now >= wake[<<q, s>>] /\ wake[<<q, s>>] = last[s] + Interval[s]
            BY <2>4, <3>2 DEF Wake
        <3> QED BY <2>1, <3>3
    <2>5. ASSUME NEW p \in Searches, NEW o, Drop(p, o) PROVE FALSE
        BY <2>5 DEF Drop, Reset
    <2>6. ASSUME NEW p \in Searches, NEW t \in Sources, NEW r, EndTask(p, t, r) PROVE FALSE
        BY <2>6 DEF EndTask
    <2>7. ASSUME NEW p \in Searches, NEW t \in Sources, Retry(p, t) PROVE FALSE
        BY <2>7 DEF Retry
    <2>8. ASSUME NEW p \in Searches, NEW t \in Sources, Refuse(p, t) PROVE FALSE
        BY <2>8 DEF Refuse
    <2>9. ASSUME stage' = stage PROVE FALSE
        BY <2>9
    <2> HIDE DEF LimiterInv, LimiterType, Tasks, Stages
    <2> QED
        BY <2>2, <2>3, <2>4, <2>5, <2>6, <2>7, <2>8, <2>9
        DEF Next, Proceed, Begin, Respond, TimedOut, Finish, Cancel, Evict, Tick, AtEnd, vars
<1>2. LimiterInv /\ [Next]_vars => LimiterInv'
    BY LimiterStep
<1> QED
    BY <1>1, <1>2, LimiterInit, PTL DEF Spec, CallsSpaced

-----------------------------------------------------------------------------
(* The invariant behind the reports: a task that has ended has a result,   *)
(* and what is cached under a key accounts for the sources of that key.    *)
AccountInv ==
    /\ DOMAIN stage = Tasks /\ DOMAIN result = Tasks
    /\ DOMAIN report = Searches /\ DOMAIN cache = Keys
    /\ \A t \in Tasks : stage[t] = "ended" => result[t] \in Results
    /\ EveryAccounted
    /\ \A k \in Keys : cache[k] # None => Accounts(cache[k].report, Selected[k])

(* Before the first search nothing is reported or cached.                  *)
LEMMA AccountInit == Init => AccountInv
BY EngineAssumption DEF Init, AccountInv, EveryAccounted, Tasks

(* The report of a search whose tasks have all ended accounts for all its  *)
(* sources.                                                                *)
LEMMA ReportAccounts ==
    ASSUME AccountInv, NEW q \in Searches, AllEnded(q)
    PROVE  Accounts(MakeReport(q), Selected[KeyOf[q]])
<1> DEFINE S == Selected[KeyOf[q]]
           D == {s \in S : result[<<q, s>>] = "docs"}
           W == {w \in S \X Results : w[2] # "docs" /\ result[<<q, w[1]>>] = w[2]}
<1>1. S \subseteq Sources
    BY EngineAssumption
<1>2. \A s \in S : result[<<q, s>>] \in Results
    BY <1>1 DEF AccountInv, AllEnded, Tasks
<1>3. D \cup {w[1] : w \in W} = S
    <2>1. ASSUME NEW s \in S, s \notin D PROVE \E w \in W : w[1] = s
        <3> DEFINE w == <<s, result[<<q, s>>]>>
        <3>1. result[<<q, s>>] \in Results /\ result[<<q, s>>] # "docs"
            BY <1>2, <2>1
        <3>2. w[1] = s /\ w[2] = result[<<q, s>>]
            OBVIOUS
        <3>3. w \in S \X Results
            BY <3>1
        <3> HIDE DEF w
        <3>4. w \in W
            BY <3>1, <3>2, <3>3
        <3> QED BY <3>2, <3>4
    <2>2. \A w \in W : w[1] \in S
        OBVIOUS
    <2>3. D \subseteq S
        OBVIOUS
    <2> HIDE DEF S, D, W
    <2> QED BY <2>1, <2>2, <2>3
<1>4. \A w \in W : w[1] \notin D
    OBVIOUS
<1>5. \A v, w \in W : v[1] = w[1] => v = w
    OBVIOUS
<1>6. MakeReport(q).docs = D /\ MakeReport(q).warnings = W
    BY DEF MakeReport
<1> HIDE DEF S, D, W
<1>7. Accounts(MakeReport(q), S)
    BY <1>3, <1>4, <1>5, <1>6 DEF Accounts
<1> QED BY <1>7 DEF S

(* Every step keeps the invariant: Finish by ReportAccounts, Begin because *)
(* it returns what is cached under its own key.                            *)
LEMMA AccountStep == AccountInv /\ [Next]_vars => AccountInv'
<1> SUFFICES ASSUME AccountInv, [Next]_vars PROVE AccountInv'
    OBVIOUS
<1> USE EngineAssumption DEF AccountInv, EveryAccounted, Tasks
<1>1. ASSUME NEW q \in Searches, Begin(q) PROVE AccountInv'
    <2>1. CASE Cached(KeyOf[q])
        <3>1. Accounts(cache[KeyOf[q]].report, Selected[KeyOf[q]])
            BY <2>1 DEF Cached
        <3> QED BY <1>1, <2>1, <3>1 DEF Begin
    <2>2. CASE ~Cached(KeyOf[q])
        BY <1>1, <2>2 DEF Begin
    <2> QED BY <2>1, <2>2
<1>2. ASSUME NEW q \in Searches, NEW s \in Sources, Enter(q, s) PROVE AccountInv'
    BY <1>2 DEF Enter, CallSource
<1>3. ASSUME NEW q \in Searches, NEW s \in Sources, Lock(q, s) PROVE AccountInv'
    BY <1>3 DEF Lock, CallSource
<1>4. ASSUME NEW q \in Searches, NEW s \in Sources, Wake(q, s) PROVE AccountInv'
    BY <1>4 DEF Wake, CallSource
<1>5. ASSUME NEW q \in Searches, NEW s \in Sources, NEW r \in Results, EndTask(q, s, r)
      PROVE AccountInv'
    BY <1>5 DEF EndTask
<1>6. ASSUME NEW q \in Searches, NEW s \in Sources, NEW r \in Results, Respond(q, s, r)
      PROVE AccountInv'
    BY <1>5, <1>6 DEF Respond
<1>7. ASSUME NEW q \in Searches, NEW s \in Sources, TimedOut(q, s) PROVE AccountInv'
    BY <1>5, <1>7 DEF TimedOut, Results
<1>8. ASSUME NEW q \in Searches, NEW s \in Sources, Refuse(q, s) PROVE AccountInv'
    BY <1>8 DEF Refuse
<1>9. ASSUME NEW q \in Searches, NEW s \in Sources, Retry(q, s) PROVE AccountInv'
    BY <1>9 DEF Retry
<1>10. ASSUME NEW q \in Searches, NEW o, Drop(q, o)
       PROVE /\ DOMAIN stage' = Tasks /\ DOMAIN result' = Tasks
             /\ \A t \in Tasks : stage'[t] = "ended" => result'[t] \in Results
    BY <1>10 DEF Drop, Reset
<1>11. ASSUME NEW q \in Searches, Finish(q) PROVE AccountInv'
    <2>1. Accounts(MakeReport(q), Selected[KeyOf[q]])
        BY <1>11, ReportAccounts DEF Finish
    <2> DEFINE entry == [report |-> MakeReport(q), expires |-> now + TTL]
    <2>2. /\ report' = [report EXCEPT ![q] = MakeReport(q)]
          /\ cache' = [cache EXCEPT ![KeyOf[q]] = entry]
        BY <1>11 DEF Finish
    <2>3. entry.report = MakeReport(q)
        OBVIOUS
    <2> HIDE DEF entry
    <2>4. /\ DOMAIN report' = Searches /\ DOMAIN cache' = Keys
          /\ \A p \in Searches : report'[p] # None => Accounts(report'[p], Selected[KeyOf[p]])
          /\ \A k \in Keys : cache'[k] # None => Accounts(cache'[k].report, Selected[k])
        BY <2>1, <2>2, <2>3
    <2> QED BY <1>10, <1>11, <2>4 DEF Finish
<1>12. ASSUME NEW q \in Searches, Cancel(q) PROVE AccountInv'
    BY <1>10, <1>12 DEF Cancel
<1>13. ASSUME NEW k \in Keys, Evict(k) PROVE AccountInv'
    BY <1>13 DEF Evict
<1>14. CASE Tick
    BY <1>14 DEF Tick
<1>15. CASE UNCHANGED vars
    BY <1>15 DEF vars
<1> QED
    BY <1>1, <1>2, <1>3, <1>4, <1>6, <1>7, <1>8, <1>9, <1>11, <1>12, <1>13, <1>14, <1>15
    DEF Next, Proceed, AtEnd

(* Every report, from the sources or from the cache, accounts for every    *)
(* source the query selects (engine.rs search, error.rs SearchReport).     *)
THEOREM ReportsAreComplete == Spec => []EveryAccounted
<1>1. AccountInv => EveryAccounted
    BY DEF AccountInv
<1> QED BY <1>1, AccountInit, AccountStep, PTL DEF Spec

-----------------------------------------------------------------------------
-----------------------------------------------------------------------------
(* The delay of a search.  Passed: the task of p for s will not go through *)
(* the limiter of s any more.  Each of the searches ahead of q in this     *)
(* sense has cost q at most one interval, so q is due when as many have    *)
(* passed since it began.                                                  *)
Passed(p, s) ==
    state[p] \in {"done", "cancelled"} \/ stage[<<p, s>>] \in {"call", "backoff", "ended"}
Ahead(q, s) == {p \in Searches \ {q} : Passed(p, s)}
Due(q, s) == begun[q] + Cardinality(Ahead(q, s)) * Interval[s]

(* What BoundedDelay asks of the executor.                                 *)
Keeps == Prompt /\ MaxConcurrency >= Cardinality(Sources)

DelayType ==
    /\ state \in [Searches -> {"idle", "running", "done", "cancelled"}]
    /\ begun \in [Searches -> Nat]
    /\ called \in [Tasks -> Nat]

(* Only tasks of running searches are beyond "waiting", whoever has the    *)
(* limiter locked sleeps, and when a limiter was used somebody has passed. *)
Linked ==
    /\ \A q \in Searches, s \in Sources : stage[<<q, s>>] # "waiting" => Running(q, s)
    /\ \A s \in Sources : holder[s] # None => stage[<<holder[s], s>>] = "sleep"
    /\ \A s \in Sources : last[s] # None => \E p \in Searches : Passed(p, s)

(* With an executor that keeps up a task of q is never late: it does not   *)
(* wait for a slot, the limiter lets it through by the time it is due, and *)
(* its call ends with the timeout.                                         *)
InTime(q, s) ==
    /\ stage[<<q, s>>] = "waiting" => now = begun[q]
    /\ stage[<<q, s>>] \in {"queue", "sleep"} /\ last[s] # None =>
        last[s] + Interval[s] <= Due(q, s)
    /\ stage[<<q, s>>] = "queue" /\ holder[s] = None => now <= Due(q, s)
    /\ stage[<<q, s>>] = "sleep" => now <= wake[<<q, s>>]
    /\ stage[<<q, s>>] \in {"call", "backoff"} =>
        called[<<q, s>>] <= Due(q, s) /\ now <= called[<<q, s>>] + Timeout

AllInTime == Keeps => \A q \in Searches, s \in Sources : Running(q, s) => InTime(q, s)

(* The invariant behind BoundedDelay.                                      *)
DelayInv == LimiterInv /\ DelayType /\ Linked /\ AllInTime /\ BoundedDelay

(* Nobody searches at the beginning.                                       *)
LEMMA DelayInit == Init => DelayInv
<1> SUFFICES ASSUME Init PROVE DelayInv
    OBVIOUS
<1>1. LimiterInv
    BY LimiterInit
<1>2. \A q \in Searches : state[q] = "idle"
    BY DEF Init
<1>3. DelayType
    BY DEF Init, DelayType, Tasks
<1>4. Linked
    BY EngineAssumption DEF Init, Linked, Tasks
<1>5. AllInTime /\ BoundedDelay
    BY <1>2 DEF AllInTime, BoundedDelay, Running
<1> QED BY <1>1, <1>3, <1>4, <1>5 DEF DelayInv

(* Types are kept.                                                         *)
LEMMA DelayTypeStep ==
    LimiterType /\ DelayType /\ [Next]_vars => DelayType'
<1> SUFFICES ASSUME LimiterType, DelayType, [Next]_vars PROVE DelayType'
    OBVIOUS
<1> USE DEF LimiterType, DelayType, Tasks
<1>1. ASSUME NEW q \in Searches, Begin(q) PROVE DelayType'
    <2>1. /\ \E c \in {"done", "running"} : state' = [state EXCEPT ![q] = c]
          /\ begun' = begun \/ begun' = [begun EXCEPT ![q] = now]
          /\ called' = called
        BY <1>1, Zenon DEF Begin
    <2> QED BY <2>1
<1>2. ASSUME NEW q \in Searches, NEW s \in Sources, Enter(q, s) PROVE DelayType'
    <2>1. /\ state' = state /\ begun' = begun
          /\ called' = called \/ called' = [called EXCEPT ![<<q, s>>] = now]
        BY <1>2, Zenon DEF Enter, CallSource
    <2> QED BY <2>1
<1>3. ASSUME NEW q \in Searches, NEW s \in Sources, Lock(q, s) PROVE DelayType'
    <2>1. /\ state' = state /\ begun' = begun
          /\ called' = called \/ called' = [called EXCEPT ![<<q, s>>] = now]
        BY <1>3, Zenon DEF Lock, CallSource
    <2> QED BY <2>1
<1>4. ASSUME NEW q \in Searches, NEW s \in Sources, Wake(q, s) PROVE DelayType'
    <2>1. state' = state /\ begun' = begun /\ called' = [called EXCEPT ![<<q, s>>] = now]
        BY <1>4, Zenon DEF Wake, CallSource
    <2> QED BY <2>1
<1>5. ASSUME NEW q \in Searches, NEW s \in Sources, NEW r, EndTask(q, s, r) PROVE DelayType'
    BY <1>5 DEF EndTask
<1>6. ASSUME NEW q \in Searches, NEW s \in Sources, Refuse(q, s) \/ Retry(q, s) PROVE DelayType'
    BY <1>6 DEF Refuse, Retry
<1>7. ASSUME NEW q \in Searches, NEW o \in {"done", "cancelled"}, Drop(q, o) PROVE DelayType'
    BY <1>7 DEF Drop, Reset
<1>8. CASE UNCHANGED <<state, begun, called>>
    BY <1>8
<1> HIDE DEF LimiterType, DelayType, Tasks
<1> QED
    BY <1>1, <1>2, <1>3, <1>4, <1>5, <1>6, <1>7, <1>8
    DEF Next, Proceed, Respond, TimedOut, Finish, Cancel, Evict, Tick, AtEnd, vars

(* Who has passed a limiter does not come back: a search is never called   *)
(* twice.                                                                  *)
LEMMA PassedStays ==
    ASSUME LimiterType, DelayType, Linked, [Next]_vars, NEW p \in Searches, NEW s \in Sources, Passed(p, s)
    PROVE  Passed(p, s)'
<1> USE DEF LimiterType, DelayType, Tasks, Passed
<1>1. ASSUME NEW q \in Searches, Begin(q) PROVE Passed(p, s)'
    BY <1>1 DEF Begin, Linked, Running
<1>2. ASSUME NEW q \in Searches, NEW r \in Sources, Enter(q, r) PROVE Passed(p, s)'
    BY <1>2 DEF Enter, CallSource, MayEnter
<1>3. ASSUME NEW q \in Searches, NEW r \in Sources, Lock(q, r) PROVE Passed(p, s)'
    BY <1>3 DEF Lock, CallSource
<1>4. ASSUME NEW q \in Searches, NEW r \in Sources, Wake(q, r) PROVE Passed(p, s)'
    BY <1>4 DEF Wake, CallSource
<1>5. ASSUME NEW q \in Searches, NEW r \in Sources, NEW o, EndTask(q, r, o) PROVE Passed(p, s)'
    BY <1>5 DEF EndTask
<1>6. ASSUME NEW q \in Searches, NEW r \in Sources, Refuse(q, r) \/ Retry(q, r) PROVE Passed(p, s)'
    BY <1>6 DEF Refuse, Retry
<1>7. ASSUME NEW q \in Searches, NEW o \in {"done", "cancelled"}, Drop(q, o) PROVE Passed(p, s)'
    BY <1>7 DEF Drop, Reset
<1>8. CASE UNCHANGED <<state, stage>>
    BY <1>8
<1> HIDE DEF LimiterType, DelayType, Tasks, Passed
<1> QED
    BY <1>1, <1>2, <1>3, <1>4, <1>5, <1>6, <1>7, <1>8
    DEF Next, Proceed, Respond, TimedOut, Finish, Cancel, Evict, Tick, AtEnd, vars

(* The links are kept: Lock and Wake, which change the last pass, make the *)
(* one that passes it.                                                     *)
LEMMA LinkedStep ==
    LimiterInv /\ DelayType /\ Linked /\ [Next]_vars => Linked'
<1> SUFFICES ASSUME LimiterInv, DelayType, Linked, [Next]_vars PROVE Linked'
    OBVIOUS
<1> USE EngineAssumption
<1>1. \A p \in Searches, s \in Sources : Passed(p, s) => Passed(p, s)'
    BY PassedStays DEF LimiterInv
<1>2. ASSUME NEW s \in Sources, last'[s] # None,
             last'[s] = last[s] \/ \E p \in Searches : stage'[<<p, s>>] = "call"
      PROVE  \E p \in Searches : Passed(p, s)'
    BY <1>1, <1>2 DEF Linked, Passed
<1> DEFINE Sleepers == \A s \in Sources : holder[s] # None => stage[<<holder[s], s>>] = "sleep"
           Runners == \A q \in Searches, s \in Sources : stage[<<q, s>>] # "waiting" => Running(q, s)
<1> SUFFICES /\ Runners' /\ Sleepers'
             /\ \A s \in Sources : \/ last'[s] = last[s]
                                   \/ \E p \in Searches : stage'[<<p, s>>] = "call"
    BY <1>2 DEF Linked
<1>a. Runners /\ Sleepers
    BY DEF Linked
<1> USE <1>a DEF LimiterInv, LimiterType, DelayType, Tasks, Running
<1>3. ASSUME NEW q \in Searches, Begin(q) PROVE Runners' /\ Sleepers' /\ last' = last
    BY <1>3 DEF Begin
<1>4. ASSUME NEW q \in Searches, NEW s \in Sources, Enter(q, s)
      PROVE  Runners' /\ Sleepers' /\ last' = last
    BY <1>4 DEF Enter, CallSource, MayEnter
<1>5. ASSUME NEW q \in Searches, NEW s \in Sources, Lock(q, s)
      PROVE  /\ Runners' /\ Sleepers'
             /\ \A r \in Sources : last'[r] = last[r] \/ \E p \in Searches : stage'[<<p, r>>] = "call"
    <2>1. state[q] = "running" /\ s \in Selected[KeyOf[q]] /\ state' = state /\ holder[s] = None
        BY <1>5 DEF Lock
    <2>2. CASE TooEarly(s)
        <3>1. /\ holder' = [holder EXCEPT ![s] = q] /\ last' = last
              /\ stage' = [stage EXCEPT ![<<q, s>>] = "sleep"]
            BY <1>5, <2>2 DEF Lock
        <3>2. Runners'
            BY <2>1, <3>1
        <3>3. Sleepers'
            BY <2>1, <3>1
        <3> QED BY <3>1, <3>2, <3>3
    <2>3. CASE ~TooEarly(s)
        <3>1. /\ holder' = holder /\ last' = [last EXCEPT ![s] = now]
              /\ stage' = [stage EXCEPT ![<<q, s>>] = "call"]
            BY <1>5, <2>3 DEF Lock, CallSource
        <3>2. Runners'
            BY <2>1, <3>1
        <3>3. Sleepers'
            BY <2>1, <3>1
        <3>4. \A r \in Sources : last'[r] = last[r] \/ \E p \in Searches : stage'[<<p, r>>] = "call"
            BY <3>1
        <3> QED BY <3>2, <3>3, <3>4
    <2> QED BY <2>2, <2>3
<1>6. ASSUME NEW q \in Searches, NEW s \in Sources, Wake(q, s)
      PROVE  /\ Runners' /\ Sleepers'
             /\ \A r \in Sources : last'[r] = last[r] \/ \E p \in Searches : stage'[<<p, r>>] = "call"
    BY <1>6 DEF Wake, CallSource
<1>7. ASSUME NEW q \in Searches, NEW s \in Sources, NEW o, EndTask(q, s, o), Running(q, s),
             stage[<<q, s>>] # "sleep"
      PROVE  Runners' /\ Sleepers' /\ last' = last
    BY <1>7 DEF EndTask
<1>8. ASSUME NEW q \in Searches, NEW s \in Sources, Refuse(q, s) \/ Retry(q, s)
      PROVE  Runners' /\ Sleepers' /\ last' = last
    BY <1>8 DEF Refuse, Retry
<1>9. ASSUME NEW q \in Searches, NEW o, Drop(q, o) PROVE Runners' /\ Sleepers' /\ last' = last
    BY <1>9 DEF Drop, Reset
<1>10. CASE UNCHANGED <<state, stage, holder, last>>
    BY <1>10
<1> HIDE <1>a DEF LimiterInv, LimiterType, DelayType, Tasks, Running, Runners, Sleepers
<1> QED
    BY <1>3, <1>4, <1>5, <1>6, <1>7, <1>8, <1>9, <1>10
    DEF Next, Proceed, Respond, TimedOut, TimeUp, Finish, Cancel, Evict, Tick, AtEnd, vars

(* Due is a time that moves only forward while q runs, and by an interval  *)
(* when one more has passed.                                               *)
LEMMA DueIsNat ==
    ASSUME LimiterType, DelayType, NEW q \in Searches, NEW s \in Sources
    PROVE  /\ IsFiniteSet(Ahead(q, s)) /\ Cardinality(Ahead(q, s)) \in Nat
           /\ Due(q, s) \in Nat /\ begun[q] <= Due(q, s)
           /\ Ahead(q, s) # {} => begun[q] + Interval[s] <= Due(q, s)
           /\ Due(q, s) <= begun[q] + (Cardinality(Searches) - 1) * Interval[s]
<1>1. Ahead(q, s) \subseteq Searches \ {q} /\ IsFiniteSet(Searches \ {q})
    BY SizeAssumption, FS_RemoveElement DEF Ahead
<1>2. Cardinality(Searches \ {q}) = Cardinality(Searches) - 1 /\ Cardinality(Searches) \in Nat
    BY SizeAssumption, FS_RemoveElement, FS_CardinalityType
<1>3. /\ IsFiniteSet(Ahead(q, s)) /\ Cardinality(Ahead(q, s)) \in Nat
      /\ Cardinality(Ahead(q, s)) <= Cardinality(Searches) - 1
    BY <1>1, <1>2, FS_Subset, FS_CardinalityType
<1>4. Ahead(q, s) # {} => Cardinality(Ahead(q, s)) >= 1
    BY <1>3, FS_EmptySet
<1> DEFINE n == Cardinality(Ahead(q, s))
           m == Cardinality(Searches) - 1
           i == Interval[s]
<1>5. n \in Nat /\ m \in Nat /\ n <= m /\ i \in Nat /\ begun[q] \in Nat
    BY <1>2, <1>3, EngineAssumption DEF DelayType
<1>6. n * i \in Nat /\ n * i <= m * i /\ (n >= 1 => i <= n * i)
    <2> HIDE DEF n, m, i
    <2> QED BY <1>5
<1> QED BY <1>3, <1>4, <1>5, <1>6 DEF Due

LEMMA DueGrows ==
    ASSUME LimiterType, DelayType, Linked, [Next]_vars, LimiterType', DelayType',
           NEW q \in Searches, NEW s \in Sources, begun'[q] = begun[q]
    PROVE  /\ Due(q, s)' \in Nat /\ Due(q, s) <= Due(q, s)'
           /\ \A p \in Searches \ {q} : ~Passed(p, s) /\ Passed(p, s)' =>
                Due(q, s) + Interval[s] <= Due(q, s)'
<1> DEFINE n == Cardinality(Ahead(q, s))
           m == Cardinality(Ahead(q, s)')
           i == Interval[s]
<1>1. Ahead(q, s) \subseteq Ahead(q, s)'
    BY PassedStays DEF Ahead
<1>2. IsFiniteSet(Ahead(q, s)) /\ n \in Nat
    BY DueIsNat
<1>3. IsFiniteSet(Ahead(q, s)') /\ m \in Nat
    <2>1. Ahead(q, s)' \subseteq Searches
        BY DEF Ahead
    <2> QED BY <2>1, SizeAssumption, FS_Subset, FS_CardinalityType
<1>4. n <= m
    BY <1>1, <1>3, FS_Subset
<1>5. ASSUME NEW p \in Searches \ {q}, ~Passed(p, s), Passed(p, s)' PROVE n + 1 <= m
    <2>1. p \notin Ahead(q, s) /\ Ahead(q, s) \cup {p} \subseteq Ahead(q, s)'
        BY <1>1, <1>5 DEF Ahead
    <2>2. Cardinality(Ahead(q, s) \cup {p}) = n + 1
        BY <1>2, <2>1, FS_AddElement
    <2> QED BY <1>3, <2>1, <2>2, FS_Subset
<1>6. i \in Nat /\ begun[q] \in Nat
    BY EngineAssumption DEF DelayType
<1>7. n * i <= m * i /\ (n + 1 <= m => n * i + i <= m * i) /\ n * i \in Nat /\ m * i \in Nat
    <2> HIDE DEF n, m, i
    <2> QED BY <1>2, <1>3, <1>4, <1>6
<1>8. Due(q, s) = begun[q] + n * i /\ Due(q, s)' = begun[q] + m * i
    BY DEF Due
<1> HIDE DEF n, m, i
<1>9. /\ Due(q, s)' \in Nat /\ Due(q, s) <= Due(q, s)'
      /\ (n + 1 <= m => Due(q, s) + i <= Due(q, s)')
    BY <1>6, <1>7, <1>8
<1> QED BY <1>5, <1>9 DEF i

(* A task that a step leaves alone stays in time, if the limiter is not    *)
(* freed late.                                                             *)
LEMMA LeftAlone ==
    ASSUME LimiterInv, DelayType, NEW q \in Searches, NEW s \in Sources, InTime(q, s),
           Due(q, s)' \in Nat, Due(q, s) <= Due(q, s)',
           now' = now, begun'[q] = begun[q], last'[s] = last[s],
           stage'[<<q, s>>] = stage[<<q, s>>], wake'[<<q, s>>] = wake[<<q, s>>],
           called'[<<q, s>>] = called[<<q, s>>],
           stage[<<q, s>>] = "queue" /\ holder'[s] = None =>
               holder[s] = None \/ now <= Due(q, s)
    PROVE  InTime(q, s)'
<1>1. /\ Due(q, s) \in Nat /\ now \in Nat /\ Interval[s] \in Nat /\ last[s] \in Nat \cup {None}
      /\ called[<<q, s>>] \in Nat
    BY DueIsNat, EngineAssumption DEF LimiterInv, LimiterType, DelayType, Tasks
<1>2. (last[s] # None /\ last[s] + Interval[s] <= Due(q, s)) => last[s] + Interval[s] <= Due(q, s)'
    BY <1>1
<1>3. now <= Due(q, s) => now <= Due(q, s)'
    BY <1>1
<1>4. called[<<q, s>>] <= Due(q, s) => called[<<q, s>>] <= Due(q, s)'
    BY <1>1
<1> QED BY <1>2, <1>3, <1>4 DEF InTime

(* The tasks stay in time while time stands still: only Lock and Wake let  *)
(* a task pass, which moves the others' due time on by an interval, and    *)
(* only Drop frees a limiter otherwise, before the sleep in it has ended.  *)
LEMMA InTimeStep ==
    ASSUME DelayInv, Next, DelayType', LimiterType', Keeps, ~Tick,
           NEW q \in Searches, NEW s \in Sources, Running(q, s)'
    PROVE  InTime(q, s)'
<1> DEFINE t == <<q, s>>
<1>1. LimiterInv /\ LimiterType /\ DelayType /\ Linked
    BY DEF DelayInv, LimiterInv
<1>2. \A p \in Searches, r \in Sources : Running(p, r) => InTime(p, r)
    BY DEF DelayInv, AllInTime
<1>3. /\ now \in Nat /\ Interval[s] \in Nat /\ last[s] \in Nat \cup {None}
      /\ Due(q, s) \in Nat /\ begun[q] \in Nat /\ begun[q] <= Due(q, s)
    BY <1>1, DueIsNat, EngineAssumption DEF LimiterType, DelayType
<1>4. ASSUME begun'[q] = begun[q]
      PROVE  /\ Due(q, s)' \in Nat /\ Due(q, s) <= Due(q, s)'
             /\ \A p \in Searches \ {q} : ~Passed(p, s) /\ Passed(p, s)' =>
                  Due(q, s) + Interval[s] <= Due(q, s)'
    BY <1>1, <1>4, DueGrows
<1>5. ASSUME NEW p \in Searches, stage[<<p, s>>] = "sleep"
      PROVE  /\ holder[s] = p /\ last[s] \in Nat /\ wake[<<p, s>>] = last[s] + Interval[s]
             /\ now <= wake[<<p, s>>]
             /\ p = q \/ stage[t] = "queue" => now <= Due(q, s)
    <2>1. /\ holder[s] = p /\ last[s] # None /\ last[s] \in Nat
          /\ wake[<<p, s>>] = last[s] + Interval[s]
        BY <1>1, <1>5 DEF LimiterInv, LimiterType
    <2>2. Running(p, s) /\ (stage[t] # "waiting" => Running(q, s))
        BY <1>1, <1>5 DEF Linked
    <2>3. now <= wake[<<p, s>>]
        BY <1>2, <1>5, <2>2 DEF InTime
    <2>4. ASSUME p = q \/ stage[t] = "queue" PROVE last[s] + Interval[s] <= Due(q, s)
        BY <1>2, <1>5, <2>1, <2>2, <2>4 DEF InTime
    <2> QED BY <1>3, <2>1, <2>3, <2>4
<1>6. ASSUME Running(q, s), now' = now, begun'[q] = begun[q], last'[s] = last[s],
             stage'[t] = stage[t], wake'[t] = wake[t], called'[t] = called[t],
             stage[t] = "queue" /\ holder'[s] = None => holder[s] = None \/ now <= Due(q, s)
      PROVE  InTime(q, s)'
    BY <1>1, <1>2, <1>4, <1>6, LeftAlone
<1>7. ASSUME NEW p \in Searches, Begin(p) PROVE InTime(q, s)'
    <2>1. CASE p = q
        <3>1. stage'[t] = "waiting" /\ now' = begun'[q]
            BY <1>1, <1>7, <2>1 DEF Begin, Linked, Running, DelayType
        <3> QED BY <3>1 DEF InTime
    <2>2. CASE p # q
        <3>1. Running(q, s) /\ begun'[q] = begun[q]
            BY <1>1, <1>7, <2>2 DEF Begin, Running, DelayType
        <3> QED BY <1>6, <1>7, <3>1 DEF Begin
    <2> QED BY <2>1, <2>2
<1>8. ASSUME NEW p \in Searches, NEW r \in Sources, Enter(p, r) PROVE InTime(q, s)'
    <2>1. /\ state' = state /\ begun' = begun /\ now' = now /\ last' = last
          /\ holder' = holder /\ wake' = wake
        BY <1>8 DEF Enter
    <2>2. CASE <<p, r>> = t
        <3>1. Running(q, s) /\ stage[t] = "waiting"
            BY <1>8, <2>2 DEF Enter, MayEnter
        <3>2. now = begun[q]
            BY <1>2, <3>1 DEF InTime
        <3>3. Due(q, s) <= Due(q, s)' /\ Due(q, s)' \in Nat
            BY <1>4, <2>1
        <3>4. CASE Interval[s] = 0
            <4>1. stage'[t] = "call" /\ called'[t] = now
                BY <1>1, <1>8, <2>2, <3>4 DEF Enter, CallSource, LimiterType, DelayType, Tasks
            <4>2. now <= Due(q, s)' /\ now <= now + Timeout
                BY <1>3, <3>2, <3>3, EngineAssumption
            <4> QED BY <2>1, <4>1, <4>2 DEF InTime
        <3>5. CASE Interval[s] # 0
            <4>1. stage'[t] = "queue"
                BY <1>1, <1>8, <2>2, <3>5 DEF Enter, LimiterType, Tasks
            <4>2. ASSUME last[s] # None PROVE last[s] + Interval[s] <= Due(q, s)
                <5>1. PICK o \in Searches : Passed(o, s)
                    BY <1>1, <4>2 DEF Linked
                <5>2. o # q
                    BY <3>1, <5>1 DEF Passed, Running
                <5>3. begun[q] + Interval[s] <= Due(q, s)
                    BY <1>1, <5>1, <5>2, DueIsNat DEF Ahead
                <5>4. last[s] \in Nat /\ last[s] <= now
                    BY <1>1, <4>2 DEF LimiterInv, LimiterType
                <5> QED BY <1>3, <3>2, <5>3, <5>4
            <4>3. last[s] # None => last[s] + Interval[s] <= Due(q, s)'
                BY <1>3, <3>3, <4>2
            <4>4. now <= Due(q, s)'
                BY <1>3, <3>2, <3>3
            <4> QED BY <2>1, <4>1, <4>3, <4>4 DEF InTime
        <3> QED BY <3>4, <3>5
    <2>3. CASE <<p, r>> # t
        <3>1. Running(q, s)
            BY <2>1 DEF Running
        <3>2. stage'[t] = stage[t] /\ called'[t] = called[t]
            BY <1>1, <1>8, <2>3 DEF Enter, CallSource, LimiterType, DelayType, Tasks
        <3> QED BY <1>6, <2>1, <3>1, <3>2
    <2> QED BY <2>2, <2>3
<1>9. ASSUME NEW p \in Searches, NEW r \in Sources, p # q,
             stage[<<p, s>>] \in {"queue", "sleep"}, stage'[<<p, s>>] = "call", state' = state,
             last'[s] = now, stage'[t] = stage[t], stage[t] # "sleep",
             stage[t] = "queue" => now <= Due(q, s),
             now' = now, begun' = begun, called'[t] = called[t]
      PROVE  InTime(q, s)'
    <2>1. ~Passed(p, s) /\ Passed(p, s)'
        BY <1>1, <1>9 DEF Passed, Linked, Running
    <2>2. Due(q, s)' \in Nat /\ Due(q, s) <= Due(q, s)' /\ Due(q, s) + Interval[s] <= Due(q, s)'
        BY <1>4, <1>9, <2>1
    <2>3. Running(q, s)
        BY <1>9 DEF Running
    <2>4. InTime(q, s) /\ called[t] \in Nat
        BY <1>1, <1>2, <2>3 DEF DelayType, Tasks
    <2>5. now <= Due(q, s) => now + Interval[s] <= Due(q, s)' /\ now <= Due(q, s)'
        BY <1>3, <2>2
    <2>6. called[t] <= Due(q, s) => called[t] <= Due(q, s)'
        BY <1>3, <2>2, <2>4
    <2> QED BY <1>9, <2>4, <2>5, <2>6 DEF InTime
<1>10. ASSUME Running(q, s), now <= Due(q, s), begun' = begun, now' = now,
              stage'[t] = "call", called'[t] = now
       PROVE  InTime(q, s)'
    <2>1. Due(q, s)' \in Nat /\ Due(q, s) <= Due(q, s)'
        BY <1>4, <1>10
    <2>2. now <= Due(q, s)' /\ now <= now + Timeout
        BY <1>3, <1>10, <2>1, EngineAssumption
    <2> QED BY <1>10, <2>2 DEF InTime
<1>11. ASSUME NEW p \in Searches, NEW r \in Sources, Lock(p, r) PROVE InTime(q, s)'
    <2>1. /\ state' = state /\ begun' = begun /\ now' = now
          /\ Running(p, r) /\ stage[<<p, r>>] = "queue" /\ holder[r] = None
        BY <1>11 DEF Lock
    <2>2. Running(q, s)
        BY <2>1 DEF Running
    <2>3. r = s => stage[t] # "sleep" /\ (stage[t] = "queue" => now <= Due(q, s))
        BY <1>1, <1>2, <2>1, <2>2, EngineAssumption DEF InTime, LimiterInv
    <2>4. CASE TooEarly(r)
        <3>1. /\ holder' = [holder EXCEPT ![r] = p] /\ last' = last /\ called' = called
              /\ wake' = [wake EXCEPT ![<<p, r>>] = last[r] + Interval[r]]
              /\ stage' = [stage EXCEPT ![<<p, r>>] = "sleep"]
            BY <1>11, <2>4 DEF Lock
        <3>2. CASE <<p, r>> = t
            <4>1. stage'[t] = "sleep" /\ wake'[t] = last[s] + Interval[s]
                BY <1>1, <3>1, <3>2 DEF LimiterType, Tasks
            <4>2. last[s] \in Nat /\ now <= last[s] + Interval[s]
                BY <1>3, <2>4, <3>2 DEF TooEarly
            <4>3. last[s] + Interval[s] <= Due(q, s)
                BY <1>2, <2>1, <2>2, <2>4, <3>2 DEF InTime, TooEarly
            <4>4. last[s] + Interval[s] <= Due(q, s)'
                BY <1>3, <1>4, <2>1, <4>2, <4>3
            <4> QED BY <2>1, <3>1, <4>1, <4>2, <4>4 DEF InTime
        <3>3. CASE <<p, r>> # t
            <4>1. /\ stage'[t] = stage[t] /\ wake'[t] = wake[t]
                  /\ holder'[s] = None => holder[s] = None
                BY <1>1, <3>1, <3>3, EngineAssumption DEF LimiterType, Tasks
            <4> QED BY <1>6, <2>1, <2>2, <3>1, <4>1
        <3> QED BY <3>2, <3>3
    <2>5. CASE ~TooEarly(r)
        <3>1. /\ last' = [last EXCEPT ![r] = now] /\ holder' = holder /\ wake' = wake
              /\ stage' = [stage EXCEPT ![<<p, r>>] = "call"]
              /\ called' = [called EXCEPT ![<<p, r>>] = now]
            BY <1>11, <2>5 DEF Lock, CallSource
        <3>2. CASE <<p, r>> = t
            <4>1. stage'[t] = "call" /\ called'[t] = now
                BY <1>1, <3>1, <3>2 DEF LimiterType, DelayType, Tasks
            <4> QED BY <1>10, <2>1, <2>2, <2>3, <3>2, <4>1
        <3>3. CASE r = s /\ p # q
            <4>1. /\ stage'[<<p, s>>] = "call" /\ last'[s] = now
                  /\ stage'[t] = stage[t] /\ called'[t] = called[t]
                BY <1>1, <3>1, <3>3 DEF LimiterType, DelayType, Tasks
            <4> QED BY <1>9, <2>1, <2>3, <3>3, <4>1
        <3>4. CASE r # s
            <4>1. /\ last'[s] = last[s] /\ stage'[t] = stage[t] /\ called'[t] = called[t]
                BY <1>1, <3>1, <3>4 DEF LimiterType, DelayType, Tasks
            <4> QED BY <1>6, <2>1, <2>2, <3>1, <4>1
        <3> QED BY <3>2, <3>3, <3>4
    <2> QED BY <2>4, <2>5
<1>12. ASSUME NEW p \in Searches, NEW r \in Sources, Wake(p, r) PROVE InTime(q, s)'
    <2>1. /\ state' = state /\ begun' = begun /\ now' = now /\ wake' = wake
          /\ Running(p, r) /\ stage[<<p, r>>] = "sleep"
          /\ last' = [last EXCEPT ![r] = now]
          /\ holder' = [holder EXCEPT ![r] = None]
          /\ stage' = [stage EXCEPT ![<<p, r>>] = "call"]
          /\ called' = [called EXCEPT ![<<p, r>>] = now]
        BY <1>12 DEF Wake, CallSource
    <2>2. Running(q, s)
        BY <2>1 DEF Running
    <2>3. CASE <<p, r>> = t
        <3>1. stage'[t] = "call" /\ called'[t] = now
            BY <1>1, <2>1, <2>3 DEF LimiterType, DelayType, Tasks
        <3>2. now <= Due(q, s)
            BY <1>5, <2>1, <2>3
        <3> QED BY <1>10, <2>1, <2>2, <3>1, <3>2
    <2>4. CASE r = s /\ p # q
        <3>1. /\ stage'[<<p, s>>] = "call" /\ last'[s] = now
              /\ stage'[t] = stage[t] /\ called'[t] = called[t]
            BY <1>1, <2>1, <2>4 DEF LimiterType, DelayType, Tasks
        <3>2. stage[<<p, s>>] = "sleep" /\ (stage[t] = "queue" => now <= Due(q, s))
            BY <1>5, <2>1, <2>4
        <3>3. stage[t] # "sleep"
            BY <1>5, <2>4, <3>2
        <3> QED BY <1>9, <2>1, <2>4, <3>1, <3>2, <3>3
    <2>5. CASE r # s
        <3>1. /\ last'[s] = last[s] /\ holder'[s] = holder[s]
              /\ stage'[t] = stage[t] /\ called'[t] = called[t]
            BY <1>1, <2>1, <2>5 DEF LimiterType, DelayType, Tasks
        <3> QED BY <1>6, <2>1, <2>2, <3>1
    <2> QED BY <2>3, <2>4, <2>5
<1>13. ASSUME NEW p \in Searches, NEW r \in Sources, NEW o, EndTask(p, r, o)
       PROVE  InTime(q, s)'
    <2>1. /\ stage' = [stage EXCEPT ![<<p, r>>] = "ended"]
          /\ wake' = [wake EXCEPT ![<<p, r>>] = 0]
          /\ called' = [called EXCEPT ![<<p, r>>] = 0]
          /\ UNCHANGED <<now, state, begun, holder, last>>
        BY <1>13 DEF EndTask
    <2>2. CASE <<p, r>> = t
        <3>1. stage'[t] = "ended"
            BY <1>1, <2>1, <2>2 DEF LimiterType, Tasks
        <3> QED BY <3>1 DEF InTime
    <2>3. CASE <<p, r>> # t
        <3>1. /\ Running(q, s) /\ stage'[t] = stage[t]
              /\ wake'[t] = wake[t] /\ called'[t] = called[t]
            BY <1>1, <2>1, <2>3 DEF LimiterType, DelayType, Tasks, Running
        <3> QED BY <1>6, <2>1, <3>1
    <2> QED BY <2>2, <2>3
<1>14. ASSUME NEW p \in Searches, NEW r \in Sources, Refuse(p, r) \/ Retry(p, r)
       PROVE  InTime(q, s)'
    <2>1. /\ stage[<<p, r>>] \in {"call", "backoff"}
          /\ \E c \in {"call", "backoff"} : stage' = [stage EXCEPT ![<<p, r>>] = c]
          /\ \A u \in Tasks \ {<<p, r>>} : wake'[u] = wake[u]
          /\ UNCHANGED <<now, state, begun, called, holder, last>>
        <3>1. CASE Refuse(p, r)
            BY <1>1, <3>1 DEF Refuse, LimiterType
        <3>2. CASE Retry(p, r)
            BY <3>2 DEF Retry
        <3> QED BY <1>14, <3>1, <3>2
    <2>2. Running(q, s)
        BY <2>1 DEF Running
    <2>3. CASE <<p, r>> = t
        <3>1. stage[t] \in {"call", "backoff"} /\ stage'[t] \in {"call", "backoff"}
            BY <1>1, <2>1, <2>3 DEF LimiterType, Tasks
        <3>2. /\ called[t] \in Nat /\ called[t] <= Due(q, s) /\ now <= called[t] + Timeout
            BY <1>1, <1>2, <2>2, <3>1 DEF InTime, DelayType, Tasks
        <3>3. called[t] <= Due(q, s)'
            BY <1>3, <1>4, <2>1, <3>2
        <3> QED BY <2>1, <3>1, <3>2, <3>3 DEF InTime
    <2>4. CASE <<p, r>> # t
        <3>1. stage'[t] = stage[t] /\ wake'[t] = wake[t]
            BY <1>1, <2>1, <2>4 DEF LimiterType, Tasks
        <3> QED BY <1>6, <2>1, <2>2, <3>1
    <2> QED BY <2>3, <2>4
<1>15. ASSUME NEW p \in Searches, NEW o \in {"done", "cancelled"}, Drop(p, o)
       PROVE  InTime(q, s)'
    <2>1. p # q
        BY <1>1, <1>15 DEF Drop, Running, DelayType
    <2>2. /\ Running(q, s) /\ now' = now /\ begun'[q] = begun[q] /\ last' = last
          /\ stage'[t] = stage[t] /\ wake'[t] = wake[t] /\ called'[t] = called[t]
        BY <1>1, <1>15, <2>1 DEF Drop, Reset, Running, DelayType, LimiterType, Tasks
    <2>3. holder'[s] = None => holder[s] = None \/ holder[s] = p
        BY <1>15 DEF Drop
    <2>4. ASSUME holder[s] = p, stage[t] = "queue" PROVE now <= Due(q, s)
        <3>1. stage[<<p, s>>] = "sleep"
            BY <1>1, <2>4, EngineAssumption DEF Linked
        <3> QED BY <1>5, <2>4, <3>1
    <2> QED BY <1>6, <2>2, <2>3, <2>4
<1>16. ASSUME UNCHANGED <<now, state, begun, stage, wake, called, holder, last>>
       PROVE  InTime(q, s)'
    BY <1>6, <1>16 DEF Running
<1> HIDE DEF t
<1> QED
    BY <1>7, <1>8, <1>11, <1>12, <1>13, <1>14, <1>15, <1>16
    DEF Next, Proceed, Respond, TimedOut, Finish, Cancel, Evict, AtEnd, vars

(* Time passes only when no task can go on.  Then a running search has a   *)
(* task that waits for a limiter in which another sleeps, sleeps itself,   *)
(* or is in its call, and none of them is late.                            *)
LEMMA TickInTime ==
    ASSUME DelayInv, Tick, Keeps, NEW q \in Searches, NEW s \in Sources, Running(q, s)
    PROVE  /\ InTime(q, s)'
           /\ stage[<<q, s>>] # "ended" => now + 1 <= Due(q, s) + Timeout
<1> DEFINE t == <<q, s>>
<1>1. LimiterInv /\ LimiterType /\ DelayType /\ Linked
    BY DEF DelayInv, LimiterInv
<1>2. \A p \in Searches, r \in Sources : Running(p, r) => InTime(p, r)
    BY DEF DelayInv, AllInTime
<1>3. /\ ~Ready /\ now' = now + 1
      /\ UNCHANGED <<state, begun, stage, wake, called, holder, last>>
    BY DEF Tick, Keeps
<1>4. /\ now \in Nat /\ Interval[s] \in Nat /\ last[s] \in Nat \cup {None} /\ Timeout \in Nat
      /\ Due(q, s) \in Nat /\ called[t] \in Nat
    BY <1>1, DueIsNat, EngineAssumption DEF LimiterType, DelayType, Tasks
<1>5. Due(q, s)' = Due(q, s)
    BY <1>3 DEF Due, Ahead, Passed
<1>6. stage[t] # "waiting"
    <2> SUFFICES ASSUME stage[t] = "waiting" PROVE FALSE
        OBVIOUS
    <2>1. UnderWay(q) \subseteq Sources \ {s}
        BY EngineAssumption DEF UnderWay
    <2>2. IsFiniteSet(Sources \ {s}) /\ Cardinality(Sources \ {s}) = Cardinality(Sources) - 1
        BY SizeAssumption, FS_RemoveElement
    <2>3. IsFiniteSet(UnderWay(q)) /\ Cardinality(UnderWay(q)) <= Cardinality(Sources \ {s})
        BY <2>1, <2>2, FS_Subset
    <2>4. Cardinality(UnderWay(q)) \in Nat /\ Cardinality(Sources) \in Nat
        BY <2>3, SizeAssumption, FS_CardinalityType
    <2>5. Cardinality(UnderWay(q)) < MaxConcurrency
        BY <2>2, <2>3, <2>4, EngineAssumption DEF Keeps
    <2>6. MayEnter(q, s)
        BY <2>5 DEF MayEnter
    <2> QED BY <1>3, <2>6 DEF Ready
<1>7. ASSUME NEW p \in Searches, stage[<<p, s>>] = "sleep"
      PROVE  last[s] \in Nat /\ wake[<<p, s>>] = last[s] + Interval[s] /\ now + 1 <= wake[<<p, s>>]
    <2>1. last[s] \in Nat /\ wake[<<p, s>>] = last[s] + Interval[s]
        BY <1>1, <1>7 DEF LimiterInv, LimiterType
    <2>2. Running(p, s)
        BY <1>1, <1>7 DEF Linked
    <2>3. ~(now >= wake[<<p, s>>])
        BY <1>3, <1>7, <2>2 DEF Ready
    <2> QED BY <1>4, <2>1, <2>3
<1>8. CASE stage[t] \in {"queue", "sleep"}
    <2>1. PICK p \in Searches : stage[<<p, s>>] = "sleep"
        <3>1. CASE stage[t] = "queue"
            <4>1. holder[s] # None
                BY <1>3, <3>1 DEF Ready
            <4> QED BY <1>1, <4>1 DEF Linked, LimiterType
        <3>2. CASE stage[t] = "sleep"
            BY <3>2
        <3> QED BY <1>8, <3>1, <3>2
    <2>2. holder[s] = p
        BY <1>1, <2>1 DEF LimiterInv
    <2>3. now + 1 <= last[s] + Interval[s] /\ last[s] \in Nat
        BY <1>7, <2>1
    <2>4. last[s] + Interval[s] <= Due(q, s)
        BY <1>2, <1>4, <1>8, <2>3, EngineAssumption DEF InTime
    <2>5. stage[t] = "sleep" => now' <= wake'[t]
        BY <1>3, <1>7
    <2>6. InTime(q, s)'
        BY <1>3, <1>5, <1>8, <2>2, <2>4, <2>5, EngineAssumption DEF InTime
    <2> QED BY <1>4, <2>3, <2>4, <2>6
<1>9. CASE stage[t] \in {"call", "backoff"}
    <2>1. ~TimeUp(q, s)
        BY <1>3 DEF Ready
    <2>2. now + 1 <= called[t] + Timeout
        BY <1>4, <1>9, <2>1 DEF TimeUp
    <2>3. called[t] <= Due(q, s)
        BY <1>2, <1>9 DEF InTime
    <2>4. InTime(q, s)'
        BY <1>3, <1>5, <1>9, <2>2, <2>3 DEF InTime
    <2> QED BY <1>4, <2>2, <2>3, <2>4
<1>10. CASE stage[t] = "ended"
    BY <1>3, <1>10 DEF InTime
<1>11. stage[t] \in Stages
    BY <1>1 DEF LimiterType, Tasks
<1> QED BY <1>6, <1>8, <1>9, <1>10, <1>11 DEF Stages

(* The longest interval is the longest.                                    *)
LEMMA LongestIs == Longest \in Nat /\ \A s \in Sources : Interval[s] <= Longest
<1>1. \E i \in {0} \cup {Interval[s] : s \in Sources} : \A s \in Sources : Interval[s] <= i
    BY EngineAssumption, SizeAssumption, LargestExists
<1>2. /\ Longest \in {0} \cup {Interval[s] : s \in Sources}
      /\ \A s \in Sources : Interval[s] <= Longest
    BY <1>1, Zenon DEF Longest
<1> QED BY <1>2, EngineAssumption

(* Every step keeps the invariant.                                         *)
LEMMA DelayStep == DelayInv /\ [Next]_vars => DelayInv'
<1> SUFFICES ASSUME DelayInv, [Next]_vars PROVE DelayInv'
    OBVIOUS
<1>1. LimiterInv' /\ DelayType' /\ Linked' /\ LimiterType /\ LimiterType' /\ DelayType
    BY LimiterStep, DelayTypeStep, LinkedStep DEF DelayInv, LimiterInv
<1>2. ASSUME Keeps, NEW q \in Searches, NEW s \in Sources, Running(q, s)' PROVE InTime(q, s)'
    <2>1. CASE Tick
        <3>1. Running(q, s)
            BY <1>2, <2>1 DEF Tick, Running
        <3> QED BY <1>2, <2>1, <3>1, TickInTime
    <2>2. CASE Next /\ ~Tick
        BY <1>1, <1>2, <2>2, InTimeStep
    <2>3. CASE UNCHANGED vars
        <3>1. Running(q, s)
            BY <1>2, <2>3 DEF Running, vars
        <3>2. InTime(q, s)
            BY <1>2, <3>1 DEF DelayInv, AllInTime
        <3> QED BY <2>3, <3>2 DEF InTime, Due, Ahead, Passed, vars
    <2> QED BY <2>1, <2>2, <2>3
<1> DEFINE m == Cardinality(Searches) - 1
<1>3. ASSUME NEW q \in Searches
      PROVE  /\ m \in Nat /\ m * Longest \in Nat
             /\ \A s \in Sources : m * Interval[s] \in Nat /\ m * Interval[s] <= m * Longest
    <2>1. Cardinality(Searches) \in Nat /\ Cardinality(Searches) # 0
        BY SizeAssumption, FS_CardinalityType, FS_EmptySet
    <2>2. m \in Nat
        BY <2>1
    <2>3. Longest \in Nat /\ \A s \in Sources : Interval[s] \in Nat /\ Interval[s] <= Longest
        BY LongestIs, EngineAssumption
    <2> HIDE DEF m
    <2>4. m * Longest \in Nat
        BY <2>2, <2>3
    <2>5. ASSUME NEW s \in Sources PROVE m * Interval[s] \in Nat /\ m * Interval[s] <= m * Longest
        BY <2>2, <2>3
    <2> QED BY <2>2, <2>4, <2>5
<1>4. ASSUME Keeps, NEW q \in Searches, state'[q] = "running"
      PROVE  now' - begun'[q] <= m * Longest + Timeout
    <2>1. /\ now \in Nat /\ begun[q] \in Nat /\ Timeout \in Nat
          /\ m * Longest \in Nat
        BY <1>1, <1>3, EngineAssumption DEF LimiterType, DelayType
    <2> HIDE DEF m
    <2>2. CASE Tick
        <3>1. now' = now + 1 /\ begun' = begun /\ state[q] = "running" /\ ~Ready
            BY <1>4, <2>2 DEF Tick, Keeps
        <3>2. ~AllEnded(q) /\ Selected[KeyOf[q]] \subseteq Sources
            BY <3>1, EngineAssumption DEF Ready
        <3>3. PICK s \in Sources : Running(q, s) /\ stage[<<q, s>>] # "ended"
            BY <3>1, <3>2 DEF AllEnded, Running
        <3>4. now + 1 <= Due(q, s) + Timeout
            BY <1>4, <2>2, <3>3, TickInTime
        <3>5. Due(q, s) \in Nat /\ Due(q, s) <= begun[q] + m * Interval[s]
            BY <1>1, DueIsNat DEF m
        <3>6. m * Interval[s] \in Nat /\ m * Interval[s] <= m * Longest
            BY <1>3
        <3> QED BY <2>1, <3>1, <3>4, <3>5, <3>6
    <2>3. CASE now' = now /\ begun'[q] = begun[q] /\ state[q] = "running"
        BY <1>4, <2>3 DEF DelayInv, BoundedDelay, Keeps, m
    <2>4. CASE now' = now /\ begun'[q] = now
        BY <2>1, <2>4
    <2>5. ASSUME NEW p \in Searches, Begin(p)
          PROVE  \/ now' = now /\ begun'[q] = begun[q] /\ state[q] = "running"
                 \/ now' = now /\ begun'[q] = now
        BY <1>1, <1>4, <2>5 DEF Begin, DelayType
    <2>6. ASSUME NEW p \in Searches, NEW o \in {"done", "cancelled"}, Drop(p, o)
          PROVE  now' = now /\ begun'[q] = begun[q] /\ state[q] = "running"
        BY <1>1, <1>4, <2>6 DEF Drop, DelayType
    <2>7. ASSUME UNCHANGED <<now, begun, state>>
          PROVE  now' = now /\ begun'[q] = begun[q] /\ state[q] = "running"
        BY <1>4, <2>7
    <2>8. ASSUME NEW p \in Searches, NEW s \in Sources,
                 Enter(p, s) \/ Lock(p, s) \/ Wake(p, s) \/ Refuse(p, s) \/ Retry(p, s)
          PROVE  UNCHANGED <<now, begun, state>>
        BY <2>8, Zenon DEF Enter, Lock, Wake, Refuse, Retry
    <2>9. ASSUME NEW p \in Searches, NEW s \in Sources, NEW r, Respond(p, s, r) \/ TimedOut(p, s)
          PROVE  UNCHANGED <<now, begun, state>>
        BY <2>9, Zenon DEF Respond, TimedOut, EndTask
    <2>10. ASSUME NEW c \in Keys, Evict(c) PROVE UNCHANGED <<now, begun, state>>
        BY <2>10 DEF Evict
    <2>11. ASSUME NEW p \in Searches, Finish(p) \/ Cancel(p)
           PROVE  \E o \in {"done", "cancelled"} : Drop(p, o)
        BY <2>11 DEF Finish, Cancel
    <2>12. UNCHANGED vars => UNCHANGED <<now, begun, state>>
        BY DEF vars
    <2> QED
        BY <2>2, <2>3, <2>4, <2>5, <2>6, <2>7, <2>8, <2>9, <2>10, <2>11, <2>12
        DEF Next, Proceed, AtEnd
<1>5. BoundedDelay'
    BY <1>4 DEF BoundedDelay, Keeps
<1>6. AllInTime'
    BY <1>2 DEF AllInTime, Keeps
<1> QED BY <1>1, <1>5, <1>6 DEF DelayInv

(* With a prompt executor and a slot for every source a search takes no    *)
(* longer than the timeout and one interval for every other search         *)
(* (engine.rs search, ratelimit.rs acquire), whatever is called, dropped   *)
(* or refused meanwhile, in whichever order the limiter serves them.       *)
THEOREM DelayIsBounded == Spec => []BoundedDelay
<1>1. DelayInv => BoundedDelay
    BY DEF DelayInv
<1> QED BY <1>1, DelayInit, DelayStep, PTL DEF Spec

-----------------------------------------------------------------------------
(* The rate of requests.  Owed: the requests that the task of q for s can  *)
(* still send without passing the limiter.                                 *)
Owed(q, s) ==
    IF stage[<<q, s>>] = "call" THEN MaxRetries - tries[<<q, s>>]
    ELSE IF stage[<<q, s>>] = "backoff" THEN MaxRetries + 1 - tries[<<q, s>>]
    ELSE 0

Total(s) == sent[s] + SumOf([q \in Searches |-> Owed(q, s)], Searches)

RateType ==
    /\ stage \in [Tasks -> Stages]
    /\ tries \in [Tasks -> 0..MaxRetries]
    /\ sent \in [Sources -> Nat]

(* What was sent and what is still owed fits into the intervals that the   *)
(* limiter has counted off up to its last pass.  Without what is owed this *)
(* would not be inductive: retries come after the pass they belong to.     *)
WithinRate(s) ==
    IF last[s] = None THEN Total(s) = 0
    ELSE Total(s) * Interval[s] <= (MaxRetries + 1) * (last[s] + Interval[s])

RateInv ==
    /\ LimiterInv /\ RateType
    /\ \A s \in Sources : Interval[s] > 0 => WithinRate(s)

(* The types of what is counted.                                           *)
OwedNat ==
    \A s \in Sources :
        /\ \A q \in Searches : Owed(q, s) \in Nat
        /\ Total(s) \in Nat /\ sent[s] \in Nat /\ sent[s] <= Total(s)

LEMMA OwedIsNat == RateType => OwedNat
<1> SUFFICES ASSUME RateType, NEW s \in Sources
             PROVE  /\ \A q \in Searches : Owed(q, s) \in Nat
                    /\ Total(s) \in Nat /\ sent[s] \in Nat /\ sent[s] <= Total(s)
    BY DEF OwedNat
<1> DEFINE w == [q \in Searches |-> Owed(q, s)]
<1>1. MaxRetries \in Nat
    BY EngineAssumption
<1>2. \A q \in Searches : Owed(q, s) \in Nat
    BY <1>1 DEF Owed, RateType, Tasks
<1>3. SumOf(w, Searches) \in Nat
    <2>1. \A q \in Searches : w[q] \in Nat
        BY <1>2
    <2> HIDE DEF w
    <2> QED BY <2>1, SizeAssumption, SumGrows
<1>4. sent[s] \in Nat
    BY DEF RateType
<1> QED BY <1>2, <1>3, <1>4 DEF Total

(* A step that leaves the other searches' tasks for s alone changes the    *)
(* total by what it sends and by what q owes.                              *)
LEMMA TotalChange ==
    ASSUME RateType, RateType', NEW q \in Searches, NEW s \in Sources,
           \A p \in Searches \ {q} : stage'[<<p, s>>] = stage[<<p, s>>] /\ tries'[<<p, s>>] = tries[<<p, s>>]
    PROVE  /\ Total(s)' \in Nat /\ Total(s) \in Nat
           /\ Total(s)' - sent'[s] - Owed(q, s)' = Total(s) - sent[s] - Owed(q, s)
<1> DEFINE w == [p \in Searches |-> Owed(p, s)]
           v == [p \in Searches |-> Owed(p, s)']
           Q == Searches \ {q}
<1>1. (\A p \in Searches : Owed(p, s) \in Nat) /\ Total(s) \in Nat /\ sent[s] \in Nat
    BY OwedIsNat DEF OwedNat
<1>2. (\A p \in Searches : Owed(p, s)' \in Nat) /\ Total(s)' \in Nat /\ sent'[s] \in Nat
    <2>1. OwedNat'
        BY OwedIsNat, PTL
    <2> QED BY <2>1 DEF OwedNat
<1>3. Total(s) = sent[s] + SumOf(w, Searches) /\ Total(s)' = sent'[s] + SumOf(v, Searches)
    BY DEF Total
<1>4. /\ \A p \in Searches : w[p] \in Int /\ v[p] \in Int
      /\ w[q] = Owed(q, s) /\ v[q] = Owed(q, s)'
    BY <1>1, <1>2
<1>5. \A p \in Q : w[p] = v[p]
    BY DEF Owed
<1>6. IsFiniteSet(Searches) /\ IsFiniteSet(Q)
    BY SizeAssumption, FS_Subset
<1> HIDE DEF w, v
<1>7. ASSUME NEW f, \A p \in Searches : f[p] \in Int
      PROVE  SumOf(f, Searches) = f[q] + SumOf(f, Q) /\ SumOf(f, Q) \in Int
    <2>1. SumOf(f, Searches) = f[q] + SumOf(f, Searches \ {q})
        BY <1>6, <1>7, SumRules
    <2>2. \A p \in Q : f[p] \in Int
        BY <1>7
    <2>3. SumOf(f, Q) \in Int
        <3> HIDE DEF Q
        <3> QED BY <1>6, <2>2, SumRules
    <2> QED BY <2>1, <2>3
<1>8. SumOf(w, Q) = SumOf(v, Q)
    <2> HIDE DEF Q
    <2> QED BY <1>5, <1>6, SumSame
<1>9. /\ SumOf(w, Searches) = w[q] + SumOf(w, Q) /\ SumOf(w, Q) \in Int
      /\ SumOf(v, Searches) = v[q] + SumOf(v, Q)
    BY <1>4, <1>7
<1> HIDE DEF Q
<1> QED BY <1>1, <1>2, <1>3, <1>4, <1>8, <1>9

(* Every step keeps the types.                                             *)
LEMMA RateTypeStep ==
    ASSUME RateType, [Next]_vars
    PROVE  RateType'
<1> USE EngineAssumption DEF RateType, Tasks, Stages
<1>1. ASSUME NEW q \in Searches, Begin(q) PROVE RateType'
    BY <1>1 DEF Begin
<1>2. ASSUME NEW q \in Searches, NEW s \in Sources, Enter(q, s) PROVE RateType'
    BY <1>2 DEF Enter, CallSource
<1>3. ASSUME NEW q \in Searches, NEW s \in Sources, Lock(q, s) PROVE RateType'
    <2>1. CASE TooEarly(s)
        BY <1>3, <2>1 DEF Lock
    <2>2. CASE ~TooEarly(s)
        <3>1. /\ stage' = [stage EXCEPT ![<<q, s>>] = "call"] /\ tries' = tries
              /\ sent' = [sent EXCEPT ![s] = @ + 1]
            BY <1>3, <2>2 DEF Lock, CallSource
        <3> QED BY <3>1
    <2> QED BY <2>1, <2>2
<1>4. ASSUME NEW q \in Searches, NEW s \in Sources, Wake(q, s) PROVE RateType'
    BY <1>4 DEF Wake, CallSource
<1>5. ASSUME NEW q \in Searches, NEW s \in Sources, NEW r, EndTask(q, s, r) PROVE RateType'
    BY <1>5 DEF EndTask
<1>6. ASSUME NEW q \in Searches, NEW s \in Sources, Refuse(q, s) PROVE RateType'
    BY <1>6 DEF Refuse
<1>7. ASSUME NEW q \in Searches, NEW s \in Sources, Retry(q, s) PROVE RateType'
    BY <1>7 DEF Retry
<1>8. ASSUME NEW q \in Searches, NEW o, Drop(q, o) PROVE RateType'
    BY <1>8 DEF Drop, Reset
<1>9. CASE Tick \/ AtEnd \/ UNCHANGED vars \/ \E k \in Keys : Evict(k)
    BY <1>9 DEF Tick, AtEnd, vars, Evict
<1> QED
    BY <1>1, <1>2, <1>3, <1>4, <1>5, <1>6, <1>7, <1>8, <1>9
    DEF Next, Proceed, Respond, TimedOut, Finish, Cancel

(* A limiter lets a call pass, which adds one request and its retries, one *)
(* interval after the last pass; no other step adds anything.              *)
Passes(s) ==
    /\ last'[s] = now
    /\ last[s] # None => last[s] + Interval[s] <= now
    /\ Total(s)' <= Total(s) + MaxRetries + 1

AddsNothing(s) == last'[s] = last[s] /\ Total(s)' <= Total(s)

LEMMA RateSource ==
    ASSUME RateInv, RateType', [Next]_vars, NEW s \in Sources, Interval[s] > 0
    PROVE  Passes(s) \/ AddsNothing(s)
<1>1. LimiterInv /\ LimiterType /\ RateType /\ MaxRetries \in Nat /\ Interval[s] \in Nat /\ now \in Nat
    BY EngineAssumption DEF RateInv, LimiterInv, LimiterType
<1>2. Total(s) \in Nat /\ \A q \in Searches : Owed(q, s) \in Nat
    BY <1>1, OwedIsNat DEF OwedNat
<1>3. \A q \in Searches : Owed(q, s)' \in Nat
    <2>1. OwedNat'
        BY OwedIsNat, PTL
    <2> QED BY <2>1 DEF OwedNat
<1> DEFINE Alone(q) == \A p \in Searches \ {q} :
        stage'[<<p, s>>] = stage[<<p, s>>] /\ tries'[<<p, s>>] = tries[<<p, s>>]
<1>4. ASSUME NEW q \in Searches, Alone(q), sent'[s] + Owed(q, s)' <= sent[s] + Owed(q, s),
             last'[s] = last[s]
      PROVE  AddsNothing(s)
    <2>1. /\ Total(s)' \in Nat
          /\ Total(s)' - sent'[s] - Owed(q, s)' = Total(s) - sent[s] - Owed(q, s)
        BY <1>1, <1>4, TotalChange
    <2>2. sent[s] \in Nat /\ sent'[s] \in Nat
        BY <1>1 DEF RateType
    <2> QED BY <1>2, <1>3, <1>4, <2>1, <2>2 DEF AddsNothing
<1>5. ASSUME NEW q \in Searches, Alone(q), sent'[s] = sent[s] + 1, Owed(q, s)' <= MaxRetries,
             last'[s] = now, last[s] # None => last[s] + Interval[s] <= now
      PROVE  Passes(s)
    <2>1. /\ Total(s)' \in Nat
          /\ Total(s)' - sent'[s] - Owed(q, s)' = Total(s) - sent[s] - Owed(q, s)
        BY <1>1, <1>5, TotalChange
    <2>2. sent[s] \in Nat /\ sent'[s] \in Nat
        BY <1>1 DEF RateType
    <2> QED BY <1>1, <1>2, <1>3, <1>5, <2>1, <2>2 DEF Passes
<1>6. ASSUME NEW q \in Searches, last'[s] = last[s], sent'[s] = sent[s], Alone(q),
             stage'[<<q, s>>] = stage[<<q, s>>], tries'[<<q, s>>] = tries[<<q, s>>]
      PROVE  AddsNothing(s)
    <2>1. Owed(q, s)' = Owed(q, s)
        BY <1>6 DEF Owed
    <2>2. sent[s] \in Nat
        BY <1>1 DEF RateType
    <2> QED BY <1>2, <1>4, <1>6, <2>1, <2>2
<1>7. ASSUME NEW q \in Searches, last'[s] = last[s], sent'[s] = sent[s], Alone(q),
             stage'[<<q, s>>] \notin {"call", "backoff"}
      PROVE  AddsNothing(s)
    <2>1. Owed(q, s)' = 0
        BY <1>7 DEF Owed
    <2>2. sent[s] \in Nat
        BY <1>1 DEF RateType
    <2> QED BY <1>2, <1>4, <1>7, <2>1, <2>2
<1>8. ASSUME stage' = stage, tries' = tries, sent' = sent, last' = last PROVE AddsNothing(s)
    <2>1. Total(s)' = Total(s)
        BY <1>8 DEF Total, Owed
    <2> QED BY <1>2, <1>8, <2>1 DEF AddsNothing
<1> USE DEF RateType, LimiterType, Tasks, Stages
<1>9. ASSUME NEW q \in Searches, NEW r \in Sources, Enter(q, r) PROVE AddsNothing(s)
    <2>1. last'[s] = last[s] /\ sent'[s] = sent[s] /\ Alone(q)
        BY <1>1, <1>9 DEF Enter, CallSource
    <2>2. CASE r = s
        BY <1>1, <1>7, <1>9, <2>1, <2>2 DEF Enter, CallSource
    <2>3. CASE r # s
        BY <1>1, <1>6, <1>9, <2>1, <2>3 DEF Enter, CallSource
    <2> QED BY <2>2, <2>3
<1>10. ASSUME NEW q \in Searches, NEW r \in Sources, Lock(q, r) PROVE Passes(s) \/ AddsNothing(s)
    <2>1. Alone(q) /\ tries' = tries
        BY <1>1, <1>10 DEF Lock, CallSource
    <2>2. CASE r # s
        BY <1>1, <1>6, <1>10, <2>1, <2>2 DEF Lock, CallSource
    <2>3. CASE r = s /\ TooEarly(s)
        BY <1>1, <1>7, <1>10, <2>1, <2>3 DEF Lock
    <2>4. CASE r = s /\ ~TooEarly(s)
        <3>1. /\ sent'[s] = sent[s] + 1 /\ last'[s] = now /\ stage'[<<q, s>>] = "call"
            BY <1>1, <1>10, <2>4 DEF Lock, CallSource
        <3>2. last[s] # None => last[s] + Interval[s] <= now
            BY <1>1, <2>4 DEF TooEarly
        <3>3. Owed(q, s)' <= MaxRetries
            BY <1>1, <2>1, <3>1 DEF Owed
        <3> QED BY <1>5, <2>1, <3>1, <3>2, <3>3
    <2> QED BY <2>2, <2>3, <2>4
<1>11. ASSUME NEW q \in Searches, NEW r \in Sources, Wake(q, r) PROVE Passes(s) \/ AddsNothing(s)
    <2>1. Alone(q) /\ tries' = tries
        BY <1>1, <1>11 DEF Wake, CallSource
    <2>2. CASE r # s
        BY <1>1, <1>6, <1>11, <2>1, <2>2 DEF Wake, CallSource
    <2>3. CASE r = s
        <3>1. /\ sent'[s] = sent[s] + 1 /\ last'[s] = now /\ stage'[<<q, s>>] = "call"
              /\ now >= wake[<<q, s>>] /\ stage[<<q, s>>] = "sleep"
            BY <1>1, <1>11, <2>3 DEF Wake, CallSource
        <3>2. last[s] # None => last[s] + Interval[s] <= now
            BY <1>1, <3>1 DEF LimiterInv
        <3>3. Owed(q, s)' <= MaxRetries
            BY <1>1, <2>1, <3>1 DEF Owed
        <3> QED BY <1>5, <2>1, <3>1, <3>2, <3>3
    <2> QED BY <2>2, <2>3
<1>12. ASSUME NEW q \in Searches, NEW r \in Sources, NEW x, EndTask(q, r, x) PROVE AddsNothing(s)
    <2>1. last'[s] = last[s] /\ sent'[s] = sent[s] /\ Alone(q)
        BY <1>1, <1>12 DEF EndTask
    <2>2. CASE r = s
        BY <1>1, <1>7, <1>12, <2>1, <2>2 DEF EndTask
    <2>3. CASE r # s
        BY <1>1, <1>6, <1>12, <2>1, <2>3 DEF EndTask
    <2> QED BY <2>2, <2>3
<1>13. ASSUME NEW q \in Searches, NEW r \in Sources, Refuse(q, r) PROVE AddsNothing(s)
    <2>1. last'[s] = last[s] /\ sent'[s] = sent[s] /\ Alone(q)
        BY <1>1, <1>13 DEF Refuse
    <2>2. CASE r = s
        <3>1. /\ stage[<<q, s>>] = "call" /\ stage'[<<q, s>>] = "backoff"
              /\ tries'[<<q, s>>] = tries[<<q, s>>] + 1
            BY <1>1, <1>13, <2>2 DEF Refuse
        <3>2. Owed(q, s)' = Owed(q, s) /\ sent[s] \in Nat
            BY <1>1, <3>1 DEF Owed
        <3> QED BY <1>2, <1>4, <2>1, <3>2
    <2>3. CASE r # s
        BY <1>1, <1>6, <1>13, <2>1, <2>3 DEF Refuse
    <2> QED BY <2>2, <2>3
<1>14. ASSUME NEW q \in Searches, NEW r \in Sources, Retry(q, r) PROVE AddsNothing(s)
    <2>1. last' = last /\ tries' = tries /\ Alone(q)
        BY <1>1, <1>14 DEF Retry
    <2>2. CASE r = s
        <3>1. /\ stage[<<q, s>>] = "backoff" /\ stage'[<<q, s>>] = "call"
              /\ sent'[s] = sent[s] + 1
            BY <1>1, <1>14, <2>2 DEF Retry
        <3>2. Owed(q, s)' = Owed(q, s) - 1 /\ sent[s] \in Nat
            BY <1>1, <2>1, <3>1 DEF Owed
        <3> QED BY <1>2, <1>4, <2>1, <3>1, <3>2
    <2>3. CASE r # s
        BY <1>1, <1>6, <1>14, <2>1, <2>3 DEF Retry
    <2> QED BY <2>2, <2>3
<1>15. ASSUME NEW q \in Searches, NEW o, Drop(q, o) PROVE AddsNothing(s)
    <2>1. /\ last'[s] = last[s] /\ sent'[s] = sent[s] /\ Alone(q)
          /\ stage'[<<q, s>>] = "waiting"
        BY <1>1, <1>15 DEF Drop, Reset
    <2> QED BY <1>7, <2>1
<1>16. ASSUME NEW q \in Searches, Begin(q) PROVE AddsNothing(s)
    BY <1>8, <1>16 DEF Begin
<1>17. CASE Tick \/ AtEnd \/ UNCHANGED vars \/ \E k \in Keys : Evict(k)
    BY <1>8, <1>17 DEF Tick, AtEnd, vars, Evict
<1> QED
    BY <1>9, <1>10, <1>11, <1>12, <1>13, <1>14, <1>15, <1>16, <1>17
    DEF Next, Proceed, Respond, TimedOut, Finish, Cancel

(* What a pass does to the bound: both sides grow by one request and its   *)
(* retries for an interval.                                                *)
LEMMA RateAlgebra ==
    ASSUME NEW t \in Nat, NEW u \in Nat, NEW i \in Nat, NEW m \in Nat, NEW l \in Nat, NEW n \in Nat
    PROVE  /\ u <= t => u * i <= t * i
           /\ l <= n => m * (l + i) <= m * (n + i)
           /\ t * i <= m * (l + i) /\ l + i <= n /\ u <= t + m => u * i <= m * (n + i)
           /\ t <= m => t * i <= m * (n + i)
<1>1. u <= t => u * i <= t * i
    OBVIOUS
<1>2. \A a, b \in Nat : a <= b => m * a <= m * b
    OBVIOUS
<1>3. l <= n => m * (l + i) <= m * (n + i)
    BY <1>2
<1>4. ASSUME t * i <= m * (l + i), l + i <= n, u <= t + m PROVE u * i <= m * (n + i)
    <2>1. u * i <= (t + m) * i /\ (t + m) * i = t * i + m * i
        BY <1>4
    <2>2. m * (n + i) = m * n + m * i /\ m * (l + i) <= m * n
        BY <1>2, <1>4
    <2>3. u * i \in Nat /\ t * i \in Nat /\ m * i \in Nat /\ m * n \in Nat /\ m * (l + i) \in Nat
        OBVIOUS
    <2> QED BY <1>4, <2>1, <2>2, <2>3
<1>5. ASSUME t <= m PROVE t * i <= m * (n + i)
    <2>1. t * i <= m * i /\ m * i <= m * (n + i) /\ t * i \in Nat /\ m * i \in Nat /\ m * (n + i) \in Nat
        BY <1>2, <1>5
    <2> QED BY <2>1
<1> QED BY <1>1, <1>3, <1>4, <1>5

(* The inductive step.                                                     *)
LEMMA RateStep == RateInv /\ [Next]_vars => RateInv'
<1> SUFFICES ASSUME RateInv, [Next]_vars PROVE RateInv'
    OBVIOUS
<1>1. LimiterInv' /\ RateType' /\ LimiterInv /\ RateType
    BY LimiterStep, RateTypeStep DEF RateInv
<1>2. ASSUME NEW s \in Sources, Interval[s] > 0 PROVE WithinRate(s)'
    <2> DEFINE t == Total(s)
               u == Total(s)'
               i == Interval[s]
               m == MaxRetries + 1
    <2>1. /\ i \in Nat /\ m \in Nat /\ now \in Nat /\ None \notin Nat
          /\ last[s] \in Nat \cup {None} /\ last'[s] \in Nat \cup {None}
        BY <1>1, EngineAssumption DEF LimiterInv, LimiterType
    <2>2. t \in Nat
        BY <1>1, OwedIsNat DEF OwedNat
    <2>3. u \in Nat
        <3>1. OwedNat'
            BY <1>1, OwedIsNat, PTL
        <3> QED BY <3>1 DEF OwedNat
    <2>4. IF last[s] = None THEN t = 0 ELSE t * i <= m * (last[s] + i)
        BY <1>2 DEF RateInv, WithinRate
    <2>5. Passes(s) \/ AddsNothing(s)
        BY <1>1, <1>2, RateSource
    <2>6. SUFFICES IF last'[s] = None THEN u = 0 ELSE u * i <= m * (last'[s] + i)
        BY DEF WithinRate
    <2>7. CASE AddsNothing(s)
        <3>1. last'[s] = last[s] /\ u <= t
            BY <2>7 DEF AddsNothing
        <3> HIDE DEF t, u, i, m
        <3>2. u * i <= t * i /\ u * i \in Nat /\ t * i \in Nat
            BY <2>1, <2>2, <2>3, <3>1, RateAlgebra
        <3>3. CASE last[s] = None
            BY <2>2, <2>3, <2>4, <3>1, <3>3
        <3>4. CASE last[s] # None
            <4>1. m * (last[s] + i) \in Nat
                BY <2>1, <3>4
            <4> QED BY <2>1, <2>4, <3>1, <3>2, <3>4, <4>1
        <3> QED BY <3>3, <3>4
    <2>8. CASE Passes(s)
        <3>1. /\ last'[s] = now /\ u <= t + m
              /\ last[s] # None => last[s] + i <= now
            BY <2>2, <2>3, <2>8, EngineAssumption DEF Passes
        <3> HIDE DEF t, u, i, m
        <3>2. CASE last[s] = None
            <4>1. u <= m
                BY <2>1, <2>3, <2>4, <3>1, <3>2
            <4>2. u * i <= m * (now + i)
                BY <2>1, <2>3, <4>1, RateAlgebra
            <4> QED BY <2>1, <3>1, <4>2
        <3>3. CASE last[s] # None
            <4>1. u * i <= m * (now + i)
                BY <2>1, <2>2, <2>3, <2>4, <3>1, <3>3, RateAlgebra
            <4> QED BY <2>1, <3>1, <4>1
        <3> QED BY <3>2, <3>3
    <2> QED BY <2>5, <2>7, <2>8
<1> QED BY <1>1, <1>2 DEF RateInv

(* Over any number of searches, cancelled ones included, a source with a   *)
(* limiter gets at most one request and its retries per interval, although *)
(* retries do not go through the limiter (arxiv.rs, fetch; ratelimit.rs,   *)
(* acquire).                                                               *)
THEOREM RateIsBounded == Spec => []RateBounded
<1>1. Init => RateInv
    <2> SUFFICES ASSUME Init PROVE RateInv
        OBVIOUS
    <2>1. LimiterInv /\ RateType
        BY LimiterInit, EngineAssumption DEF Init, RateType, Tasks, Stages
    <2>2. ASSUME NEW s \in Sources PROVE WithinRate(s)
        <3> DEFINE w == [q \in Searches |-> Owed(q, s)]
                   z == [q \in Searches |-> 0]
        <3>1. \A q \in Searches : w[q] = z[q]
            BY DEF Init, Owed, Tasks
        <3>2. last[s] = None /\ sent[s] = 0 /\ Total(s) = sent[s] + SumOf(w, Searches)
            BY DEF Init, Total
        <3>3. \A T \in SUBSET Searches : IsFiniteSet(T)
            BY SizeAssumption, FS_Subset
        <3>4. SumOf(z, Searches) = 0
            <4> DEFINE P == {T \in SUBSET Searches : SumOf(z, T) = 0}
            <4>1. ASSUME NEW T \in SUBSET Searches, \A U \in SUBSET T : U # T => U \in P PROVE T \in P
                <5>1. IsFiniteSet(T) /\ \A q \in T : z[q] = 0 /\ z[q] \in Int
                    BY <3>3
                <5> HIDE DEF z
                <5>2. SumOf(z, {}) = 0 /\ \A q \in T : SumOf(z, T) = z[q] + SumOf(z, T \ {q})
                    <6>1. \A q \in T : z[q] \in Int
                        BY <5>1
                    <6> QED BY <5>1, <6>1, SumRules
                <5>3. CASE T = {}
                    BY <5>2, <5>3
                <5>4. CASE T # {}
                    <6>1. PICK q \in T : TRUE
                        BY <5>4
                    <6>2. SumOf(z, T \ {q}) = 0
                        BY <4>1
                    <6> QED BY <5>1, <5>2, <6>1, <6>2
                <5> QED BY <5>3, <5>4
            <4> HIDE DEF P
            <4>2. \A T \in SUBSET Searches : T \in P
                BY <4>1, SizeAssumption, SubsetInduction
            <4> QED BY <4>2 DEF P
        <3> HIDE DEF w, z
        <3>5. SumOf(w, Searches) = SumOf(z, Searches)
            BY <3>1, SizeAssumption, SumSame
        <3> QED BY <3>2, <3>4, <3>5 DEF WithinRate
    <2> QED BY <2>1, <2>2 DEF RateInv
<1>2. RateInv => RateBounded
    <2> SUFFICES ASSUME RateInv, NEW s \in Sources
                 PROVE  sent[s] * Interval[s] <= (MaxRetries + 1) * (now + Interval[s])
        BY DEF RateBounded
    <2>0. RateType
        BY DEF RateInv
    <2> DEFINE t == Total(s)
               i == Interval[s]
               m == MaxRetries + 1
    <2>1. /\ i \in Nat /\ m \in Nat /\ now \in Nat /\ last[s] \in Nat \cup {None}
          /\ last[s] # None => last[s] <= now
        BY EngineAssumption DEF RateInv, LimiterInv, LimiterType
    <2>2. t \in Nat /\ sent[s] \in Nat /\ sent[s] <= t
        BY <2>0, OwedIsNat DEF OwedNat
    <2>3. i > 0 => IF last[s] = None THEN t = 0 ELSE t * i <= m * (last[s] + i)
        BY DEF RateInv, WithinRate
    <2> SUFFICES sent[s] * i <= m * (now + i)
        OBVIOUS
    <2> HIDE DEF t, i, m
    <2>4. m * (now + i) \in Nat /\ sent[s] * i \in Nat
        BY <2>1, <2>2
    <2>5. CASE i = 0
        BY <2>1, <2>2, <2>4, <2>5
    <2>6. CASE i > 0 /\ last[s] = None
        <3>1. sent[s] = 0
            BY <2>2, <2>3, <2>6
        <3> QED BY <2>1, <2>4, <3>1
    <2>7. CASE i > 0 /\ last[s] # None
        <3>1. sent[s] * i <= t * i /\ m * (last[s] + i) <= m * (now + i) /\ t * i \in Nat
              /\ m * (last[s] + i) \in Nat
            BY <2>1, <2>2, <2>7, RateAlgebra
        <3> QED BY <2>3, <2>4, <2>7, <3>1
    <2> QED BY <2>1, <2>5, <2>6, <2>7
<1> QED BY <1>1, <1>2, RateStep, PTL DEF Spec
=============================================================================
