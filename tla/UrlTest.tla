------------------------------ MODULE UrlTest ------------------------------
(***************************************************************************)
(* urltest.ts: a list of servers probed by a pool of workers that share    *)
(* one counter, each probe a race between a fetch, a timer that aborts it  *)
(* and a later timer for fetches that cannot be aborted.                   *)
(*                                                                         *)
(* JS runs one worker at a time: from one await to the next is one step.   *)
(* Time is counted in ticks from the start of the test, and a timer that   *)
(* is due fires before the next tick.  A fetch settles when it likes, or   *)
(* never.                                                                  *)
(***************************************************************************)
EXTENDS Naturals, Sequences, FiniteSets

CONSTANTS Concurrency,          (* simultaneous probes                           *)
          TimeoutMs, Backstop,  (* of a probe, and of one that ignores it: ticks *)
          Null                  (* unreachable                                   *)

ASSUME UrlTestAssumption ==
    /\ Concurrency \in Nat \ {0}
    /\ TimeoutMs \in Nat /\ Backstop \in Nat /\ TimeoutMs < Backstop
    /\ Null \notin Nat

VARIABLES
    testing,    \* a test runs
    targets,    \* the servers it tests
    next,       \* the first of them nobody has taken
    worker,     \* the one each worker probes, or 0
    aborted,    \* whether its fetch was told to give up
    probed,     \* when the probe of each began, and when it ended
    latencyMs,  \* the results
    now

poolVars == <<testing, targets, next, worker, aborted, probed, latencyMs>>
testVars == <<poolVars, now>>

Worker == 1..Concurrency
Size   == Len(targets)
Index  == 1..Size

TestInit ==
    /\ testing = FALSE /\ targets = <<>> /\ next = 1
    /\ worker = [w \in Worker |-> 0] /\ aborted = [w \in Worker |-> FALSE]
    /\ probed = <<>> /\ latencyMs = <<>> /\ now = 0

\* Each worker runs up to its first await as it is made.
BeginTest(list) ==
    /\ ~testing
    /\ testing' = (list # <<>>) /\ targets' = list
    /\ next' = (IF Len(list) < Concurrency THEN Len(list) ELSE Concurrency) + 1
    /\ worker' = [w \in Worker |-> IF w <= Len(list) THEN w ELSE 0]
    /\ aborted' = [w \in Worker |-> FALSE]
    /\ probed' = [i \in 1..Len(list) |-> [from |-> 0, to |-> 0]]
    /\ latencyMs' = [i \in 1..Len(list) |-> Null]
    /\ now' = 0

Probing(w) == worker[w] # 0
Elapsed(w) == now - probed[worker[w]].from

\* A faulty variant: the counter moves on at the end of a probe, not at its start.
TakeNextLate(w) ==
    IF next <= Size
    THEN /\ worker' = [worker EXCEPT ![w] = next]
         /\ next' = IF \E v \in Worker \ {w} : worker[v] = next THEN next + 1 ELSE next
         /\ aborted' = [aborted EXCEPT ![w] = FALSE]
         /\ probed' = [probed EXCEPT ![worker[w]].to = now, ![next].from = now]
    ELSE /\ worker' = [worker EXCEPT ![w] = 0] /\ probed' = [probed EXCEPT ![worker[w]].to = now]
         /\ UNCHANGED <<next, aborted>>

TakeNext(w) ==
    IF next <= Size
    THEN /\ worker' = [worker EXCEPT ![w] = next]
         /\ next' = next + 1
         /\ aborted' = [aborted EXCEPT ![w] = FALSE]
         /\ probed' = [probed EXCEPT ![worker[w]].to = now, ![next].from = now]
    ELSE /\ worker' = [worker EXCEPT ![w] = 0] /\ probed' = [probed EXCEPT ![worker[w]].to = now]
         /\ UNCHANGED <<next, aborted>>

\* A probe has ended; its worker goes on to the next, and the last one ends the test.
Measured(w, latency) ==
    /\ Probing(w)
    /\ latencyMs' = [latencyMs EXCEPT ![worker[w]] = latency]
    /\ TakeNext(w)
    /\ testing' = \E v \in Worker : worker'[v] # 0
    /\ UNCHANGED <<targets, now>>

\* The host answers, however late.
Responds(w) == Measured(w, Elapsed(w))

\* A faulty variant: whatever is not an answer counts as unreachable.
FailureIsNull(w) == Null

\* An error before the deadline is an answer too.
Failure(w) == IF aborted[w] \/ Elapsed(w) >= TimeoutMs THEN Null ELSE Elapsed(w)

Fails(w) == Measured(w, Failure(w))

Abort(w) == /\ Probing(w) /\ ~aborted[w] /\ Elapsed(w) >= TimeoutMs
            /\ aborted' = [aborted EXCEPT ![w] = TRUE]
            /\ UNCHANGED <<testing, targets, next, worker, probed, latencyMs, now>>

\* A faulty variant: the slot of a fetch that ignores its abort is not released.
BackstopNever(w) == FALSE /\ Measured(w, Null)

BackstopFires(w) == Probing(w) /\ Elapsed(w) >= Backstop /\ Measured(w, Null)

Due(w) == Probing(w) /\ (Elapsed(w) >= Backstop \/ (Elapsed(w) >= TimeoutMs /\ ~aborted[w]))

\* A faulty variant: time passes over a timer that is due.
TickLate == /\ testing /\ now' = now + 1 /\ UNCHANGED poolVars

Tick == /\ testing /\ \A w \in Worker : ~Due(w)
        /\ now' = now + 1 /\ UNCHANGED poolVars

\* A faulty variant: an unreachable server is compared as if it had answered at once.
FasterNullFirst(a, b) ==
    LET ms(i) == IF latencyMs[i] = Null THEN 0 ELSE latencyMs[i]
    IN  ms(a) < ms(b) \/ (ms(a) = ms(b) /\ a < b)

\* The comparison of the sort, on indices of the results.
Faster(a, b) ==
    IF latencyMs[a] = Null \/ latencyMs[b] = Null
    THEN latencyMs[b] = Null /\ (latencyMs[a] # Null \/ a < b)
    ELSE latencyMs[a] < latencyMs[b] \/ (latencyMs[a] = latencyMs[b] /\ a < b)

\* The order in which the results are returned: those before the k-th are faster, the others not.
Ranking == [k \in Index |->
               CHOOSE i \in Index : Cardinality({j \in Index : Faster(j, i)}) = k - 1]
-----------------------------------------------------------------------------
\* Each server is probed once: it is behind the counter, with one worker, or has its result.
ProbedOnce ==
    /\ \A v, w \in Worker : Probing(v) /\ worker[v] = worker[w] => v = w
    /\ \A w \in Worker : worker[w] < next
    /\ ~testing => next = Size + 1 /\ \A w \in Worker : ~Probing(w)

\* Once a server's probe is over, its latency is the time that very probe took; it is called
\* unreachable after the whole timeout only.
LatencyIsOwn ==
    \A i \in Index : i < next /\ (\A w \in Worker : worker[w] # i) =>
        LET took == probed[i].to - probed[i].from
        IN  IF latencyMs[i] = Null THEN took >= TimeoutMs ELSE latencyMs[i] = took

\* Whatever the fetches do, the test is over when as many probes as it takes have timed out.
TestInTime == testing => now * Concurrency <= Backstop * (Size + Concurrency - 1)
=============================================================================
