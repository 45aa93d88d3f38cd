-------------------------- MODULE ServerListProofs --------------------------
(***************************************************************************)
(* The pool of urlTest, for any number of workers and servers; the         *)
(* references of a configuration, for any server and tags; and what a      *)
(* configuration dials, for any link written by the conventions of its     *)
(* scheme.                                                                 *)
(***************************************************************************)
EXTENDS ServerList, LinkFormats, TLAPS, FiniteSetTheorems, FunctionTheorems, SequenceTheorems

\* What a worker probes and what is left are places of the list.
PoolInv ==
    /\ testing \in BOOLEAN /\ Size \in Nat /\ next \in 1..(Size + 1) /\ now \in Nat
    /\ worker \in [Worker -> 0..Size] /\ aborted \in [Worker -> BOOLEAN]
    /\ probed \in [Index -> [from : Nat, to : Nat]] /\ latencyMs \in [Index -> Nat \cup {Null}]

\* A probe began in the past, and was aborted no sooner than its timeout.
ClockInv ==
    \A w \in Worker : Probing(w) =>
        /\ probed[worker[w]].from <= now
        /\ aborted[w] => Elapsed(w) >= TimeoutMs

TestInv == PoolInv /\ ClockInv /\ ProbedOnce /\ LatencyIsOwn

IsList(x) == x \in Seq({x[i] : i \in DOMAIN x})

\* What is shown is a list, and what is sent a document.
Sent == Document \cup {Nothing}
ScreenInv == IsList(servers) /\ site \in Document /\ sent \in [Load -> Sent]

Inv == TestInv /\ ScreenInv
-----------------------------------------------------------------------------
LEMMA WorkerType == Worker \subseteq Nat \ {0}
BY UrlTestAssumption DEF Worker

LEMMA Listed ==
    /\ IsList(<<>>)
    /\ \A x : IsList(x) => Len(x) \in Nat /\ (x # <<>> => Len(x) > 0)
    /\ \A x : \A n \in Nat : DOMAIN x = 1..n /\ x = [i \in 1..n |-> x[i]] => IsList(x) /\ Len(x) = n
<1>1. IsList(<<>>)
  BY EmptySeq DEF IsList
<1>2. ASSUME NEW x, IsList(x) PROVE Len(x) \in Nat /\ (x # <<>> => Len(x) > 0)
  BY <1>2, LenProperties, EmptySeq DEF IsList
<1>3. ASSUME NEW n \in Nat, NEW x, DOMAIN x = 1..n, x = [i \in 1..n |-> x[i]]
      PROVE  IsList(x) /\ Len(x) = n
  <2> DEFINE S == {x[i] : i \in DOMAIN x}
  <2>1. x \in [1..n -> S]
    BY <1>3
  <2>2. x \in Seq(S)
    <3> HIDE DEF S
    <3> QED BY <2>1, SeqDef
  <2> QED
    BY <1>3, <2>2, LenProperties DEF IsList
<1> QED
  BY <1>1, <1>2, <1>3

-----------------------------------------------------------------------------
(* What is put in order.                                                   *)

StrictOrder(S, before) ==
    /\ before \in [S -> SUBSET S]
    /\ \A i \in S : i \notin before[i]
    /\ \A i, j \in S : i \in before[j] => before[i] \subseteq before[j]
    /\ \A i, j \in S : i = j \/ i \in before[j] \/ j \in before[i]

\* A strict order of a finite set gives each of its elements a place of its own, which is one
\* more than the number of those before it, and leaves no place empty.
LEMMA Places ==
    ASSUME NEW S, IsFiniteSet(S), NEW before, StrictOrder(S, before)
    PROVE  /\ \A i \in S : Cardinality(before[i]) \in 0..(Cardinality(S) - 1)
           /\ \A i, j \in S : i \in before[j] => Cardinality(before[i]) < Cardinality(before[j])
           /\ \A k \in 1..Cardinality(S) : \E i \in S : Cardinality(before[i]) = k - 1
<1> USE DEF StrictOrder
<1>1. Cardinality(S) \in Nat
  BY FS_CardinalityType
<1>2. \A i \in S : IsFiniteSet(before[i]) /\ Cardinality(before[i]) \in Nat
  BY FS_Subset, FS_CardinalityType
<1>3. ASSUME NEW i \in S PROVE Cardinality(before[i]) < Cardinality(S)
  BY <1>1, <1>2, FS_Subset
<1>4. ASSUME NEW i \in S, NEW j \in S, i \in before[j]
      PROVE  Cardinality(before[i]) < Cardinality(before[j])
  <2>1. before[i] \in SUBSET before[j] /\ before[i] # before[j]
    BY <1>4
  <2> QED
    BY <1>2, <2>1, FS_Subset
<1>5. ASSUME NEW k \in 1..Cardinality(S) PROVE \E i \in S : Cardinality(before[i]) = k - 1
  <2> DEFINE all == 0..(Cardinality(S) - 1)
  <2>1. IsFiniteSet(all) /\ Cardinality(all) = Cardinality(S)
    <3>1. 0 \in Int /\ Cardinality(S) - 1 \in Int
      BY <1>1
    <3> QED
      BY <1>1, <3>1, FS_Interval
  <2>2. PICK place : place = [i \in S |-> Cardinality(before[i])]
    OBVIOUS
  <2>3. place \in [S -> all]
    BY <1>1, <1>2, <1>3, <2>2
  <2>4. \A i, j \in S : place[i] = place[j] => i = j
    <3>1. \A i \in S : place[i] = Cardinality(before[i])
      BY <2>2
    <3> QED
      BY <1>2, <1>4, <3>1
  <2>5. place \in Surjection(S, all)
    <3> HIDE DEF all
    <3>1. place \in Injection(S, all)
      BY <2>3, <2>4, Fun_IsInj
    <3> QED
      BY <2>1, <3>1, FS_Injection
  <2>6. k - 1 \in all
    BY <1>1
  <2>7. PICK i \in S : place[i] = k - 1
    <3> HIDE DEF all
    <3> QED
      BY <2>5, <2>6, Fun_SurjectionProperties
  <2> QED
    BY <2>2, <2>7
<1> QED
  BY <1>1, <1>2, <1>3, <1>4, <1>5

LEMMA OneToOne ==
    ASSUME NEW S, NEW T, NEW f \in [S -> T],
           \A i, j \in S : f[i] = f[j] => i = j, \A t \in T : \E i \in S : f[i] = t
    PROVE  f \in Bijection(S, T)
<1>1. f \in Injection(S, T)
  BY Fun_IsInj
<1>2. f \in Surjection(S, T)
  BY Fun_IsSurj
<1> QED
  BY <1>1, <1>2, Fun_IsBij

\* To list them by place is to list each of them once, those before another before it.
LEMMA Ordered ==
    ASSUME NEW S, IsFiniteSet(S), NEW before, StrictOrder(S, before),
           NEW D, D = 1..Cardinality(S),
           NEW order, order = [k \in D |-> order[k]],
           \A k \in D : order[k] = CHOOSE i \in S : Cardinality(before[i]) = k - 1
    PROVE  /\ order \in Bijection(D, S)
           /\ \A k, l \in D : k < l => order[k] \in before[order[l]]
<1>1. Cardinality(S) \in Nat
  BY FS_CardinalityType
<1>2. /\ \A i \in S : Cardinality(before[i]) \in 0..(Cardinality(S) - 1)
      /\ \A i, j \in S : i \in before[j] => Cardinality(before[i]) < Cardinality(before[j])
      /\ \A k \in 1..Cardinality(S) : \E i \in S : Cardinality(before[i]) = k - 1
  BY Places
<1>3. \A i, j \in S : i = j \/ i \in before[j] \/ j \in before[i]
  BY DEF StrictOrder
<1>4. ASSUME NEW k \in D
      PROVE  order[k] \in S /\ Cardinality(before[order[k]]) = k - 1
  <2>1. order[k] = CHOOSE i \in S : Cardinality(before[i]) = k - 1
    OBVIOUS
  <2> QED
    BY <1>2, <2>1
<1>5. order \in [D -> S]
  BY <1>4
<1>6. \A k, l \in D : order[k] = order[l] => k = l
  <2> SUFFICES ASSUME NEW k \in D, NEW l \in D, order[k] = order[l]
               PROVE  k = l
    OBVIOUS
  <2>1. k - 1 = l - 1
    BY <1>4
  <2> QED
    BY <1>1, <2>1
<1>7. \A i \in S : \E k \in D : order[k] = i
  <2> SUFFICES ASSUME NEW i \in S PROVE \E k \in D : order[k] = i
    OBVIOUS
  <2>1. PICK k \in D : k - 1 = Cardinality(before[i])
    <3>1. Cardinality(before[i]) + 1 \in 1..Cardinality(S)
      BY <1>1, <1>2
    <3> QED
      BY <1>1, <1>2, <3>1
  <2>2. order[k] \in S /\ Cardinality(before[order[k]]) = Cardinality(before[i])
    BY <1>4, <2>1
  <2>3. ~(Cardinality(before[order[k]]) < Cardinality(before[i]))
        /\ ~(Cardinality(before[i]) < Cardinality(before[order[k]]))
    BY <1>2, <2>2
  <2> QED
    BY <1>2, <1>3, <2>2, <2>3
<1>8. ASSUME NEW k \in D, NEW l \in D, k < l
      PROVE  order[k] \in before[order[l]]
  <2>1. /\ order[k] \in S /\ Cardinality(before[order[k]]) = k - 1
        /\ order[l] \in S /\ Cardinality(before[order[l]]) = l - 1
    BY <1>4
  <2>2. ~(l - 1 < k - 1) /\ order[k] # order[l]
    BY <1>1, <1>6, <1>8
  <2> QED
    BY <1>2, <1>3, <2>1, <2>2
<1>9. order \in Bijection(D, S)
  BY <1>5, <1>6, <1>7, OneToOne
<1> QED
  BY <1>8, <1>9

\* The lines of a document that are usable links.
Lines(payload) == {i \in DOMAIN payload : IsServer(parseShareLink(payload[i]))}

LEMMA RawKept ==
    ASSUME NEW link, IsServer(parseShareLink(link))
    PROVE  parseShareLink(link).raw = link
<1>1. ASSUME NEW a, NEW b, "raw" \in DOMAIN a, a.raw = link PROVE Spread(a, b).raw = link
  BY <1>1 DEF Spread
<1>2. ASSUME NEW secret, NEW default, IsServer(parseAuthority(link, secret, default))
      PROVE  parseAuthority(link, secret, default).raw = link
  BY <1>1, <1>2 DEF parseAuthority, IsServer
<1>3. IsServer(parseVmess(link)) => parseVmess(link).raw = link
  BY <1>1 DEF parseVmess, IsServer
<1>4. IsServer(parseShadowsocks(link)) => parseShadowsocks(link).raw = link
  BY DEF parseShadowsocks, IsServer
<1> QED
  BY <1>2, <1>3, <1>4 DEF parseShareLink, parseVless, parseTrojan, IsServer

\* Each usable line of a document is one server of its list, in the order of the lines.
LEMMA Parsed ==
    ASSUME NEW payload, IsList(payload)
    PROVE  LET list == parseSubscription(payload)
           IN  /\ IsList(list) /\ IsFiniteSet(DOMAIN payload)
               /\ \E line \in Bijection(DOMAIN list, Lines(payload)) :
                     \A k \in DOMAIN list : list[k] = parseShareLink(payload[line[k]])
<1> DEFINE list == parseSubscription(payload)
<1>1. PICK S, n : S = Lines(payload) /\ n = Cardinality(S)
  OBVIOUS
<1>2. Len(payload) \in Nat /\ DOMAIN payload = 1..Len(payload)
  BY LenProperties DEF IsList
<1>3. S \in SUBSET Nat /\ IsFiniteSet(S) /\ n \in Nat /\ IsFiniteSet(DOMAIN payload)
  <2>1. IsFiniteSet(DOMAIN payload)
    <3>1. 1 \in Int /\ Len(payload) \in Int
      BY <1>2
    <3> QED
      BY <1>2, <3>1, FS_Interval
  <2>2. S \in SUBSET DOMAIN payload /\ S \in SUBSET Nat
    BY <1>1, <1>2 DEF Lines
  <2> QED
    BY <1>1, <2>1, <2>2, FS_Subset, FS_CardinalityType
<1>4. PICK before : before = [i \in S |-> {j \in S : j < i}]
  OBVIOUS
<1>5. StrictOrder(S, before)
  <2>1. before \in [S -> SUBSET S]
    BY <1>4
  <2>2. \A i, j \in S : i \in before[j] <=> i < j
    BY <1>4
  <2>3. \A i \in S : i \in Nat
    BY <1>3
  <2>4. \A i, j \in S : i \in before[j] => before[i] \subseteq before[j]
    <3> SUFFICES ASSUME NEW i \in S, NEW j \in S, i \in before[j], NEW h \in before[i]
                 PROVE  h \in before[j]
      OBVIOUS
    <3>1. h \in S
      BY <2>1
    <3>2. h < i /\ i < j
      BY <2>2, <3>1
    <3> QED
      BY <2>2, <2>3, <3>1, <3>2
  <2> QED
    BY <2>1, <2>2, <2>3, <2>4 DEF StrictOrder
<1>6. PICK line : line = [k \in 1..n |-> CHOOSE i \in S : Cardinality(before[i]) = k - 1]
  OBVIOUS
<1>7. line \in Bijection(1..n, S)
  BY <1>1, <1>3, <1>5, <1>6, Ordered
<1>8. list = [k \in 1..n |-> parseShareLink(payload[line[k]])]
  <2>1. \A k \in 1..n : line[k] = CHOOSE i \in S : Cardinality({j \in S : j < i}) = k - 1
    BY <1>1, <1>4, <1>6
  <2>2. S = {i \in DOMAIN payload : IsServer(parseShareLink(payload[i]))}
    BY <1>1 DEF Lines
  <2>3. list = [k \in 1..Cardinality(S) |->
                  parseShareLink(payload[CHOOSE i \in S : Cardinality({j \in S : j < i}) = k - 1])]
    BY <2>2 DEF parseSubscription
  <2>4. \A k \in 1..n : parseShareLink(payload[CHOOSE i \in S : Cardinality({j \in S : j < i}) = k - 1])
                         = parseShareLink(payload[line[k]])
    BY <2>1
  <2> HIDE DEF list
  <2> QED
    BY <1>1, <2>3, <2>4, Zenon
<1>9. DOMAIN list = 1..n /\ \A k \in 1..n : list[k] = parseShareLink(payload[line[k]])
  BY <1>8
<1>10. IsList(list)
  <2>1. list = [k \in 1..n |-> list[k]]
    BY <1>8
  <2> HIDE DEF list
  <2> QED
    BY <1>3, <1>9, <2>1, Listed
<1> QED
  BY <1>1, <1>3, <1>7, <1>9, <1>10

LEMMA Documents ==
    ASSUME NEW document \in Sent
    PROVE  IsList(document.payload) /\ (document.payload \in Payloads \/ DOMAIN document.payload = {})
<1>1. CASE document \in Document
  BY <1>1, ServerListAssumption DEF Document, IsList
<1>2. CASE document = Nothing
  <2>1. document.payload = <<>> /\ DOMAIN <<>> = {}
    BY <1>2 DEF Nothing
  <2> QED
    BY <2>1, Listed
<1> QED
  BY <1>1, <1>2 DEF Sent

LEMMA InitInv == Init => Inv
<1> SUFFICES ASSUME Init PROVE Inv
  OBVIOUS
<1>1. Size = 0 /\ Index = {}
  BY DEF Init, TestInit, Size, Index
<1>2. PoolInv
  <2>1. \A S : <<>> \in [1..Len(<<>>) -> S]
    BY EmptySeq, LenProperties
  <2>2. probed \in [Index -> [from : Nat, to : Nat]] /\ latencyMs \in [Index -> Nat \cup {Null}]
    BY <2>1 DEF Init, TestInit, Index, Size
  <2>3. worker \in [Worker -> 0..Size] /\ aborted \in [Worker -> BOOLEAN]
    BY <1>1 DEF Init, TestInit
  <2>4. testing \in BOOLEAN /\ next = 1 /\ now = 0
    BY DEF Init, TestInit
  <2> QED
    BY <1>1, <2>2, <2>3, <2>4 DEF PoolInv
<1>3. ClockInv /\ ProbedOnce /\ LatencyIsOwn
  BY <1>1 DEF Init, TestInit, ClockInv, ProbedOnce, LatencyIsOwn, Probing
<1>4. ScreenInv
  BY Listed DEF Init, ScreenInv, Sent
<1> QED
  BY <1>2, <1>3, <1>4 DEF Inv, TestInv

LEMMA BeginTestInv ==
    ASSUME NEW list, Len(list) \in Nat, BeginTest(list)
    PROVE  TestInv'
<1>1. Size' = Len(list) /\ Index' = 1..Len(list)
  BY DEF BeginTest, Size, Index
<1>2. next' \in 1..(Len(list) + 1) /\ next' = (IF Len(list) < Concurrency THEN Len(list) ELSE Concurrency) + 1
  BY UrlTestAssumption DEF BeginTest
<1>3. worker' = [w \in Worker |-> IF w <= Len(list) THEN w ELSE 0]
  BY DEF BeginTest
<1>4. PoolInv'
  <2>1. worker' \in [Worker -> 0..Len(list)]
    BY <1>3, WorkerType
  <2> QED
    BY <1>1, <1>2, <2>1 DEF PoolInv, BeginTest
<1>5. ClockInv'
  BY <1>1, <1>3, WorkerType DEF BeginTest, ClockInv, Probing, Elapsed
<1>6. ProbedOnce'
  <2>1. \A v, w \in Worker : Probing(v)' /\ worker'[v] = worker'[w] => v = w
    BY <1>3, WorkerType DEF Probing
  <2>2. \A w \in Worker : worker'[w] < next'
    BY <1>2, <1>3, WorkerType, UrlTestAssumption DEF Worker
  <2>3. ~testing' => next' = Size' + 1 /\ \A w \in Worker : ~Probing(w)'
    <3>1. CASE list = <<>>
      <4>1. Len(list) = 0
        BY <3>1, EmptySeq
      <4> QED
        BY <1>1, <1>2, <1>3, <4>1, WorkerType, UrlTestAssumption DEF Probing
    <3> QED
      BY <3>1 DEF BeginTest
  <2> QED
    BY <2>1, <2>2, <2>3 DEF ProbedOnce
<1>7. LatencyIsOwn'
  <2>1. \A i \in Index' : i < next' => i \in Worker /\ worker'[i] = i
    BY <1>1, <1>2, <1>3, UrlTestAssumption DEF Worker
  <2> QED
    BY <2>1 DEF LatencyIsOwn
<1> QED
  BY <1>4, <1>5, <1>6, <1>7 DEF TestInv

\* The end of a probe, with its own latency or after its whole timeout.
LEMMA MeasuredInv ==
    ASSUME TestInv, NEW w \in Worker, NEW latency \in Nat \cup {Null}, Measured(w, latency),
           IF latency = Null THEN Elapsed(w) >= TimeoutMs ELSE latency = Elapsed(w)
    PROVE  TestInv'
<1> DEFINE mine == worker[w]
<1>1. /\ mine \in Index /\ mine < next /\ Size \in Nat /\ next \in 1..(Size + 1) /\ now \in Nat
      /\ Size' = Size /\ Index' = Index /\ now' = now
  BY DEF TestInv, PoolInv, ProbedOnce, Measured, Probing, Size, Index
<1>2. latencyMs' = [latencyMs EXCEPT ![mine] = latency]
  BY DEF Measured
<1>3. CASE next <= Size
  <2>1. /\ worker' = [worker EXCEPT ![w] = next] /\ next' = next + 1
        /\ aborted' = [aborted EXCEPT ![w] = FALSE]
        /\ probed' = [probed EXCEPT ![mine].to = now, ![next].from = now]
    BY <1>3 DEF Measured, TakeNext
  <2>2. next \in Index /\ next # mine
    BY <1>1, <1>3 DEF Index
  <2>3. /\ probed' \in [Index -> [from : Nat, to : Nat]]
        /\ probed'[mine].from = probed[mine].from /\ probed'[mine].to = now
        /\ probed'[next].from = now
        /\ \A i \in Index \ {mine, next} : probed'[i] = probed[i]
    BY <1>1, <2>1, <2>2 DEF TestInv, PoolInv
  <2>4. PoolInv'
    <3>1. worker' \in [Worker -> 0..Size] /\ aborted' \in [Worker -> BOOLEAN]
      BY <2>1, <2>2 DEF TestInv, PoolInv, Index
    <3>2. latencyMs' \in [Index -> Nat \cup {Null}]
      BY <1>2 DEF TestInv, PoolInv
    <3>3. testing' \in BOOLEAN /\ next' \in 1..(Size + 1)
      BY <1>1, <1>3, <2>1 DEF Measured
    <3> QED
      BY <1>1, <2>3, <3>1, <3>2, <3>3 DEF PoolInv
  <2>5. ProbedOnce'
    <3>1. \A v \in Worker : worker[v] < next /\ worker[v] \in 0..Size
      BY DEF TestInv, PoolInv, ProbedOnce
    <3>2. \A v \in Worker : worker'[v] = IF v = w THEN next ELSE worker[v]
      BY <2>1 DEF TestInv, PoolInv
    <3>3. testing'
      BY <1>1, <3>2 DEF Measured
    <3>4. \A v \in Worker : worker'[v] < next'
      BY <1>1, <2>1, <3>1, <3>2
    <3>5. \A u, v \in Worker : Probing(u)' /\ worker'[u] = worker'[v] => u = v
      BY <1>1, <3>1, <3>2 DEF TestInv, ProbedOnce, Probing
    <3> QED
      BY <3>3, <3>4, <3>5 DEF ProbedOnce
  <2>6. ClockInv'
    <3> SUFFICES ASSUME NEW v \in Worker, Probing(v)'
                 PROVE  /\ probed'[worker'[v]].from <= now'
                        /\ aborted'[v] => Elapsed(v)' >= TimeoutMs
      BY DEF ClockInv
    <3>1. CASE v = w
      BY <1>1, <2>1, <2>3, <3>1 DEF TestInv, PoolInv
    <3>2. CASE v # w
      <4>1. worker'[v] = worker[v] /\ aborted'[v] = aborted[v] /\ Probing(v)
        BY <2>1, <3>2 DEF TestInv, PoolInv, Probing
      <4>2. worker[v] \in Index /\ worker[v] # mine /\ worker[v] # next
        BY <3>2, <4>1, <1>1 DEF TestInv, PoolInv, ProbedOnce, Probing, Index
      <4>3. probed'[worker'[v]] = probed[worker[v]]
        BY <2>3, <4>1, <4>2
      <4> QED
        BY <1>1, <4>1, <4>3 DEF TestInv, ClockInv, Elapsed
    <3> QED
      BY <3>1, <3>2
  <2>7. LatencyIsOwn'
    <3> SUFFICES ASSUME NEW i \in Index, i < next', \A v \in Worker : worker'[v] # i
                 PROVE  LET took == probed'[i].to - probed'[i].from
                        IN  IF latencyMs'[i] = Null THEN took >= TimeoutMs ELSE latencyMs'[i] = took
      BY <1>1 DEF LatencyIsOwn
    <3>1. i # next /\ i < next
      BY <1>1, <2>1 DEF Index, TestInv, PoolInv
    <3>2. CASE i = mine
      BY <1>1, <1>2, <2>3, <3>2 DEF TestInv, PoolInv, Elapsed
    <3>3. CASE i # mine
      <4>1. \A v \in Worker : worker[v] # i
        BY <2>1, <3>3 DEF TestInv, PoolInv
      <4>2. probed'[i] = probed[i] /\ latencyMs'[i] = latencyMs[i]
        BY <1>2, <2>3, <3>1, <3>3 DEF TestInv, PoolInv
      <4> QED
        BY <3>1, <4>1, <4>2 DEF TestInv, LatencyIsOwn
    <3> QED
      BY <3>2, <3>3
  <2> QED
    BY <2>4, <2>5, <2>6, <2>7 DEF TestInv
<1>4. CASE ~(next <= Size)
  <2>1. /\ worker' = [worker EXCEPT ![w] = 0] /\ UNCHANGED <<next, aborted>>
        /\ probed' = [probed EXCEPT ![mine].to = now] /\ next = Size + 1
    BY <1>1, <1>4 DEF Measured, TakeNext
  <2>2. /\ probed' \in [Index -> [from : Nat, to : Nat]]
        /\ probed'[mine].from = probed[mine].from /\ probed'[mine].to = now
        /\ \A i \in Index \ {mine} : probed'[i] = probed[i]
    BY <1>1, <2>1 DEF TestInv, PoolInv
  <2>3. PoolInv'
    BY <1>1, <1>2, <2>1, <2>2 DEF TestInv, PoolInv, Measured
  <2>4. \A v \in Worker : worker'[v] = IF v = w THEN 0 ELSE worker[v]
    BY <2>1 DEF TestInv, PoolInv
  <2>5. ProbedOnce'
    <3>1. ~testing' => \A v \in Worker : worker'[v] = 0
      BY DEF Measured
    <3>2. \A u, v \in Worker : Probing(u)' /\ worker'[u] = worker'[v] => u = v
      BY <2>4 DEF TestInv, ProbedOnce, Probing
    <3>3. \A v \in Worker : worker'[v] < next'
      BY <1>1, <2>1, <2>4 DEF TestInv, ProbedOnce
    <3> QED
      BY <1>1, <2>1, <3>1, <3>2, <3>3 DEF ProbedOnce, Probing
  <2>6. ClockInv'
    <3> SUFFICES ASSUME NEW v \in Worker, Probing(v)'
                 PROVE  /\ probed'[worker'[v]].from <= now'
                        /\ aborted'[v] => Elapsed(v)' >= TimeoutMs
      BY DEF ClockInv
    <3>1. v # w /\ worker'[v] = worker[v] /\ aborted'[v] = aborted[v] /\ Probing(v)
      BY <2>1, <2>4 DEF Probing
    <3>2. worker[v] \in Index /\ worker[v] # mine
      BY <3>1, <1>1 DEF TestInv, PoolInv, ProbedOnce, Probing, Index
    <3>3. probed'[worker'[v]] = probed[worker[v]]
      BY <2>2, <3>1, <3>2
    <3> QED
      BY <1>1, <3>1, <3>3 DEF TestInv, ClockInv, Elapsed
  <2>7. LatencyIsOwn'
    <3> SUFFICES ASSUME NEW i \in Index, i < next', \A v \in Worker : worker'[v] # i
                 PROVE  LET took == probed'[i].to - probed'[i].from
                        IN  IF latencyMs'[i] = Null THEN took >= TimeoutMs ELSE latencyMs'[i] = took
      BY <1>1 DEF LatencyIsOwn
    <3>1. CASE i = mine
      BY <1>1, <1>2, <2>2, <3>1 DEF TestInv, PoolInv, Elapsed
    <3>2. CASE i # mine
      <4>1. \A v \in Worker : worker[v] # i
        BY <2>4, <3>2
      <4>2. probed'[i] = probed[i] /\ latencyMs'[i] = latencyMs[i]
        BY <1>2, <2>2, <3>2 DEF TestInv, PoolInv
      <4> QED
        BY <2>1, <4>1, <4>2 DEF TestInv, LatencyIsOwn
    <3> QED
      BY <3>1, <3>2
  <2> QED
    BY <2>3, <2>5, <2>6, <2>7 DEF TestInv
<1> QED
  BY <1>3, <1>4

LEMMA TimersInv ==
    ASSUME TestInv, NEW w \in Worker, Responds(w) \/ Fails(w) \/ Abort(w) \/ BackstopFires(w)
    PROVE  TestInv'
<1>1. Probing(w)
  BY DEF Responds, Fails, Abort, BackstopFires, Measured
<1>2. /\ worker[w] \in Index /\ now \in Nat /\ probed[worker[w]].from \in Nat
      /\ probed[worker[w]].from <= now
  BY <1>1 DEF TestInv, PoolInv, ClockInv, Probing, Index
<1>3. Elapsed(w) \in Nat /\ Elapsed(w) # Null
  BY <1>2, UrlTestAssumption DEF Elapsed
<1>4. CASE Responds(w)
  BY <1>3, <1>4, MeasuredInv DEF Responds
<1>5. CASE Fails(w)
  <2>1. aborted[w] => Elapsed(w) >= TimeoutMs
    BY <1>1 DEF TestInv, ClockInv
  <2>2. IF Failure(w) = Null THEN Elapsed(w) >= TimeoutMs ELSE Failure(w) = Elapsed(w)
    BY <1>3, <2>1 DEF Failure
  <2>3. Failure(w) \in Nat \cup {Null}
    BY <1>3 DEF Failure
  <2> QED
    BY <1>5, <2>2, <2>3, MeasuredInv DEF Fails
<1>6. CASE BackstopFires(w)
  <2>1. Elapsed(w) >= TimeoutMs
    BY <1>3, <1>6, UrlTestAssumption DEF BackstopFires
  <2> QED
    BY <1>6, <2>1, MeasuredInv DEF BackstopFires
<1>7. CASE Abort(w)
  <2>1. /\ UNCHANGED <<testing, targets, next, worker, probed, latencyMs, now>>
        /\ aborted' = [aborted EXCEPT ![w] = TRUE] /\ Elapsed(w) >= TimeoutMs
    BY <1>7 DEF Abort
  <2>2. PoolInv' /\ ProbedOnce' /\ LatencyIsOwn'
    BY <2>1 DEF TestInv, PoolInv, ProbedOnce, LatencyIsOwn, Probing, Size, Index
  <2>3. ClockInv'
    BY <2>1 DEF TestInv, PoolInv, ClockInv, Probing, Elapsed
  <2> QED
    BY <2>2, <2>3 DEF TestInv
<1> QED
  BY <1>4, <1>5, <1>6, <1>7

LEMMA TickInv ==
    ASSUME TestInv, Tick
    PROVE  TestInv'
<1>1. now' = now + 1 /\ UNCHANGED <<testing, targets, next, worker, aborted, probed, latencyMs>>
  BY DEF Tick, poolVars
<1>2. PoolInv' /\ ProbedOnce' /\ LatencyIsOwn'
  BY <1>1 DEF TestInv, PoolInv, ProbedOnce, LatencyIsOwn, Probing, Size, Index
<1>3. ClockInv'
  <2> SUFFICES ASSUME NEW w \in Worker, worker'[w] # 0
               PROVE  /\ probed'[worker'[w]].from <= now'
                      /\ aborted'[w] => now' - probed'[worker'[w]].from >= TimeoutMs
    BY DEF ClockInv, Probing, Elapsed
  <2>1. Probing(w)
    BY <1>1 DEF Probing
  <2>2. probed[worker[w]].from \in Nat /\ now \in Nat
    BY <2>1 DEF TestInv, PoolInv, Probing, Index
  <2>3. probed[worker[w]].from <= now /\ (aborted[w] => now - probed[worker[w]].from >= TimeoutMs)
    BY <2>1 DEF TestInv, ClockInv, Elapsed
  <2> QED
    BY <1>1, <2>2, <2>3, UrlTestAssumption
<1> QED
  BY <1>2, <1>3 DEF TestInv

LEMMA StepInv == Inv /\ [Next]_vars => Inv'
<1> SUFFICES ASSUME Inv, [Next]_vars PROVE Inv'
  OBVIOUS
<1>1. CASE UNCHANGED testVars
  <2>1. TestInv'
    BY <1>1 DEF Inv, TestInv, PoolInv, ClockInv, ProbedOnce, LatencyIsOwn, testVars, poolVars,
                Probing, Elapsed, Size, Index
  <2>2. CASE UNCHANGED <<servers, site, sent>>
    BY <2>1, <2>2 DEF Inv, ScreenInv
  <2>3. CASE \E l \in Load : Body(l) \/ HeadersArrive(l) \/ TimerFires(l)
    <3>1. PICK l \in Load : Body(l) \/ HeadersArrive(l) \/ TimerFires(l)
      BY <2>3
    <3>2. /\ UNCHANGED site
          /\ servers' = servers \/ servers' = parseSubscription(sent[l].payload)
          /\ \E document \in Sent : sent' = [sent EXCEPT ![l] = document]
      BY <3>1 DEF Body, HeadersArrive, TimerFires, LoadEnds, LoadGoesOn, appVars, Inv, ScreenInv, Sent
    <3>3. IsList(servers')
      BY <3>2, Documents, Parsed DEF Inv, ScreenInv
    <3> QED
      BY <2>1, <3>2, <3>3 DEF Inv, ScreenInv
  <2>5. CASE Publish
    BY <2>1, <2>5, ServerListAssumption DEF Publish, loadVars, appVars, Inv, ScreenInv, Document
  <2>4. CASE ShowResults
    <3>1. /\ UNCHANGED <<site, sent>> /\ Size \in Nat
          /\ servers' = [k \in 1..Size |-> targets[Ranking[k]]]
      BY <2>4 DEF ShowResults, loadVars, Index, Inv, TestInv, PoolInv
    <3>2. IsList(servers')
      <4>1. DOMAIN servers' = 1..Size /\ servers' = [k \in 1..Size |-> servers'[k]]
        BY <3>1
      <4> QED
        BY <3>1, <4>1, Listed
    <3> QED
      BY <2>1, <3>1, <3>2 DEF Inv, ScreenInv
  <2> QED
    BY <1>1, <2>2, <2>3, <2>4, <2>5
       DEF Next, LoadSubscription, PingAll, Timers, Answers, Rest, loadVars, appVars, vars
<1>2. CASE PingAll
  BY <1>2, Listed, BeginTestInv DEF PingAll, loadVars, Inv, ScreenInv
<1>3. CASE Timers \/ Answers
  BY <1>3, TickInv, TimersInv DEF Timers, Answers, Rest, loadVars, appVars, Inv, ScreenInv
<1>4. CASE \/ \E l \in Load : LoadSubscription(l) \/ HeadersArrive(l) \/ TimerFires(l) \/ Body(l)
           \/ Publish \/ ShowResults \/ UNCHANGED vars
  <2>1. UNCHANGED testVars
    BY <1>4 DEF LoadSubscription, HeadersArrive, TimerFires, Body, LoadEnds, LoadGoesOn, Publish,
                ShowResults, vars
  <2> QED
    BY <1>1, <2>1
<1> QED
  BY <1>2, <1>3, <1>4 DEF Next

THEOREM InvHolds == Spec => []Inv
BY InitInv, StepInv, PTL DEF Spec

\* However many workers share the counter, every server is probed once and has one place.
THEOREM EachProbedOnce == Spec => []ProbedOnce
<1>1. Inv => ProbedOnce
  BY DEF Inv, TestInv
<1> QED
  BY <1>1, InvHolds, PTL

\* A latency is that of the server's own probe, and only a whole timeout makes it unreachable.
THEOREM EachLatencyIsOwn == Spec => []LatencyIsOwn
<1>1. Inv => LatencyIsOwn
  BY DEF Inv, TestInv
<1> QED
  BY <1>1, InvHolds, PTL
-----------------------------------------------------------------------------
(* How long a test may take.  A probe that begins as the i-th does so at the *)
(* end of another, when all the workers were busy with the probes before it. *)
(* They are as many as the workers, so one of them was begun as many places  *)
(* earlier or more, and has run for a backstop at most: of a list of any     *)
(* length, no sum over the probes is needed.                                 *)

\* While a server is left no worker is idle, and the i-th probe begins within its share of time.
TimeInv ==
    /\ next <= Size => \A w \in Worker : Probing(w)
    /\ \A i \in Index : i < next =>
          probed[i].from <= now /\ probed[i].from * Concurrency <= Backstop * (i - 1)
    /\ \A i, j \in Index : i <= j /\ j < next => probed[i].from <= probed[j].from
    /\ \A w \in Worker : Probing(w) => Elapsed(w) <= Backstop
    /\ testing => \E w \in Worker : Probing(w)

\* Of workers that are all busy, one was begun as many places ago as there are workers, or more.
LEMMA OneIsBehind ==
    ASSUME TestInv, \A w \in Worker : Probing(w)
    PROVE  \E w \in Worker : worker[w] + Concurrency <= next
<1>1. /\ Concurrency \in Nat \ {0} /\ Size \in Nat /\ next \in Nat /\ worker \in [Worker -> 0..Size]
      /\ \A w \in Worker : worker[w] \in Nat \ {0} /\ worker[w] < next
      /\ \A v, w \in Worker : worker[v] = worker[w] => v = w
  BY UrlTestAssumption DEF TestInv, PoolInv, ProbedOnce, Probing
<1> SUFFICES ASSUME \A w \in Worker : worker[w] + Concurrency > next PROVE FALSE
  BY <1>1
<1> DEFINE late == (next - Concurrency + 1)..(next - 1)
<1>2. worker \in [Worker -> late]
  BY <1>1
<1>3. IsFiniteSet(Worker) /\ Cardinality(Worker) = Concurrency
  BY <1>1, FS_Interval DEF Worker
<1>4. IsFiniteSet(late) /\ Cardinality(late) < Concurrency
  <2>1. next - Concurrency + 1 \in Int /\ next - 1 \in Int
    BY <1>1
  <2>2. IsFiniteSet(late) /\ Cardinality(late) = IF next - Concurrency + 1 > next - 1 THEN 0
                                                  ELSE (next - 1) - (next - Concurrency + 1) + 1
    BY <2>1, FS_Interval
  <2> HIDE DEF late
  <2> QED
    BY <1>1, <2>2
<1>5. \E v, w \in Worker : v # w /\ worker[v] = worker[w]
  <2> HIDE DEF late
  <2> QED
    BY <1>2, <1>3, <1>4, FS_PigeonHole
<1> QED
  BY <1>1, <1>5

\* One more backstop, one round of the workers further.
LEMMA OneRound ==
    ASSUME NEW from \in Nat, NEW i \in Nat, NEW moment \in Nat,
           from * Concurrency <= Backstop * (i - 1), moment - from <= Backstop
    PROVE  moment * Concurrency <= Backstop * (i + Concurrency - 1)
<1>1. Concurrency \in Nat /\ Backstop \in Nat
  BY UrlTestAssumption
<1>2. moment * Concurrency <= (from + Backstop) * Concurrency
  <2>1. PICK left \in Nat : moment + left = from + Backstop
    <3>1. from + Backstop - moment \in Nat /\ moment + (from + Backstop - moment) = from + Backstop
      BY <1>1
    <3> QED
      BY <3>1
  <2>2. (moment + left) * Concurrency = moment * Concurrency + left * Concurrency
    BY <1>1
  <2>3. left * Concurrency \in Nat /\ moment * Concurrency \in Nat
    BY <1>1
  <2> QED
    BY <2>1, <2>2, <2>3
<1>3. (from + Backstop) * Concurrency = from * Concurrency + Backstop * Concurrency
  BY <1>1
<1>4. Backstop * (i + Concurrency - 1) = Backstop * (i - 1) + Backstop * Concurrency
  BY <1>1
<1>5. /\ moment * Concurrency \in Nat /\ from * Concurrency \in Nat /\ Backstop * Concurrency \in Nat
      /\ Backstop * (i - 1) \in Int
  BY <1>1
<1> QED
  BY <1>2, <1>3, <1>4, <1>5

\* A number of places more takes no less time.
LEMMA LaterPlace ==
    ASSUME NEW i \in Int, NEW j \in Int, i <= j
    PROVE  Backstop * i <= Backstop * j
<1>1. Backstop \in Nat /\ j - i \in Nat /\ j = i + (j - i)
  BY UrlTestAssumption
<1>2. Backstop * (j - i) \in Nat /\ Backstop * (i + (j - i)) = Backstop * i + Backstop * (j - i)
  BY <1>1
<1>3. Backstop * i \in Int
  BY <1>1
<1> QED
  BY <1>1, <1>2, <1>3

LEMMA BeginTestTime ==
    ASSUME NEW list, IsList(list), BeginTest(list)
    PROVE  TimeInv'
<1>1. Size' = Len(list) /\ Index' = 1..Len(list) /\ now' = 0
  BY DEF BeginTest, Size, Index
<1>0. Len(list) \in Nat
  BY Listed
<1>2. next' = (IF Len(list) < Concurrency THEN Len(list) ELSE Concurrency) + 1
  BY DEF BeginTest
<1>3. worker' = [w \in Worker |-> IF w <= Len(list) THEN w ELSE 0]
  BY DEF BeginTest
<1>4. \A i \in Index' : probed'[i].from = 0
  BY <1>1 DEF BeginTest
<1>5. next' <= Size' => \A w \in Worker : Probing(w)'
  BY <1>0, <1>1, <1>2, <1>3, UrlTestAssumption DEF Worker, Probing
<1>6. \A i \in Index' : probed'[i].from * Concurrency <= Backstop * (i - 1)
  <2> SUFFICES ASSUME NEW i \in Index' PROVE 0 * Concurrency <= Backstop * (i - 1)
    BY <1>4
  <2>1. i - 1 \in Nat /\ Concurrency \in Nat /\ Backstop \in Nat
    BY <1>1, UrlTestAssumption
  <2>2. Backstop * (i - 1) \in Nat
    BY <2>1
  <2> QED
    BY <2>1, <2>2
<1>7. \A w \in Worker : Probing(w)' => Elapsed(w)' <= Backstop
  BY <1>1, <1>3, <1>4, WorkerType, UrlTestAssumption DEF Probing, Elapsed
<1>8. testing' => \E w \in Worker : Probing(w)'
  <2>1. testing' => Len(list) > 0
    BY Listed DEF BeginTest
  <2>2. 1 \in Worker
    BY UrlTestAssumption DEF Worker
  <2>3. Len(list) > 0 => worker'[1] = 1
    BY <1>0, <1>3, <2>2
  <2> QED
    BY <2>1, <2>2, <2>3 DEF Probing
<1> QED
  BY <1>1, <1>4, <1>5, <1>6, <1>7, <1>8 DEF TimeInv

LEMMA MeasuredTime ==
    ASSUME TestInv, TimeInv, NEW w \in Worker, NEW latency, Measured(w, latency)
    PROVE  TimeInv'
<1> DEFINE mine == worker[w]
<1>1. /\ mine \in Index /\ mine < next /\ Size \in Nat /\ next \in 1..(Size + 1) /\ now \in Nat
      /\ Size' = Size /\ Index' = Index /\ now' = now
      /\ testing' => \E v \in Worker : Probing(v)'
  BY DEF TestInv, PoolInv, ProbedOnce, Measured, Probing, Size, Index
<1>2. probed \in [Index -> [from : Nat, to : Nat]] /\ worker \in [Worker -> 0..Size]
  BY DEF TestInv, PoolInv
<1>3. CASE next <= Size
  <2>1. /\ worker' = [worker EXCEPT ![w] = next] /\ next' = next + 1
        /\ probed' = [probed EXCEPT ![mine].to = now, ![next].from = now]
    BY <1>3 DEF Measured, TakeNext
  <2>2. next \in Index /\ next # mine
    BY <1>1, <1>3 DEF Index
  <2>3. probed'[next].from = now /\ \A i \in Index \ {next} : probed'[i].from = probed[i].from
    BY <1>1, <1>2, <2>1, <2>2
  <2>4. \A v \in Worker : worker'[v] = IF v = w THEN next ELSE worker[v]
    BY <1>2, <2>1
  <2>5. \A v \in Worker : Probing(v)'
    BY <1>1, <1>3, <2>4 DEF TimeInv, Probing
  <2>6. \A i \in Index : i < next => i # next /\ probed'[i].from = probed[i].from
    BY <1>1, <2>3 DEF Index
  <2>7. \A i \in Index : i < next' => i < next \/ i = next
    BY <1>1, <2>1 DEF Index
  <2>8. now * Concurrency <= Backstop * (next - 1)
    <3>1. PICK v \in Worker : worker[v] + Concurrency <= next
      BY <1>3, OneIsBehind DEF TimeInv
    <3>2. worker[v] \in Index /\ worker[v] < next /\ Elapsed(v) <= Backstop
      BY <1>2, <1>3 DEF TestInv, ProbedOnce, TimeInv, Probing, Index
    <3>3. probed[worker[v]].from \in Nat /\ worker[v] \in Nat
      BY <1>2, <3>2 DEF Index
    <3>4. /\ probed[worker[v]].from * Concurrency <= Backstop * (worker[v] - 1)
          /\ now - probed[worker[v]].from <= Backstop
      BY <3>2 DEF TimeInv, Elapsed
    <3>5. now * Concurrency <= Backstop * (worker[v] + Concurrency - 1)
      BY <1>1, <3>3, <3>4, OneRound
    <3>6. /\ worker[v] + Concurrency - 1 \in Int /\ next - 1 \in Int
          /\ worker[v] + Concurrency - 1 <= next - 1
      BY <1>1, <3>1, <3>3, UrlTestAssumption
    <3>7. Backstop * (worker[v] + Concurrency - 1) <= Backstop * (next - 1)
      BY <3>6, LaterPlace
    <3>8. /\ now * Concurrency \in Int /\ Backstop * (worker[v] + Concurrency - 1) \in Int
          /\ Backstop * (next - 1) \in Int
      BY <1>1, <3>6, UrlTestAssumption
    <3> QED
      BY <3>5, <3>7, <3>8
  <2>9. \A i \in Index : i < next' =>
           probed'[i].from <= now' /\ probed'[i].from * Concurrency <= Backstop * (i - 1)
    <3> SUFFICES ASSUME NEW i \in Index, i < next'
                 PROVE  probed'[i].from <= now /\ probed'[i].from * Concurrency <= Backstop * (i - 1)
      BY <1>1
    <3>1. CASE i < next
      BY <2>6, <3>1 DEF TimeInv
    <3>2. CASE i = next
      BY <1>1, <2>3, <2>8, <3>2
    <3> QED
      BY <2>7, <3>1, <3>2
  <2>10. \A i, j \in Index : i <= j /\ j < next' => probed'[i].from <= probed'[j].from
    <3> SUFFICES ASSUME NEW i \in Index, NEW j \in Index, i <= j, j < next'
                 PROVE  probed'[i].from <= probed'[j].from
      OBVIOUS
    <3>1. CASE j < next
      <4>1. i < next
        BY <1>1, <3>1 DEF Index
      <4> QED
        BY <2>6, <3>1, <4>1 DEF TimeInv
    <3>2. CASE j = next
      <4>1. i = next \/ i < next
        BY <1>1, <3>2 DEF Index
      <4> QED
        BY <1>1, <2>3, <2>6, <3>2, <4>1 DEF TimeInv
    <3> QED
      BY <2>7, <3>1, <3>2
  <2>11. ASSUME NEW v \in Worker PROVE Elapsed(v)' <= Backstop
    <3>1. CASE v = w
      BY <1>1, <2>3, <2>4, <3>1, UrlTestAssumption DEF Elapsed
    <3>2. CASE v # w
      <4>1. worker'[v] = worker[v] /\ worker[v] \in Index /\ worker[v] < next
        BY <1>2, <1>3, <2>4, <3>2 DEF TestInv, ProbedOnce, TimeInv, Probing, Index
      <4>2. probed'[worker'[v]].from = probed[worker[v]].from
        BY <2>6, <4>1
      <4>3. Elapsed(v) <= Backstop
        BY <1>3 DEF TimeInv
      <4> QED
        BY <1>1, <4>2, <4>3 DEF Elapsed
    <3> QED
      BY <3>1, <3>2
  <2> QED
    BY <1>1, <2>5, <2>9, <2>10, <2>11 DEF TimeInv
<1>4. CASE ~(next <= Size)
  <2>1. /\ worker' = [worker EXCEPT ![w] = 0] /\ next' = next /\ probed' = [probed EXCEPT ![mine].to = now]
    BY <1>4 DEF Measured, TakeNext
  <2>2. \A i \in Index : probed'[i].from = probed[i].from
    BY <1>1, <1>2, <2>1
  <2>3. \A v \in Worker : worker'[v] = IF v = w THEN 0 ELSE worker[v]
    BY <1>2, <2>1
  <2>4. ASSUME NEW v \in Worker, Probing(v)' PROVE Elapsed(v)' <= Backstop
    <3>1. worker'[v] = worker[v] /\ Probing(v) /\ worker[v] \in Index
      BY <1>2, <2>3, <2>4 DEF Probing, Index
    <3> QED
      BY <1>1, <2>2, <3>1 DEF TimeInv, Elapsed
  <2> QED
    BY <1>1, <1>4, <2>1, <2>2, <2>4 DEF TimeInv
<1> QED
  BY <1>3, <1>4

LEMMA TickTime ==
    ASSUME TestInv, TimeInv, Tick
    PROVE  TimeInv'
<1>1. now' = now + 1 /\ UNCHANGED <<testing, targets, next, worker, aborted, probed, latencyMs>>
  BY DEF Tick, poolVars
<1>2. Size' = Size /\ Index' = Index /\ now \in Nat
  BY <1>1 DEF TestInv, PoolInv, Size, Index
<1>3. ASSUME NEW w \in Worker, Probing(w)' PROVE Elapsed(w)' <= Backstop
  <2>1. Probing(w) /\ worker[w] \in Index
    BY <1>1, <1>3 DEF TestInv, PoolInv, Probing, Index
  <2>2. ~(Elapsed(w) >= Backstop)
    BY <2>1 DEF Tick, Due
  <2>3. probed[worker[w]].from \in Nat
    BY <2>1 DEF TestInv, PoolInv
  <2> QED
    BY <1>1, <1>2, <2>2, <2>3, UrlTestAssumption DEF Elapsed
<1>4. \A i \in Index : probed[i].from \in Nat
  BY DEF TestInv, PoolInv
<1>5. \A i \in Index : i < next => probed'[i].from <= now'
  BY <1>1, <1>2, <1>4 DEF TimeInv
<1>6. \A w \in Worker : Probing(w)' <=> Probing(w)
  BY <1>1 DEF Probing
<1> QED
  BY <1>1, <1>2, <1>3, <1>5, <1>6 DEF TimeInv

LEMMA StepTime == Inv /\ TimeInv /\ [Next]_vars => TimeInv'
<1> SUFFICES ASSUME Inv, TimeInv, [Next]_vars PROVE TimeInv'
  OBVIOUS
<1>1. CASE UNCHANGED testVars \/ \E w \in Worker : Abort(w)
  <2>1. UNCHANGED <<testing, targets, next, worker, probed, now>>
    BY <1>1 DEF Abort, testVars, poolVars
  <2> QED
    BY <2>1 DEF TimeInv, Probing, Elapsed, Size, Index
<1>2. CASE PingAll
  BY <1>2, BeginTestTime DEF PingAll, Inv, ScreenInv
<1>3. CASE Tick
  BY <1>3, TickTime DEF Inv
<1>4. CASE \E w \in Worker : Responds(w) \/ Fails(w) \/ BackstopFires(w)
  <2>1. PICK latency, w : w \in Worker /\ Measured(w, latency)
    BY <1>4 DEF Responds, Fails, BackstopFires
  <2> QED
    BY <2>1, MeasuredTime DEF Inv
<1> QED
  BY <1>1, <1>2, <1>3, <1>4
     DEF Next, Timers, Answers, LoadSubscription, HeadersArrive, TimerFires, Body, LoadEnds,
         LoadGoesOn, Publish, ShowResults, vars

\* A test of any list is over within the time its servers take when every one of them times
\* out, shared evenly among the workers, plus what the last of them take alone.
THEOREM TestEndsInTime == Spec => []TestInTime
<1>1. Init => TimeInv
  <2> SUFFICES ASSUME Init PROVE TimeInv
    OBVIOUS
  <2>1. Size = 0 /\ next = 1 /\ ~testing /\ \A w \in Worker : ~Probing(w)
    BY DEF Init, TestInit, Size, Probing
  <2>2. Index = {}
    BY <2>1 DEF Index
  <2> QED
    BY <2>1, <2>2 DEF TimeInv
<1>2. Inv /\ TimeInv => TestInTime
  <2> SUFFICES ASSUME Inv, TimeInv, testing
               PROVE  now * Concurrency <= Backstop * (Size + Concurrency - 1)
    BY DEF TestInTime
  <2>1. PICK w \in Worker : Probing(w)
    BY DEF TimeInv
  <2>2. /\ worker[w] \in Index /\ worker[w] < next /\ Elapsed(w) <= Backstop
        /\ probed[worker[w]].from \in Nat /\ now \in Nat /\ Size \in Nat /\ worker[w] \in Nat
    BY <2>1 DEF Inv, TestInv, PoolInv, ProbedOnce, TimeInv, Probing, Index
  <2>3. now * Concurrency <= Backstop * (worker[w] + Concurrency - 1)
    BY <2>2, OneRound DEF TimeInv, Elapsed
  <2>4. Backstop * (worker[w] + Concurrency - 1) <= Backstop * (Size + Concurrency - 1)
    BY <2>2, UrlTestAssumption, LaterPlace DEF Index
  <2>5. /\ now * Concurrency \in Int /\ Backstop * (worker[w] + Concurrency - 1) \in Int
        /\ Backstop * (Size + Concurrency - 1) \in Int
    BY <2>2, UrlTestAssumption
  <2> QED
    BY <2>3, <2>4, <2>5
<1> QED
  BY <1>1, <1>2, InvHolds, StepTime, PTL DEF Spec
-----------------------------------------------------------------------------
(* What the list shows.  A test takes the list as it is when it begins and  *)
(* gives it back in another order; loading may replace it underneath.       *)

\* The results are the places of the servers tested, each once, the faster before the slower.
LEMMA Ranked ==
    ASSUME PoolInv
    PROVE  /\ Ranking \in Bijection(Index, Index)
           /\ \A k, l \in Index : k < l => Faster(Ranking[k], Ranking[l])
<1>1. PICK S, n, before : /\ S = Index /\ n = Size
                          /\ before = [i \in S |-> {j \in S : Faster(j, i)}]
  OBVIOUS
<1>2. n \in Nat /\ S = 1..n /\ IsFiniteSet(S) /\ Cardinality(S) = n
  <2>1. n \in Nat /\ S = 1..n
    BY <1>1 DEF PoolInv, Index
  <2>2. 1 \in Int /\ n \in Int
    BY <2>1
  <2> QED
    BY <2>1, <2>2, FS_Interval
<1>3. \A i \in S : i \in Nat /\ latencyMs[i] \in Nat \cup {Null}
  BY <1>1, <1>2 DEF PoolInv
<1>4. Null \notin Nat
  BY UrlTestAssumption
<1>5. \A i \in S : ~Faster(i, i)
  BY <1>3, <1>4 DEF Faster
<1>6. \A h, i, j \in S : Faster(h, i) /\ Faster(i, j) => Faster(h, j)
  BY <1>3, <1>4 DEF Faster
<1>7. \A i, j \in S : i = j \/ Faster(i, j) \/ Faster(j, i)
  BY <1>3, <1>4 DEF Faster
<1>8. \A i, j \in S : i \in before[j] <=> Faster(i, j)
  BY <1>1
<1>9. StrictOrder(S, before)
  <2>1. before \in [S -> SUBSET S]
    BY <1>1
  <2>2. \A i, j \in S : i \in before[j] => before[i] \subseteq before[j]
    <3> SUFFICES ASSUME NEW i \in S, NEW j \in S, i \in before[j], NEW h \in before[i]
                 PROVE  h \in before[j]
      OBVIOUS
    <3>1. h \in S
      BY <2>1
    <3> QED
      BY <1>6, <1>8, <3>1
  <2> QED
    BY <1>5, <1>7, <1>8, <2>1, <2>2 DEF StrictOrder
<1>10. PICK rank : rank = Ranking
  OBVIOUS
<1>11. /\ rank = [k \in S |-> rank[k]]
       /\ \A k \in S : rank[k] = CHOOSE i \in S : Cardinality(before[i]) = k - 1
  <2>1. rank = [k \in S |-> CHOOSE i \in S : Cardinality({j \in S : Faster(j, i)}) = k - 1]
    BY <1>1, <1>10 DEF Ranking
  <2>2. rank = [k \in S |-> rank[k]]
    <3>1. \A k \in S : rank[k] = CHOOSE i \in S : Cardinality({j \in S : Faster(j, i)}) = k - 1
      BY <2>1
    <3> QED
      BY <2>1, <3>1, Zenon
  <2>3. ASSUME NEW k \in S PROVE rank[k] = CHOOSE i \in S : Cardinality(before[i]) = k - 1
    <3>1. rank[k] = CHOOSE i \in S : Cardinality({j \in S : Faster(j, i)}) = k - 1
      BY <2>1
    <3>2. \A i \in S : before[i] = {j \in S : Faster(j, i)}
      BY <1>1
    <3> QED
      BY <3>1, <3>2
  <2> QED
    BY <2>2, <2>3
<1>12. /\ rank \in Bijection(S, S)
       /\ \A k, l \in S : k < l => rank[k] \in before[rank[l]]
  <2>1. S = 1..Cardinality(S)
    BY <1>2
  <2> QED
    BY <1>2, <1>9, <1>11, <2>1, Ordered
<1>13. \A k \in S : rank[k] \in S
  BY <1>12, Fun_BijectionProperties
<1> QED
  BY <1>1, <1>8, <1>10, <1>12, <1>13

\* The usable lines of the document in some order, each of them once.
ListOf(list, payload) ==
    \E line \in Bijection(DOMAIN list, Lines(payload)) :
        \A k \in DOMAIN list : list[k] = parseShareLink(payload[line[k]])

ListInv ==
    /\ pinging \in BOOLEAN /\ (testing => pinging)
    /\ load \in [Load -> {"idle", "headers", "body", "failed"}]
    /\ shown \in Sent /\ tested \in Sent
    /\ IsList(targets) /\ ListOf(servers, shown.payload) /\ ListOf(targets, tested.payload)

LEMMA NothingListed == ListOf(<<>>, Nothing.payload)
<1>1. DOMAIN <<>> = {} /\ Lines(Nothing.payload) = {}
  BY DEF Nothing, Lines
<1>2. PICK f : f = [x \in {} |-> x]
  OBVIOUS
<1>3. f \in Bijection({}, {})
  BY <1>2, OneToOne
<1> QED
  BY <1>1, <1>3 DEF ListOf

LEMMA Reordered ==
    ASSUME Inv, ListInv, NEW list, list = [k \in Index |-> targets[Ranking[k]]]
    PROVE  ListOf(list, tested.payload)
<1>1. PoolInv /\ DOMAIN targets = Index /\ DOMAIN list = Index /\ Size \in Nat
  BY LenProperties DEF Inv, TestInv, PoolInv, ListInv, IsList, Index, Size
<1>2. Ranking \in Bijection(Index, Index)
  BY <1>1, Ranked
<1>3. PICK line \in Bijection(Index, Lines(tested.payload)) :
             \A k \in Index : targets[k] = parseShareLink(tested.payload[line[k]])
  BY <1>1 DEF ListInv, ListOf
<1>4. PICK after : after = [k \in Index |-> line[Ranking[k]]]
  OBVIOUS
<1>5. after \in Bijection(Index, Lines(tested.payload))
  BY <1>2, <1>3, <1>4, Fun_BijTransitive
<1>6. \A k \in Index : Ranking[k] \in Index
  BY <1>2, Fun_BijectionProperties
<1>7. \A k \in Index : list[k] = parseShareLink(tested.payload[after[k]])
  BY <1>3, <1>4, <1>6
<1> QED
  BY <1>1, <1>5, <1>7 DEF ListOf

LEMMA StepList == Inv /\ ListInv /\ [Next]_vars => ListInv'
<1> SUFFICES ASSUME Inv, ListInv, [Next]_vars PROVE ListInv'
  OBVIOUS
<1>2. CASE Timers \/ Answers
  <2>1. UNCHANGED <<load, servers, pinging, shown, tested>>
    BY <1>2 DEF Timers, Answers, Rest, loadVars, appVars
  <2>2. testing /\ UNCHANGED targets
    <3>1. CASE Tick
      BY <3>1 DEF Tick, poolVars
    <3>2. CASE \E w \in Worker : Responds(w) \/ Fails(w) \/ Abort(w) \/ BackstopFires(w)
      <4>1. PICK w \in Worker : Probing(w) /\ UNCHANGED targets
        BY <3>2 DEF Responds, Fails, Abort, BackstopFires, Measured
      <4> QED
        BY <4>1 DEF Inv, TestInv, ProbedOnce
    <3> QED
      BY <1>2, <3>1, <3>2 DEF Timers, Answers
  <2>3. testing' => pinging'
    BY <2>1, <2>2 DEF ListInv
  <2> QED
    BY <2>1, <2>2, <2>3 DEF ListInv
<1>3. CASE PingAll
  <2>1. /\ UNCHANGED <<load, servers, shown>> /\ pinging' = TRUE /\ targets' = servers
        /\ testing' = (servers # <<>>) /\ tested' = shown
    BY <1>3 DEF PingAll, BeginTest, loadVars
  <2> QED
    BY <2>1 DEF ListInv, Inv, ScreenInv
<1>4. CASE ShowResults
  <2>1. /\ UNCHANGED <<load, testing, targets, tested>> /\ ~testing /\ pinging' = FALSE
        /\ shown' = tested
    BY <1>4 DEF ShowResults, loadVars, testVars, poolVars
  <2>2. ListOf(servers', tested.payload)
    <3>1. servers' = [k \in Index |-> targets[Ranking[k]]]
      BY <1>4 DEF ShowResults
    <3> QED
      BY <3>1, Reordered
  <2> QED
    BY <2>1, <2>2 DEF ListInv
<1>5. CASE \E l \in Load : Body(l)
  <2>1. PICK l \in Load : Body(l)
    BY <1>5
  <2>2. /\ UNCHANGED <<testing, targets, pinging, tested>> /\ sent[l] \in Sent
        /\ \E at \in {"idle", "failed"} : load' = [load EXCEPT ![l] = at]
        /\ \/ UNCHANGED <<servers, shown>>
           \/ servers' = parseSubscription(sent[l].payload) /\ shown' = sent[l]
    BY <2>1 DEF Body, LoadEnds, LoadGoesOn, appVars, testVars, poolVars, Inv, ScreenInv
  <2>3. load' \in [Load -> {"idle", "headers", "body", "failed"}]
    BY <2>2 DEF ListInv
  <2>4. ListOf(servers', shown'.payload) /\ shown' \in Sent
    BY <2>2, Documents, Parsed DEF ListInv, ListOf
  <2> QED
    BY <2>2, <2>3, <2>4 DEF ListInv
<1>6. CASE Publish \/ \E l \in Load : LoadSubscription(l) \/ HeadersArrive(l) \/ TimerFires(l)
  <2>1. /\ UNCHANGED <<testing, targets, pinging, servers, shown, tested>>
        /\ \/ load' = load
           \/ \E l \in Load, at \in {"headers", "body", "failed"} : load' = [load EXCEPT ![l] = at]
    BY <1>6 DEF Publish, LoadSubscription, HeadersArrive, TimerFires, LoadEnds, LoadGoesOn, loadVars,
                appVars, testVars, poolVars
  <2>2. load' \in [Load -> {"idle", "headers", "body", "failed"}]
    BY <2>1 DEF ListInv
  <2> QED
    BY <2>1, <2>2 DEF ListInv
<1>7. CASE UNCHANGED vars
  BY <1>7 DEF vars, loadVars, appVars, testVars, poolVars, ListInv
<1> QED
  BY <1>2, <1>3, <1>4, <1>5, <1>6, <1>7 DEF Next

LEMMA ListInvHolds == Spec => []ListInv
<1>1. Init => ListInv
  BY Listed, NothingListed DEF Init, TestInit, ListInv, Sent
<1> QED
  BY <1>1, InvHolds, StepList, PTL DEF Spec

LEMMA ServerOfLine ==
    ASSUME ListInv
    PROVE  \E line \in Bijection(DOMAIN servers, Lines(shown.payload)) :
              \A i \in DOMAIN servers :
                 /\ servers[i] = parseShareLink(shown.payload[line[i]])
                 /\ servers[i].raw = shown.payload[line[i]]
<1>1. PICK line \in Bijection(DOMAIN servers, Lines(shown.payload)) :
             \A i \in DOMAIN servers : servers[i] = parseShareLink(shown.payload[line[i]])
  BY DEF ListInv, ListOf
<1>2. \A i \in DOMAIN servers : IsServer(parseShareLink(shown.payload[line[i]]))
  <2>1. \A i \in DOMAIN servers : line[i] \in Lines(shown.payload)
    BY Fun_BijectionProperties
  <2> QED
    BY <2>1 DEF Lines
<1>3. \A i \in DOMAIN servers : servers[i].raw = shown.payload[line[i]]
  BY <1>1, <1>2, RawKept
<1> QED
  BY <1>1, <1>3

\* Whatever is loaded and tested in which order, the list holds what the parser makes of links,
\* and the test's record of a list is one entry for each of its servers.
THEOREM ServersTypeCorrect == Spec => []ServersTypeOK
<1>1. Inv /\ ListInv => ServersTypeOK
  <2> SUFFICES ASSUME Inv, ListInv PROVE ServersTypeOK
    OBVIOUS
  <2>1. \A i \in DOMAIN servers : servers[i] = parseShareLink(servers[i].raw)
    BY ServerOfLine
  <2>2. DOMAIN probed = Index
    BY DEF Inv, TestInv, PoolInv
  <2> QED
    BY <2>1, <2>2 DEF ServersTypeOK, Inv, TestInv, PoolInv, ScreenInv, ListInv, Sent
<1> QED
  BY <1>1, InvHolds, ListInvHolds, PTL

\* Of the document it was made from, whichever documents the host publishes meanwhile, the list
\* loses no usable line and repeats none, however loads and tests overlap; after a test that is
\* the document tested, even if a newer one was loaded under it.  The documents are those in
\* which the lines that are usable are those the parser accepts.
THEOREM NothingIsLost ==
    ASSUME \A payload \in Payloads : \A k \in DOMAIN payload :
              payload[k].usable = IsServer(parseShareLink(payload[k]))
    PROVE  Spec => []NothingLost
<1>1. ASSUME Inv, ListInv, NEW k \in DOMAIN shown.payload
      PROVE  LET link == shown.payload[k]
             IN  Cardinality({i \in DOMAIN servers : servers[i].raw = link}) =
                 IF link.usable THEN Cardinality({j \in DOMAIN shown.payload : shown.payload[j] = link})
                 ELSE 0
  <2>1. PICK payload, link, S : /\ payload = shown.payload /\ link = payload[k]
                                /\ S = {i \in DOMAIN servers : servers[i].raw = link}
    OBVIOUS
  <2>2. payload \in Payloads /\ IsFiniteSet(DOMAIN payload) /\ k \in DOMAIN payload
    BY <1>1, <2>1, Documents, Parsed DEF ListInv
  <2>3. PICK line \in Bijection(DOMAIN servers, Lines(payload)) :
               \A i \in DOMAIN servers : servers[i].raw = payload[line[i]]
    BY <1>1, <2>1, ServerOfLine
  <2>4. /\ \A i \in DOMAIN servers : line[i] \in Lines(payload)
        /\ \A i, j \in DOMAIN servers : line[i] = line[j] => i = j
        /\ \A l \in Lines(payload) : \E i \in DOMAIN servers : line[i] = l
    BY <2>3, Fun_BijectionProperties
  <2>5. CASE IsServer(parseShareLink(link))
    <3>1. PICK T : T = {j \in DOMAIN payload : payload[j] = link}
      OBVIOUS
    <3>2. T \subseteq Lines(payload) /\ IsFiniteSet(T)
      <4>1. T \in SUBSET DOMAIN payload
        BY <3>1
      <4> QED
        BY <2>2, <2>5, <3>1, <4>1, FS_Subset DEF Lines
    <3>3. PICK f : f = [i \in S |-> line[i]]
      OBVIOUS
    <3>4. f \in [S -> T]
      <4> SUFFICES ASSUME NEW i \in S PROVE line[i] \in T
        BY <3>3
      <4>1. i \in DOMAIN servers /\ payload[line[i]] = link
        BY <2>1, <2>3
      <4> QED
        BY <2>4, <3>1, <4>1 DEF Lines
    <3>5. \A i, j \in S : f[i] = f[j] => i = j
      BY <2>1, <2>4, <3>3
    <3>6. \A t \in T : \E i \in S : f[i] = t
      <4> SUFFICES ASSUME NEW t \in T PROVE \E i \in S : f[i] = t
        OBVIOUS
      <4>1. PICK i \in DOMAIN servers : line[i] = t
        BY <2>4, <3>2
      <4>2. i \in S
        BY <2>1, <2>3, <3>1, <4>1
      <4> QED
        BY <3>3, <4>1, <4>2
    <3>7. f \in Bijection(S, T)
      BY <3>4, <3>5, <3>6, OneToOne
    <3>8. ExistsBijection(T, S)
      BY <3>7, Fun_BijInverse DEF ExistsBijection
    <3>9. Cardinality(S) = Cardinality(T)
      BY <3>2, <3>8, FS_Bijection
    <3> QED
      BY <2>1, <2>2, <2>5, <3>1, <3>9
  <2>6. CASE ~IsServer(parseShareLink(link))
    <3>1. S = {}
      <4> SUFFICES ASSUME NEW i \in S PROVE FALSE
        OBVIOUS
      <4>1. line[i] \in Lines(payload) /\ payload[line[i]] = link
        BY <2>1, <2>3, <2>4
      <4> QED
        BY <2>6, <4>1 DEF Lines
    <3> QED
      BY <2>1, <2>2, <2>6, <3>1, FS_EmptySet
  <2> QED
    BY <2>5, <2>6
<1>2. Inv /\ ListInv => NothingLost
  BY <1>1 DEF NothingLost
<1> QED
  BY <1>2, InvHolds, ListInvHolds, PTL

\* After a test of any list, what is shown beside the servers is in the order they are shown in,
\* but for servers that share a link.
THEOREM ListShownSorted == Spec => ShownSorted
<1> DEFINE Sorted ==
       latencies' # latencies =>
         \A i, j \in DOMAIN servers' : i < j =>
             LET a == latencies'[servers'[i].raw]
                 b == latencies'[servers'[j].raw]
             IN  \/ b = Null \/ (a # Null /\ a <= b)
                 \/ \E k \in DOMAIN servers' \ {j} : servers'[k].raw = servers'[j].raw
                 \/ \E k \in DOMAIN servers' \ {i} : servers'[k].raw = servers'[i].raw
<1>1. ASSUME Inv, ListInv, [Next]_vars PROVE Sorted
  <2> SUFFICES ASSUME latencies' # latencies, NEW i \in DOMAIN servers', NEW j \in DOMAIN servers', i < j,
                      \A k \in DOMAIN servers' \ {j} : servers'[k].raw # servers'[j].raw,
                      \A k \in DOMAIN servers' \ {i} : servers'[k].raw # servers'[i].raw
               PROVE  LET a == latencies'[servers'[i].raw]
                          b == latencies'[servers'[j].raw]
                      IN  b = Null \/ (a # Null /\ a <= b)
    OBVIOUS
  <2>1. ShowResults
    BY <1>1 DEF Next, LoadSubscription, HeadersArrive, TimerFires, Body, LoadEnds, LoadGoesOn,
                Publish, PingAll, Timers, Answers, Rest, appVars, vars
  <2>2. PICK rank : rank = Ranking
    OBVIOUS
  <2>3. PICK raw : raw = [k \in Index |-> targets[rank[k]].raw]
    OBVIOUS
  <2>4. /\ DOMAIN servers' = Index /\ \A k \in Index : servers'[k].raw = raw[k]
        /\ \A k \in Index : rank[k] \in Index /\ latencyMs[rank[k]] \in Nat \cup {Null}
        /\ \A k, l \in Index : k < l => Faster(rank[k], rank[l])
        /\ Index \subseteq Nat
    <3>1. servers' = [k \in Index |-> targets[rank[k]]]
      BY <2>1, <2>2 DEF ShowResults
    <3>2. \A k, l \in Index : k < l => Faster(rank[k], rank[l])
      BY <1>1, <2>2, Ranked DEF Inv, TestInv
    <3>3. \A k \in Index : rank[k] \in Index
      BY <1>1, <2>2, Ranked, Fun_BijectionProperties DEF Inv, TestInv
    <3> QED
      BY <1>1, <2>3, <3>1, <3>2, <3>3 DEF Inv, TestInv, PoolInv, Index
  <2>5. ASSUME NEW h \in Index, \A k \in Index \ {h} : raw[k] # raw[h]
        PROVE  latencies'[raw[h]] = latencyMs[rank[h]]
    <3>1. latencies' = [r \in {targets[l].raw : l \in Index} |->
                          latencyMs[rank[CHOOSE k \in Index :
                              /\ targets[rank[k]].raw = r
                              /\ \A l \in Index : targets[rank[l]].raw = r => l <= k]]]
      BY <2>1, <2>2 DEF ShowResults
    <3>2. raw[h] \in {targets[l].raw : l \in Index}
      BY <2>3, <2>4
    <3>3. \A k \in Index : targets[rank[k]].raw = raw[k]
      BY <2>3
    <3>4. h <= h
      BY <2>4
    <3>5. \A k \in Index : (/\ targets[rank[k]].raw = raw[h]
                            /\ \A l \in Index : targets[rank[l]].raw = raw[h] => l <= k) <=> k = h
      BY <2>5, <3>3, <3>4
    <3>6. (CHOOSE k \in Index : /\ targets[rank[k]].raw = raw[h]
                                /\ \A l \in Index : targets[rank[l]].raw = raw[h] => l <= k) = h
      BY <3>5
    <3> QED
      BY <3>1, <3>2, <3>6
  <2>6. /\ latencies'[servers'[i].raw] = latencyMs[rank[i]]
        /\ latencies'[servers'[j].raw] = latencyMs[rank[j]]
    <3>1. i \in Index /\ \A k \in Index \ {i} : raw[k] # raw[i]
      BY <2>4
    <3>2. j \in Index /\ \A k \in Index \ {j} : raw[k] # raw[j]
      BY <2>4
    <3>3. latencies'[raw[i]] = latencyMs[rank[i]] /\ latencies'[raw[j]] = latencyMs[rank[j]]
      BY <2>5, <3>1, <3>2
    <3> QED
      BY <2>4, <3>1, <3>2, <3>3
  <2>7. PICK a, b : a = latencies'[servers'[i].raw] /\ b = latencies'[servers'[j].raw]
    OBVIOUS
  <2>8. a \in Nat \cup {Null} /\ b \in Nat \cup {Null} /\ a = latencyMs[rank[i]] /\ b = latencyMs[rank[j]]
    BY <2>4, <2>6, <2>7
  <2>9. Faster(rank[i], rank[j])
    BY <2>4
  <2>10. b = Null \/ (a # Null /\ a <= b)
    BY <2>8, <2>9 DEF Faster
  <2> QED
    BY <2>7, <2>10
<1> QED
  BY <1>1, InvHolds, ListInvHolds, PTL DEF Spec, ShownSorted
-----------------------------------------------------------------------------
(* The configuration of any server.                                        *)

LEMMA FourListed ==
    ASSUME NEW a, NEW b, NEW c, NEW d
    PROVE  LET four == <<a>> \o <<b, c, d>>
           IN  /\ four \in Seq({a, b, c, d}) /\ Len(four) = 4 /\ DOMAIN four = 1..4
               /\ four[1] = a /\ four[2] = b /\ four[3] = c /\ four[4] = d
<1> DEFINE S == {a, b, c, d}
<1>1. <<a>> \in Seq(S) /\ <<b, c, d>> \in Seq(S)
  OBVIOUS
<1>2. /\ <<a>> \o <<b, c, d>> \in Seq(S)
      /\ Len(<<a>> \o <<b, c, d>>) = Len(<<a>>) + Len(<<b, c, d>>)
      /\ \A i \in 1 .. Len(<<a>>) + Len(<<b, c, d>>) :
            (<<a>> \o <<b, c, d>>)[i] = IF i <= Len(<<a>>) THEN <<a>>[i] ELSE <<b, c, d>>[i - Len(<<a>>)]
  BY <1>1, ConcatProperties
<1> QED
  BY <1>2, LenProperties

LEMMA FiveListed ==
    ASSUME NEW a, NEW b, NEW c, NEW d, NEW e
    PROVE  LET five == Append(<<a>> \o <<b, c, d>>, e)
           IN  /\ DOMAIN five = 1..5
               /\ five[1] = a /\ five[2] = b /\ five[3] = c /\ five[4] = d /\ five[5] = e
<1>1. PICK four : four = <<a>> \o <<b, c, d>>
  OBVIOUS
<1>2. /\ four \in Seq({a, b, c, d}) /\ Len(four) = 4
      /\ four[1] = a /\ four[2] = b /\ four[3] = c /\ four[4] = d
  BY <1>1, FourListed
<1>3. PICK S : S = {a, b, c, d, e}
  OBVIOUS
<1>4. four \in Seq(S) /\ e \in S
  BY <1>2, <1>3, SeqMonotonic
<1>5. /\ Append(four, e) \in Seq(S) /\ Len(Append(four, e)) = Len(four) + 1
      /\ \A i \in 1..Len(four) : Append(four, e)[i] = four[i]
      /\ Append(four, e)[Len(four) + 1] = e
  BY <1>4, AppendProperties
<1>6. DOMAIN Append(four, e) = 1..5
  BY <1>2, <1>5, LenProperties
<1> QED
  BY <1>1, <1>2, <1>5, <1>6

LEMMA OneAppended ==
    ASSUME NEW outs, NEW rules, NEW e
    PROVE  LET plain == [outbounds |-> outs, rules |-> rules]
               hopped == [plain EXCEPT !.outbounds = Append(@, e)]
           IN  /\ plain.outbounds = outs /\ plain.rules = rules
               /\ hopped.outbounds = Append(outs, e) /\ hopped.rules = rules
<1>1. PICK plain : plain = [outbounds |-> outs, rules |-> rules]
  OBVIOUS
<1>2. PICK more : more = Append(outs, e)
  OBVIOUS
<1>3. [plain EXCEPT !.outbounds = Append(@, e)] = [plain EXCEPT !.outbounds = more]
  BY <1>1, <1>2
<1> QED
  BY <1>1, <1>2, <1>3

\* The outbounds of a configuration: the proxy, the three there always are, and the hop.
LEMMA ConfigListed ==
    ASSUME NEW server, NEW options
    PROVE  LET config == buildXrayConfig(server, options)
               hop    == Get(options, "olcrtcTag")
               four   == <<buildOutbound(server, options.proxyTag, hop)>> \o
                         <<Builtin("freedom", "direct"), Builtin("blackhole", "block"),
                           Builtin("dns", "dns-out")>>
           IN  /\ config.outbounds = IF hop = "" THEN four
                                     ELSE Append(four, Socks(hop, Local, options.olcrtcPort))
               /\ config.rules = Rules(options.proxyTag)
<1> DEFINE hop  == Get(options, "olcrtcTag")
           four == <<buildOutbound(server, options.proxyTag, hop)>> \o Builtins
<1>1. PICK outs, rules, socks : /\ outs = four /\ rules = Rules(options.proxyTag)
                                /\ socks = Socks(hop, Local, options.olcrtcPort)
  OBVIOUS
<1>2. PICK plain : plain = [outbounds |-> outs, rules |-> rules]
  OBVIOUS
<1>3. buildXrayConfig(server, options) =
        IF hop = "" THEN plain ELSE [plain EXCEPT !.outbounds = Append(@, socks)]
  BY <1>1, <1>2 DEF buildXrayConfig, Config
<1>4. CASE hop = ""
  <2>1. buildXrayConfig(server, options) = plain
    BY <1>3, <1>4
  <2>2. plain.outbounds = outs /\ plain.rules = rules
    BY <1>2
  <2> QED
    BY <1>1, <1>4, <2>1, <2>2 DEF Builtins
<1>5. CASE hop # ""
  <2>1. /\ [plain EXCEPT !.outbounds = Append(@, socks)].outbounds = Append(outs, socks)
        /\ [plain EXCEPT !.outbounds = Append(@, socks)].rules = rules
    BY <1>2, OneAppended
  <2> QED
    BY <1>1, <1>3, <1>5, <2>1 DEF Builtins
<1> QED
  BY <1>4, <1>5

\* The tags of a configuration's outbounds, and of those they are dialed through, by place.
Tagged(outs, proxyTag, hop) ==
    /\ DOMAIN outs \subseteq 1..5 /\ 1..4 \subseteq DOMAIN outs
    /\ 5 \in DOMAIN outs <=> hop # ""
    /\ outs[1].tag = proxyTag /\ outs[1].stream.dialerProxy = hop
    /\ outs[2].tag = "direct" /\ outs[2].stream.dialerProxy = ""
    /\ outs[3].tag = "block" /\ outs[3].stream.dialerProxy = ""
    /\ outs[4].tag = "dns-out" /\ outs[4].stream.dialerProxy = ""
    /\ hop # "" => outs[5].tag = hop /\ outs[5].stream.dialerProxy = ""

LEMMA ConfigTags ==
    ASSUME NEW server, NEW options, NEW hop, hop = Get(options, "olcrtcTag"),
           NEW outs, outs = buildXrayConfig(server, options).outbounds
    PROVE  Tagged(outs, options.proxyTag, hop)
<1>1. PICK a, b, c, d, e :
         /\ a = buildOutbound(server, options.proxyTag, hop) /\ b = Builtin("freedom", "direct")
         /\ c = Builtin("blackhole", "block") /\ d = Builtin("dns", "dns-out")
         /\ e = Socks(hop, Local, options.olcrtcPort)
  OBVIOUS
<1>2. /\ a.tag = options.proxyTag /\ a.stream.dialerProxy = hop
      /\ b.tag = "direct" /\ b.stream.dialerProxy = ""
      /\ c.tag = "block" /\ c.stream.dialerProxy = ""
      /\ d.tag = "dns-out" /\ d.stream.dialerProxy = ""
      /\ e.tag = hop /\ e.stream.dialerProxy = ""
  BY <1>1 DEF buildOutbound, buildStreamSettings, Builtin, Socks, NoStream
<1>3. outs = IF hop = "" THEN <<a>> \o <<b, c, d>> ELSE Append(<<a>> \o <<b, c, d>>, e)
  BY <1>1, ConfigListed
<1>4. CASE hop = ""
  <2>1. outs = <<a>> \o <<b, c, d>>
    BY <1>3, <1>4
  <2>2. DOMAIN outs = 1..4 /\ outs[1] = a /\ outs[2] = b /\ outs[3] = c /\ outs[4] = d
    BY <2>1, FourListed
  <2>3. DOMAIN outs \subseteq 1..5 /\ 1..4 \subseteq DOMAIN outs /\ 5 \notin DOMAIN outs
    BY <2>2
  <2> QED
    BY <1>2, <1>4, <2>2, <2>3 DEF Tagged
<1>5. CASE hop # ""
  <2>1. outs = Append(<<a>> \o <<b, c, d>>, e)
    BY <1>3, <1>5
  <2>2. /\ DOMAIN outs = 1..5
        /\ outs[1] = a /\ outs[2] = b /\ outs[3] = c /\ outs[4] = d /\ outs[5] = e
    BY <2>1, FiveListed
  <2>3. DOMAIN outs \subseteq 1..5 /\ 1..4 \subseteq DOMAIN outs /\ 5 \in DOMAIN outs
    BY <2>2
  <2> QED
    BY <1>2, <1>5, <2>2, <2>3 DEF Tagged
<1> QED
  BY <1>4, <1>5

LEMMA RuleTags ==
    ASSUME NEW proxyTag, NEW rules, rules = Rules(proxyTag)
    PROVE  /\ DOMAIN rules = 1..3 /\ rules[1].outboundTag = "dns-out"
           /\ rules[2].outboundTag = "direct" /\ rules[3].outboundTag = proxyTag
<1>1. PICK first, second, third : /\ first = [of |-> "port 53", outboundTag |-> "dns-out"]
                                  /\ second = [of |-> "private ranges", outboundTag |-> "direct"]
                                  /\ third = [of |-> "tun-in", outboundTag |-> proxyTag]
  OBVIOUS
<1>2. rules = <<first, second, third>>
  BY <1>1 DEF Rules
<1>3. DOMAIN rules = 1..3
  BY <1>2
<1>4. rules[1] = first /\ rules[2] = second /\ rules[3] = third
  BY <1>2
<1>5. /\ first.outboundTag = "dns-out" /\ second.outboundTag = "direct"
      /\ third.outboundTag = proxyTag
  BY <1>1
<1> QED
  BY <1>3, <1>4, <1>5

\* Whatever the server and whoever chose the tags, a configuration refers to no outbound that it
\* lacks or has twice: the hop the proxy is dialed through is there whenever it is asked for.
THEOREM AllReferencesResolve == Spec => []ReferencesResolve
<1>1. ASSUME NEW server, NEW options \in Options, NEW tag \in References(buildXrayConfig(server, options))
      PROVE  Cardinality(OutboundsOf(buildXrayConfig(server, options), tag)) = 1
  <2>1. PICK config, outs, hop : /\ config = buildXrayConfig(server, options)
                                 /\ outs = config.outbounds /\ hop = Get(options, "olcrtcTag")
    OBVIOUS
  <2>3. /\ DOMAIN outs \subseteq 1..5 /\ 1..4 \subseteq DOMAIN outs
        /\ 5 \in DOMAIN outs <=> hop # ""
        /\ outs[1].tag = options.proxyTag /\ outs[1].stream.dialerProxy = hop
        /\ outs[2].tag = "direct" /\ outs[2].stream.dialerProxy = ""
        /\ outs[3].tag = "block" /\ outs[3].stream.dialerProxy = ""
        /\ outs[4].tag = "dns-out" /\ outs[4].stream.dialerProxy = ""
        /\ hop # "" => outs[5].tag = hop /\ outs[5].stream.dialerProxy = ""
    <3>1. outs = buildXrayConfig(server, options).outbounds
      BY <2>1
    <3>2. Tagged(outs, options.proxyTag, hop)
      BY <2>1, <3>1, ConfigTags
    <3> QED
      BY <3>2 DEF Tagged
  <2>4. /\ options.proxyTag \notin {"", "direct", "block", "dns-out"}
        /\ hop # "" => hop \notin {"direct", "block", "dns-out", options.proxyTag}
    BY <2>1, ServerListAssumption DEF Get
  <2>5. tag \in {"dns-out", "direct", options.proxyTag} \cup ({hop} \ {""})
    <3>1. \A i \in DOMAIN config.rules : config.rules[i].outboundTag \in {"dns-out", "direct", options.proxyTag}
      <4>1. config.rules = Rules(options.proxyTag)
        BY <2>1, ConfigListed
      <4>2. \A i \in 1..3 : i = 1 \/ i = 2 \/ i = 3
        OBVIOUS
      <4> QED
        BY <4>1, <4>2, RuleTags
    <3>2. \A i \in DOMAIN outs : outs[i].stream.dialerProxy \in {hop, ""}
      <4>1. \A i \in 1..5 : i = 1 \/ i = 2 \/ i = 3 \/ i = 4 \/ i = 5
        OBVIOUS
      <4> QED
        BY <2>3, <4>1
    <3> QED
      BY <2>1, <3>1, <3>2 DEF References
  <2>6. PICK k \in DOMAIN outs : outs[k].tag = tag
    <3>1. 1 \in 1..4 /\ 2 \in 1..4 /\ 4 \in 1..4
      OBVIOUS
    <3>2. 1 \in DOMAIN outs /\ 2 \in DOMAIN outs /\ 4 \in DOMAIN outs /\ (hop # "" => 5 \in DOMAIN outs)
      BY <2>3, <3>1, Zenon
    <3> QED
      BY <2>3, <2>5, <3>2, Zenon
  <2>7. \A i, j \in DOMAIN outs : outs[i].tag = outs[j].tag => i = j
    <3>1. \A i \in 1..5 : i = 1 \/ i = 2 \/ i = 3 \/ i = 4 \/ i = 5
      OBVIOUS
    <3> QED
      BY <2>3, <2>4, <3>1
  <2>8. OutboundsOf(config, tag) = {k}
    BY <2>1, <2>6, <2>7 DEF OutboundsOf
  <2> QED
    BY <2>1, <2>8, FS_Singleton
<1>2. ReferencesResolve
  BY <1>1 DEF ReferencesResolve
<1> QED
  BY <1>2, PTL
-----------------------------------------------------------------------------
(* What a server says, and what a configuration makes of it.               *)

LEMMA SpreadField ==
    ASSUME NEW a, NEW b, NEW f, NEW missing
    PROVE  /\ f \in DOMAIN a => Field(Spread(a, b), f, missing) = a[f]
           /\ f \notin DOMAIN a => Field(Spread(a, b), f, missing) = Field(b, f, missing)
BY DEF Field, Spread

LEMMA DefinedField ==
    ASSUME NEW parts, NEW f \in DOMAIN parts, NEW missing
    PROVE  Field(Defined(parts), f, missing) = Or(parts[f], missing)
BY DEF Field, Defined, Or

LEMMA OptionalField ==
    ASSUME NEW base, NEW parts, NEW f, f \in DOMAIN parts, f \notin DOMAIN base, NEW missing
    PROVE  Field(Spread(base, Defined(parts)), f, missing) = Or(parts[f], missing)
<1>1. Field(Spread(base, Defined(parts)), f, missing) = Field(Defined(parts), f, missing)
  BY SpreadField
<1>2. Field(Defined(parts), f, missing) = Or(parts[f], missing)
  BY DefinedField
<1> QED
  BY <1>1, <1>2

LEMMA OptionalIn ==
    ASSUME NEW base, NEW parts, NEW server, server = Spread(base, Defined(parts))
    PROVE  \A f \in DOMAIN parts : \A missing :
              f \notin DOMAIN base => Field(server, f, missing) = Or(parts[f], missing)
BY OptionalField

\* Where a server is and what it authenticates by are given.
Complete(at, secret) == at.host # "" /\ at.port # 0 /\ at.written # "unclosed" /\ secret # ""

\* The server says what is meant: where it is, and what t and s ask for.
Says(server, protocol, at, t, s) ==
    /\ {"protocol", "address", "port", "network", "security"} \subseteq DOMAIN server
    /\ server.protocol = protocol /\ server.address = at.host /\ server.port = at.port
    /\ server.network = t.net /\ server.security = s.security
    /\ s.security # "none" => Field(server, "sni", "") = Or(s.sni, s.peer)
    /\ s.security = "reality" => Field(server, "publicKey", "") = s.key
    /\ t.net # "grpc" => Field(server, "path", "/") = Or(t.path, "/")
    /\ t.net = "grpc" => Field(server, "serviceName", "") = t.path
    /\ Field(server, "host", "") = t.host
    /\ \A missing : Field(server, "headerType", missing) = Or(t.header, missing)

\* The fields that t and s ask for.
Asked(stream, t, s) ==
    /\ {"network", "security"} \subseteq DOMAIN stream
    /\ stream["network"] = t.net /\ stream["security"] = s.security
    /\ Field(stream, "sni", "") = Or(s.sni, s.peer)
    /\ Field(stream, "publicKey", "") = s.key
    /\ t.net # "grpc" => Field(stream, "path", "/") = Or(t.path, "/")
    /\ t.net = "grpc" => Field(stream, "serviceName", "") = t.path
    /\ Field(stream, "host", "") = t.host
    /\ \A missing : Field(stream, "headerType", missing) = Or(t.header, missing)

\* What the query of a link asks for is what its parser takes from it.
LEMMA QueryAsks ==
    ASSUME NEW t, NEW s, NEW default, t.net = Or(t.asked, "tcp"), s.security = Or(s.asked, default)
    PROVE  Asked(streamFromQuery(Query(t, s), default), t, s)
<1>1. PICK query : query = Query(t, s)
  OBVIOUS
<1>2. PICK base, parts, stream :
         /\ base = [network |-> t.net, security |-> s.security]
         /\ parts = [sni |-> Or(s.sni, s.peer), publicKey |-> s.key,
                     path |-> IF t.net = "grpc" THEN "" ELSE t.path, host |-> t.host,
                     serviceName |-> IF t.net = "grpc" THEN t.path ELSE "", flow |-> "",
                     headerType |-> t.header]
         /\ stream = Spread(base, Defined(parts))
  OBVIOUS
<1>3. streamFromQuery(query, default) = stream
  <2>1. /\ Get(query, "type") = t.asked /\ Get(query, "security") = s.asked
        /\ Get(query, "sni") = s.sni /\ Get(query, "peer") = s.peer /\ Get(query, "pbk") = s.key
        /\ Get(query, "path") = IF t.net = "grpc" THEN "" ELSE t.path
        /\ Get(query, "serviceName") = IF t.net = "grpc" THEN t.path ELSE ""
        /\ Get(query, "host") = t.host /\ Get(query, "flow") = ""
        /\ Get(query, "headerType") = t.header
    <3>1. /\ DOMAIN query = {"type", "security", "headerType", "host", "path", "serviceName", "sni",
                             "peer", "pbk"}
          /\ query["type"] = t.asked /\ query["security"] = s.asked /\ query["host"] = t.host
          /\ query["headerType"] = t.header /\ query["sni"] = s.sni /\ query["peer"] = s.peer
          /\ query["pbk"] = s.key
          /\ query["path"] = IF t.net = "grpc" THEN "" ELSE t.path
          /\ query["serviceName"] = IF t.net = "grpc" THEN t.path ELSE ""
      BY <1>1 DEF Query
    <3> QED
      BY <3>1 DEF Get
  <2>2. base = [network |-> Or(Get(query, "type"), "tcp"), security |-> Or(Get(query, "security"), default)]
    BY <1>2, <2>1
  <2>3. parts = [sni |-> Or(Get(query, "sni"), Get(query, "peer")), publicKey |-> Get(query, "pbk"),
                 path |-> Get(query, "path"), host |-> Get(query, "host"),
                 serviceName |-> Get(query, "serviceName"), flow |-> Get(query, "flow"),
                 headerType |-> Get(query, "headerType")]
    BY <1>2, <2>1, Zenon
  <2> QED
    BY <1>2, <2>2, <2>3, Zenon DEF streamFromQuery
<1>4. /\ DOMAIN base = {"network", "security"} /\ base["network"] = t.net /\ base["security"] = s.security
      /\ DOMAIN parts = {"sni", "publicKey", "path", "host", "serviceName", "flow", "headerType"}
      /\ parts["sni"] = Or(s.sni, s.peer) /\ parts["publicKey"] = s.key /\ parts["host"] = t.host
      /\ parts["headerType"] = t.header
      /\ t.net # "grpc" => parts["path"] = t.path
      /\ t.net = "grpc" => parts["serviceName"] = t.path
  BY <1>2
<1>5. /\ {"network", "security"} \subseteq DOMAIN stream
      /\ stream["network"] = t.net /\ stream["security"] = s.security
  BY <1>2, <1>4 DEF Spread
<1>6. ASSUME NEW f \in {"sni", "publicKey", "path", "host", "serviceName", "headerType"}, NEW missing
      PROVE  Field(stream, f, missing) = Or(parts[f], missing)
  <2>1. f \in DOMAIN parts /\ f \notin DOMAIN base
    BY <1>4
  <2>2. Field(Spread(base, Defined(parts)), f, missing) = Or(parts[f], missing)
    BY <2>1, OptionalField
  <2> QED
    BY <1>2, <2>2, Zenon
<1>7. Field(stream, "sni", "") = Or(s.sni, s.peer) /\ Field(stream, "publicKey", "") = s.key
  BY <1>4, <1>6 DEF Or
<1>8. t.net # "grpc" => Field(stream, "path", "/") = Or(t.path, "/")
  BY <1>4, <1>6
<1>9. t.net = "grpc" => Field(stream, "serviceName", "") = t.path
  BY <1>4, <1>6 DEF Or
<1>10. Field(stream, "host", "") = t.host
  BY <1>4, <1>6 DEF Or
<1>11. \A missing : Field(stream, "headerType", missing) = Or(t.header, missing)
  BY <1>4, <1>6
<1>12. Asked(stream, t, s)
  BY <1>5, <1>7, <1>8, <1>9, <1>10, <1>11, Zenon DEF Asked
<1> QED
  BY <1>1, <1>3, <1>12, Zenon

\* The server of a link written for vless or trojan; creds is what authenticates.
LEMMA UrlSays ==
    ASSUME NEW scheme, NEW at, NEW secret, NEW fragment, NEW t, NEW s, NEW default, NEW creds, NEW link,
           link = UrlLink(scheme, at, secret, fragment, t, s),
           Complete(at, secret),
           t.net = Or(t.asked, "tcp"), s.security = Or(s.asked, default),
           DOMAIN creds \cap {"protocol", "tag", "address", "port", "raw", "network", "security", "sni",
                              "publicKey", "path", "serviceName", "host", "headerType"} = {}
    PROVE  /\ Says(parseAuthority(link, creds, default), scheme, at, t, s)
           /\ \A f \in DOMAIN creds : /\ f \in DOMAIN parseAuthority(link, creds, default)
                                      /\ parseAuthority(link, creds, default)[f] = creds[f]
<1>1. PICK place : place = splitHostPort(link.at)
  OBVIOUS
<1>2. place.host = at.host /\ place.port = at.port
  BY <1>1 DEF splitHostPort, UrlLink, Complete
<1>3. PICK base, stream, rest, server :
         /\ base = [protocol |-> scheme, tag |-> Tag(fragment, scheme, place),
                    address |-> at.host, port |-> at.port, raw |-> link]
         /\ stream = streamFromQuery(link.query, default)
         /\ rest = Spread(creds, stream)
         /\ server = Spread(base, rest)
  OBVIOUS
<1>4. parseAuthority(link, creds, default) = server
  <2>1. link.userinfo = secret /\ link.scheme = scheme /\ link.fragment = fragment
    BY DEF UrlLink
  <2> QED
    BY <1>1, <1>2, <1>3, <2>1 DEF parseAuthority, Complete
<1>5. /\ DOMAIN base = {"protocol", "tag", "address", "port", "raw"} /\ base["protocol"] = scheme
      /\ base["address"] = at.host /\ base["port"] = at.port
  BY <1>3
<1>6. Asked(stream, t, s)
  <2>1. link.query = Query(t, s)
    BY DEF UrlLink
  <2>2. stream = streamFromQuery(Query(t, s), default)
    BY <1>3, <2>1, Zenon
  <2> QED
    BY <2>2, QueryAsks, Zenon
<1>7. /\ DOMAIN server = DOMAIN base \cup (DOMAIN creds \cup DOMAIN stream)
      /\ \A f \in DOMAIN base : server[f] = base[f]
      /\ \A f \in DOMAIN creds : f \notin DOMAIN base => server[f] = creds[f]
      /\ \A f \in DOMAIN stream : f \notin DOMAIN base /\ f \notin DOMAIN creds => server[f] = stream[f]
  <2>1. /\ DOMAIN rest = DOMAIN creds \cup DOMAIN stream
        /\ \A f \in DOMAIN rest : rest[f] = IF f \in DOMAIN creds THEN creds[f] ELSE stream[f]
    BY <1>3 DEF Spread
  <2>2. /\ DOMAIN server = DOMAIN base \cup DOMAIN rest
        /\ \A f \in DOMAIN server : server[f] = IF f \in DOMAIN base THEN base[f] ELSE rest[f]
    BY <1>3 DEF Spread
  <2> QED
    BY <2>1, <2>2
<1>8. ASSUME NEW f \in {"network", "security", "sni", "publicKey", "path", "serviceName", "host", "headerType"},
             NEW missing
      PROVE  /\ f \in DOMAIN stream => f \in DOMAIN server /\ server[f] = stream[f]
             /\ Field(server, f, missing) = Field(stream, f, missing)
  <2>1. f \notin DOMAIN base /\ f \notin DOMAIN creds
    BY <1>5
  <2> QED
    BY <1>7, <2>1 DEF Field
<1>9. Says(server, scheme, at, t, s)
  <2>1. /\ {"protocol", "address", "port"} \subseteq DOMAIN server
        /\ server["protocol"] = scheme /\ server["address"] = at.host /\ server["port"] = at.port
    BY <1>5, <1>7
  <2>2. /\ {"network", "security"} \subseteq DOMAIN server
        /\ server["network"] = t.net /\ server["security"] = s.security
    BY <1>6, <1>8 DEF Asked
  <2>3. /\ Field(server, "sni", "") = Field(stream, "sni", "")
        /\ Field(server, "publicKey", "") = Field(stream, "publicKey", "")
        /\ Field(server, "path", "/") = Field(stream, "path", "/")
        /\ Field(server, "serviceName", "") = Field(stream, "serviceName", "")
        /\ Field(server, "host", "") = Field(stream, "host", "")
        /\ \A missing : Field(server, "headerType", missing) = Field(stream, "headerType", missing)
    BY <1>8
  <2> QED
    BY <1>6, <2>1, <2>2, <2>3 DEF Asked, Says
<1>10. \A f \in DOMAIN creds : f \in DOMAIN server /\ server[f] = creds[f]
  BY <1>5, <1>7
<1> QED
  BY <1>4, <1>9, <1>10, Zenon

\* A server of vmess has TLS or no security, and no peer.
OfVmess(s) == /\ s.peer = ""
              /\ \/ s.security = "none" /\ s.asked = ""
                 \/ s.security = "tls" /\ s.asked = "tls"

LEMMA VmessSays ==
    ASSUME NEW at, NEW secret, NEW name, NEW t, NEW s, NEW link,
           link = VmessLink(at, secret, name, t, s), Complete(at, secret),
           t.net = Or(t.asked, "tcp"), OfVmess(s)
    PROVE  /\ Says(parseVmess(link), "vmess", at, t, s)
           /\ "id" \in DOMAIN parseVmess(link) /\ parseVmess(link)["id"] = secret
<1>1. PICK json, net : json = link.json /\ net = t.net
  OBVIOUS
<1>2. /\ DOMAIN json = {"add", "port", "id", "ps", "scy", "net", "type", "host", "path", "tls", "sni"}
      /\ json.add = at.host /\ json.port = at.port /\ json.id = secret /\ json.net = t.asked
      /\ json.type = t.header /\ json.host = t.host /\ json.path = t.path /\ json.tls = s.asked
      /\ json.sni = s.sni
  BY <1>1 DEF VmessLink
<1>3. json # <<>>
  <2>1. <<>> \in Seq({}) /\ Len(<<>>) = 0
    BY EmptySeq
  <2>2. DOMAIN <<>> = 1..0
    BY <2>1, LenProperties
  <2>3. 1..0 = {}
    OBVIOUS
  <2>4. DOMAIN <<>> # DOMAIN json
    BY <1>2, <2>2, <2>3
  <2> QED
    BY <2>4
<1>4. PICK base, parts, server :
         /\ base = [protocol |-> "vmess", address |-> json.add, port |-> json.port, raw |-> link,
                    tag |-> Tag(json.ps, "vmess", [host |-> json.add, port |-> json.port]),
                    encryption |-> Or(json.scy, "auto"), network |-> net,
                    security |-> IF json.tls \in {"tls", "reality"} THEN json.tls ELSE "none"]
         /\ parts = [id |-> json.id, sni |-> json.sni, host |-> json.host, headerType |-> json.type,
                     path |-> IF net = "grpc" THEN "" ELSE json.path,
                     serviceName |-> IF net = "grpc" THEN json.path ELSE ""]
         /\ server = Spread(base, Defined(parts))
  OBVIOUS
<1>5. parseVmess(link) = server
  <2>1. net = Or(json.net, "tcp") /\ json.add # "" /\ json.port # 0
    BY <1>1, <1>2 DEF Complete
  <2> QED
    BY <1>1, <1>3, <1>4, <2>1 DEF parseVmess
<1>6. /\ DOMAIN base = {"protocol", "address", "port", "raw", "tag", "encryption", "network", "security"}
      /\ base["protocol"] = "vmess" /\ base["address"] = at.host /\ base["port"] = at.port
      /\ base["network"] = t.net /\ base["security"] = s.security
  BY <1>1, <1>2, <1>4 DEF OfVmess
<1>7. /\ DOMAIN parts = {"id", "sni", "host", "headerType", "path", "serviceName"}
      /\ parts["id"] = secret /\ parts["sni"] = s.sni /\ parts["host"] = t.host
      /\ parts["headerType"] = t.header
      /\ t.net # "grpc" => parts["path"] = t.path
      /\ t.net = "grpc" => parts["serviceName"] = t.path
  BY <1>1, <1>2, <1>4
<1>8. /\ DOMAIN server = DOMAIN base \cup DOMAIN Defined(parts)
      /\ \A f \in DOMAIN base : server[f] = base[f]
      /\ \A f \in DOMAIN Defined(parts) : f \notin DOMAIN base => server[f] = Defined(parts)[f]
  BY <1>4 DEF Spread
<1>9. "id" \in DOMAIN server /\ server["id"] = secret
  <2>1. "id" \in DOMAIN Defined(parts) /\ Defined(parts)["id"] = secret
    BY <1>7 DEF Defined, Complete
  <2> QED
    BY <1>6, <1>8, <2>1
<1>10. ASSUME NEW f \in {"sni", "path", "host", "serviceName", "headerType"}, NEW missing
       PROVE  Field(server, f, missing) = Or(parts[f], missing)
  <2>1. f \in DOMAIN parts /\ f \notin DOMAIN base
    BY <1>6, <1>7
  <2>2. server = Spread(base, Defined(parts))
    BY <1>4
  <2> QED
    BY <2>1, <2>2, OptionalIn
<1>11. Says(server, "vmess", at, t, s)
  <2>1. /\ {"protocol", "address", "port", "network", "security"} \subseteq DOMAIN server
        /\ server["protocol"] = "vmess" /\ server["address"] = at.host /\ server["port"] = at.port
        /\ server["network"] = t.net /\ server["security"] = s.security
    BY <1>6, <1>8
  <2>2. s.security # "reality" /\ Field(server, "sni", "") = Or(s.sni, s.peer)
    BY <1>7, <1>10 DEF Or, OfVmess
  <2>3. t.net # "grpc" => Field(server, "path", "/") = Or(t.path, "/")
    BY <1>7, <1>10
  <2>4. t.net = "grpc" => Field(server, "serviceName", "") = t.path
    BY <1>7, <1>10 DEF Or
  <2>5. Field(server, "host", "") = t.host
    BY <1>7, <1>10 DEF Or
  <2>6. \A missing : Field(server, "headerType", missing) = Or(t.header, missing)
    BY <1>7, <1>10
  <2> QED
    BY <2>1, <2>2, <2>3, <2>4, <2>5, <2>6 DEF Says
<1> QED
  BY <1>5, <1>9, <1>11, Zenon

LEMMA Pair ==
    ASSUME NEW a, NEW b
    PROVE  <<a, b>> # <<>> /\ Head(<<a, b>>) = a /\ <<a, b>>[1] = a /\ <<a, b>>[2] = b
<1>1. <<a, b>> \in Seq({a, b}) /\ Len(<<a, b>>) = 2
  OBVIOUS
<1>2. <<a, b>> # <<>>
  BY <1>1, EmptySeq
<1>3. <<a, b>>[1] = a /\ <<a, b>>[2] = b
  OBVIOUS
<1>4. Head(<<a, b>>) = <<a, b>>[1]
  BY <1>1, <1>2, HeadTailProperties
<1> QED
  BY <1>2, <1>3, <1>4

\* No transport and no security is asked for.
Bare(t, s) == t.net = "tcp" /\ t.path = "" /\ t.host = "" /\ t.header = "" /\ s.security = "none"

LEMMA SsSays ==
    ASSUME NEW form, NEW at, NEW method, NEW secret, NEW fragment, NEW t, NEW s, NEW link,
           link = SsLink(form, at, method, secret, fragment),
           Complete(at, secret), Complete(at, method), Bare(t, s)
    PROVE  /\ Says(parseShadowsocks(link), "shadowsocks", at, t, s)
           /\ "password" \in DOMAIN parseShadowsocks(link)
           /\ parseShadowsocks(link)["password"] = secret
<1>1. PICK creds, place : /\ creds = <<method, secret>> /\ place = splitHostPort(link.at)
  OBVIOUS
<1>2. link.creds = creds /\ place.host = at.host /\ place.port = at.port
  BY <1>1 DEF splitHostPort, SsLink, Complete
<1>3. creds # <<>> /\ Head(creds) = method /\ creds[1] = method /\ creds[2] = secret
  BY <1>1, Pair
<1>4. PICK server :
         server = [protocol |-> "shadowsocks", tag |-> Tag(link.fragment, "ss", place),
                   address |-> at.host, port |-> at.port, method |-> method, password |-> secret,
                   network |-> "tcp", security |-> "none", raw |-> link]
  OBVIOUS
<1>5. parseShadowsocks(link) = server
  <2>1. ~(\/ link.creds = <<>> \/ splitHostPort(link.at).host = "" \/ splitHostPort(link.at).port = 0
          \/ link.form = "SIP002" /\ Head(link.creds) = "")
    BY <1>1, <1>2, <1>3 DEF Complete
  <2>2. parseShadowsocks(link) =
          [protocol |-> "shadowsocks", tag |-> Tag(link.fragment, "ss", splitHostPort(link.at)),
           address |-> splitHostPort(link.at).host, port |-> splitHostPort(link.at).port,
           method |-> link.creds[1], password |-> link.creds[2],
           network |-> "tcp", security |-> "none", raw |-> link]
    BY <2>1, Zenon DEF parseShadowsocks
  <2> QED
    BY <1>1, <1>2, <1>3, <1>4, <2>2
<1>6. /\ DOMAIN server = {"protocol", "tag", "address", "port", "method", "password", "network",
                          "security", "raw"}
      /\ server["protocol"] = "shadowsocks" /\ server["address"] = at.host /\ server["port"] = at.port
      /\ server["network"] = "tcp" /\ server["security"] = "none" /\ server["password"] = secret
  BY <1>4
<1>8. \A f \in {"sni", "publicKey", "path", "serviceName", "host", "headerType"} : \A missing :
         Field(server, f, missing) = missing
  BY <1>6 DEF Field
<1>9. Says(server, "shadowsocks", at, t, s)
  BY <1>6, <1>8 DEF Says, Or, Bare
<1> QED
  BY <1>5, <1>6, <1>9, Zenon

-----------------------------------------------------------------------------
LEMMA TcpAsked ==
    ASSUME NEW t \in TcpPlain
    PROVE  \E asked \in Optional({"tcp"}), header \in Optional({"none"}) : t = Tcp(asked, header)
BY DEF TcpPlain

LEMMA TcpListed ==
    ASSUME NEW asked \in Optional({"tcp"}), NEW header \in Optional({"none"})
    PROVE  Tcp(asked, header) \in TcpPlain
BY DEF TcpPlain

LEMMA WebKeys ==
    ASSUME NEW web \in Web
    PROVE  \/ web.net = "ws" /\ web.key = "wsSettings"
           \/ web.net = "httpupgrade" /\ web.key = "httpupgradeSettings"
           \/ web.net = "xhttp" /\ web.key = "xhttpSettings"
           \/ web.net = "h2" /\ web.key = "httpSettings"
<1>1. CASE web = [net |-> "ws", key |-> "wsSettings"]
  BY <1>1
<1>2. CASE web = [net |-> "httpupgrade", key |-> "httpupgradeSettings"]
  BY <1>2
<1>3. CASE web = [net |-> "xhttp", key |-> "xhttpSettings"]
  BY <1>3
<1>4. CASE web = [net |-> "h2", key |-> "httpSettings"]
  BY <1>4
<1> QED
  BY <1>1, <1>2, <1>3, <1>4, Zenon DEF Web

\* What Says says of a server is what the engine is given.
LEMMA BuiltAsAsked ==
    ASSUME NEW write, NEW t \in Transports(write), NEW s, NEW server, NEW protocol, NEW at,
           Says(server, protocol, at, t, s)
    PROVE  buildTransportSettings(server) = t.settings
<1>1. /\ server.network = t.net
      /\ t.net # "grpc" => Path(server) = Or(t.path, "/")
      /\ t.net = "grpc" => Field(server, "serviceName", "") = t.path
      /\ Field(server, "host", "") = t.host
      /\ Field(server, "headerType", "") = t.header
      /\ Field(server, "headerType", "none") = Or(t.header, "none")
  <2>1. \A missing : Field(server, "headerType", missing) = Or(t.header, missing)
    BY DEF Says
  <2>2. Or(t.header, "") = t.header
    BY DEF Or
  <2>3. server.network = t.net
    BY DEF Says
  <2> QED
    BY <2>1, <2>2, <2>3 DEF Says, Path
<1>2. PICK network, path, host : /\ network = server.network /\ path = Path(server)
                                 /\ host = Field(server, "host", "")
  OBVIOUS
<1>3. /\ network = "ws" => buildTransportSettings(server) =
            [key |-> "wsSettings", value |-> Defined([path |-> path, host |-> host])]
      /\ network = "httpupgrade" => buildTransportSettings(server) =
            [key |-> "httpupgradeSettings", value |-> Defined([path |-> path, host |-> host])]
      /\ network = "xhttp" => buildTransportSettings(server) =
            [key |-> "xhttpSettings", value |-> Defined([path |-> path, host |-> host])]
      /\ network = "h2" => buildTransportSettings(server) =
            [key |-> "httpSettings", value |-> Defined([path |-> path, host |-> host])]
  BY <1>2 DEF buildTransportSettings
<1>4. /\ network = "grpc" => buildTransportSettings(server) =
            [key |-> "grpcSettings", value |-> [serviceName |-> Field(server, "serviceName", "")]]
      /\ network = "kcp" => buildTransportSettings(server) =
            [key |-> "kcpSettings", value |-> Defined([header |-> Field(server, "headerType", "none")])]
  BY <1>2 DEF buildTransportSettings
<1>5. network = "tcp" =>
         buildTransportSettings(server) =
            IF Field(server, "headerType", "") = "http"
            THEN [key |-> "tcpSettings", value |-> Defined([header |-> "http", host |-> host])]
            ELSE NoTransport
  BY <1>2 DEF buildTransportSettings
<1>6. CASE t \in TcpPlain
  <2>1. PICK asked \in Optional({"tcp"}), header \in Optional({"none"}) : t = Tcp(asked, header)
    BY <1>6, TcpAsked, Zenon
  <2>2. t.net = "tcp" /\ t.header = header /\ t.settings = [key |-> "", value |-> <<>>]
    BY <2>1 DEF Tcp, Transport
  <2>3. t.settings = NoTransport
    BY <2>1, <2>2 DEF NoTransport
  <2>4. t.header # "http"
    BY <2>1, <2>2 DEF Optional
  <2> QED
    BY <1>1, <1>2, <1>5, <2>2, <2>3, <2>4
<1>7. CASE t \in TcpHttp(write)
  <2>1. PICK asked, host1, value :
               /\ t = Transport("tcp", asked, "", host1, "http", "tcpSettings", value)
               /\ value = Defined([header |-> "http", host |-> host1])
    <3>1. PICK asked, host1 : t = Http(asked, host1)
      BY <1>7 DEF TcpHttp
    <3> QED
      BY <3>1 DEF Http
  <2>2. /\ t.net = "tcp" /\ t.header = "http" /\ t.host = host1
        /\ t.settings = [key |-> "tcpSettings", value |-> value]
    BY <2>1 DEF Transport
  <2> QED
    BY <1>1, <1>2, <1>5, <2>1, <2>2
<1>8. CASE t \in WebLike(write)
  <2>1. PICK web, path1, host1, value :
               /\ web \in Web
               /\ t = Transport(web.net, web.net, path1, host1, "", web.key, value)
               /\ value = Defined([path |-> Or(path1, "/"), host |-> host1])
    <3>1. PICK web, path1, host1 : web \in Web /\ t = OfWeb(web, path1, host1)
      BY <1>8 DEF WebLike
    <3> QED
      BY <3>1 DEF OfWeb
  <2>2. /\ t.net = web.net /\ t.path = path1 /\ t.host = host1
        /\ t.settings = [key |-> web.key, value |-> value]
    BY <2>1 DEF Transport
  <2>3. \/ web.net = "ws" /\ web.key = "wsSettings"
        \/ web.net = "httpupgrade" /\ web.key = "httpupgradeSettings"
        \/ web.net = "xhttp" /\ web.key = "xhttpSettings"
        \/ web.net = "h2" /\ web.key = "httpSettings"
    <3>1. web \in Web
      BY <2>1, Zenon
    <3> QED
      BY <3>1, WebKeys, Zenon
  <2>4. path = Or(path1, "/") /\ host = host1 /\ network = web.net
    BY <1>1, <1>2, <2>2, <2>3
  <2>5. value = Defined([path |-> path, host |-> host])
    BY <2>1, <2>4
  <2> QED
    BY <1>3, <2>2, <2>3, <2>4, <2>5
<1>9. CASE t \in Grpc(write)
  <2>1. PICK service, value : /\ t = Transport("grpc", "grpc", service, "", "", "grpcSettings", value)
                              /\ value = [serviceName |-> service]
    BY <1>9, Zenon DEF Grpc
  <2>2. /\ t.net = "grpc" /\ t.path = service
        /\ t.settings = [key |-> "grpcSettings", value |-> value]
    BY <2>1 DEF Transport
  <2> QED
    BY <1>1, <1>2, <1>4, <2>1, <2>2
<1>10. CASE t \in Kcp(write)
  <2>1. PICK header, value : /\ t = Transport("kcp", "kcp", "", "", header, "kcpSettings", value)
                             /\ value = Defined([header |-> Or(header, "none")])
    BY <1>10, Zenon DEF Kcp
  <2>2. /\ t.net = "kcp" /\ t.header = header
        /\ t.settings = [key |-> "kcpSettings", value |-> value]
    BY <2>1 DEF Transport
  <2> QED
    BY <1>1, <1>2, <1>4, <2>1, <2>2
<1> QED
  BY <1>6, <1>7, <1>8, <1>9, <1>10 DEF Transports

LEMMA SecuredAsAsked ==
    ASSUME NEW security \in {"none", "tls", "reality"}, NEW asked, NEW sni, NEW peer, NEW key, NEW s,
           s = Secure(security, asked, sni, peer, key), NEW server, NEW protocol, NEW at, NEW t,
           Says(server, protocol, at, t, s)
    PROVE  Secured(server) = s.secured
<1>1. /\ s.security = security /\ s.sni = sni /\ s.peer = peer /\ s.key = key
      /\ s.secured = CASE security = "none" -> <<>>
                       [] security = "tls" -> Defined([serverName |-> Or(sni, peer)])
                       [] security = "reality" -> Defined([serverName |-> Or(sni, peer), publicKey |-> key])
  BY DEF Secure, Or
<1>2. server.security = security
  BY <1>1 DEF Says
<1>3. CASE security = "none"
  BY <1>1, <1>2, <1>3 DEF Secured
<1>4. CASE security = "tls"
  <2>1. Field(server, "sni", "") = Or(sni, peer)
    BY <1>1, <1>4 DEF Says
  <2> QED
    BY <1>1, <1>2, <1>4, <2>1 DEF Secured
<1>5. CASE security = "reality"
  <2>1. Field(server, "sni", "") = Or(sni, peer) /\ Field(server, "publicKey", "") = key
    BY <1>1, <1>5 DEF Says
  <2> QED
    BY <1>1, <1>2, <1>5, <2>1 DEF Secured
<1> QED
  BY <1>3, <1>4, <1>5

\* How each security of a link is asked for, and what its parser takes for the one left out.
SecurityOf(s, default) ==
    \E security \in {"none", "tls", "reality"} : \E asked, sni, peer, key :
        s = Secure(security, asked, sni, peer, key) /\ security = Or(asked, default)

LEMMA SecuritiesAsked ==
    ASSUME NEW write, NEW implied \in {"none", "tls"}, NEW s \in Securities(implied, write)
    PROVE  SecurityOf(s, implied)
<1>1. CASE s \in AllStated(write)
  <2>1. PICK security \in {"none", "tls", "reality"}, sni \in Optional(write.name),
             peer \in Optional(write.name), key \in Optional(write.key) :
                s = Stated(security, sni, peer, key)
    BY <1>1 DEF AllStated
  <2>2. security = Or(security, implied)
    BY DEF Or
  <2> QED
    BY <2>1, <2>2 DEF SecurityOf, Stated
<1>2. CASE s \in AllImplied(implied, write)
  <2>1. PICK sni \in Optional(write.name), peer \in Optional(write.name), key \in Optional(write.key) :
                s = Implied(implied, sni, peer, key)
    BY <1>2 DEF AllImplied
  <2>2. implied = Or("", implied)
    BY DEF Or
  <2> QED
    BY <2>1, <2>2 DEF SecurityOf, Implied
<1> QED
  BY <1>1, <1>2 DEF Securities

LEMMA VmessSecurity ==
    ASSUME NEW write, NEW s \in VmessSecurities(write)
    PROVE  OfVmess(s) /\ SecurityOf(s, "none")
<1>1. CASE s = Implied("none", "", "", "")
  BY <1>1 DEF OfVmess, SecurityOf, Implied, Secure, Or
<1>2. CASE \E sni : s = Stated("tls", sni, "", "")
  <2>1. PICK sni : s = Secure("tls", "tls", sni, "", "")
    BY <1>2 DEF Stated
  <2>2. s.security = "tls" /\ s.asked = "tls" /\ s.peer = ""
    BY <2>1 DEF Secure
  <2>3. SecurityOf(s, "none")
    <3>1. "tls" = Or("tls", "none")
      BY DEF Or
    <3> QED
      BY <2>1, <3>1 DEF SecurityOf
  <2> QED
    BY <2>2, <2>3 DEF OfVmess
<1> QED
  BY <1>1, <1>2, Zenon DEF VmessSecurities

LEMMA SecurityFields ==
    ASSUME NEW s, NEW default, SecurityOf(s, default)
    PROVE  s.security = Or(s.asked, default)
<1>1. PICK security, asked, sni, peer, key :
         s = Secure(security, asked, sni, peer, key) /\ security = Or(asked, default)
  BY DEF SecurityOf
<1>2. s.security = security /\ s.asked = asked
  BY <1>1 DEF Secure
<1> QED
  BY <1>1, <1>2

LEMMA TransportFields ==
    ASSUME NEW write, NEW t \in Transports(write)
    PROVE  t.net = Or(t.asked, "tcp")
<1>1. CASE t \in TcpPlain
  <2>1. PICK asked \in Optional({"tcp"}), header \in Optional({"none"}) : t = Tcp(asked, header)
    BY <1>1, TcpAsked, Zenon
  <2>2. t.net = "tcp" /\ t.asked = asked
    BY <2>1 DEF Tcp, Transport
  <2> QED
    BY <2>2 DEF Or, Optional
<1>2. CASE t \in TcpHttp(write)
  <2>1. PICK asked \in Optional({"tcp"}), host \in Optional(write.host) : t = Http(asked, host)
    BY <1>2 DEF TcpHttp
  <2>2. t.net = "tcp" /\ t.asked = asked
    BY <2>1 DEF Http, Transport
  <2> QED
    BY <2>2 DEF Or, Optional
<1>3. CASE t \in WebLike(write)
  <2>1. PICK web, path, host : web \in Web /\ t = OfWeb(web, path, host)
    BY <1>3 DEF WebLike
  <2>2. t.net = web.net /\ t.asked = web.net
    BY <2>1 DEF OfWeb, Transport
  <2>3. \/ web.net = "ws" /\ web.key = "wsSettings"
        \/ web.net = "httpupgrade" /\ web.key = "httpupgradeSettings"
        \/ web.net = "xhttp" /\ web.key = "xhttpSettings"
        \/ web.net = "h2" /\ web.key = "httpSettings"
    <3>1. web \in Web
      BY <2>1, Zenon
    <3> QED
      BY <3>1, WebKeys, Zenon
  <2> QED
    BY <2>2, <2>3 DEF Or
<1>4. CASE t \in Grpc(write)
  <2>1. PICK service, value : t = Transport("grpc", "grpc", service, "", "", "grpcSettings", value)
    BY <1>4, Zenon DEF Grpc
  <2> QED
    BY <2>1 DEF Transport, Or
<1>5. CASE t \in Kcp(write)
  <2>1. PICK header, value : t = Transport("kcp", "kcp", "", "", header, "kcpSettings", value)
    BY <1>5, Zenon DEF Kcp
  <2> QED
    BY <2>1 DEF Transport, Or
<1> QED
  BY <1>1, <1>2, <1>3, <1>4, <1>5 DEF Transports

\* A server authenticates by its secret.
AuthenticatesBy(server, protocol, secret) ==
    \/ protocol \in {"vless", "vmess"} /\ "id" \in DOMAIN server /\ server["id"] = secret
    \/ protocol \in {"trojan", "shadowsocks"} /\ "password" \in DOMAIN server /\ server["password"] = secret

LEMMA PasswordOf ==
    ASSUME NEW x, NEW y, NEW c, c = [password |-> x, flow |-> y] \/ c = [method |-> y, password |-> x]
    PROVE  "password" \in DOMAIN c /\ c["password"] = x
OBVIOUS

LEMMA IdOf ==
    ASSUME NEW x, NEW y, NEW z, NEW c,
           c = [id |-> x, security |-> y] \/ c = [id |-> x, encryption |-> y, flow |-> z]
    PROVE  "id" \in DOMAIN c /\ c["id"] = x
OBVIOUS

LEMMA SecretGiven ==
    ASSUME NEW server, NEW protocol, NEW secret, NEW at, server.protocol = protocol,
           AuthenticatesBy(server, protocol, secret), Complete(at, secret)
    PROVE  \E f \in DOMAIN Defined(Credentials(server)) : Defined(Credentials(server))[f] = secret
<1>1. \E f \in DOMAIN Credentials(server) : Credentials(server)[f] = secret
  <2>1. CASE protocol = "vless"
    <3>1. "id" \in DOMAIN server /\ server["id"] = secret
      BY <2>1 DEF AuthenticatesBy
    <3>2. Credentials(server) = [id |-> secret, encryption |-> Field(server, "encryption", "none"),
                                 flow |-> Field(server, "flow", "")]
      BY <2>1, <3>1 DEF Credentials, Field
    <3>3. "id" \in DOMAIN Credentials(server) /\ Credentials(server)["id"] = secret
      BY <3>2, IdOf
    <3> QED
      BY <3>3
  <2>2. CASE protocol = "vmess"
    <3>1. "id" \in DOMAIN server /\ server["id"] = secret
      BY <2>2 DEF AuthenticatesBy
    <3>2. Credentials(server) = [id |-> secret, security |-> Field(server, "encryption", "auto")]
      BY <2>2, <3>1 DEF Credentials, Field
    <3>3. "id" \in DOMAIN Credentials(server) /\ Credentials(server)["id"] = secret
      BY <3>2, IdOf
    <3> QED
      BY <3>3
  <2>3. CASE protocol = "trojan"
    <3>1. server["password"] = secret
      BY <2>3 DEF AuthenticatesBy
    <3>2. Credentials(server) = [password |-> secret, flow |-> Field(server, "flow", "")]
      BY <2>3, <3>1 DEF Credentials
    <3>3. "password" \in DOMAIN Credentials(server) /\ Credentials(server)["password"] = secret
      BY <3>2, PasswordOf
    <3> QED
      BY <3>3
  <2>4. CASE protocol = "shadowsocks"
    <3>1. server["password"] = secret
      BY <2>4 DEF AuthenticatesBy
    <3>2. Credentials(server) = [method |-> server.method, password |-> secret]
      BY <2>4, <3>1 DEF Credentials
    <3>3. "password" \in DOMAIN Credentials(server) /\ Credentials(server)["password"] = secret
      BY <3>2, PasswordOf
    <3> QED
      BY <3>3
  <2> QED
    BY <2>1, <2>2, <2>3, <2>4 DEF AuthenticatesBy
<1>2. secret # ""
  BY DEF Complete
<1> QED
  BY <1>1, <1>2 DEF Defined

\* A server is what is meant by a link.
AsMeant(server, meant) ==
    /\ server.protocol = meant.protocol
    /\ server.address = meant.address /\ server.port = meant.port
    /\ \E f \in DOMAIN Defined(Credentials(server)) : Defined(Credentials(server))[f] = meant.secret
    /\ server.network = meant.network /\ server.security = meant.security
    /\ Secured(server) = meant.secured /\ buildTransportSettings(server) = meant.transport

LEMMA SaysAsMeant ==
    ASSUME NEW write, NEW t \in Transports(write), NEW s, NEW default, SecurityOf(s, default),
           NEW at, NEW secret, Complete(at, secret), NEW protocol, NEW server,
           Says(server, protocol, at, t, s), AuthenticatesBy(server, protocol, secret)
    PROVE  AsMeant(server, Meant(protocol, at.host, at.port, secret, t, s))
<1>1. PICK meant : meant = Meant(protocol, at.host, at.port, secret, t, s)
  OBVIOUS
<1>2. /\ meant.protocol = protocol /\ meant.address = at.host /\ meant.port = at.port
      /\ meant.secret = secret /\ meant.network = t.net /\ meant.security = s.security
      /\ meant.transport = t.settings /\ meant.secured = s.secured
  BY <1>1 DEF Meant
<1>3. /\ server.protocol = protocol /\ server.address = at.host /\ server.port = at.port
      /\ server.network = t.net /\ server.security = s.security
  BY DEF Says
<1>4. buildTransportSettings(server) = t.settings
  BY BuiltAsAsked
<1>5. Secured(server) = s.secured
  BY SecuredAsAsked DEF SecurityOf
<1>6. \E f \in DOMAIN Defined(Credentials(server)) : Defined(Credentials(server))[f] = secret
  BY <1>3, SecretGiven
<1>7. AsMeant(server, meant)
  BY <1>2, <1>3, <1>4, <1>5, <1>6 DEF AsMeant
<1> QED
  BY <1>1, <1>7

\* Each link that is written is a server that is what was meant.
LEMMA WrittenUnderstood ==
    ASSUME NEW write, Writable(write), NEW link \in Written(write)
    PROVE  AsMeant(parseShareLink(link), link.meant)
<1>1. ASSUME NEW at \in Ats(write), NEW secret \in write.secret
      PROVE  Complete(at, secret)
  <2>1. at.host \in write.address /\ at.port \in write.port /\ at.written \in {"plain", "bracketed"}
    BY <1>1 DEF Ats
  <2> QED
    BY <1>1, <2>1 DEF Complete, Writable
<1>2. ASSUME link \in UrlLinks("vless", "none", write)
      PROVE  AsMeant(parseShareLink(link), link.meant)
  <2>1. PICK at \in Ats(write), secret \in write.secret, fragment \in Optional(write.tag),
             t \in Transports(write), s \in Securities("none", write) :
                link = UrlLink("vless", at, secret, fragment, t, s)
    BY <1>2 DEF UrlLinks
  <2>2. PICK creds, server :
               /\ creds = [id |-> link.userinfo, encryption |-> Or(Get(link.query, "encryption"), "none")]
               /\ server = parseAuthority(link, creds, "none")
    OBVIOUS
  <2>3. /\ link.scheme = "vless" /\ link.userinfo = secret
        /\ link.meant = Meant("vless", at.host, at.port, secret, t, s)
    BY <2>1 DEF UrlLink
  <2>4. parseShareLink(link) = server
    BY <2>2, <2>3 DEF parseShareLink, parseVless
  <2>5. DOMAIN creds = {"id", "encryption"} /\ creds["id"] = secret
    BY <2>2, <2>3
  <2>6. Complete(at, secret) /\ SecurityOf(s, "none") /\ t.net = Or(t.asked, "tcp")
    BY <1>1, SecuritiesAsked, TransportFields
  <2>7. s.security = Or(s.asked, "none")
    BY <2>6, SecurityFields
  <2>8. /\ Says(server, "vless", at, t, s)
        /\ \A f \in DOMAIN creds : f \in DOMAIN server /\ server[f] = creds[f]
    BY <2>1, <2>2, <2>5, <2>6, <2>7, UrlSays
  <2>9. AuthenticatesBy(server, "vless", secret)
    BY <2>5, <2>8 DEF AuthenticatesBy
  <2>10. AsMeant(server, Meant("vless", at.host, at.port, secret, t, s))
    BY <2>6, <2>8, <2>9, SaysAsMeant
  <2> QED
    BY <2>3, <2>4, <2>10
<1>3. ASSUME link \in UrlLinks("trojan", "tls", write)
      PROVE  AsMeant(parseShareLink(link), link.meant)
  <2>1. PICK at \in Ats(write), secret \in write.secret, fragment \in Optional(write.tag),
             t \in Transports(write), s \in Securities("tls", write) :
                link = UrlLink("trojan", at, secret, fragment, t, s)
    BY <1>3 DEF UrlLinks
  <2>2. PICK creds, server : /\ creds = [password |-> link.userinfo]
                             /\ server = parseAuthority(link, creds, "tls")
    OBVIOUS
  <2>3. /\ link.scheme = "trojan" /\ link.userinfo = secret
        /\ link.meant = Meant("trojan", at.host, at.port, secret, t, s)
    BY <2>1 DEF UrlLink
  <2>4. parseShareLink(link) = server
    BY <2>2, <2>3 DEF parseShareLink, parseTrojan
  <2>5. DOMAIN creds = {"password"} /\ creds["password"] = secret
    BY <2>2, <2>3
  <2>6. Complete(at, secret) /\ SecurityOf(s, "tls") /\ t.net = Or(t.asked, "tcp")
    BY <1>1, SecuritiesAsked, TransportFields
  <2>7. s.security = Or(s.asked, "tls")
    BY <2>6, SecurityFields
  <2>8. /\ Says(server, "trojan", at, t, s)
        /\ \A f \in DOMAIN creds : f \in DOMAIN server /\ server[f] = creds[f]
    BY <2>1, <2>2, <2>5, <2>6, <2>7, UrlSays
  <2>9. AuthenticatesBy(server, "trojan", secret)
    BY <2>5, <2>8 DEF AuthenticatesBy
  <2>10. AsMeant(server, Meant("trojan", at.host, at.port, secret, t, s))
    BY <2>6, <2>8, <2>9, SaysAsMeant
  <2> QED
    BY <2>3, <2>4, <2>10
<1>4. ASSUME link \in VmessLinks(write)
      PROVE  AsMeant(parseShareLink(link), link.meant)
  <2>1. PICK at \in Ats(write), secret \in write.secret, name \in Optional(write.tag),
             t \in Transports(write), s \in VmessSecurities(write) :
                link = VmessLink(at, secret, name, t, s)
    BY <1>4 DEF VmessLinks
  <2>2. /\ link.scheme = "vmess" /\ link.meant = Meant("vmess", at.host, at.port, secret, t, s)
    BY <2>1 DEF VmessLink
  <2>3. parseShareLink(link) = parseVmess(link)
    BY <2>2 DEF parseShareLink
  <2>4. OfVmess(s) /\ SecurityOf(s, "none")
    BY VmessSecurity
  <2>5. Complete(at, secret) /\ t.net = Or(t.asked, "tcp")
    BY <1>1, TransportFields
  <2>6. PICK server : server = parseVmess(link)
    OBVIOUS
  <2>7. Says(server, "vmess", at, t, s) /\ "id" \in DOMAIN server /\ server["id"] = secret
    BY <2>1, <2>4, <2>5, <2>6, VmessSays
  <2>8. AuthenticatesBy(server, "vmess", secret)
    BY <2>7 DEF AuthenticatesBy
  <2>9. AsMeant(server, Meant("vmess", at.host, at.port, secret, t, s))
    BY <2>4, <2>5, <2>7, <2>8, SaysAsMeant
  <2> QED
    BY <2>2, <2>3, <2>6, <2>9
<1>5. ASSUME link \in SsLinks(write)
      PROVE  AsMeant(parseShareLink(link), link.meant)
  <2>1. PICK form \in {"SIP002", "legacy"}, at \in Ats(write), method \in write.method,
             secret \in write.secret, fragment \in Optional(write.tag) :
                link = SsLink(form, at, method, secret, fragment)
    BY <1>5 DEF SsLinks
  <2>2. PICK t, s : t = Tcp("", "") /\ s = Implied("none", "", "", "")
    OBVIOUS
  <2>3. link.scheme = "ss" /\ link.meant = Meant("shadowsocks", at.host, at.port, secret, t, s)
    BY <2>1, <2>2 DEF SsLink
  <2>4. parseShareLink(link) = parseShadowsocks(link)
    BY <2>3 DEF parseShareLink
  <2>5. t \in Transports(write)
    <3>1. "" \in Optional({"tcp"}) /\ "" \in Optional({"none"})
      BY DEF Optional
    <3>2. Tcp("", "") \in TcpPlain
      BY <3>1, TcpListed
    <3> QED
      BY <2>2, <3>2 DEF Transports
  <2>6. Bare(t, s)
    BY <2>2 DEF Bare, Tcp, Transport, Implied, Secure
  <2>7. SecurityOf(s, "none")
    BY <2>2 DEF SecurityOf, Implied, Or
  <2>8. Complete(at, secret) /\ Complete(at, method)
    <3>1. method # ""
      BY DEF Writable
    <3> QED
      BY <1>1, <3>1 DEF Complete
  <2>9. PICK server : server = parseShadowsocks(link)
    OBVIOUS
  <2>10. Says(server, "shadowsocks", at, t, s) /\ "password" \in DOMAIN server /\ server["password"] = secret
    <3>1. link = SsLink(form, at, method, secret, fragment)
      BY <2>1
    <3> QED
      <4>1. /\ Says(parseShadowsocks(link), "shadowsocks", at, t, s)
            /\ "password" \in DOMAIN parseShadowsocks(link)
            /\ parseShadowsocks(link)["password"] = secret
        BY <2>6, <2>8, <3>1, SsSays
      <4> QED
        BY <2>9, <4>1
  <2>11. AuthenticatesBy(server, "shadowsocks", secret)
    BY <2>10 DEF AuthenticatesBy
  <2>12. AsMeant(server, Meant("shadowsocks", at.host, at.port, secret, t, s))
    BY <2>5, <2>7, <2>8, <2>10, <2>11, SaysAsMeant
  <2> QED
    BY <2>3, <2>4, <2>9, <2>12
<1> QED
  BY <1>2, <1>3, <1>4, <1>5 DEF Written

LEMMA WrittenAccepted ==
    ASSUME NEW write, Writable(write), NEW link \in Written(write)
    PROVE  IsServer(parseShareLink(link))
<1>1. PICK server : server = parseShareLink(link)
  OBVIOUS
<1>2. server.protocol = link.meant.protocol
  BY <1>1, WrittenUnderstood DEF AsMeant
<1>3. link.meant.protocol \in {"vless", "trojan", "vmess", "shadowsocks"}
  <2>1. ASSUME NEW at, NEW secret, NEW t, NEW s, NEW protocol
        PROVE  Meant(protocol, at.host, at.port, secret, t, s).protocol = protocol
    BY DEF Meant
  <2>2. CASE link \in UrlLinks("vless", "none", write)
    BY <2>1, <2>2 DEF UrlLinks, UrlLink
  <2>3. CASE link \in UrlLinks("trojan", "tls", write)
    BY <2>1, <2>3 DEF UrlLinks, UrlLink
  <2>4. CASE link \in VmessLinks(write)
    <3>1. PICK at, secret, name, t, s : link = VmessLink(at, secret, name, t, s)
      BY <2>4 DEF VmessLinks
    <3>2. link.meant = Meant("vmess", at.host, at.port, secret, t, s)
      BY <3>1 DEF VmessLink
    <3> QED
      BY <2>1, <3>2
  <2>5. CASE link \in SsLinks(write)
    <3>1. PICK form \in {"SIP002", "legacy"}, at \in Ats(write), method \in write.method,
               secret \in write.secret, fragment \in Optional(write.tag) :
                  link = SsLink(form, at, method, secret, fragment)
      BY <2>5 DEF SsLinks
    <3>2. PICK t, s : t = Tcp("", "") /\ s = Implied("none", "", "", "")
      OBVIOUS
    <3>3. link.meant = Meant("shadowsocks", at.host, at.port, secret, t, s)
      BY <3>1, <3>2 DEF SsLink
    <3> QED
      BY <2>1, <3>3
  <2> QED
    BY <2>2, <2>3, <2>4, <2>5 DEF Written
<1>4. NoServer.protocol = "none"
  BY DEF NoServer
<1> QED
  BY <1>1, <1>2, <1>3, <1>4 DEF IsServer

-----------------------------------------------------------------------------
LEMMA RulesOf ==
    ASSUME NEW proxyTag, NEW rules, rules = Rules(proxyTag)
    PROVE  rules[1].of = "port 53" /\ rules[2].of = "private ranges" /\ rules[3].of = "tun-in"
<1>1. PICK first, second, third : /\ first = [of |-> "port 53", outboundTag |-> "dns-out"]
                                  /\ second = [of |-> "private ranges", outboundTag |-> "direct"]
                                  /\ third = [of |-> "tun-in", outboundTag |-> proxyTag]
  OBVIOUS
<1>2. rules = <<first, second, third>>
  BY <1>1 DEF Rules
<1>3. rules[1] = first /\ rules[2] = second /\ rules[3] = third
  BY <1>2
<1>4. first.of = "port 53" /\ second.of = "private ranges" /\ third.of = "tun-in"
  BY <1>1
<1> QED
  BY <1>3, <1>4

\* The outbounds of a configuration that take what comes out of the tunnel, and that the first
\* of them is dialed through.
LEMMA TunnelTakes ==
    ASSUME NEW server, NEW options \in Options, NEW hop, hop = Get(options, "olcrtcTag"),
           NEW config, config = buildXrayConfig(server, options)
    PROVE  /\ Taken(config) = buildOutbound(server, options.proxyTag, hop)
           /\ hop # "" => OutboundOf(config, hop) = Socks(hop, Local, options.olcrtcPort)
<1>1. PICK outs : outs = config.outbounds
  OBVIOUS
<1>2. Tagged(outs, options.proxyTag, hop)
  BY <1>1, ConfigTags
<1>3. /\ options.proxyTag \notin {"", "direct", "block", "dns-out"}
      /\ hop # "" => hop \notin {"direct", "block", "dns-out", options.proxyTag}
  BY ServerListAssumption DEF Get
<1>4. \A i \in 1..5 : i = 1 \/ i = 2 \/ i = 3 \/ i = 4 \/ i = 5
  OBVIOUS
<1>5. /\ outs[1] = buildOutbound(server, options.proxyTag, hop)
      /\ hop # "" => outs[5] = Socks(hop, Local, options.olcrtcPort)
  <2>1. PICK a, b, c, d, e :
           /\ a = buildOutbound(server, options.proxyTag, hop) /\ b = Builtin("freedom", "direct")
           /\ c = Builtin("blackhole", "block") /\ d = Builtin("dns", "dns-out")
           /\ e = Socks(hop, Local, options.olcrtcPort)
    OBVIOUS
  <2>2. outs = IF hop = "" THEN <<a>> \o <<b, c, d>> ELSE Append(<<a>> \o <<b, c, d>>, e)
    BY <1>1, <2>1, ConfigListed
  <2>3. CASE hop = ""
    <3>1. outs = <<a>> \o <<b, c, d>>
      BY <2>2, <2>3
    <3>2. outs[1] = a
      BY <3>1, FourListed
    <3> QED
      BY <2>1, <2>3, <3>2
  <2>4. CASE hop # ""
    <3>1. outs = Append(<<a>> \o <<b, c, d>>, e)
      BY <2>2, <2>4
    <3>2. outs[1] = a /\ outs[5] = e
      BY <3>1, FiveListed
    <3> QED
      BY <2>1, <3>2
  <2> QED
    BY <2>3, <2>4
<1>6. OutboundsOf(config, options.proxyTag) = {1}
  <2>1. /\ DOMAIN outs \subseteq 1..5 /\ 1 \in DOMAIN outs /\ outs[1].tag = options.proxyTag
        /\ outs[2].tag # options.proxyTag /\ outs[3].tag # options.proxyTag
        /\ outs[4].tag # options.proxyTag
        /\ 5 \in DOMAIN outs => outs[5].tag # options.proxyTag
    <3>1. 1 \in 1..4
      OBVIOUS
    <3>2. DOMAIN outs \subseteq 1..5 /\ 1 \in DOMAIN outs
      BY <1>2, <3>1 DEF Tagged
    <3>3. /\ outs[1].tag = options.proxyTag /\ outs[2].tag # options.proxyTag
          /\ outs[3].tag # options.proxyTag /\ outs[4].tag # options.proxyTag
      BY <1>2, <1>3 DEF Tagged
    <3>4. 5 \in DOMAIN outs => outs[5].tag # options.proxyTag
      BY <1>2, <1>3 DEF Tagged
    <3> QED
      BY <3>2, <3>3, <3>4
  <2>2. \A i \in DOMAIN outs : outs[i].tag = options.proxyTag <=> i = 1
    BY <1>4, <2>1
  <2> QED
    BY <1>1, <2>1, <2>2 DEF OutboundsOf
<1>7. hop # "" => OutboundsOf(config, hop) = {5}
  <2> SUFFICES ASSUME hop # "" PROVE OutboundsOf(config, hop) = {5}
    OBVIOUS
  <2>1. /\ DOMAIN outs \subseteq 1..5 /\ 5 \in DOMAIN outs /\ outs[5].tag = hop
        /\ outs[1].tag # hop /\ outs[2].tag # hop /\ outs[3].tag # hop /\ outs[4].tag # hop
    BY <1>2, <1>3 DEF Tagged
  <2>2. \A i \in DOMAIN outs : outs[i].tag = hop <=> i = 5
    BY <1>4, <2>1
  <2> QED
    BY <1>1, <2>1, <2>2 DEF OutboundsOf
<1>8. (CHOOSE i \in {1} : TRUE) = 1 /\ (CHOOSE i \in {5} : TRUE) = 5
  OBVIOUS
<1>9. config.rules[CHOOSE i \in DOMAIN config.rules : config.rules[i].of = "tun-in"].outboundTag =
         options.proxyTag
  <2>1. PICK rules : rules = config.rules
    OBVIOUS
  <2>2. rules = Rules(options.proxyTag)
    BY <2>1, ConfigListed
  <2>3. DOMAIN rules = 1..3 /\ rules[3].outboundTag = options.proxyTag
    BY <2>2, RuleTags
  <2>4. rules[1].of # "tun-in" /\ rules[2].of # "tun-in" /\ rules[3].of = "tun-in"
    BY <2>2, RulesOf
  <2>5. \A i \in DOMAIN rules : rules[i].of = "tun-in" <=> i = 3
    <3>1. \A i \in 1..3 : i = 1 \/ i = 2 \/ i = 3
      OBVIOUS
    <3> QED
      BY <2>3, <2>4, <3>1
  <2>6. (CHOOSE i \in DOMAIN rules : rules[i].of = "tun-in") = 3
    <3>1. 3 \in DOMAIN rules
      BY <2>3
    <3> QED
      BY <2>5, <3>1
  <2> QED
    BY <2>1, <2>3, <2>6
<1>10. OutboundOf(config, options.proxyTag) = outs[1]
  BY <1>1, <1>6, <1>8 DEF OutboundOf
<1>11. hop # "" => OutboundOf(config, hop) = outs[5]
  BY <1>1, <1>7, <1>8 DEF OutboundOf
<1> QED
  BY <1>5, <1>9, <1>10, <1>11 DEF Taken

\* A server that is what was meant is dialed as it was meant.
LEMMA DialedAsMeant ==
    ASSUME NEW server, NEW options \in Options, HopHasTag(options), NEW meant, AsMeant(server, meant),
           NEW config, config = buildXrayConfig(server, options), NEW out, out = Taken(config)
    PROVE  /\ out.protocol = meant.protocol
           /\ out.settings.address = meant.address /\ out.settings.port = meant.port
           /\ meant.secret \in {out.settings.user[f] : f \in DOMAIN out.settings.user}
           /\ out.stream.network = meant.network /\ out.stream.security = meant.security
           /\ out.stream.secured = meant.secured /\ out.stream.transport = meant.transport
           /\ DialedFirst(config) = IF options.olcrtcPort = 0 THEN <<meant.address, meant.port>>
                                    ELSE <<Local, options.olcrtcPort>>
<1>1. PICK hop, user, secured, transport :
         /\ hop = Get(options, "olcrtcTag") /\ user = Defined(Credentials(server))
         /\ secured = Secured(server) /\ transport = buildTransportSettings(server)
  OBVIOUS
<1>2. out = buildOutbound(server, options.proxyTag, hop)
  BY <1>1, TunnelTakes
<1>3. /\ out.protocol = server.protocol /\ out.settings.address = server.address
      /\ out.settings.port = server.port /\ out.settings.user = user
      /\ out.stream.network = server.network /\ out.stream.security = server.security
      /\ out.stream.secured = secured /\ out.stream.transport = transport
      /\ out.stream.dialerProxy = hop
  BY <1>1, <1>2 DEF buildOutbound, buildSettings, buildStreamSettings
<1>4. hop = "" <=> options.olcrtcPort = 0
  BY <1>1 DEF HopHasTag
<1>5. \E f \in DOMAIN user : user[f] = meant.secret
  BY <1>1 DEF AsMeant
<1>6. CASE hop = ""
  <2>1. DialedFirst(config) = <<out.settings.address, out.settings.port>>
    BY <1>3, <1>6 DEF DialedFirst
  <2> QED
    BY <1>1, <1>3, <1>4, <1>5, <1>6, <2>1 DEF AsMeant
<1>7. CASE hop # ""
  <2>1. PICK socks : socks = Socks(hop, Local, options.olcrtcPort)
    OBVIOUS
  <2>2. OutboundOf(config, hop) = socks
    BY <1>1, <1>7, <2>1, TunnelTakes
  <2>3. socks.settings.address = Local /\ socks.settings.port = options.olcrtcPort
    BY <2>1 DEF Socks
  <2>4. DialedFirst(config) = <<socks.settings.address, socks.settings.port>>
    BY <1>3, <1>7, <2>2 DEF DialedFirst
  <2> QED
    BY <1>1, <1>3, <1>4, <1>5, <1>7, <2>3, <2>4 DEF AsMeant
<1> QED
  BY <1>6, <1>7

\* Whatever is written by the conventions of its scheme is dialed as it was meant, whichever
\* document the list is of and whatever that has in it, in whichever order the list was sorted,
\* and with or without a hop, provided that a hop which is asked for has a tag.
THEOREM DialsWhatIsMeant ==
    ASSUME NEW write, Writable(write),
           \A payload \in Payloads : \A k \in Lines(payload) : payload[k] \in Written(write),
           \A options \in Options : HopHasTag(options)
    PROVE  Spec => []DialsAsMeant
<1>1. ASSUME Inv, ListInv, NEW i \in DOMAIN servers
      PROVE  AsMeant(servers[i], servers[i].raw.meant)
  <2>1. PICK payload : payload = shown.payload
    OBVIOUS
  <2>3. PICK line \in Bijection(DOMAIN servers, Lines(payload)) :
               servers[i] = parseShareLink(payload[line[i]]) /\ servers[i].raw = payload[line[i]]
    BY <1>1, <2>1, ServerOfLine
  <2>4. line[i] \in Lines(payload)
    BY <1>1, <2>3, Fun_BijectionProperties
  <2>5. payload[line[i]] \in Written(write)
    <3>1. payload \in Payloads
      BY <1>1, <2>1, <2>4, Documents DEF ListInv, Lines
    <3> QED
      BY <2>4, <3>1
  <2> QED
    BY <2>3, <2>5, WrittenUnderstood
<1>2. Inv /\ ListInv => DialsAsMeant
  <2> SUFFICES ASSUME Inv, ListInv, NEW i \in DOMAIN servers, NEW options \in Options
               PROVE  LET config == buildXrayConfig(servers[i], options)
                          out    == Taken(config)
                          meant  == servers[i].raw.meant
                      IN  /\ out.protocol = meant.protocol
                          /\ out.settings.address = meant.address /\ out.settings.port = meant.port
                          /\ meant.secret \in {out.settings.user[f] : f \in DOMAIN out.settings.user}
                          /\ out.stream.network = meant.network /\ out.stream.security = meant.security
                          /\ out.stream.secured = meant.secured /\ out.stream.transport = meant.transport
                          /\ DialedFirst(config) = IF options.olcrtcPort = 0
                                                   THEN <<meant.address, meant.port>>
                                                   ELSE <<Local, options.olcrtcPort>>
    BY DEF DialsAsMeant
  <2>1. PICK config, out, meant, server :
           /\ server = servers[i] /\ config = buildXrayConfig(server, options)
           /\ out = Taken(config) /\ meant = server.raw.meant
    OBVIOUS
  <2>2. AsMeant(server, meant) /\ HopHasTag(options)
    BY <1>1, <2>1
  <2> QED
    BY <2>1, <2>2, DialedAsMeant
<1> QED
  BY <1>2, InvHolds, ListInvHolds, PTL

\* Every line of the document the list was made from that is written by the conventions is shown
\* as it was meant, whatever the lines around it are: the parser refuses no link it should take,
\* and takes none for another.  After a test that is the document tested.
THEOREM WrittenLinksShown ==
    ASSUME NEW write, Writable(write)
    PROVE  Spec => [](\A k \in DOMAIN shown.payload : shown.payload[k] \in Written(write) =>
                         \E i \in DOMAIN servers : /\ servers[i].raw = shown.payload[k]
                                                   /\ AsMeant(servers[i], shown.payload[k].meant))
<1>1. ASSUME ListInv, NEW k \in DOMAIN shown.payload, shown.payload[k] \in Written(write)
      PROVE  \E i \in DOMAIN servers : /\ servers[i].raw = shown.payload[k]
                                       /\ AsMeant(servers[i], shown.payload[k].meant)
  <2>1. PICK link : link = shown.payload[k] /\ link \in Written(write)
    BY <1>1
  <2>2. AsMeant(parseShareLink(link), link.meant) /\ IsServer(parseShareLink(link))
    BY <2>1, WrittenUnderstood, WrittenAccepted
  <2>3. k \in Lines(shown.payload)
    BY <1>1, <2>1, <2>2 DEF Lines
  <2>4. PICK line \in Bijection(DOMAIN servers, Lines(shown.payload)) :
               \A i \in DOMAIN servers : /\ servers[i] = parseShareLink(shown.payload[line[i]])
                                         /\ servers[i].raw = shown.payload[line[i]]
    BY <1>1, ServerOfLine
  <2>5. PICK i \in DOMAIN servers : line[i] = k
    BY <2>3, <2>4, Fun_BijectionProperties
  <2> QED
    BY <2>1, <2>2, <2>4, <2>5
<1> DEFINE Shown == \A k \in DOMAIN shown.payload : shown.payload[k] \in Written(write) =>
                       \E i \in DOMAIN servers : /\ servers[i].raw = shown.payload[k]
                                                 /\ AsMeant(servers[i], shown.payload[k].meant)
<1>2. ListInv => Shown
  BY <1>1
<1>3. Spec => []Shown
  BY <1>2, ListInvHolds, PTL
<1> QED
  BY <1>3
=============================================================================
