---------------------------- MODULE DispatchProofs ----------------------------
(***************************************************************************)
(* Proofs about Balance and ProxyDispatch, for any number of servers,      *)
(* tasks and reloads, any weights, any hash and any filter.                *)
(***************************************************************************)
EXTENDS ProxyDispatch, FiniteSetTheorems, WellFoundedInduction, TLAPS

\* Induction with the statement as a set of numbers.
LEMMA SetInduction ==
    ASSUME NEW S \in SUBSET Nat, 0 \in S, \A n \in Nat : n \in S => n + 1 \in S
    PROVE  \A n \in Nat : n \in S
<1> SUFFICES ASSUME Nat \ S # {} PROVE FALSE
  OBVIOUS
<1>1. PICK x \in Nat \ S : \A y \in Nat \ S : ~(<<y, x>> \in OpToRel(<, Nat))
  BY NatLessThanWellFounded, WFMin
<1>2. x # 0 /\ x - 1 \in Nat
  OBVIOUS
<1>3. x - 1 \in S
  <2> SUFFICES ASSUME x - 1 \notin S PROVE FALSE
    OBVIOUS
  <2>1. <<x - 1, x>> \in OpToRel(<, Nat)
    BY <1>2 DEF OpToRel
  <2> QED
    BY <1>1, <1>2, <2>1
<1>4. (x - 1) + 1 \in S
  BY <1>2, <1>3
<1> QED
  BY <1>2, <1>4
-------------------------------------------------------------------------------
(* Weights and points. *)

LEMMA WeightPositive == \A i \in Servers : weight_of(i) \in Nat /\ weight_of(i) >= 1
  BY BalanceAssumption DEF weight_of

\* The equation that defines Cumulative has a solution, so Cumulative solves it.
LEMMA CumulativeDef ==
    Cumulative = [n \in 0 .. N |-> IF n = 0 THEN 0 ELSE Cumulative[n - 1] + weight_of(n - 1)]
<1> DEFINE Sum(g, n) == [m \in 0 .. n |-> IF m = 0 THEN 0 ELSE g[m - 1] + weight_of(m - 1)]
           Solved == {n \in Nat : \E g : g = Sum(g, n)}
<1>1. 0 \in Solved
  <2> DEFINE g == [m \in 0 .. 0 |-> 0]
  <2>1. g = Sum(g, 0)
    OBVIOUS
  <2> QED
    BY <2>1
<1>2. ASSUME NEW n \in Nat, n \in Solved PROVE n + 1 \in Solved
  <2>1. PICK g : g = Sum(g, n)
    BY <1>2
  <2> DEFINE h == [m \in 0 .. n + 1 |-> IF m = n + 1 THEN g[n] + weight_of(n) ELSE g[m]]
  <2>2. ASSUME NEW m \in 0 .. n + 1 PROVE h[m] = IF m = 0 THEN 0 ELSE h[m - 1] + weight_of(m - 1)
    <3>1. CASE m = n + 1
      BY <3>1
    <3>2. CASE m # n + 1
      <4>1. m \in 0 .. n
        BY <3>2
      <4>2. g[m] = IF m = 0 THEN 0 ELSE g[m - 1] + weight_of(m - 1)
        BY <2>1, <4>1
      <4>3. h[m] = g[m] /\ (m # 0 => h[m - 1] = g[m - 1])
        BY <4>1
      <4> QED
        BY <4>2, <4>3
    <3> QED
      BY <3>1, <3>2
  <2>3. h = Sum(h, n + 1)
    BY <2>2
  <2>4. \E f : f = Sum(f, n + 1)
    <3> HIDE DEF h
    <3> QED
      BY <2>3
  <2> QED
    BY <2>4
<1>3. N \in Solved
  <2>1. Solved \in SUBSET Nat
    OBVIOUS
  <2> HIDE DEF Solved
  <2> QED
    BY <1>1, <1>2, <2>1, SetInduction, BalanceAssumption
<1>4. \E g : g = Sum(g, N)
  BY <1>3
<1>5. Cumulative = CHOOSE g : g = Sum(g, N)
  BY DEF Cumulative
<1> QED
  BY <1>4, <1>5

LEMMA CumulativeStep ==
    /\ Cumulative[0] = 0
    /\ \A i \in Servers : Cumulative[i + 1] = Cumulative[i] + weight_of(i)
<1>1. N \in Nat
  BY BalanceAssumption
<1>2. Cumulative[0] = 0
  BY <1>1, CumulativeDef
<1>3. ASSUME NEW i \in Servers PROVE Cumulative[i + 1] = Cumulative[i] + weight_of(i)
  <2>1. i + 1 \in 0 .. N /\ i + 1 # 0 /\ (i + 1) - 1 = i
    BY <1>1 DEF Servers
  <2>2. Cumulative[i + 1] = Cumulative[(i + 1) - 1] + weight_of((i + 1) - 1)
    BY <2>1, CumulativeDef
  <2> QED
    BY <2>1, <2>2
<1> QED
  BY <1>2, <1>3

LEMMA CumulativeNat == \A n \in 0 .. N : Cumulative[n] \in Nat
<1> DEFINE S == {n \in Nat : n <= N => Cumulative[n] \in Nat}
<1>1. N \in Nat
  BY BalanceAssumption
<1>2. 0 \in S
  BY CumulativeStep
<1>3. ASSUME NEW n \in Nat, n \in S PROVE n + 1 \in S
  <2> SUFFICES ASSUME n + 1 <= N PROVE Cumulative[n + 1] \in Nat
    OBVIOUS
  <2>1. n \in Servers /\ Cumulative[n] \in Nat
    BY <1>1, <1>3 DEF Servers
  <2>2. weight_of(n) \in Nat
    BY <2>1, WeightPositive
  <2> QED
    BY <2>1, <2>2, CumulativeStep
<1>4. \A n \in Nat : n \in S
  <2>1. S \in SUBSET Nat
    OBVIOUS
  <2> HIDE DEF S
  <2> QED
    BY <1>2, <1>3, <2>1, SetInduction
<1> QED
  BY <1>1, <1>4

\* The running sum does not decrease.
LEMMA CumulativeMonotone == \A i, j \in 0 .. N : i <= j => Cumulative[i] <= Cumulative[j]
<1> SUFFICES ASSUME NEW i \in 0 .. N PROVE \A j \in 0 .. N : i <= j => Cumulative[i] <= Cumulative[j]
  OBVIOUS
<1> DEFINE S == {n \in Nat : i + n <= N => Cumulative[i] <= Cumulative[i + n]}
<1>1. N \in Nat
  BY BalanceAssumption
<1>2. 0 \in S
  BY CumulativeNat
<1>3. ASSUME NEW n \in Nat, n \in S PROVE n + 1 \in S
  <2> SUFFICES ASSUME i + (n + 1) <= N PROVE Cumulative[i] <= Cumulative[i + (n + 1)]
    OBVIOUS
  <2>1. i + n \in Servers /\ Cumulative[i] <= Cumulative[i + n] /\ i + n \in 0 .. N
    BY <1>1, <1>3 DEF Servers
  <2>2. weight_of(i + n) \in Nat
    BY <2>1, WeightPositive
  <2>3. Cumulative[(i + n) + 1] = Cumulative[i + n] + weight_of(i + n)
    BY <2>1, CumulativeStep
  <2>4. (i + n) + 1 = i + (n + 1)
    BY <1>1
  <2>5. Cumulative[i] \in Nat /\ Cumulative[i + n] \in Nat
    BY <2>1, CumulativeNat
  <2> QED
    BY <2>1, <2>2, <2>3, <2>4, <2>5
<1>4. \A n \in Nat : n \in S
  <2>1. S \in SUBSET Nat
    OBVIOUS
  <2> HIDE DEF S
  <2> QED
    BY <1>2, <1>3, <2>1, SetInduction
<1> SUFFICES ASSUME NEW j \in 0 .. N, i <= j PROVE Cumulative[i] <= Cumulative[j]
  OBVIOUS
<1>5. j - i \in S /\ i + (j - i) = j
  BY <1>1, <1>4
<1> QED
  BY <1>1, <1>5

\* Every point below the total lies in the stretch of some server, and in one only.
LEMMA PointInStretch ==
    \A r \in Nat : r < total_weight =>
        \E i \in Servers : Cumulative[i] <= r /\ r < Cumulative[i + 1]
<1> SUFFICES ASSUME NEW r \in Nat, r < total_weight
             PROVE  \E i \in Servers : Cumulative[i] <= r /\ r < Cumulative[i + 1]
  OBVIOUS
<1> SUFFICES ASSUME \A i \in Servers : ~(Cumulative[i] <= r /\ r < Cumulative[i + 1]) PROVE FALSE
  OBVIOUS
<1> DEFINE S == {n \in Nat : n <= N => Cumulative[n] <= r}
<1>1. N \in Nat
  BY BalanceAssumption
<1>2. 0 \in S
  BY CumulativeStep
<1>3. ASSUME NEW n \in Nat, n \in S PROVE n + 1 \in S
  <2> SUFFICES ASSUME n + 1 <= N PROVE Cumulative[n + 1] <= r
    OBVIOUS
  <2>1. n \in Servers /\ Cumulative[n] <= r /\ n + 1 \in 0 .. N
    BY <1>1, <1>3 DEF Servers
  <2>2. Cumulative[n + 1] \in Nat
    BY <2>1, CumulativeNat
  <2> QED
    BY <2>1, <2>2
<1>4. \A n \in Nat : n \in S
  <2>1. S \in SUBSET Nat
    OBVIOUS
  <2> HIDE DEF S
  <2> QED
    BY <1>2, <1>3, <2>1, SetInduction
<1>5. N \in 0 .. N /\ Cumulative[N] \in Nat
  BY <1>1, CumulativeNat
<1> QED
  BY <1>1, <1>4, <1>5 DEF total_weight

LEMMA TotalPositive == total_weight \in Nat /\ total_weight >= 1
<1>1. N \in Nat /\ N >= 1 /\ 0 \in Servers /\ 1 \in 0 .. N /\ N \in 0 .. N /\ 0 + 1 = 1
  BY BalanceAssumption DEF Servers
<1>2. Cumulative[1] >= 1
  BY <1>1, CumulativeStep, WeightPositive
<1>3. Cumulative[1] <= Cumulative[N] /\ Cumulative[N] \in Nat /\ Cumulative[1] \in Nat
  BY <1>1, CumulativeMonotone, CumulativeNat
<1> QED
  BY <1>2, <1>3 DEF total_weight

\* Quotient and remainder.
LEMMA DivMod ==
    ASSUME NEW a \in Nat, NEW b \in Nat, b >= 1
    PROVE  /\ a % b \in 0 .. b - 1 /\ a \div b \in Nat
           /\ a = b * (a \div b) + (a % b)
  OBVIOUS

LEMMA DivModUnique ==
    ASSUME NEW b \in Nat, b >= 1, NEW q \in Nat, NEW r \in 0 .. b - 1
    PROVE  (b * q + r) \div b = q /\ (b * q + r) % b = r
<1> DEFINE a == b * q + r
           q2 == a \div b
           r2 == a % b
<1>1. a \in Nat
  OBVIOUS
<1>2. q2 \in Nat /\ r2 \in 0 .. b - 1 /\ b * q + r = b * q2 + r2
  BY <1>1, DivMod
<1> HIDE DEF q2, r2
<1>3. ~(q < q2)
  <2> SUFFICES ASSUME q < q2 PROVE FALSE
    OBVIOUS
  <2>1. PICK d \in Nat : q2 = q + 1 + d
    <3>1. q2 - q - 1 \in Nat /\ q2 = q + 1 + (q2 - q - 1)
      BY <1>2
    <3> QED
      BY <3>1
  <2>2. b * q2 = b * q + b + b * d /\ b * d \in Nat
    BY <2>1
  <2> QED
    BY <1>2, <2>2
<1>4. ~(q2 < q)
  <2> SUFFICES ASSUME q2 < q PROVE FALSE
    OBVIOUS
  <2>1. PICK d \in Nat : q = q2 + 1 + d
    <3>1. q - q2 - 1 \in Nat /\ q = q2 + 1 + (q - q2 - 1)
      BY <1>2
    <3> QED
      BY <3>1
  <2>2. b * q = b * q2 + b + b * d /\ b * d \in Nat
    BY <1>2, <2>1
  <2> QED
    BY <1>2, <2>2
<1>5. q2 = q
  BY <1>2, <1>3, <1>4
<1>6. r2 = r
  BY <1>2, <1>5
<1> QED
  BY <1>5, <1>6 DEF q2, r2

\* One step of the cursor: within a round, or into the next.
LEMMA DivModStep ==
    ASSUME NEW a \in Nat, NEW b \in Nat, b >= 1
    PROVE  IF (a % b) + 1 < b THEN (a + 1) \div b = a \div b /\ (a + 1) % b = (a % b) + 1
                            ELSE (a + 1) \div b = (a \div b) + 1 /\ (a + 1) % b = 0
<1> DEFINE q == a \div b
           r == a % b
<1>1. q \in Nat /\ r \in 0 .. b - 1 /\ a = b * q + r
  BY DivMod
<1> HIDE DEF q, r
<1>2. CASE r + 1 < b
  <2>1. a + 1 = b * q + (r + 1) /\ r + 1 \in 0 .. b - 1
    BY <1>1, <1>2
  <2>2. (a + 1) \div b = q /\ (a + 1) % b = r + 1
    BY <1>1, <2>1, DivModUnique
  <2> QED
    BY <1>2, <2>2 DEF q, r
<1>3. CASE ~(r + 1 < b)
  <2>1. a + 1 = b * (q + 1) + 0 /\ 0 \in 0 .. b - 1 /\ q + 1 \in Nat
    BY <1>1, <1>3
  <2>2. (a + 1) \div b = q + 1 /\ (a + 1) % b = 0
    BY <1>1, <2>1, DivModUnique
  <2> QED
    BY <1>3, <2>2 DEF q, r
<1> QED
  BY <1>2, <1>3

\* Every order of candidates names each server once.
Complete(o) == /\ o \in [1 .. N -> Servers]
               /\ \A i, j \in 1 .. N : o[i] = o[j] => i = j
               /\ \A s \in Servers : \E j \in 1 .. N : o[j] = s

LEMMA RingComplete == \A primary \in Servers : Complete(ring_order(primary))
<1> SUFFICES ASSUME NEW primary \in Servers PROVE Complete(ring_order(primary))
  OBVIOUS
<1> DEFINE o == ring_order(primary)
<1>1. N \in Nat /\ N >= 1 /\ primary \in 0 .. N - 1
  BY BalanceAssumption DEF Servers
<1>2. ASSUME NEW a \in 0 .. 2 * N - 1 PROVE a % N = IF a < N THEN a ELSE a - N
  <2>1. CASE a < N
    <3>1. a = N * 0 + a /\ a \in 0 .. N - 1
      BY <1>1, <2>1
    <3>2. a % N = a
      BY <1>1, <3>1, DivModUnique
    <3> QED
      BY <2>1, <3>2
  <2>2. CASE a >= N
    <3>1. a = N * 1 + (a - N) /\ a - N \in 0 .. N - 1
      BY <1>1, <2>2
    <3>2. a % N = a - N
      BY SMTT(40), <1>1, <3>1, DivModUnique
    <3> QED
      BY <1>1, <2>2, <3>2
  <2> QED
    BY <1>1, <2>1, <2>2
<1>3. ASSUME NEW j \in 1 .. N
      PROVE  o[j] = IF primary + j - 1 < N THEN primary + j - 1 ELSE primary + j - 1 - N
  <2>1. primary + j - 1 \in 0 .. 2 * N - 1
    BY <1>1
  <2>2. o[j] = (primary + j - 1) % N
    BY DEF ring_order
  <2> DEFINE a == primary + j - 1
  <2>3. a % N = IF a < N THEN a ELSE a - N
    BY <1>2, <2>1
  <2> QED
    BY <1>1, <2>2, <2>3
<1>4. o = [j \in 1 .. N |-> o[j]]
  BY DEF ring_order
<1> HIDE DEF o
<1>5. o \in [1 .. N -> Servers]
  <2>1. \A j \in 1 .. N : o[j] \in Servers
    BY <1>1, <1>3 DEF Servers
  <2> QED
    BY <1>4, <2>1
<1>6. ASSUME NEW i \in 1 .. N, NEW j \in 1 .. N, o[i] = o[j] PROVE i = j
  BY <1>1, <1>3, <1>6
<1>7. ASSUME NEW s \in Servers PROVE \E j \in 1 .. N : o[j] = s
  <2>1. s \in 0 .. N - 1
    BY DEF Servers
  <2>2. CASE s >= primary
    <3>1. s - primary + 1 \in 1 .. N /\ o[s - primary + 1] = s
      BY <1>1, <1>3, <2>1, <2>2
    <3> QED
      BY <3>1
  <2>3. CASE s < primary
    <3>1. s - primary + N + 1 \in 1 .. N /\ o[s - primary + N + 1] = s
      BY <1>1, <1>3, <2>1, <2>3
    <3> QED
      BY <3>1
  <2> QED
    BY <1>1, <2>1, <2>2, <2>3
<1> QED
  BY <1>5, <1>6, <1>7 DEF Complete, o

\* The pick for a point is the server whose stretch holds it.
LEMMA PickStretch ==
    ASSUME NEW a \in Nat
    PROVE  LET r == a % total_weight  i == index_for_point(r) IN
           i \in Servers /\ Cumulative[i] <= r /\ r < Cumulative[i + 1]
<1> DEFINE r == a % total_weight
<1>1. r \in Nat /\ r < total_weight
  BY TotalPositive, DivMod
<1> HIDE DEF r
<1>2. \E i \in Servers : Cumulative[i] <= r /\ r < Cumulative[i + 1]
  BY <1>1, PointInStretch
<1>3. index_for_point(r) = CHOOSE i \in Servers : Cumulative[i] <= r /\ r < Cumulative[i + 1]
  BY <1>1 DEF index_for_point
<1>4. /\ index_for_point(r) \in Servers
      /\ Cumulative[index_for_point(r)] <= r /\ r < Cumulative[index_for_point(r) + 1]
  BY <1>2, <1>3
<1> QED
  BY <1>4 DEF r

LEMMA InOrderComplete == Complete([j \in 1 .. N |-> j - 1])
<1>1. N \in Nat
  BY BalanceAssumption
<1>2. ASSUME NEW s \in Servers PROVE s + 1 \in 1 .. N /\ (s + 1) - 1 = s
  BY <1>1 DEF Servers
<1> QED
  BY <1>1, <1>2 DEF Complete, Servers

LEMMA CompleteSeq == \A o : Complete(o) => o \in Seq(Servers) /\ Len(o) = N
  BY BalanceAssumption DEF Complete
-------------------------------------------------------------------------------
(* The inductive invariant. *)

Labels == {"idle", "sort", "try", "forward", "body", "connect", "copy", "done"}
Holding == {"forward", "body", "copy"}

Types ==
    /\ kind \in {"http", "stream"} /\ gen \in Pools
    /\ cursor \in [Pools -> 0 .. CursorRange - 1]
    /\ inflight \in [Pools -> [Servers -> Int]]
    /\ pc \in [Tasks -> Labels] /\ pool \in [Tasks -> Pools]
    /\ order \in [Tasks -> Seq(Servers)] /\ k \in [Tasks -> Nat]
    /\ ins \in [Tasks -> Nat \X Nat]
    /\ guard \in [Tasks -> Servers \cup {NoServer}]
    /\ tried \in [Tasks -> SUBSET Servers] /\ refused \in [Tasks -> SUBSET Servers]
    /\ delivered \in [Tasks -> SUBSET Servers]
    /\ quiet \in [Tasks -> BOOLEAN]
    /\ picks \in [Pools -> [Servers -> Nat]]

\* The servers a task may be sent to.
May == IF kind = "http" THEN Allowed ELSE Servers

\* The candidates before the k-th that may be tried.
Passed(t) == {s \in May : \E j \in 1 .. k[t] - 1 : order[t][j] = s}

\* A task holds a guard, on its current candidate, exactly while it talks to it.
GuardHeld(t) ==
    /\ guard[t] = IF pc[t] \in Holding THEN order[t][k[t]] ELSE NoServer
    /\ pc[t] \in {"forward", "body"} => kind = "http"
    /\ pc[t] \in {"connect", "copy"} => kind = "stream"

\* The sweep: every candidate passed has refused, and the current one is tried.
Sweep(t) ==
    /\ pc[t] # "idle" => Complete(order[t])
    /\ pc[t] = "sort" => k[t] = 1 /\ ins[t][1] \in 2 .. N /\ ins[t][2] \in 2 .. ins[t][1]
    /\ pc[t] \in {"sort", "try"} => k[t] \in 1 .. N + 1 /\ tried[t] = Passed(t)
    /\ pc[t] \in Holding \cup {"connect"} => /\ k[t] \in 1 .. N /\ order[t][k[t]] \in May
                                             /\ tried[t] = Passed(t) \cup {order[t][k[t]]}
    /\ pc[t] \notin {"idle", "done"} => refused[t] = Passed(t)
    /\ pc[t] = "done" /\ tried[t] = refused[t] => tried[t] = May

Sent(t) ==
    /\ pc[t] \in {"sort", "try", "forward", "connect"} => delivered[t] = {}
    /\ pc[t] \in {"body", "copy"} => delivered[t] = {order[t][k[t]]}
    /\ delivered[t] = {} \/ \E s \in May : delivered[t] = {s}

DInv == /\ Types
        /\ \A t \in Tasks : GuardHeld(t) /\ Sweep(t) /\ Sent(t)

TaskInv(t) == GuardHeld(t) /\ Sweep(t) /\ Sent(t)

\* A step leaves a task alone.
Same(u) == /\ pc'[u] = pc[u] /\ order'[u] = order[u] /\ k'[u] = k[u] /\ guard'[u] = guard[u]
           /\ ins'[u] = ins[u]
           /\ tried'[u] = tried[u] /\ refused'[u] = refused[u] /\ delivered'[u] = delivered[u]

LEMMA SameTask ==
    ASSUME NEW u \in Tasks, TaskInv(u), kind' = kind, Same(u)
    PROVE  TaskInv(u)'
<1>1. May' = May
  BY DEF May
<1>2. Passed(u)' = Passed(u)
  BY <1>1 DEF Passed, Same
<1>3. GuardHeld(u)'
  BY DEF TaskInv, GuardHeld, Same
<1>4. Sweep(u)'
  BY <1>1, <1>2 DEF TaskInv, Sweep, Same
<1>5. Sent(u)'
  BY <1>1 DEF TaskInv, Sent, Same
<1> QED
  BY <1>3, <1>4, <1>5 DEF TaskInv

LEMMA OneTask ==
    ASSUME DInv, NEW t \in Tasks, Types', kind' = kind, \A u \in Tasks \ {t} : Same(u), TaskInv(t)'
    PROVE  DInv'
<1>1. ASSUME NEW u \in Tasks PROVE TaskInv(u)'
  <2>1. CASE u = t
    BY <2>1
  <2>2. CASE u # t
    BY <2>2, SameTask DEF DInv, TaskInv
  <2> QED
    BY <2>1, <2>2
<1> QED
  BY <1>1 DEF DInv, TaskInv

LEMMA InitDInv == Init => DInv
<1> SUFFICES ASSUME Init PROVE DInv
  OBVIOUS
<1>1. CursorRange \in Nat /\ CursorRange >= 1 /\ MaxReloads \in Nat
  BY DispatchAssumption
<1>2. 1 \in Pools /\ 0 \in 0 .. CursorRange - 1
  BY <1>1 DEF Pools
<1>3. <<>> \in Seq(Servers)
  OBVIOUS
<1>4. Types
  BY <1>2, <1>3 DEF Init, Types, Labels
<1>5. ASSUME NEW t \in Tasks PROVE GuardHeld(t) /\ Sweep(t) /\ Sent(t)
  BY DEF Init, GuardHeld, Sweep, Sent, Holding
<1> QED
  BY <1>4, <1>5 DEF DInv

\* Every way to begin: the candidates are complete and nothing has been tried.
LEMMA BeginDInv ==
    ASSUME DInv, NEW t \in Tasks, NEW p \in Pools, NEW o, NEW next \in {"sort", "try"},
           Complete(o), Begin(t, p, o, next),
           cursor' \in [Pools -> 0 .. CursorRange - 1],
           ins' \in {ins, [ins EXCEPT ![t] = <<2, 2>>]}, next = "sort" => N > 1 /\ ins'[t] = <<2, 2>>,
           quiet' \in [Tasks -> BOOLEAN], picks' \in [Pools -> [Servers -> Nat]]
    PROVE  DInv'
<1>1. o \in Seq(Servers) /\ N \in Nat /\ N >= 1
  BY CompleteSeq, BalanceAssumption
<1>2. Types'
  <2>1. <<2, 2>> \in Nat \X Nat
    OBVIOUS
  <2>2. ins' \in [Tasks -> Nat \X Nat]
    BY <2>1 DEF DInv, Types
  <2> QED
    BY <1>1, <2>2 DEF Begin, DInv, Types, Labels
<1>3. /\ pc'[t] = next /\ order'[t] = o /\ k'[t] = 1
      /\ tried'[t] = {} /\ refused'[t] = {} /\ delivered'[t] = {} /\ guard'[t] = guard[t] /\ kind' = kind
  BY DEF Begin, DInv, Types
<1>4. ASSUME NEW u \in Tasks \ {t} PROVE Same(u)
  BY DEF Begin, DInv, Types, Same
<1>5. Passed(t)' = {}
  BY <1>3 DEF Passed
<1>6. guard[t] = NoServer
  BY DEF Begin, DInv, GuardHeld, Pending, Holding
<1>7. TaskInv(t)'
  <2>1. GuardHeld(t)'
    BY <1>3, <1>6 DEF GuardHeld, Holding
  <2>2. Sweep(t)'
    BY <1>1, <1>3, <1>5 DEF Sweep, Holding
  <2>3. Sent(t)'
    BY <1>3 DEF Sent
  <2> QED
    BY <2>1, <2>2, <2>3 DEF TaskInv
<1> QED
  BY <1>2, <1>3, <1>4, <1>7, OneTask

LEMMA RoundRobinDInv ==
    ASSUME DInv, NEW t \in Tasks, NEW p \in Pools, RoundRobin(t, p)
    PROVE  DInv'
<1> DEFINE primary == index_for_point(cursor[p] % total_weight)
<1>1. cursor[p] \in Nat /\ CursorRange \in Nat /\ CursorRange >= 1
  BY DispatchAssumption DEF DInv, Types
<1>2. primary \in Servers
  BY <1>1, PickStretch
<1>3. Complete(ring_order(primary))
  BY <1>2, RingComplete
<1> HIDE DEF primary
<1>4. Begin(t, p, ring_order(primary), "try")
  BY DEF RoundRobin, primary
<1>5. (cursor[p] + 1) % CursorRange \in 0 .. CursorRange - 1
  <2>1. cursor[p] + 1 \in Nat
    BY <1>1
  <2> QED
    BY <1>1, <2>1, DivMod
<1>6. cursor' \in [Pools -> 0 .. CursorRange - 1]
  <2>1. cursor' = [cursor EXCEPT ![p] = (cursor[p] + 1) % CursorRange]
    BY DEF RoundRobin
  <2> DEFINE c == (cursor[p] + 1) % CursorRange
  <2> HIDE DEF c
  <2> QED
    BY <1>5, <2>1 DEF DInv, Types, c
<1>7. picks' = [picks EXCEPT ![p] = IF cursor'[p] = 0 THEN [i \in Servers |-> 0]
                                    ELSE [picks[p] EXCEPT ![primary] = @ + 1]]
  BY DEF RoundRobin, primary
<1>8. picks' \in [Pools -> [Servers -> Nat]]
  BY <1>2, <1>7 DEF DInv, Types
<1>9. ins' = ins /\ quiet' \in [Tasks -> BOOLEAN]
  BY DEF RoundRobin, DInv, Types
<1> QED
  BY <1>3, <1>4, <1>6, <1>8, <1>9, BeginDInv

LEMMA FixedOrderDInv ==
    ASSUME DInv, NEW t \in Tasks, NEW p \in Pools, FixedOrder(t, p)
    PROVE  DInv'
<1> DEFINE primary == index_for_point(HashIp[t] % total_weight)
<1>1. HashIp[t] \in Nat
  BY DispatchAssumption
<1>2. primary \in Servers
  BY <1>1, PickStretch
<1>3. Complete(ring_order(primary))
  BY <1>2, RingComplete
<1>4. Begin(t, p, ring_order(primary), "try")
  BY DEF FixedOrder
<1> HIDE DEF primary
<1>5. /\ cursor' \in [Pools -> 0 .. CursorRange - 1] /\ picks' \in [Pools -> [Servers -> Nat]]
      /\ ins' = ins /\ quiet' \in [Tasks -> BOOLEAN]
  BY DEF FixedOrder, DInv, Types
<1> QED
  BY <1>3, <1>4, <1>5, BeginDInv

LEMMA LeastConnDInv ==
    ASSUME DInv, NEW t \in Tasks, NEW p \in Pools, LeastConn(t, p)
    PROVE  DInv'
<1>1. Begin(t, p, [j \in 1 .. N |-> j - 1], "sort")
  BY DEF LeastConn
<1>2. /\ cursor' \in [Pools -> 0 .. CursorRange - 1] /\ picks' \in [Pools -> [Servers -> Nat]]
      /\ ins' = [ins EXCEPT ![t] = <<2, 2>>] /\ ins'[t] = <<2, 2>> /\ N > 1
      /\ quiet' \in [Tasks -> BOOLEAN]
  BY DEF LeastConn, DInv, Types
<1> QED
  BY <1>1, <1>2, InOrderComplete, BeginDInv

\* Two neighbours change places: the candidates stay complete.
LEMMA SwapComplete ==
    ASSUME NEW o, Complete(o), NEW j \in 2 .. N
    PROVE  Complete([o EXCEPT ![j] = o[j - 1], ![j - 1] = o[j]])
<1> DEFINE q == [o EXCEPT ![j] = o[j - 1], ![j - 1] = o[j]]
<1>1. N \in Nat /\ j - 1 \in 1 .. N /\ j \in 1 .. N /\ j # j - 1
  BY BalanceAssumption
<1>2. /\ q \in [1 .. N -> Servers] /\ q[j] = o[j - 1] /\ q[j - 1] = o[j]
      /\ \A i \in 1 .. N : i # j /\ i # j - 1 => q[i] = o[i]
  BY <1>1 DEF Complete
<1> HIDE DEF q
<1>3. \A a, b \in 1 .. N : q[a] = q[b] => a = b
  BY SMTT(40), <1>1, <1>2 DEF Complete
<1>4. ASSUME NEW s \in Servers PROVE \E i \in 1 .. N : q[i] = s
  <2>1. PICK i \in 1 .. N : o[i] = s
    BY DEF Complete
  <2> QED
    BY <1>1, <1>2, <2>1
<1>5. Complete(q)
  BY <1>2, <1>3, <1>4 DEF Complete
<1> QED
  BY <1>5 DEF q

LEMMA CompareDInv ==
    ASSUME DInv, NEW t \in Tasks, Compare(t)
    PROVE  DInv'
<1> DEFINE i == ins[t][1]
           j == ins[t][2]
           swapped == [order[t] EXCEPT ![j] = order[t][j - 1], ![j - 1] = order[t][j]]
<1>1. N \in Nat /\ i \in 2 .. N /\ j \in 2 .. i /\ j \in 2 .. N /\ Complete(order[t]) /\ k[t] = 1
  <2>1. pc[t] = "sort"
    BY DEF Compare
  <2>2. i \in 2 .. N /\ j \in 2 .. i /\ Complete(order[t]) /\ k[t] = 1
    BY <2>1 DEF DInv, Sweep
  <2>3. N \in Nat
    BY BalanceAssumption
  <2> HIDE DEF i, j
  <2> QED
    BY <2>2, <2>3
<1>2. Complete(swapped)
  BY <1>1, SwapComplete
<1>3. order' = order \/ order' = [order EXCEPT ![t] = swapped]
  <2> DEFINE less == LessLoaded(order[t][j], inflight[pool[t]][order[t][j]],
                                order[t][j - 1], inflight[pool[t]][order[t][j - 1]])
  <2>1. order' = IF less THEN [order EXCEPT ![t] = swapped] ELSE order
    BY DEF Compare
  <2> HIDE DEF less
  <2> QED
    BY <2>1
<1> HIDE DEF swapped
<1>4. swapped \in Seq(Servers)
  BY <1>2, CompleteSeq
<1>5. order' \in [Tasks -> Seq(Servers)] /\ Complete(order'[t])
      /\ \A u \in Tasks \ {t} : order'[u] = order[u]
  BY <1>1, <1>2, <1>3, <1>4 DEF DInv, Types
<1>6. /\ pc' \in {[pc EXCEPT ![t] = "sort"], [pc EXCEPT ![t] = "try"]}
      /\ ins' \in {[ins EXCEPT ![t] = <<i + 1, i + 1>>], [ins EXCEPT ![t] = <<i, j - 1>>]}
      /\ pc'[t] = "sort" => ins'[t][1] \in 2 .. N /\ ins'[t][2] \in 2 .. ins'[t][1]
  <2> DEFINE settled == ~LessLoaded(order[t][j], inflight[pool[t]][order[t][j]],
                                    order[t][j - 1], inflight[pool[t]][order[t][j - 1]]) \/ j = 2
  <2>1. /\ ins' = [ins EXCEPT ![t] = IF settled THEN <<i + 1, i + 1>> ELSE <<i, j - 1>>]
        /\ pc' = [pc EXCEPT ![t] = IF settled /\ i = N THEN "try" ELSE "sort"]
    BY DEF Compare
  <2>2. ~settled => j # 2
    OBVIOUS
  <2> HIDE DEF settled
  <2>3. DOMAIN ins = Tasks /\ DOMAIN pc = Tasks
    BY DEF DInv, Types
  <2> HIDE DEF i, j
  <2>4. CASE settled
    <3>1. ins'[t] = <<i + 1, i + 1>> /\ pc'[t] = IF i = N THEN "try" ELSE "sort"
      BY <2>1, <2>3, <2>4
    <3>2. i # N => i + 1 \in 2 .. N /\ i + 1 \in 2 .. i + 1
      BY <1>1
    <3>3. pc'[t] = "sort" => ins'[t][1] \in 2 .. N /\ ins'[t][2] \in 2 .. ins'[t][1]
      BY <3>1, <3>2
    <3> QED
      BY <2>1, <2>4, <3>3
  <2>5. CASE ~settled
    <3>1. ins'[t] = <<i, j - 1>>
      BY <2>1, <2>3, <2>5
    <3>2. i \in 2 .. N /\ j - 1 \in 2 .. i
      BY <1>1, <2>2, <2>5
    <3>3. ins'[t][1] \in 2 .. N /\ ins'[t][2] \in 2 .. ins'[t][1]
      BY <3>1, <3>2
    <3> QED
      BY <2>1, <2>5, <3>3
  <2> QED
    BY <2>4, <2>5
<1>7. /\ UNCHANGED <<kind, gen, cursor, inflight, quiet, picks, pool, k, guard, tried, delivered, refused>>
      /\ pc[t] = "sort"
  BY DEF Compare, pools
<1>8. Types'
  <2> HIDE DEF i, j
  <2>1. <<i + 1, i + 1>> \in Nat \X Nat /\ <<i, j - 1>> \in Nat \X Nat
    BY <1>1
  <2>2. ins' \in [Tasks -> Nat \X Nat]
    BY <1>6, <2>1 DEF DInv, Types
  <2>3. pc' \in [Tasks -> Labels]
    BY <1>6 DEF DInv, Types, Labels
  <2> QED
    BY <1>5, <1>7, <2>2, <2>3 DEF DInv, Types
<1>9. ASSUME NEW u \in Tasks \ {t} PROVE Same(u)
  BY <1>5, <1>6, <1>7 DEF DInv, Types, Same
<1>10. pc'[t] \in {"sort", "try"}
  BY <1>6 DEF DInv, Types
<1>11. Passed(t)' = {} /\ Passed(t) = {}
  BY <1>1, <1>7 DEF Passed
<1>12. TaskInv(t)'
  <2>1. GuardHeld(t)'
    BY <1>7, <1>10 DEF DInv, GuardHeld, Holding
  <2>2. Sweep(t)'
    BY <1>1, <1>5, <1>6, <1>7, <1>10, <1>11 DEF DInv, Sweep, Holding
  <2>3. Sent(t)'
    BY <1>7, <1>10 DEF DInv, Sent, May
  <2> QED
    BY <2>1, <2>2, <2>3 DEF TaskInv
<1> QED
  BY <1>7, <1>8, <1>9, <1>12, OneTask

\* The next candidate: the current one has been passed.
LEMMA Advance ==
    ASSUME NEW t \in Tasks, k[t] \in Nat, k[t] >= 1, k'[t] = k[t] + 1, order'[t] = order[t],
           kind' = kind
    PROVE  Passed(t)' = Passed(t) \cup ({order[t][k[t]]} \cap May)
<1>1. May' = May
  BY DEF May
<1>2. ASSUME NEW s PROVE (\E j \in 1 .. k[t] : order[t][j] = s)
                     <=> (\E j \in 1 .. k[t] - 1 : order[t][j] = s) \/ order[t][k[t]] = s
  OBVIOUS
<1>3. k'[t] - 1 = k[t]
  OBVIOUS
<1> QED
  BY <1>1, <1>2, <1>3 DEF Passed

LEMMA NotPassed ==
    ASSUME NEW t \in Tasks, Complete(order[t]), k[t] \in 1 .. N
    PROVE  order[t][k[t]] \notin Passed(t)
<1>1. N \in Nat
  BY BalanceAssumption
<1>2. ASSUME NEW j \in 1 .. k[t] - 1 PROVE order[t][j] # order[t][k[t]]
  <2>1. j \in 1 .. N /\ j # k[t]
    BY <1>1
  <2> QED
    BY <2>1 DEF Complete
<1> QED
  BY <1>2 DEF Passed

LEMMA SamePassed ==
    ASSUME NEW t \in Tasks, k'[t] = k[t], order'[t] = order[t], kind' = kind
    PROVE  Passed(t)' = Passed(t) /\ May' = May
  BY DEF Passed, May

\* What the steps of the sweep know of a task that is under way.
LEMMA UnderWay ==
    ASSUME DInv, NEW t \in Tasks, pc[t] \notin {"idle", "done"}
    PROVE  /\ N \in Nat /\ Complete(order[t]) /\ Len(order[t]) = N /\ k[t] \in 1 .. N + 1
           /\ \A j \in 1 .. N : order[t][j] \in Servers
           /\ pool[t] \in Pools /\ May \subseteq Servers
<1>1. N \in Nat /\ Allowed \subseteq Servers
  BY BalanceAssumption, DispatchAssumption
<1>2. Complete(order[t]) /\ pool[t] \in Pools /\ pc[t] \in Labels
  BY DEF DInv, Sweep, Types
<1>3. k[t] \in 1 .. N + 1
  BY <1>1, <1>2 DEF DInv, Sweep, Labels, Holding
<1>4. Len(order[t]) = N
  BY <1>2, CompleteSeq
<1> QED
  BY <1>1, <1>2, <1>3, <1>4 DEF Complete, May

LEMMA TrackTypes ==
    ASSUME DInv, NEW t \in Tasks, NEW i \in Servers, track(t, i)
    PROVE  /\ inflight' \in [Pools -> [Servers -> Int]] /\ quiet' \in [Tasks -> BOOLEAN]
           /\ guard' \in [Tasks -> Servers \cup {NoServer}]
           /\ guard'[t] = i /\ \A u \in Tasks \ {t} : guard'[u] = guard[u]
  BY DEF DInv, Types, track

LEMMA DropTypes ==
    ASSUME DInv, NEW t \in Tasks, guard[t] \in Servers, drop(t)
    PROVE  /\ inflight' \in [Pools -> [Servers -> Int]] /\ quiet' \in [Tasks -> BOOLEAN]
           /\ guard' \in [Tasks -> Servers \cup {NoServer}]
           /\ guard'[t] = NoServer /\ \A u \in Tasks \ {t} : guard'[u] = guard[u]
  BY DEF DInv, Types, drop

LEMMA ExhaustedDInv ==
    ASSUME DInv, NEW t \in Tasks, Exhausted(t)
    PROVE  DInv'
<1>1. pc[t] = "try" /\ k[t] > Len(order[t])
  BY DEF Exhausted
<1>2. N \in Nat /\ Complete(order[t]) /\ k[t] = N + 1
  BY <1>1, UnderWay
<1>3. /\ UNCHANGED <<kind, gen, cursor, pool, order, ins, picks, inflight, k, guard, tried, delivered, quiet, refused>>
      /\ pc' = [pc EXCEPT ![t] = "done"]
  BY DEF Exhausted, Answer, Goto, kept
<1>4. Types'
  BY <1>3 DEF DInv, Types, Labels
<1>5. ASSUME NEW u \in Tasks \ {t} PROVE Same(u)
  BY <1>3 DEF DInv, Types, Same
<1>6. pc'[t] = "done"
  BY <1>3 DEF DInv, Types
<1>7. Passed(t) = May
  <2>1. May \subseteq Servers
    BY DispatchAssumption DEF May
  <2> QED
    BY <1>2, <2>1 DEF Passed, Complete
<1>8. May' = May
  BY <1>3 DEF May
<1>9. TaskInv(t)'
  <2>1. GuardHeld(t)'
    BY <1>1, <1>3, <1>6 DEF DInv, GuardHeld, Holding
  <2>2. Sweep(t)'
    BY <1>1, <1>2, <1>3, <1>6, <1>7, <1>8 DEF DInv, Sweep, Holding
  <2>3. Sent(t)'
    BY <1>1, <1>3, <1>6, <1>8 DEF DInv, Sent
  <2> QED
    BY <2>1, <2>2, <2>3 DEF TaskInv
<1> QED
  BY <1>3, <1>4, <1>5, <1>9, OneTask

LEMMA DisallowedDInv ==
    ASSUME DInv, NEW t \in Tasks, Disallowed(t)
    PROVE  DInv'
<1>1. pc[t] = "try" /\ kind = "http" /\ k[t] <= Len(order[t]) /\ order[t][k[t]] \notin Allowed
  BY DEF Disallowed
<1>2. N \in Nat /\ Complete(order[t]) /\ k[t] \in 1 .. N
  BY <1>1, UnderWay
<1>3. /\ UNCHANGED <<kind, gen, cursor, pool, order, ins, picks, inflight, pc, guard, tried, delivered, quiet, refused>>
      /\ k' = [k EXCEPT ![t] = @ + 1]
  BY DEF Disallowed, NextCandidate, kept
<1>4. Types'
  BY <1>3 DEF DInv, Types
<1>5. ASSUME NEW u \in Tasks \ {t} PROVE Same(u)
  BY <1>3 DEF DInv, Types, Same
<1>6. k'[t] = k[t] + 1
  BY <1>3 DEF DInv, Types
<1>7. Passed(t)' = Passed(t)
  <2>1. Passed(t)' = Passed(t) \cup ({order[t][k[t]]} \cap May)
    BY <1>2, <1>3, <1>6, Advance
  <2> QED
    BY <1>1, <2>1 DEF May
<1>8. May' = May
  BY <1>3 DEF May
<1>9. TaskInv(t)'
  <2>1. GuardHeld(t)'
    BY <1>1, <1>3 DEF DInv, GuardHeld, Holding
  <2>2. Sweep(t)'
    <3>1. tried[t] = Passed(t) /\ refused[t] = Passed(t)
      BY <1>1 DEF DInv, Sweep
    <3>2. pc'[t] = "try" /\ order'[t] = order[t] /\ tried'[t] = tried[t] /\ refused'[t] = refused[t]
      BY <1>1, <1>3
    <3>3. k'[t] \in 1 .. N + 1
      BY <1>2, <1>6
    <3>4. Complete(order'[t]) /\ tried'[t] = Passed(t)' /\ refused'[t] = Passed(t)'
      BY <1>2, <1>7, <3>1, <3>2
    <3> QED
      BY <3>2, <3>3, <3>4 DEF Sweep, Holding
  <2>3. Sent(t)'
    BY <1>1, <1>3, <1>8 DEF DInv, Sent
  <2> QED
    BY <2>1, <2>2, <2>3 DEF TaskInv
<1> QED
  BY <1>3, <1>4, <1>5, <1>9, OneTask

LEMMA ForwardDInv ==
    ASSUME DInv, NEW t \in Tasks, Forward(t)
    PROVE  DInv'
<1>1. pc[t] = "try" /\ kind = "http" /\ k[t] <= Len(order[t]) /\ order[t][k[t]] \in Allowed
  BY DEF Forward
<1>2. N \in Nat /\ Complete(order[t]) /\ k[t] \in 1 .. N /\ order[t][k[t]] \in Servers
  BY <1>1, UnderWay
<1> DEFINE s == order[t][k[t]]
<1>3. /\ UNCHANGED <<kind, gen, cursor, pool, order, ins, picks, k, delivered, refused>>
      /\ pc' = [pc EXCEPT ![t] = "forward"] /\ tried' = [tried EXCEPT ![t] = @ \cup {s}] /\ track(t, s)
  BY DEF Forward, Goto, kept
<1>4. /\ inflight' \in [Pools -> [Servers -> Int]] /\ quiet' \in [Tasks -> BOOLEAN]
      /\ guard' \in [Tasks -> Servers \cup {NoServer}]
      /\ guard'[t] = s /\ \A u \in Tasks \ {t} : guard'[u] = guard[u]
  BY <1>2, <1>3, TrackTypes
<1>5. Types'
  BY <1>2, <1>3, <1>4 DEF DInv, Types, Labels
<1>6. ASSUME NEW u \in Tasks \ {t} PROVE Same(u)
  BY <1>3, <1>4 DEF DInv, Types, Same
<1>7. pc'[t] = "forward" /\ tried'[t] = tried[t] \cup {s} /\ Passed(t)' = Passed(t) /\ May' = May
  BY <1>3, SamePassed DEF DInv, Types
<1>8. TaskInv(t)'
  <2>1. GuardHeld(t)'
    BY <1>1, <1>3, <1>4, <1>7 DEF GuardHeld, Holding
  <2>2. s \in May
    BY <1>1 DEF May
  <2>3. Sweep(t)'
    BY <1>1, <1>2, <1>3, <1>7, <2>2 DEF DInv, Sweep, Holding
  <2>4. Sent(t)'
    BY <1>1, <1>3, <1>7 DEF DInv, Sent
  <2> QED
    BY <2>1, <2>3, <2>4 DEF TaskInv
<1> QED
  BY <1>3, <1>5, <1>6, <1>8, OneTask

LEMMA ConnectErrorDInv ==
    ASSUME DInv, NEW t \in Tasks, ConnectError(t)
    PROVE  DInv'
<1>1. pc[t] = "forward"
  BY DEF ConnectError
<1>2. N \in Nat /\ Complete(order[t]) /\ k[t] \in 1 .. N /\ order[t][k[t]] \in Servers
  BY <1>1, UnderWay DEF DInv, Sweep, Holding
<1> DEFINE s == order[t][k[t]]
<1>3. guard[t] = s /\ s \in May
  BY <1>1 DEF DInv, GuardHeld, Sweep, Holding
<1>4. /\ UNCHANGED <<kind, gen, cursor, pool, order, ins, picks, delivered, tried>>
      /\ pc' = [pc EXCEPT ![t] = "try"] /\ k' = [k EXCEPT ![t] = @ + 1]
      /\ refused' = [refused EXCEPT ![t] = @ \cup {s}] /\ drop(t)
  BY <1>3 DEF ConnectError, Goto, NextCandidate, kept
<1>5. /\ inflight' \in [Pools -> [Servers -> Int]] /\ quiet' \in [Tasks -> BOOLEAN]
      /\ guard' \in [Tasks -> Servers \cup {NoServer}]
      /\ guard'[t] = NoServer /\ \A u \in Tasks \ {t} : guard'[u] = guard[u]
  BY <1>2, <1>3, <1>4, DropTypes
<1>6. Types'
  <2>1. pc' \in [Tasks -> Labels] /\ k' \in [Tasks -> Nat]
    BY <1>4 DEF DInv, Types, Labels
  <2>2. refused' \in [Tasks -> SUBSET Servers]
    BY <1>2, <1>4 DEF DInv, Types
  <2> QED
    BY <1>4, <1>5, <2>1, <2>2 DEF DInv, Types
<1>7. ASSUME NEW u \in Tasks \ {t} PROVE Same(u)
  BY <1>4, <1>5 DEF DInv, Types, Same
<1>8. pc'[t] = "try" /\ k'[t] = k[t] + 1 /\ refused'[t] = refused[t] \cup {s} /\ May' = May
  BY <1>4 DEF DInv, Types, May
<1>9. Passed(t)' = Passed(t) \cup {s}
  <2>1. Passed(t)' = Passed(t) \cup ({s} \cap May)
    BY <1>2, <1>4, <1>8, Advance
  <2> QED
    BY <1>3, <2>1
<1>10. TaskInv(t)'
  <2>1. GuardHeld(t)'
    BY <1>5, <1>8 DEF GuardHeld, Holding
  <2>2. Sweep(t)'
    <3>1. tried[t] = Passed(t) \cup {s} /\ refused[t] = Passed(t)
      BY <1>1 DEF DInv, Sweep, Holding
    <3>2. order'[t] = order[t] /\ tried'[t] = tried[t]
      BY <1>4
    <3>3. k'[t] \in 1 .. N + 1
      BY <1>2, <1>8
    <3>4. Complete(order'[t]) /\ tried'[t] = Passed(t)' /\ refused'[t] = Passed(t)'
      BY <1>2, <1>8, <1>9, <3>1, <3>2
    <3> HIDE DEF s
    <3> QED
      BY <1>8, <3>3, <3>4 DEF Sweep, Holding
  <2>3. Sent(t)'
    BY <1>1, <1>4, <1>8 DEF DInv, Sent
  <2> QED
    BY <2>1, <2>2, <2>3 DEF TaskInv
<1> QED
  BY <1>4, <1>6, <1>7, <1>10, OneTask

LEMMA ResponseHeadDInv ==
    ASSUME DInv, NEW t \in Tasks, ResponseHead(t)
    PROVE  DInv'
<1>1. pc[t] = "forward"
  BY DEF ResponseHead
<1>2. N \in Nat /\ Complete(order[t]) /\ k[t] \in 1 .. N /\ order[t][k[t]] \in Servers
  BY <1>1, UnderWay DEF DInv, Sweep, Holding
<1> DEFINE s == order[t][k[t]]
<1>3. guard[t] = s /\ s \in May /\ kind = "http"
  BY <1>1 DEF DInv, GuardHeld, Sweep, Holding
<1>4. /\ UNCHANGED <<kind, gen, cursor, pool, order, ins, picks, inflight, k, guard, tried, quiet, refused>>
      /\ pc' = [pc EXCEPT ![t] = "body"] /\ delivered' = [delivered EXCEPT ![t] = @ \cup {s}]
  BY <1>3 DEF ResponseHead, Goto, kept
<1>5. Types'
  BY <1>2, <1>4 DEF DInv, Types, Labels
<1>6. ASSUME NEW u \in Tasks \ {t} PROVE Same(u)
  BY <1>4 DEF DInv, Types, Same
<1>7. pc'[t] = "body" /\ delivered'[t] = {s} /\ Passed(t)' = Passed(t) /\ May' = May
  <2>1. delivered[t] = {}
    BY <1>1 DEF DInv, Sent
  <2> QED
    BY <1>4, <2>1, SamePassed DEF DInv, Types
<1>8. TaskInv(t)'
  <2>1. GuardHeld(t)'
    BY <1>3, <1>4, <1>7 DEF GuardHeld, Holding
  <2>2. Sweep(t)'
    BY <1>1, <1>2, <1>3, <1>4, <1>7 DEF DInv, Sweep, Holding
  <2>3. Sent(t)'
    BY <1>3, <1>4, <1>7 DEF Sent
  <2> QED
    BY <2>1, <2>2, <2>3 DEF TaskInv
<1> QED
  BY <1>4, <1>5, <1>6, <1>8, OneTask

\* Every way to end: the guard is dropped, and the last server tried has not refused.
LEMMA EndDInv ==
    ASSUME DInv, NEW t \in Tasks, NEW l \in {"idle", "done"}, pc[t] \in Holding,
           pc' = [pc EXCEPT ![t] = l], drop(t), NEW sent \in {{}, {guard[t]}},
           delivered' = [delivered EXCEPT ![t] = @ \cup sent],
           UNCHANGED <<kept, k, tried, refused>>
    PROVE  DInv'
<1>1. N \in Nat /\ Complete(order[t]) /\ k[t] \in 1 .. N /\ order[t][k[t]] \in Servers
  BY UnderWay DEF DInv, Sweep, Holding
<1> DEFINE s == order[t][k[t]]
<1>2. guard[t] = s /\ s \in May
  BY DEF DInv, GuardHeld, Sweep
<1>3. UNCHANGED <<kind, gen, cursor, pool, order, ins, picks, k, tried, refused>>
  BY DEF kept
<1>4. /\ inflight' \in [Pools -> [Servers -> Int]] /\ quiet' \in [Tasks -> BOOLEAN]
      /\ guard' \in [Tasks -> Servers \cup {NoServer}]
      /\ guard'[t] = NoServer /\ \A u \in Tasks \ {t} : guard'[u] = guard[u]
  BY <1>1, <1>2, DropTypes
<1>5. Types'
  <2>1. pc' \in [Tasks -> Labels]
    BY DEF DInv, Types, Labels
  <2>2. delivered' \in [Tasks -> SUBSET Servers]
    BY <1>1, <1>2 DEF DInv, Types
  <2> QED
    BY <1>3, <1>4, <2>1, <2>2 DEF DInv, Types
<1>6. ASSUME NEW u \in Tasks \ {t} PROVE Same(u)
  BY <1>3, <1>4 DEF DInv, Types, Same
<1>7. pc'[t] = l /\ delivered'[t] = delivered[t] \cup sent /\ May' = May
  BY <1>3 DEF DInv, Types, May
<1>8. delivered[t] = {} \/ delivered[t] = {s}
  BY DEF DInv, Sent, Holding
<1>9. TaskInv(t)'
  <2>1. GuardHeld(t)'
    BY <1>4, <1>7 DEF GuardHeld, Holding
  <2>2. tried[t] # refused[t]
    <3>1. s \notin Passed(t)
      BY <1>1, NotPassed
    <3>2. s \in tried[t] /\ refused[t] = Passed(t)
      BY DEF DInv, Sweep, Holding
    <3> QED
      BY <3>1, <3>2
  <2>3. Sweep(t)'
    BY <1>1, <1>3, <1>7, <2>2 DEF DInv, Sweep, Holding
  <2>4. Sent(t)'
    BY <1>2, <1>7, <1>8 DEF Sent
  <2> QED
    BY <2>1, <2>3, <2>4 DEF TaskInv
<1> QED
  BY <1>3, <1>5, <1>6, <1>9, OneTask

LEMMA EndsDInv ==
    ASSUME DInv, NEW t \in Tasks, ForwardError(t) \/ BodyDone(t) \/ Cancel(t) \/ StreamClosed(t)
    PROVE  DInv'
<1>1. delivered = [delivered EXCEPT ![t] = @ \cup {}]
  BY DEF DInv, Types
<1>2. CASE ForwardError(t)
  <2>1. PICK sent \in {{}, {guard[t]}} : delivered' = [delivered EXCEPT ![t] = @ \cup sent]
    BY <1>2 DEF ForwardError
  <2>2. /\ pc[t] \in Holding /\ pc' = [pc EXCEPT ![t] = "done"] /\ drop(t)
        /\ UNCHANGED <<kept, k, tried, refused>>
    BY <1>2 DEF ForwardError, Answer, Goto, Holding
  <2> QED
    BY <2>1, <2>2, EndDInv
<1>3. CASE BodyDone(t)
  <2>1. /\ pc[t] \in Holding /\ pc' = [pc EXCEPT ![t] = "done"] /\ drop(t)
        /\ UNCHANGED <<kept, k, tried, refused>> /\ delivered' = delivered
    BY <1>3 DEF BodyDone, Answer, Goto, Holding
  <2> QED
    BY <1>1, <2>1, EndDInv
<1>4. CASE Cancel(t)
  <2>1. PICK sent \in {{}, {guard[t]}} : delivered' = [delivered EXCEPT ![t] = @ \cup sent]
    BY <1>4 DEF Cancel
  <2>2. /\ pc[t] \in Holding /\ pc' = [pc EXCEPT ![t] = "idle"] /\ drop(t)
        /\ UNCHANGED <<kept, k, tried, refused>>
    BY <1>4 DEF Cancel, Goto, Holding
  <2> QED
    BY <2>1, <2>2, EndDInv
<1>5. CASE StreamClosed(t)
  <2>1. /\ pc[t] \in Holding /\ pc' = [pc EXCEPT ![t] = "done"] /\ drop(t)
        /\ UNCHANGED <<kept, k, tried, refused>> /\ delivered' = delivered
    BY <1>5 DEF StreamClosed, Answer, Goto, Holding
  <2> QED
    BY <1>1, <2>1, EndDInv
<1> QED
  BY <1>2, <1>3, <1>4, <1>5

LEMMA StreamConnectDInv ==
    ASSUME DInv, NEW t \in Tasks, StreamConnect(t)
    PROVE  DInv'
<1>1. pc[t] = "try" /\ kind = "stream" /\ k[t] <= Len(order[t])
  BY DEF StreamConnect
<1>2. N \in Nat /\ Complete(order[t]) /\ k[t] \in 1 .. N /\ order[t][k[t]] \in Servers
  BY <1>1, UnderWay
<1> DEFINE s == order[t][k[t]]
<1>3. /\ UNCHANGED <<kind, gen, cursor, pool, order, ins, picks, inflight, k, guard, delivered, quiet, refused>>
      /\ pc' = [pc EXCEPT ![t] = "connect"] /\ tried' = [tried EXCEPT ![t] = @ \cup {s}]
  BY DEF StreamConnect, Goto, kept
<1>4. Types'
  <2>1. tried' \in [Tasks -> SUBSET Servers] /\ pc' \in [Tasks -> Labels]
    BY <1>2, <1>3 DEF DInv, Types, Labels
  <2> QED
    BY <1>3, <2>1 DEF DInv, Types
<1>5. ASSUME NEW u \in Tasks \ {t} PROVE Same(u)
  BY <1>3 DEF DInv, Types, Same
<1>6. pc'[t] = "connect" /\ tried'[t] = tried[t] \cup {s} /\ Passed(t)' = Passed(t) /\ May' = May
  BY <1>3, SamePassed DEF DInv, Types
<1>7. TaskInv(t)'
  <2>1. GuardHeld(t)'
    BY <1>1, <1>3, <1>6 DEF DInv, GuardHeld, Holding
  <2>2. s \in May
    BY <1>1, <1>2 DEF May
  <2>3. Sweep(t)'
    BY <1>1, <1>2, <1>3, <1>6, <2>2 DEF DInv, Sweep, Holding
  <2>4. Sent(t)'
    BY <1>1, <1>3, <1>6 DEF DInv, Sent
  <2> QED
    BY <2>1, <2>3, <2>4 DEF TaskInv
<1> QED
  BY <1>3, <1>4, <1>5, <1>7, OneTask

LEMMA StreamRefusedDInv ==
    ASSUME DInv, NEW t \in Tasks, StreamRefused(t)
    PROVE  DInv'
<1>1. pc[t] = "connect"
  BY DEF StreamRefused
<1>2. N \in Nat /\ Complete(order[t]) /\ k[t] \in 1 .. N /\ order[t][k[t]] \in Servers
  BY <1>1, UnderWay DEF DInv, Sweep
<1> DEFINE s == order[t][k[t]]
<1>3. s \in May /\ guard[t] = NoServer
  BY <1>1 DEF DInv, Sweep, GuardHeld, Holding
<1>4. /\ UNCHANGED <<kind, gen, cursor, pool, order, ins, picks, inflight, guard, tried, delivered, quiet>>
      /\ pc' = [pc EXCEPT ![t] = "try"] /\ k' = [k EXCEPT ![t] = @ + 1]
      /\ refused' = [refused EXCEPT ![t] = @ \cup {s}]
  BY DEF StreamRefused, Goto, NextCandidate, kept
<1>5. Types'
  <2>1. pc' \in [Tasks -> Labels] /\ k' \in [Tasks -> Nat]
    BY <1>4 DEF DInv, Types, Labels
  <2>2. refused' \in [Tasks -> SUBSET Servers]
    BY <1>2, <1>4 DEF DInv, Types
  <2> QED
    BY <1>4, <2>1, <2>2 DEF DInv, Types
<1>6. ASSUME NEW u \in Tasks \ {t} PROVE Same(u)
  BY <1>4 DEF DInv, Types, Same
<1>7. pc'[t] = "try" /\ k'[t] = k[t] + 1 /\ refused'[t] = refused[t] \cup {s} /\ May' = May
  BY <1>4 DEF DInv, Types, May
<1>8. Passed(t)' = Passed(t) \cup {s}
  BY <1>2, <1>3, <1>4, <1>7, Advance
<1>9. TaskInv(t)'
  <2>1. GuardHeld(t)'
    BY <1>3, <1>4, <1>7 DEF GuardHeld, Holding
  <2>2. Sweep(t)'
    <3>1. Complete(order[t]) /\ tried[t] = Passed(t) \cup {s} /\ refused[t] = Passed(t)
      BY <1>1, <1>2 DEF DInv, Sweep, Holding
    <3>2. order'[t] = order[t] /\ tried'[t] = tried[t]
      BY <1>4
    <3>3. k'[t] \in 1 .. N + 1
      BY <1>2, <1>7
    <3>4. Complete(order'[t]) /\ tried'[t] = Passed(t)' /\ refused'[t] = Passed(t)'
      BY <1>7, <1>8, <3>1, <3>2
    <3> HIDE DEF s
    <3> QED
      BY <1>7, <3>3, <3>4 DEF Sweep, Holding
  <2>3. Sent(t)'
    BY <1>1, <1>4, <1>7 DEF DInv, Sent
  <2> QED
    BY <2>1, <2>2, <2>3 DEF TaskInv
<1> QED
  BY <1>4, <1>5, <1>6, <1>9, OneTask

LEMMA StreamOpenDInv ==
    ASSUME DInv, NEW t \in Tasks, StreamOpen(t)
    PROVE  DInv'
<1>1. pc[t] = "connect"
  BY DEF StreamOpen
<1>2. N \in Nat /\ Complete(order[t]) /\ k[t] \in 1 .. N /\ order[t][k[t]] \in Servers
  BY <1>1, UnderWay DEF DInv, Sweep
<1> DEFINE s == order[t][k[t]]
<1>3. s \in May /\ kind = "stream"
  BY <1>1 DEF DInv, Sweep, GuardHeld
<1>4. /\ UNCHANGED <<kind, gen, cursor, pool, order, ins, picks, k, tried, refused>>
      /\ pc' = [pc EXCEPT ![t] = "copy"] /\ delivered' = [delivered EXCEPT ![t] = @ \cup {s}]
      /\ track(t, s)
  BY DEF StreamOpen, Goto, kept
<1>5. /\ inflight' \in [Pools -> [Servers -> Int]] /\ quiet' \in [Tasks -> BOOLEAN]
      /\ guard' \in [Tasks -> Servers \cup {NoServer}]
      /\ guard'[t] = s /\ \A u \in Tasks \ {t} : guard'[u] = guard[u]
  BY <1>2, <1>4, TrackTypes
<1>6. Types'
  <2>1. delivered' \in [Tasks -> SUBSET Servers] /\ pc' \in [Tasks -> Labels]
    BY <1>2, <1>4 DEF DInv, Types, Labels
  <2> QED
    BY <1>4, <1>5, <2>1 DEF DInv, Types
<1>7. ASSUME NEW u \in Tasks \ {t} PROVE Same(u)
  BY <1>4, <1>5 DEF DInv, Types, Same
<1>8. pc'[t] = "copy" /\ delivered'[t] = {s} /\ Passed(t)' = Passed(t) /\ May' = May
  <2>1. delivered[t] = {}
    BY <1>1 DEF DInv, Sent
  <2> QED
    BY <1>4, <2>1, SamePassed DEF DInv, Types
<1>9. TaskInv(t)'
  <2>1. GuardHeld(t)'
    BY <1>3, <1>4, <1>5, <1>8 DEF GuardHeld, Holding
  <2>2. Sweep(t)'
    BY <1>1, <1>2, <1>3, <1>4, <1>8 DEF DInv, Sweep, Holding
  <2>3. Sent(t)'
    BY <1>3, <1>4, <1>8 DEF Sent
  <2> QED
    BY <2>1, <2>2, <2>3 DEF TaskInv
<1> QED
  BY <1>4, <1>6, <1>7, <1>9, OneTask

LEMMA ReloadDInv == DInv /\ Reload => DInv'
<1> SUFFICES ASSUME DInv, Reload PROVE DInv'
  OBVIOUS
<1>1. MaxReloads \in Nat
  BY DispatchAssumption
<1>2. UNCHANGED <<kind, strategy, cursor, inflight, pc, pool, order, ins, k, guard, status, tried,
                  refused, delivered, quiet, picks>>
  BY DEF Reload
<1>3. gen' \in Pools
  BY <1>1 DEF Reload, DInv, Types, Pools
<1>4. Types'
  BY <1>2, <1>3 DEF DInv, Types
<1>5. ASSUME NEW u \in Tasks PROVE TaskInv(u)'
  BY <1>2, SameTask DEF DInv, TaskInv, Same
<1> QED
  BY <1>4, <1>5 DEF DInv, TaskInv

LEMMA StutterDInv == DInv /\ UNCHANGED vars => DInv'
<1> SUFFICES ASSUME DInv, UNCHANGED vars PROVE DInv'
  OBVIOUS
<1>1. Types'
  BY DEF DInv, Types, vars
<1>2. ASSUME NEW u \in Tasks PROVE TaskInv(u)'
  BY SameTask DEF DInv, TaskInv, Same, vars
<1> QED
  BY <1>1, <1>2 DEF DInv, TaskInv

LEMMA NextDInv == DInv /\ [Next]_vars => DInv'
<1>1. ASSUME DInv, NEW t \in Tasks, Start(t) PROVE DInv'
  BY <1>1, RoundRobinDInv, FixedOrderDInv, LeastConnDInv DEF Start
<1>2. ASSUME DInv, NEW t \in Tasks, Bounded(t) PROVE DInv'
  BY <1>2, CompareDInv, ExhaustedDInv, DisallowedDInv, ForwardDInv, ConnectErrorDInv, EndsDInv,
     ResponseHeadDInv, StreamConnectDInv, StreamRefusedDInv, StreamOpenDInv DEF Bounded
<1> QED
  BY <1>1, <1>2, EndsDInv, ReloadDInv, StutterDInv DEF Next

LEMMA AlwaysDInv == Spec => []DInv
  BY InitDInv, NextDInv, PTL DEF Spec

(* A request or a stream is never handed to two servers, and a request never to one the
   filter of is_upstream_allowed refuses: whatever is interleaved, dispatch_proxy and
   accept_stream_loop move on only from a candidate that got nothing. *)
THEOREM Once == Spec => []DeliveredOnce
<1>1. DInv => DeliveredOnce
  <2> SUFFICES ASSUME DInv, NEW t \in Tasks
               PROVE  Cardinality(delivered[t]) <= 1 /\ (kind = "http" => delivered[t] \subseteq Allowed)
    BY DEF DeliveredOnce
  <2>1. delivered[t] = {} \/ \E s \in May : delivered[t] = {s}
    BY DEF DInv, Sent
  <2>2. CASE delivered[t] = {}
    BY <2>2, FS_EmptySet
  <2>3. ASSUME NEW s \in May, delivered[t] = {s}
        PROVE  Cardinality(delivered[t]) <= 1 /\ (kind = "http" => delivered[t] \subseteq Allowed)
    <3>1. Cardinality({s}) = 1
      BY FS_Singleton
    <3>2. kind = "http" => s \in Allowed
      BY DEF May
    <3> QED
      BY <2>3, <3>1, <3>2
  <2> QED
    BY <2>1, <2>2, <2>3
<1> QED
  BY <1>1, AlwaysDInv, PTL

(* Failover is complete: a request or stream that met nothing but refused connections has
   been refused by every server it may be sent to, for any order the strategy computes. *)
THEOREM Failover == Spec => []FailoverComplete
<1>1. DInv => FailoverComplete
  BY DEF DInv, Sweep, FailoverComplete, May
<1> QED
  BY <1>1, AlwaysDInv, PTL
-------------------------------------------------------------------------------
(* The in-flight gauges. *)

LEMMA GaugeSame ==
    ASSUME GaugeExact, inflight' = inflight,
           \A t \in Tasks : guard'[t] = guard[t] /\ (guard[t] # NoServer => pool'[t] = pool[t])
    PROVE  GaugeExact'
<1>1. ASSUME NEW p \in Pools, NEW i \in Servers PROVE Holders(p, i)' = Holders(p, i)
  <2>1. i # NoServer
    BY BalanceAssumption DEF Servers, NoServer
  <2> QED
    BY <2>1 DEF Holders
<1> QED
  BY <1>1 DEF GaugeExact

LEMMA HoldersFinite == \A p, i : IsFiniteSet(Holders(p, i)) /\ Cardinality(Holders(p, i)) \in Nat
<1> TAKE p, i
<1>1. Holders(p, i) \in SUBSET Tasks /\ IsFiniteSet(Tasks)
  BY DispatchAssumption DEF Holders
<1>2. IsFiniteSet(Holders(p, i))
  BY <1>1, FS_Subset
<1> QED
  BY <1>2, FS_CardinalityType

\* A guard that is taken counts once, at its server and in the task's own pool.
LEMMA TrackGauge ==
    ASSUME DInv, GaugeExact, NEW t \in Tasks, NEW s \in Servers, guard[t] = NoServer, track(t, s),
           pool' = pool
    PROVE  GaugeExact'
<1>0. NoServer \notin Servers
  BY BalanceAssumption DEF Servers, NoServer
<1>1. /\ guard'[t] = s /\ \A u \in Tasks \ {t} : guard'[u] = guard[u]
      /\ pool[t] \in Pools
  BY TrackTypes DEF DInv, Types
<1>2. ASSUME NEW p \in Pools, NEW i \in Servers
      PROVE  /\ inflight[p][i] = Cardinality(Holders(p, i)) /\ inflight[p][i] \in Int
             /\ inflight'[p][i] = IF p = pool[t] /\ i = s THEN inflight[p][i] + 1 ELSE inflight[p][i]
  BY DEF GaugeExact, track, DInv, Types
<1>3. ASSUME NEW p \in Pools, NEW i \in Servers
      PROVE  inflight'[p][i] = Cardinality(Holders(p, i)')
  <2>1. CASE p = pool[t] /\ i = s
    <3>1. Holders(p, i)' = Holders(p, i) \cup {t} /\ t \notin Holders(p, i)
      BY <1>0, <1>1, <2>1 DEF Holders
    <3>2. Cardinality(Holders(p, i) \cup {t}) = Cardinality(Holders(p, i)) + 1
      BY <3>1, HoldersFinite, FS_AddElement
    <3> QED
      BY <1>2, <2>1, <3>1, <3>2
  <2>2. CASE ~(p = pool[t] /\ i = s)
    <3>1. Holders(p, i)' = Holders(p, i)
      BY <1>0, <1>1, <2>2 DEF Holders
    <3> QED
      BY <1>2, <2>2, <3>1
  <2> QED
    BY <2>1, <2>2
<1> QED
  BY <1>3 DEF GaugeExact

\* A guard that is dropped gives back the count it took.
LEMMA DropGauge ==
    ASSUME DInv, GaugeExact, NEW t \in Tasks, guard[t] \in Servers, drop(t), pool' = pool
    PROVE  GaugeExact'
<1> DEFINE s == guard[t]
<1>0. NoServer \notin Servers
  BY BalanceAssumption DEF Servers, NoServer
<1>1. /\ guard'[t] = NoServer /\ \A u \in Tasks \ {t} : guard'[u] = guard[u]
      /\ pool[t] \in Pools
  BY DropTypes DEF DInv, Types
<1>2. ASSUME NEW p \in Pools, NEW i \in Servers
      PROVE  /\ inflight[p][i] = Cardinality(Holders(p, i)) /\ inflight[p][i] \in Int
             /\ inflight'[p][i] = IF p = pool[t] /\ i = s THEN inflight[p][i] - 1 ELSE inflight[p][i]
  BY DEF GaugeExact, drop, DInv, Types
<1>3. ASSUME NEW p \in Pools, NEW i \in Servers
      PROVE  inflight'[p][i] = Cardinality(Holders(p, i)')
  <2>1. CASE p = pool[t] /\ i = s
    <3>1. Holders(p, i)' = Holders(p, i) \ {t} /\ t \in Holders(p, i)
      BY <1>0, <1>1, <2>1 DEF Holders
    <3>2. Cardinality(Holders(p, i) \ {t}) = Cardinality(Holders(p, i)) - 1
      BY <3>1, HoldersFinite, FS_RemoveElement
    <3> QED
      BY <1>2, <2>1, <3>1, <3>2
  <2>2. CASE ~(p = pool[t] /\ i = s)
    <3>1. Holders(p, i)' = Holders(p, i)
      BY <1>0, <1>1, <2>2 DEF Holders
    <3> QED
      BY <1>2, <2>2, <3>1
  <2> QED
    BY <2>1, <2>2
<1> QED
  BY <1>3 DEF GaugeExact

LEMMA InitGauge == Init => GaugeExact
<1> SUFFICES ASSUME Init, NEW p \in Pools, NEW i \in Servers
             PROVE  inflight[p][i] = Cardinality(Holders(p, i))
  BY DEF GaugeExact
<1>1. NoServer \notin Servers
  BY BalanceAssumption DEF Servers, NoServer
<1>2. Holders(p, i) = {}
  BY <1>1 DEF Init, Holders
<1> QED
  BY <1>2, FS_EmptySet DEF Init

LEMMA NextGauge == DInv /\ GaugeExact /\ [Next]_vars => GaugeExact'
<1> SUFFICES ASSUME DInv, GaugeExact, [Next]_vars PROVE GaugeExact'
  OBVIOUS
<1>1. ASSUME NEW t \in Tasks, Start(t) PROVE GaugeExact'
  <2>1. PICK p, o, next : Begin(t, p, o, next)
    BY <1>1 DEF Start, RoundRobin, FixedOrder, LeastConn
  <2>2. guard[t] = NoServer
    BY <2>1 DEF Begin, Pending, DInv, GuardHeld, Holding
  <2>3. inflight' = inflight /\ guard' = guard /\ \A u \in Tasks \ {t} : pool'[u] = pool[u]
    BY <2>1 DEF Begin, DInv, Types
  <2> QED
    BY <2>2, <2>3, GaugeSame
<1>2. ASSUME inflight' = inflight, guard' = guard, pool' = pool PROVE GaugeExact'
  BY <1>2, GaugeSame
<1>3. ASSUME NEW t \in Tasks,
             Compare(t) \/ Exhausted(t) \/ Disallowed(t) \/ ResponseHead(t) \/ StreamConnect(t) \/ StreamRefused(t)
      PROVE  GaugeExact'
  BY <1>2, <1>3 DEF Compare, Exhausted, Disallowed, ResponseHead, StreamConnect, StreamRefused, kept, pools
<1>4. ASSUME NEW t \in Tasks, Forward(t) PROVE GaugeExact'
  <2>1. pc[t] = "try" /\ k[t] <= Len(order[t]) /\ track(t, order[t][k[t]]) /\ pool' = pool
    BY <1>4 DEF Forward, kept
  <2>2. order[t][k[t]] \in Servers
    <3>1. pc[t] \notin {"idle", "done"}
      BY ONLY <2>1
    <3>2. Len(order[t]) = N /\ N \in Nat /\ k[t] \in 1 .. N + 1 /\ \A j \in 1 .. N : order[t][j] \in Servers
      BY Zenon, <3>1, UnderWay
    <3>3. k[t] \in 1 .. N
      BY ONLY <2>1, <3>2
    <3> QED
      BY ONLY <3>2, <3>3
  <2>3. guard[t] = NoServer
    BY <2>1 DEF DInv, GuardHeld, Holding
  <2> QED
    BY <2>1, <2>2, <2>3, TrackGauge
<1>5. ASSUME NEW t \in Tasks, StreamOpen(t) PROVE GaugeExact'
  <2>1. pc[t] = "connect" /\ track(t, order[t][k[t]]) /\ pool' = pool
    BY <1>5 DEF StreamOpen, kept
  <2>2. order[t][k[t]] \in Servers
    BY <2>1, UnderWay DEF DInv, Sweep
  <2>3. guard[t] = NoServer
    BY <2>1 DEF DInv, GuardHeld, Holding
  <2> QED
    BY <2>1, <2>2, <2>3, TrackGauge
<1>6. ASSUME NEW t \in Tasks,
             ConnectError(t) \/ ForwardError(t) \/ BodyDone(t) \/ Cancel(t) \/ StreamClosed(t)
      PROVE  GaugeExact'
  <2>1. pc[t] \in Holding /\ drop(t) /\ pool' = pool
    BY <1>6 DEF ConnectError, ForwardError, BodyDone, Cancel, StreamClosed, Holding, kept
  <2>2. guard[t] \in Servers
    BY <2>1, UnderWay DEF DInv, Sweep, GuardHeld, Holding
  <2> QED
    BY <2>1, <2>2, DropGauge
<1>7. CASE Reload
  BY <1>2, <1>7 DEF Reload
<1>8. CASE UNCHANGED vars
  BY <1>2, <1>8 DEF vars
<1> QED
  BY <1>1, <1>3, <1>4, <1>5, <1>6, <1>7, <1>8 DEF Next, Bounded

(* The in-flight gauge of every server, in every generation of the pool, is at every moment
   the number of InflightGuards that point at it: no path through dispatch_proxy or the
   stream task, cancellation and reload included, leaks a count or returns one twice. *)
THEOREM Gauges == Spec => []GaugeExact
  BY AlwaysDInv, InitGauge, NextGauge, PTL DEF Spec

===============================================================================
