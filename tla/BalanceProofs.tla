----------------------------- MODULE BalanceProofs -----------------------------
(***************************************************************************)
(* Proofs about the choice of a server, from the invariants of             *)
(* DispatchProofs: a least-conn order is sorted by weighted load when no   *)
(* gauge moved, and round robin picks every server as often as its weight  *)
(* says, for any servers, weights and interleaving of the requests.        *)
(***************************************************************************)
EXTENDS DispatchProofs

(* The least-conn order. *)

\* The weighted load of a is less than that of b, or the same and a comes first.
Before(p, a, b) ==
    LET wa == (inflight[p][a] + 1) * weight_of(b)
        wb == (inflight[p][b] + 1) * weight_of(a)
    IN  wa < wb \/ (wa = wb /\ a < b)

\* The insertion sort: the element i - 1 is on its way from position i to the left.
Inserting(t) ==
    LET i == ins[t][1]  j == ins[t][2] IN
    /\ i \in 2 .. N /\ j \in 2 .. i
    /\ order[t][j] = i - 1
    /\ \A b \in i + 1 .. N : order[t][b] = b - 1
    /\ \A a \in 1 .. i : a # j => order[t][a] < i - 1
    /\ quiet[t] => \A a, b \in 1 .. i : (a < b /\ b # j) => Before(pool[t], order[t][a], order[t][b])

Ordered(t) == \A a, b \in 1 .. N : a < b => Before(pool[t], order[t][a], order[t][b])

SortInv(t) == /\ quiet[t] => strategy = "least-conn" /\ N > 1
              /\ pc[t] = "sort" => Inserting(t)
              /\ pc[t] \notin {"idle", "done", "sort"} /\ quiet[t] => Ordered(t)

LInv == \A t \in Tasks : SortInv(t)

LEMMA Multiply ==
    ASSUME NEW a \in Nat, NEW b \in Nat, NEW c \in Nat, c >= 1
    PROVE  /\ a <= b => a * c <= b * c
           /\ a < b => a * c < b * c
<1>1. ASSUME a <= b PROVE a * c <= b * c
  <2>1. b - a \in Nat /\ (b - a) * c \in Nat /\ b * c = a * c + (b - a) * c
    BY <1>1
  <2> QED
    BY <2>1
<1>2. ASSUME a < b PROVE a * c < b * c
  <2>1. b - a - 1 \in Nat /\ (b - a - 1) * c \in Nat /\ b * c = a * c + (b - a - 1) * c + c
    BY <1>2
  <2> QED
    BY <2>1
<1> QED
  BY <1>1, <1>2

\* Fractions compared by their cross products.
LEMMA CrossProducts ==
    ASSUME NEW a \in Nat, NEW b \in Nat, NEW c \in Nat, NEW x \in Nat, NEW y \in Nat, NEW z \in Nat,
           x >= 1, y >= 1, z >= 1, a * y <= b * x, b * z <= c * y
    PROVE  /\ a * z <= c * x
           /\ (a * y < b * x \/ b * z < c * y) => a * z < c * x
<1> DEFINE ay == a * y
           bx == b * x
           bz == b * z
           cy == c * y
           az == a * z
           cx == c * x
<1>1. ay \in Nat /\ bx \in Nat /\ bz \in Nat /\ cy \in Nat /\ az \in Nat /\ cx \in Nat
  OBVIOUS
<1>2. ay * z = az * y /\ bx * z = bz * x /\ cy * x = cx * y
  OBVIOUS
<1>3. ay <= bx /\ bz <= cy
  OBVIOUS
<1> HIDE DEF ay, bx, bz, cy, az, cx
<1>4. ay * z <= bx * z /\ bz * x <= cy * x
  BY <1>1, <1>3, Multiply
<1>5. ay * z \in Nat /\ bx * z \in Nat /\ bz * x \in Nat /\ cy * x \in Nat /\ az * y \in Nat /\ cx * y \in Nat
  BY <1>1
<1>6. az * y <= cx * y
  BY <1>2, <1>4, <1>5
<1>7. az <= cx
  <2>1. cx < az => cx * y < az * y
    BY <1>1, Multiply
  <2> QED
    BY <1>1, <1>5, <1>6, <2>1
<1>8. ASSUME ay < bx \/ bz < cy PROVE az < cx
  <2>1. (ay < bx => ay * z < bx * z) /\ (bz < cy => bz * x < cy * x)
    BY <1>1, Multiply
  <2>2. az * y < cx * y
    BY <1>2, <1>4, <1>5, <1>8, <2>1
  <2>3. cx <= az => cx * y <= az * y
    BY <1>1, Multiply
  <2> QED
    BY <1>1, <1>5, <2>2, <2>3
<1> QED
  BY <1>7, <1>8 DEF ay, bx, bz, cy, az, cx

LEMMA BeforeTransitive ==
    ASSUME NEW p \in Pools, inflight[p] \in [Servers -> Nat],
           NEW a \in Servers, NEW b \in Servers, NEW c \in Servers, Before(p, a, b), Before(p, b, c)
    PROVE  Before(p, a, c)
<1> DEFINE A == inflight[p][a] + 1
           B == inflight[p][b] + 1
           C == inflight[p][c] + 1
           x == weight_of(a)
           y == weight_of(b)
           z == weight_of(c)
<1>1. A \in Nat /\ B \in Nat /\ C \in Nat
  OBVIOUS
<1>2. x \in Nat /\ y \in Nat /\ z \in Nat /\ x >= 1 /\ y >= 1 /\ z >= 1
  BY WeightPositive
<1>3. a \in Int /\ b \in Int /\ c \in Int
  BY BalanceAssumption DEF Servers
<1>4. A * y < B * x \/ (A * y = B * x /\ a < b)
  BY DEF Before
<1>5. B * z < C * y \/ (B * z = C * y /\ b < c)
  BY DEF Before
<1> HIDE DEF A, B, C, x, y, z
<1>6. A * y \in Nat /\ B * x \in Nat /\ B * z \in Nat /\ C * y \in Nat /\ A * z \in Nat /\ C * x \in Nat
  BY <1>1, <1>2
<1>7. A * y <= B * x /\ B * z <= C * y
  BY <1>4, <1>5, <1>6
<1>8. A * z <= C * x /\ ((A * y < B * x \/ B * z < C * y) => A * z < C * x)
  BY <1>1, <1>2, <1>7, CrossProducts
<1>9. A * z < C * x \/ (A * z = C * x /\ a < c)
  BY <1>3, <1>4, <1>5, <1>6, <1>8
<1> QED
  BY <1>9 DEF Before, A, C, x, z

\* Gauges that stand still keep the order.
LEMMA BeforeSame ==
    ASSUME NEW p, inflight'[p] = inflight[p], NEW a, NEW b
    PROVE  Before(p, a, b)' <=> Before(p, a, b)
  BY DEF Before

LEMMA SortSame ==
    ASSUME NEW u \in Tasks, SortInv(u), strategy' = strategy,
           quiet'[u] => quiet[u] /\ inflight'[pool[u]] = inflight[pool[u]],
           pool'[u] = pool[u], order'[u] = order[u], ins'[u] = ins[u],
           pc'[u] = "sort" => pc[u] = "sort",
           pc'[u] \notin {"idle", "done", "sort"} => pc[u] \notin {"idle", "done", "sort"}
    PROVE  SortInv(u)'
<1>1. quiet'[u] => \A a, b : Before(pool[u], a, b)' <=> Before(pool[u], a, b)
  BY BeforeSame
<1>2. ASSUME pc'[u] = "sort" PROVE Inserting(u)'
  <2>1. Inserting(u)
    BY <1>2 DEF SortInv
  <2> QED
    BY <1>1, <2>1 DEF Inserting
<1>3. ASSUME pc'[u] \notin {"idle", "done", "sort"}, quiet'[u] PROVE Ordered(u)'
  <2>1. Ordered(u)
    BY <1>3 DEF SortInv
  <2> QED
    BY <1>1, <1>3, <2>1 DEF Ordered
<1> QED
  BY <1>2, <1>3 DEF SortInv

\* A comparison that ends in place, or a move by one position, keeps the prefix in order.
LEMMA CompareSorts ==
    ASSUME DInv, GaugeExact, NEW t \in Tasks, SortInv(t), Compare(t)
    PROVE  SortInv(t)'
<1> DEFINE i == ins[t][1]
           j == ins[t][2]
           p == pool[t]
           o == order[t]
           a == o[j]
           b == o[j - 1]
           less == LessLoaded(a, inflight[p][a], b, inflight[p][b])
           settled == ~less \/ j = 2
           q == order'[t]
<1>1. /\ pc[t] = "sort" /\ UNCHANGED <<strategy, inflight, quiet, pool>>
      /\ order' = IF less THEN [order EXCEPT ![t] = [@ EXCEPT ![j] = b, ![j - 1] = a]] ELSE order
      /\ ins' = [ins EXCEPT ![t] = IF settled THEN <<i + 1, i + 1>> ELSE <<i, j - 1>>]
      /\ pc' = [pc EXCEPT ![t] = IF settled /\ i = N THEN "try" ELSE "sort"]
  BY DEF Compare, pools
<1>2. N \in Nat /\ Complete(o) /\ p \in Pools /\ DOMAIN order = Tasks /\ DOMAIN ins = Tasks /\ DOMAIN pc = Tasks
  BY <1>1, BalanceAssumption DEF DInv, Types, Sweep
<1>3. /\ i \in 2 .. N /\ j \in 2 .. i /\ a = i - 1
      /\ \A m \in i + 1 .. N : o[m] = m - 1
      /\ \A m \in 1 .. i : m # j => o[m] < i - 1
      /\ quiet[t] => \A m, n \in 1 .. i : (m < n /\ n # j) => Before(p, o[m], o[n])
  <2>1. Inserting(t)
    BY <1>1 DEF SortInv
  <2> QED
    BY <2>1 DEF Inserting
<1>4. /\ ins'[t] = IF settled THEN <<i + 1, i + 1>> ELSE <<i, j - 1>>
      /\ pc'[t] = IF settled /\ i = N THEN "try" ELSE "sort"
      /\ q = IF less THEN [o EXCEPT ![j] = b, ![j - 1] = a] ELSE o
  BY <1>1, <1>2
<1>5. inflight[p] \in [Servers -> Nat]
  <2>1. \A s \in Servers : inflight[p][s] \in Nat
    BY SMTT(40), <1>2, HoldersFinite DEF GaugeExact
  <2> QED
    BY <1>2, <2>1 DEF DInv, Types
<1>6. a \in Servers /\ b \in Servers /\ b < a /\ \A m \in 1 .. N : o[m] \in Servers
  <2>1. j \in 1 .. N /\ j - 1 \in 1 .. N /\ j - 1 \in 1 .. i /\ j - 1 # j
    BY SMTT(40), <1>2, <1>3
  <2>2. b < i - 1
    BY <1>3, <2>1
  <2> QED
    BY <1>2, <1>3, <2>1, <2>2 DEF Complete
<1> HIDE DEF i, j, p, o, a, b, less, q
<1>7. less => Before(p, a, b)
  BY DEF less, LessLoaded, Before
<1>8. ~less => Before(p, b, a)
  <2> DEFINE wa == (inflight[p][a] + 1) * weight_of(b)
             wb == (inflight[p][b] + 1) * weight_of(a)
  <2>1. wa \in Nat /\ wb \in Nat
    <3>1. inflight[p][a] \in Nat /\ inflight[p][b] \in Nat
      BY <1>5, <1>6
    <3>2. weight_of(a) \in Nat /\ weight_of(b) \in Nat
      BY <1>6, WeightPositive
    <3> QED
      BY SMTT(40), <3>1, <3>2
  <2>2. less <=> wa < wb
    BY DEF less, LessLoaded
  <2>3. Before(p, b, a) <=> wb < wa \/ (wb = wa /\ b < a)
    BY DEF Before
  <2> HIDE DEF wa, wb
  <2> QED
    BY SMTT(40), <1>6, <2>1, <2>2, <2>3
<1>9. \A x, y, z \in Servers : Before(p, x, y) /\ Before(p, y, z) => Before(p, x, z)
  BY <1>2, <1>5, BeforeTransitive
<1>10. \A x, y : Before(pool[t], x, y)' <=> Before(p, x, y)
  BY <1>1, BeforeSame DEF p
<1>11. j - 1 \in Nat /\ j \in Nat /\ i \in Nat /\ 1 <= j - 1 /\ j <= i /\ i <= N
  BY SMTT(40), <1>2, <1>3
\* The element stays where it is: it goes behind its left neighbour and so behind all before it.
<1>12. ASSUME ~less PROVE /\ q = o
                          /\ quiet[t] => \A m, n \in 1 .. i : m < n => Before(p, o[m], o[n])
  <2>1. q = o
    BY <1>4, <1>12
  <2>2. ASSUME quiet[t], NEW m \in 1 .. i, NEW n \in 1 .. i, m < n PROVE Before(p, o[m], o[n])
    <3>1. CASE n # j
      BY <1>3, <2>2, <3>1
    <3>2. CASE n = j /\ m = j - 1
      BY <1>8, <1>12, <3>2 DEF a, b
    <3>3. CASE n = j /\ m # j - 1
      <4>1. m < j - 1 /\ j - 1 \in 1 .. i /\ j - 1 # j
        BY <1>11, <2>2, <3>3
      <4>2. Before(p, o[m], b)
        BY <1>3, <2>2, <4>1 DEF b
      <4>3. o[m] \in Servers
        BY <1>2, <1>6, <1>11
      <4> QED
        BY <1>6, <1>8, <1>9, <1>12, <3>3, <4>2, <4>3 DEF a
    <3> QED
      BY <3>1, <3>2, <3>3
  <2> QED
    BY <2>1, <2>2
\* The element moves one to the left.
<1>13. ASSUME less
       PROVE  /\ q[j] = b /\ q[j - 1] = a
              /\ \A m \in 1 .. N : m # j /\ m # j - 1 => q[m] = o[m]
              /\ quiet[t] => \A m, n \in 1 .. i : (m < n /\ n # j - 1) => Before(p, q[m], q[n])
  <2>1. /\ q[j] = b /\ q[j - 1] = a
        /\ \A m \in 1 .. N : m # j /\ m # j - 1 => q[m] = o[m]
    <3>1. q = [o EXCEPT ![j] = b, ![j - 1] = a] /\ DOMAIN o = 1 .. N
      BY <1>2, <1>4, <1>13 DEF Complete
    <3>2. j \in 1 .. N /\ j - 1 \in 1 .. N /\ j # j - 1
      BY <1>2, <1>11
    <3> QED
      BY <3>1, <3>2
  <2>2. ASSUME quiet[t], NEW m \in 1 .. i, NEW n \in 1 .. i, m < n, n # j - 1
        PROVE  Before(p, q[m], q[n])
    <3>1. m \in 1 .. N /\ n \in 1 .. N /\ j - 1 \in 1 .. i /\ j \in 1 .. i
      BY <1>2, <1>11
    <3>2. CASE m = j - 1 /\ n = j
      BY <1>7, <1>13, <2>1, <3>2
    <3>3. CASE m = j - 1 /\ n # j
      <4>1. j < n /\ q[n] = o[n]
        BY <1>11, <2>1, <2>2, <3>1, <3>3
      <4>2. Before(p, a, o[n])
        BY <1>3, <2>2, <3>1, <4>1 DEF a
      <4> QED
        BY <2>1, <3>3, <4>1, <4>2
    <3>4. CASE m = j
      <4>1. j - 1 < n /\ n # j /\ q[n] = o[n]
        BY <1>11, <2>1, <2>2, <3>1, <3>4
      <4>2. Before(p, b, o[n])
        BY <1>3, <2>2, <3>1, <4>1 DEF b
      <4> QED
        BY <2>1, <3>4, <4>1, <4>2
    <3>5. CASE m # j /\ m # j - 1 /\ n = j
      <4>1. m < j - 1 /\ q[m] = o[m] /\ j - 1 # j
        BY <1>11, <2>1, <2>2, <3>1, <3>5
      <4>2. Before(p, o[m], b)
        BY <1>3, <2>2, <3>1, <4>1 DEF b
      <4> QED
        BY <2>1, <3>5, <4>1, <4>2
    <3>6. CASE m # j /\ m # j - 1 /\ n # j
      <4>1. q[m] = o[m] /\ q[n] = o[n]
        BY <2>1, <2>2, <3>1, <3>6
      <4> QED
        BY <1>3, <2>2, <3>1, <3>6, <4>1
    <3> QED
      BY <3>2, <3>3, <3>4, <3>5, <3>6
  <2> QED
    BY <2>1, <2>2
<1>14. /\ \A m \in i + 1 .. N : q[m] = m - 1
       /\ \A m \in 1 .. i : q[m] <= i - 1
       /\ less => \A m \in 1 .. i : m # j - 1 => q[m] < i - 1
  <2>1. CASE ~less
    <3>1. ASSUME NEW m \in 1 .. i PROVE o[m] <= i - 1
      <4>1. CASE m = j
        BY <1>3, <1>11, <4>1 DEF a
      <4>2. CASE m # j
        <5>1. o[m] < i - 1 /\ o[m] \in Servers
          BY <1>2, <1>3, <1>6, <1>11, <4>2
        <5> QED
          BY <1>11, <5>1, <1>2 DEF Servers
      <4> QED
        BY <4>1, <4>2
    <3> QED
      BY <1>3, <1>12, <2>1, <3>1
  <2>2. CASE less
    <3>1. ASSUME NEW m \in i + 1 .. N PROVE q[m] = m - 1
      <4>1. m \in 1 .. N /\ m # j /\ m # j - 1
        BY <1>2, <1>11
      <4> QED
        BY <1>3, <1>13, <2>2, <4>1
    <3>2. ASSUME NEW m \in 1 .. i, m # j - 1 PROVE q[m] < i - 1
      <4>1. m \in 1 .. N /\ j - 1 \in 1 .. i /\ j - 1 # j
        BY <1>2, <1>11
      <4>2. CASE m = j
        BY <1>3, <1>13, <2>2, <4>1, <4>2 DEF b
      <4>3. CASE m # j
        BY <1>3, <1>13, <2>2, <3>2, <4>1, <4>3
      <4> QED
        BY <4>2, <4>3
    <3>3. q[j - 1] = i - 1
      BY <1>3, <1>13, <2>2
    <3>4. ASSUME NEW m \in 1 .. i PROVE q[m] <= i - 1
      <4>1. CASE m = j - 1
        BY <1>11, <3>3, <4>1
      <4>2. CASE m # j - 1
        <5>1. m \in 1 .. N
          BY <1>2, <1>11
        <5>2. q[m] \in Servers
          BY <1>6, <1>13, <2>2, <4>2, <5>1
        <5>3. q[m] < i - 1
          BY <3>2, <4>2
        <5> QED
          BY <1>2, <1>11, <5>2, <5>3 DEF Servers
      <4> QED
        BY <4>1, <4>2
    <3> QED
      BY <3>1, <3>2, <3>4
  <2> QED
    BY <2>1, <2>2
<1>15. ASSUME settled, quiet[t], NEW m \in 1 .. i, NEW n \in 1 .. i, m < n PROVE Before(p, q[m], q[n])
  <2>1. CASE ~less
    BY <1>12, <1>15, <2>1
  <2>2. CASE less
    <3>1. n # j - 1
      BY <1>11, <1>15, <2>2
    <3> QED
      BY <1>13, <1>15, <2>2, <3>1
  <2> QED
    BY <2>1, <2>2
<1>16. quiet'[t] = quiet[t] /\ pool'[t] = p /\ strategy' = strategy
  BY <1>1 DEF p
<1>17. CASE settled /\ i = N
  <2>1. pc'[t] = "try"
    BY <1>4, <1>17
  <2>2. quiet'[t] => Ordered(t)'
    BY <1>10, <1>15, <1>16, <1>17 DEF Ordered, q
  <2> QED
    BY <1>16, <2>1, <2>2 DEF SortInv
<1>18. CASE settled /\ i # N
  <2>1. pc'[t] = "sort" /\ ins'[t] = <<i + 1, i + 1>>
    BY <1>4, <1>18
  <2>2. i + 1 \in 2 .. N /\ i + 1 \in 2 .. i + 1
    BY <1>2, <1>11, <1>18
  <2>3. q[i + 1] = (i + 1) - 1
    BY <1>11, <1>14, <2>2
  <2>4. \A m \in (i + 1) + 1 .. N : q[m] = m - 1
    BY <1>2, <1>11, <1>14
  <2>5. ASSUME NEW m \in 1 .. i + 1, m # i + 1 PROVE q[m] < (i + 1) - 1
    <3>1. m \in 1 .. i
      BY <1>11, <2>5
    <3>2. q[m] <= i - 1 /\ q[m] \in Int
      <4>1. m \in 1 .. N
        BY <1>2, <1>11, <3>1
      <4>2. q[m] \in Servers
        <5>1. CASE ~less
          BY <1>6, <1>12, <4>1, <5>1
        <5>2. CASE less
          BY <1>6, <1>13, <4>1, <5>2
        <5> QED
          BY <5>1, <5>2
      <4> QED
        BY <1>2, <1>14, <3>1, <4>2 DEF Servers
    <3> QED
      BY <1>11, <3>2
  <2>6. ASSUME quiet[t], NEW m \in 1 .. i + 1, NEW n \in 1 .. i + 1, m < n, n # i + 1
        PROVE  Before(p, q[m], q[n])
    <3>1. m \in 1 .. i /\ n \in 1 .. i
      BY <1>11, <2>6
    <3> QED
      BY <1>15, <1>18, <2>6, <3>1
  <2>7. Inserting(t)'
    <3>1. ins'[t][1] = i + 1 /\ ins'[t][2] = i + 1
      BY <2>1
    <3>2. quiet'[t] => \A m, n \in 1 .. i + 1 :
              (m < n /\ n # i + 1) => Before(pool[t], order[t][m], order[t][n])'
      BY <1>10, <1>16, <2>6 DEF q
    <3> QED
      BY SMTT(40), <2>2, <2>3, <2>4, <2>5, <3>1, <3>2 DEF Inserting, q
  <2> QED
    BY <1>16, <2>1, <2>7 DEF SortInv
<1>19. CASE ~settled
  <2>1. pc'[t] = "sort" /\ ins'[t] = <<i, j - 1>> /\ less /\ j # 2
    BY <1>4, <1>19
  <2>2. i \in 2 .. N /\ j - 1 \in 2 .. i
    BY <1>2, <1>11, <2>1
  <2>3. q[j - 1] = i - 1
    BY <1>3, <1>13, <2>1
  <2>4. Inserting(t)'
    <3>1. ins'[t][1] = i /\ ins'[t][2] = j - 1
      BY <2>1
    <3>2. quiet'[t] => \A m, n \in 1 .. i :
              (m < n /\ n # j - 1) => Before(pool[t], order[t][m], order[t][n])'
      BY <1>10, <1>13, <1>16, <2>1 DEF q
    <3>3. /\ \A m \in i + 1 .. N : q[m] = m - 1
          /\ \A m \in 1 .. i : m # j - 1 => q[m] < i - 1
      BY <1>14, <2>1
    <3> QED
      BY SMTT(40), <2>2, <2>3, <3>1, <3>2, <3>3 DEF Inserting, q
  <2> QED
    BY <1>16, <2>1, <2>4 DEF SortInv
<1> QED
  BY <1>17, <1>18, <1>19

LEMMA StartSorts ==
    ASSUME DInv, LInv, NEW t \in Tasks, Start(t)
    PROVE  LInv'
<1>1. PICK p \in Pools : RoundRobin(t, p) \/ FixedOrder(t, p) \/ LeastConn(t, p)
  BY DEF Start
<1>2. /\ strategy' = strategy /\ inflight' = inflight
      /\ \A u \in Tasks \ {t} : /\ pool'[u] = pool[u] /\ order'[u] = order[u] /\ ins'[u] = ins[u]
                                /\ pc'[u] = pc[u] /\ quiet'[u] = quiet[u]
  BY <1>1 DEF RoundRobin, FixedOrder, LeastConn, Begin, DInv, Types
<1>3. ASSUME NEW u \in Tasks \ {t} PROVE SortInv(u)'
  <2>1. SortInv(u)
    BY DEF LInv
  <2> QED
    BY <1>2, <2>1, SortSame
<1>4. SortInv(t)'
  <2>1. CASE RoundRobin(t, p) \/ FixedOrder(t, p)
    <3>1. ~quiet[t]
      BY SMTT(40), <2>1 DEF LInv, SortInv, RoundRobin, FixedOrder
    <3>2. pc'[t] = "try" /\ quiet'[t] = quiet[t]
      BY <2>1 DEF RoundRobin, FixedOrder, Begin, DInv, Types
    <3> QED
      BY <3>1, <3>2 DEF SortInv
  <2>2. CASE LeastConn(t, p)
    <3>1. /\ pc'[t] = "sort" /\ order'[t] = [j \in 1 .. N |-> j - 1] /\ ins'[t] = <<2, 2>>
          /\ strategy = "least-conn" /\ N > 1
      BY <2>2 DEF LeastConn, Begin, DInv, Types
    <3>2. N \in Nat
      BY BalanceAssumption
    <3> DEFINE o == [j \in 1 .. N |-> j - 1]
    <3>3. /\ 2 \in 2 .. N /\ o[2] = 2 - 1 /\ (\A b \in 2 + 1 .. N : o[b] = b - 1)
          /\ \A a \in 1 .. 2 : a # 2 => o[a] < 2 - 1
      BY <3>1, <3>2
    <3>4. \A a, b \in 1 .. 2 : ~(a < b /\ b # 2)
      OBVIOUS
    <3> HIDE DEF o
    <3>5. order'[t] = o
      BY <3>1 DEF o
    <3>6. ins'[t][1] = 2 /\ ins'[t][2] = 2 /\ 2 \in 2 .. 2
      BY <3>1
    <3>7. Inserting(t)'
      BY <3>3, <3>4, <3>5, <3>6 DEF Inserting
    <3> QED
      BY <1>2, <3>1, <3>7 DEF SortInv
  <2> QED
    BY <1>1, <2>1, <2>2
<1> QED
  BY <1>3, <1>4 DEF LInv

\* Steps after the sort: they move a task on, and end the calm of a pool they count in.
LEMMA SweepSorts ==
    ASSUME DInv, LInv, strategy' = strategy, pool' = pool, order' = order, ins' = ins,
           \A u \in Tasks : quiet'[u] => quiet[u] /\ inflight'[pool[u]] = inflight[pool[u]],
           \A u \in Tasks : /\ pc'[u] = "sort" => pc[u] = "sort"
                            /\ pc'[u] \notin {"idle", "done", "sort"} => pc[u] \notin {"idle", "done", "sort"}
    PROVE  LInv'
<1> SUFFICES ASSUME NEW u \in Tasks PROVE SortInv(u)'
  BY DEF LInv
<1>1. SortInv(u)
  BY DEF LInv
<1> QED
  BY <1>1, SortSame

LEMMA Calm ==
    ASSUME DInv, NEW t \in Tasks, NEW s \in Servers,
           track(t, s) \/ (guard[t] = s /\ drop(t)), NEW u \in Tasks, quiet'[u]
    PROVE  quiet[u] /\ inflight'[pool[u]] = inflight[pool[u]]
<1>1. pool[t] \in Pools /\ pool[u] \in Pools
  BY DEF DInv, Types
<1>2. quiet[u] /\ pool[u] # pool[t]
  BY DEF track, drop
<1>3. inflight' = [inflight EXCEPT ![pool[t]] = inflight'[pool[t]]]
  BY <1>1 DEF track, drop, DInv, Types
<1> QED
  BY <1>1, <1>2, <1>3 DEF DInv, Types

LEMMA NextSorts == DInv /\ GaugeExact /\ LInv /\ [Next]_vars => LInv'
<1> SUFFICES ASSUME DInv, GaugeExact, LInv, [Next]_vars PROVE LInv'
  OBVIOUS
<1>0. pc \in [Tasks -> Labels]
  BY DEF DInv, Types
<1>1. ASSUME NEW t \in Tasks, Compare(t) PROVE LInv'
  <2>1. SortInv(t)'
    BY <1>1, CompareSorts DEF LInv
  <2>2. ASSUME NEW u \in Tasks \ {t} PROVE SortInv(u)'
    <3>1. SortInv(u)
      BY DEF LInv
    <3>2. /\ strategy' = strategy /\ inflight' = inflight /\ quiet' = quiet /\ pool' = pool
          /\ ins'[u] = ins[u] /\ pc'[u] = pc[u]
      BY <1>1 DEF Compare, pools, DInv, Types
    <3>3. order'[u] = order[u]
      BY <1>1 DEF Compare, DInv, Types
    <3> QED
      BY <3>1, <3>2, <3>3, SortSame
  <2> QED
    BY <2>1, <2>2 DEF LInv
<1>2. ASSUME NEW t \in Tasks, Exhausted(t) PROVE LInv'
  <2>1. /\ UNCHANGED <<strategy, pool, order, ins, quiet, inflight>> /\ pc' = [pc EXCEPT ![t] = "done"]
    BY <1>2 DEF Exhausted, Answer, Goto, kept
  <2> QED
    BY <1>0, <2>1, SweepSorts
<1>3. ASSUME NEW t \in Tasks, Disallowed(t) PROVE LInv'
  <2>1. UNCHANGED <<strategy, pool, order, ins, quiet, inflight, pc>>
    BY <1>3 DEF Disallowed, kept
  <2> QED
    BY <2>1, SweepSorts
<1>4. ASSUME NEW t \in Tasks, ResponseHead(t) \/ StreamConnect(t) \/ StreamRefused(t) PROVE LInv'
  <2>1. UNCHANGED <<strategy, pool, order, ins, quiet, inflight>>
    BY <1>4 DEF ResponseHead, StreamConnect, StreamRefused, kept
  <2>2. pc[t] \in {"try", "forward", "connect"} /\ \E l \in {"body", "connect", "try"} : pc' = [pc EXCEPT ![t] = l]
    BY <1>4 DEF ResponseHead, StreamConnect, StreamRefused, Goto
  <2> QED
    BY <1>0, <2>1, <2>2, SweepSorts
<1>5. ASSUME NEW t \in Tasks, Forward(t) \/ StreamOpen(t) PROVE LInv'
  <2>1. /\ UNCHANGED <<strategy, pool, order, ins>> /\ track(t, order[t][k[t]])
        /\ pc[t] \in {"try", "connect"} /\ (pc[t] = "try" => k[t] <= Len(order[t]))
    BY <1>5 DEF Forward, StreamOpen, kept
  <2>2. \E l \in {"forward", "copy"} : pc' = [pc EXCEPT ![t] = l]
    BY <1>5 DEF Forward, StreamOpen, Goto
  <2>3. order[t][k[t]] \in Servers
    <3>1. pc[t] \notin {"idle", "done"} /\ (pc[t] = "try" => k[t] <= Len(order[t]))
      BY <2>1
    <3>2. /\ N \in Nat /\ Len(order[t]) = N /\ k[t] \in 1 .. N + 1
          /\ \A j \in 1 .. N : order[t][j] \in Servers
      BY <3>1, UnderWay
    <3>3. pc[t] = "connect" => k[t] \in 1 .. N
      BY DEF DInv, Sweep
    <3>4. pc[t] \in {"try", "connect"}
      BY <2>1
    <3> QED
      BY <3>1, <3>2, <3>3, <3>4
  <2> DEFINE s == order[t][k[t]]
  <2> HIDE DEF s
  <2>4. ASSUME NEW u \in Tasks, quiet'[u] PROVE quiet[u] /\ inflight'[pool[u]] = inflight[pool[u]]
    BY <2>1, <2>3, <2>4, Calm
  <2> QED
    BY <1>0, <2>1, <2>2, <2>4, SweepSorts
<1>6. ASSUME NEW t \in Tasks,
             ConnectError(t) \/ ForwardError(t) \/ BodyDone(t) \/ Cancel(t) \/ StreamClosed(t)
      PROVE  LInv'
  <2>1. pc[t] \in Holding /\ drop(t) /\ UNCHANGED <<strategy, pool, order, ins>>
    BY <1>6 DEF ConnectError, ForwardError, BodyDone, Cancel, StreamClosed, Holding, kept
  <2>2. \E l \in {"try", "done", "idle"} : pc' = [pc EXCEPT ![t] = l]
    BY <1>6 DEF ConnectError, ForwardError, BodyDone, Cancel, StreamClosed, Answer, Goto
  <2>3. guard[t] \in Servers
    BY <2>1, UnderWay DEF DInv, Sweep, GuardHeld, Holding
  <2>4. ASSUME NEW u \in Tasks, quiet'[u] PROVE quiet[u] /\ inflight'[pool[u]] = inflight[pool[u]]
    BY <2>1, <2>3, <2>4, Calm
  <2> QED
    BY <1>0, <2>1, <2>2, <2>4, SweepSorts DEF Holding
<1>7. CASE Reload
  BY <1>7, SweepSorts DEF Reload
<1>8. CASE UNCHANGED vars
  BY <1>8, SweepSorts DEF vars
<1> QED
  BY <1>1, <1>2, <1>3, <1>4, <1>5, <1>6, <1>7, <1>8, StartSorts DEF Next, Bounded

LEMMA InitSorts == Init => LInv
  BY DEF Init, LInv, SortInv

(* The order least-conn computes is by weighted load, ties by position, whenever no gauge of
   the pool moved since the sort began: the insertion sort of candidates is correct for any
   number of servers and any weights, however its comparisons interleave with other tasks. *)
THEOREM LeastConnSorted == Spec => []LeastConnOrder
<1>1. LInv => LeastConnOrder
  <2> SUFFICES ASSUME LInv, NEW t \in Tasks, pc[t] = "try", quiet[t], NEW i \in 1 .. N, NEW j \in 1 .. N, i < j
               PROVE  Before(pool[t], order[t][i], order[t][j])
    BY DEF LeastConnOrder, Before
  <2>1. Ordered(t)
    BY DEF LInv, SortInv
  <2> QED
    BY <2>1 DEF Ordered
<1> QED
  BY <1>1, AlwaysDInv, Gauges, InitSorts, NextSorts, PTL DEF Spec
-------------------------------------------------------------------------------
(* The round-robin picks. *)

\* How much of a round's share of server i lies below the point r.
Share(i, r) == IF r <= Cumulative[i] THEN 0
               ELSE IF r >= Cumulative[i + 1] THEN weight_of(i) ELSE r - Cumulative[i]

\* What server i has had after a picks.
Due(i, a) == (a \div total_weight) * weight_of(i) + Share(i, a % total_weight)

RInv == \A p \in Pools, i \in Servers : picks[p][i] = Due(i, cursor[p])

LEMMA Stretch ==
    ASSUME NEW i \in Servers
    PROVE  /\ Cumulative[i] \in Nat /\ weight_of(i) \in Nat /\ weight_of(i) >= 1
           /\ Cumulative[i + 1] = Cumulative[i] + weight_of(i) /\ Cumulative[i + 1] <= total_weight
<1>1. N \in Nat /\ i \in 0 .. N /\ i + 1 \in 0 .. N /\ N \in 0 .. N /\ i + 1 <= N
  BY BalanceAssumption DEF Servers
<1> QED
  BY <1>1, WeightPositive, CumulativeNat, CumulativeStep, CumulativeMonotone DEF total_weight

\* One more point: the server whose stretch holds it has one more, the others have not.
LEMMA ShareStep ==
    ASSUME NEW a \in Nat, NEW i \in Servers
    PROVE  LET r == a % total_weight  primary == index_for_point(r) IN
           Share(i, r + 1) = Share(i, r) + (IF i = primary THEN 1 ELSE 0)
<1> DEFINE r == a % total_weight
           primary == index_for_point(r)
<1>1. primary \in Servers /\ Cumulative[primary] <= r /\ r < Cumulative[primary + 1]
  BY PickStretch
<1>2. r \in Nat
  BY TotalPositive, DivMod
<1> HIDE DEF r, primary
<1>3. N \in Nat /\ i \in 0 .. N - 1 /\ primary \in 0 .. N - 1
  BY <1>1, BalanceAssumption DEF Servers
<1>4. /\ Cumulative[i] \in Nat /\ weight_of(i) \in Nat /\ weight_of(i) >= 1
      /\ Cumulative[i + 1] = Cumulative[i] + weight_of(i)
  BY Stretch
<1>5. /\ Cumulative[primary] \in Nat /\ weight_of(primary) \in Nat
      /\ Cumulative[primary + 1] = Cumulative[primary] + weight_of(primary)
  BY <1>1, Stretch
<1>6. CASE i = primary
  <2>1. Cumulative[i] <= r /\ r < Cumulative[i + 1]
    BY <1>1, <1>6
  <2>2. Share(i, r) = r - Cumulative[i] /\ Share(i, r + 1) = r + 1 - Cumulative[i]
    BY <1>2, <1>4, <2>1 DEF Share
  <2> QED
    BY <1>2, <1>4, <1>6, <2>2 DEF r, primary
<1>7. CASE i < primary
  <2>1. Cumulative[i + 1] <= Cumulative[primary]
    BY <1>3, <1>7, CumulativeMonotone
  <2>2. Share(i, r) = weight_of(i) /\ Share(i, r + 1) = weight_of(i)
    BY <1>1, <1>2, <1>4, <1>5, <2>1 DEF Share
  <2> QED
    BY <1>3, <1>4, <1>7, <2>2 DEF r, primary
<1>8. CASE primary < i
  <2>1. Cumulative[primary + 1] <= Cumulative[i]
    BY <1>3, <1>8, CumulativeMonotone
  <2>2. Share(i, r) = 0 /\ Share(i, r + 1) = 0
    BY <1>1, <1>2, <1>4, <1>5, <2>1 DEF Share
  <2> QED
    BY <1>3, <1>8, <2>2 DEF r, primary
<1> QED
  BY <1>3, <1>6, <1>7, <1>8

LEMMA DueStep ==
    ASSUME NEW a \in Nat, NEW i \in Servers
    PROVE  Due(i, a + 1) = Due(i, a) + (IF i = index_for_point(a % total_weight) THEN 1 ELSE 0)
<1> DEFINE T == total_weight
           q == a \div T
           r == a % T
           one == IF i = index_for_point(r) THEN 1 ELSE 0
           w == weight_of(i)
<1>1. T \in Nat /\ T >= 1
  BY TotalPositive
<1>2. q \in Nat /\ r \in 0 .. T - 1
  BY <1>1, DivMod
<1>3. IF r + 1 < T THEN (a + 1) \div T = q /\ (a + 1) % T = r + 1
                   ELSE (a + 1) \div T = q + 1 /\ (a + 1) % T = 0
  BY <1>1, DivModStep
<1>4. Share(i, r + 1) = Share(i, r) + one
  BY ShareStep
<1>5. Due(i, a) = q * w + Share(i, r) /\ Due(i, a + 1) = ((a + 1) \div T) * w + Share(i, (a + 1) % T)
  BY DEF Due
<1>6. w \in Nat /\ w >= 1
  BY WeightPositive
<1>7. Share(i, T) = w /\ Share(i, 0) = 0
  <2>1. /\ Cumulative[i] \in Nat /\ Cumulative[i + 1] = Cumulative[i] + w /\ Cumulative[i + 1] <= T
    BY Stretch
  <2> HIDE DEF T, w
  <2> QED
    BY <1>1, <1>6, <2>1 DEF Share, w
<1>8. one \in Nat /\ Share(i, r) \in Int
  <2>1. Cumulative[i] \in Nat
    BY Stretch
  <2> HIDE DEF r, w
  <2> QED
    BY <1>2, <1>6, <2>1 DEF Share, w
<1> HIDE DEF T, q, r, one, w
<1>9. CASE r + 1 < T
  BY <1>2, <1>3, <1>4, <1>5, <1>6, <1>8, <1>9 DEF one, r, T
<1>10. CASE ~(r + 1 < T)
  <2>1. r + 1 = T
    BY <1>1, <1>2, <1>10
  <2>2. Due(i, a + 1) = (q + 1) * w
    BY <1>2, <1>3, <1>5, <1>6, <1>7, <1>10
  <2>3. (q + 1) * w = q * w + w /\ q * w \in Nat
    BY <1>2, <1>6
  <2>4. w = Share(i, r) + one
    BY <1>4, <1>7, <2>1
  <2>5. Due(i, a + 1) = Due(i, a) + one
    BY <1>5, <1>6, <1>8, <2>2, <2>3, <2>4
  <2> QED
    BY <2>5 DEF one, r, T
<1> QED
  BY <1>9, <1>10

LEMMA DueNothing == \A i \in Servers : Due(i, 0) = 0
<1> TAKE i \in Servers
<1>1. total_weight \in Nat /\ total_weight >= 1 /\ 0 = total_weight * 0 + 0 /\ 0 \in 0 .. total_weight - 1
  BY TotalPositive
<1>2. 0 \div total_weight = 0 /\ 0 % total_weight = 0
  BY <1>1, DivModUnique
<1>3. Cumulative[i] \in Nat /\ weight_of(i) \in Nat
  BY Stretch
<1> QED
  BY <1>2, <1>3 DEF Due, Share

\* One round-robin pick, the wrap of the cursor included.
LEMMA PickRInv ==
    ASSUME DInv, RInv, NEW t \in Tasks, NEW p \in Pools, RoundRobin(t, p)
    PROVE  RInv'
<1> DEFINE primary == index_for_point(cursor[p] % total_weight)
           c == cursor[p]
<1>1. c \in 0 .. CursorRange - 1 /\ c \in Nat /\ CursorRange \in Nat /\ CursorRange >= 1
  BY DispatchAssumption DEF DInv, Types
<1>2. /\ cursor' = [cursor EXCEPT ![p] = (c + 1) % CursorRange]
      /\ picks' = [picks EXCEPT ![p] = IF cursor'[p] = 0 THEN [i \in Servers |-> 0]
                                       ELSE [picks[p] EXCEPT ![primary] = @ + 1]]
  BY DEF RoundRobin
<1>3. /\ cursor'[p] = (c + 1) % CursorRange /\ \A x \in Pools \ {p} : cursor'[x] = cursor[x] /\ picks'[x] = picks[x]
      /\ picks'[p] = IF cursor'[p] = 0 THEN [i \in Servers |-> 0] ELSE [picks[p] EXCEPT ![primary] = @ + 1]
  BY <1>2 DEF DInv, Types
<1>4. cursor'[p] = 0 \/ cursor'[p] = c + 1
  <2>1. CASE c + 1 < CursorRange
    <3>1. c + 1 = CursorRange * 0 + (c + 1) /\ c + 1 \in 0 .. CursorRange - 1
      BY <1>1, <2>1
    <3>2. (c + 1) % CursorRange = c + 1
      BY <1>1, <3>1, DivModUnique
    <3> QED
      BY <1>3, <3>2
  <2>2. CASE c + 1 = CursorRange
    <3>1. c + 1 = CursorRange * 1 + 0 /\ 0 \in 0 .. CursorRange - 1
      BY <1>1, <2>2
    <3>2. (c + 1) % CursorRange = 0
      BY <1>1, <3>1, DivModUnique
    <3> QED
      BY <1>3, <3>2
  <2> QED
    BY SMTT(40), <1>1, <2>1, <2>2
<1>5. ASSUME NEW i \in Servers PROVE picks'[p][i] = Due(i, cursor'[p])
  <2>1. CASE cursor'[p] = 0
    BY <1>3, <2>1, DueNothing
  <2>2. CASE cursor'[p] # 0
    <3>1. cursor'[p] = c + 1 /\ picks'[p] = [picks[p] EXCEPT ![primary] = @ + 1]
      BY <1>3, <1>4, <2>2
    <3>2. Due(i, c + 1) = Due(i, c) + (IF i = primary THEN 1 ELSE 0)
      BY <1>1, DueStep
    <3>3. picks[p][i] = Due(i, c) /\ picks[p][i] \in Nat /\ picks[p] \in [Servers -> Nat]
      BY DEF RInv, DInv, Types
    <3> HIDE DEF primary, c
    <3>4. picks'[p][i] = picks[p][i] + (IF i = primary THEN 1 ELSE 0)
      BY SMTT(40), <3>1, <3>3
    <3> QED
      BY <3>1, <3>2, <3>3, <3>4
  <2> QED
    BY <2>1, <2>2
<1>6. ASSUME NEW x \in Pools, NEW i \in Servers PROVE picks'[x][i] = Due(i, cursor'[x])
  BY <1>3, <1>5 DEF RInv
<1> QED
  BY <1>6 DEF RInv

LEMMA NextRInv == DInv /\ RInv /\ [Next]_vars => RInv'
<1> SUFFICES ASSUME DInv, RInv, [Next]_vars PROVE RInv'
  OBVIOUS
<1>1. ASSUME UNCHANGED <<cursor, picks>> PROVE RInv'
  BY <1>1 DEF RInv
<1>2. ASSUME NEW t \in Tasks, Start(t) PROVE RInv'
  BY <1>1, <1>2, PickRInv DEF Start, FixedOrder, LeastConn
<1>3. ASSUME NEW t \in Tasks, Compare(t) PROVE RInv'
  BY <1>1, <1>3 DEF Compare, pools
<1>4. ASSUME NEW t \in Tasks, UNCHANGED kept PROVE RInv'
  BY <1>1, <1>4 DEF kept
<1>5. ASSUME NEW t \in Tasks, Bounded(t) PROVE RInv'
  BY <1>3, <1>4, <1>5 DEF Bounded, Exhausted, Disallowed, Forward, ConnectError, ForwardError,
     ResponseHead, StreamConnect, StreamRefused, StreamOpen
<1>6. ASSUME NEW t \in Tasks, BodyDone(t) \/ Cancel(t) \/ StreamClosed(t) PROVE RInv'
  BY <1>4, <1>6 DEF BodyDone, Cancel, StreamClosed
<1>7. CASE Reload
  BY <1>1, <1>7 DEF Reload
<1>8. CASE UNCHANGED vars
  BY <1>1, <1>8 DEF vars
<1> QED
  BY <1>2, <1>5, <1>6, <1>7, <1>8 DEF Next

LEMMA InitRInv == Init => RInv
  BY DueNothing DEF Init, RInv

(* Round robin is fair for any weights and any cursor width: whenever the cursor is at a
   multiple of the total weight, every server has been picked exactly its weight times per
   round, however requests and reloads interleave. *)
THEOREM Fair == Spec => []RoundRobinFair
<1>1. DInv /\ RInv => RoundRobinFair
  <2> SUFFICES ASSUME DInv, RInv, NEW p \in Pools, NEW i \in Servers, cursor[p] % total_weight = 0
               PROVE  picks[p][i] = (cursor[p] \div total_weight) * weight_of(i)
    BY DEF RoundRobinFair
  <2>1. cursor[p] \in Nat /\ CursorRange \in Nat
    BY DispatchAssumption DEF DInv, Types
  <2>2. Cumulative[i] \in Nat /\ weight_of(i) \in Nat
    BY Stretch
  <2>3. cursor[p] \div total_weight \in Nat
    BY <2>1, TotalPositive, DivMod
  <2>4. Share(i, 0) = 0
    BY <2>2 DEF Share
  <2>5. picks[p][i] = (cursor[p] \div total_weight) * weight_of(i) + Share(i, 0)
    BY DEF RInv, Due
  <2> DEFINE q == cursor[p] \div total_weight
  <2> HIDE DEF q
  <2>6. q * weight_of(i) + 0 = q * weight_of(i)
    BY <2>2, <2>3 DEF q
  <2> QED
    BY <2>4, <2>5, <2>6 DEF q
<1> QED
  BY <1>1, AlwaysDInv, InitRInv, NextRInv, PTL DEF Spec
===============================================================================
