--------------------------- MODULE ConnectionProofs ---------------------------
(***************************************************************************)
(* Proofs about Connection and Http2Reset, for any number of streams, any  *)
(* reset rate, any bytes and any division of them into reads.              *)
(***************************************************************************)
EXTENDS Connection, SequenceTheorems, WellFoundedInduction, TLAPS

\* Induction with the statement as a set of numbers.
LEMMA SetInduction ==
    ASSUME NEW S \in SUBSET Nat, 0 \in S, \A n \in Nat : n \in S => n + 1 \in S
    PROVE  \A n \in Nat : n \in S
<1> SUFFICES ASSUME Nat \ S # {} PROVE FALSE
  OBVIOUS
<1>1. PICK x \in Nat \ S : \A y \in Nat \ S : ~(<<y, x>> \in OpToRel(<, Nat))
  BY NatLessThanWellFounded, WFMin
<1>2. x # 0 /\ x - 1 \in Nat
  OBVIOUS
<1>3. x - 1 \in S
  <2> SUFFICES ASSUME x - 1 \notin S PROVE FALSE
    OBVIOUS
  <2>1. <<x - 1, x>> \in OpToRel(<, Nat)
    BY <1>2 DEF OpToRel
  <2> QED
    BY <1>1, <1>2, <2>1
<1>4. (x - 1) + 1 \in S
  BY <1>2, <1>3
<1> QED
  BY <1>2, <1>4
-------------------------------------------------------------------------------
(* Sums of resets. *)

LEMMA TimeNat == MaxTime \in Nat /\ Window \in Nat /\ Limit \in Nat /\ Times = 0 .. MaxTime
  BY ResetAssumption DEF Times

\* The equation that defines Sums(r) has a solution, so Sums(r) solves it.
LEMMA SumsDef ==
    ASSUME NEW r
    PROVE  Sums(r) = [t \in 0 .. MaxTime + 1 |-> IF t = 0 THEN 0 ELSE Sums(r)[t - 1] + r[t - 1]]
<1> DEFINE Sum(g, n) == [m \in 0 .. n |-> IF m = 0 THEN 0 ELSE g[m - 1] + r[m - 1]]
           Solved == {n \in Nat : \E g : g = Sum(g, n)}
<1>1. 0 \in Solved
  <2> DEFINE g == [m \in 0 .. 0 |-> 0]
  <2>1. g = Sum(g, 0)
    OBVIOUS
  <2> QED
    BY <2>1
<1>2. ASSUME NEW n \in Nat, n \in Solved PROVE n + 1 \in Solved
  <2>1. PICK g : g = Sum(g, n)
    BY <1>2
  <2> DEFINE h == [m \in 0 .. n + 1 |-> IF m = n + 1 THEN g[n] + r[n] ELSE g[m]]
  <2>2. ASSUME NEW m \in 0 .. n + 1 PROVE h[m] = IF m = 0 THEN 0 ELSE h[m - 1] + r[m - 1]
    <3>1. CASE m = n + 1
      BY <3>1
    <3>2. CASE m # n + 1
      <4>1. m \in 0 .. n
        BY <3>2
      <4>2. g[m] = IF m = 0 THEN 0 ELSE g[m - 1] + r[m - 1]
        BY <2>1, <4>1
      <4>3. h[m] = g[m] /\ (m # 0 => h[m - 1] = g[m - 1])
        BY <4>1
      <4> QED
        BY <4>2, <4>3
    <3> QED
      BY <3>1, <3>2
  <2>3. h = Sum(h, n + 1)
    BY <2>2
  <2>4. \E f : f = Sum(f, n + 1)
    <3> HIDE DEF h
    <3> QED
      BY <2>3
  <2> QED
    BY <2>4
<1>3. MaxTime + 1 \in Solved
  <2>1. Solved \in SUBSET Nat
    OBVIOUS
  <2>2. MaxTime + 1 \in Nat
    BY TimeNat
  <2> HIDE DEF Solved
  <2> QED
    BY <1>1, <1>2, <2>1, <2>2, SetInduction
<1>4. \E g : g = Sum(g, MaxTime + 1)
  BY <1>3
<1>5. Sums(r) = CHOOSE g : g = Sum(g, MaxTime + 1)
  BY DEF Sums
<1> QED
  BY <1>4, <1>5

LEMMA SumsStep ==
    ASSUME NEW r \in [Times -> Nat]
    PROVE  /\ Sums(r)[0] = 0
           /\ \A t \in Times : Sums(r)[t + 1] = Sums(r)[t] + r[t]
           /\ \A t \in 0 .. MaxTime + 1 : Sums(r)[t] \in Nat
<1> USE TimeNat
<1> DEFINE R == Sums(r)
<1>1. R[0] = 0
  BY SumsDef
<1>2. ASSUME NEW t \in Times PROVE R[t + 1] = R[t] + r[t]
  <2>1. t + 1 \in 0 .. MaxTime + 1 /\ t + 1 # 0 /\ (t + 1) - 1 = t
    OBVIOUS
  <2>2. R[t + 1] = R[(t + 1) - 1] + r[(t + 1) - 1]
    BY <2>1, SumsDef
  <2> QED
    BY <2>1, <2>2
<1>3. \A t \in 0 .. MaxTime + 1 : R[t] \in Nat
  <2> DEFINE S == {n \in Nat : n <= MaxTime + 1 => R[n] \in Nat}
  <2> HIDE DEF R
  <2>1. 0 \in S
    BY <1>1
  <2>2. ASSUME NEW n \in Nat, n \in S PROVE n + 1 \in S
    <3> SUFFICES ASSUME n + 1 <= MaxTime + 1 PROVE R[n + 1] \in Nat
      OBVIOUS
    <3>1. n \in Times /\ R[n] \in Nat
      BY <2>2
    <3>2. r[n] \in Nat
      BY <3>1
    <3> QED
      BY <1>2, <3>1, <3>2
  <2>3. \A n \in Nat : n \in S
    <3>1. S \in SUBSET Nat
      OBVIOUS
    <3> HIDE DEF S
    <3> QED
      BY <2>1, <2>2, <3>1, SetInduction
  <2> QED
    BY <2>3
<1> QED
  BY <1>1, <1>2, <1>3

LEMMA SumsMonotone ==
    ASSUME NEW r \in [Times -> Nat], NEW a \in 0 .. MaxTime + 1, NEW b \in 0 .. MaxTime + 1, a <= b
    PROVE  Sums(r)[a] <= Sums(r)[b]
<1> USE TimeNat
<1> DEFINE R == Sums(r)
           S == {n \in Nat : a + n <= MaxTime + 1 => R[a] <= R[a + n]}
<1>1. /\ \A t \in Times : R[t + 1] = R[t] + r[t]
      /\ \A t \in 0 .. MaxTime + 1 : R[t] \in Nat
  BY SumsStep
<1> HIDE DEF R
<1>2. 0 \in S
  BY <1>1
<1>3. ASSUME NEW n \in Nat, n \in S PROVE n + 1 \in S
  <2> SUFFICES ASSUME a + (n + 1) <= MaxTime + 1 PROVE R[a] <= R[a + (n + 1)]
    OBVIOUS
  <2>1. a + n \in Times /\ R[a] <= R[a + n] /\ R[a + n] \in Nat /\ R[a] \in Nat
    BY <1>1, <1>3
  <2>2. r[a + n] \in Nat /\ R[(a + n) + 1] = R[a + n] + r[a + n] /\ (a + n) + 1 = a + (n + 1)
    BY <1>1, <2>1
  <2> QED
    BY <2>1, <2>2
<1>4. \A n \in Nat : n \in S
  <2>1. S \in SUBSET Nat
    OBVIOUS
  <2> HIDE DEF S
  <2> QED
    BY <1>2, <1>3, <2>1, SetInduction
<1>5. b - a \in Nat /\ a + (b - a) = b
  OBVIOUS
<1>6. b - a \in S
  BY <1>4, <1>5
<1>7. R[a] <= R[b]
  BY <1>5, <1>6
<1> QED
  BY <1>7 DEF R

\* A stretch without resets adds nothing.
LEMMA SumsFlat ==
    ASSUME NEW r \in [Times -> Nat], NEW a \in 0 .. MaxTime + 1, NEW b \in 0 .. MaxTime + 1, a <= b,
           \A t \in Times : a <= t /\ t < b => r[t] = 0
    PROVE  Sums(r)[a] = Sums(r)[b]
<1> USE TimeNat
<1> DEFINE R == Sums(r)
           S == {n \in Nat : a + n <= b => R[a] = R[a + n]}
<1>1. /\ \A t \in Times : R[t + 1] = R[t] + r[t]
      /\ \A t \in 0 .. MaxTime + 1 : R[t] \in Nat
  BY SumsStep
<1> HIDE DEF R
<1>2. 0 \in S
  BY <1>1
<1>3. ASSUME NEW n \in Nat, n \in S PROVE n + 1 \in S
  <2> SUFFICES ASSUME a + (n + 1) <= b PROVE R[a] = R[a + (n + 1)]
    OBVIOUS
  <2>1. a + n \in Times /\ R[a] = R[a + n] /\ R[a] \in Nat /\ a <= a + n /\ a + n < b
    BY <1>1, <1>3
  <2>2. r[a + n] = 0 /\ R[(a + n) + 1] = R[a + n] + r[a + n] /\ (a + n) + 1 = a + (n + 1)
    BY <1>1, <2>1
  <2> QED
    BY <2>1, <2>2
<1>4. \A n \in Nat : n \in S
  <2>1. S \in SUBSET Nat
    OBVIOUS
  <2> HIDE DEF S
  <2> QED
    BY <1>2, <1>3, <2>1, SetInduction
<1>5. b - a \in Nat /\ a + (b - a) = b
  OBVIOUS
<1>6. b - a \in S
  BY <1>4, <1>5
<1>7. R[a] = R[b]
  BY <1>5, <1>6
<1> QED
  BY <1>7 DEF R

\* One more reset at the instant n.
LEMMA SumsAdd ==
    ASSUME NEW r \in [Times -> Nat], NEW n \in Times
    PROVE  /\ [r EXCEPT ![n] = @ + 1] \in [Times -> Nat]
           /\ \A x \in 0 .. MaxTime + 1 :
                Sums([r EXCEPT ![n] = @ + 1])[x] = Sums(r)[x] + (IF x > n THEN 1 ELSE 0)
<1> USE TimeNat
<1> DEFINE q == [r EXCEPT ![n] = @ + 1]
           R == Sums(r)
           Q == Sums(q)
           S == {x \in Nat : x <= MaxTime + 1 => Q[x] = R[x] + (IF x > n THEN 1 ELSE 0)}
<1>1. q \in [Times -> Nat] /\ \A t \in Times : q[t] = r[t] + (IF t = n THEN 1 ELSE 0)
  OBVIOUS
<1> HIDE DEF q
<1>2. /\ R[0] = 0 /\ \A t \in Times : R[t + 1] = R[t] + r[t]
      /\ \A t \in 0 .. MaxTime + 1 : R[t] \in Nat
  BY SumsStep
<1>3. /\ Q[0] = 0 /\ \A t \in Times : Q[t + 1] = Q[t] + q[t]
      /\ \A t \in 0 .. MaxTime + 1 : Q[t] \in Nat
  BY <1>1, SumsStep
<1> HIDE DEF R, Q
<1>4. 0 \in S
  <2>1. ~(0 > n) /\ Q[0] = 0 /\ R[0] = 0
    BY <1>2, <1>3
  <2> QED
    BY <2>1
<1>5. ASSUME NEW x \in Nat, x \in S PROVE x + 1 \in S
  <2> SUFFICES ASSUME x + 1 <= MaxTime + 1 PROVE Q[x + 1] = R[x + 1] + (IF x + 1 > n THEN 1 ELSE 0)
    OBVIOUS
  <2>1. x \in Times /\ Q[x] = R[x] + (IF x > n THEN 1 ELSE 0) /\ R[x] \in Nat
    BY <1>2, <1>5
  <2>2. Q[x + 1] = Q[x] + q[x] /\ R[x + 1] = R[x] + r[x] /\ r[x] \in Nat
    BY <1>2, <1>3, <2>1
  <2>3. q[x] = r[x] + (IF x = n THEN 1 ELSE 0)
    BY <1>1, <2>1
  <2> QED
    BY <2>1, <2>2, <2>3
<1>6. \A x \in Nat : x \in S
  <2>1. S \in SUBSET Nat
    OBVIOUS
  <2> HIDE DEF S
  <2> QED
    BY <1>4, <1>5, <2>1, SetInduction
<1>7. \A x \in 0 .. MaxTime + 1 : Q[x] = R[x] + (IF x > n THEN 1 ELSE 0)
  BY <1>6
<1> QED
  BY <1>1, <1>7 DEF q, R, Q
-------------------------------------------------------------------------------
(* The reset tracker: an inductive invariant. *)

\* The resets at the instants from .. to - 1.
Between(from, to) == Sums(resets)[to] - Sums(resets)[from]

ResetTypes ==
    /\ now \in Times /\ count \in Nat /\ started \in Times /\ started <= now
    /\ stream \in [Streams -> {"idle", "open", "notify"}]
    /\ notified \in BOOLEAN /\ tripped \in BOOLEAN
    /\ cpc \in {"serving", "goaway", "draining", "closed"}
    /\ resets \in [Times -> Nat]

\* Nothing is recorded in the future, nor after the window of the last reset; the count is
\* what was recorded since the window began.
WindowCount ==
    /\ \A t \in Times : t > now \/ t > started + Window => resets[t] = 0
    /\ count = Between(started, MaxTime + 1)

\* Whoever acts on a trip acts on a window that was over the limit.
Trips ==
    /\ tripped => \E t \in Times : ResetsIn(t, t + Window) > Limit
    /\ notified \/ cpc \in {"goaway", "draining"} => tripped
    /\ \A s \in Streams : stream[s] = "notify" => tripped

\* Before a trip: a stretch that reaches the current window has met at most one window before.
Untripped ==
    ~tripped => /\ count <= Limit
                /\ \A t \in Times : t <= started /\ started <= t + Window => Between(t, started) <= Limit
                /\ \A t \in Times : ResetsIn(t, t + Window) <= 2 * Limit

ResetInv == ResetTypes /\ WindowCount /\ Trips /\ Untripped

\* The instant after the window that begins at t, as far as the clock goes.
After(t) == IF t + Window < MaxTime THEN t + Window + 1 ELSE MaxTime + 1

LEMMA WindowSum ==
    ASSUME NEW t \in Times
    PROVE  /\ After(t) \in 0 .. MaxTime + 1 /\ t < After(t)
           /\ ResetsIn(t, t + Window) = Between(t, After(t))
<1> USE TimeNat
<1>1. After(t) \in 0 .. MaxTime + 1 /\ t < After(t)
  BY DEF After
<1>2. After(t) = (IF t + Window < MaxTime THEN t + Window ELSE MaxTime) + 1
  BY DEF After
<1> QED
  BY <1>1, <1>2 DEF ResetsIn, Between

LEMMA ResetInit == Init => ResetInv
<1> USE TimeNat
<1> SUFFICES ASSUME Init PROVE ResetInv
  OBVIOUS
<1>1. ResetTypes
  <2>1. now \in Times /\ count \in Nat /\ started \in Times /\ started <= now
    BY DEF Init
  <2>2. /\ stream \in [Streams -> {"idle", "open", "notify"}]
        /\ cpc \in {"serving", "goaway", "draining", "closed"}
    BY DEF Init
  <2>3. notified \in BOOLEAN /\ tripped \in BOOLEAN
    BY DEF Init
  <2>4. resets \in [Times -> Nat]
    BY DEF Init
  <2> QED
    BY <2>1, <2>2, <2>3, <2>4 DEF ResetTypes
<1> DEFINE R == Sums(resets)
<1>2. ASSUME NEW x \in 0 .. MaxTime + 1 PROVE R[x] = 0
  <2>1. resets \in [Times -> Nat] /\ 0 \in 0 .. MaxTime + 1 /\ 0 <= x
    BY <1>1 DEF ResetTypes
  <2>2. \A t \in Times : resets[t] = 0
    BY DEF Init
  <2>3. R[0] = R[x]
    BY <2>1, <2>2, SumsFlat
  <2> QED
    BY <2>1, <2>3, SumsStep
<1>3. \A x, y \in 0 .. MaxTime + 1 : Between(x, y) = 0
  BY <1>2 DEF Between
<1>4. \A t \in Times : ResetsIn(t, t + Window) = 0
  BY <1>3, WindowSum
<1>5. WindowCount
  BY <1>3 DEF Init, WindowCount
<1>6. Trips
  BY DEF Init, Trips
<1>7. Untripped
  BY <1>3, <1>4 DEF Init, Untripped
<1> QED
  BY <1>1, <1>5, <1>6, <1>7 DEF ResetInv

\* The steps that record nothing.
LEMMA QuietStep ==
    ASSUME ResetInv,
           UNCHANGED <<count, started, resets, tripped>>,
           now' \in Times, now <= now',
           stream' \in [Streams -> {"idle", "open", "notify"}],
           \A s \in Streams : stream'[s] = "notify" => stream[s] = "notify",
           notified' \in BOOLEAN, notified' => notified \/ \E s \in Streams : stream[s] = "notify",
           cpc' \in {"serving", "goaway", "draining", "closed"},
           cpc' \in {"goaway", "draining"} => notified \/ cpc \in {"goaway", "draining"}
    PROVE  ResetInv'
<1> USE TimeNat DEF ResetInv
<1>1. ResetTypes'
  BY DEF ResetTypes
<1>2. /\ \A a, b : Between(a, b)' = Between(a, b)
      /\ \A a, b : ResetsIn(a, b)' = ResetsIn(a, b)
  BY DEF Between, ResetsIn
<1>3. WindowCount'
  <2>1. ASSUME NEW t \in Times, t > now' \/ t > started + Window PROVE resets[t] = 0
    BY <2>1 DEF ResetTypes, WindowCount
  <2>2. count' = Between(started, MaxTime + 1)'
    BY <1>2 DEF WindowCount
  <2> QED
    BY <2>1, <2>2 DEF WindowCount
<1>4. Trips'
  BY <1>2 DEF Trips, ResetTypes
<1>5. Untripped'
  BY <1>2 DEF Untripped
<1> QED
  BY <1>1, <1>3, <1>4, <1>5

\* A reset is added to the window it falls into, or opens one.
LEMMA ResetStep ==
    ASSUME ResetInv, NEW s \in Streams, Reset(s)
    PROVE  ResetInv'
<1> USE TimeNat
<1> DEFINE End == MaxTime + 1
           R == Sums(resets)
           Q == Sums(resets')
<1>1. ResetTypes /\ WindowCount /\ Trips /\ Untripped
  BY DEF ResetInv
<1>2. /\ now \in Times /\ started \in Times /\ started <= now /\ now \in 0 .. End /\ started \in 0 .. End
      /\ now < End /\ End \in 0 .. End /\ count \in Nat /\ resets \in [Times -> Nat]
  BY <1>1 DEF ResetTypes
<1>3. /\ resets' = [resets EXCEPT ![now] = @ + 1] /\ resets' \in [Times -> Nat]
      /\ \A x \in 0 .. End : Q[x] = R[x] + (IF x > now THEN 1 ELSE 0)
  <2>1. resets' = [resets EXCEPT ![now] = @ + 1]
    BY DEF Reset
  <2> QED
    BY <1>2, <2>1, SumsAdd
<1>4. \A x \in 0 .. End : R[x] \in Nat /\ Q[x] \in Nat
  BY <1>2, <1>3, SumsStep
<1>shift. \A x \in 0 .. End : (x <= now => Q[x] = R[x]) /\ (x > now => Q[x] = R[x] + 1)
  <2> TAKE x \in 0 .. End
  <2> HIDE DEF R, Q
  <2>1. Q[x] = R[x] + (IF x > now THEN 1 ELSE 0)
    BY <1>3
  <2>2. R[x] \in Nat /\ now \in Nat /\ x \in Nat
    BY <1>2, <1>4
  <2> QED
    BY <2>1, <2>2
<1>5. /\ \A a, b \in 0 .. End : a <= b => R[a] <= R[b]
      /\ \A a, b \in 0 .. End : a <= b => Q[a] <= Q[b]
  BY <1>2, <1>3, SumsMonotone
<1>6. /\ \A a, b : Between(a, b) = R[b] - R[a]
      /\ \A a, b : Between(a, b)' = Q[b] - Q[a]
  BY DEF Between
<1>7. \A t \in Times : /\ After(t) \in 0 .. End /\ t < After(t) /\ t \in 0 .. End
                       /\ ResetsIn(t, t + Window) = R[After(t)] - R[t]
                       /\ ResetsIn(t, t + Window)' = Q[After(t)] - Q[t]
  <2> TAKE t \in Times
  <2>1. After(t) \in 0 .. End /\ t < After(t) /\ t \in 0 .. End
    BY WindowSum
  <2>2. ResetsIn(t, t + Window) = R[After(t)] - R[t]
    BY <1>6, WindowSum
  <2>3. ResetsIn(t, t + Window)' = Q[After(t)] - Q[t]
    <3>1. After(t) = (IF t + Window < MaxTime THEN t + Window ELSE MaxTime) + 1
      BY DEF After
    <3> QED
      BY <3>1 DEF ResetsIn
  <2> QED
    BY <2>1, <2>2, <2>3
<1>8. /\ now' = now /\ UNCHANGED <<notified, cpc>> /\ stream[s] = "open"
      /\ tripped' = (tripped \/ count' > Limit)
      /\ stream' = [stream EXCEPT ![s] = IF count' > Limit THEN "notify" ELSE "idle"]
  BY DEF Reset
<1>9. \/ now - started > Window /\ count' = 1 /\ started' = now
      \/ ~(now - started > Window) /\ count' = count + 1 /\ started' = started
  BY DEF Reset, record_reset
<1>10. now - started > Window => R[now] = R[End]
  <2> SUFFICES ASSUME now - started > Window PROVE R[now] = R[End]
    OBVIOUS
  <2>1. \A t \in Times : now <= t /\ t < End => resets[t] = 0
    BY <1>1, <1>2 DEF WindowCount
  <2> QED
    BY <1>2, <2>1, SumsFlat
<1>11. count = R[End] - R[started]
  BY <1>1, <1>6 DEF WindowCount
<1> HIDE DEF R, Q
<1>12. started' \in Times /\ started' <= now /\ count' \in Nat /\ now <= started' + Window
  BY <1>2, <1>9
<1>13. count' = Q[End] - Q[started']
  <2>1. Q[End] = R[End] + 1
    BY <1>2, <1>3
  <2>2. Q[started'] = R[started'] /\ started' \in 0 .. End
    <3>1. started' \in 0 .. End
      BY <1>12
    <3> QED
      BY <1>shift, <1>12, <3>1
  <2>3. R[End] \in Nat /\ R[started] \in Nat
    BY <1>2, <1>4
  <2>4. CASE now - started > Window
    <3>1. count' = 1 /\ started' = now /\ R[now] = R[End]
      BY <1>9, <1>10, <2>4
    <3> QED
      BY <2>1, <2>2, <2>3, <3>1
  <2>5. CASE ~(now - started > Window)
    <3>1. count' = count + 1 /\ started' = started
      BY <1>9, <2>5
    <3> QED
      BY <1>11, <2>1, <2>2, <2>3, <3>1
  <2> QED
    BY <2>4, <2>5
<1>14. \A t \in Times : t > now \/ t > started' + Window => resets'[t] = 0
  <2>1. \A t \in Times : t > started' + Window => t > now
    <3>1. \A a, b \in Nat : a + b \in Nat
      OBVIOUS
    <3>2. started' \in Nat /\ now \in Nat
      BY <1>2, <1>12
    <3>3. PICK w \in Nat : w = started' + Window
      BY <3>1, <3>2
    <3>4. now <= started' + Window
      BY <1>12
    <3>5. now <= w
      BY <3>3, <3>4
    <3>6. \A t \in Times : t > w => t > now
      BY <3>2, <3>5
    <3> QED
      BY <3>3, <3>6
  <2>2. \A t \in Times : t > now => resets[t] = 0
    BY <1>1 DEF WindowCount
  <2>3. \A t \in Times : t > now => resets'[t] = resets[t]
    BY <1>2, <1>3
  <2> QED
    BY <2>1, <2>2, <2>3
<1>15. ResetTypes'
  <2>1. stream' \in [Streams -> {"idle", "open", "notify"}]
    BY <1>1, <1>8 DEF ResetTypes
  <2>2. now' \in Times /\ started' \in Times /\ started' <= now' /\ count' \in Nat
    BY <1>2, <1>8, <1>12
  <2>3. tripped' \in BOOLEAN /\ notified' \in BOOLEAN
    BY <1>1, <1>8 DEF ResetTypes
  <2>4. cpc' \in {"serving", "goaway", "draining", "closed"}
    BY <1>1, <1>8 DEF ResetTypes
  <2> QED
    BY <1>3, <2>1, <2>2, <2>3, <2>4 DEF ResetTypes
<1>16. WindowCount'
  BY <1>6, <1>8, <1>13, <1>14 DEF WindowCount
<1>17. Trips'
  <2>1. ASSUME tripped PROVE \E t \in Times : ResetsIn(t, t + Window)' > Limit
    <3>1. PICK t \in Times : ResetsIn(t, t + Window) > Limit
      BY <1>1, <2>1 DEF Trips
    <3>2. R[After(t)] - R[t] > Limit
      BY <1>7, <3>1
    <3>3. Q[After(t)] - Q[t] >= R[After(t)] - R[t]
      <4>1. After(t) \in 0 .. End /\ t < After(t) /\ t \in 0 .. End
        BY <1>7
      <4>2. Q[After(t)] = R[After(t)] + (IF After(t) > now THEN 1 ELSE 0)
        BY <1>3, <4>1
      <4>3. Q[t] = R[t] + (IF t > now THEN 1 ELSE 0)
        BY <1>3, <4>1
      <4>4. R[After(t)] \in Nat /\ R[t] \in Nat
        BY <1>4, <4>1
      <4>5. t > now => After(t) > now
        BY <1>2, <4>1
      <4> QED
        BY <4>2, <4>3, <4>4, <4>5
    <3>4. R[After(t)] \in Nat /\ R[t] \in Nat /\ Q[After(t)] \in Nat /\ Q[t] \in Nat
      BY <1>4, <1>7
    <3>5. Q[After(t)] - Q[t] > Limit
      BY <3>2, <3>3, <3>4
    <3> QED
      BY <1>7, <3>5
  <2>2. ASSUME count' > Limit PROVE \E t \in Times : ResetsIn(t, t + Window)' > Limit
    <3>1. PICK t \in Times : t = started'
      BY <1>12
    <3>2. After(t) \in 0 .. End /\ t < After(t) /\ After(t) <= End
      BY <1>7, <3>1
    <3>3. \A x \in Times : After(t) <= x /\ x < End => resets'[x] = 0
      <4> SUFFICES ASSUME NEW x \in Times, After(t) <= x PROVE resets'[x] = 0
        OBVIOUS
      <4>1. x > t + Window
        <5>1. x \in Nat /\ t \in Nat /\ x <= MaxTime
          OBVIOUS
        <5> QED
          BY <5>1 DEF After
      <4> QED
        BY <1>14, <3>1, <4>1
    <3>4. Q[After(t)] = Q[End]
      <4>1. Sums(resets')[After(t)] = Sums(resets')[End]
        <5>1. resets' \in [Times -> Nat] /\ End \in 0 .. MaxTime + 1 /\ After(t) \in 0 .. MaxTime + 1
          BY <1>2, <1>3, <3>2
        <5> HIDE DEF End
        <5> QED
          BY <3>2, <3>3, <5>1, SumsFlat
      <4> QED
        BY <4>1 DEF Q
    <3>5. Q[After(t)] - Q[t] > Limit
      BY <1>13, <2>2, <3>1, <3>4
    <3>6. ResetsIn(t, t + Window)' > Limit
      BY <1>7, <3>1, <3>5
    <3> QED
      BY <3>1, <3>6
  <2>3. tripped' => \E t \in Times : ResetsIn(t, t + Window)' > Limit
    BY <1>8, <2>1, <2>2
  <2>4. (notified \/ cpc \in {"goaway", "draining"} => tripped)'
    BY <1>1, <1>8 DEF Trips
  <2>5. ASSUME NEW z \in Streams, stream'[z] = "notify" PROVE tripped'
    <3>1. CASE z = s
      BY <1>1, <1>8, <2>5, <3>1 DEF ResetTypes
    <3>2. CASE z # s
      BY <1>1, <1>8, <2>5, <3>2 DEF ResetTypes, Trips
    <3> QED
      BY <3>1, <3>2
  <2> QED
    BY <2>3, <2>4, <2>5 DEF Trips
<1>18. Untripped'
  <2> SUFFICES ASSUME ~tripped'
               PROVE  /\ count' <= Limit
                      /\ \A t \in Times : t <= started' /\ started' <= t + Window => Between(t, started)' <= Limit
                      /\ \A t \in Times : ResetsIn(t, t + Window)' <= 2 * Limit
    BY DEF Untripped
  <2>1. ~tripped /\ count' <= Limit
    <3>1. ~tripped /\ ~(count' > Limit)
      BY <1>8
    <3> QED
      BY <1>12, <3>1
  <2>2. /\ count <= Limit
        /\ \A t \in Times : t <= started /\ started <= t + Window => R[started] - R[t] <= Limit
        /\ \A t \in Times : R[After(t)] - R[t] <= 2 * Limit
    BY <1>1, <1>6, <1>7, <2>1 DEF Untripped
  <2>3. ASSUME NEW t \in Times, t <= started', started' <= t + Window PROVE Q[started'] - Q[t] <= Limit
    <3>1. started' \in 0 .. End /\ t \in 0 .. End
      BY <1>12
    <3>2. Q[started'] = R[started'] /\ Q[t] = R[t]
      <4>1. t <= now
        BY <1>2, <1>12, <2>3
      <4> QED
        BY <1>shift, <1>12, <3>1, <4>1
    <3>3. CASE started' = started
      BY <2>2, <2>3, <3>2, <3>3
    <3>4. CASE now - started > Window /\ started' = now
      <4>1. started <= t
        BY <1>2, <2>3, <3>4
      <4>2. R[started] <= R[t]
        BY <1>2, <1>5, <3>1, <4>1
      <4>3. R[started'] - R[t] <= count
        BY <1>2, <1>4, <1>10, <1>11, <3>1, <3>4, <4>2
      <4>4. R[started'] \in Nat /\ R[t] \in Nat
        BY <1>4, <3>1
      <4> QED
        BY <1>2, <2>2, <3>2, <4>3, <4>4
    <3> QED
      BY <1>9, <3>3, <3>4
  <2>4. ASSUME NEW t \in Times PROVE Q[After(t)] - Q[t] <= 2 * Limit
    <3>1. After(t) \in 0 .. End /\ t < After(t) /\ t \in 0 .. End /\ started' \in 0 .. End
      BY <1>7, <1>12
    <3>2. Q[After(t)] \in Nat /\ Q[t] \in Nat /\ Q[started'] \in Nat /\ Q[End] \in Nat
      BY <1>2, <1>4, <3>1
    <3>3. Q[After(t)] <= Q[End]
      BY <1>2, <1>5, <3>1
    <3>4. CASE started' <= t
      <4>1. Q[started'] <= Q[t]
        BY <1>5, <3>1, <3>4
      <4> QED
        BY <1>13, <2>1, <3>2, <3>3, <4>1
    <3>5. CASE t < started' /\ started' <= t + Window
      <4>1. Q[started'] - Q[t] <= Limit
        BY <1>12, <2>3, <3>5
      <4> QED
        BY <1>13, <2>1, <3>2, <3>3, <4>1
    <3>6. CASE t + Window < started'
      <4>1. After(t) <= now /\ t <= now
        BY <1>2, <1>12, <3>6 DEF After
      <4>2. Q[After(t)] = R[After(t)] /\ Q[t] = R[t]
        BY <1>shift, <3>1, <4>1
      <4> QED
        BY <2>2, <4>2
    <3> QED
      BY <1>12, <3>4, <3>5, <3>6
  <2> QED
    BY <1>6, <1>7, <2>1, <2>3, <2>4
<1> QED
  BY <1>15, <1>16, <1>17, <1>18 DEF ResetInv

LEMMA ResetNext == ResetInv /\ [Next]_vars => ResetInv'
<1> SUFFICES ASSUME ResetInv, [Next]_vars PROVE ResetInv'
  OBVIOUS
<1> USE TimeNat
<1>1. ResetTypes
  BY DEF ResetInv
<1>2. CASE Tick
  BY <1>1, <1>2, QuietStep DEF Tick, ResetTypes
<1>3. CASE Kill
  BY <1>1, <1>3, QuietStep DEF Kill, ResetTypes
<1>4. CASE GoawayAcked
  BY <1>1, <1>4, QuietStep DEF GoawayAcked, ResetTypes
<1>5. CASE Drained
  BY <1>1, <1>5, QuietStep DEF Drained, ResetTypes
<1>6. CASE PeerGone
  BY <1>1, <1>6, QuietStep DEF PeerGone, ResetTypes
<1>7. ASSUME NEW s \in Streams, Open(s) PROVE ResetInv'
  BY <1>1, <1>7, QuietStep DEF Open, ResetTypes
<1>8. ASSUME NEW s \in Streams, Complete(s) PROVE ResetInv'
  BY <1>1, <1>8, QuietStep DEF Complete, ResetTypes
<1>9. ASSUME NEW s \in Streams, Reset(s) PROVE ResetInv'
  BY <1>9, ResetStep
<1>10. ASSUME NEW s \in Streams, NotifyWaiters(s) PROVE ResetInv'
  <2>1. stream' \in [Streams -> {"idle", "open", "notify"}]
    BY <1>1, <1>10 DEF NotifyWaiters, ResetTypes
  <2>2. \A z \in Streams : stream'[z] = "notify" => stream[z] = "notify"
    BY <1>1, <1>10 DEF NotifyWaiters, ResetTypes
  <2>3. notified' \in BOOLEAN /\ \E z \in Streams : stream[z] = "notify"
    BY <1>1, <1>10 DEF NotifyWaiters, ResetTypes
  <2>4. UNCHANGED <<now, count, started, cpc, resets, tripped>>
    BY <1>10 DEF NotifyWaiters
  <2> QED
    BY <1>1, <2>1, <2>2, <2>3, <2>4, QuietStep DEF ResetTypes
<1>11. CASE UNCHANGED vars
  BY <1>1, <1>11, QuietStep DEF vars, ResetTypes
<1> QED
  BY <1>2, <1>3, <1>4, <1>5, <1>6, <1>7, <1>8, <1>9, <1>10, <1>11 DEF Next
-------------------------------------------------------------------------------
(* Bare line feeds. *)

Byte == {"cr", "lf", "x"}

\* A line feed without its carriage return, and the end of a header section.
Bare(buf, i) == buf[i] = "lf" /\ (i = 1 \/ buf[i - 1] # "cr")
Ends(buf, i) == i >= 4 /\ buf[i - 3] = "cr" /\ buf[i - 2] = "lf" /\ buf[i - 1] = "cr" /\ buf[i] = "lf"

\* Min finds a least element.
LEMMA MinLeast ==
    ASSUME NEW S \in SUBSET Nat, S # {}
    PROVE  Min(S) \in S /\ \A y \in S : Min(S) <= y
<1>1. PICK x \in S : \A y \in S : ~(<<y, x>> \in OpToRel(<, Nat))
  BY NatLessThanWellFounded, WFMin
<1>2. ASSUME NEW y \in S, y < x PROVE FALSE
  BY <1>1, <1>2 DEF OpToRel
<1>3. \A y \in S : x <= y
  <2> TAKE y \in S
  <2>1. x \in Nat /\ y \in Nat
    OBVIOUS
  <2>2. ~(y < x)
    BY <1>2
  <2> QED
    BY <2>1, <2>2
<1> QED
  BY <1>3 DEF Min

\* The equation that defines Scanned(buf) has a solution, so Scanned(buf) solves it.
LEMMA ScannedDef ==
    ASSUME NEW buf \in Seq(Byte)
    PROVE  Scanned(buf) = [i \in 0 .. Len(buf) |->
                              IF i = 0 THEN 0 ELSE ScanStep(Scanned(buf)[i - 1], buf[i])]
<1> DEFINE Scans(g, n) == [m \in 0 .. n |-> IF m = 0 THEN 0 ELSE ScanStep(g[m - 1], buf[m])]
           Solved == {n \in Nat : \E g : g = Scans(g, n)}
<1>1. 0 \in Solved
  <2> DEFINE g == [m \in 0 .. 0 |-> 0]
  <2>1. g = Scans(g, 0)
    OBVIOUS
  <2> QED
    BY <2>1
<1>2. ASSUME NEW n \in Nat, n \in Solved PROVE n + 1 \in Solved
  <2>1. PICK g : g = Scans(g, n)
    BY <1>2
  <2> DEFINE h == [m \in 0 .. n + 1 |-> IF m = n + 1 THEN ScanStep(g[n], buf[n + 1]) ELSE g[m]]
  <2>2. ASSUME NEW m \in 0 .. n + 1 PROVE h[m] = IF m = 0 THEN 0 ELSE ScanStep(h[m - 1], buf[m])
    <3>1. CASE m = n + 1
      <4>1. m # 0 /\ m - 1 = n /\ h[m - 1] = g[n]
        BY <3>1
      <4> QED
        BY <3>1, <4>1
    <3>2. CASE m # n + 1
      <4>1. m \in 0 .. n
        BY <3>2
      <4>2. g[m] = IF m = 0 THEN 0 ELSE ScanStep(g[m - 1], buf[m])
        BY <2>1, <4>1
      <4>3. h[m] = g[m] /\ (m # 0 => h[m - 1] = g[m - 1])
        BY <4>1
      <4> QED
        BY <4>2, <4>3
    <3> QED
      BY <3>1, <3>2
  <2>3. h = Scans(h, n + 1)
    BY <2>2
  <2>4. \E f : f = Scans(f, n + 1)
    <3> HIDE DEF h
    <3> QED
      BY <2>3
  <2> HIDE DEF Scans
  <2> QED
    BY <2>4
<1>3. Len(buf) \in Solved
  <2>1. Solved \in SUBSET Nat
    OBVIOUS
  <2>2. Len(buf) \in Nat
    OBVIOUS
  <2> HIDE DEF Solved
  <2> QED
    BY <1>1, <1>2, <2>1, <2>2, SetInduction
<1>4. \E g : g = Scans(g, Len(buf))
  BY <1>3
<1>5. Scanned(buf) = CHOOSE g : g = Scans(g, Len(buf))
  BY DEF Scanned
<1> QED
  BY <1>4, <1>5

\* What the parser has seen of the first i bytes.
Says(buf, i) ==
    LET seen == Scanned(buf)[i]
        Clean(n) == \A l \in 1 .. n : ~Bare(buf, l) /\ ~Ends(buf, l)
    IN  /\ seen \in 0 .. 5
        /\ seen < 4 => Clean(i)
        /\ seen = 0 => i = 0 \/ buf[i] = "x"
        /\ seen = 1 => i >= 1 /\ buf[i] = "cr" /\ (i >= 3 => buf[i - 1] # "lf")
        /\ seen = 2 => i >= 2 /\ buf[i] = "lf"
        /\ seen = 3 => i >= 3 /\ buf[i] = "cr" /\ buf[i - 1] = "lf" /\ buf[i - 2] = "cr"
        /\ seen = 4 => \E e \in 1 .. i : Ends(buf, e) /\ \A l \in 1 .. e : ~Bare(buf, l)
        /\ seen = 5 => \E b \in 1 .. i : Bare(buf, b) /\ \A l \in 1 .. b : ~Ends(buf, l)

LEMMA ScannedSays ==
    ASSUME NEW buf \in Seq(Byte)
    PROVE  \A i \in 0 .. Len(buf) : Says(buf, i)
<1> DEFINE s == Scanned(buf)
           S == {n \in Nat : n <= Len(buf) => Says(buf, n)}
<1>1. Len(buf) \in Nat /\ \A i \in 1 .. Len(buf) : buf[i] \in Byte
  OBVIOUS
<1>2. s[0] = 0 /\ \A i \in 1 .. Len(buf) : s[i] = ScanStep(s[i - 1], buf[i])
  <2>1. s[0] = 0
    BY <1>1, ScannedDef
  <2>2. \A i \in 1 .. Len(buf) : s[i] = ScanStep(s[i - 1], buf[i])
    BY <1>1, ScannedDef
  <2> QED
    BY <2>1, <2>2
<1> HIDE DEF s
<1>3. 0 \in S
  BY <1>2 DEF Says, s
<1>4. ASSUME NEW n \in Nat, n \in S PROVE n + 1 \in S
  <2> SUFFICES ASSUME n + 1 <= Len(buf) PROVE Says(buf, n + 1)
    OBVIOUS
  <2> DEFINE i == n + 1
             Clean(m) == \A l \in 1 .. m : ~Bare(buf, l) /\ ~Ends(buf, l)
  <2>1. i \in 1 .. Len(buf) /\ i - 1 = n /\ i \in Nat /\ i >= 1
    BY <1>1
  <2>2. s[i] = ScanStep(s[n], buf[i])
    BY <1>2, <2>1
  <2>3. buf[i] \in {"cr", "lf", "x"}
    BY <1>1, <2>1 DEF Byte
  <2>4. Says(buf, n)
    BY <1>1, <1>4
  <2>5. /\ s[n] \in 0 .. 5
        /\ s[n] < 4 => Clean(n)
        /\ s[n] = 0 => n = 0 \/ buf[n] = "x"
        /\ s[n] = 1 => n >= 1 /\ buf[n] = "cr" /\ (n >= 3 => buf[n - 1] # "lf")
        /\ s[n] = 2 => n >= 2 /\ buf[n] = "lf"
        /\ s[n] = 3 => n >= 3 /\ buf[n] = "cr" /\ buf[n - 1] = "lf" /\ buf[n - 2] = "cr"
    BY <2>4 DEF Says, s
  <2>6. /\ s[n] = 4 => \E e \in 1 .. n : Ends(buf, e) /\ \A l \in 1 .. e : ~Bare(buf, l)
        /\ s[n] = 5 => \E b \in 1 .. n : Bare(buf, b) /\ \A l \in 1 .. b : ~Ends(buf, l)
    BY <2>4 DEF Says, s
  <2>7. ASSUME Clean(n), ~Bare(buf, i), ~Ends(buf, i) PROVE Clean(i)
    <3> SUFFICES ASSUME NEW l \in 1 .. i PROVE ~Bare(buf, l) /\ ~Ends(buf, l)
      OBVIOUS
    <3>1. l = i \/ l \in 1 .. n
      BY <2>1
    <3> QED
      BY <2>7, <3>1
  <2>8. i - 2 = n - 1 /\ i - 3 = n - 2
    BY <2>1
  <2> SUFFICES Says(buf, i)
    OBVIOUS
  <2> HIDE DEF i
  <2>9. CASE s[n] >= 4
    <3>1. s[i] = s[n] /\ (s[n] = 4 \/ s[n] = 5)
      BY <2>2, <2>5, <2>9 DEF ScanStep
    <3>2. \A x \in 1 .. n : x \in 1 .. i
      BY <2>1
    <3> QED
      BY <2>6, <3>1, <3>2 DEF Says, s
  <2>10. CASE s[n] < 4 /\ buf[i] = "x"
    <3>1. s[i] = 0
      BY <2>2, <2>5, <2>10 DEF ScanStep
    <3>2. ~Bare(buf, i) /\ ~Ends(buf, i)
      BY <2>10 DEF Bare, Ends
    <3>3. Clean(i)
      BY <2>5, <2>7, <2>10, <3>2
    <3> QED
      BY <2>10, <3>1, <3>3 DEF Says, s
  <2>11. CASE s[n] < 4 /\ buf[i] = "cr"
    <3>1. s[i] = IF s[n] = 2 THEN 3 ELSE 1
      BY <2>2, <2>5, <2>11 DEF ScanStep
    <3>2. ~Bare(buf, i) /\ ~Ends(buf, i)
      BY <2>11 DEF Bare, Ends
    <3>3. Clean(i)
      BY <2>5, <2>7, <2>11, <3>2
    <3>4. CASE s[n] = 2
      <4>1. n >= 2 /\ buf[n] = "lf" /\ n \in 1 .. n
        BY <2>5, <3>4
      <4>2. buf[n - 1] = "cr"
        BY <2>5, <3>4, <4>1 DEF Bare
      <4>3. i >= 3 /\ buf[i - 1] = "lf" /\ buf[i - 2] = "cr" /\ s[i] = 3
        BY <2>1, <2>8, <3>1, <3>4, <4>1, <4>2
      <4> QED
        BY <2>11, <3>3, <4>3 DEF Says, s
    <3>5. CASE s[n] # 2
      <4>1. s[n] = 0 \/ s[n] = 1 \/ s[n] = 3
        BY <2>5, <2>11, <3>5
      <4>2. n = 0 \/ buf[n] # "lf"
        BY <2>5, <4>1
      <4>3. s[i] = 1 /\ (i >= 3 => buf[i - 1] # "lf")
        BY <2>1, <3>1, <3>5, <4>2
      <4> QED
        BY <2>1, <2>11, <3>3, <4>3 DEF Says, s
    <3> QED
      BY <3>4, <3>5
  <2>12. CASE s[n] < 4 /\ buf[i] = "lf"
    <3>1. s[i] = IF s[n] \in {1, 3} THEN s[n] + 1 ELSE 5
      BY <2>2, <2>5, <2>12 DEF ScanStep
    <3>2. CASE s[n] = 1
      <4>1. s[i] = 2 /\ buf[n] = "cr" /\ i >= 2 /\ i # 1 /\ (n >= 3 => buf[n - 1] # "lf")
        BY <2>1, <2>5, <3>1, <3>2
      <4>2. ~Bare(buf, i)
        BY <2>1, <4>1 DEF Bare
      <4>3. ~Ends(buf, i)
        BY <2>1, <2>8, <4>1 DEF Ends
      <4>4. Clean(i)
        BY <2>5, <2>7, <2>12, <4>2, <4>3
      <4> QED
        BY <2>12, <4>1, <4>4 DEF Says, s
    <3>3. CASE s[n] = 3
      <4>1. s[i] = 4 /\ n >= 3 /\ buf[n] = "cr" /\ buf[n - 1] = "lf" /\ buf[n - 2] = "cr"
        BY <2>5, <3>1, <3>3
      <4>2. Ends(buf, i)
        BY <2>1, <2>8, <2>12, <4>1 DEF Ends
      <4>3. ~Bare(buf, i)
        BY <2>1, <4>1 DEF Bare
      <4>4. \A l \in 1 .. i : ~Bare(buf, l)
        <5> TAKE l \in 1 .. i
        <5>1. l = i \/ l \in 1 .. n
          BY <2>1
        <5> QED
          BY <2>5, <2>12, <4>3, <5>1
      <4>5. i \in 1 .. i
        BY <2>1
      <4> QED
        BY <4>1, <4>2, <4>4, <4>5 DEF Says, s
    <3>4. CASE s[n] = 0 \/ s[n] = 2
      <4>1. s[i] = 5 /\ (n = 0 \/ buf[n] = "x" \/ buf[n] = "lf")
        BY <2>5, <3>1, <3>4
      <4>2. Bare(buf, i)
        BY <2>1, <2>12, <4>1 DEF Bare
      <4>3. ~Ends(buf, i)
        BY <2>1, <4>1 DEF Ends
      <4>4. \A l \in 1 .. i : ~Ends(buf, l)
        <5> TAKE l \in 1 .. i
        <5>1. l = i \/ l \in 1 .. n
          BY <2>1
        <5> QED
          BY <2>5, <2>12, <4>3, <5>1
      <4>5. i \in 1 .. i
        BY <2>1
      <4> QED
        BY <4>1, <4>2, <4>4, <4>5 DEF Says, s
    <3> QED
      BY <2>5, <2>12, <3>2, <3>3, <3>4
  <2>13. s[n] >= 4 \/ s[n] < 4
    BY <2>5
  <2> QED
    BY <2>3, <2>9, <2>10, <2>11, <2>12, <2>13
<1>5. \A n \in Nat : n \in S
  <2>1. S \in SUBSET Nat
    OBVIOUS
  <2> HIDE DEF S
  <2> QED
    BY <1>3, <1>4, <2>1, SetInduction
<1> QED
  BY <1>1, <1>5

LEMMA EndsIsSubSeq ==
    ASSUME NEW buf \in Seq(Byte), NEW i \in 4 .. Len(buf)
    PROVE  SubSeq(buf, i - 3, i) = <<"cr", "lf", "cr", "lf">> <=> Ends(buf, i)
<1> DEFINE t == SubSeq(buf, i - 3, i)
           e == <<"cr", "lf", "cr", "lf">>
<1>1. Len(buf) \in Nat /\ i \in Nat /\ i >= 4 /\ i - 3 \in Int /\ i - 3 <= i /\ i - (i - 3) + 1 = 4
  OBVIOUS
<1>2. \A j \in (i - 3) .. i : buf[j] \in Byte
  OBVIOUS
<1>3. t \in Seq(Byte) /\ Len(t) = 4 /\ \A j \in 1 .. 4 : t[j] = buf[(i - 3) + j - 1]
  BY <1>1, <1>2, SubSeqProperties
<1>4. t[1] = buf[i - 3] /\ t[2] = buf[i - 2] /\ t[3] = buf[i - 1] /\ t[4] = buf[i]
  <2>1. (i - 3) + 1 - 1 = i - 3 /\ (i - 3) + 2 - 1 = i - 2 /\ (i - 3) + 3 - 1 = i - 1 /\ (i - 3) + 4 - 1 = i
    BY <1>1
  <2> HIDE DEF t
  <2> QED
    BY <1>3, <2>1
<1>5. e \in Seq(Byte) /\ Len(e) = 4 /\ e[1] = "cr" /\ e[2] = "lf" /\ e[3] = "cr" /\ e[4] = "lf"
  BY DEF Byte
<1> HIDE DEF t, e
<1>6. t = e => Ends(buf, i)
  BY <1>1, <1>4, <1>5 DEF Ends
<1>7. ASSUME Ends(buf, i) PROVE t = e
  <2>1. t[1] = e[1] /\ t[2] = e[2] /\ t[3] = e[3] /\ t[4] = e[4]
    BY <1>4, <1>5, <1>7 DEF Ends
  <2>2. \A j \in 1 .. 4 : j = 1 \/ j = 2 \/ j = 3 \/ j = 4
    OBVIOUS
  <2>3. \A j \in 1 .. Len(t) : t[j] = e[j]
    BY <1>3, <2>1, <2>2
  <2> QED
    BY <1>3, <1>5, <2>3, SeqEqual
<1> QED
  BY <1>6, <1>7 DEF t, e

\* The check of the code, a window search and a look back from every line feed, says the same
\* as a parser that takes the bytes one by one.
LEMMA ScanIsCheck ==
    ASSUME NEW buf \in Seq(Byte)
    PROVE  (Scan(buf) = 5) = has_bare_lf(buf)
<1> DEFINE ends == {i \in 4 .. Len(buf) : SubSeq(buf, i - 3, i) = <<"cr", "lf", "cr", "lf">>}
           n == Len(buf)
           end == header_end(buf)
<1>1. n \in Nat /\ n \in 0 .. n
  OBVIOUS
<1>2. \A i \in 1 .. n : i \in ends <=> Ends(buf, i)
  <2> TAKE i \in 1 .. n
  <2>1. CASE i >= 4
    BY <1>1, <2>1, EndsIsSubSeq
  <2>2. CASE ~(i >= 4)
    BY <1>1, <2>2 DEF Ends
  <2> QED
    BY <2>1, <2>2
<1>3. ends \in SUBSET Nat /\ \A i \in ends : i \in 1 .. n
  BY <1>1
<1>4. end = IF ends = {} THEN n ELSE Min(ends)
  BY DEF header_end
<1> HIDE DEF ends, end, n
<1>5. ends # {} => end \in ends /\ \A i \in ends : end <= i
  BY <1>3, <1>4, MinLeast
<1>6. end \in 0 .. n
  BY <1>1, <1>3, <1>4, <1>5
<1>7. has_bare_lf(buf) = \E i \in 1 .. end : Bare(buf, i)
  BY DEF has_bare_lf, Bare, end
<1>8. Says(buf, n)
  BY <1>1, ScannedSays DEF n
<1>9. /\ Scan(buf) \in 0 .. 5
      /\ Scan(buf) < 4 => \A l \in 1 .. n : ~Bare(buf, l)
      /\ Scan(buf) = 4 => \E e \in 1 .. n : Ends(buf, e) /\ \A l \in 1 .. e : ~Bare(buf, l)
      /\ Scan(buf) = 5 => \E b \in 1 .. n : Bare(buf, b) /\ \A l \in 1 .. b : ~Ends(buf, l)
  BY <1>8 DEF Says, Scan, n
<1>10. CASE Scan(buf) < 4
  <2>1. \A l \in 1 .. end : l \in 1 .. n
    BY <1>1, <1>6
  <2>2. ~has_bare_lf(buf)
    BY <1>7, <1>9, <1>10, <2>1
  <2>3. Scan(buf) # 5
    BY <1>9, <1>10
  <2> QED
    BY <1>7, <2>2, <2>3
<1>11. CASE Scan(buf) = 4
  <2>1. PICK e \in 1 .. n : Ends(buf, e) /\ \A l \in 1 .. e : ~Bare(buf, l)
    BY <1>9, <1>11
  <2>2. e \in ends
    BY <1>2, <2>1
  <2>3. end <= e
    BY <1>5, <2>2
  <2>4. \A l \in 1 .. end : l \in 1 .. e
    BY <1>1, <1>6, <2>3
  <2>5. ~has_bare_lf(buf)
    BY <1>7, <2>1, <2>4
  <2>6. Scan(buf) # 5
    BY <1>11
  <2> QED
    BY <1>7, <2>5, <2>6
<1>12. CASE Scan(buf) = 5
  <2>1. PICK b \in 1 .. n : Bare(buf, b) /\ \A l \in 1 .. b : ~Ends(buf, l)
    BY <1>9, <1>12
  <2>2. b <= end
    <3>1. CASE ends = {}
      BY <1>1, <1>4, <3>1
    <3>2. CASE ends # {}
      <4>1. end \in 1 .. n /\ Ends(buf, end)
        BY <1>2, <1>3, <1>5, <3>2
      <4>2. ~(end \in 1 .. b)
        BY <2>1, <4>1
      <4> QED
        BY <1>1, <4>1, <4>2
    <3> QED
      BY <3>1, <3>2
  <2>3. b \in 1 .. end
    BY <1>1, <1>6, <2>2
  <2>4. has_bare_lf(buf)
    BY <1>7, <2>1, <2>3
  <2> QED
    BY <1>7, <1>12, <2>4
<1> QED
  BY <1>9, <1>10, <1>11, <1>12
-------------------------------------------------------------------------------
(* Reading through the guard: an inductive invariant. *)

\* Nothing is read before HTTP/1 is served; hyper and the guard's prefix are beginnings of
\* what the client sent, and as long as the prefix lasts hyper has just the part of it that
\* was drained.
ReadInv ==
    /\ wire \in Seq(Byte) /\ prefix \in Seq(Byte) /\ hyper \in Seq(Byte)
    /\ taken \in 0 .. Len(wire) /\ prefix_pos \in 0 .. Len(prefix) /\ Len(prefix) <= taken
    /\ prefix = SubSeq(wire, 1, Len(prefix))
    /\ hyper = SubSeq(wire, 1, Len(hyper))
    /\ Len(hyper) + (Len(prefix) - prefix_pos) = taken
    /\ prefix_pos < Len(prefix) => Len(hyper) = prefix_pos
    /\ task \in {"handshake", "peek", "http2"} =>
           taken = 0 /\ prefix = <<>> /\ prefix_pos = 0 /\ hyper = <<>>
    /\ refused = has_bare_lf(prefix)
    /\ refused => hyper = <<>> /\ task = "done"

LEMMA WireIsSeq == \A w \in Wires : w \in Seq(Byte)
<1> TAKE w \in Wires
<1>1. PICK n \in 0 .. MaxWire : w \in [1 .. n -> Byte]
  BY DEF Wires, Byte
<1>2. n \in Nat
  BY ConnectionAssumption
<1> QED
  BY <1>1, <1>2

\* The beginning of a beginning is a beginning.
LEMMA PrefixPart ==
    ASSUME NEW w \in Seq(Byte), NEW p \in Seq(Byte), Len(p) <= Len(w), p = SubSeq(w, 1, Len(p)),
           NEW a \in Nat, NEW b \in 0 .. Len(p), a >= 1
    PROVE  SubSeq(p, a, b) = SubSeq(w, a, b)
<1>1. Len(p) \in Nat /\ Len(w) \in Nat /\ a \in Int /\ b \in Int
  OBVIOUS
<1>2. \A i \in a .. b : p[i] \in Byte /\ w[i] \in Byte
  BY <1>1
<1>3. /\ SubSeq(p, a, b) \in Seq(Byte) /\ Len(SubSeq(p, a, b)) = (IF a <= b THEN b - a + 1 ELSE 0)
      /\ \A i \in 1 .. b - a + 1 : SubSeq(p, a, b)[i] = p[a + i - 1]
  BY <1>1, <1>2, SubSeqProperties
<1>4. /\ SubSeq(w, a, b) \in Seq(Byte) /\ Len(SubSeq(w, a, b)) = (IF a <= b THEN b - a + 1 ELSE 0)
      /\ \A i \in 1 .. b - a + 1 : SubSeq(w, a, b)[i] = w[a + i - 1]
  BY <1>1, <1>2, SubSeqProperties
<1>5. \A i \in 1 .. Len(p) : p[i] = w[i]
  <2>1. \A i \in 1 .. Len(p) : w[i] \in Byte
    BY <1>1
  <2>2. \A i \in 1 .. Len(p) - 1 + 1 : SubSeq(w, 1, Len(p))[i] = w[1 + i - 1]
    BY <1>1, <2>1, SubSeqProperties
  <2>3. \A i \in 1 .. Len(p) : i \in 1 .. Len(p) - 1 + 1 /\ 1 + i - 1 = i
    BY <1>1
  <2> QED
    BY <2>2, <2>3
<1>6. \A i \in 1 .. Len(SubSeq(p, a, b)) : SubSeq(p, a, b)[i] = SubSeq(w, a, b)[i]
  <2> TAKE i \in 1 .. Len(SubSeq(p, a, b))
  <2>1. i \in 1 .. b - a + 1 /\ a + i - 1 \in 1 .. Len(p)
    BY <1>1, <1>3
  <2> QED
    BY <1>3, <1>4, <1>5, <2>1
<1> QED
  BY <1>3, <1>4, <1>6, SeqEqual

\* The beginning of w up to k, with what follows up to n.
LEMMA Joined ==
    ASSUME NEW w \in Seq(Byte), NEW k \in Nat, NEW n \in 0 .. Len(w), k <= n
    PROVE  /\ SubSeq(w, 1, k) \o SubSeq(w, k + 1, n) = SubSeq(w, 1, n)
           /\ SubSeq(w, 1, n) \in Seq(Byte) /\ Len(SubSeq(w, 1, n)) = n
<1>1. Len(w) \in Nat /\ 1 \in 1 .. Len(w) + 1 /\ k \in (1 - 1) .. Len(w) /\ n \in k .. Len(w)
  OBVIOUS
<1>2. SubSeq(w, 1, k) \o SubSeq(w, k + 1, n) = SubSeq(w, 1, n)
  BY <1>1, ConcatAdjacentSubSeq
<1>3. \A i \in 1 .. n : w[i] \in Byte
  BY <1>1
<1>4. SubSeq(w, 1, n) \in Seq(Byte) /\ Len(SubSeq(w, 1, n)) = (IF 1 <= n THEN n - 1 + 1 ELSE 0)
  BY <1>1, <1>3, SubSeqProperties
<1> QED
  BY <1>1, <1>2, <1>4

LEMMA NothingBare ==
    /\ has_bare_lf(<<>>) = FALSE
    /\ \A w : <<>> = SubSeq(w, 1, Len(<<>>))
    /\ <<>> \in Seq(Byte) /\ Len(<<>>) = 0
<1>1. <<>> \in Seq(Byte) /\ Len(<<>>) = 0
  OBVIOUS
<1>2. \A i \in 4 .. Len(<<>>) : FALSE
  BY <1>1
<1>3. header_end(<<>>) = 0
  BY <1>1, <1>2 DEF header_end
<1>4. \A i \in 1 .. header_end(<<>>) : FALSE
  BY <1>3
<1>5. has_bare_lf(<<>>) = FALSE
  BY <1>4 DEF has_bare_lf
<1>6. \A w : SubSeq(w, 1, 0) = <<>>
  BY SubSeqEmpty
<1> QED
  BY <1>1, <1>5, <1>6

LEMMA ReadInit == ConnInit => ReadInv
<1> SUFFICES ASSUME ConnInit PROVE ReadInv
  OBVIOUS
<1>1. /\ taken = 0 /\ prefix = <<>> /\ prefix_pos = 0 /\ hyper = <<>> /\ refused = FALSE
      /\ task \in {"handshake", "peek"}
  BY DEF ConnInit
<1>2. wire \in Seq(Byte)
  <2>1. wire = <<>> \/ wire \in Wires
    BY DEF ConnInit
  <2> QED
    BY <2>1, NothingBare, WireIsSeq
<1>3. Len(wire) \in Nat
  BY <1>2
<1>4. /\ taken \in 0 .. Len(wire) /\ prefix_pos \in 0 .. Len(prefix) /\ Len(prefix) <= taken
      /\ Len(hyper) + (Len(prefix) - prefix_pos) = taken /\ Len(hyper) = prefix_pos
  BY <1>1, <1>3, NothingBare
<1>5. prefix = SubSeq(wire, 1, Len(prefix)) /\ hyper = SubSeq(wire, 1, Len(hyper))
  BY <1>1, NothingBare
<1>6. refused = has_bare_lf(prefix) /\ ~refused
  BY <1>1, NothingBare
<1>7. prefix \in Seq(Byte) /\ hyper \in Seq(Byte)
  BY <1>1, NothingBare
<1> QED
  BY <1>1, <1>2, <1>4, <1>5, <1>6, <1>7 DEF ReadInv

LEMMA ReadNext == ReadInv /\ [ConnNext]_all => ReadInv'
<1> SUFFICES ASSUME ReadInv, [ConnNext]_all PROVE ReadInv'
  OBVIOUS
<1>1. wire \in Seq(Byte) /\ prefix \in Seq(Byte) /\ hyper \in Seq(Byte)
  BY DEF ReadInv
<1>len. Len(wire) \in Nat /\ Len(prefix) \in Nat /\ Len(hyper) \in Nat
  BY <1>1
<1>pos. /\ taken \in 0 .. Len(wire) /\ prefix_pos \in 0 .. Len(prefix) /\ Len(prefix) <= taken
        /\ Len(hyper) + (Len(prefix) - prefix_pos) = taken
        /\ prefix_pos < Len(prefix) => Len(hyper) = prefix_pos
  BY DEF ReadInv
<1>part. prefix = SubSeq(wire, 1, Len(prefix)) /\ hyper = SubSeq(wire, 1, Len(hyper))
  BY DEF ReadInv
<1>2. CASE Handshake
  <2>1. /\ taken' = 0 /\ prefix' = <<>> /\ prefix_pos' = 0 /\ hyper' = <<>>
        /\ prefix = <<>> /\ refused' = refused /\ task' \in {"done", "http1", "http2"} /\ task = "handshake"
    BY <1>2 DEF Handshake, ReadInv
  <2>2. wire' \in Seq(Byte) /\ Len(wire') \in Nat
    <3>1. wire' = wire \/ wire' \in Wires
      BY <1>2 DEF Handshake
    <3>2. wire' \in Seq(Byte)
      BY <1>1, <3>1, WireIsSeq
    <3> QED
      BY <3>2
  <2>3. refused = FALSE
    BY <2>1, NothingBare DEF ReadInv
  <2> QED
    BY <2>1, <2>2, <2>3, NothingBare DEF ReadInv
<1>3. CASE Http1Ends
  <2>1. UNCHANGED <<wire, taken, prefix, prefix_pos, hyper, refused>> /\ task' = "done"
    BY <1>3 DEF Http1Ends
  <2>2. UNCHANGED has_bare_lf(prefix)
    BY <2>1
  <2> QED
    BY <2>1, <2>2 DEF ReadInv
<1>4. CASE serve_http2 \/ UNCHANGED all
  <2>1. UNCHANGED <<task, wire, taken, prefix, prefix_pos, hyper, refused>>
    BY <1>4 DEF serve_http2, http1, all
  <2>2. UNCHANGED has_bare_lf(prefix)
    BY <2>1
  <2> QED
    BY <2>1, <2>2 DEF ReadInv
<1>5. ASSUME NEW n \in 1 .. PeekSize, Peek(n) PROVE ReadInv'
  <2>1. /\ taken = 0 /\ prefix_pos' = 0 /\ hyper' = <<>> /\ wire' = wire
        /\ taken' = taken + n /\ taken + n <= Len(wire)
        /\ prefix' = SubSeq(wire, 1, n) /\ refused' = has_bare_lf(prefix')
        /\ task' = IF refused' THEN "done" ELSE "http1"
    BY <1>5 DEF Peek, Incoming, ReadInv
  <2>2. n \in Nat /\ n \in 0 .. Len(wire) /\ taken' = n /\ taken' \in 0 .. Len(wire)
    <3>1. n \in Nat
      BY ConnectionAssumption
    <3>2. n <= Len(wire) /\ taken' = n
      BY <2>1, <3>1
    <3> QED
      BY <1>len, <3>1, <3>2
  <2>3. prefix' \in Seq(Byte) /\ Len(prefix') = n
    <3>1. SubSeq(wire, 1, n) \in Seq(Byte) /\ Len(SubSeq(wire, 1, n)) = n
      BY <1>1, <2>2, Joined
    <3> QED
      BY <2>1, <3>1
  <2>4. /\ prefix' = SubSeq(wire', 1, Len(prefix')) /\ Len(prefix') <= taken'
        /\ prefix_pos' \in 0 .. Len(prefix') /\ Len(hyper') + (Len(prefix') - prefix_pos') = taken'
    BY <2>1, <2>2, <2>3, NothingBare
  <2>5. hyper' = SubSeq(wire', 1, Len(hyper')) /\ hyper' \in Seq(Byte) /\ Len(hyper') = prefix_pos'
    BY <2>1, NothingBare
  <2>6. task' \notin {"handshake", "peek", "http2"} /\ (refused' => task' = "done")
    BY <2>1
  <2> QED
    BY <1>1, <2>1, <2>2, <2>3, <2>4, <2>5, <2>6 DEF ReadInv
<1>6. ASSUME NEW room \in 1 .. MaxRoom, poll_read(room) PROVE ReadInv'
  <2>1. /\ UNCHANGED <<wire, prefix, refused>> /\ task = "http1" /\ task' = "http1"
    BY <1>6 DEF poll_read
  <2>room. room \in Nat /\ room >= 1
    BY ConnectionAssumption
  <2>2. refused' = has_bare_lf(prefix') /\ ~refused'
    <3>1. refused = has_bare_lf(prefix) /\ (refused => task = "done")
      BY DEF ReadInv
    <3> QED
      BY <2>1, <3>1
  <2>3. ASSUME NEW k \in 0 .. Len(wire), Len(hyper) <= k,
               hyper' = SubSeq(wire, 1, Len(hyper)) \o SubSeq(wire, Len(hyper) + 1, k)
        PROVE  hyper' = SubSeq(wire, 1, Len(hyper')) /\ hyper' \in Seq(Byte) /\ Len(hyper') = k
    <3>1. hyper' = SubSeq(wire, 1, k) /\ SubSeq(wire, 1, k) \in Seq(Byte) /\ Len(SubSeq(wire, 1, k)) = k
      BY <1>1, <1>len, <2>3, Joined
    <3> QED
      BY <3>1
  <2>4. CASE prefix_pos < Len(prefix)
    <3> DEFINE least == Min({Len(prefix), prefix_pos + room})
    <3>1. /\ prefix_pos' = least
          /\ hyper' = hyper \o SubSeq(prefix, prefix_pos + 1, prefix_pos') /\ taken' = taken
      BY <1>6, <2>4 DEF poll_read
    <3>2. least \in {Len(prefix), prefix_pos + room} /\ least <= Len(prefix)
      <4>1. {Len(prefix), prefix_pos + room} \in SUBSET Nat
        BY <1>len, <1>pos, <2>room
      <4> QED
        BY <4>1, MinLeast
    <3> HIDE DEF least
    <3>3. prefix_pos' \in 0 .. Len(prefix) /\ prefix_pos <= prefix_pos' /\ prefix_pos' \in 0 .. Len(wire)
      BY <1>len, <1>pos, <2>room, <2>4, <3>1, <3>2
    <3>4. Len(hyper) = prefix_pos /\ taken = Len(prefix) /\ prefix_pos + 1 \in Nat /\ prefix_pos + 1 >= 1
      BY <1>len, <1>pos, <2>4
    <3>5. SubSeq(prefix, prefix_pos + 1, prefix_pos') = SubSeq(wire, prefix_pos + 1, prefix_pos')
      <4>1. Len(prefix) <= Len(wire)
        BY <1>len, <1>pos
      <4> QED
        BY <1>1, <1>part, <3>3, <3>4, <4>1, PrefixPart
    <3>6. hyper' = SubSeq(wire, 1, Len(hyper)) \o SubSeq(wire, Len(hyper) + 1, prefix_pos')
      BY <1>part, <3>1, <3>4, <3>5
    <3>7. hyper' = SubSeq(wire, 1, Len(hyper')) /\ hyper' \in Seq(Byte) /\ Len(hyper') = prefix_pos'
      BY <2>3, <3>3, <3>4, <3>6
    <3>8. Len(hyper') + (Len(prefix') - prefix_pos') = taken' /\ taken' \in 0 .. Len(wire)
      <4>1. Len(prefix') = Len(prefix) /\ Len(hyper') = prefix_pos' /\ taken' = Len(prefix)
        BY <2>1, <3>1, <3>4, <3>7
      <4>2. prefix_pos' \in Nat /\ Len(prefix) \in Nat
        BY <1>len, <3>3
      <4>3. taken' \in 0 .. Len(wire)
        BY <1>pos, <3>1
      <4> QED
        BY <4>1, <4>2, <4>3
    <3> QED
      BY <1>1, <1>pos, <1>part, <2>1, <2>2, <3>1, <3>3, <3>7, <3>8 DEF ReadInv
  <2>5. CASE ~(prefix_pos < Len(prefix))
    <3>1. /\ \E n \in 1 .. room : Incoming(n, room)
          /\ hyper' = hyper \o SubSeq(wire, taken + 1, taken') /\ prefix_pos' = prefix_pos
      BY <1>6, <2>5 DEF poll_read
    <3>2. PICK n \in 1 .. room : taken + n <= Len(wire) /\ taken' = taken + n
      BY <3>1 DEF Incoming
    <3>3. taken' \in 0 .. Len(wire) /\ taken <= taken'
      BY <1>len, <1>pos, <2>room, <3>2
    <3>4. Len(hyper) = taken /\ prefix_pos = Len(prefix)
      BY <1>len, <1>pos, <2>5
    <3>5. hyper' = SubSeq(wire, 1, Len(hyper)) \o SubSeq(wire, Len(hyper) + 1, taken')
      BY <1>part, <3>1, <3>4
    <3>6. hyper' = SubSeq(wire, 1, Len(hyper')) /\ hyper' \in Seq(Byte) /\ Len(hyper') = taken'
      BY <2>3, <3>3, <3>4, <3>5
    <3>7. Len(hyper') + (Len(prefix') - prefix_pos') = taken' /\ Len(prefix') <= taken'
      BY <1>len, <1>pos, <2>1, <3>1, <3>3, <3>4, <3>6
    <3> QED
      <4>1. prefix' \in Seq(Byte) /\ wire' \in Seq(Byte) /\ prefix' = SubSeq(wire', 1, Len(prefix'))
        BY <1>1, <1>part, <2>1
      <4>2. prefix_pos' \in 0 .. Len(prefix') /\ ~(prefix_pos' < Len(prefix')) /\ taken' \in 0 .. Len(wire')
        BY <1>pos, <2>1, <2>5, <3>1, <3>3
      <4>3. hyper' = SubSeq(wire', 1, Len(hyper')) /\ hyper' \in Seq(Byte)
        BY <2>1, <3>6
      <4> QED
        BY <2>1, <2>2, <3>7, <4>1, <4>2, <4>3 DEF ReadInv
  <2> QED
    BY <2>4, <2>5
<1> QED
  BY <1>2, <1>3, <1>4, <1>5, <1>6 DEF ConnNext
-------------------------------------------------------------------------------
LEMMA ResetsHeld == ConnSpec => []ResetInv
<1>1. ConnInit => ResetInv
  BY ResetInit DEF ConnInit
<1>2. [ConnNext]_all => [Next]_vars
  BY DEF ConnNext, Handshake, Peek, poll_read, Http1Ends, serve_http2, all
<1>3. ResetInv /\ [ConnNext]_all => ResetInv'
  BY <1>2, ResetNext
<1> QED
  BY <1>1, <1>3, PTL DEF ConnSpec

(* A connection is ended only for more than Limit resets within one window of time, however
   requests, resets, completions and the select of serve_http2 interleave. *)
THEOREM Justified == ConnSpec => []KillJustified
<1>1. ResetInv => KillJustified
  BY DEF ResetInv, Trips, KillJustified
<1> QED
  BY <1>1, ResetsHeld, PTL

(* As long as record_reset has not returned true, no stretch of one window holds more than
   twice the allowance, whatever the rate and wherever the tumbling window lies. *)
THEOREM Undetected == ConnSpec => []UndetectedBound
<1>1. ResetInv => UndetectedBound
  BY DEF ResetInv, Untripped, UndetectedBound
<1> QED
  BY <1>1, ResetsHeld, PTL

(* hyper reads what the client sent, byte for byte, across the seam between the peeked bytes
   and the socket; or nothing, and that exactly if a parser that takes the bytes of the first
   read one by one meets a bare LF before the header section ends. *)
THEOREM ReadAllOrNothing == ConnSpec => []AllOrNothing
<1>1. ReadInv => AllOrNothing
  <2> SUFFICES ASSUME ReadInv PROVE AllOrNothing
    OBVIOUS
  <2>1. (Scan(prefix) = 5) = has_bare_lf(prefix)
    BY ScanIsCheck DEF ReadInv
  <2>2. refused = (Scan(prefix) = 5)
    BY <2>1 DEF ReadInv
  <2> QED
    BY <2>2 DEF ReadInv, AllOrNothing
<1> QED
  BY <1>1, ReadInit, ReadNext, PTL DEF ConnSpec
===============================================================================
