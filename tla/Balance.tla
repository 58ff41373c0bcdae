-------------------------------- MODULE Balance --------------------------------
(***************************************************************************)
(* The arithmetic of balance.rs: weights, the mapping of a point onto a    *)
(* server, the failover ring, and the load comparison of least-conn.       *)
(* Servers are numbered from 0, as in the code; an order of candidates is  *)
(* a sequence of server numbers.                                           *)
(***************************************************************************)
EXTENDS Integers, Sequences

CONSTANTS N,          \* upstream.servers.len()
          Weight      \* the configured weight of each server; 0 is allowed

Servers == 0 .. N - 1

ASSUME BalanceAssumption == N \in Nat \ {0} /\ Weight \in [Servers -> Nat]

weight_of(i) == IF Weight[i] = 0 THEN 1 ELSE Weight[i]

\* The running sum of index_for_point: the weights of servers 0 .. k-1.
Cumulative[k \in 0 .. N] == IF k = 0 THEN 0 ELSE Cumulative[k - 1] + weight_of(k - 1)

total_weight == Cumulative[N]

\* The first server whose running sum exceeds the point (0 if none does).
index_for_point(point) ==
    IF point < total_weight
    THEN CHOOSE i \in Servers : Cumulative[i] <= point /\ point < Cumulative[i + 1]
    ELSE 0

ring_order(primary) == [k \in 1 .. N |-> (primary + k - 1) % N]

\* Wrong on purpose: the weights are left out of the comparison.
LessInflight(a, la, b, lb) == la < lb

\* sort_by's comparison: is (la + 1) / weight(a) less than (lb + 1) / weight(b)?
LessLoaded(a, la, b, lb) == (la + 1) * weight_of(b) < (lb + 1) * weight_of(a)
===============================================================================
