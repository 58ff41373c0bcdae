----------------------------- MODULE ProxyDispatch -----------------------------
(***************************************************************************)
(* Proxied work racing over one upstream: HTTP requests that run           *)
(* dispatch_proxy (handler.rs) with ProxyClient::forward (proxy.rs), and   *)
(* TCP streams that run the task of accept_stream_loop (server.rs).  Both  *)
(* take their candidates from a Balancer and hold an InflightGuard.        *)
(*                                                                         *)
(* The tasks are the requests of one HTTP block or the connections of one  *)
(* stream block; these never share a balancer.  The HTTP block's Balancer  *)
(* is rebuilt at every reload while requests that hold the previous        *)
(* handler go on with theirs, so there is one pool per generation of the   *)
(* handler; the stream block keeps its first one.                          *)
(***************************************************************************)
EXTENDS Balance, FiniteSets

CONSTANTS Tasks,        \* requests or connections in progress; an idle one may start again
          Strategies,   \* the values of upstream.strategy that are looked at
          HashIp,       \* hash_ip of each task's client
          Allowed,      \* the servers is_upstream_allowed lets through
          CursorRange,  \* rr_cursor wraps here (2^64 in the code)
          MaxReloads    \* bound on the reloads of a run

Pools == 1 .. MaxReloads + 1
NoServer == -1

ASSUME DispatchAssumption ==
    /\ IsFiniteSet(Tasks) /\ HashIp \in [Tasks -> Nat] /\ Allowed \subseteq Servers
    /\ CursorRange \in Nat \ {0} /\ MaxReloads \in Nat
    /\ Strategies \subseteq {"round-robin", "least-conn", "ip-hash"}

\* std's stable sort is an insertion sort up to this length.  Longer slices are merged from
\* runs, and that sort may also panic when the order changes under it.
InsertionSorted == 20

ASSUME SortAssumption == "least-conn" \in Strategies => N <= InsertionSorted

VARIABLES
    kind,       \* what the tasks are: "http" requests or "stream" connections
    strategy,   \* upstream.strategy
    gen,        \* the generation of the current handler
    cursor,     \* PoolState.rr_cursor, per pool
    inflight,   \* PoolState.inflight, per pool and server
    pc, pool,   \* where a task is, and the balancer its handler holds
    order,      \* the candidates, while and after they are sorted
    ins,        \* the sort's locals: the element being inserted and where it is
    k,          \* the next candidate
    guard,      \* the server of the task's InflightGuard
    status,     \* last_status, then the answer
    tried, refused, delivered,  \* servers the task went to, that refused the
                                \* connection, and that got the request
    quiet,      \* no gauge of the pool moved since the task began to sort
    picks       \* how often each server was the round-robin pick since the cursor was 0

vars == <<kind, strategy, gen, cursor, inflight, pc, pool, order, ins, k, guard, status, tried,
          refused, delivered, quiet, picks>>
pools == <<kind, strategy, gen, cursor, inflight, quiet, picks>>

Init ==
    /\ kind \in {"http", "stream"} /\ strategy \in Strategies
    /\ gen = 1
    /\ cursor = [p \in Pools |-> 0]
    /\ inflight = [p \in Pools |-> [i \in Servers |-> 0]]
    /\ pc = [t \in Tasks |-> "idle"]
    /\ pool = [t \in Tasks |-> 1]
    /\ order = [t \in Tasks |-> <<>>]
    /\ ins = [t \in Tasks |-> <<1, 1>>]
    /\ k = [t \in Tasks |-> 1]
    /\ guard = [t \in Tasks |-> NoServer]
    /\ status = [t \in Tasks |-> "none"]
    /\ tried = [t \in Tasks |-> {}]
    /\ refused = [t \in Tasks |-> {}]
    /\ delivered = [t \in Tasks |-> {}]
    /\ quiet = [t \in Tasks |-> FALSE]
    /\ picks = [p \in Pools |-> [i \in Servers |-> 0]]

Pending(t) == pc[t] \notin {"idle", "done"}
Holders(p, i) == {t \in Tasks : guard[t] = i /\ pool[t] = p}
-------------------------------------------------------------------------------
(* Balancer::candidates. *)
Begin(t, p, o, next) ==
    /\ ~Pending(t)
    /\ p \in IF kind = "stream" THEN {1} ELSE 1 .. gen
    /\ pool' = [pool EXCEPT ![t] = p]
    /\ order' = [order EXCEPT ![t] = o]
    /\ k' = [k EXCEPT ![t] = 1]
    /\ status' = [status EXCEPT ![t] = "bad_gateway"]
    /\ tried' = [tried EXCEPT ![t] = {}]
    /\ refused' = [refused EXCEPT ![t] = {}]
    /\ delivered' = [delivered EXCEPT ![t] = {}]
    /\ pc' = [pc EXCEPT ![t] = next]
    /\ UNCHANGED <<kind, strategy, gen, inflight, guard>>

\* Wrong on purpose: the cursor is read and written back, so updates get lost.
PickLostUpdate(t, p) ==
    LET primary == index_for_point(cursor[p] % total_weight) IN
    /\ strategy = "round-robin" /\ N > 1
    /\ Begin(t, p, ring_order(primary), "try")
    /\ cursor' \in {cursor, [cursor EXCEPT ![p] = (cursor[p] + 1) % CursorRange]}
    /\ picks' = [picks EXCEPT ![p] =
                   IF cursor'[p] = 0 THEN [i \in Servers |-> 0]
                   ELSE [picks[p] EXCEPT ![primary] = @ + 1]]
    /\ UNCHANGED <<ins, quiet>>

RoundRobin(t, p) ==
    LET primary == index_for_point(cursor[p] % total_weight) IN
    /\ strategy = "round-robin" /\ N > 1
    /\ Begin(t, p, ring_order(primary), "try")
    /\ cursor' = [cursor EXCEPT ![p] = (cursor[p] + 1) % CursorRange]
    /\ picks' = [picks EXCEPT ![p] =
                   IF cursor'[p] = 0 THEN [i \in Servers |-> 0]
                   ELSE [picks[p] EXCEPT ![primary] = @ + 1]]
    /\ UNCHANGED <<ins, quiet>>

\* ip-hash, and any strategy with a single server: the order depends on the
\* client only.
FixedOrder(t, p) ==
    /\ strategy = "ip-hash" \/ N = 1
    /\ Begin(t, p, ring_order(index_for_point(HashIp[t] % total_weight)), "try")
    /\ UNCHANGED <<cursor, ins, quiet, picks>>

LeastConn(t, p) ==
    /\ strategy = "least-conn" /\ N > 1
    /\ Begin(t, p, [j \in 1 .. N |-> j - 1], "sort")
    /\ ins' = [ins EXCEPT ![t] = <<2, 2>>]
    /\ quiet' = [quiet EXCEPT ![t] = TRUE]
    /\ UNCHANGED <<cursor, picks>>

\* One comparison of sort_by's insertion sort (SortAssumption): the element at
\* ins[2] is compared with its left neighbour.  The gauges are read again at every
\* comparison and other tasks move them in between.
Compare(t) ==
    LET i == ins[t][1]  j == ins[t][2]  p == pool[t]
        a == order[t][j]  b == order[t][j - 1]
        less == LessLoaded(a, inflight[p][a], b, inflight[p][b])
        settled == ~less \/ j = 2
    IN
    /\ pc[t] = "sort"
    /\ order' = IF less THEN [order EXCEPT ![t] = [@ EXCEPT ![j] = b, ![j - 1] = a]]
                ELSE order
    /\ ins' = [ins EXCEPT ![t] = IF settled THEN <<i + 1, i + 1>> ELSE <<i, j - 1>>]
    /\ pc' = [pc EXCEPT ![t] = IF settled /\ i = N THEN "try" ELSE "sort"]
    /\ UNCHANGED <<pools, pool, k, guard, status, tried, delivered, refused>>
-------------------------------------------------------------------------------
(* Balancer::track and InflightGuard::drop. *)

track(t, i) ==
    /\ inflight' = [inflight EXCEPT ![pool[t]][i] = @ + 1]
    /\ guard' = [guard EXCEPT ![t] = i]
    /\ quiet' = [u \in Tasks |-> quiet[u] /\ pool[u] # pool[t]]

\* Wrong on purpose: only a completed exchange gives the gauge back.
DropWhenAnswered(t) ==
    /\ inflight' = IF pc'[t] = "done" THEN [inflight EXCEPT ![pool[t]][guard[t]] = @ - 1]
                   ELSE inflight
    /\ guard' = [guard EXCEPT ![t] = NoServer]
    /\ quiet' = [u \in Tasks |-> quiet[u] /\ pool[u] # pool[t]]

drop(t) ==
    /\ inflight' = [inflight EXCEPT ![pool[t]][guard[t]] = @ - 1]
    /\ guard' = [guard EXCEPT ![t] = NoServer]
    /\ quiet' = [u \in Tasks |-> quiet[u] /\ pool[u] # pool[t]]

Goto(t, l) == pc' = [pc EXCEPT ![t] = l]
Answer(t, s) == Goto(t, "done") /\ status' = [status EXCEPT ![t] = s]
NextCandidate(t) == k' = [k EXCEPT ![t] = @ + 1]
kept == <<kind, strategy, gen, cursor, pool, order, ins, picks>>
-------------------------------------------------------------------------------
(* dispatch_proxy: the loop over the candidates. *)
Exhausted(t) ==
    /\ pc[t] = "try" /\ k[t] > Len(order[t])
    /\ Answer(t, IF kind = "http" THEN status[t] ELSE "unreachable")
    /\ UNCHANGED <<kept, inflight, k, guard, tried, delivered, quiet, refused>>

Disallowed(t) ==
    /\ kind = "http"
    /\ pc[t] = "try" /\ k[t] <= Len(order[t]) /\ order[t][k[t]] \notin Allowed
    /\ status' = [status EXCEPT ![t] = "forbidden"]
    /\ NextCandidate(t)
    /\ UNCHANGED <<kept, inflight, pc, guard, tried, delivered, quiet, refused>>

Forward(t) ==
    /\ kind = "http"
    /\ pc[t] = "try" /\ k[t] <= Len(order[t]) /\ order[t][k[t]] \in Allowed
    /\ track(t, order[t][k[t]])
    /\ tried' = [tried EXCEPT ![t] = @ \cup {order[t][k[t]]}]
    /\ Goto(t, "forward")
    /\ UNCHANGED <<kept, k, status, delivered, refused>>

\* Wrong on purpose: a candidate that failed is not moved past.
StuckOnCandidate(t) ==
    /\ pc[t] = "forward"
    /\ Goto(t, "try") /\ drop(t)
    /\ refused' = [refused EXCEPT ![t] = @ \cup {guard[t]}]
    /\ status' = [status EXCEPT ![t] = "bad_gateway"]
    /\ UNCHANGED <<kept, k, tried, delivered>>

\* Wrong on purpose: the first refusal ends the sweep.
NoFailover(t) ==
    /\ pc[t] = "forward"
    /\ Answer(t, "bad_gateway") /\ drop(t)
    /\ refused' = [refused EXCEPT ![t] = @ \cup {guard[t]}]
    /\ UNCHANGED <<kept, k, tried, delivered>>

\* forward returned ProxyError::Connect: nothing was sent; on to the next.
ConnectError(t) ==
    /\ pc[t] = "forward"
    /\ Goto(t, "try") /\ drop(t)
    /\ refused' = [refused EXCEPT ![t] = @ \cup {guard[t]}]
    /\ status' = [status EXCEPT ![t] = "bad_gateway"]
    /\ NextCandidate(t)
    /\ UNCHANGED <<kept, tried, delivered>>

\* Wrong on purpose: every failure counts as a connect failure.
RetryAfterSend(t) ==
    /\ pc[t] = "forward"
    /\ \E sent \in {{}, {guard[t]}} : delivered' = [delivered EXCEPT ![t] = @ \cup sent]
    /\ Goto(t, "try") /\ drop(t)
    /\ NextCandidate(t)
    /\ UNCHANGED <<kept, status, tried, refused>>

\* forward returned ProxyError::Status before a response head: the deadline
\* passed (504) or the transport failed (502), the request sent or not.
ForwardError(t) ==
    /\ pc[t] = "forward"
    /\ \E sent \in {{}, {guard[t]}} : delivered' = [delivered EXCEPT ![t] = @ \cup sent]
    /\ \E s \in {"gateway_timeout", "bad_gateway"} : Answer(t, s)
    /\ drop(t)
    /\ UNCHANGED <<kept, k, tried, refused>>

\* The response head is there; forward checks its framing and collects the body.
ResponseHead(t) ==
    /\ pc[t] = "forward"
    /\ delivered' = [delivered EXCEPT ![t] = @ \cup {guard[t]}]
    /\ Goto(t, "body")
    /\ UNCHANGED <<kept, inflight, k, guard, status, tried, quiet, refused>>

\* Ambiguous framing, a body over the limit or cut short (502), or the answer.
BodyDone(t) ==
    /\ pc[t] = "body"
    /\ \E s \in {"ok", "bad_gateway"} : Answer(t, s)
    /\ drop(t)
    /\ UNCHANGED <<kept, k, tried, delivered, refused>>

\* The client went away: hyper drops the request's future where it awaits.
Cancel(t) ==
    /\ kind = "http"
    /\ pc[t] \in {"forward", "body"}
    /\ \E sent \in {{}, {guard[t]}} : delivered' = [delivered EXCEPT ![t] = @ \cup sent]
    /\ Goto(t, "idle") /\ drop(t)
    /\ UNCHANGED <<kept, k, status, tried, refused>>
-------------------------------------------------------------------------------
(* The task of accept_stream_loop: connect within 10 s or try the next; the  *)
(* gauge counts established streams only, and no server is filtered.         *)
StreamConnect(t) ==
    /\ kind = "stream"
    /\ pc[t] = "try" /\ k[t] <= Len(order[t])
    /\ tried' = [tried EXCEPT ![t] = @ \cup {order[t][k[t]]}]
    /\ Goto(t, "connect")
    /\ UNCHANGED <<kept, inflight, k, guard, status, delivered, quiet, refused>>

StreamRefused(t) ==
    /\ pc[t] = "connect"
    /\ Goto(t, "try") /\ NextCandidate(t)
    /\ refused' = [refused EXCEPT ![t] = @ \cup {order[t][k[t]]}]
    /\ UNCHANGED <<kept, inflight, guard, status, tried, delivered, quiet>>

StreamOpen(t) ==
    /\ pc[t] = "connect"
    /\ track(t, order[t][k[t]])
    /\ delivered' = [delivered EXCEPT ![t] = @ \cup {order[t][k[t]]}]
    /\ Goto(t, "copy")
    /\ UNCHANGED <<kept, k, status, tried, refused>>

\* copy_bidirectional returned.
StreamClosed(t) ==
    /\ pc[t] = "copy"
    /\ Answer(t, "ok") /\ drop(t)
    /\ UNCHANGED <<kept, k, tried, delivered, refused>>

\* A reload builds a new handler, hence a new Balancer with fresh pools.
Reload ==
    /\ gen <= MaxReloads
    /\ gen' = gen + 1
    /\ UNCHANGED <<kind, strategy, cursor, inflight, pc, pool, order, ins, k, guard, status, tried,
                   refused, delivered, quiet, picks>>

Start(t) == \E p \in Pools : RoundRobin(t, p) \/ FixedOrder(t, p) \/ LeastConn(t, p)

\* What the code itself bounds: its own steps, the response head (the deadline of
\* forward) and a stream's connect (10 s).
Bounded(t) == \/ Compare(t) \/ Exhausted(t) \/ Disallowed(t) \/ Forward(t)
              \/ ConnectError(t) \/ ForwardError(t) \/ ResponseHead(t)
              \/ StreamConnect(t) \/ StreamRefused(t) \/ StreamOpen(t)

Next == Reload \/ \E t \in Tasks : Start(t) \/ Bounded(t) \/ BodyDone(t) \/ Cancel(t)
                                     \/ StreamClosed(t)

Spec == Init /\ [][Next]_vars /\ \A t \in Tasks : WF_vars(Bounded(t))
-------------------------------------------------------------------------------
(* An in-flight gauge is the number of guards that point at it, in every
   generation of the pool: failover, errors, cancelled requests and reloads
   neither leak a count nor give one back twice, nor to another pool. *)
GaugeExact ==
    \A p \in Pools, i \in Servers : inflight[p][i] = Cardinality(Holders(p, i))

(* A request or stream is handed to at most one server, and a request only to
   one the filter allows: failover never repeats what may have been sent. *)
DeliveredOnce ==
    \A t \in Tasks : /\ Cardinality(delivered[t]) <= 1
                     /\ kind = "http" => delivered[t] \subseteq Allowed

(* When nothing but refused connections happened to a request or stream, it is
   given up only after every server that may be tried has refused it. *)
FailoverComplete ==
    \A t \in Tasks : (pc[t] = "done" /\ tried[t] = refused[t])
                       => tried[t] = IF kind = "http" THEN Allowed ELSE Servers

(* If no gauge moved while it was computed, the least-conn order is by weighted
   load, ties by position in the configuration. *)
LeastConnOrder ==
    \A t \in Tasks : (pc[t] = "try" /\ quiet[t]) =>
        \A i, j \in 1 .. N : i < j =>
            LET a == order[t][i]  b == order[t][j]
                la == inflight[pool[t]][a]  lb == inflight[pool[t]][b]
                wa == (la + 1) * weight_of(b)  wb == (lb + 1) * weight_of(a)
            IN wa < wb \/ (wa = wb /\ a < b)

(* After every full round of total_weight picks each server has been the
   round-robin pick exactly as often as its weight says, whichever requests
   took the picks; a wrap of the cursor starts the count anew. *)
RoundRobinFair ==
    \A p \in Pools, i \in Servers :
        cursor[p] % total_weight = 0 =>
            picks[p][i] = (cursor[p] \div total_weight) * weight_of(i)

(* Every started request or stream gets as far as a response head, an open
   stream or an answer: the sweep over the candidates ends. *)
SweepEnds ==
    \A t \in Tasks : pc[t] \in {"sort", "try", "forward", "connect"}
                       ~> pc[t] \in {"body", "copy", "done", "idle"}
===============================================================================
