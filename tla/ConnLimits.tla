------------------------------ MODULE ConnLimits ------------------------------
(***************************************************************************)
(* Admission of connections: the process-wide atomic counter of            *)
(* security/limits.rs, the accept loops of server.rs that race on it, and  *)
(* the ConnectionGuard that gives a slot back.                             *)
(*                                                                         *)
(* HttpLoops are accept_loop tasks (plain and TLS), QuicLoops are          *)
(* accept_quic_loop tasks, RawLoops are accept_stream_loop and             *)
(* accept_mail_loop tasks.  Every atomic operation on ACTIVE_CONNECTIONS   *)
(* is a step of its own; between the fetch_add of a failing attempt and    *)
(* its fetch_sub the counter runs above the number of slots in use.        *)
(***************************************************************************)
EXTENDS Integers, FiniteSets

CONSTANTS Conns,            \* connections; a closed one may be opened again
          HttpLoops, QuicLoops, RawLoops,
          MaxConnections,   \* limits.rs MAX_CONNECTIONS
          NoConn            \* an idle loop holds no connection

Loops == HttpLoops \cup QuicLoops \cup RawLoops

ASSUME LimitsAssumption ==
    /\ MaxConnections \in Nat
    /\ IsFiniteSet(Conns) /\ IsFiniteSet(Loops)
    /\ NoConn \notin Conns
    /\ HttpLoops \cap QuicLoops = {}
    /\ (HttpLoops \cup QuicLoops) \cap RawLoops = {}

VARIABLES
    active,   \* ACTIVE_CONNECTIONS
    pc,       \* where each accept loop is
    cur,      \* the connection a loop has just accepted
    prev,     \* the loop's local: what its fetch_add returned
    conn      \* what became of each connection

vars == <<active, pc, cur, prev, conn>>

\* "shed": answered by send_503, which holds no slot.  "tunnel": an upgraded
\* CONNECT connection, whose serving future (and guard) has already ended.
\* "raw": a stream or mail connection, which never asks for a slot.
ConnState == {"accepted", "serving", "shed", "tunnel", "raw", "closed"}

Serving   == {c \in Conns : conn[c] = "serving"}
Deciding  == {l \in Loops : pc[l] = "decide"}
Winners   == {l \in Deciding : prev[l] < MaxConnections}

Init ==
    /\ active = 0
    /\ pc     = [l \in Loops |-> "accept"]
    /\ cur    = [l \in Loops |-> NoConn]
    /\ prev   = [l \in Loops |-> 0]
    /\ conn   = [c \in Conns |-> "closed"]

-------------------------------------------------------------------------------
(* accept() yields a connection.  The stream and mail loops spawn its task  *)
(* at once, without consulting any limit.                                   *)
AcceptChecked(l, c) ==
    /\ l \in HttpLoops \cup QuicLoops
    /\ pc[l] = "accept" /\ conn[c] = "closed"
    /\ conn' = [conn EXCEPT ![c] = "accepted"]
    /\ cur'  = [cur EXCEPT ![l] = c]
    /\ pc'   = [pc EXCEPT ![l] = "memory"]
    /\ UNCHANGED <<active, prev>>

AcceptRaw(l, c) ==
    /\ l \in RawLoops
    /\ pc[l] = "accept" /\ conn[c] = "closed"
    /\ conn' = [conn EXCEPT ![c] = "raw"]
    /\ UNCHANGED <<active, pc, cur, prev>>

\* accept() failed: the TCP loops sleep 100 ms and go on.
AcceptError(l) ==
    /\ l \in HttpLoops \cup RawLoops
    /\ pc[l] = "accept"
    /\ pc' = [pc EXCEPT ![l] = "sleep"]
    /\ UNCHANGED <<active, cur, prev, conn>>

Wake(l) ==
    /\ pc[l] = "sleep"
    /\ pc' = [pc EXCEPT ![l] = "accept"]
    /\ UNCHANGED <<active, cur, prev, conn>>

\* A refused TCP connection is handed to send_503; a refused QUIC one is dropped.
Refuse(l) ==
    /\ conn' = [conn EXCEPT ![cur[l]] = IF l \in HttpLoops THEN "shed" ELSE "closed"]
    /\ cur'  = [cur EXCEPT ![l] = NoConn]
    /\ pc'   = [pc EXCEPT ![l] = "accept"]

\* check_memory_pressure reads /proc/meminfo: either answer is possible.
MemoryPressure(l) ==
    /\ pc[l] = "memory"
    /\ Refuse(l)
    /\ UNCHANGED <<active, prev>>

MemoryFine(l) ==
    /\ pc[l] = "memory"
    /\ pc' = [pc EXCEPT ![l] = "acquire"]
    /\ UNCHANGED <<active, cur, prev, conn>>

\* acquire_connection: the fetch_add.
FetchAdd(l) ==
    /\ pc[l] = "acquire"
    /\ prev'   = [prev EXCEPT ![l] = active]
    /\ active' = active + 1
    /\ pc'     = [pc EXCEPT ![l] = "decide"]
    /\ UNCHANGED <<cur, conn>>

\* Wrong on purpose: a refused attempt retries instead of refusing.
GiveBackRetries(l) ==
    /\ pc[l] = "decide" /\ prev[l] >= MaxConnections
    /\ active' = active - 1
    /\ pc'     = [pc EXCEPT ![l] = "acquire"]
    /\ UNCHANGED <<cur, prev, conn>>

\* acquire_connection: the cap was reached, so the increment is taken back.
GiveBack(l) ==
    /\ pc[l] = "decide" /\ prev[l] >= MaxConnections
    /\ active' = active - 1
    /\ Refuse(l)
    /\ UNCHANGED prev

\* Wrong on purpose: prev > MAX_CONNECTIONS as the test for refusal.
SpawnAtCap(l) ==
    /\ pc[l] = "decide" /\ prev[l] <= MaxConnections
    /\ conn' = [conn EXCEPT ![cur[l]] = "serving"]
    /\ cur'  = [cur EXCEPT ![l] = NoConn]
    /\ pc'   = [pc EXCEPT ![l] = "accept"]
    /\ UNCHANGED <<active, prev>>

\* acquire_connection returned true: the connection task is spawned with its guard.
Spawn(l) ==
    /\ pc[l] = "decide" /\ prev[l] < MaxConnections
    /\ conn' = [conn EXCEPT ![cur[l]] = "serving"]
    /\ cur'  = [cur EXCEPT ![l] = NoConn]
    /\ pc'   = [pc EXCEPT ![l] = "accept"]
    /\ UNCHANGED <<active, prev>>

\* Wrong on purpose: the error path of the task forgets release_connection.
FinishLeaks(c) ==
    /\ conn[c] = "serving"
    /\ active' \in {active, active - 1}
    /\ conn'   = [conn EXCEPT ![c] = "closed"]
    /\ UNCHANGED <<pc, cur, prev>>

\* The connection task ends, for whatever reason: ConnectionGuard::drop runs
\* release_connection.
Finish(c) ==
    /\ conn[c] = "serving"
    /\ active' = active - 1
    /\ conn'   = [conn EXCEPT ![c] = "closed"]
    /\ UNCHANGED <<pc, cur, prev>>

\* Wrong on purpose: an upgraded connection takes its guard's slot with it.
UpgradeLeaks(c) ==
    /\ conn[c] = "serving"
    /\ conn' = [conn EXCEPT ![c] = "tunnel"]
    /\ UNCHANGED <<active, pc, cur, prev>>

\* A CONNECT upgrade: serve_connection(..).with_upgrades() returns and the guard
\* is dropped, while the tunnel task handle_connect spawned goes on.
Upgrade(c) ==
    /\ conn[c] = "serving"
    /\ active' = active - 1
    /\ conn'   = [conn EXCEPT ![c] = "tunnel"]
    /\ UNCHANGED <<pc, cur, prev>>

\* A connection that holds no slot ends.
FinishUncounted(c) ==
    /\ conn[c] \in {"shed", "tunnel", "raw"}
    /\ conn' = [conn EXCEPT ![c] = "closed"]
    /\ UNCHANGED <<active, pc, cur, prev>>

LoopStep(l) == Wake(l) \/ MemoryPressure(l) \/ MemoryFine(l) \/ FetchAdd(l)
                       \/ GiveBack(l) \/ Spawn(l)

Next ==
    \/ \E l \in Loops : LoopStep(l) \/ AcceptError(l)
    \/ \E l \in Loops, c \in Conns : AcceptChecked(l, c) \/ AcceptRaw(l, c)
    \/ \E c \in Conns : Finish(c) \/ Upgrade(c) \/ FinishUncounted(c)

\* Tokio polls a runnable accept loop again.  Nothing is assumed of clients: they
\* need not connect, and a connection need never end.
Spec == Init /\ [][Next]_vars /\ \A l \in Loops : WF_vars(LoopStep(l))
-------------------------------------------------------------------------------
(* Every variable ranges over the values the code can give it.  The counter is
   a usize: a release without a slot would wrap it, so 0 is a bound here. *)
TypeOK ==
    /\ active \in Nat
    /\ pc   \in [Loops -> {"accept", "sleep", "memory", "acquire", "decide"}]
    /\ cur  \in [Loops -> Conns \cup {NoConn}]
    /\ prev \in [Loops -> Nat]
    /\ conn \in [Conns -> ConnState]

(* A loop past accept() owns exactly the connection it accepted: no connection
   is decided by two loops, dropped between the checks, or decided twice. *)
OwnedByOneLoop ==
    /\ \A l \in Loops : /\ (cur[l] # NoConn) <=> (pc[l] \in {"memory", "acquire", "decide"})
                        /\ cur[l] # NoConn => conn[cur[l]] = "accepted"
    /\ \A l, m \in Loops : cur[l] = cur[m] /\ cur[l] # NoConn => l = m

(* ACTIVE_CONNECTIONS is the number of live ConnectionGuards plus the attempts
   between their fetch_add and their verdict: whatever the interleaving of
   acquire_connection and release_connection, no slot leaks and none is
   released twice. *)
CounterExact == active = Cardinality(Serving) + Cardinality(Deciding)

(* The cap of limits.rs: at most MaxConnections connections hold a guard, even
   though the test in acquire_connection is made on a stale value of a counter
   other loops have moved since. *)
CapHolds == Cardinality(Serving) <= MaxConnections

(* CapHolds is not inductive: a loop whose fetch_add saw room is still to spawn
   its connection, so it has to be counted in. *)
SlotsPromised == Cardinality(Serving) + Cardinality(Winners) <= MaxConnections

(* acquire_connection refuses only under load: when a fetch_add returns a value
   at the cap, fewer than one slot per competing accept loop was free.  (It may
   refuse although slots are free: the increments other failing attempts have
   not yet taken back count against it.) *)
RefusedNearCap ==
    [][\A l \in Loops :
         (pc[l] = "acquire" /\ pc'[l] = "decide" /\ prev'[l] >= MaxConnections)
           => Cardinality(Serving) + Cardinality(HttpLoops \cup QuicLoops) > MaxConnections]_vars

(* The atomic counter implements the abstract admission set. *)
Admission == INSTANCE BoundedAdmission WITH held <- Serving
AdmissionSpec == Admission!Spec

(* A loop that accepted a connection, or is sleeping off an accept error, always
   comes back to accept(): admission never blocks the listener. *)
LoopReturns == \A l \in Loops : pc[l] # "accept" ~> pc[l] = "accept"
===============================================================================
