------------------------------ MODULE Http2Reset ------------------------------
(***************************************************************************)
(* One HTTP/2 connection: the ResetTracker of security/rate_limit.rs, the  *)
(* StreamDropGuard of each request and the select of serve_http2 that ends *)
(* the connection (server.rs).                                             *)
(*                                                                         *)
(* Request futures run as tasks of their own, so resets race with each     *)
(* other, with completions and with the connection's select.  Time is a    *)
(* discrete clock; a request dropped before it has a response is a reset.  *)
(***************************************************************************)
EXTENDS Integers, FiniteSets

CONSTANTS Streams,     \* streams open at a time (max_concurrent_streams)
          Limit,       \* reset_rate.count
          Window,      \* reset_rate.window_seconds
          MaxTime,     \* bound on the clock
          MaxResets    \* bound on the resets of a run

ASSUME ResetAssumption ==
    /\ IsFiniteSet(Streams)
    /\ Limit \in Nat /\ Window \in Nat /\ MaxTime \in Nat /\ MaxResets \in Nat

VARIABLES
    now,       \* Instant::now()
    count, started,   \* WindowState
    stream,    \* the streams and their guards
    notified,  \* kill.notified() is ready
    cpc,       \* where serve_http2 is
    resets,    \* history: how many resets were recorded at each instant
    tripped    \* history: record_reset has returned true

vars == <<now, count, started, stream, notified, cpc, resets, tripped>>

Times == 0 .. MaxTime
\* The resets before each instant, and those recorded in from .. to.
Sums(r) == LET sum[t \in 0 .. MaxTime + 1] == IF t = 0 THEN 0 ELSE sum[t - 1] + r[t - 1] IN sum
ResetsIn(from, to) == LET last == IF to < MaxTime THEN to ELSE MaxTime
                      IN  Sums(resets)[last + 1] - Sums(resets)[from]

Init ==
    /\ now = 0 /\ count = 0 /\ started = 0
    /\ stream = [s \in Streams |-> "idle"]
    /\ notified = FALSE /\ cpc = "serving"
    /\ resets = [t \in Times |-> 0] /\ tripped = FALSE

Tick ==
    /\ now < MaxTime
    /\ now' = now + 1
    /\ UNCHANGED <<count, started, stream, notified, cpc, resets, tripped>>

\* hyper calls the service: a guard is made.  After graceful_shutdown streams
\* still come in until the peer has acknowledged the first GOAWAY.
Open(s) ==
    /\ cpc \in {"serving", "goaway"} /\ stream[s] = "idle"
    /\ stream' = [stream EXCEPT ![s] = "open"]
    /\ UNCHANGED <<now, count, started, notified, cpc, resets, tripped>>

\* The handler answered: guard.completed is set before the guard is dropped.
Complete(s) ==
    /\ stream[s] = "open"
    /\ stream' = [stream EXCEPT ![s] = "idle"]
    /\ UNCHANGED <<now, count, started, notified, cpc, resets, tripped>>

\* Wrong on purpose: an old window is never left.
RecordForever == count' = count + 1 /\ UNCHANGED started

\* Wrong on purpose: a full window is left as well.
RecordForgets ==
    IF now - started > Window \/ count >= Limit
    THEN count' = 1 /\ started' = now
    ELSE count' = count + 1 /\ UNCHANGED started

\* ResetTracker::record_reset, under the tracker's mutex: a reset more than a
\* window after the window began opens a new one.
record_reset ==
    IF now - started > Window
    THEN count' = 1 /\ started' = now
    ELSE count' = count + 1 /\ UNCHANGED started

\* StreamDropGuard::drop of a request that has no response.
Reset(s) ==
    /\ stream[s] = "open" /\ ResetsIn(0, MaxTime) < MaxResets
    /\ record_reset
    /\ resets' = [resets EXCEPT ![now] = @ + 1]
    /\ tripped' = (tripped \/ count' > Limit)
    /\ stream' = [stream EXCEPT ![s] = IF count' > Limit THEN "notify" ELSE "idle"]
    /\ UNCHANGED <<now, notified, cpc>>

\* kill.notify_waiters(): it reaches the select while that is waiting, and
\* nobody afterwards.
NotifyWaiters(s) ==
    /\ stream[s] = "notify"
    /\ notified' = (notified \/ cpc = "serving")
    /\ stream' = [stream EXCEPT ![s] = "idle"]
    /\ UNCHANGED <<now, count, started, cpc, resets, tripped>>

\* Wrong on purpose: the GOAWAY waits until no request is running.
KillWhenIdle ==
    /\ cpc = "serving" /\ notified /\ \A s \in Streams : stream[s] = "idle"
    /\ cpc' = "goaway"
    /\ UNCHANGED <<now, count, started, stream, notified, resets, tripped>>

\* The kill branch of the select: graceful_shutdown.
Kill ==
    /\ cpc = "serving" /\ notified
    /\ cpc' = "goaway"
    /\ UNCHANGED <<now, count, started, stream, notified, resets, tripped>>

GoawayAcked ==
    /\ cpc = "goaway"
    /\ cpc' = "draining"
    /\ UNCHANGED <<now, count, started, stream, notified, resets, tripped>>

\* conn.await returns once every stream is done.
Drained ==
    /\ cpc = "draining" /\ \A s \in Streams : stream[s] = "idle"
    /\ cpc' = "closed"
    /\ UNCHANGED <<now, count, started, stream, notified, resets, tripped>>

\* The peer closes, or the transport fails: the requests that are still open
\* are dropped, each through its guard.
PeerGone ==
    /\ cpc # "closed"
    /\ cpc' = "closed"
    /\ UNCHANGED <<now, count, started, stream, notified, resets, tripped>>

Next ==
    \/ Tick \/ Kill \/ GoawayAcked \/ Drained \/ PeerGone
    \/ \E s \in Streams : Open(s) \/ Complete(s) \/ Reset(s) \/ NotifyWaiters(s)

\* The runtime polls the woken select, and the connection that drains, and runs a drop to
\* its end.  Neither the peer nor a handler has to do anything.
Spec == Init /\ [][Next]_vars /\ WF_vars(Kill) /\ WF_vars(Drained)
             /\ \A s \in Streams : WF_vars(NotifyWaiters(s))
-------------------------------------------------------------------------------

(* A connection is ended only for more than Limit resets within one window of
   time: however requests complete and resets race, a client that stays within
   the configured rate is never cut off. *)
KillJustified ==
    (notified \/ cpc \in {"goaway", "draining"})
        => \E t \in Times : ResetsIn(t, t + Window) > Limit

(* What the tumbling window of record_reset guarantees: as long as it has not
   tripped, no stretch of one window holds more than twice the allowance. *)
UndetectedBound == ~tripped => \A t \in Times : ResetsIn(t, t + Window) <= 2 * Limit

(* Once record_reset has returned true the connection comes to its end, whatever the
   requests that are still running do: the notification is not lost between the guard's drop
   and the select, and the drain ends too.  What it waits for: the peer's acknowledgement of
   the GOAWAY, until which streams still come in, and handlers that never answer. *)
TripDrains ==
    tripped ~> \/ cpc = "closed" \/ [](cpc = "goaway")
               \/ \E s \in Streams : [](cpc = "draining" /\ stream[s] = "open")
===============================================================================
